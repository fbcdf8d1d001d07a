---------------------------- MODULE YieldPolicy -----------------------------
(***************************************************************************)
(* The policer, space/policy/pkg/controller/yieldpolicy: when a policy's   *)
(* condition holds of its source and target digis, the children that both  *)
(* mount and that are active at the source become inactive there and       *)
(* active at the target.  The source is written before the target.         *)
(*                                                                         *)
(* doEnforce always returns nil: nothing is put back.  A condition that is *)
(* no jq ends the process; conditions here are tests of the source's       *)
(* attribute.  Updates that change no mount are left out, for they change  *)
(* nothing.                                                                *)
(***************************************************************************)
EXTENDS SpaceStore

CONSTANT Fires  \* the values of the source's attribute a condition is true of

VARIABLES
    pol,    \* the worker: step, policies to enforce and the mounts to write
    dropped \* history: policies whose yield was lost, or half of it

PolIdle == [st |-> "idle", todo |-> {}, digi |-> Nothing, of |-> Nothing,
            spec |-> NoSpec, srcMounts |-> <<>>, dstMounts |-> <<>>]
InLoop == pol.st = "loop"

PolTypeOK ==
    /\ pol.st \in {"idle", "loop", "source", "target"}
    /\ pol.todo \subseteq PolicyName /\ pol.of \in PolicyName \cup {Nothing}
    /\ dropped \subseteq PolicyName

PolTake(req) == "policy" \in up /\ pol.st = "idle" /\ req \in queue["policy"]
PolDone(req) == queue' = [queue EXCEPT !["policy"] = @ \ {req}]

\* mutant: the policies of the digi as a source.
PolEnforceSource(d, idx) ==
    pol' = [PolIdle EXCEPT !.st = "loop", !.digi = d,
                           !.todo = {n \in PolicyName : idx[d][n] # NoSpec /\ idx[d][n].src = d}]

\* doEnforce takes the policies a digi is the source or the target of.
PolEnforce(d, idx) ==
    pol' = [PolIdle EXCEPT !.st = "loop", !.digi = d,
                           !.todo = {n \in PolicyName : idx[d][n] # NoSpec}]

\* PolicyCache.Add and PolicyCache.Remove do what the caches of the syncer do.
PolicyCacheAdd(n) == CacheAdd("policy", n, objs[n])
PolicyCacheRemove(n) == CacheRemove(n)

\* doPolicy: the object is indexed, and enforced as for its source.
PolicyAdd(n) ==
    /\ PolTake(<<"spec", n>>) /\ objs[n] # NoSpec
    /\ PolicyCacheAdd(n)
    /\ IF WatchesBoth("policy", objs[n]) THEN PolEnforce(objs[n].src, index') ELSE UNCHANGED pol
    /\ UNCHANGED <<digis, objs, up, fails, dropped>>

\* doPolicy of an object that is gone.
PolicyGone(n) ==
    /\ PolTake(<<"spec", n>>) /\ objs[n] = NoSpec
    /\ PolicyCacheRemove(n) /\ PolDone(<<"spec", n>>)
    /\ UNCHANGED <<digis, objs, up, pol, fails, dropped>>

PolicyEnforce(d) ==
    /\ PolTake(<<"enforce", d>>)
    /\ PolDone(<<"enforce", d>>) /\ PolEnforce(d, index)
    /\ UNCHANGED <<digis, objs, up, caches, fails, dropped>>

-----------------------------------------------------------------------------
(* The loop of doEnforce.                                                  *)

\* The children that change hands.
Yielded(s) == {k \in Digi : mounts[s.src][k] = "active" /\ mounts[s.dst][k] # "none"}
With(ms, ks, st) == [k \in Digi |-> IF k \in ks THEN st ELSE ms[k]]

\* The condition is true of the digis, and there is something to yield.
Due(s) ==
    /\ GetObj(s.src) /\ GetObj(s.dst) /\ attr[s.src] \in Fires
    /\ Yielded(s) # {}

PolicyRead(n) ==
    /\ InLoop /\ n \in pol.todo
    /\ LET s == index[pol.digi][n]
       IN  IF Due(s)
           THEN /\ pol' = [pol EXCEPT !.todo = @ \ {n}, !.st = "source",
                     !.of = n, !.spec = s,
                     !.srcMounts = With(mounts[s.src], Yielded(s), "inactive"),
                     !.dstMounts = With(mounts[s.dst], Yielded(s), "active")]
                /\ fresh' = [fresh EXCEPT !["policy"] = {s.src, s.dst}]
           ELSE pol' = [pol EXCEPT !.todo = @ \ {n}] /\ UNCHANGED fresh
    /\ UNCHANGED <<alive, attr, mounts, writer, objs, up, queue, caches, fails, dropped>>

Current(d) == d \in fresh["policy"] \cap alive

\* mutant: the target is written before the source.
YieldTargetFirst ==
    /\ pol.st = "source" /\ Current(pol.spec.dst)
    /\ WriteMounts("policy", pol.spec.dst, pol.dstMounts)
    /\ pol' = [pol EXCEPT !.st = "loop"]
    /\ UNCHANGED <<objs, up, caches, fails, dropped>>

\* The Update of the source.
YieldSource ==
    /\ pol.st = "source" /\ Current(pol.spec.src)
    /\ WriteMounts("policy", pol.spec.src, pol.srcMounts)
    /\ pol' = [pol EXCEPT !.st = "target"]
    /\ UNCHANGED <<objs, up, caches, fails, dropped>>

\* The Update of the target.
YieldTarget ==
    /\ pol.st = "target" /\ Current(pol.spec.dst)
    /\ WriteMounts("policy", pol.spec.dst, pol.dstMounts)
    /\ pol' = [pol EXCEPT !.st = "loop"]
    /\ UNCHANGED <<objs, up, caches, fails, dropped>>

\* A conflict at the source leaves everything as it is; the change that
\* caused it is an event.
YieldConflict ==
    /\ pol.st = "source" /\ ~ Current(pol.spec.src)
    /\ pol' = [pol EXCEPT !.st = "loop"]
    /\ UNCHANGED <<store, fails, dropped>>

\* A conflict at the target, or a request that fails, is only logged.
YieldLost ==
    /\ \/ pol.st = "target" /\ ~ Current(pol.spec.dst) /\ UNCHANGED fails
       \/ pol.st \in {"source", "target"} /\ MayFail
    /\ pol' = [pol EXCEPT !.st = "loop"]
    /\ dropped' = dropped \cup {pol.of}
    /\ UNCHANGED store

PolicyEnds == InLoop /\ pol.todo = {}
PolicyDone ==
    /\ PolicyEnds
    /\ pol' = PolIdle
    /\ UNCHANGED <<store, fails, dropped>>

-----------------------------------------------------------------------------

\* The caches are lost; a yield may be left half done.
PolicyCrash ==
    /\ "policy" \in up
    /\ up' = up \ {"policy"} /\ EmptyCaches("policy")
    /\ queue' = [queue EXCEPT !["policy"] = {}]
    /\ pol' = PolIdle
    /\ dropped' = IF pol.st = "target" THEN dropped \cup {pol.of} ELSE dropped
    /\ UNCHANGED <<digis, objs, fails>>

PolicyStart ==
    /\ "policy" \notin up
    /\ up' = up \cup {"policy"}
    /\ queue' = [queue EXCEPT !["policy"] = {<<"spec", n>> : n \in {m \in PolicyName : objs[m] # NoSpec}}]
    /\ UNCHANGED <<digis, objs, caches, pol, fails, dropped>>

PolicyStep ==
    \/ \E n \in PolicyName : PolicyAdd(n) \/ PolicyGone(n) \/ PolicyRead(n)
    \/ \E d \in Digi : PolicyEnforce(d)
    \/ YieldSource \/ YieldTarget \/ YieldConflict \/ PolicyDone \/ PolicyStart
    \/ YieldLost
=============================================================================
