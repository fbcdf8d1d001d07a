--------------------------- MODULE SyncController ---------------------------
(***************************************************************************)
(* The syncer, space/sync/pkg/controller/sync/sync_controller.go: it       *)
(* copies an attribute of a digi to an attribute of another as Sync        *)
(* objects bind them, "match" from source to target and "sync" from the    *)
(* one that changed, and clears the target of a match that is deleted.     *)
(*                                                                         *)
(* One worker takes requests.  A request that ends with an error is put    *)
(* back; the error of a loop over bindings is that of its last binding.    *)
(***************************************************************************)
EXTENDS SpaceStore

VARIABLES
    syn,     \* the worker: its request, the digi and the bindings to enforce, the
             \* write it is about to send, the error so far, and the bindings
             \* whose write was lost
    masked,  \* history: bindings whose failed write nobody will repeat
    spoiled  \* history: names whose object was changed or deleted unseen

NoWrite == [of |-> Nothing]
Idle == [req |-> <<>>, digi |-> Nothing, todo |-> {}, put |-> NoWrite, err |-> FALSE, lost |-> {}]
IsIdle(w) == w.req = <<>>

syncVars == <<syn, masked>>

\* What a failed request leaves behind.
SyncTypeOK ==
    /\ syn.req \in Request \cup {<<>>} /\ syn.err \in BOOLEAN
    /\ syn.todo \subseteq SyncName /\ syn.lost \subseteq SyncName
    /\ syn.put.of \in SyncName \cup {Nothing}
    /\ masked \subseteq SyncName /\ spoiled \subseteq Name

\* doEnforce of the digi d, for the request req.
Enforce(req, d, idx) ==
    syn' = [Idle EXCEPT !.req = req, !.digi = d,
                        !.todo = {n \in SyncName : idx[d][n] # NoSpec}]

-----------------------------------------------------------------------------

Take(req) == "sync" \in up /\ IsIdle(syn) /\ req \in queue["sync"]
Done(req) == queue' = [queue EXCEPT !["sync"] = @ \ {req}]

\* doSync of an object that is there.  A watch that cannot be started ends
\* it with an error.
SyncAdd(n) ==
    /\ Take(<<"spec", n>>) /\ objs[n] # NoSpec
    /\ CacheAdd("sync", n, objs[n])
    /\ IF WatchesBoth("sync", objs[n])
       THEN Enforce(<<"spec", n>>, objs[n].src, index') ELSE UNCHANGED syn
    /\ spoiled' = IF cached[n] \in {NoSpec, objs[n]} THEN spoiled ELSE spoiled \cup {n}
    /\ UNCHANGED <<digis, objs, up, fails, masked>>

\* mutant: the binding is removed before finalize looks for it.
ToClearLate(n) == {}

\* finalize: the target of a match, whose attribute is to be cleared.
ToClear(n) ==
    LET s == cached[n]
    IN  IF s # NoSpec /\ s.mode = "match" THEN {d \in {s.dst} : GetObj(d)} ELSE {}

\* doSync of an object that is gone: finalize, whose patch carries no version,
\* then Remove, also when finalize has failed or had nothing in the cache.
SyncGone(n) ==
    /\ Take(<<"spec", n>>) /\ objs[n] = NoSpec
    /\ CacheRemove(n)
    /\ \/ \E d \in ToClear(n) :
             /\ attr' = [attr EXCEPT ![d] = None]
             /\ writer' = [writer EXCEPT ![d] = Nothing]
             /\ fresh' = IF attr[d] = None THEN fresh
                         ELSE [r \in Reader |-> fresh[r] \ {d}]
             /\ queue' = [c \in Ctl |->
                   (IF attr[d] = None THEN queue ELSE Enqueued(d))[c] \ {<<"spec", n>>}]
             /\ UNCHANGED <<fails, spoiled>>
       \/ /\ IF ToClear(n) = {} THEN UNCHANGED fails ELSE MayFail
          /\ spoiled' = IF ToClear(n) = {} /\ cached[n] # NoSpec
                        THEN spoiled ELSE spoiled \cup {n}
          /\ Done(<<"spec", n>>)
          /\ UNCHANGED <<attr, writer, fresh>>
    /\ UNCHANGED <<alive, mounts, objs, up, syncVars>>

SyncEnforce(d) ==
    /\ Take(<<"enforce", d>>)
    /\ Done(<<"enforce", d>>) /\ Enforce(<<"enforce", d>>, d, index)
    /\ UNCHANGED <<digis, objs, up, caches, fails, masked, spoiled>>

-----------------------------------------------------------------------------
(* The loop of doEnforce.                                                  *)

\* The copy a binding asks for: towards the source when the request is the
\* target's and the binding goes both ways.
Direction(s, d) ==
    IF s.mode = "sync" /\ d = s.dst THEN [from |-> s.dst, to |-> s.src]
    ELSE [from |-> s.src, to |-> s.dst]

\* Both digis are read.  A missing one, or a missing attribute, is the error
\* of this binding.
SyncRead(n) ==
    /\ n \in syn.todo /\ syn.put = NoWrite
    /\ LET s == index[syn.digi][n]
           w == Direction(s, syn.digi)
           ok == GetObj(s.src) /\ GetObj(s.dst) /\ GetAttr(w.from)
       IN  /\ syn' = [syn EXCEPT !.todo = @ \ {n}, !.err = ~ ok,
                 !.put = IF ok THEN [of |-> n, spec |-> s, to |-> w.to, val |-> attr[w.from]]
                         ELSE NoWrite]
           /\ fresh' = IF ok THEN [fresh EXCEPT !["sync"] = {w.to}] ELSE fresh
    /\ UNCHANGED <<alive, attr, mounts, writer, objs, up, queue, caches,
                   fails, masked, spoiled>>

\* matchAttr: the Update of the target.
SyncWrite ==
    LET w == syn.put
    IN  /\ w # NoWrite /\ w.to \in fresh["sync"] \cap alive
        /\ WriteAttr("sync", w.to, w.val, IF w.spec.mode = "match" THEN w.of ELSE Nothing)
        /\ syn' = [syn EXCEPT !.put = NoWrite]
        /\ masked' = IF w.spec = objs[w.of] THEN masked \ {w.of} ELSE masked
        /\ UNCHANGED <<objs, up, caches, fails, spoiled>>

SyncConflict ==
    /\ syn.put # NoWrite /\ syn.put.to \notin fresh["sync"] \cap alive
    /\ syn' = [syn EXCEPT !.put = NoWrite, !.err = TRUE]
    /\ UNCHANGED <<store, fails, masked, spoiled>>

SyncFails ==
    /\ syn.put # NoWrite /\ MayFail
    /\ syn' = [syn EXCEPT !.put = NoWrite, !.err = TRUE, !.lost = @ \cup {syn.put.of}]
    /\ UNCHANGED <<store, masked, spoiled>>

\* mutant: the request is put back whatever came of it.
SyncDoneAgain ==
    /\ ~ IsIdle(syn) /\ syn.todo = {} /\ syn.put = NoWrite
    /\ syn' = Idle
    /\ queue' = [queue EXCEPT !["sync"] = @ \cup {syn.req}]
    /\ UNCHANGED <<digis, objs, up, caches, fails, masked, spoiled>>

\* The request is put back if the last binding had an error.
SyncEnds == ~ IsIdle(syn) /\ syn.todo = {} /\ syn.put = NoWrite
SyncDone ==
    /\ SyncEnds
    /\ syn' = Idle
    /\ queue' = [queue EXCEPT !["sync"] = IF syn.err THEN @ \cup {syn.req} ELSE @]
    /\ masked' = IF syn.err THEN masked ELSE masked \cup syn.lost
    /\ UNCHANGED <<digis, objs, up, caches, fails, spoiled>>

-----------------------------------------------------------------------------
(* The process.                                                            *)

\* Objects whose deletion or change the process does not live to see.
Unseen == {n \in SyncName :
    IF objs[n] = NoSpec THEN <<"spec", n>> \in queue["sync"]
    ELSE cached[n] \notin {NoSpec, objs[n]}}

SyncCrash ==
    /\ "sync" \in up
    /\ up' = up \ {"sync"} /\ EmptyCaches("sync")
    /\ queue' = [queue EXCEPT !["sync"] = {}]
    /\ syn' = Idle
    /\ spoiled' = spoiled \cup Unseen
    /\ UNCHANGED <<digis, objs, fails, masked>>

\* main: a new process lists the Sync objects.
SyncStart ==
    /\ "sync" \notin up
    /\ up' = up \cup {"sync"}
    /\ queue' = [queue EXCEPT !["sync"] = {<<"spec", n>> : n \in {m \in SyncName : objs[m] # NoSpec}}]
    /\ UNCHANGED <<digis, objs, caches, syncVars, fails, spoiled>>

SyncStep ==
    \/ \E n \in SyncName : SyncAdd(n) \/ SyncGone(n) \/ SyncRead(n)
    \/ \E d \in Digi : SyncEnforce(d)
    \/ SyncWrite \/ SyncConflict \/ SyncDone \/ SyncStart
=============================================================================
