------------------------------- MODULE Space --------------------------------
(***************************************************************************)
(* A space: the syncer and the policer over the same digis, with the users *)
(* and drivers that change them, digi space pipe (api/pipe/pipe.go), which *)
(* creates and deletes match bindings, and digi space mount.               *)
(***************************************************************************)
EXTENDS SyncController, YieldPolicy, MountClient

CONSTANTS
    Setup,     \* what is deployed, what is there, and what may happen
    Specs,     \* by name, the specs the object may be given
    MountArgs  \* the operation, sources and target of the mount calls

ASSUME SpaceAssumption ==
    /\ \A s \in Setup : /\ s.objs \in [Name -> Spec0 \cup {NoSpec}]
                         /\ s.attr \in [Digi -> Val \cup {None}]
                         /\ s.mounts \in [Digi -> [Digi -> {"none", "active", "inactive"}]]
                         /\ s.max \in [ops : Nat, fails : Nat, crashes : Nat]
    /\ \A n \in Name : Specs[n] \subseteq Spec0
    /\ \A m \in MountArgs : m.srcs \subseteq Digi
    /\ NumRetry \in Nat

VARIABLES
    setup,
    ops, crashes,  \* bounds: what users and drivers, and faults, may yet do
    piping  \* bindings that digi space pipe has deleted and not created yet

rest == <<setup, crashes, piping>>
workers == <<syn, masked, pol, dropped, call, fails, spoiled>>
vars == <<store, workers, rest, ops>>

TypeOK ==
    /\ StoreTypeOK /\ SyncTypeOK /\ PolTypeOK /\ ClientTypeOK
    /\ ops \in Nat /\ crashes \in Nat /\ piping \subseteq SyncName

Init ==
    /\ setup \in Setup
    /\ alive = Digi /\ objs = setup.objs /\ mounts = setup.mounts
    /\ attr = setup.attr
    /\ fresh = [r \in Reader |-> {}] /\ up = {}
    /\ queue = [c \in Ctl |-> {}] /\ watched = [c \in Ctl |-> {}]
    /\ cached = [n \in Name |-> NoSpec]
    /\ index = [d \in Digi |-> [n \in Name |-> NoSpec]]
    /\ writer = [d \in Digi |-> Nothing]
    /\ syn = Idle /\ pol = PolIdle /\ call = [c \in Client |-> NoCall]
    /\ masked = {} /\ spoiled = {} /\ dropped = {}
    /\ piping = {}
    /\ ops = setup.max.ops /\ fails = setup.max.fails /\ crashes = setup.max.crashes

User(op) == op \in setup.ops /\ ops > 0 /\ ops' = ops - 1

-----------------------------------------------------------------------------
(* Users and drivers.                                                      *)

Write(d, v) ==
    /\ User("write") /\ d \in alive /\ attr[d] # v
    /\ attr' = [attr EXCEPT ![d] = v]
    /\ fresh' = [r \in Reader |-> fresh[r] \ {d}]
    /\ queue' = Enqueued(d) /\ writer' = [writer EXCEPT ![d] = Nothing]
    /\ UNCHANGED <<alive, mounts, objs, up, caches, workers, rest>>

\* A digi is stopped, or run (again), without attribute and mounts.
Toggle(d) ==
    /\ User("digi")
    /\ alive' = IF d \in alive THEN alive \ {d} ELSE alive \cup {d}
    /\ attr' = [attr EXCEPT ![d] = None]
    /\ mounts' = [mounts EXCEPT ![d] = [k \in Digi |-> "none"]]
    /\ fresh' = [r \in Reader |-> fresh[r] \ {d}]
    /\ queue' = Enqueued(d) /\ writer' = [writer EXCEPT ![d] = Nothing]
    /\ UNCHANGED <<objs, up, caches, workers, rest>>

SetObj(n, s) ==
    /\ objs' = [objs EXCEPT ![n] = s]
    /\ queue' = EnqueuedSpec(n)
    /\ spoiled' = IF objs[n] # NoSpec /\ ~ ("sync" \in up /\ cached[n] # NoSpec)
                  THEN spoiled \cup {n} ELSE spoiled
    /\ UNCHANGED <<digis, up, caches, syn, masked, pol, dropped, call, fails>>

\* An object is created, or applied again with another spec.
Apply(n, s) ==
    /\ User("apply") /\ objs[n] # s
    /\ SetObj(n, s) /\ UNCHANGED rest

Delete(n) ==
    /\ User("apply") /\ objs[n] # NoSpec
    /\ SetObj(n, NoSpec) /\ UNCHANGED rest

\* createSyncBinding: the binding is deleted, if it is there, then created.
Pipe(n) ==
    /\ User("pipe") /\ n \notin piping
    /\ SetObj(n, NoSpec)
    /\ piping' = piping \cup {n} /\ UNCHANGED <<setup, crashes>>

PipeCreate(n, s) ==
    /\ n \in piping
    /\ piping' = piping \ {n} /\ UNCHANGED <<setup, crashes, ops>>
    /\ IF objs[n] = NoSpec THEN SetObj(n, s) ELSE UNCHANGED <<store, workers>>

\* Unpipe.
Unpipe(n) ==
    /\ User("pipe") /\ objs[n] # NoSpec
    /\ SetObj(n, NoSpec) /\ UNCHANGED rest

Mount(c, m) == User("mount") /\ DoMount(c, m.op, m.srcs, m.target)

Crash ==
    /\ crashes > 0 /\ crashes' = crashes - 1
    /\ \/ SyncCrash /\ UNCHANGED <<pol, dropped, call>>
       \/ PolicyCrash /\ UNCHANGED <<syncVars, spoiled, call>>
    /\ UNCHANGED <<setup, piping, ops>>

-----------------------------------------------------------------------------

\* The end of a request concerns the worker and its queue alone, and comes
\* before anything else.
Ending == SyncEnds \/ PolicyEnds

Syncer ==
    /\ "sync" \in setup.up /\ (Ending => SyncEnds)
    /\ SyncStep /\ UNCHANGED <<pol, dropped, call, rest, ops>>
Policer ==
    /\ "policy" \in setup.up /\ (Ending => PolicyEnds)
    /\ PolicyStep /\ UNCHANGED <<syncVars, spoiled, call, rest, ops>>
Caller(c) ==
    /\ ~ Ending /\ ClientStep(c)
    /\ UNCHANGED <<syncVars, spoiled, pol, dropped, rest, ops>>

Failure ==
    \/ SyncFails /\ UNCHANGED <<pol, dropped, call, rest, ops>>
    \/ \E c \in Client : UpdateFails(c) /\ UNCHANGED <<syncVars, spoiled, pol, dropped, rest, ops>>

Users ==
    \/ \E n \in SyncName : \E s \in Specs[n] : PipeCreate(n, s)
    \/ \E d \in Digi : Toggle(d) \/ \E v \in Val : Write(d, v)
    \/ \E n \in Name : Delete(n) \/ \E s \in Specs[n] : Apply(n, s)
    \/ \E n \in SyncName : Pipe(n) \/ Unpipe(n)
    \/ \E c \in Client, m \in MountArgs :
          Mount(c, m) /\ UNCHANGED <<syncVars, spoiled, pol, dropped, rest>>

Next ==
    \/ Syncer \/ Policer
    \/ \E c \in Client : Caller(c)
    \/ ~ Ending /\ (Users \/ Failure \/ Crash)

Spec ==
    /\ Init /\ [][Next]_vars
    /\ WF_vars(Syncer) /\ WF_vars(Policer)
    /\ \A c \in Client : WF_vars(Caller(c))

-----------------------------------------------------------------------------
(* Properties.                                                             *)

(***************************************************************************)
(* A value that a match binding brought does not stay when the binding is  *)
(* deleted, unless the syncer could not see the deletion (it was down, or  *)
(* had not yet read the binding), finalize failed, or the object had been  *)
(* applied with another spec.                                              *)
(***************************************************************************)
NothingLeft ==
    \A d \in Digi : LET n == writer[d] IN
        \/ n \in spoiled \cup {Nothing}
        \/ <<"spec", n>> \in queue["sync"]
        \/ objs[n] # NoSpec /\ objs[n].dst = d

(***************************************************************************)
(* The syncer writes only for a binding that exists as it is enforced or   *)
(* whose change is still to be handled.  What is left of an earlier spec   *)
(* in the index is enforced for ever.                                      *)
(***************************************************************************)
BoundWrites ==
    [][SyncWrite /\ attr' # attr =>
          LET n == syn.put.of
          IN  n \in spoiled \/ objs[n] = syn.put.spec \/ <<"spec", n>> \in queue["sync"]]_vars

(***************************************************************************)
(* A child becomes active at a policy's target after its source has let it *)
(* go, unless the source was written in between.                           *)
(***************************************************************************)
TargetAfterSource ==
    [][Policer => \A k \in Digi :
          LET s == pol.spec
          IN  s # NoSpec /\ mounts[s.dst][k] # "active" /\ mounts'[s.dst][k] = "active" =>
              mounts[s.src][k] # "active" \/ s.src \notin fresh["policy"]]_vars

(***************************************************************************)
(* Concurrent calls and policies keep one another's mounts: a call changes *)
(* the mounts of its sources only, and a policy mounts and unmounts none.  *)
(***************************************************************************)
MountsKept ==
    [][/\ \A c \in Client : call[c] # NoCall /\ call'[c] # call[c] =>
             \A k \in Digi \ call[c].srcs :
                 mounts'[call[c].target][k] = mounts[call[c].target][k]
       /\ Policer => \A d, k \in Digi :
             mounts'[d][k] = "none" <=> mounts[d][k] = "none"]_vars

\* Another spec, of another binding or an earlier one, that is enforced too
\* and writes the target.
Contended(n) ==
    \E m \in SyncName : \E s \in {objs[m]} \cup {index[d][m] : d \in Digi} :
        /\ s \notin {NoSpec, objs[n]}
        /\ objs[n].dst \in {s.dst} \cup (IF s.mode = "sync" THEN {s.src} ELSE {})

\* The requests that have the object's source or target enforced.
Concerned(n) == {<<"spec", n>>, <<"enforce", objs[n].src>>, <<"enforce", objs[n].dst>>}

(***************************************************************************)
(* When no request about a binding is left, its target's attribute is its  *)
(* source's, however the two were written, digis came and went and the     *)
(* syncer restarted, unless a failed write was forgotten because the last  *)
(* binding of its request went well.                                       *)
(***************************************************************************)
BindingsSettle ==
    \A n \in SyncName :
        LET s == objs[n]
        IN  /\ "sync" \in up /\ s # NoSpec /\ n \notin masked
            /\ {s.src, s.dst} \subseteq alive /\ attr[s.src] # None
            /\ (queue["sync"] \cup {syn.req}) \cap Concerned(n) = {}
            => attr[s.dst] = attr[s.src]

(***************************************************************************)
(* When no request about a policy is left, either its condition is false   *)
(* or there is nothing to yield, unless a request of it failed or its      *)
(* target changed after the source was written.                            *)
(***************************************************************************)
PoliciesEnforced ==
    \A n \in PolicyName :
        /\ "policy" \in up /\ objs[n] # NoSpec /\ n \notin dropped /\ pol.st = "idle"
        /\ queue["policy"] \cap Concerned(n) = {}
        => ~ Due(objs[n])

(***************************************************************************)
(* The controllers come to rest: writes and their events do not feed one   *)
(* another, in a binding that goes both ways or from a pipe to a policy.   *)
(* Only a missing digi or attribute has a request repeated for ever.       *)
(***************************************************************************)
ComesToRest ==
    []<>(\/ \A c \in setup.up : queue[c] = {}
         \/ \E n \in SyncName : objs[n] # NoSpec /\
               \/ ~ {objs[n].src, objs[n].dst} \subseteq alive \/ Contended(n)
               \/ None \in {attr[objs[n].src], attr[objs[n].dst]}
         \/ \E n \in PolicyName : objs[n] # NoSpec /\ ~ {objs[n].src, objs[n].dst} \subseteq alive)
=============================================================================
