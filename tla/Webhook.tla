------------------------------ MODULE Webhook -------------------------------
(***************************************************************************)
(* The admission webhook, space/mount/webhook/cmd/main.go: reviews of      *)
(* digis that users create, and the goroutine discoverGraph, which lists   *)
(* the digis there are and builds a digi-graph (MultiTree) anew.  Both     *)
(* hold gc.lock while they work on the graph, and the listing goes on      *)
(* without it.                                                             *)
(*                                                                         *)
(* What a digi mounts is below spec.mount.  getFlattenRefs looks for a     *)
(* key ".spec.mount" at the top of the object, so that it finds nothing:   *)
(* the loop of addMountNodeAndEdges has no edge to add and none to refuse, *)
(* in a review as in discoverGraph, and gc.mt stays as NewMultiTree makes  *)
(* it.  This is the program as it is; what the graph would do with edges   *)
(* is what MultiTree says.                                                 *)
(*                                                                         *)
(* Updates and deletions are let through.  A review that gets no answer    *)
(* lets the digi through too (the registration has no failurePolicy, which *)
(* in v1beta1 is Ignore).                                                  *)
(***************************************************************************)
EXTENDS MultiTree

CONSTANTS
    Digi,      \* the digis users create, among the names of the graph
    Resources, \* the sets of digis that one List returns
    Wants,     \* by digi, the sets of mounts users give it
    MaxWrites, \* bound on the requests of users
    MaxCrash,  \* bound on the crashes of the process
    Nobody     \* no one holds the lock

ASSUME WebhookAssumption ==
    /\ Digi \subseteq Node /\ Nobody \notin Node
    /\ "discovery" \notin Digi \cup {Nobody}
    /\ Digi = UNION Resources
    /\ Wants \in [Digi -> SUBSET SUBSET Node]
    /\ MaxWrites \in Nat /\ MaxCrash \in Nat

VARIABLES
    holder,  \* who holds gc.lock: the review of a digi, "discovery" or Nobody
    disc,    \* the process: down, listing, listed, building (discovery), serving
    scan,    \* the resources discoverGraph has yet to list
    review,  \* the creations under way, by the digi's name
    live, mounts, \* at the API server: the digis and what they mount
    writes, crashes

process == <<holder, disc, scan>>
api == <<live, mounts, writes>>
hook == <<process, review, api, crashes>>

\* The creation of a digi: not under way, waiting for the lock or holding it,
\* or allowed and not stored yet.
NoReview == [st |-> "none", refs |-> {}]
Review == [st : {"none", "asked", "allowed"}, refs : SUBSET Node]

\* The lock is held by a review without an answer, or by the discovery that is
\* building the graph.
HookTypeOK ==
    /\ holder \in Digi \cup {"discovery", Nobody}
    /\ disc \in {"down", "listing", "listed", "building", "serving"}
    /\ scan \in SUBSET Resources /\ live \in SUBSET Digi
    /\ mounts \in [Digi -> SUBSET Node] /\ review \in [Digi -> Review]
    /\ writes \in 0 .. MaxWrites /\ crashes \in 0 .. MaxCrash
    /\ disc = "building" <=> holder = "discovery"
    /\ holder \in Digi => review[holder].st = "asked" /\ disc # "down"

\* main: the server and the discovery start together.
HookInit ==
    /\ Init
    /\ holder = Nobody /\ disc = "listing" /\ scan = Resources
    /\ review = [o \in Digi |-> NoReview]
    /\ live = {} /\ mounts = [o \in Digi |-> {}]
    /\ writes = 0 /\ crashes = 0

-----------------------------------------------------------------------------
(* What is read from a digi.                                               *)

\* A digi that mounts refs, by the keys at its top.
Object(refs) == [key \in {"spec"} |-> refs]

GetFlattenRefs(prefix, obj) == IF prefix \in DOMAIN obj THEN obj[prefix] ELSE {}

GetCompositionRefs(obj) == GetFlattenRefs(".spec.mount", obj)

MountEdges(o, obj) == {<<o, r>> : r \in GetCompositionRefs(obj)}

\* addMountNodeAndEdges has nothing to do, and returns nil.
NoEdges(o, refs) == MountEdges(o, Object(refs)) = {}

-----------------------------------------------------------------------------
(* Users and the API server.                                               *)

UserWrite == writes < MaxWrites /\ writes' = writes + 1

\* A creation is sent for review, whether or not the name is taken.
Ask(o, refs) ==
    /\ UserWrite
    /\ review[o].st = "none"
    /\ review' = [review EXCEPT ![o] =
          [st |-> IF disc = "down" THEN "allowed" ELSE "asked", refs |-> refs]]
    /\ UNCHANGED <<process, live, mounts, crashes>>

\* The allowed digi is stored, if its name is free.
Store(o) ==
    /\ review[o].st = "allowed"
    /\ live' = live \cup {o}
    /\ mounts' = [mounts EXCEPT ![o] = IF o \in live THEN @ ELSE review[o].refs]
    /\ review' = [review EXCEPT ![o] = NoReview]
    /\ UNCHANGED <<process, writes, crashes>>

\* doUpdate: valid whatever changes, and the graph does not follow.
Update(o, refs) ==
    /\ UserWrite
    /\ o \in live /\ mounts[o] # refs
    /\ mounts' = [mounts EXCEPT ![o] = refs]
    /\ UNCHANGED <<process, live, review, crashes>>

\* Any other verb passes.
Delete(o) ==
    /\ UserWrite
    /\ o \in live
    /\ live' = live \ {o}
    /\ mounts' = [mounts EXCEPT ![o] = {}]
    /\ UNCHANGED <<process, review, crashes>>

-----------------------------------------------------------------------------
(* doCreate.                                                               *)

Lock(o) ==
    /\ holder = Nobody /\ review[o].st = "asked" /\ disc # "down"
    /\ holder' = o
    /\ UNCHANGED <<disc, scan, review, api, crashes>>

Granted(o) == review' = [review EXCEPT ![o].st = "allowed"]

\* mutant: the lock is not given back.
GrantLocked(o) ==
    /\ holder = o /\ NoEdges(o, review[o].refs) /\ review[o].st = "asked"
    /\ Granted(o)
    /\ UNCHANGED <<process, api, crashes>>

Grant(o) ==
    /\ holder = o /\ NoEdges(o, review[o].refs)
    /\ Granted(o)
    /\ holder' = Nobody
    /\ UNCHANGED <<disc, scan, api, crashes>>

-----------------------------------------------------------------------------
(* discoverGraph and the life of the process.                              *)

\* A resource is listed, without the lock.
Scan(res) ==
    /\ disc = "listing" /\ res \in scan
    /\ \A o \in res : NoEdges(o, mounts[o])
    /\ scan' = scan \ {res}
    /\ disc' = IF scan' = {} THEN "listed" ELSE disc
    /\ UNCHANGED <<holder, review, api, crashes>>

\* mutant: the graph is replaced without the lock.
ReplaceUnlocked ==
    /\ disc = "listed" /\ disc' = "building"
    /\ UNCHANGED <<holder, scan, review, api, crashes>>

\* NewMultiTree takes the place of a graph that is as empty.
Replace ==
    /\ disc = "listed" /\ holder = Nobody
    /\ disc' = "building" /\ holder' = "discovery"
    /\ UNCHANGED <<scan, review, api, crashes>>

Discovered ==
    /\ disc = "building" /\ disc' = "serving"
    /\ holder' = Nobody
    /\ UNCHANGED <<scan, review, api, crashes>>

\* The process ends, also over a List that fails: the nil it returns is read.
\* Reviews without an answer are allowed.
Crash ==
    /\ disc # "down" /\ crashes < MaxCrash
    /\ crashes' = crashes + 1
    /\ disc' = "down" /\ holder' = Nobody /\ scan' = Resources
    /\ review' = [o \in Digi |->
          [st |-> IF review[o].st = "asked" THEN "allowed" ELSE review[o].st,
           refs |-> review[o].refs]]
    /\ UNCHANGED api

Start ==
    /\ disc = "down" /\ disc' = "listing"
    /\ UNCHANGED <<holder, scan, review, api, crashes>>

-----------------------------------------------------------------------------

Process ==
    \/ \E o \in Digi : Grant(o)
    \/ \E res \in Resources : Scan(res)
    \/ Replace \/ Discovered \/ Start

HookNext ==
    /\ UNCHANGED vars
    /\ \/ Process \/ Crash
       \/ \E o \in Digi : Lock(o) \/ Store(o) \/ Delete(o)
       \/ \E o \in Digi : \E refs \in Wants[o] : Ask(o, refs) \/ Update(o, refs)

\* The process goes on, and a Go mutex starves no one who waits for it.
HookFairness ==
    /\ WF_hook(Process)
    /\ \A o \in Digi : SF_hook(Lock(o))

HookSpec == HookInit /\ [][HookNext]_<<vars, hook>> /\ HookFairness

-----------------------------------------------------------------------------
(* Properties.                                                             *)

(***************************************************************************)
(* Every review is answered, whatever discovery and crashes do with the    *)
(* lock.                                                                   *)
(***************************************************************************)
EveryReviewAnswered == \A o \in Digi : []<>(review[o].st # "asked")
=============================================================================
