--------------------------- MODULE Webhook_proofs ---------------------------
(***************************************************************************)
(* The lock and the reviews of the webhook, for any digis, resources and   *)
(* wishes of users.  The type invariant is inductive: that a review holds  *)
(* the lock only while it has no answer is what lets go of it for good.    *)
(***************************************************************************)
EXTENDS Webhook, TLAPS

-----------------------------------------------------------------------------

\* No mount is read, whatever a digi mounts.
LEMMA NothingIsRead ==
    ASSUME NEW o, NEW refs
    PROVE  NoEdges(o, refs)
<1>1. ".spec.mount" \notin DOMAIN Object(refs)
  BY DEF Object
<1> QED
  BY <1>1 DEF NoEdges, MountEdges, GetCompositionRefs, GetFlattenRefs

\* A process starts without a digi and without a review.
LEMMA TypeInit == HookInit => HookTypeOK
BY WebhookAssumption DEF HookInit, HookTypeOK, NoReview, Review

\* Requests of users and stores at the API server touch no review that holds
\* the lock.
LEMMA ApiKeeps ==
    ASSUME HookTypeOK, NEW o \in Digi, NEW refs \in SUBSET Node,
           Ask(o, refs) \/ Store(o) \/ Update(o, refs) \/ Delete(o)
    PROVE  HookTypeOK'
<1>0. UNCHANGED process /\ crashes' = crashes
  BY DEF Ask, Store, Update, Delete, process
<1>1. writes' \in 0 .. MaxWrites
  BY WebhookAssumption DEF HookTypeOK, Ask, Store, Update, Delete, UserWrite
<1>2. CASE Ask(o, refs)
  <2>1. review' \in [Digi -> Review]
    BY <1>2 DEF HookTypeOK, Ask, Review
  <2>2. holder \in Digi => review'[holder].st = "asked"
    BY <1>2 DEF HookTypeOK, Ask
  <2> QED
    BY <1>0, <1>1, <1>2, <2>1, <2>2 DEF HookTypeOK, Ask, process
<1>3. CASE Store(o)
  <2>1. review' \in [Digi -> Review] /\ mounts' \in [Digi -> SUBSET Node]
    BY <1>3 DEF HookTypeOK, Store, Review, NoReview
  <2>2. holder \in Digi => review'[holder].st = "asked"
    BY <1>3 DEF HookTypeOK, Store
  <2> QED
    BY <1>0, <1>1, <1>3, <2>1, <2>2 DEF HookTypeOK, Store, process
<1>4. CASE Update(o, refs)
  BY <1>0, <1>1, <1>4 DEF HookTypeOK, Update, process
<1>5. CASE Delete(o)
  BY <1>0, <1>1, <1>5 DEF HookTypeOK, Delete, process
<1> QED
  BY <1>2, <1>3, <1>4, <1>5

\* A review takes the lock before its answer and gives it back with it.
LEMMA ReviewKeeps ==
    ASSUME HookTypeOK, NEW o \in Digi, Lock(o) \/ Grant(o)
    PROVE  HookTypeOK'
<1>1. CASE Lock(o)
  <2>1. o \notin {"discovery", Nobody} /\ holder = Nobody /\ Nobody # "discovery"
    BY <1>1, WebhookAssumption DEF Lock
  <2>2. /\ holder' = o /\ UNCHANGED <<disc, scan, review, live, mounts>>
        /\ UNCHANGED <<writes, crashes>> /\ review[o].st = "asked" /\ disc # "down"
    BY <1>1 DEF Lock, api
  <2> QED
    BY <2>1, <2>2 DEF HookTypeOK
<1>2. CASE Grant(o)
  <2>1. review' \in [Digi -> Review]
    BY <1>2 DEF HookTypeOK, Grant, Granted, Review
  <2> QED
    BY <1>2, <2>1, WebhookAssumption DEF HookTypeOK, Grant, api
<1> QED
  BY <1>1, <1>2

\* Discovery has the lock while it builds the graph; a crash and a start leave
\* it with nobody.
LEMMA ProcessKeeps ==
    ASSUME HookTypeOK, (\E res \in Resources : Scan(res)) \/ Replace \/ Discovered
                   \/ Crash \/ Start
    PROVE  HookTypeOK'
<1>1. CASE \E res \in Resources : Scan(res)
  BY <1>1 DEF HookTypeOK, Scan, api
<1>2. CASE Replace \/ Discovered \/ Start
  BY <1>2, WebhookAssumption DEF HookTypeOK, Replace, Discovered, Start, api
<1>3. CASE Crash
  <2>1. review' \in [Digi -> Review]
    BY <1>3 DEF HookTypeOK, Crash, Review
  <2>2. crashes' \in 0 .. MaxCrash
    BY <1>3, WebhookAssumption DEF HookTypeOK, Crash
  <2> QED
    BY <1>3, <2>1, <2>2, WebhookAssumption DEF HookTypeOK, Crash, api
<1> QED
  BY <1>1, <1>2, <1>3

\* Every variable keeps its type; the lock is held by a review that has no
\* answer yet in a process that runs, or by the discovery that builds the
\* graph, or by nobody.
THEOREM WebhookTypeTheorem == HookSpec => []HookTypeOK
<1>1. HookTypeOK /\ [HookNext]_<<vars, hook>> => HookTypeOK'
  <2> SUFFICES ASSUME HookTypeOK, [HookNext]_<<vars, hook>> PROVE HookTypeOK'
    OBVIOUS
  <2>1. CASE UNCHANGED hook
    BY <2>1 DEF HookTypeOK, hook, process, api
  <2>2. CASE Process \/ Crash
    BY <2>2, ReviewKeeps, ProcessKeeps DEF Process
  <2>3. CASE \E o \in Digi : Lock(o) \/ Store(o) \/ Delete(o)
    BY <2>3, ReviewKeeps, ApiKeeps
  <2>4. CASE \E o \in Digi : \E refs \in Wants[o] : Ask(o, refs) \/ Update(o, refs)
    <3>1. \A o \in Digi : Wants[o] \subseteq SUBSET Node
      BY WebhookAssumption
    <3> QED
      BY <2>4, <3>1, ApiKeeps
  <2> QED
    BY <2>1, <2>2, <2>3, <2>4 DEF HookNext
<1> QED
  BY <1>1, TypeInit, PTL DEF HookSpec
=============================================================================
