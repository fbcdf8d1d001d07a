---------------------------- MODULE Space_proofs ----------------------------
(***************************************************************************)
(* Proofs about a space, for every set of digis, bindings, policies and    *)
(* calls, with no bound on what users do and whatever fails.  First the    *)
(* syncer: it writes only for bindings that exist, and leaves nothing of   *)
(* those that are gone.  Then the mounts: policies and digi space mount    *)
(* send back whole digis, and yet keep one another's mounts, and a child   *)
(* is active at a policy's target only after its source let it go.  The    *)
(* controllers lose no change: with nothing left to do, what a policy      *)
(* yields is yielded and what a binding copies is copied.  Last come the   *)
(* types.                                                                  *)
(***************************************************************************)
EXTENDS Space, TLAPS

-----------------------------------------------------------------------------
(* The inductive invariant.                                                *)

Put == [of : SyncName, spec : Spec0, to : Digi, val : Val]
Worker == [req : Request \cup {<<>>}, digi : Digi \cup {Nothing},
           todo : SUBSET SyncName, put : Put \cup {NoWrite},
           err : BOOLEAN, lost : SUBSET SyncName]

Types ==
    /\ alive \in SUBSET Digi /\ attr \in [Digi -> Val \cup {None}]
    /\ objs \in [Name -> Spec0 \cup {NoSpec}]
    /\ cached \in [Name -> Spec0 \cup {NoSpec}]
    /\ index \in [Digi -> [Name -> Spec0 \cup {NoSpec}]]
    /\ queue \in [Ctl -> SUBSET Request] /\ watched \in [Ctl -> SUBSET Digi]
    /\ writer \in [Digi -> Name \cup {Nothing}]
    /\ up \in SUBSET Ctl /\ spoiled \in SUBSET Name
    /\ syn \in Worker

Queued(n) == <<"spec", n>> \in queue["sync"]

\* The syncer that is down, or between two requests, holds nothing.
DownIsEmpty ==
    /\ "sync" \notin up =>
          syn.req = <<>> /\ \A n \in SyncName : cached[n] = NoSpec
    /\ syn.req = <<>> => syn.put = NoWrite /\ syn.todo = {}

\* What is cached is what there is, or will be looked at.
CacheIsCurrent ==
    \A n \in SyncName : cached[n] # NoSpec =>
        n \in spoiled \/ cached[n] = objs[n] \/ Queued(n)

\* The index is the cache, by source and target.
IndexIsCache ==
    \A n \in SyncName, d \in Digi : index[d][n] # NoSpec =>
        \/ n \in spoiled
        \/ index[d][n] = cached[n] /\ d \in {cached[n].src, cached[n].dst}

\* The worker enforces what is in the index.
WorkIsIndexed ==
    /\ \A n \in syn.todo : syn.digi \in Digi /\ index[syn.digi][n] # NoSpec
    /\ syn.put # NoWrite =>
          /\ syn.put.of \in spoiled \/ syn.put.spec = cached[syn.put.of]
          /\ syn.put.spec.mode = "match" => syn.put.to = syn.put.spec.dst

BroughtBy(s, d) == s # NoSpec /\ s.mode = "match" /\ s.dst = d

\* A value that a binding brought is at the target the cache has for it, or,
\* after a restart, at the target of the object.
WritersAreKnown ==
    \A d \in Digi :
        LET n == writer[d]
        IN  n # Nothing =>
              /\ n \in SyncName /\ d \in alive
              /\ \/ n \in spoiled \/ BroughtBy(cached[n], d)
                 \/ cached[n] = NoSpec /\ BroughtBy(objs[n], d)

IInv == /\ Types /\ DownIsEmpty /\ CacheIsCurrent /\ IndexIsCache
        /\ WorkIsIndexed /\ WritersAreKnown

-----------------------------------------------------------------------------
(* What the shared operators do to queues, caches and indices.             *)

(* The event of a digi adds to the queues, and only requests.              *)
LEMMA EnqueuedFacts ==
    ASSUME Types, NEW d
    PROVE  /\ Enqueued(d) \in [Ctl -> SUBSET Request]
           /\ queue["sync"] \subseteq Enqueued(d)["sync"]
<1>1. \A c \in Ctl : d \in watched[c] => <<"enforce", d>> \in Request
  BY DEF Types, Request
<1> QED
  BY <1>1 DEF Types, Enqueued, Ctl

(* The event of an object adds to the queues, and the syncer, if it runs,  *)
(* hears of its own objects.                                               *)
LEMMA EnqueuedSpecFacts ==
    ASSUME Types, NEW n \in Name
    PROVE  /\ EnqueuedSpec(n) \in [Ctl -> SUBSET Request]
           /\ queue["sync"] \subseteq EnqueuedSpec(n)["sync"]
           /\ n \in SyncName /\ "sync" \in up =>
                 <<"spec", n>> \in EnqueuedSpec(n)["sync"]
<1>1. <<"spec", n>> \in Request
  BY DEF Request
<1> QED
  BY <1>1 DEF Types, EnqueuedSpec, Ctl, NamesOf

(* Add changes the entries of its name only, and takes no request about    *)
(* another name from the queue.                                            *)
LEMMA CacheAddFacts ==
    ASSUME Types, NEW c \in Ctl, NEW n \in NamesOf(c), NEW s \in Spec0, CacheAdd(c, n, s)
    PROVE  /\ cached' \in [Name -> Spec0 \cup {NoSpec}]
           /\ index' \in [Digi -> [Name -> Spec0 \cup {NoSpec}]]
           /\ queue' \in [Ctl -> SUBSET Request] /\ watched' \in [Ctl -> SUBSET Digi]
           /\ cached'[n] = s
           /\ \A m \in Name \ {n} : cached'[m] = cached[m]
           /\ \A d \in Digi : index'[d][n] \in {index[d][n]} \cup (IF d \in {s.src, s.dst} THEN {s} ELSE {})
           /\ \A d \in Digi, m \in Name \ {n} : index'[d][m] = index[d][m]
           /\ \A m \in SyncName \ {n} : Queued(m) => Queued(m)'
<1> USE StoreAssumption
<1>0. /\ s.src \in Digi /\ s.dst \in Digi /\ n \in Name
      /\ KindOf[s.src] \subseteq Digi /\ KindOf[s.dst] \subseteq Digi
  BY DEF Spec0, NamesOf, Name
<1>1. KindsOf(c, s) \subseteq Digi
  BY <1>0 DEF KindsOf
<1>2. /\ cached' \in [Name -> Spec0 \cup {NoSpec}] /\ cached'[n] = s
      /\ \A m \in Name \ {n} : cached'[m] = cached[m]
  BY <1>0 DEF CacheAdd, Types
<1>3. watched' \in [Ctl -> SUBSET Digi]
  BY <1>1 DEF CacheAdd, Types
<1>4. /\ index' \in [Digi -> [Name -> Spec0 \cup {NoSpec}]]
      /\ \A d \in Digi : index'[d][n] \in {index[d][n]} \cup (IF d \in {s.src, s.dst} THEN {s} ELSE {})
      /\ \A d \in Digi, m \in Name \ {n} : index'[d][m] = index[d][m]
  <2>1. CASE ~ WatchesBoth(c, s)
    BY <2>1 DEF CacheAdd, Types
  <2>2. CASE WatchesBoth(c, s)
    <3> DEFINE one == [index EXCEPT ![s.src] = [index[s.src] EXCEPT ![n] = s]]
    <3>1. /\ one \in [Digi -> [Name -> Spec0 \cup {NoSpec}]]
          /\ \A d \in Digi : one[d][n] \in {index[d][n]} \cup (IF d = s.src THEN {s} ELSE {})
          /\ \A d \in Digi, m \in Name \ {n} : one[d][m] = index[d][m]
      BY <1>0 DEF Types
    <3>2. index' = [one EXCEPT ![s.dst] = [one[s.dst] EXCEPT ![n] = s]]
      BY <2>2 DEF CacheAdd
    <3> HIDE DEF one
    <3> QED
      BY <1>0, <3>1, <3>2
  <2> QED
    BY <2>1, <2>2
<1>5. /\ queue' \in [Ctl -> SUBSET Request]
      /\ \A m \in SyncName \ {n} : Queued(m) => Queued(m)'
  <2> DEFINE Q == (IF WatchesBoth(c, s) THEN queue[c] \ {<<"spec", n>>} ELSE queue[c])
                  \cup {<<"enforce", d>> : d \in (KindsOf(c, s) \ watched[c]) \cap alive}
  <2>1. queue' = [queue EXCEPT ![c] = Q]
    BY DEF CacheAdd
  <2>2. \A d \in (KindsOf(c, s) \ watched[c]) \cap alive : <<"enforce", d>> \in Request
    BY <1>1 DEF Request
  <2>3. Q \in SUBSET Request
    BY <2>2 DEF Types
  <2>4. \A m \in SyncName \ {n} : <<"spec", m>> \in queue[c] => <<"spec", m>> \in Q
    OBVIOUS
  <2> HIDE DEF Q
  <2> QED
    BY <2>1, <2>3, <2>4 DEF Types, Queued, Ctl
<1> QED
  BY <1>2, <1>3, <1>4, <1>5

(* Remove takes the name out of the cache and from under the digis it was  *)
(* cached with, and changes nothing else.                                  *)
LEMMA CacheRemoveFacts ==
    ASSUME Types, NEW n \in Name, CacheRemove(n)
    PROVE  /\ cached' \in [Name -> Spec0 \cup {NoSpec}]
           /\ index' \in [Digi -> [Name -> Spec0 \cup {NoSpec}]] /\ watched' = watched
           /\ cached'[n] = NoSpec
           /\ \A m \in Name \ {n} : cached'[m] = cached[m]
           /\ \A d \in Digi : index'[d][n] \in {NoSpec, index[d][n]}
           /\ cached[n] # NoSpec =>
                 \A d \in Digi : d \in {cached[n].src, cached[n].dst} => index'[d][n] = NoSpec
           /\ \A d \in Digi, m \in Name \ {n} : index'[d][m] = index[d][m]
<1>1. CASE cached[n] = NoSpec
  BY <1>1 DEF CacheRemove, Types
<1>2. CASE cached[n] # NoSpec
  <2> DEFINE s == cached[n]
             one == [index EXCEPT ![s.src] = [index[s.src] EXCEPT ![n] = NoSpec]]
  <2>0. s.src \in Digi /\ s.dst \in Digi
    BY <1>2 DEF Types, Spec0
  <2>1. index' = [one EXCEPT ![s.dst] = [one[s.dst] EXCEPT ![n] = NoSpec]]
    BY <1>2 DEF CacheRemove
  <2>2. cached' = [cached EXCEPT ![n] = NoSpec] /\ watched' = watched
    BY DEF CacheRemove
  <2> HIDE DEF s
  <2>3. /\ one \in [Digi -> [Name -> Spec0 \cup {NoSpec}]]
        /\ \A d \in Digi : one[d][n] = IF d = s.src THEN NoSpec ELSE index[d][n]
        /\ \A d \in Digi, m \in Name \ {n} : one[d][m] = index[d][m]
    BY <2>0 DEF Types
  <2> HIDE DEF one
  <2>4. /\ index' \in [Digi -> [Name -> Spec0 \cup {NoSpec}]]
        /\ \A d \in Digi : index'[d][n] = IF d \in {s.src, s.dst} THEN NoSpec ELSE index[d][n]
        /\ \A d \in Digi, m \in Name \ {n} : index'[d][m] = index[d][m]
    BY <2>0, <2>1, <2>3
  <2> QED
    BY <2>2, <2>4 DEF Types, s
<1> QED
  BY <1>1, <1>2

-----------------------------------------------------------------------------
(* Steps that leave the syncer, its objects and its cache alone.           *)

\* What a step of others may do: add events, and put other values where a
\* binding's was.
Quiet ==
    /\ objs' = objs /\ syn' = syn /\ spoiled' = spoiled
    /\ "sync" \in up' <=> "sync" \in up
    /\ \A n \in SyncName : cached'[n] = cached[n] /\ \A d \in Digi : index'[d][n] = index[d][n]
    /\ \A n \in SyncName : Queued(n) => Queued(n)'
    /\ \A d \in Digi : \/ writer'[d] = Nothing
                       \/ writer'[d] = writer[d] /\ (d \in alive => d \in alive')

(* A quiet step keeps the invariant.                                       *)
LEMMA QuietKeeps == ASSUME IInv, Types', Quiet PROVE IInv'
<1> USE StoreAssumption DEF IInv, Quiet
<1>1. DownIsEmpty'
  BY DEF DownIsEmpty
<1>2. CacheIsCurrent'
  BY DEF CacheIsCurrent
<1>3. IndexIsCache'
  BY DEF IndexIsCache
<1>4. WorkIsIndexed'
  BY DEF WorkIsIndexed, Types, Worker, Put
<1>5. WritersAreKnown'
  BY DEF WritersAreKnown, BroughtBy
<1> QED
  BY <1>1, <1>2, <1>3, <1>4, <1>5

(* Whoever writes the mounts of a digi.                                    *)
LEMMA WriteMountsQuiet ==
    ASSUME IInv, NEW r, NEW d, NEW ms, WriteMounts(r, d, ms),
           UNCHANGED <<objs, up, caches, syn, spoiled>>
    PROVE  IInv'
<1>1. queue' \in [Ctl -> SUBSET Request] /\ queue["sync"] \subseteq queue'["sync"]
  BY EnqueuedFacts DEF WriteMounts, IInv, Types
<1>2. Types'
  BY <1>1 DEF WriteMounts, IInv, Types, caches
<1>3. Quiet
  BY <1>1 DEF Quiet, Queued, WriteMounts, caches
<1> QED
  BY <1>2, <1>3, QuietKeeps

(* The steps of the policer.                                               *)
LEMMA PolicyKeeps ==
    ASSUME IInv, PolicyStep, UNCHANGED <<syn, spoiled>>
    PROVE  IInv'
<1> USE StoreAssumption
<1>0. SyncName \cap NamesOf("policy") = {} /\ "policy" \in Ctl /\ NamesOf("policy") = PolicyName
  BY DEF NamesOf, Ctl
<1>1. ASSUME NEW n \in PolicyName, PolicyAdd(n) PROVE IInv'
  <2>1. objs[n] \in Spec0
    BY <1>1 DEF PolicyAdd, IInv, Types, Name
  <2>2. CacheAdd("policy", n, objs[n]) /\ UNCHANGED <<digis, objs, up>>
    BY <1>1 DEF PolicyAdd, PolicyCacheAdd
  <2>3. \A m \in SyncName : m \in Name \ {n} /\ m \in SyncName \ {n}
    BY <1>0 DEF Name
  <2>4. /\ cached' \in [Name -> Spec0 \cup {NoSpec}]
        /\ index' \in [Digi -> [Name -> Spec0 \cup {NoSpec}]]
        /\ queue' \in [Ctl -> SUBSET Request] /\ watched' \in [Ctl -> SUBSET Digi]
        /\ \A m \in Name \ {n} : cached'[m] = cached[m]
        /\ \A d \in Digi, m \in Name \ {n} : index'[d][m] = index[d][m]
        /\ \A m \in SyncName \ {n} : Queued(m) => Queued(m)'
    BY <1>0, <2>1, <2>2, CacheAddFacts DEF IInv
  <2>5. Types'
    BY <2>2, <2>4 DEF IInv, Types, digis
  <2>6. Quiet
    BY <2>2, <2>3, <2>4 DEF Quiet, digis
  <2> QED
    BY <2>5, <2>6, QuietKeeps
<1>2. ASSUME NEW n \in PolicyName, PolicyGone(n) PROVE IInv'
  <2>1. CacheRemove(n) /\ PolDone(<<"spec", n>>) /\ UNCHANGED <<digis, objs, up>>
    BY <1>2 DEF PolicyGone, PolicyCacheRemove
  <2>2. \A m \in SyncName : m \in Name \ {n}
    BY <1>0 DEF Name
  <2>3. /\ cached' \in [Name -> Spec0 \cup {NoSpec}]
        /\ index' \in [Digi -> [Name -> Spec0 \cup {NoSpec}]] /\ watched' = watched
        /\ \A m \in Name \ {n} : cached'[m] = cached[m]
        /\ \A d \in Digi, m \in Name \ {n} : index'[d][m] = index[d][m]
    BY <2>1, CacheRemoveFacts DEF IInv, Name
  <2>4. queue' \in [Ctl -> SUBSET Request] /\ queue'["sync"] = queue["sync"]
    BY <2>1 DEF PolDone, IInv, Types, Ctl
  <2>5. Types'
    BY <2>1, <2>3, <2>4 DEF IInv, Types, digis
  <2>6. Quiet
    BY <2>1, <2>2, <2>3, <2>4 DEF Quiet, Queued, digis
  <2> QED
    BY <2>5, <2>6, QuietKeeps
<1>3. ASSUME NEW n \in PolicyName, PolicyRead(n) PROVE IInv'
  <2>1. Types'
    BY <1>3 DEF PolicyRead, IInv, Types, caches
  <2>2. Quiet
    BY <1>3 DEF PolicyRead, Quiet, Queued, caches
  <2> QED
    BY <2>1, <2>2, QuietKeeps
<1>4. ASSUME NEW d \in Digi, PolicyEnforce(d) PROVE IInv'
  <2>1. queue' \in [Ctl -> SUBSET Request] /\ queue'["sync"] = queue["sync"]
    BY <1>4 DEF PolicyEnforce, PolDone, IInv, Types, Ctl
  <2>2. Types'
    BY <1>4, <2>1 DEF PolicyEnforce, IInv, Types, digis, caches
  <2>3. Quiet
    BY <1>4, <2>1 DEF PolicyEnforce, Quiet, Queued, digis, caches
  <2> QED
    BY <2>2, <2>3, QuietKeeps
<1>5. CASE YieldSource
  BY <1>5, WriteMountsQuiet DEF YieldSource
<1>6. CASE YieldTarget
  BY <1>6, WriteMountsQuiet DEF YieldTarget
<1>7. CASE YieldConflict \/ YieldLost \/ PolicyDone
  <2>1. UNCHANGED store
    BY <1>7 DEF YieldConflict, YieldLost, PolicyDone
  <2>2. Types'
    BY <2>1 DEF IInv, Types, store, digis, caches
  <2>3. Quiet
    BY <2>1 DEF Quiet, Queued, store, digis, caches
  <2> QED
    BY <2>2, <2>3, QuietKeeps
<1>8. CASE PolicyStart
  <2>1. \A m \in PolicyName : <<"spec", m>> \in Request
    BY DEF Request, Name
  <2>2. queue' \in [Ctl -> SUBSET Request] /\ queue'["sync"] = queue["sync"]
    BY <1>8, <2>1 DEF PolicyStart, IInv, Types, Ctl
  <2>3. Types'
    BY <1>0, <1>8, <2>2 DEF PolicyStart, IInv, Types, digis, caches
  <2>4. Quiet
    BY <1>8, <2>2 DEF PolicyStart, Quiet, Queued, digis, caches
  <2> QED
    BY <2>3, <2>4, QuietKeeps
<1> QED
  BY <1>1, <1>2, <1>3, <1>4, <1>5, <1>6, <1>7, <1>8 DEF PolicyStep

(* The policer dies.                                                       *)
LEMMA PolicyCrashKeeps ==
    ASSUME IInv, PolicyCrash, UNCHANGED <<syn, spoiled>>
    PROVE  IInv'
<1> USE StoreAssumption
<1>1. /\ up' = up \ {"policy"} /\ UNCHANGED <<digis, objs>>
      /\ queue' = [queue EXCEPT !["policy"] = {}] /\ EmptyCaches("policy")
  BY DEF PolicyCrash
<1>2. /\ cached' \in [Name -> Spec0 \cup {NoSpec}]
      /\ index' \in [Digi -> [Name -> Spec0 \cup {NoSpec}]] /\ watched' \in [Ctl -> SUBSET Digi]
      /\ \A m \in SyncName : cached'[m] = cached[m] /\ \A d \in Digi : index'[d][m] = index[d][m]
  BY <1>1 DEF EmptyCaches, IInv, Types, NamesOf, Name
<1>3. queue' \in [Ctl -> SUBSET Request] /\ queue'["sync"] = queue["sync"]
  BY <1>1 DEF IInv, Types, Ctl
<1>4. Types'
  BY <1>1, <1>2, <1>3 DEF IInv, Types, digis
<1>5. Quiet
  BY <1>1, <1>2, <1>3 DEF Quiet, Queued, digis
<1> QED
  BY <1>4, <1>5, QuietKeeps

(* The steps of digi space mount.                                          *)
LEMMA ClientKeeps ==
    ASSUME IInv, NEW c \in Client, UNCHANGED <<syn, spoiled>>,
           \/ ClientStep(c) \/ UpdateFails(c)
           \/ \E op, ks, d : DoMount(c, op, ks, d)
    PROVE  IInv'
<1>1. CASE Update(c)
  BY <1>1, WriteMountsQuiet DEF Update
<1>2. ASSUME \/ UNCHANGED store
             \/ \E op, ks, d : DoMount(c, op, ks, d)
      PROVE  IInv'
  <2>1. UNCHANGED <<alive, attr, mounts, writer, objs, up, queue, caches>>
    BY <1>2 DEF DoMount, store, digis
  <2>2. Types'
    BY <2>1 DEF IInv, Types, caches
  <2>3. Quiet
    BY <2>1 DEF Quiet, Queued, caches
  <2> QED
    BY <2>2, <2>3, QuietKeeps
<1>3. CASE UpdateFails(c) /\ ~ UNCHANGED store
  <2> DEFINE d == call[c].target
  <2>1. queue' = Enqueued(d) /\ UNCHANGED <<alive, attr, writer, objs, up, caches>>
    BY <1>3 DEF UpdateFails
  <2>2. queue' \in [Ctl -> SUBSET Request] /\ queue["sync"] \subseteq queue'["sync"]
    BY <2>1, EnqueuedFacts DEF IInv
  <2>3. Types'
    BY <2>1, <2>2 DEF IInv, Types, caches
  <2>4. Quiet
    BY <2>1, <2>2 DEF Quiet, Queued, caches
  <2> QED
    BY <2>3, <2>4, QuietKeeps
<1> QED
  BY <1>1, <1>2, <1>3 DEF ClientStep, UpdateConflict

-----------------------------------------------------------------------------
(* Users and drivers.                                                      *)

(* A write, and a digi that comes or goes.                                 *)
LEMMA DigisKeep ==
    ASSUME IInv, NEW d \in Digi, Toggle(d) \/ \E v \in Val : Write(d, v)
    PROVE  IInv'
<1>1. /\ queue' = Enqueued(d) /\ writer' = [writer EXCEPT ![d] = Nothing]
      /\ UNCHANGED <<objs, up, caches, workers>>
      /\ \E v \in Val \cup {None} : attr' = [attr EXCEPT ![d] = v]
      /\ alive' \in SUBSET Digi /\ alive \subseteq alive' \cup {d}
  BY DEF Toggle, Write, IInv, Types
<1>2. queue' \in [Ctl -> SUBSET Request] /\ queue["sync"] \subseteq queue'["sync"]
  BY <1>1, EnqueuedFacts DEF IInv
<1>3. attr' \in [Digi -> Val \cup {None}]
  BY <1>1 DEF IInv, Types
<1>4. Types'
  BY <1>1, <1>2, <1>3 DEF IInv, Types, caches, workers
<1>5. Quiet
  BY <1>1, <1>2 DEF Quiet, Queued, IInv, Types, caches, workers
<1> QED
  BY <1>4, <1>5, QuietKeeps

(* An object is created, changed or deleted: a binding the syncer has read *)
(* is queued, and one it has not read was not there or is spoiled.         *)
LEMMA SetObjKeeps ==
    ASSUME IInv, NEW n \in Name, NEW s \in Spec0 \cup {NoSpec}, SetObj(n, s)
    PROVE  IInv'
<1> USE StoreAssumption
<1> DEFINE gone == objs[n] # NoSpec /\ ~ ("sync" \in up /\ cached[n] # NoSpec)
<1>1. /\ objs' = [objs EXCEPT ![n] = s] /\ queue' = EnqueuedSpec(n)
      /\ spoiled' = IF gone THEN spoiled \cup {n} ELSE spoiled
      /\ UNCHANGED <<digis, up, caches, syn>>
  BY DEF SetObj
<1> HIDE DEF gone
<1>2. /\ queue' \in [Ctl -> SUBSET Request] /\ queue["sync"] \subseteq queue'["sync"]
      /\ n \in SyncName /\ "sync" \in up => <<"spec", n>> \in queue'["sync"]
  BY <1>1, EnqueuedSpecFacts DEF IInv
<1>3. /\ objs'[n] = s /\ objs' \in [Name -> Spec0 \cup {NoSpec}]
      /\ \A m \in Name \ {n} : objs'[m] = objs[m]
  BY <1>1 DEF IInv, Types
<1>4. spoiled \subseteq spoiled' /\ spoiled' \subseteq Name
  BY <1>1 DEF IInv, Types
<1>5. Types'
  BY <1>1, <1>2, <1>3, <1>4 DEF IInv, Types, digis, caches
<1>6. DownIsEmpty'
  BY <1>1 DEF IInv, DownIsEmpty, caches
<1>7. CacheIsCurrent'
  <2> SUFFICES ASSUME NEW m \in SyncName, cached[m] # NoSpec
               PROVE  m \in spoiled' \/ cached[m] = objs'[m] \/ Queued(m)'
    BY <1>1 DEF CacheIsCurrent, caches
  <2>1. CASE m # n
    BY <1>2, <1>3, <1>4, <2>1 DEF IInv, CacheIsCurrent, Queued, Name
  <2>2. CASE m = n
    BY <1>2, <2>2 DEF IInv, DownIsEmpty, Queued
  <2> QED
    BY <2>1, <2>2
<1>8. IndexIsCache'
  BY <1>1, <1>4 DEF IInv, IndexIsCache, caches
<1>9. WorkIsIndexed'
  BY <1>1, <1>4 DEF IInv, WorkIsIndexed, caches
<1>10. WritersAreKnown'
  <2> SUFFICES ASSUME NEW d \in Digi, NEW m, m = writer[d], m # Nothing
               PROVE  /\ m \in SyncName /\ d \in alive
                      /\ \/ m \in spoiled' \/ BroughtBy(cached[m], d)
                         \/ cached[m] = NoSpec /\ BroughtBy(objs'[m], d)
    BY <1>1 DEF WritersAreKnown, BroughtBy, caches, digis
  <2>1. /\ m \in SyncName /\ d \in alive
        /\ \/ m \in spoiled \/ BroughtBy(cached[m], d)
           \/ cached[m] = NoSpec /\ BroughtBy(objs[m], d)
    BY DEF IInv, WritersAreKnown
  <2>2. CASE cached[m] = NoSpec /\ BroughtBy(objs[m], d) /\ m = n
    BY <1>1, <2>1, <2>2 DEF gone, BroughtBy
  <2>3. CASE cached[m] = NoSpec /\ BroughtBy(objs[m], d) /\ m # n
    BY <1>3, <2>1, <2>3 DEF BroughtBy, Name
  <2> QED
    BY <1>4, <2>1, <2>2, <2>3
<1> QED
  BY <1>5, <1>6, <1>7, <1>8, <1>9, <1>10 DEF IInv

-----------------------------------------------------------------------------
(* The syncer reads an object.                                             *)

(* A worker that starts on a digi has nothing but what is indexed to do.   *)
LEMMA EnforceStarts ==
    ASSUME NEW req \in Request, NEW d \in Digi, NEW idx, Enforce(req, d, idx)
    PROVE  /\ syn' \in Worker /\ syn'.req = req /\ syn'.put = NoWrite /\ syn'.digi = d
           /\ \A n \in syn'.todo : n \in SyncName /\ idx[d][n] # NoSpec
BY DEF Enforce, Idle, Worker

(* An object that is there enters the cache, as it is.                     *)
LEMMA SyncAddKeeps == ASSUME IInv, NEW n \in SyncName, SyncAdd(n) PROVE IInv'
<1> USE StoreAssumption
<1> DEFINE s == objs[n]
<1>1. /\ "sync" \in up /\ syn.req = <<>> /\ CacheAdd("sync", n, s)
      /\ spoiled' = IF cached[n] \in {NoSpec, s} THEN spoiled ELSE spoiled \cup {n}
      /\ \/ UNCHANGED syn \/ Enforce(<<"spec", n>>, s.src, index')
      /\ UNCHANGED <<digis, objs, up>>
  BY DEF SyncAdd, Take, IsIdle
<1>2. /\ s \in Spec0 /\ n \in Name /\ n \in NamesOf("sync") /\ "sync" \in Ctl
      /\ <<"spec", n>> \in Request /\ s.src \in Digi
  BY DEF SyncAdd, IInv, Types, Name, Request, NamesOf, Ctl, Spec0
<1>3. /\ cached' \in [Name -> Spec0 \cup {NoSpec}]
      /\ index' \in [Digi -> [Name -> Spec0 \cup {NoSpec}]]
      /\ queue' \in [Ctl -> SUBSET Request] /\ watched' \in [Ctl -> SUBSET Digi]
      /\ cached'[n] = s
      /\ \A m \in Name \ {n} : cached'[m] = cached[m]
      /\ \A d \in Digi : index'[d][n] \in {index[d][n]} \cup (IF d \in {s.src, s.dst} THEN {s} ELSE {})
      /\ \A d \in Digi, m \in Name \ {n} : index'[d][m] = index[d][m]
      /\ \A m \in SyncName \ {n} : Queued(m) => Queued(m)'
  BY <1>1, <1>2, CacheAddFacts DEF IInv
<1>4. \/ syn' = syn /\ syn.put = NoWrite /\ syn.todo = {}
      \/ /\ syn' \in Worker /\ syn'.req = <<"spec", n>> /\ syn'.put = NoWrite /\ syn'.digi = s.src
         /\ \A m \in syn'.todo : m \in SyncName /\ index'[s.src][m] # NoSpec
  BY <1>1, <1>2, EnforceStarts DEF IInv, DownIsEmpty
<1>5. spoiled \subseteq spoiled' /\ spoiled' \subseteq Name
  BY <1>1, <1>2 DEF IInv, Types
<1> HIDE DEF s
<1>6. Types'
  BY <1>1, <1>3, <1>4, <1>5 DEF IInv, Types, digis
<1>7. DownIsEmpty'
  BY <1>1, <1>4 DEF IInv, DownIsEmpty
<1>8. CacheIsCurrent'
  BY <1>1, <1>3, <1>5 DEF IInv, CacheIsCurrent, Name, s
<1>9. IndexIsCache'
  <2> SUFFICES ASSUME NEW m \in SyncName, NEW d \in Digi, index'[d][m] # NoSpec, m \notin spoiled'
               PROVE  index'[d][m] = cached'[m] /\ d \in {cached'[m].src, cached'[m].dst}
    BY DEF IndexIsCache
  <2>1. CASE m # n
    BY <1>3, <1>5, <2>1 DEF IInv, IndexIsCache, Name
  <2>2. CASE m = n /\ index'[d][n] = s /\ d \in {s.src, s.dst}
    BY <1>3, <2>2
  <2>3. CASE m = n /\ index'[d][n] = index[d][n]
    <3>1. cached[n] \in {NoSpec, s} /\ n \notin spoiled
      BY <1>1, <1>5, <2>3
    <3>2. index[d][n] = cached[n] /\ d \in {cached[n].src, cached[n].dst} /\ cached[n] # NoSpec
      BY <2>3, <3>1 DEF IInv, IndexIsCache
    <3> QED
      BY <1>3, <2>3, <3>1, <3>2
  <2> QED
    BY <1>3, <2>1, <2>2, <2>3
<1>10. WorkIsIndexed'
  BY <1>2, <1>4 DEF WorkIsIndexed, s
<1>11. WritersAreKnown'
  <2> SUFFICES ASSUME NEW d \in Digi, NEW m, m = writer[d], m # Nothing
               PROVE  /\ m \in SyncName /\ d \in alive
                      /\ \/ m \in spoiled' \/ BroughtBy(cached'[m], d)
                         \/ cached'[m] = NoSpec /\ BroughtBy(objs[m], d)
    BY <1>1 DEF WritersAreKnown, BroughtBy, digis
  <2>1. /\ m \in SyncName /\ d \in alive
        /\ \/ m \in spoiled \/ BroughtBy(cached[m], d)
           \/ cached[m] = NoSpec /\ BroughtBy(objs[m], d)
    BY DEF IInv, WritersAreKnown
  <2>2. CASE m # n
    BY <1>3, <1>5, <2>1, <2>2 DEF Name
  <2>3. CASE m = n
    BY <1>1, <1>3, <1>5, <2>1, <2>3 DEF BroughtBy, s
  <2> QED
    BY <2>2, <2>3
<1> QED
  BY <1>6, <1>7, <1>8, <1>9, <1>10, <1>11 DEF IInv

(* An object that is gone leaves the cache: what it had brought is cleared *)
(* or remembered as spoiled.                                               *)
LEMMA SyncGoneKeeps == ASSUME IInv, NEW n \in SyncName, SyncGone(n) PROVE IInv'
<1> USE StoreAssumption
<1> DEFINE cleared(d) ==
             /\ d \in ToClear(n) /\ attr' = [attr EXCEPT ![d] = None]
             /\ writer' = [writer EXCEPT ![d] = Nothing] /\ spoiled' = spoiled
             /\ queue' = [c \in Ctl |->
                   (IF attr[d] = None THEN queue ELSE Enqueued(d))[c] \ {<<"spec", n>>}]
           kept ==
             /\ spoiled' = IF ToClear(n) = {} /\ cached[n] # NoSpec
                           THEN spoiled ELSE spoiled \cup {n}
             /\ queue' = [queue EXCEPT !["sync"] = @ \ {<<"spec", n>>}]
             /\ UNCHANGED <<attr, writer>>
<1>1. /\ syn.req = <<>> /\ objs[n] = NoSpec /\ CacheRemove(n)
      /\ (\E d \in ToClear(n) : cleared(d)) \/ kept
      /\ UNCHANGED <<alive, objs, up, syn>>
  BY DEF SyncGone, Take, IsIdle, Done, syncVars
<1>2. /\ cached' \in [Name -> Spec0 \cup {NoSpec}]
      /\ index' \in [Digi -> [Name -> Spec0 \cup {NoSpec}]] /\ watched' = watched
      /\ cached'[n] = NoSpec
      /\ \A m \in Name \ {n} : cached'[m] = cached[m]
      /\ \A d \in Digi : index'[d][n] \in {NoSpec, index[d][n]}
      /\ cached[n] # NoSpec =>
            \A d \in Digi : d \in {cached[n].src, cached[n].dst} => index'[d][n] = NoSpec
      /\ \A d \in Digi, m \in Name \ {n} : index'[d][m] = index[d][m]
  BY <1>1, CacheRemoveFacts DEF IInv, Name
<1>3. /\ ToClear(n) \subseteq Digi
      /\ \A d \in ToClear(n) : cached[n] # NoSpec /\ cached[n].mode = "match" /\ d = cached[n].dst
      /\ \A d \in alive : BroughtBy(cached[n], d) => d \in ToClear(n)
  BY DEF ToClear, GetObj, IInv, Types, BroughtBy
<1>4. /\ queue' \in [Ctl -> SUBSET Request]
      /\ \A m \in SyncName \ {n} : Queued(m) => Queued(m)'
  <2>1. ASSUME NEW d \in ToClear(n), cleared(d)
        PROVE  /\ queue' \in [Ctl -> SUBSET Request]
               /\ \A m \in SyncName \ {n} : Queued(m) => Queued(m)'
    <3> DEFINE Q == IF attr[d] = None THEN queue ELSE Enqueued(d)
    <3>1. Q \in [Ctl -> SUBSET Request] /\ queue["sync"] \subseteq Q["sync"]
      BY EnqueuedFacts DEF IInv, Types
    <3>2. queue' = [c \in Ctl |-> Q[c] \ {<<"spec", n>>}]
      BY <2>1
    <3> HIDE DEF Q
    <3> QED
      BY <3>1, <3>2 DEF Queued, Ctl
  <2>2. CASE kept
    BY <2>2 DEF IInv, Types, Queued, Ctl
  <2> QED
    BY <1>1, <2>1, <2>2
<1>5. /\ spoiled \subseteq spoiled' /\ spoiled' \subseteq Name
      /\ attr' \in [Digi -> Val \cup {None}] /\ writer' \in [Digi -> Name \cup {Nothing}]
      /\ \A d \in Digi : writer'[d] \in {writer[d], Nothing}
  <2>1. ASSUME NEW d \in ToClear(n), cleared(d)
        PROVE  /\ spoiled' = spoiled /\ d \in Digi
               /\ attr' \in [Digi -> Val \cup {None}] /\ writer' \in [Digi -> Name \cup {Nothing}]
               /\ \A e \in Digi : writer'[e] \in {writer[e], Nothing}
    BY <1>3, <2>1 DEF IInv, Types
  <2>2. CASE kept
    BY <2>2 DEF IInv, Types, Name
  <2> QED
    BY <1>1, <2>1, <2>2 DEF IInv, Types
<1>6. \A d \in Digi : writer'[d] = n => n \in spoiled'
  <2> SUFFICES ASSUME NEW d \in Digi, writer'[d] = n, n \notin spoiled PROVE n \in spoiled'
    BY <1>5
  <2>1. writer[d] = n /\ n # Nothing
    BY <1>5 DEF Name
  <2>2. d \in alive /\ BroughtBy(cached[n], d)
    BY <1>1, <2>1 DEF IInv, WritersAreKnown, BroughtBy
  <2>3. d \in ToClear(n)
    BY <1>3, <2>2
  <2>4. ASSUME NEW e \in ToClear(n), cleared(e) PROVE FALSE
    <3>1. d = e
      BY <1>3, <2>3
    <3> QED
      BY <2>1, <2>4, <3>1 DEF IInv, Types
  <2> QED
    BY <1>1, <2>3, <2>4
<1> HIDE DEF cleared, kept
<1>7. Types'
  BY <1>1, <1>2, <1>4, <1>5 DEF IInv, Types
<1>8. DownIsEmpty'
  BY <1>1, <1>2 DEF IInv, DownIsEmpty, Name
<1>9. CacheIsCurrent'
  BY <1>1, <1>2, <1>4, <1>5 DEF IInv, CacheIsCurrent, Name
<1>10. IndexIsCache'
  <2> SUFFICES ASSUME NEW m \in SyncName, NEW d \in Digi, index'[d][m] # NoSpec, m \notin spoiled'
               PROVE  index'[d][m] = cached'[m] /\ d \in {cached'[m].src, cached'[m].dst}
    BY DEF IndexIsCache
  <2>1. CASE m # n
    BY <1>2, <1>5, <2>1 DEF IInv, IndexIsCache, Name
  <2>2. CASE m = n
    <3>1. index[d][n] # NoSpec /\ n \notin spoiled
      BY <1>2, <1>5, <2>2
    <3>2. index[d][n] = cached[n] /\ d \in {cached[n].src, cached[n].dst}
      BY <3>1 DEF IInv, IndexIsCache
    <3> QED
      BY <1>2, <2>2, <3>1, <3>2
  <2> QED
    BY <2>1, <2>2
<1>11. WorkIsIndexed'
  BY <1>1 DEF IInv, DownIsEmpty, WorkIsIndexed
<1>12. WritersAreKnown'
  <2> SUFFICES ASSUME NEW d \in Digi, NEW m, m = writer'[d], m # Nothing
               PROVE  /\ m \in SyncName /\ d \in alive
                      /\ \/ m \in spoiled' \/ BroughtBy(cached'[m], d)
                         \/ cached'[m] = NoSpec /\ BroughtBy(objs[m], d)
    BY <1>1 DEF WritersAreKnown, BroughtBy
  <2>1. /\ m \in SyncName /\ d \in alive
        /\ \/ m \in spoiled \/ BroughtBy(cached[m], d)
           \/ cached[m] = NoSpec /\ BroughtBy(objs[m], d)
    BY <1>5 DEF IInv, WritersAreKnown
  <2>2. CASE m = n
    BY <1>6, <2>1, <2>2
  <2>3. CASE m # n
    BY <1>2, <1>5, <2>1, <2>3 DEF Name
  <2> QED
    BY <2>2, <2>3
<1> QED
  BY <1>7, <1>8, <1>9, <1>10, <1>11, <1>12 DEF IInv

-----------------------------------------------------------------------------
(* The worker of the syncer enforces.                                      *)

\* Nothing but the worker and its queue changes.
OnlyWork ==
    /\ UNCHANGED <<alive, attr, objs, cached, index, watched, writer, up, spoiled>>
    /\ queue' \in [Ctl -> SUBSET Request]
    /\ \A n \in SyncName : Queued(n) => Queued(n)'

(* The worker alone disturbs only what concerns the worker.                *)
LEMMA OnlyWorkKeeps ==
    ASSUME IInv, OnlyWork, syn' \in Worker,
           syn'.req = <<>> => syn'.put = NoWrite /\ syn'.todo = {},
           "sync" \notin up => syn'.req = <<>>,
           WorkIsIndexed'
    PROVE  IInv'
<1> USE DEF IInv, OnlyWork
<1>1. Types'
  BY DEF Types
<1>2. DownIsEmpty'
  BY DEF DownIsEmpty
<1>3. CacheIsCurrent'
  BY DEF CacheIsCurrent
<1>4. IndexIsCache' /\ WritersAreKnown'
  BY DEF IndexIsCache, WritersAreKnown
<1> QED
  BY <1>1, <1>2, <1>3, <1>4

(* A request to look at a digi.                                            *)
LEMMA SyncEnforceKeeps == ASSUME IInv, NEW d \in Digi, SyncEnforce(d) PROVE IInv'
<1>1. /\ "sync" \in up /\ queue' = [queue EXCEPT !["sync"] = @ \ {<<"enforce", d>>}]
      /\ Enforce(<<"enforce", d>>, d, index)
      /\ UNCHANGED <<digis, objs, up, caches, spoiled>>
  BY DEF SyncEnforce, Take, Done
<1>2. <<"enforce", d>> \in Request
  BY DEF Request
<1>3. /\ syn' \in Worker /\ syn'.req = <<"enforce", d>> /\ syn'.put = NoWrite /\ syn'.digi = d
      /\ \A n \in syn'.todo : n \in SyncName /\ index[d][n] # NoSpec
  BY <1>1, <1>2, EnforceStarts
<1>4. OnlyWork
  BY <1>1 DEF OnlyWork, IInv, Types, Queued, Ctl, digis, caches
<1>5. WorkIsIndexed'
  BY <1>1, <1>3 DEF WorkIsIndexed, caches
<1> QED
  BY <1>1, <1>3, <1>4, <1>5, OnlyWorkKeeps

(* Both digis of a binding are read: a match is to write its target.       *)
LEMMA SyncReadKeeps == ASSUME IInv, NEW n \in SyncName, SyncRead(n) PROVE IInv'
<1> USE StoreAssumption
<1> DEFINE s == index[syn.digi][n]
           w == Direction(s, syn.digi)
           ok == GetObj(s.src) /\ GetObj(s.dst) /\ GetAttr(w.from)
           put == IF ok THEN [of |-> n, spec |-> s, to |-> w.to, val |-> attr[w.from]]
                  ELSE NoWrite
<1>1. /\ n \in syn.todo
      /\ syn' = [syn EXCEPT !.todo = @ \ {n}, !.err = ~ ok, !.put = put]
      /\ UNCHANGED <<alive, attr, writer, objs, up, queue, caches, spoiled>>
  BY DEF SyncRead
<1>2. /\ syn.digi \in Digi /\ s \in Spec0 /\ n \in Name
      /\ n \in spoiled \/ s = cached[n]
  BY <1>1 DEF IInv, WorkIsIndexed, IndexIsCache, Types, Name
<1>3. /\ w.from \in Digi /\ w.to \in Digi
      /\ s.mode = "match" => w.to = s.dst
  BY <1>2 DEF Direction, Spec0
<1>4. /\ put \in Put \cup {NoWrite}
      /\ put # NoWrite => put.of = n /\ put.spec = s /\ put.to = w.to
  BY <1>2, <1>3 DEF Put, GetAttr, IInv, Types
<1> HIDE DEF put, ok, w
<1>5. syn \in Worker
  BY DEF IInv, Types
<1>6. ok \in BOOLEAN
  BY DEF ok, GetObj, GetAttr
<1>7. /\ syn' \in Worker /\ syn'.req = syn.req /\ syn'.digi = syn.digi
      /\ syn'.todo = syn.todo \ {n} /\ syn'.put = put
  BY <1>1, <1>4, <1>5, <1>6 DEF Worker
<1>8. OnlyWork
  BY <1>1 DEF OnlyWork, IInv, Types, Queued, caches
<1>9. syn.req # <<>> /\ "sync" \in up
  BY <1>1 DEF IInv, DownIsEmpty
<1>10. WorkIsIndexed'
  BY <1>1, <1>2, <1>3, <1>4, <1>7 DEF IInv, WorkIsIndexed, caches
<1> QED
  BY <1>7, <1>8, <1>9, <1>10, OnlyWorkKeeps

(* What a match writes came by a binding of the cache.                     *)
LEMMA SyncWriteKeeps == ASSUME IInv, SyncWrite PROVE IInv'
<1> USE StoreAssumption
<1> DEFINE w == syn.put
           by == IF w.spec.mode = "match" THEN w.of ELSE Nothing
<1>1. /\ w # NoWrite /\ w.to \in alive /\ WriteAttr("sync", w.to, w.val, by)
      /\ syn' = [syn EXCEPT !.put = NoWrite] /\ UNCHANGED <<objs, up, caches, spoiled>>
  BY DEF SyncWrite
<1>2. w \in Put
  BY <1>1 DEF IInv, Types, Worker
<1>3. /\ w.to \in Digi /\ w.val \in Val /\ w.of \in SyncName /\ w.spec \in Spec0
      /\ by \in Name \cup {Nothing}
      /\ w.of \in spoiled \/ w.spec = cached[w.of]
      /\ by # Nothing => by = w.of /\ w.spec.mode = "match" /\ w.to = w.spec.dst
  BY <1>1, <1>2 DEF Put, Name, IInv, WorkIsIndexed
<1> HIDE DEF w, by
<1>4. /\ attr' = [attr EXCEPT ![w.to] = w.val] /\ alive' = alive
      /\ \/ UNCHANGED <<queue, writer>>
         \/ queue' = Enqueued(w.to) /\ writer' = [writer EXCEPT ![w.to] = by]
  BY <1>1 DEF WriteAttr
<1>5. /\ queue' \in [Ctl -> SUBSET Request]
      /\ \A n \in SyncName : Queued(n) => Queued(n)'
  BY <1>4, EnqueuedFacts DEF IInv, Types, Queued
<1>6. syn' \in Worker /\ syn'.put = NoWrite /\ syn'.todo = syn.todo /\ syn'.digi = syn.digi /\ syn'.req = syn.req
  BY <1>1 DEF IInv, Types, Worker
<1>7. Types'
  BY <1>1, <1>3, <1>4, <1>5, <1>6 DEF IInv, Types, caches
<1>8. DownIsEmpty'
  BY <1>1, <1>6 DEF IInv, DownIsEmpty, caches
<1>9. CacheIsCurrent'
  BY <1>1, <1>5 DEF IInv, CacheIsCurrent, caches
<1>10. IndexIsCache'
  BY <1>1 DEF IInv, IndexIsCache, caches
<1>11. WorkIsIndexed'
  BY <1>1, <1>6 DEF IInv, WorkIsIndexed, caches
<1>12. WritersAreKnown'
  <2> SUFFICES ASSUME NEW d \in Digi, NEW n, n = writer'[d], n # Nothing
               PROVE  /\ n \in SyncName /\ d \in alive
                      /\ \/ n \in spoiled \/ BroughtBy(cached[n], d)
                         \/ cached[n] = NoSpec /\ BroughtBy(objs[n], d)
    BY <1>1, <1>4 DEF WritersAreKnown, BroughtBy, caches
  <2>1. CASE n = writer[d]
    BY <2>1 DEF IInv, WritersAreKnown
  <2>2. CASE d = w.to /\ n = by
    BY <1>1, <1>3, <2>2 DEF BroughtBy
  <2>3. n = writer[d] \/ (d = w.to /\ n = by)
    BY <1>4 DEF IInv, Types
  <2> QED
    BY <2>1, <2>2, <2>3
<1> QED
  BY <1>7, <1>8, <1>9, <1>10, <1>11, <1>12 DEF IInv

(* A write that is refused or lost, and the end of a request.              *)
LEMMA SyncEndsKeep == ASSUME IInv, SyncConflict \/ SyncFails \/ SyncDone PROVE IInv'
<1>1. ASSUME SyncConflict \/ SyncFails PROVE IInv'
  <2>1. /\ \/ syn' = [syn EXCEPT !.put = NoWrite, !.err = TRUE]
           \/ syn' = [syn EXCEPT !.put = NoWrite, !.err = TRUE, !.lost = @ \cup {syn.put.of}]
        /\ syn.put # NoWrite /\ UNCHANGED <<store, spoiled>>
    BY <1>1 DEF SyncConflict, SyncFails
  <2>2. syn \in Worker /\ syn.put.of \in SyncName
    BY <2>1 DEF IInv, Types, Worker, Put
  <2>3. /\ syn' \in Worker /\ syn'.put = NoWrite /\ syn'.todo = syn.todo
        /\ syn'.digi = syn.digi /\ syn'.req = syn.req
    BY <2>1, <2>2 DEF Worker
  <2>4. OnlyWork
    BY <2>1 DEF OnlyWork, IInv, Types, Queued, store, digis, caches
  <2>5. WorkIsIndexed'
    BY <2>1, <2>3 DEF IInv, WorkIsIndexed, store, caches
  <2> QED
    BY <2>1, <2>3, <2>4, <2>5, OnlyWorkKeeps DEF IInv, DownIsEmpty
<1>2. CASE SyncDone
  <2>1. /\ syn' = Idle /\ syn.req # <<>> /\ UNCHANGED <<digis, objs, up, caches, spoiled>>
        /\ queue' = [queue EXCEPT !["sync"] = IF syn.err THEN @ \cup {syn.req} ELSE @]
    BY <1>2 DEF SyncDone, SyncEnds, IsIdle
  <2>2. syn.req \in Request
    BY <2>1 DEF IInv, Types, Worker
  <2>3. OnlyWork
    BY <2>1, <2>2 DEF OnlyWork, IInv, Types, Queued, Ctl, digis, caches
  <2>4. syn' \in Worker /\ syn'.put = NoWrite /\ syn'.todo = {} /\ syn'.req = <<>>
    BY <2>1 DEF Idle, Worker
  <2>5. WorkIsIndexed'
    BY <2>4 DEF WorkIsIndexed
  <2> QED
    BY <2>3, <2>4, <2>5, OnlyWorkKeeps
<1> QED
  BY <1>1, <1>2

-----------------------------------------------------------------------------
(* The syncer's process.                                                   *)

(* A syncer that dies forgets its cache: a binding whose present object it *)
(* had not seen is spoiled, the others are as their objects say.           *)
LEMMA SyncCrashKeeps == ASSUME IInv, SyncCrash PROVE IInv'
<1> USE StoreAssumption
<1>1. /\ up' = up \ {"sync"} /\ EmptyCaches("sync") /\ queue' = [queue EXCEPT !["sync"] = {}]
      /\ syn' = Idle /\ spoiled' = spoiled \cup Unseen /\ UNCHANGED <<digis, objs>>
  BY DEF SyncCrash
<1>2. /\ cached' \in [Name -> Spec0 \cup {NoSpec}]
      /\ index' \in [Digi -> [Name -> Spec0 \cup {NoSpec}]] /\ watched' \in [Ctl -> SUBSET Digi]
      /\ \A m \in SyncName : cached'[m] = NoSpec /\ \A d \in Digi : index'[d][m] = NoSpec
  BY <1>1 DEF EmptyCaches, IInv, Types, NamesOf, Name
<1>3. queue' \in [Ctl -> SUBSET Request]
  BY <1>1 DEF IInv, Types
<1>4. syn' \in Worker /\ syn'.put = NoWrite /\ syn'.todo = {} /\ syn'.req = <<>>
  BY <1>1 DEF Idle, Worker
<1>5. Types'
  BY <1>1, <1>2, <1>3, <1>4 DEF IInv, Types, digis, Unseen, Name
<1>6. DownIsEmpty' /\ WorkIsIndexed'
  BY <1>1, <1>2, <1>4 DEF DownIsEmpty, WorkIsIndexed
<1>7. CacheIsCurrent' /\ IndexIsCache'
  BY <1>2 DEF CacheIsCurrent, IndexIsCache
<1>8. WritersAreKnown'
  <2> SUFFICES ASSUME NEW d \in Digi, NEW n, n = writer[d], n # Nothing, n \notin spoiled'
               PROVE  n \in SyncName /\ d \in alive /\ BroughtBy(objs[n], d)
    BY <1>1, <1>2, IInv DEF IInv, WritersAreKnown, BroughtBy, digis
  <2>1. /\ n \in SyncName /\ d \in alive
        /\ \/ BroughtBy(cached[n], d)
           \/ cached[n] = NoSpec /\ BroughtBy(objs[n], d)
    BY <1>1 DEF IInv, WritersAreKnown
  <2>2. cached[n] # NoSpec => cached[n] = objs[n]
    BY <1>1, <2>1 DEF IInv, CacheIsCurrent, Queued, Unseen
  <2> QED
    BY <2>1, <2>2 DEF BroughtBy
<1> QED
  BY <1>5, <1>6, <1>7, <1>8 DEF IInv

(* A syncer that starts has all bindings to look at.                       *)
LEMMA SyncStartKeeps == ASSUME IInv, SyncStart PROVE IInv'
<1>1. /\ "sync" \notin up /\ up' = up \cup {"sync"} /\ UNCHANGED <<digis, objs, caches, syn, spoiled>>
      /\ queue' = [queue EXCEPT !["sync"] = {<<"spec", n>> : n \in {m \in SyncName : objs[m] # NoSpec}}]
  BY DEF SyncStart, syncVars
<1>2. \A m \in SyncName : <<"spec", m>> \in Request
  BY DEF Request, Name
<1> DEFINE Q == {<<"spec", n>> : n \in {m \in SyncName : objs[m] # NoSpec}}
<1>3. queue' \in [Ctl -> SUBSET Request]
  <2>1. Q \in SUBSET Request
    BY <1>2
  <2>2. queue' = [queue EXCEPT !["sync"] = Q]
    BY <1>1
  <2> HIDE DEF Q
  <2> QED
    BY <2>1, <2>2 DEF IInv, Types
<1>4. Types'
  BY <1>1, <1>3 DEF IInv, Types, Ctl, digis, caches
<1>5. DownIsEmpty' /\ CacheIsCurrent'
  BY <1>1 DEF IInv, DownIsEmpty, CacheIsCurrent, caches
<1>6. IndexIsCache' /\ WorkIsIndexed' /\ WritersAreKnown'
  BY <1>1 DEF IInv, IndexIsCache, WorkIsIndexed, WritersAreKnown, BroughtBy, digis, caches
<1> QED
  BY <1>4, <1>5, <1>6 DEF IInv

-----------------------------------------------------------------------------
(* The space.                                                              *)

(* The invariant is inductive: it holds before the controllers start, and  *)
(* every step of controllers, calls, users and faults keeps it.            *)
THEOREM SpaceInvariant == Spec => []IInv
<1> USE StoreAssumption, SpaceAssumption
<1>1. Init => IInv
  <2> SUFFICES ASSUME Init PROVE IInv
    OBVIOUS
  <2>1. syn \in Worker /\ syn.put = NoWrite /\ syn.todo = {} /\ syn.req = <<>>
    BY DEF Init, Idle, Worker
  <2>2. objs \in [Name -> Spec0 \cup {NoSpec}] /\ attr \in [Digi -> Val \cup {None}]
    BY DEF Init
  <2>3. Types
    BY <2>1, <2>2 DEF Init, Types, Request
  <2>4. \A n \in SyncName : n \in Name
    BY DEF Name
  <2>5. DownIsEmpty /\ CacheIsCurrent /\ IndexIsCache /\ WorkIsIndexed
    BY <2>1, <2>4 DEF Init, DownIsEmpty, CacheIsCurrent, IndexIsCache, WorkIsIndexed
  <2>6. WritersAreKnown
    BY DEF Init, WritersAreKnown
  <2> QED
    BY <2>3, <2>5, <2>6 DEF IInv
<1>2. IInv /\ [Next]_vars => IInv'
  <2> SUFFICES ASSUME IInv, [Next]_vars PROVE IInv'
    OBVIOUS
  <2>1. CASE Syncer
    <3>1. SyncStep
      BY <2>1 DEF Syncer
    <3> QED
      BY <3>1, SyncAddKeeps, SyncGoneKeeps, SyncReadKeeps, SyncEnforceKeeps, SyncWriteKeeps,
         SyncEndsKeep, SyncStartKeeps DEF SyncStep
  <2>2. CASE Policer
    BY <2>2, PolicyKeeps DEF Policer, syncVars
  <2>3. ASSUME NEW c \in Client, Caller(c) PROVE IInv'
    BY <2>3, ClientKeeps DEF Caller, syncVars
  <2>4. CASE Failure
    BY <2>4, SyncEndsKeep, ClientKeeps DEF Failure, syncVars
  <2>5. CASE Crash
    BY <2>5, SyncCrashKeeps, PolicyCrashKeeps DEF Crash, syncVars
  <2>6. CASE Users
    <3>1. ASSUME NEW n \in SyncName, NEW s \in Specs[n], PipeCreate(n, s) PROVE IInv'
      <4>1. s \in Spec0 /\ n \in Name
        BY DEF Name
      <4>2. CASE SetObj(n, s)
        BY <4>1, <4>2, SetObjKeeps
      <4>3. CASE UNCHANGED <<store, workers>>
        <5>1. Types'
          BY <4>3 DEF IInv, Types, store, workers, digis, caches
        <5>2. Quiet
          BY <4>3 DEF Quiet, Queued, store, workers, digis, caches
        <5> QED
          BY <5>1, <5>2, QuietKeeps
      <4> QED
        BY <3>1, <4>2, <4>3 DEF PipeCreate
    <3>2. ASSUME NEW d \in Digi, Toggle(d) \/ \E v \in Val : Write(d, v) PROVE IInv'
      BY <3>2, DigisKeep
    <3>3. ASSUME NEW n \in Name, Delete(n) \/ \E s \in Specs[n] : Apply(n, s) PROVE IInv'
      BY <3>3, SetObjKeeps DEF Delete, Apply
    <3>4. ASSUME NEW n \in SyncName, Pipe(n) \/ Unpipe(n) PROVE IInv'
      BY <3>4, SetObjKeeps DEF Pipe, Unpipe, Name
    <3>5. ASSUME NEW c \in Client, NEW m \in MountArgs,
                 Mount(c, m) /\ UNCHANGED <<syncVars, spoiled, pol, dropped, rest>>
          PROVE  IInv'
      BY <3>5, ClientKeeps DEF Mount, syncVars
    <3> QED
      BY <2>6, <3>1, <3>2, <3>3, <3>4, <3>5 DEF Users
  <2>7. CASE UNCHANGED vars
    <3>1. Types'
      BY <2>7 DEF IInv, Types, vars, store, workers, digis, caches
    <3>2. Quiet
      BY <2>7 DEF Quiet, Queued, vars, store, workers, digis, caches
    <3> QED
      BY <3>1, <3>2, QuietKeeps
  <2> QED
    BY <2>1, <2>2, <2>3, <2>4, <2>5, <2>6, <2>7 DEF Next
<1> QED
  BY <1>1, <1>2, PTL DEF Spec

(* A value that a match binding brought does not stay when the binding is  *)
(* deleted, for any digis, bindings and policies and however users, faults *)
(* and restarts interleave: finalize in doSync clears it.                  *)
THEOREM NothingLeftTheorem == Spec => []NothingLeft
<1>1. IInv => NothingLeft
  BY DEF IInv, NothingLeft, WritersAreKnown, CacheIsCurrent, BroughtBy, Queued
<1> QED
  BY <1>1, SpaceInvariant, PTL

(* doEnforce writes only for a binding that exists as it is enforced, or   *)
(* whose change is still in the queue.                                     *)
THEOREM BoundWritesTheorem == Spec => BoundWrites
<1>1. ASSUME IInv, SyncWrite
      PROVE  \/ syn.put.of \in spoiled \/ objs[syn.put.of] = syn.put.spec
             \/ <<"spec", syn.put.of>> \in queue["sync"]
  <2>1. syn.put # NoWrite /\ syn.put \in Put
    BY <1>1 DEF SyncWrite, IInv, Types, Worker
  <2>2. syn.put.of \in SyncName /\ syn.put.spec # NoSpec
    BY <2>1, StoreAssumption DEF Put
  <2> QED
    BY <1>1, <2>1, <2>2 DEF IInv, WorkIsIndexed, CacheIsCurrent, Queued
<1>2. IInv /\ [Next]_vars =>
        [SyncWrite /\ attr' # attr =>
           LET n == syn.put.of
           IN  n \in spoiled \/ objs[n] = syn.put.spec \/ <<"spec", n>> \in queue["sync"]]_vars
  BY <1>1
<1> QED
  BY <1>2, SpaceInvariant, PTL DEF Spec, BoundWrites


-----------------------------------------------------------------------------
(* Mounts.  The inductive invariant: what a reader is about to send is     *)
(* is, apart from what it decides, while it holds the present version.     *)

SameMounts(ms, d) == \A k \in Digi : ms[k] = "none" <=> mounts[d][k] = "none"

\* The loop of the policer takes what is indexed.
LoopIsIndexed ==
    /\ pol.st = "idle" => pol.todo = {}
    /\ pol.todo \subseteq PolicyName
    /\ \A n \in pol.todo : pol.digi \in Digi /\ index[pol.digi][n] # NoSpec

\* A yield in progress.
YieldIsCurrent ==
    pol.st \in {"source", "target"} =>
        /\ pol.spec \in Spec0
        /\ pol.spec.src \in fresh["policy"] =>
              IF pol.st = "source" THEN SameMounts(pol.srcMounts, pol.spec.src)
              ELSE mounts[pol.spec.src] = pol.srcMounts
        /\ pol.spec.dst \in fresh["policy"] =>
              /\ SameMounts(pol.dstMounts, pol.spec.dst)
              /\ \A k \in Digi : pol.dstMounts[k] = "active" =>
                    mounts[pol.spec.dst][k] = "active" \/ pol.srcMounts[k] # "active"

\* A call under way.
CallIsCurrent(c) ==
    call[c] # NoCall /\ call[c].target \in fresh[c] =>
        \A k \in Digi \ call[c].srcs : call[c].mounts[k] = mounts[call[c].target][k]

Shapes ==
    /\ mounts = [d \in Digi |-> mounts[d]]
    /\ fresh \in [Reader -> SUBSET Digi]
    /\ call = [c \in Client |-> call[c]]

MInv == Shapes /\ LoopIsIndexed /\ YieldIsCurrent /\ \A c \in Client : CallIsCurrent(c)

-----------------------------------------------------------------------------
(* What a reader holds, the writes of the others leave to it or take away. *)

Holds(r) == fresh'[r] \subseteq fresh[r] /\ \A d \in fresh'[r] : mounts'[d] = mounts[d]

(* A yield of which the versions are held stays current.                   *)
LEMMA YieldKept == ASSUME YieldIsCurrent, pol' = pol, Holds("policy") PROVE YieldIsCurrent'
BY DEF YieldIsCurrent, Holds, SameMounts

(* So does a call.                                                         *)
LEMMA CallKept ==
    ASSUME NEW c \in Client, CallIsCurrent(c), call'[c] = call[c], Holds(c)
    PROVE  CallIsCurrent(c)'
BY DEF CallIsCurrent, Holds

(* A write of mounts takes the version from all readers but its own.       *)
LEMMA WriteMountsFacts ==
    ASSUME Shapes, NEW r \in Reader, NEW d \in Digi, NEW ms, WriteMounts(r, d, ms)
    PROVE  /\ \A x \in Reader \ {r} : Holds(x)
           /\ mounts' = [e \in Digi |-> mounts'[e]] /\ fresh' \in [Reader -> SUBSET Digi]
           /\ mounts'[d] = ms /\ \A e \in Digi \ {d} : mounts'[e] = mounts[e]
           /\ fresh'[r] \subseteq fresh[r] \cup {d}
<1>1. /\ mounts' = [e \in Digi |-> mounts'[e]] /\ mounts'[d] = ms
      /\ \A e \in Digi \ {d} : mounts'[e] = mounts[e]
  BY DEF WriteMounts, Shapes
<1>2. \/ mounts[d] = ms /\ fresh' = fresh
      \/ fresh' = [x \in Reader |-> IF x = r THEN fresh[x] \cup {d} ELSE fresh[x] \ {d}]
  BY DEF WriteMounts, Written
<1>3. /\ fresh' \in [Reader -> SUBSET Digi] /\ fresh'[r] \subseteq fresh[r] \cup {d}
      /\ \A x \in Reader \ {r} : /\ fresh'[x] \subseteq fresh[x]
                                 /\ d \in fresh'[x] => mounts[d] = ms
  BY <1>2 DEF Shapes
<1> QED
  BY <1>1, <1>3 DEF Holds

\* A step that concerns no mounts but of digis nobody holds any longer.
Aside ==
    /\ call' = call /\ pol' = pol /\ Shapes'
    /\ \A r \in Reader \ {"sync"} : Holds(r)
    /\ \A n \in PolicyName, d \in Digi : index'[d][n] = index[d][n]

(* Such a step keeps the invariant.                                        *)
LEMMA AsideKeeps == ASSUME MInv, Aside PROVE MInv'
<1> USE StoreAssumption
<1>1. "policy" \in Reader \ {"sync"} /\ \A c \in Client : c \in Reader \ {"sync"}
  BY DEF Reader, Ctl
<1>2. YieldIsCurrent'
  BY <1>1, YieldKept DEF MInv, Aside
<1>3. \A c \in Client : CallIsCurrent(c)'
  BY <1>1, CallKept DEF MInv, Aside
<1>4. LoopIsIndexed'
  BY DEF MInv, Aside, LoopIsIndexed
<1> QED
  BY <1>2, <1>3, <1>4 DEF MInv, Aside

(* A step that leaves digis, policies and calls alone is one.              *)
LEMMA DigisAside ==
    ASSUME MInv, UNCHANGED <<mounts, fresh, call, pol>>,
           \A n \in PolicyName, d \in Digi : index'[d][n] = index[d][n]
    PROVE  MInv'
<1>1. Aside
  BY DEF MInv, Shapes, Aside, Holds
<1> QED
  BY <1>1, AsideKeeps

-----------------------------------------------------------------------------
(* The policer.                                                            *)

(* The loop starts with what is indexed.                                   *)
LEMMA LoopStarts ==
    ASSUME MInv, IInv, NEW d \in Digi, PolEnforce(d, index'), UNCHANGED <<digis, call>>
    PROVE  MInv'
<1>1. /\ pol'.st = "loop" /\ pol'.todo \subseteq PolicyName /\ pol'.digi = d
      /\ \A n \in pol'.todo : index'[d][n] # NoSpec
  BY DEF PolEnforce, PolIdle
<1>2. Shapes' /\ \A c \in Client : CallIsCurrent(c)'
  BY DEF MInv, Shapes, CallIsCurrent, digis
<1>3. LoopIsIndexed' /\ YieldIsCurrent'
  BY <1>1 DEF LoopIsIndexed, YieldIsCurrent
<1> QED
  BY <1>2, <1>3 DEF MInv

(* The policer reads a policy and its digis.                               *)
LEMMA PolicyReadKeeps ==
    ASSUME MInv, IInv, NEW n \in PolicyName, PolicyRead(n), call' = call
    PROVE  MInv'
<1> USE StoreAssumption
<1> DEFINE s == index[pol.digi][n]
<1>1. /\ pol.st = "loop" /\ n \in pol.todo /\ UNCHANGED <<mounts, index>>
      /\ \/ /\ Due(s) /\ fresh' = [fresh EXCEPT !["policy"] = {s.src, s.dst}]
            /\ pol' = [pol EXCEPT !.todo = @ \ {n}, !.st = "source",
                          !.of = n, !.spec = s,
                          !.srcMounts = With(mounts[s.src], Yielded(s), "inactive"),
                          !.dstMounts = With(mounts[s.dst], Yielded(s), "active")]
         \/ pol' = [pol EXCEPT !.todo = @ \ {n}] /\ fresh' = fresh
  BY DEF PolicyRead, InLoop, caches
<1>2. s \in Spec0
  BY <1>1 DEF MInv, LoopIsIndexed, IInv, Types, Name
<1>3. s.src \in Digi /\ s.dst \in Digi
  BY <1>2 DEF Spec0
<1>4. Shapes'
  BY <1>1, <1>3 DEF MInv, Shapes, Reader, Ctl
<1> HIDE DEF s
<1>5. \A c \in Client : CallIsCurrent(c)'
  <2>1. \A c \in Client : c # "policy" /\ c \in Reader
    BY DEF Reader, Ctl
  <2>2. \A c \in Client : fresh'[c] = fresh[c]
    BY <1>1, <2>1 DEF MInv, Shapes
  <2> QED
    BY <1>1, <2>2 DEF MInv, CallIsCurrent
<1> USE DEF s
<1>6. CASE pol' = [pol EXCEPT !.todo = @ \ {n}]
  <2>1. pol'.todo = pol.todo \ {n} /\ pol'.digi = pol.digi /\ pol'.st = pol.st
    BY <1>6, <1>1
  <2>2. LoopIsIndexed' /\ YieldIsCurrent'
    BY <1>1, <2>1 DEF MInv, LoopIsIndexed, YieldIsCurrent
  <2> QED
    BY <1>4, <1>5, <2>2 DEF MInv
<1>7. CASE Due(s) /\ pol' = [pol EXCEPT !.todo = @ \ {n}, !.st = "source",
                          !.of = n, !.spec = s,
                          !.srcMounts = With(mounts[s.src], Yielded(s), "inactive"),
                          !.dstMounts = With(mounts[s.dst], Yielded(s), "active")]
  <2> HIDE DEF s
  <2> DEFINE A == With(mounts[s.src], Yielded(s), "inactive")
             B == With(mounts[s.dst], Yielded(s), "active")
  <2>1. \A k \in Digi : /\ A[k] = "none" <=> mounts[s.src][k] = "none"
                        /\ B[k] = "none" <=> mounts[s.dst][k] = "none"
                        /\ B[k] = "active" => mounts[s.dst][k] = "active" \/ A[k] # "active"
    BY DEF With, Yielded
  <2> HIDE DEF A, B
  <2>2. /\ pol'.st = "source" /\ pol'.todo = pol.todo \ {n} /\ pol'.digi = pol.digi
        /\ pol'.spec = s /\ pol'.srcMounts = A /\ pol'.dstMounts = B
    <3>1. pol' = [pol EXCEPT !.todo = @ \ {n}, !.st = "source", !.of = n, !.spec = s,
                             !.srcMounts = A, !.dstMounts = B]
      BY <1>7 DEF A, B
    <3> QED
      BY <3>1
  <2>3. LoopIsIndexed'
    BY <1>1, <2>2 DEF MInv, LoopIsIndexed
  <2>4. YieldIsCurrent'
    BY <1>1, <1>2, <2>1, <2>2 DEF YieldIsCurrent, SameMounts
  <2> QED
    BY <1>4, <1>5, <2>3, <2>4 DEF MInv
<1> QED
  BY <1>1, <1>6, <1>7

(* The policer sends mounts: the version it held was that of what it read. *)
LEMMA YieldKeeps == ASSUME MInv, IInv, YieldSource \/ YieldTarget, call' = call PROVE MInv'
<1> USE StoreAssumption
<1> DEFINE s == pol.spec
<1>0. /\ "policy" \in Reader /\ \A c \in Client : c \in Reader \ {"policy"}
      /\ Shapes /\ YieldIsCurrent
      /\ s \in Spec0 /\ s.src \in Digi /\ s.dst \in Digi
  BY DEF Reader, Ctl, MInv, YieldSource, YieldTarget, YieldIsCurrent, Spec0
<1>1. CASE YieldSource
  <2>1. /\ pol.st = "source" /\ s.src \in fresh["policy"]
        /\ WriteMounts("policy", s.src, pol.srcMounts)
        /\ pol' = [pol EXCEPT !.st = "target"] /\ UNCHANGED index
    BY <1>1 DEF YieldSource, Current, caches
  <2>2. /\ \A x \in Reader \ {"policy"} : Holds(x)
        /\ Shapes' /\ mounts'[s.src] = pol.srcMounts
        /\ \A e \in Digi \ {s.src} : mounts'[e] = mounts[e]
        /\ fresh'["policy"] \subseteq fresh["policy"]
    BY <1>0, <2>1, WriteMountsFacts DEF Shapes
  <2>3. /\ pol'.st = "target" /\ pol'.spec = s /\ pol'.todo = pol.todo /\ pol'.digi = pol.digi
        /\ pol'.srcMounts = pol.srcMounts /\ pol'.dstMounts = pol.dstMounts
    BY <2>1
  <2>4. \A c \in Client : CallIsCurrent(c)'
    BY <1>0, <2>2, CallKept DEF MInv
  <2>5. LoopIsIndexed'
    BY <2>1, <2>3 DEF MInv, LoopIsIndexed
  <2>6. YieldIsCurrent'
    <3>1. SameMounts(pol.srcMounts, s.src)
      BY <1>0, <2>1 DEF YieldIsCurrent
    <3>2. ASSUME s.dst \in fresh'["policy"]
          PROVE  /\ SameMounts(pol.dstMounts, s.dst)'
                 /\ \A k \in Digi : pol.dstMounts[k] = "active" =>
                       mounts'[s.dst][k] = "active" \/ pol.srcMounts[k] # "active"
      <4>1. /\ SameMounts(pol.dstMounts, s.dst)
            /\ \A k \in Digi : pol.dstMounts[k] = "active" =>
                  mounts[s.dst][k] = "active" \/ pol.srcMounts[k] # "active"
        BY <1>0, <2>1, <2>2, <3>2 DEF YieldIsCurrent
      <4>2. /\ pol.dstMounts' = pol.dstMounts /\ s.dst' = s.dst
        BY <2>3
      <4> HIDE DEF s
      <4>3. CASE s.dst # s.src
        BY <1>0, <2>2, <4>1, <4>2, <4>3 DEF SameMounts
      <4>4. CASE s.dst = s.src
        BY <1>0, <2>2, <3>1, <4>1, <4>2, <4>4 DEF SameMounts
      <4> QED
        BY <4>3, <4>4
    <3> QED
      BY <1>0, <2>2, <2>3, <3>2 DEF YieldIsCurrent, SameMounts
  <2> QED
    BY <2>2, <2>4, <2>5, <2>6 DEF MInv
<1>2. CASE YieldTarget
  <2>1. /\ pol.st = "target" /\ WriteMounts("policy", s.dst, pol.dstMounts)
        /\ pol' = [pol EXCEPT !.st = "loop"] /\ UNCHANGED index
    BY <1>2 DEF YieldTarget, caches
  <2>2. /\ \A x \in Reader \ {"policy"} : Holds(x)
        /\ Shapes'
    BY <1>0, <2>1, WriteMountsFacts DEF Shapes
  <2>3. pol'.st = "loop" /\ pol'.todo = pol.todo /\ pol'.digi = pol.digi
    BY <2>1
  <2>4. \A c \in Client : CallIsCurrent(c)'
    BY <1>0, <2>2, CallKept DEF MInv
  <2>5. LoopIsIndexed' /\ YieldIsCurrent'
    BY <2>1, <2>3 DEF MInv, LoopIsIndexed, YieldIsCurrent
  <2> QED
    BY <2>2, <2>4, <2>5 DEF MInv
<1> QED
  BY <1>1, <1>2

(* A worker of the policer that has nothing to send.                       *)
LEMMA PolicyRestKeeps ==
    ASSUME MInv, UNCHANGED <<mounts, fresh, call>>, pol'.st \in {"idle", "loop"},
           \/ pol'.todo = {}
           \/ pol'.todo = pol.todo /\ pol'.digi = pol.digi /\ pol'.st = "loop" /\ index' = index
    PROVE  MInv'
BY DEF MInv, Shapes, LoopIsIndexed, YieldIsCurrent, CallIsCurrent

(* Every step of the policer.                                              *)
LEMMA PolicyStepKeeps == ASSUME MInv, IInv, PolicyStep, call' = call PROVE MInv'
<1>1. ASSUME NEW n \in PolicyName, PolicyAdd(n) PROVE MInv'
  <2>1. /\ pol.st = "idle" /\ UNCHANGED digis /\ objs[n].src \in Digi
        /\ PolEnforce(objs[n].src, index') \/ pol' = pol
    BY <1>1 DEF PolicyAdd, PolTake, IInv, Types, Spec0, Name
  <2>2. CASE PolEnforce(objs[n].src, index')
    BY <2>1, <2>2, LoopStarts
  <2>3. CASE pol' = pol
    BY <2>1, <2>3, PolicyRestKeeps DEF MInv, LoopIsIndexed, digis
  <2> QED
    BY <2>1, <2>2, <2>3
<1>2. ASSUME NEW n \in PolicyName, PolicyGone(n) PROVE MInv'
  BY <1>2, PolicyRestKeeps DEF PolicyGone, PolTake, MInv, LoopIsIndexed, digis
<1>3. ASSUME NEW n \in PolicyName, PolicyRead(n) PROVE MInv'
  BY <1>3, PolicyReadKeeps
<1>4. ASSUME NEW d \in Digi, PolicyEnforce(d) PROVE MInv'
  BY <1>4, LoopStarts DEF PolicyEnforce, caches
<1>5. CASE YieldSource \/ YieldTarget
  BY <1>5, YieldKeeps
<1>6. CASE YieldConflict \/ YieldLost
  <2>1. pol' = [pol EXCEPT !.st = "loop"] /\ UNCHANGED store
    BY <1>6 DEF YieldConflict, YieldLost
  <2>2. pol'.todo = pol.todo /\ pol'.digi = pol.digi /\ pol'.st = "loop"
    BY <2>1
  <2> QED
    BY <2>1, <2>2, PolicyRestKeeps DEF store, digis, caches
<1>7. CASE PolicyDone
  BY <1>7, PolicyRestKeeps DEF PolicyDone, PolIdle, store, digis
<1>8. CASE PolicyStart
  BY <1>8, DigisAside DEF PolicyStart, digis, caches
<1> QED
  BY <1>1, <1>2, <1>3, <1>4, <1>5, <1>6, <1>7, <1>8 DEF PolicyStep

-----------------------------------------------------------------------------
(* Calls.                                                                  *)

(* A call reads its target, sends it back as it was read, or gives up.     *)
LEMMA CallKeeps ==
    ASSUME MInv, IInv, NEW c \in Client, pol' = pol, UNCHANGED index,
           \/ ClientStep(c) \/ UpdateFails(c)
           \/ \E op, ks, d : DoMount(c, op, ks, d)
    PROVE  MInv'
<1> USE StoreAssumption
<1>0. /\ c \in Reader /\ "policy" \in Reader \ {c}
      /\ \A b \in Client \ {c} : b \in Reader \ {c} /\ b \in Client
      /\ Shapes /\ alive \subseteq Digi
  BY DEF Reader, Ctl, MInv, IInv, Types
<1>1. ASSUME Shapes', CallIsCurrent(c)', \A x \in Reader \ {c} : Holds(x),
             \A b \in Client \ {c} : call'[b] = call[b]
      PROVE  MInv'
  <2>1. \A b \in Client \ {c} : CallIsCurrent(b)'
    BY <1>0, <1>1, CallKept DEF MInv
  <2>2. YieldIsCurrent'
    BY <1>0, <1>1, YieldKept DEF MInv
  <2>3. LoopIsIndexed'
    BY DEF MInv, LoopIsIndexed
  <2> QED
    BY <1>1, <2>1, <2>2, <2>3 DEF MInv
<1>2. CASE Update(c)
  <2>1. /\ call[c].target \in Digi /\ call' = [call EXCEPT ![c] = NoCall]
        /\ WriteMounts(c, call[c].target, call[c].mounts)
    BY <1>0, <1>2 DEF Update
  <2>2. Shapes' /\ \A x \in Reader \ {c} : Holds(x)
    BY <1>0, <2>1, WriteMountsFacts DEF Shapes
  <2>3. call'[c] = NoCall /\ \A b \in Client \ {c} : call'[b] = call[b]
    BY <1>0, <2>1 DEF Shapes
  <2> QED
    BY <1>1, <2>2, <2>3 DEF CallIsCurrent
<1>3. ASSUME NEW op, NEW ks, NEW d, DoMount(c, op, ks, d) PROVE MInv'
  <2> DEFINE ms == [k \in Digi |->
               IF k \notin ks THEN mounts[d][k]
               ELSE CASE op = "UNMOUNT" -> "none"
                      [] op = "YIELD" -> "inactive"
                      [] OTHER -> "active"]
             r == [target |-> d, srcs |-> ks, tries |-> NumRetry + 1, mounts |-> ms]
  <2>1. /\ d \in Digi /\ call' = [call EXCEPT ![c] = r]
        /\ fresh' = [fresh EXCEPT ![c] = {d}] /\ mounts' = mounts
    BY <1>0, <1>3 DEF DoMount
  <2>2. \A k \in Digi \ ks : ms[k] = mounts[d][k]
    OBVIOUS
  <2> HIDE DEF ms
  <2>3. r.target = d /\ r.srcs = ks /\ r.mounts = ms
    OBVIOUS
  <2> HIDE DEF r
  <2>4. call'[c] = r /\ \A b \in Client \ {c} : call'[b] = call[b]
    BY <1>0, <2>1 DEF Shapes
  <2>5. Shapes' /\ \A x \in Reader \ {c} : Holds(x)
    BY <1>0, <2>1 DEF Shapes, Holds
  <2>6. CallIsCurrent(c)'
    BY <2>1, <2>2, <2>3, <2>4 DEF CallIsCurrent
  <2> QED
    BY <1>1, <2>4, <2>5, <2>6
<1>4. CASE UpdateConflict(c) \/ UpdateFails(c)
  <2> DEFINE d == call[c].target
  <2>1. /\ call' = [call EXCEPT ![c] = Retry(c)]
        /\ \/ UNCHANGED store
           \/ /\ d \in Digi /\ mounts' = [mounts EXCEPT ![d] = call[c].mounts]
              /\ fresh' = [r \in Reader |-> fresh[r] \ {d}]
    BY <1>0, <1>4 DEF UpdateConflict, UpdateFails
  <2>2. /\ call'[c] = Retry(c) /\ \A b \in Client \ {c} : call'[b] = call[b]
        /\ call' = [b \in Client |-> call'[b]]
    BY <1>0, <2>1 DEF Shapes
  <2>3. \/ call'[c] = NoCall
        \/ /\ call'[c].target = d /\ call'[c].srcs = call[c].srcs
           /\ call'[c].mounts = call[c].mounts /\ call[c].tries # 1
    BY <2>2 DEF Retry
  <2> HIDE DEF d
  <2>4. Shapes' /\ \A x \in Reader : Holds(x)
    <3>1. CASE UNCHANGED store
      BY <1>0, <2>2, <3>1 DEF Shapes, Holds, store, digis
    <3>2. CASE /\ d \in Digi /\ mounts' = [mounts EXCEPT ![d] = call[c].mounts]
               /\ fresh' = [r \in Reader |-> fresh[r] \ {d}]
      BY <1>0, <2>2, <3>2 DEF Shapes, Holds
    <3> QED
      BY <2>1, <3>1, <3>2
  <2>5. CallIsCurrent(c)'
    <3>1. CASE call[c] = NoCall
      BY <1>4, <3>1 DEF UpdateConflict, UpdateFails
    <3>2. CASE call[c] # NoCall
      BY <1>0, <2>3, <2>4, <3>2 DEF MInv, CallIsCurrent, Holds, d
    <3> QED
      BY <3>1, <3>2
  <2> QED
    BY <1>1, <2>2, <2>4, <2>5
<1> QED
  BY <1>2, <1>3, <1>4 DEF ClientStep

-----------------------------------------------------------------------------
(* The others: the syncer and users.                                       *)

(* The syncer writes no mounts and files no policies.                      *)
LEMMA SyncStepAside == ASSUME MInv, IInv, SyncStep, call' = call, pol' = pol PROVE MInv'
<1> USE StoreAssumption
<1>0. \A n \in SyncName : n \in Name /\ \A m \in PolicyName : m \in Name \ {n}
  BY DEF Name
<1>1. ASSUME NEW n \in SyncName, SyncAdd(n) PROVE MInv'
  <2>1. CacheAdd("sync", n, objs[n]) /\ UNCHANGED digis
    BY <1>1 DEF SyncAdd
  <2>2. objs[n] \in Spec0 /\ n \in NamesOf("sync") /\ "sync" \in Ctl
    BY <1>0, <1>1 DEF SyncAdd, IInv, Types, NamesOf, Ctl
  <2>3. \A d \in Digi, m \in Name \ {n} : index'[d][m] = index[d][m]
    BY <2>1, <2>2, CacheAddFacts DEF IInv
  <2> QED
    BY <1>0, <2>1, <2>3, DigisAside DEF digis
<1>2. ASSUME NEW n \in SyncName, SyncGone(n) PROVE MInv'
  <2>1. /\ CacheRemove(n) /\ mounts' = mounts
        /\ \/ fresh' = fresh
           \/ \E d \in ToClear(n) : fresh' = [r \in Reader |-> fresh[r] \ {d}]
    BY <1>2 DEF SyncGone
  <2>2. \A d \in Digi, m \in Name \ {n} : index'[d][m] = index[d][m]
    BY <1>0, <2>1, CacheRemoveFacts DEF IInv
  <2>3. Shapes' /\ \A r \in Reader : Holds(r)
    BY <2>1 DEF MInv, Shapes, Holds
  <2>4. Aside
    BY <1>0, <2>2, <2>3 DEF Aside
  <2> QED
    BY <2>4, AsideKeeps
<1>3. ASSUME NEW n \in SyncName, SyncRead(n) PROVE MInv'
  <2>1. /\ mounts' = mounts /\ index' = index
        /\ fresh' = fresh \/ \E d \in Digi : fresh' = [fresh EXCEPT !["sync"] = {d}]
    <3> DEFINE s == index[syn.digi][n]
               w == Direction(s, syn.digi)
               ok == GetObj(s.src) /\ GetObj(s.dst) /\ GetAttr(w.from)
    <3>1. /\ mounts' = mounts /\ index' = index
          /\ fresh' = IF ok THEN [fresh EXCEPT !["sync"] = {w.to}] ELSE fresh
      BY <1>3 DEF SyncRead, caches
    <3>2. s \in Spec0
      BY <1>0, <1>3 DEF SyncRead, IInv, WorkIsIndexed, Types
    <3>3. w.to \in Digi
      BY <3>2 DEF Direction, Spec0
    <3> QED
      BY <3>1, <3>3
  <2>2. Shapes' /\ \A r \in Reader \ {"sync"} : Holds(r)
    BY <2>1 DEF MInv, Shapes, Holds, Reader, Ctl
  <2>3. Aside
    BY <2>1, <2>2 DEF Aside
  <2> QED
    BY <2>3, AsideKeeps
<1>4. CASE SyncWrite
  <2>1. /\ mounts' = mounts /\ index' = index /\ syn.put.to \in Digi
        /\ fresh' = fresh \/ fresh' = Written("sync", syn.put.to)
    BY <1>4 DEF SyncWrite, WriteAttr, caches, IInv, Types
  <2>2. Shapes' /\ \A r \in Reader \ {"sync"} : Holds(r)
    BY <2>1 DEF MInv, Shapes, Holds, Written
  <2>3. Aside
    BY <2>1, <2>2 DEF Aside
  <2> QED
    BY <2>3, AsideKeeps
<1>5. CASE SyncConflict \/ SyncDone \/ SyncStart
  BY <1>5, DigisAside DEF SyncConflict, SyncDone, SyncStart, store, digis, caches
<1>6. ASSUME NEW d \in Digi, SyncEnforce(d) PROVE MInv'
  BY <1>6, DigisAside DEF SyncEnforce, digis, caches
<1> QED
  BY <1>1, <1>2, <1>3, <1>4, <1>5, <1>6 DEF SyncStep

(* Users write attributes and objects, and stop digis.                     *)
LEMMA UsersAside ==
    ASSUME MInv, IInv, call' = call,
           \/ \E n \in SyncName : \E s \in Specs[n] : PipeCreate(n, s)
           \/ \E d \in Digi : Toggle(d) \/ \E v \in Val : Write(d, v)
           \/ \E n \in Name : Delete(n) \/ \E s \in Specs[n] : Apply(n, s)
           \/ \E n \in SyncName : Pipe(n) \/ Unpipe(n)
    PROVE  MInv'
<1>1. ASSUME NEW d \in Digi, Toggle(d) \/ \E v \in Val : Write(d, v) PROVE MInv'
  <2>1. /\ pol' = pol /\ index' = index /\ fresh' = [r \in Reader |-> fresh[r] \ {d}]
        /\ \/ mounts' = mounts
           \/ mounts' = [mounts EXCEPT ![d] = [k \in Digi |-> "none"]]
    BY <1>1 DEF Toggle, Write, caches, workers
  <2>2. Shapes' /\ \A r \in Reader : Holds(r)
    BY <2>1 DEF MInv, Shapes, Holds
  <2>3. Aside
    BY <2>1, <2>2 DEF Aside
  <2> QED
    BY <2>3, AsideKeeps
<1>2. ASSUME NEW n, NEW s, SetObj(n, s) PROVE MInv'
  BY <1>2, DigisAside DEF SetObj, digis, caches
<1>3. CASE UNCHANGED <<store, workers>>
  BY <1>3, DigisAside DEF store, workers, digis, caches
<1> QED
  BY <1>1, <1>2, <1>3 DEF PipeCreate, Delete, Apply, Pipe, Unpipe

(* A controller that dies.                                                 *)
LEMMA CrashAside == ASSUME MInv, IInv, Crash PROVE MInv'
<1> USE StoreAssumption
<1>0. \A n \in PolicyName : n \in Name /\ n \notin NamesOf("sync")
  BY DEF Name, NamesOf
<1>1. CASE SyncCrash /\ UNCHANGED <<pol, dropped, call>>
  <2>1. EmptyCaches("sync") /\ UNCHANGED digis
    BY <1>1 DEF SyncCrash
  <2>2. \A n \in PolicyName, d \in Digi : index'[d][n] = index[d][n]
    BY <1>0, <2>1 DEF EmptyCaches
  <2> QED
    BY <1>1, <2>1, <2>2, DigisAside DEF digis
<1>2. CASE PolicyCrash /\ UNCHANGED <<syncVars, spoiled, call>>
  BY <1>2, PolicyRestKeeps DEF PolicyCrash, PolIdle, digis
<1> QED
  BY <1>1, <1>2 DEF Crash

-----------------------------------------------------------------------------
(* The space.                                                              *)

(* The invariant is inductive, given that of the syncer for its types.     *)
THEOREM MountsInvariant == Spec => []MInv
<1> USE StoreAssumption, SpaceAssumption
<1>1. Init => MInv
  <2> SUFFICES ASSUME Init PROVE MInv
    OBVIOUS
  <2>1. mounts = [d \in Digi |-> mounts[d]]
    BY DEF Init
  <2>2. pol.st = "idle" /\ pol.todo = {}
    BY DEF Init, PolIdle
  <2> QED
    BY <2>1, <2>2 DEF Init, MInv, Shapes, LoopIsIndexed, YieldIsCurrent, CallIsCurrent
<1>2. MInv /\ IInv /\ [Next]_vars => MInv'
  <2> SUFFICES ASSUME MInv, IInv, [Next]_vars PROVE MInv'
    OBVIOUS
  <2>1. CASE Syncer
    BY <2>1, SyncStepAside DEF Syncer
  <2>2. CASE Policer
    BY <2>2, PolicyStepKeeps DEF Policer
  <2>3. ASSUME NEW c \in Client, Caller(c) PROVE MInv'
    BY <2>3, CallKeeps DEF Caller, ClientStep, Update, UpdateConflict, store, caches
  <2>4. CASE Failure
    <3>1. CASE SyncFails /\ UNCHANGED <<pol, dropped, call, rest, ops>>
      BY <3>1, DigisAside DEF SyncFails, store, digis, caches
    <3>2. ASSUME NEW c \in Client, UpdateFails(c), pol' = pol PROVE MInv'
      BY <3>2, CallKeeps DEF UpdateFails, store, caches
    <3> QED
      BY <2>4, <3>1, <3>2 DEF Failure
  <2>5. CASE Crash
    BY <2>5, CrashAside
  <2>6. CASE Users
    <3>1. ASSUME NEW c \in Client, NEW m \in MountArgs,
                 Mount(c, m) /\ UNCHANGED <<syncVars, spoiled, pol, dropped, rest>>
          PROVE  MInv'
      <4>1. DoMount(c, m.op, m.srcs, m.target) /\ pol' = pol
        BY <3>1 DEF Mount
      <4>2. UNCHANGED index
        BY <4>1 DEF DoMount, caches
      <4> QED
        BY <4>1, <4>2, CallKeeps
    <3>2. CASE call' = call
      BY <2>6, <3>1, <3>2, UsersAside DEF Users
    <3>3. CASE call' # call
      BY <2>6, <3>1, <3>3 DEF Users, PipeCreate, Toggle, Write, Delete, Apply, Pipe, Unpipe,
                              SetObj, workers
    <3> QED
      BY <3>2, <3>3
  <2>7. CASE UNCHANGED vars
    BY <2>7, DigisAside DEF vars, store, workers, digis, caches
  <2> QED
    BY <2>1, <2>2, <2>3, <2>4, <2>5, <2>6, <2>7 DEF Next
<1> QED
  BY <1>1, <1>2, SpaceInvariant, PTL DEF Spec

(* The step of a call that ends or tries again changes the mounts of its   *)
(* sources only.                                                           *)
LEMMA CallOfSources ==
    ASSUME MInv, IInv, [Next]_vars, NEW c \in Client, call[c] # NoCall, call'[c] # call[c],
           NEW k \in Digi \ call[c].srcs
    PROVE  mounts'[call[c].target][k] = mounts[call[c].target][k]
<1> USE StoreAssumption
<1>0. Shapes /\ alive \subseteq Digi /\ c \in Reader
  BY DEF MInv, IInv, Types, Reader
<1>1. ClientStep(c) \/ UpdateFails(c)
  <2>1. ASSUME NEW b \in Client, ClientStep(b) \/ UpdateFails(b)
        PROVE  b = c
    <3>1. \E r : call' = [call EXCEPT ![b] = r]
      BY <2>1 DEF ClientStep, Update, UpdateConflict, UpdateFails
    <3> QED
      BY <1>0, <3>1 DEF Shapes
  <2>2. ASSUME NEW b \in Client, NEW m, Mount(b, m) PROVE FALSE
    <3>1. call[b] = NoCall /\ \E r : call' = [call EXCEPT ![b] = r]
      BY <2>2 DEF Mount, DoMount
    <3> QED
      BY <1>0, <3>1 DEF Shapes
  <2>3. \/ \E b \in Client : ClientStep(b) \/ UpdateFails(b)
        \/ \E b \in Client, m \in MountArgs : Mount(b, m)
    BY DEF Next, Syncer, Policer, Caller, Failure, Crash, Users, PipeCreate, Toggle, Write,
           Delete, Apply, Pipe, Unpipe, SetObj, workers, vars
  <2> QED
    BY <2>1, <2>2, <2>3
<1>2. CASE mounts' = mounts
  BY <1>2
<1>3. CASE /\ call[c].target \in fresh[c] \cap alive
           /\ \/ WriteMounts(c, call[c].target, call[c].mounts)
              \/ mounts' = [mounts EXCEPT ![call[c].target] = call[c].mounts]
  <2>1. mounts'[call[c].target] = call[c].mounts
    BY <1>0, <1>3 DEF Shapes, WriteMounts
  <2> QED
    BY <1>3, <2>1 DEF MInv, CallIsCurrent
<1> QED
  BY <1>1, <1>2, <1>3 DEF ClientStep, Update, UpdateConflict, UpdateFails, store, digis

(* The writes of the policer: the digi, and what was and is mounted there. *)
LEMMA PolicerWrites ==
    ASSUME MInv, IInv, Policer
    PROVE  \/ mounts' = mounts
           \/ /\ YieldSource /\ pol.spec.src \in Digi /\ SameMounts(pol.srcMounts, pol.spec.src)
              /\ mounts' = [mounts EXCEPT ![pol.spec.src] = pol.srcMounts]
           \/ /\ YieldTarget /\ pol.spec.dst \in Digi /\ SameMounts(pol.dstMounts, pol.spec.dst)
              /\ mounts' = [mounts EXCEPT ![pol.spec.dst] = pol.dstMounts]
<1> USE StoreAssumption
<1>1. CASE YieldSource
  BY <1>1 DEF YieldSource, Current, WriteMounts, MInv, YieldIsCurrent, Spec0
<1>2. CASE YieldTarget
  BY <1>2 DEF YieldTarget, Current, WriteMounts, MInv, YieldIsCurrent, Spec0
<1>3. CASE ~ YieldSource /\ ~ YieldTarget
  BY <1>3 DEF Policer, PolicyStep, PolicyAdd, PolicyGone, PolicyRead, PolicyEnforce, YieldConflict,
              YieldLost, PolicyDone, PolicyStart, store, digis
<1> QED
  BY <1>1, <1>2, <1>3

(* Calls of digi space mount and the policer's yields keep one another's   *)
(* mounts, although each sends the whole digi back (Mounter.Do, SetMounts).*)
THEOREM MountsKeptTheorem == Spec => MountsKept
<1> DEFINE Kept ==
      /\ \A c \in Client : call[c] # NoCall /\ call'[c] # call[c] =>
            \A k \in Digi \ call[c].srcs :
                mounts'[call[c].target][k] = mounts[call[c].target][k]
      /\ Policer => \A d, k \in Digi :
            mounts'[d][k] = "none" <=> mounts[d][k] = "none"
<1>1. ASSUME MInv, IInv, [Next]_vars PROVE Kept
  <2>1. ASSUME Policer, NEW d \in Digi, NEW k \in Digi
        PROVE  mounts'[d][k] = "none" <=> mounts[d][k] = "none"
    BY <1>1, <2>1, PolicerWrites DEF SameMounts, MInv, Shapes
  <2> QED
    BY <1>1, <2>1, CallOfSources
<1>2. MInv /\ IInv /\ [Next]_vars => [Kept]_vars
  BY <1>1
<1> QED
  BY <1>2, SpaceInvariant, MountsInvariant, PTL DEF Spec, MountsKept

(* A child becomes active at the target of a policy only when its source   *)
(* does not hold it, or was written in between: doEnforce writes the       *)
(* source first, and the target as it was read.                            *)
THEOREM TargetAfterSourceTheorem == Spec => TargetAfterSource
<1> DEFINE After ==
      Policer => \A k \in Digi :
          LET s == pol.spec
          IN  s # NoSpec /\ mounts[s.dst][k] # "active" /\ mounts'[s.dst][k] = "active" =>
              mounts[s.src][k] # "active" \/ s.src \notin fresh["policy"]
<1>1. ASSUME MInv, IInv, [Next]_vars PROVE After
  <2> SUFFICES ASSUME Policer, NEW k \in Digi,
                      mounts[pol.spec.dst][k] # "active", mounts'[pol.spec.dst][k] = "active"
               PROVE  mounts[pol.spec.src][k] # "active" \/ pol.spec.src \notin fresh["policy"]
    OBVIOUS
  <2>1. CASE /\ YieldSource
             /\ mounts' = [mounts EXCEPT ![pol.spec.src] = pol.srcMounts]
    <3>1. pol.spec.dst \in Digi
      BY <1>1, <2>1 DEF YieldSource, MInv, YieldIsCurrent, Spec0
    <3> QED
      BY <1>1, <2>1, <3>1 DEF MInv, Shapes
  <2>2. CASE /\ YieldTarget /\ pol.spec.dst \in Digi
             /\ mounts' = [mounts EXCEPT ![pol.spec.dst] = pol.dstMounts]
    <3>1. pol.dstMounts[k] = "active"
      BY <1>1, <2>2 DEF MInv, Shapes
    <3>2. pol.srcMounts[k] # "active"
      BY <1>1, <2>2, <3>1 DEF YieldTarget, Current, MInv, YieldIsCurrent
    <3>3. pol.spec.src \in fresh["policy"] => mounts[pol.spec.src] = pol.srcMounts
      BY <1>1, <2>2 DEF YieldTarget, MInv, YieldIsCurrent
    <3> QED
      BY <3>2, <3>3
  <2> QED
    BY <1>1, <2>1, <2>2, PolicerWrites
<1>2. MInv /\ IInv /\ [Next]_vars => [After]_vars
  BY <1>1
<1> QED
  BY <1>2, SpaceInvariant, MountsInvariant, PTL DEF Spec, TargetAfterSource

-----------------------------------------------------------------------------
(* Events: every change of a digi reaches the controllers that watch it.   *)

\* Nothing that controller c reads of the digi d has changed.
Same(c, d) ==
    /\ attr'[d] = attr[d] /\ mounts'[d] = mounts[d]
    /\ d \in alive' <=> d \in alive
    /\ d \in fresh[c] => d \in fresh'[c]

\* No request of the controller's is lost, and digis change with an event.
Posted(c) ==
    /\ \A req \in queue[c] :
          req \in queue'[c] \/ \E n \in Name \ NamesOf(c) : req = <<"spec", n>>
    /\ \A d \in Digi : (d \in watched[c] => <<"enforce", d>> \in queue'[c]) \/ Same(c, d)

(* The requests about the controller's own objects and about digis stay.   *)
LEMMA PostedStays ==
    ASSUME NEW c \in Ctl, Posted(c)
    PROVE  /\ \A n \in NamesOf(c) : <<"spec", n>> \in queue[c] => <<"spec", n>> \in queue'[c]
           /\ \A d : <<"enforce", d>> \in queue[c] => <<"enforce", d>> \in queue'[c]
BY DEF Posted

(* A step that leaves digis alone.                                         *)
LEMMA DigisPosted ==
    ASSUME NEW c \in Ctl, UNCHANGED digis, queue[c] \subseteq queue'[c]
    PROVE  Posted(c)
BY DEF digis, Posted, Same

(* The write of an attribute.                                              *)
LEMMA AttrPosted ==
    ASSUME IInv, MInv, NEW c \in Ctl, NEW r, NEW d \in Digi, NEW v, NEW n, WriteAttr(r, d, v, n)
    PROVE  Posted(c)
<1> USE DEF IInv, Types, MInv, Shapes
<1>1. CASE attr[d] = v
  BY <1>1 DEF WriteAttr, Posted, Same
<1>2. CASE attr[d] # v
  <2>1. /\ fresh' = Written(r, d) /\ queue' = Enqueued(d) /\ UNCHANGED <<alive, mounts>>
        /\ attr' = [attr EXCEPT ![d] = v]
    BY <1>2 DEF WriteAttr
  <2>2. queue[c] \subseteq queue'[c] /\ (d \in watched[c] => <<"enforce", d>> \in queue'[c])
    BY <2>1 DEF Enqueued
  <2>3. \A e \in Digi \ {d} : Same(c, e)
    BY <2>1 DEF Written, Same, Reader
  <2> QED
    BY <2>2, <2>3 DEF Posted
<1> QED
  BY <1>1, <1>2

(* The write of mounts.                                                    *)
LEMMA MountsPosted ==
    ASSUME IInv, MInv, NEW c \in Ctl, NEW r, NEW d \in Digi, NEW ms, WriteMounts(r, d, ms)
    PROVE  /\ Posted(c)
           /\ mounts[d] # ms /\ d \in watched[c] => <<"enforce", d>> \in queue'[c]
<1> USE DEF IInv, Types, MInv, Shapes
<1>1. CASE mounts[d] = ms
  <2>1. UNCHANGED <<fresh, queue, alive, attr>> /\ mounts' = [mounts EXCEPT ![d] = ms]
    BY <1>1 DEF WriteMounts
  <2>2. \A e \in Digi : mounts'[e] = mounts[e]
    BY <1>1, <2>1
  <2> QED
    BY <1>1, <2>1, <2>2 DEF Posted, Same
<1>2. CASE mounts[d] # ms
  <2>1. /\ fresh' = Written(r, d) /\ queue' = Enqueued(d) /\ UNCHANGED <<alive, attr>>
        /\ mounts' = [mounts EXCEPT ![d] = ms]
    BY <1>2 DEF WriteMounts
  <2>2. queue[c] \subseteq queue'[c] /\ (d \in watched[c] => <<"enforce", d>> \in queue'[c])
    BY <2>1 DEF Enqueued
  <2>3. \A e \in Digi \ {d} : Same(c, e)
    BY <2>1 DEF Written, Same, Reader
  <2> QED
    BY <2>2, <2>3 DEF Posted
<1> QED
  BY <1>1, <1>2

(* A digi a user writes, stops or runs.                                    *)
LEMMA UserPosted ==
    ASSUME IInv, MInv, NEW c \in Ctl, NEW d \in Digi, Toggle(d) \/ \E v \in Val : Write(d, v)
    PROVE  Posted(c)
<1> USE DEF IInv, Types, MInv, Shapes
<1>1. /\ queue' = Enqueued(d) /\ fresh' = [r \in Reader |-> fresh[r] \ {d}]
      /\ \E v : attr' = [attr EXCEPT ![d] = v]
      /\ mounts' = mounts \/ \E ms : mounts' = [mounts EXCEPT ![d] = ms]
      /\ alive' = alive \/ alive' = alive \cup {d} \/ alive' = alive \ {d}
  BY DEF Toggle, Write
<1>2. queue[c] \subseteq queue'[c] /\ (d \in watched[c] => <<"enforce", d>> \in queue'[c])
  BY <1>1 DEF Enqueued
<1>3. \A e \in Digi \ {d} : Same(c, e)
  <2> SUFFICES ASSUME NEW e \in Digi \ {d} PROVE Same(c, e)
    OBVIOUS
  <2>1. attr'[e] = attr[e] /\ (e \in alive' <=> e \in alive) /\ (e \in fresh[c] => e \in fresh'[c])
    BY <1>1 DEF Reader
  <2>2. mounts'[e] = mounts[e]
    BY <1>1
  <2> QED
    BY <2>1, <2>2 DEF Same
<1> QED
  BY <1>2, <1>3 DEF Posted

(* A call: what it enters, sends or loses.                                 *)
LEMMA CallPosted ==
    ASSUME IInv, MInv, NEW c \in Ctl, NEW b \in Client,
           ClientStep(b) \/ UpdateFails(b) \/ \E op, ks, d : DoMount(b, op, ks, d)
    PROVE  Posted(c)
<1> USE DEF IInv, Types, MInv, Shapes
<1>1. CASE Update(b)
  BY <1>1, MountsPosted DEF Update
<1>2. CASE UpdateConflict(b)
  BY <1>2, DigisPosted DEF UpdateConflict, store
<1>3. CASE UpdateFails(b)
  <2>1. CASE UNCHANGED store
    BY <2>1, DigisPosted DEF store
  <2>2. CASE ~ UNCHANGED store
    <3> DEFINE d == call[b].target
    <3>1. /\ d \in Digi /\ mounts' = [mounts EXCEPT ![d] = call[b].mounts]
          /\ fresh' = [r \in Reader |-> fresh[r] \ {d}] /\ queue' = Enqueued(d)
          /\ UNCHANGED <<alive, attr>>
      BY <1>3, <2>2 DEF UpdateFails
    <3>2. queue[c] \subseteq queue'[c] /\ (d \in watched[c] => <<"enforce", d>> \in queue'[c])
      BY <3>1 DEF Enqueued
    <3>3. \A e \in Digi \ {d} : Same(c, e)
      BY <3>1 DEF Same, Reader
    <3> QED
      BY <3>2, <3>3 DEF Posted
  <2> QED
    BY <2>1, <2>2
<1>4. ASSUME NEW op, NEW ks, NEW d, DoMount(b, op, ks, d) PROVE Posted(c)
  <2>1. UNCHANGED <<alive, attr, mounts, queue>> /\ \A e : e \in fresh[c] => e \in fresh'[c]
    BY <1>4, StoreAssumption DEF DoMount, Reader
  <2> QED
    BY <2>1 DEF Posted, Same
<1> QED
  BY <1>1, <1>2, <1>3, <1>4 DEF ClientStep

-----------------------------------------------------------------------------
(* The policer loses no change that makes a policy due.                    *)

\* A request that has the policy enforced is in the queue.
Asked(n) == \E req \in queue["policy"] : req \in Concerned(n)

\* The worker will look at the policy as it is, or holds its source as it is
\* and is about to write it.
InHand(n) ==
    LET s == objs[n]
    IN  \/ n \in pol.todo /\ index[pol.digi][n] = s
        \/ /\ pol.st = "source" /\ pol.of = n /\ pol.spec = s
           /\ s.src \in fresh["policy"] /\ mounts[s.src] # pol.srcMounts

\* A policy whose request was handled is filed under its digis, with watches.
Watching(n) ==
    LET s == objs[n]
    IN  /\ index[s.src][n] = s /\ index[s.dst][n] = s
        /\ {s.src, s.dst} \subseteq watched["policy"]

PoliciesAreFiled ==
    \A n \in PolicyName : "policy" \in up /\ objs[n] # NoSpec =>
        <<"spec", n>> \in queue["policy"] \/ Watching(n)

\* What is due is asked for, or in hand.
DueIsPending ==
    \A n \in PolicyName :
        "policy" \in up /\ objs[n] # NoSpec /\ n \notin dropped /\ Due(objs[n]) =>
            Asked(n) \/ InHand(n)

PInv == PoliciesAreFiled /\ DueIsPending

\* A step by others than the policer's worker, as far as policies go.
Frame ==
    /\ Posted("policy") /\ watched["policy"] \subseteq watched'["policy"]
    /\ "policy" \in up' => "policy" \in up
    /\ dropped \subseteq dropped'
    /\ \A n \in PolicyName :
          /\ "policy" \in up /\ objs'[n] # objs[n] => <<"spec", n>> \in queue'["policy"]
          /\ \A d \in Digi : index'[d][n] = index[d][n]

(* What was asked for stays so.                                            *)
LEMMA FrameStays ==
    ASSUME Frame, NEW n \in PolicyName
    PROVE  /\ <<"spec", n>> \in queue["policy"] => <<"spec", n>> \in queue'["policy"]
           /\ \A d : <<"enforce", d>> \in queue["policy"] => <<"enforce", d>> \in queue'["policy"]
BY PostedStays DEF Frame, Ctl, NamesOf

(* After such a step a policy that is due is asked for, or was in hand and *)
(* its digis are as they were.                                             *)
LEMMA FramePends ==
    ASSUME IInv, PInv, Frame, NEW n \in PolicyName, "policy" \in up', objs'[n] # NoSpec,
           n \notin dropped', Due(objs[n])'
    PROVE  \/ Asked(n)'
           \/ /\ objs'[n] = objs[n] /\ InHand(n)
              /\ Same("policy", objs[n].src)
<1>1. n \in Name /\ "policy" \in up /\ n \notin dropped
  BY DEF Name, Frame
<1>2. CASE <<"spec", n>> \in queue'["policy"]
  BY <1>2 DEF Asked, Concerned
<1>3. CASE <<"spec", n>> \notin queue'["policy"]
  <2> DEFINE s == objs[n]
  <2>1. objs'[n] = s /\ s \in Spec0 /\ s.src \in Digi /\ s.dst \in Digi
    BY <1>1, <1>3 DEF Frame, IInv, Types, Spec0
  <2>2. s.src \in watched["policy"] /\ s.dst \in watched["policy"]
    BY <1>1, <1>3, <2>1, FrameStays DEF PInv, PoliciesAreFiled, Watching
  <2>3. CASE ~ (Same("policy", s.src) /\ Same("policy", s.dst))
    BY <2>1, <2>2, <2>3 DEF Frame, Posted, Asked, Concerned
  <2>4. CASE Same("policy", s.src) /\ Same("policy", s.dst)
    <3>1. Due(s)
      BY <2>1, <2>4 DEF Same, Due, Yielded, GetObj
    <3>2. Asked(n) \/ InHand(n)
      BY <1>1, <2>1, <3>1 DEF PInv, DueIsPending
    <3>3. Asked(n) => Asked(n)'
      BY <2>1, FrameStays DEF Asked, Concerned
    <3> QED
      BY <2>1, <2>4, <3>2, <3>3
  <2> QED
    BY <2>3, <2>4
<1> QED
  BY <1>2, <1>3

(* Policies stay filed.                                                    *)
LEMMA FrameFiles == ASSUME IInv, PInv, Frame PROVE PoliciesAreFiled'
<1> SUFFICES ASSUME NEW n \in PolicyName, "policy" \in up', objs'[n] # NoSpec,
                    <<"spec", n>> \notin queue'["policy"]
             PROVE  Watching(n)'
  BY DEF PoliciesAreFiled
<1>1. n \in Name /\ "policy" \in up /\ objs'[n] = objs[n] /\ <<"spec", n>> \notin queue["policy"]
  BY FrameStays DEF Name, Frame
<1>2. objs[n].src \in Digi /\ objs[n].dst \in Digi
  BY <1>1 DEF IInv, Types, Spec0
<1>3. Watching(n)
  BY <1>1 DEF PInv, PoliciesAreFiled
<1> QED
  BY <1>1, <1>2, <1>3 DEF Watching, Frame

(* A step that leaves the worker alone, or takes no policy from its hands. *)
LEMMA FrameKeeps ==
    ASSUME IInv, MInv, PInv, Frame, pol' = pol
    PROVE  PInv'
<1> SUFFICES ASSUME NEW n \in PolicyName, "policy" \in up', objs'[n] # NoSpec,
                    n \notin dropped', Due(objs[n])', ~ Asked(n)'
             PROVE  InHand(n)'
  BY FrameFiles DEF PInv, DueIsPending
<1>1. objs'[n] = objs[n] /\ InHand(n) /\ Same("policy", objs[n].src)
  BY FramePends
<1>2. n \in pol.todo => index'[pol.digi][n] = index[pol.digi][n]
  BY DEF MInv, LoopIsIndexed, Frame
<1> QED
  BY <1>1, <1>2 DEF InHand, Same

(* The syncer's steps.                                                     *)
LEMMA SyncFrame ==
    ASSUME IInv, MInv, SyncStep \/ SyncFails \/ SyncCrash, dropped' = dropped
    PROVE  Frame
<1> USE StoreAssumption
<1>0. /\ \A n \in SyncName : n \in Name /\ \A m \in PolicyName : m \in Name \ {n}
      /\ "policy" \in Ctl /\ "sync" \in Ctl
  BY DEF Name, Ctl
<1>1. ASSUME NEW n \in SyncName, SyncAdd(n) PROVE Frame
  <2>1. CacheAdd("sync", n, objs[n]) /\ UNCHANGED <<digis, objs, up>>
    BY <1>1 DEF SyncAdd
  <2>2. objs[n] \in Spec0 /\ n \in NamesOf("sync")
    BY <1>0, <1>1 DEF SyncAdd, IInv, Types, NamesOf
  <2>3. \A d \in Digi, m \in Name \ {n} : index'[d][m] = index[d][m]
    BY <1>0, <2>1, <2>2, CacheAddFacts DEF IInv
  <2>4. queue'["policy"] = queue["policy"] /\ watched'["policy"] = watched["policy"]
    BY <2>1 DEF CacheAdd, IInv, Types, Ctl
  <2> QED
    BY <1>0, <2>1, <2>3, <2>4, DigisPosted DEF Frame
<1>2. ASSUME NEW n \in SyncName, SyncGone(n) PROVE Frame
  <2>1. CacheRemove(n) /\ UNCHANGED <<alive, mounts, objs, up, watched>>
    BY <1>2 DEF SyncGone, CacheRemove
  <2>2. \A d \in Digi, m \in Name \ {n} : index'[d][m] = index[d][m]
    BY <1>0, <2>1, CacheRemoveFacts DEF IInv
  <2>3. Posted("policy")
    <3>1. CASE UNCHANGED <<attr, fresh>> /\ Done(<<"spec", n>>)
      BY <2>1, <3>1 DEF Done, Posted, Same, IInv, Types, Ctl
    <3>2. ASSUME NEW d \in ToClear(n),
                 /\ attr' = [attr EXCEPT ![d] = None]
                 /\ fresh' = IF attr[d] = None THEN fresh
                             ELSE [r \in Reader |-> fresh[r] \ {d}]
                 /\ queue' = [c \in Ctl |->
                       (IF attr[d] = None THEN queue ELSE Enqueued(d))[c] \ {<<"spec", n>>}]
          PROVE  Posted("policy")
      <4>1. d \in Digi
        BY DEF ToClear, GetObj, IInv, Types
      <4>2. \A req \in queue["policy"] :
               req \in queue'["policy"] \/ req = <<"spec", n>>
        BY <1>0, <3>2 DEF Enqueued
      <4>3. CASE attr[d] = None
        <5>1. UNCHANGED <<attr, fresh>>
          BY <3>2, <4>3 DEF IInv, Types
        <5> QED
          BY <1>0, <2>1, <4>2, <5>1 DEF Posted, Same, NamesOf
      <4>4. CASE attr[d] # None
        <5>1. d \in watched["policy"] => <<"enforce", d>> \in queue'["policy"]
          BY <1>0, <3>2, <4>4 DEF Enqueued
        <5>2. \A e \in Digi \ {d} : Same("policy", e)
          BY <2>1, <3>2, <4>4 DEF Same, IInv, Types, MInv, Shapes, Reader, Ctl
        <5> QED
          BY <1>0, <4>2, <5>1, <5>2 DEF Posted, NamesOf
      <4> QED
        BY <4>3, <4>4
    <3> QED
      BY <1>2, <3>1, <3>2 DEF SyncGone
  <2> QED
    BY <1>0, <2>1, <2>2, <2>3 DEF Frame
<1>3. ASSUME NEW n \in SyncName, SyncRead(n) PROVE Frame
  <2>1. /\ UNCHANGED <<alive, attr, mounts, objs, up, queue, caches>>
        /\ fresh' = fresh \/ \E D : fresh' = [fresh EXCEPT !["sync"] = D]
    BY <1>3 DEF SyncRead
  <2>2. fresh'["policy"] = fresh["policy"]
    BY <2>1 DEF MInv, Shapes, Reader, Ctl
  <2> QED
    BY <2>1, <2>2 DEF Frame, Posted, Same, caches
<1>4. CASE SyncWrite
  <2>1. syn.put.to \in Digi /\ UNCHANGED <<objs, up, caches>>
    BY <1>4 DEF SyncWrite, IInv, Types
  <2>2. Posted("policy")
    BY <1>0, <1>4, <2>1, AttrPosted DEF SyncWrite
  <2> QED
    BY <2>1, <2>2 DEF Frame, caches
<1>5. CASE SyncConflict \/ SyncDone \/ SyncStart \/ SyncFails \/ \E d \in Digi : SyncEnforce(d)
  <2>1. UNCHANGED <<digis, objs, caches>> /\ ("policy" \in up' => "policy" \in up)
    BY <1>5 DEF SyncConflict, SyncDone, SyncStart, SyncFails, SyncEnforce, store
  <2>2. queue'["policy"] = queue["policy"]
    BY <1>5 DEF SyncConflict, SyncDone, SyncStart, SyncFails, SyncEnforce, Done, store, IInv, Types, Ctl
  <2> QED
    BY <1>0, <2>1, <2>2, DigisPosted DEF Frame, caches
<1>6. CASE SyncCrash
  <2>1. UNCHANGED <<digis, objs>> /\ ("policy" \in up' => "policy" \in up) /\ EmptyCaches("sync")
    BY <1>6 DEF SyncCrash
  <2>2. queue'["policy"] = queue["policy"] /\ watched'["policy"] = watched["policy"]
    BY <1>6, <2>1 DEF SyncCrash, EmptyCaches, IInv, Types, Ctl
  <2>3. \A n \in PolicyName, d \in Digi : index'[d][n] = index[d][n]
    <3>1. \A n \in PolicyName : n \in Name /\ n \notin NamesOf("sync")
      BY DEF Name, NamesOf
    <3> QED
      BY <2>1, <3>1 DEF EmptyCaches
  <2> QED
    BY <1>0, <2>1, <2>2, <2>3, DigisPosted DEF Frame
<1> QED
  BY <1>1, <1>2, <1>3, <1>4, <1>5, <1>6 DEF SyncStep

(* What calls do.                                                          *)
LEMMA CallFrame ==
    ASSUME IInv, MInv, NEW b \in Client,
           ClientStep(b) \/ UpdateFails(b) \/ \E op, ks, d : DoMount(b, op, ks, d),
           dropped' = dropped
    PROVE  Frame
<1>1. UNCHANGED <<objs, up, caches>>
  BY DEF ClientStep, Update, UpdateConflict, UpdateFails, DoMount, store
<1>2. Posted("policy")
  BY CallPosted DEF Ctl
<1> QED
  BY <1>1, <1>2 DEF Frame, caches

(* What users do.                                                          *)
LEMMA UserFrame ==
    ASSUME IInv, MInv,
           \/ \E n \in SyncName : \E s \in Specs[n] : PipeCreate(n, s)
           \/ \E d \in Digi : Toggle(d) \/ \E v \in Val : Write(d, v)
           \/ \E n \in Name : Delete(n) \/ \E s \in Specs[n] : Apply(n, s)
           \/ \E n \in SyncName : Pipe(n) \/ Unpipe(n)
    PROVE  Frame
<1>1. ASSUME NEW d \in Digi, Toggle(d) \/ \E v \in Val : Write(d, v) PROVE Frame
  <2>1. Posted("policy") /\ UNCHANGED <<objs, up, caches, dropped>>
    BY <1>1, UserPosted DEF Toggle, Write, workers, Ctl
  <2> QED
    BY <2>1 DEF Frame, caches
<1>2. ASSUME NEW n \in Name, NEW s, SetObj(n, s) PROVE Frame
  <2>1. /\ UNCHANGED <<digis, up, caches, dropped>> /\ queue' = EnqueuedSpec(n)
        /\ objs' = [objs EXCEPT ![n] = s]
    BY <1>2 DEF SetObj
  <2>2. /\ queue["policy"] \subseteq queue'["policy"]
        /\ n \in PolicyName /\ "policy" \in up => <<"spec", n>> \in queue'["policy"]
    BY <2>1 DEF EnqueuedSpec, NamesOf, Ctl
  <2>3. \A m \in Name \ {n} : objs'[m] = objs[m]
    BY <2>1 DEF IInv, Types
  <2>4. Posted("policy")
    BY <2>1, <2>2, DigisPosted DEF Ctl
  <2> QED
    BY <2>1, <2>2, <2>3, <2>4 DEF Frame, caches, Name
<1>3. CASE UNCHANGED <<store, workers>>
  BY <1>3, DigisPosted DEF store, workers, caches, Frame, Ctl
<1> QED
  BY <1>1, <1>2, <1>3 DEF PipeCreate, Delete, Apply, Pipe, Unpipe, Name

-----------------------------------------------------------------------------
(* The policer's own steps.                                                *)

(* Add files a policy under its source and target, which it comes to       *)
(* watch, or leaves the request in the queue.                              *)
LEMMA CacheAddFiles ==
    ASSUME IInv, NEW c \in Ctl, NEW n \in NamesOf(c), NEW s \in Spec0, CacheAdd(c, n, s)
    PROVE  /\ watched[c] \subseteq watched'[c]
           /\ \A req \in queue[c] : req \in queue'[c] \/ req = <<"spec", n>>
           /\ IF WatchesBoth(c, s)
              THEN /\ index'[s.src][n] = s /\ index'[s.dst][n] = s
                   /\ {s.src, s.dst} \subseteq watched'[c]
              ELSE index' = index /\ queue[c] \subseteq queue'[c]
<1> USE StoreAssumption DEF IInv, Types
<1>1. s.src \in Digi /\ s.dst \in Digi /\ n \in Name
  BY DEF Spec0, Name, NamesOf
<1>2. watched'[c] = watched[c] \cup KindsOf(c, s)
  BY DEF CacheAdd
<1>3. WatchesBoth(c, s) => {s.src, s.dst} \subseteq KindsOf(c, s)
  BY <1>1 DEF KindsOf, WatchesBoth
<1>4. queue'[c] = (IF WatchesBoth(c, s) THEN queue[c] \ {<<"spec", n>>} ELSE queue[c])
                  \cup {<<"enforce", d>> : d \in (KindsOf(c, s) \ watched[c]) \cap alive}
  BY DEF CacheAdd
<1>5. ASSUME WatchesBoth(c, s) PROVE index'[s.src][n] = s /\ index'[s.dst][n] = s
  <2> DEFINE one == [index EXCEPT ![s.src] = [index[s.src] EXCEPT ![n] = s]]
  <2>1. index' = [one EXCEPT ![s.dst] = [one[s.dst] EXCEPT ![n] = s]]
    BY <1>5 DEF CacheAdd
  <2>2. one \in [Digi -> [Name -> Spec0 \cup {NoSpec}]] /\ one[s.src][n] = s
    BY <1>1
  <2> HIDE DEF one
  <2>3. index'[s.dst][n] = s
    BY <1>1, <2>1, <2>2
  <2>4. s.src # s.dst => index'[s.src] = one[s.src]
    BY <1>1, <2>1, <2>2
  <2> QED
    BY <2>2, <2>3, <2>4
<1>6. ~ WatchesBoth(c, s) => index' = index
  BY DEF CacheAdd
<1> QED
  BY <1>2, <1>3, <1>4, <1>5, <1>6

(* The worker that starts on a digi has all policies in hand that are      *)
(* filed there.                                                            *)
LEMMA LoopPends ==
    ASSUME IInv, NEW d \in Digi, PolEnforce(d, index'), NEW n \in PolicyName,
           objs'[n] \in Spec0, index'[d][n] = objs'[n]
    PROVE  InHand(n)'
<1>1. pol'.digi = d /\ pol'.todo = {m \in PolicyName : index'[d][m] # NoSpec}
  BY DEF PolEnforce, PolIdle
<1> QED
  BY <1>1, StoreAssumption DEF InHand

(* doPolicy of a policy that is there.                                     *)
LEMMA PolicyAddPends ==
    ASSUME IInv, MInv, PInv, NEW n \in PolicyName, PolicyAdd(n)
    PROVE  PInv'
<1> USE StoreAssumption
<1> DEFINE s == objs[n]
<1>1. /\ pol.st = "idle" /\ "policy" \in up /\ CacheAdd("policy", n, s)
      /\ UNCHANGED <<digis, objs, up, dropped>>
      /\ IF WatchesBoth("policy", s) THEN PolEnforce(s.src, index') ELSE UNCHANGED pol
  BY DEF PolicyAdd, PolicyCacheAdd, PolTake
<1>2. s \in Spec0 /\ s.src \in Digi /\ n \in NamesOf("policy") /\ n \in Name /\ "policy" \in Ctl
      /\ \A m \in PolicyName \ {n} : m \in Name \ {n}
  BY DEF PolicyAdd, IInv, Types, NamesOf, Name, Ctl, Spec0
<1>3. \A d \in Digi, m \in Name \ {n} : index'[d][m] = index[d][m]
  BY <1>1, <1>2, CacheAddFacts DEF IInv
<1>4. CASE ~ WatchesBoth("policy", s)
  <2>1. index' = index /\ queue["policy"] \subseteq queue'["policy"]
        /\ watched["policy"] \subseteq watched'["policy"]
    BY <1>1, <1>2, <1>4, CacheAddFiles
  <2>2. Frame
    BY <1>1, <1>2, <2>1, DigisPosted DEF Frame
  <2> QED
    BY <1>1, <1>4, <2>2, FrameKeeps
<1>5. CASE WatchesBoth("policy", s)
  <2>1. /\ index'[s.src][n] = s /\ index'[s.dst][n] = s
        /\ {s.src, s.dst} \subseteq watched'["policy"]
        /\ watched["policy"] \subseteq watched'["policy"]
        /\ \A req \in queue["policy"] : req \in queue'["policy"] \/ req = <<"spec", n>>
    BY <1>1, <1>2, <1>5, CacheAddFiles
  <2>2. PoliciesAreFiled'
    <3> SUFFICES ASSUME NEW m \in PolicyName, objs[m] # NoSpec
                 PROVE  <<"spec", m>> \in queue'["policy"] \/ Watching(m)'
      BY <1>1 DEF PoliciesAreFiled
    <3>1. CASE m = n
      BY <1>1, <2>1, <3>1 DEF Watching
    <3>2. CASE m # n
      <4>1. objs[m].src \in Digi /\ objs[m].dst \in Digi /\ m \in Name \ {n}
        BY <1>2, <3>2 DEF IInv, Types, Spec0
      <4>2. <<"spec", m>> \in queue["policy"] \/ Watching(m)
        BY <1>1 DEF PInv, PoliciesAreFiled
      <4> QED
        BY <1>1, <1>3, <2>1, <3>2, <4>1, <4>2 DEF Watching
    <3> QED
      BY <3>1, <3>2
  <2>3. DueIsPending'
    <3> SUFFICES ASSUME NEW m \in PolicyName, objs[m] # NoSpec, m \notin dropped, Due(objs[m])
                 PROVE  Asked(m)' \/ InHand(m)'
      BY <1>1 DEF DueIsPending, Due, Yielded, digis, GetObj
    <3>1. CASE m = n
      BY <1>1, <1>2, <1>5, <2>1, <3>1, LoopPends
    <3>2. CASE m # n
      <4>1. Asked(m)
        BY <1>1 DEF PInv, DueIsPending, InHand, MInv, LoopIsIndexed
      <4> QED
        BY <1>1, <2>1, <3>2, <4>1 DEF Asked, Concerned
    <3> QED
      BY <3>1, <3>2
  <2> QED
    BY <2>2, <2>3 DEF PInv
<1> QED
  BY <1>4, <1>5

(* doPolicy of a policy that is gone.                                      *)
LEMMA PolicyGonePends ==
    ASSUME IInv, MInv, PInv, NEW n \in PolicyName, PolicyGone(n)
    PROVE  PInv'
<1> USE StoreAssumption
<1>1. /\ pol.st = "idle" /\ objs[n] = NoSpec /\ CacheRemove(n) /\ PolDone(<<"spec", n>>)
      /\ UNCHANGED <<digis, objs, up, pol, dropped, watched>>
  BY DEF PolicyGone, PolicyCacheRemove, PolTake, CacheRemove
<1>2. n \in Name /\ "policy" \in Ctl /\ \A m \in PolicyName \ {n} : m \in Name \ {n}
  BY DEF Name, Ctl
<1>3. \A d \in Digi, m \in Name \ {n} : index'[d][m] = index[d][m]
  BY <1>1, <1>2, CacheRemoveFacts DEF IInv
<1>4. \A req \in queue["policy"] : req \in queue'["policy"] \/ req = <<"spec", n>>
  BY <1>1, <1>2 DEF PolDone, IInv, Types
<1>5. \A m \in PolicyName : objs[m] # NoSpec =>
         m # n /\ objs[m].src \in Digi /\ objs[m].dst \in Digi
  BY <1>1 DEF IInv, Types, Spec0, Name
<1>6. PoliciesAreFiled'
  BY <1>1, <1>2, <1>3, <1>4, <1>5 DEF PInv, PoliciesAreFiled, Watching
<1>7. DueIsPending'
  <2> SUFFICES ASSUME NEW m \in PolicyName, "policy" \in up, objs[m] # NoSpec, m \notin dropped,
                      Due(objs[m])
               PROVE  Asked(m)'
    BY <1>1 DEF DueIsPending, Due, Yielded, digis, GetObj
  <2>1. Asked(m)
    BY <1>1 DEF PInv, DueIsPending, InHand, MInv, LoopIsIndexed
  <2> QED
    BY <1>1, <1>4, <1>5, <2>1 DEF Asked, Concerned
<1> QED
  BY <1>6, <1>7 DEF PInv

(* doEnforce starts on a digi.                                             *)
LEMMA PolicyEnforcePends ==
    ASSUME IInv, MInv, PInv, NEW d \in Digi, PolicyEnforce(d)
    PROVE  PInv'
<1> USE StoreAssumption
<1>1. /\ pol.st = "idle" /\ "policy" \in up /\ PolDone(<<"enforce", d>>) /\ PolEnforce(d, index')
      /\ UNCHANGED <<digis, objs, up, dropped, index, watched>>
  BY DEF PolicyEnforce, PolTake, caches, PolEnforce
<1>2. \A req \in queue["policy"] : req \in queue'["policy"] \/ req = <<"enforce", d>>
  BY <1>1 DEF PolDone, IInv, Types, Ctl
<1>3. PoliciesAreFiled'
  BY <1>1, <1>2 DEF PInv, PoliciesAreFiled, Watching
<1>4. DueIsPending'
  <2> SUFFICES ASSUME NEW m \in PolicyName, objs[m] # NoSpec, m \notin dropped, Due(objs[m]),
                      ~ Asked(m)'
               PROVE  InHand(m)'
    BY <1>1 DEF DueIsPending, Due, Yielded, digis, GetObj
  <2>1. Asked(m) /\ objs[m] \in Spec0
    BY <1>1 DEF PInv, DueIsPending, InHand, MInv, LoopIsIndexed, IInv, Types, Name
  <2>2. d \in {objs[m].src, objs[m].dst} /\ <<"spec", m>> \notin queue["policy"]
    BY <1>1, <1>2, <2>1 DEF Asked, Concerned
  <2>3. index[d][m] = objs[m]
    BY <1>1, <2>2 DEF PInv, PoliciesAreFiled, Watching
  <2> QED
    BY <1>1, <2>1, <2>3, LoopPends
<1> QED
  BY <1>3, <1>4 DEF PInv

(* doEnforce reads a policy: what is due is now in its hands.              *)
LEMMA PolicyReadPends ==
    ASSUME IInv, MInv, PInv, NEW n \in PolicyName, PolicyRead(n)
    PROVE  PInv'
<1> USE StoreAssumption
<1> DEFINE s == index[pol.digi][n]
<1>1. /\ pol.st = "loop" /\ n \in pol.todo
      /\ UNCHANGED <<alive, attr, mounts, objs, up, queue, caches, dropped>>
  BY DEF PolicyRead, InLoop
<1>2. /\ pol'.todo = pol.todo \ {n} /\ pol'.digi = pol.digi
      /\ Due(s) => /\ pol'.st = "source" /\ pol'.of = n /\ pol'.spec = s
                   /\ pol'.srcMounts = With(mounts[s.src], Yielded(s), "inactive")
                   /\ s.src \in fresh'["policy"]
  <2>1. CASE Due(s)
    <3>1. /\ pol' = [pol EXCEPT !.todo = @ \ {n}, !.st = "source", !.of = n, !.spec = s,
                       !.srcMounts = With(mounts[s.src], Yielded(s), "inactive"),
                       !.dstMounts = With(mounts[s.dst], Yielded(s), "active")]
          /\ fresh' = [fresh EXCEPT !["policy"] = {s.src, s.dst}]
      BY <2>1 DEF PolicyRead
    <3> QED
      BY <3>1 DEF MInv, Shapes, Reader, Ctl
  <2>2. CASE ~ Due(s)
    <3>1. pol' = [pol EXCEPT !.todo = @ \ {n}]
      BY <2>2 DEF PolicyRead
    <3> QED
      BY <2>2, <3>1
  <2> QED
    BY <2>1, <2>2
<1>3. Due(s) => mounts[s.src] # pol'.srcMounts
  <2> SUFFICES ASSUME Due(s) PROVE mounts[s.src] # pol'.srcMounts
    OBVIOUS
  <2>1. PICK k \in Digi : k \in Yielded(s)
    BY DEF Due, Yielded
  <2>2. mounts[s.src][k] = "active" /\ pol'.srcMounts[k] = "inactive"
    BY <1>2, <2>1 DEF Yielded, With
  <2> QED
    BY <2>2
<1>4. PoliciesAreFiled'
  BY <1>1 DEF PInv, PoliciesAreFiled, Watching, caches
<1>5. DueIsPending'
  <2> SUFFICES ASSUME NEW m \in PolicyName, "policy" \in up, objs[m] # NoSpec, m \notin dropped,
                      Due(objs[m])
               PROVE  Asked(m)' \/ InHand(m)'
    BY <1>1 DEF DueIsPending, Due, Yielded, GetObj
  <2>1. Asked(m) => Asked(m)'
    BY <1>1 DEF Asked, Concerned
  <2>2. CASE InHand(m) /\ m # n
    BY <1>1, <1>2, <2>2 DEF InHand, caches
  <2>3. CASE InHand(m) /\ m = n
    <3>1. s = objs[n]
      BY <1>1, <2>3 DEF InHand
    <3> QED
      BY <1>1, <1>2, <1>3, <2>3, <3>1 DEF InHand
  <2> QED
    BY <2>1, <2>2, <2>3 DEF PInv, DueIsPending
<1> QED
  BY <1>4, <1>5 DEF PInv

(* The Update of the source: the policy is no longer due, or asked for     *)
(* again.                                                                  *)
LEMMA YieldSourcePends ==
    ASSUME IInv, MInv, PInv, YieldSource
    PROVE  PInv'
<1> USE StoreAssumption
<1>1. /\ pol.st = "source" /\ pol.spec \in Spec0
      /\ WriteMounts("policy", pol.spec.src, pol.srcMounts)
      /\ UNCHANGED <<objs, up, caches, dropped>>
  BY DEF YieldSource, MInv, YieldIsCurrent
<1>2. pol'.todo = pol.todo /\ pol'.digi = pol.digi
  <2>1. pol' = [pol EXCEPT !.st = "target"]
    BY DEF YieldSource
  <2> QED
    BY <2>1
<1>3. pol.spec.src \in Digi /\ "policy" \in Ctl
  BY <1>1 DEF Spec0, Ctl
<1>4. /\ Posted("policy")
      /\ mounts[pol.spec.src] # pol.srcMounts /\ pol.spec.src \in watched["policy"] =>
            <<"enforce", pol.spec.src>> \in queue'["policy"]
  BY <1>1, <1>3, MountsPosted
<1>5. Frame
  BY <1>1, <1>4 DEF Frame, caches
<1>6. DueIsPending'
  <2> SUFFICES ASSUME NEW n \in PolicyName, "policy" \in up', objs'[n] # NoSpec,
                      n \notin dropped', Due(objs[n])', ~ Asked(n)'
               PROVE  InHand(n)'
    BY DEF DueIsPending
  <2>1. objs'[n] = objs[n] /\ InHand(n)
    BY <1>5, FramePends
  <2>2. CASE n \in pol.todo /\ index[pol.digi][n] = objs[n]
    BY <1>1, <1>2, <2>2 DEF InHand, caches
  <2>3. CASE pol.spec = objs[n] /\ mounts[pol.spec.src] # pol.srcMounts
    <3>1. <<"spec", n>> \notin queue["policy"] /\ <<"enforce", objs[n].src>> \notin queue'["policy"]
      BY <1>1, <1>5, FrameStays DEF Asked, Concerned
    <3>2. objs[n].src \in watched["policy"]
      BY <1>1, <2>1, <3>1 DEF PInv, PoliciesAreFiled, Watching
    <3> QED
      BY <1>4, <2>3, <3>1, <3>2
  <2> QED
    BY <2>1, <2>2, <2>3 DEF InHand
<1> QED
  BY <1>5, <1>6, FrameFiles DEF PInv

(* A yield that ends, or is given up: only a conflict at the source leaves *)
(* the policy due, and the write that caused it is in the queue.           *)
LEMMA YieldEndPends ==
    ASSUME IInv, MInv, PInv, YieldTarget \/ YieldConflict \/ YieldLost
    PROVE  PInv'
<1> USE StoreAssumption
<1>1. /\ UNCHANGED <<objs, up, caches>> /\ dropped \subseteq dropped'
      /\ pol.st \in {"source", "target"}
      /\ pol.st = "source" /\ pol.spec.src \in fresh["policy"] /\ pol.spec.src \in alive =>
            pol.of \in dropped'
  BY DEF YieldTarget, YieldConflict, YieldLost, Current, store
<1>2. pol'.todo = pol.todo /\ pol'.digi = pol.digi
  <2>1. pol' = [pol EXCEPT !.st = "loop"]
    BY DEF YieldTarget, YieldConflict, YieldLost
  <2> QED
    BY <2>1
<1>3. Posted("policy")
  <2>1. CASE YieldTarget
    <3>1. pol.spec.dst \in Digi /\ "policy" \in Ctl
      BY <2>1 DEF YieldTarget, MInv, YieldIsCurrent, Spec0, Ctl
    <3> QED
      BY <2>1, <3>1, MountsPosted DEF YieldTarget
  <2>2. CASE YieldConflict \/ YieldLost
    BY <2>2, DigisPosted DEF YieldConflict, YieldLost, store, Ctl
  <2> QED
    BY <2>1, <2>2
<1>4. Frame
  BY <1>1, <1>3 DEF Frame, caches
<1>5. DueIsPending'
  <2> SUFFICES ASSUME NEW n \in PolicyName, "policy" \in up', objs'[n] # NoSpec,
                      n \notin dropped', Due(objs[n])', ~ Asked(n)'
               PROVE  InHand(n)'
    BY DEF DueIsPending
  <2>1. objs'[n] = objs[n] /\ InHand(n) /\ Same("policy", objs[n].src)
    BY <1>4, FramePends
  <2>2. CASE n \in pol.todo /\ index[pol.digi][n] = objs[n]
    BY <1>1, <1>2, <2>2 DEF InHand, caches
  <2>3. CASE /\ pol.st = "source" /\ pol.of = n /\ pol.spec = objs[n]
             /\ objs[n].src \in fresh["policy"]
    <3>1. objs[n].src \in alive
      BY <2>1 DEF Due, GetObj, Same
    <3> QED
      BY <1>1, <2>3, <3>1
  <2> QED
    BY <2>1, <2>2, <2>3 DEF InHand
<1> QED
  BY <1>4, <1>5, FrameFiles DEF PInv

(* The worker's steps and the end of the process.                          *)
LEMMA PolicyStepPends ==
    ASSUME IInv, MInv, PInv, PolicyStep \/ PolicyCrash
    PROVE  PInv'
<1> USE StoreAssumption
<1>1. CASE PolicyDone
  <2>1. pol.todo = {} /\ pol.st = "loop" /\ UNCHANGED <<store, dropped>>
    BY <1>1 DEF PolicyDone, PolicyEnds, InLoop
  <2>2. PoliciesAreFiled'
    BY <2>1 DEF PInv, PoliciesAreFiled, Watching, store, digis, caches
  <2>3. DueIsPending'
    BY <2>1 DEF PInv, DueIsPending, Asked, Concerned, InHand, Due, Yielded, GetObj, store, digis
  <2> QED
    BY <2>2, <2>3 DEF PInv
<1>2. CASE PolicyStart
  <2>1. objs' = objs /\ \A n \in PolicyName : objs[n] # NoSpec => <<"spec", n>> \in queue'["policy"]
    BY <1>2 DEF PolicyStart, IInv, Types, Ctl
  <2> QED
    BY <2>1 DEF PInv, PoliciesAreFiled, DueIsPending, Asked, Concerned
<1>3. CASE PolicyCrash
  <2>1. "policy" \notin up'
    BY <1>3 DEF PolicyCrash
  <2> QED
    BY <2>1 DEF PInv, PoliciesAreFiled, DueIsPending
<1> QED
  BY <1>1, <1>2, <1>3, PolicyAddPends, PolicyGonePends, PolicyReadPends, PolicyEnforcePends,
     YieldSourcePends, YieldEndPends DEF PolicyStep

-----------------------------------------------------------------------------

(* The invariant is inductive, given those of the syncer and the mounts.   *)
THEOREM PoliciesInvariant == Spec => []PInv
<1>1. Init => PInv
  BY DEF Init, PInv, PoliciesAreFiled, DueIsPending
<1>2. IInv /\ MInv /\ PInv /\ [Next]_vars => PInv'
  <2> SUFFICES ASSUME IInv, MInv, PInv, [Next]_vars PROVE PInv'
    OBVIOUS
  <2>1. CASE Syncer
    BY <2>1, SyncFrame, FrameKeeps DEF Syncer
  <2>2. CASE Policer
    BY <2>2, PolicyStepPends DEF Policer
  <2>3. ASSUME NEW c \in Client, Caller(c) PROVE PInv'
    BY <2>3, CallFrame, FrameKeeps DEF Caller
  <2>4. CASE Failure
    BY <2>4, SyncFrame, CallFrame, FrameKeeps DEF Failure
  <2>5. CASE Crash
    BY <2>5, SyncFrame, FrameKeeps, PolicyStepPends DEF Crash
  <2>6. CASE Users
    <3>1. ASSUME NEW c \in Client, NEW m \in MountArgs, Mount(c, m),
                 UNCHANGED <<syncVars, spoiled, pol, dropped, rest>>
          PROVE  PInv'
      <4>1. Frame
        BY <3>1, CallFrame DEF Mount
      <4> QED
        BY <3>1, <4>1, FrameKeeps
    <3>2. ASSUME \/ \E n \in SyncName : \E s \in Specs[n] : PipeCreate(n, s)
                 \/ \E d \in Digi : Toggle(d) \/ \E v \in Val : Write(d, v)
                 \/ \E n \in Name : Delete(n) \/ \E s \in Specs[n] : Apply(n, s)
                 \/ \E n \in SyncName : Pipe(n) \/ Unpipe(n)
          PROVE  PInv'
      <4>1. Frame
        BY <3>2, UserFrame
      <4>2. pol' = pol
        BY <3>2 DEF PipeCreate, Toggle, Write, Delete, Apply, Pipe, Unpipe, SetObj, workers
      <4> QED
        BY <4>1, <4>2, FrameKeeps
    <3> QED
      BY <2>6, <3>1, <3>2 DEF Users
  <2>7. CASE UNCHANGED vars
    <3>1. UNCHANGED <<digis, objs, up, queue, caches, pol, dropped>>
      BY <2>7 DEF vars, store, workers
    <3>2. Frame
      BY <3>1, DigisPosted DEF Frame, caches, Ctl
    <3> QED
      BY <3>1, <3>2, FrameKeeps
  <2> QED
    BY <2>1, <2>2, <2>3, <2>4, <2>5, <2>6, <2>7 DEF Next
<1> QED
  BY <1>1, <1>2, SpaceInvariant, MountsInvariant, PTL DEF Spec

(* When the policer has handled every request about a policy, nothing is   *)
(* left to yield where its condition holds, unless a request of it failed  *)
(* or its target changed under the yield: whatever users, calls, the       *)
(* syncer and restarts do in between, for any number of policies that      *)
(* share digis (MuxRequest, doPolicy and doEnforce lose no change).        *)
THEOREM PoliciesEnforcedTheorem == Spec => []PoliciesEnforced
<1>1. MInv /\ PInv => PoliciesEnforced
  <2> SUFFICES ASSUME MInv, PInv, NEW n \in PolicyName, "policy" \in up, objs[n] # NoSpec,
                      n \notin dropped, pol.st = "idle", Due(objs[n])
               PROVE  queue["policy"] \cap Concerned(n) # {}
    BY DEF PoliciesEnforced
  <2>1. ~ InHand(n)
    BY DEF InHand, MInv, LoopIsIndexed
  <2>2. Asked(n)
    BY <2>1 DEF PInv, DueIsPending
  <2> QED
    BY <2>2 DEF Asked, Concerned
<1> QED
  BY <1>1, MountsInvariant, PoliciesInvariant, PTL

-----------------------------------------------------------------------------
(* The syncer loses no change that sets the two sides of a binding apart.  *)

\* A request that has the binding enforced is in the queue.
Wanted(n) == \E req \in queue["sync"] : req \in Concerned(n)

\* The two sides differ, and the copy is possible.
Off(n) ==
    LET s == objs[n]
    IN  /\ s # NoSpec /\ s.src \in alive /\ s.dst \in alive
        /\ attr[s.src] # None /\ attr[s.dst] # attr[s.src]

\* The write the worker is about to send makes the two sides equal.
Mends(n) ==
    LET s == objs[n]
    IN  \/ syn.put.to = s.dst /\ syn.put.val = attr[s.src]
        \/ syn.put.to = s.src /\ syn.put.val = attr[s.dst]

Putting(n) == syn.put # NoWrite /\ syn.put.of = n /\ syn.put.spec = objs[n]

\* A binding both ways whose target has nothing to copy is an error at the
\* target, unless another binding gives the target a value.
Failing(n) ==
    /\ syn.digi = objs[n].dst /\ attr[objs[n].dst] = None
    /\ \/ syn.err
       \/ syn.put # NoWrite /\ syn.put.to = objs[n].dst /\ syn.put.val # None

\* The request the worker is at will see to the binding, or be put back, or
\* has lost its write.
AtWork(n) ==
    /\ syn.req \in Concerned(n)
    /\ \/ n \in syn.todo /\ index[syn.digi][n] = objs[n]
       \/ Putting(n) /\ Mends(n) /\ syn.put.to \in fresh["sync"]
       \/ n \in syn.lost
       \/ Failing(n)

\* A binding whose request was handled is filed under its digis, with watches.
Tracked(n) ==
    LET s == objs[n]
    IN  /\ index[s.src][n] = s /\ index[s.dst][n] = s
        /\ s.src \in watched["sync"] /\ s.dst \in watched["sync"]

\* A binding is filed under its own digis only.
AtHome(n) ==
    \A d \in Digi : index[d][n] # NoSpec => d \in {index[d][n].src, index[d][n].dst}

\* The invariant of one binding.
Bound(n) ==
    /\ AtHome(n)
    /\ "sync" \in up /\ objs[n] # NoSpec => <<"spec", n>> \in queue["sync"] \/ Tracked(n)
    /\ Putting(n) => Wanted(n) \/ Mends(n)
    /\ "sync" \in up /\ n \notin masked /\ Off(n) => Wanted(n) \/ AtWork(n)

BInv == \A n \in SyncName : Bound(n)

\* What a step does for a binding, if it is not the worker's own.
Beside(n) ==
    /\ "sync" \in up' <=> "sync" \in up
    /\ \A d : d \in watched["sync"] => d \in watched'["sync"]
    /\ \A req \in queue["sync"] : req \in Concerned(n) => req \in queue'["sync"]
    /\ \A d \in Digi :
          (d \in watched["sync"] => <<"enforce", d>> \in queue'["sync"]) \/ Same("sync", d)
    /\ "sync" \in up /\ objs'[n] # objs[n] => <<"spec", n>> \in queue'["sync"]
    /\ \A d \in Digi : index'[d][n] = index[d][n]

(* A step that loses no request and leaves the syncer alone.               *)
LEMMA PostedBeside ==
    ASSUME IInv, NEW n \in SyncName, Posted("sync"), watched["sync"] \subseteq watched'["sync"],
           "sync" \in up' <=> "sync" \in up,
           "sync" \in up /\ objs'[n] # objs[n] => <<"spec", n>> \in queue'["sync"],
           \A d \in Digi : index'[d][n] = index[d][n]
    PROVE  Beside(n)
<1>1. \A req \in queue["sync"] : req \in Concerned(n) => req \in queue'["sync"]
  BY StoreAssumption, PostedStays DEF Posted, Concerned, NamesOf, Ctl
<1> QED
  BY <1>1 DEF Posted, Beside

(* After such a step the two sides are as they were, or a request is in    *)
(* the queue.                                                              *)
LEMMA BesideSees ==
    ASSUME IInv, NEW n \in SyncName, Bound(n), Beside(n), "sync" \in up', objs'[n] # NoSpec,
           ~ Wanted(n)'
    PROVE  /\ objs'[n] = objs[n] /\ ~ Wanted(n) /\ "sync" \in up /\ Tracked(n)
           /\ objs[n] \in Spec0 /\ objs[n].src \in Digi /\ objs[n].dst \in Digi
           /\ Same("sync", objs[n].src) /\ Same("sync", objs[n].dst)
<1>1. n \in Name /\ "sync" \in up /\ <<"spec", n>> \notin queue'["sync"]
  BY DEF Name, Beside, Wanted, Concerned
<1>2. objs'[n] = objs[n] /\ Concerned(n)' = Concerned(n)
  BY <1>1 DEF Beside, Concerned
<1>3. objs[n] \in Spec0 /\ objs[n].src \in Digi /\ objs[n].dst \in Digi
  BY <1>1, <1>2 DEF IInv, Types, Spec0
<1>4. ~ Wanted(n)
  BY <1>2 DEF Wanted, Beside
<1>5. Tracked(n)
  BY <1>1, <1>2, <1>4 DEF Bound, Wanted, Concerned
<1>6. \A d \in {objs[n].src, objs[n].dst} : Same("sync", d)
  BY <1>2, <1>3, <1>5 DEF Beside, Tracked, Wanted, Concerned
<1> QED
  BY <1>1, <1>2, <1>3, <1>4, <1>5, <1>6

(* The binding stays at home, filed and its write good.                    *)
LEMMA BesideFiles ==
    ASSUME IInv, NEW n \in SyncName, Bound(n), Beside(n), Putting(n)' => syn'.put = syn.put
    PROVE  /\ AtHome(n)'
           /\ "sync" \in up' /\ objs'[n] # NoSpec => <<"spec", n>> \in queue'["sync"] \/ Tracked(n)'
           /\ Putting(n)' => Wanted(n)' \/ Mends(n)'
<1>1. AtHome(n)'
  BY DEF Bound, AtHome, Beside
<1>2. ASSUME "sync" \in up', objs'[n] # NoSpec, <<"spec", n>> \notin queue'["sync"]
      PROVE  Tracked(n)'
  <2>1. n \in Name /\ "sync" \in up /\ objs'[n] = objs[n] /\ <<"spec", n>> \notin queue["sync"]
    BY <1>2 DEF Beside, Name, Concerned
  <2>2. objs[n].src \in Digi /\ objs[n].dst \in Digi /\ Tracked(n)
    BY <1>2, <2>1 DEF Bound, IInv, Types, Spec0
  <2> QED
    BY <2>1, <2>2 DEF Tracked, Beside
<1>3. ASSUME Putting(n)', ~ Wanted(n)' PROVE Mends(n)'
  <2>1. syn'.put = syn.put /\ syn.put # NoWrite /\ syn.put.of = n /\ syn.put.spec = objs'[n]
    BY <1>3 DEF Putting
  <2>2. "sync" \in up'
    BY <2>1 DEF IInv, DownIsEmpty, Beside
  <2>3. objs'[n] # NoSpec
    BY <2>1, StoreAssumption DEF IInv, Types, Worker, Put
  <2>4. /\ objs'[n] = objs[n] /\ ~ Wanted(n)
        /\ Same("sync", objs[n].src) /\ Same("sync", objs[n].dst)
    BY <1>3, <2>2, <2>3, BesideSees
  <2>5. Mends(n)
    BY <2>1, <2>4 DEF Bound, Putting
  <2> QED
    BY <2>1, <2>4, <2>5 DEF Mends, Same
<1> QED
  BY <1>1, <1>2, <1>3

(* Two sides that differ after such a step did so before, or are asked for. *)
LEMMA BesidePends ==
    ASSUME IInv, NEW n \in SyncName, Bound(n), Beside(n), "sync" \in up', n \notin masked,
           Off(n)', ~ Wanted(n)'
    PROVE  /\ objs'[n] = objs[n] /\ AtWork(n) /\ Off(n) /\ objs[n].src # objs[n].dst
           /\ objs[n] \in Spec0 /\ objs[n].src \in Digi /\ objs[n].dst \in Digi
           /\ Same("sync", objs[n].src) /\ Same("sync", objs[n].dst)
           /\ Concerned(n)' = Concerned(n)
<1>1. objs'[n] # NoSpec
  BY DEF Off
<1>2. /\ objs'[n] = objs[n] /\ ~ Wanted(n) /\ "sync" \in up
      /\ objs[n] \in Spec0 /\ objs[n].src \in Digi /\ objs[n].dst \in Digi
      /\ Same("sync", objs[n].src) /\ Same("sync", objs[n].dst)
  BY <1>1, BesideSees
<1>3. Off(n)
  BY <1>2 DEF Off, Same
<1>4. AtWork(n)
  BY <1>2, <1>3 DEF Bound, Beside
<1> QED
  BY <1>2, <1>3, <1>4 DEF Off, Concerned

(* A step that leaves the worker alone keeps the invariant.                *)
LEMMA BesideKeeps ==
    ASSUME IInv, NEW n \in SyncName, Bound(n), Beside(n), syn' = syn,
           masked \subseteq masked'
    PROVE  Bound(n)'
<1>1. /\ AtHome(n)'
      /\ "sync" \in up' /\ objs'[n] # NoSpec => <<"spec", n>> \in queue'["sync"] \/ Tracked(n)'
      /\ Putting(n)' => Wanted(n)' \/ Mends(n)'
  BY BesideFiles
<1>2. ASSUME "sync" \in up', n \notin masked', Off(n)', ~ Wanted(n)' PROVE AtWork(n)'
  <2>1. /\ objs'[n] = objs[n] /\ AtWork(n) /\ Concerned(n)' = Concerned(n)
        /\ Same("sync", objs[n].src) /\ Same("sync", objs[n].dst)
        /\ objs[n].src \in Digi /\ objs[n].dst \in Digi
    BY <1>2, BesidePends
  <2>2. n \in syn.todo => index'[syn.digi][n] = index[syn.digi][n]
    BY DEF IInv, WorkIsIndexed, Beside
  <2>3. Putting(n)' = Putting(n) /\ Mends(n)' = Mends(n) /\ Failing(n)' = Failing(n)
    BY <2>1 DEF Putting, Mends, Failing, Same
  <2>4. Mends(n) /\ syn.put.to \in fresh["sync"] => syn.put.to \in fresh'["sync"]
    BY <2>1 DEF Mends, Same
  <2> QED
    BY <2>1, <2>2, <2>3, <2>4 DEF AtWork
<1> QED
  BY <1>1, <1>2 DEF Bound

(* The policer's steps, whose index and queue are its own.                 *)
LEMMA PolicerBeside ==
    ASSUME IInv, MInv, NEW n \in SyncName, PolicyStep \/ PolicyCrash
    PROVE  Beside(n)
<1> USE StoreAssumption
<1>0. n \in Name /\ (\A m \in PolicyName : n \in Name \ {m}) /\ "policy" \in Ctl /\ "sync" \in Ctl
  BY DEF Name, Ctl
<1>1. ASSUME NEW m \in PolicyName, PolicyAdd(m) PROVE Beside(n)
  <2>1. CacheAdd("policy", m, objs[m]) /\ UNCHANGED <<digis, objs, up>>
    BY <1>1 DEF PolicyAdd, PolicyCacheAdd
  <2>2. objs[m] \in Spec0 /\ m \in NamesOf("policy")
    BY <1>1 DEF PolicyAdd, IInv, Types, NamesOf, Name
  <2>3. \A d \in Digi : index'[d][n] = index[d][n]
    BY <1>0, <2>1, <2>2, CacheAddFacts DEF IInv
  <2>4. queue'["sync"] = queue["sync"] /\ watched'["sync"] = watched["sync"]
    BY <2>1 DEF CacheAdd, IInv, Types, Ctl
  <2> QED
    BY <1>0, <2>1, <2>3, <2>4, DigisPosted, PostedBeside
<1>2. ASSUME NEW m \in PolicyName, PolicyGone(m) PROVE Beside(n)
  <2>1. CacheRemove(m) /\ UNCHANGED <<digis, objs, up, watched>>
    BY <1>2 DEF PolicyGone, PolicyCacheRemove, CacheRemove
  <2>2. \A d \in Digi : index'[d][n] = index[d][n]
    BY <1>0, <2>1, CacheRemoveFacts DEF IInv, Name
  <2>3. queue'["sync"] = queue["sync"]
    BY <1>2 DEF PolicyGone, PolDone, IInv, Types, Ctl
  <2> QED
    BY <1>0, <2>1, <2>2, <2>3, DigisPosted, PostedBeside
<1>3. ASSUME NEW m \in PolicyName, PolicyRead(m) PROVE Beside(n)
  <2>1. /\ UNCHANGED <<alive, attr, mounts, objs, up, queue, caches>>
        /\ fresh' = fresh \/ \E D : fresh' = [fresh EXCEPT !["policy"] = D]
    BY <1>3 DEF PolicyRead
  <2>2. fresh'["sync"] = fresh["sync"]
    BY <2>1 DEF MInv, Shapes, Reader, Ctl
  <2> QED
    BY <2>1, <2>2, PostedBeside DEF Posted, Same, caches
<1>4. CASE YieldSource \/ YieldTarget
  <2>1. /\ pol.spec.src \in Digi /\ pol.spec.dst \in Digi
        /\ UNCHANGED <<objs, up, caches>>
        /\ \/ WriteMounts("policy", pol.spec.src, pol.srcMounts)
           \/ WriteMounts("policy", pol.spec.dst, pol.dstMounts)
    BY <1>4 DEF YieldSource, YieldTarget, MInv, YieldIsCurrent, Spec0
  <2>2. Posted("sync")
    BY <1>0, <2>1, MountsPosted
  <2> QED
    BY <2>1, <2>2, PostedBeside DEF caches
<1>5. CASE YieldConflict \/ YieldLost \/ PolicyDone \/ PolicyStart \/ \E d \in Digi : PolicyEnforce(d)
  <2>1. UNCHANGED <<digis, objs, caches>> /\ ("sync" \in up' <=> "sync" \in up)
    BY <1>5 DEF YieldConflict, YieldLost, PolicyDone, PolicyStart, PolicyEnforce, store
  <2>2. queue'["sync"] = queue["sync"]
    BY <1>5 DEF YieldConflict, YieldLost, PolicyDone, PolicyStart, PolicyEnforce, PolDone, store, IInv, Types, Ctl
  <2> QED
    BY <1>0, <2>1, <2>2, DigisPosted, PostedBeside DEF caches
<1>6. CASE PolicyCrash
  <2>1. UNCHANGED <<digis, objs>> /\ ("sync" \in up' <=> "sync" \in up) /\ EmptyCaches("policy")
    BY <1>6 DEF PolicyCrash
  <2>2. queue'["sync"] = queue["sync"] /\ watched'["sync"] = watched["sync"]
    BY <1>6, <2>1 DEF PolicyCrash, EmptyCaches, IInv, Types, Ctl
  <2>3. \A d \in Digi : index'[d][n] = index[d][n]
    BY <1>0, <2>1 DEF EmptyCaches, NamesOf
  <2> QED
    BY <1>0, <2>1, <2>2, <2>3, DigisPosted, PostedBeside
<1> QED
  BY <1>1, <1>2, <1>3, <1>4, <1>5, <1>6 DEF PolicyStep

(* What calls do.                                                          *)
LEMMA CallBeside ==
    ASSUME IInv, MInv, NEW n \in SyncName, NEW b \in Client,
           ClientStep(b) \/ UpdateFails(b) \/ \E op, ks, d : DoMount(b, op, ks, d)
    PROVE  Beside(n)
<1>1. UNCHANGED <<objs, up, caches>>
  BY DEF ClientStep, Update, UpdateConflict, UpdateFails, DoMount, store
<1>2. Posted("sync")
  BY CallPosted DEF Ctl
<1> QED
  BY <1>1, <1>2, PostedBeside DEF caches

(* What users do.                                                          *)
LEMMA UserBeside ==
    ASSUME IInv, MInv, NEW n \in SyncName,
           \/ \E m \in SyncName : \E s \in Specs[m] : PipeCreate(m, s)
           \/ \E d \in Digi : Toggle(d) \/ \E v \in Val : Write(d, v)
           \/ \E m \in Name : Delete(m) \/ \E s \in Specs[m] : Apply(m, s)
           \/ \E m \in SyncName : Pipe(m) \/ Unpipe(m)
    PROVE  Beside(n)
<1>1. ASSUME NEW d \in Digi, Toggle(d) \/ \E v \in Val : Write(d, v) PROVE Beside(n)
  <2>1. Posted("sync") /\ UNCHANGED <<objs, up, caches>>
    BY <1>1, UserPosted DEF Toggle, Write, Ctl
  <2> QED
    BY <2>1, PostedBeside DEF caches
<1>2. ASSUME NEW m \in Name, NEW s, SetObj(m, s) PROVE Beside(n)
  <2>1. /\ UNCHANGED <<digis, up, caches>> /\ queue' = EnqueuedSpec(m)
        /\ objs' = [objs EXCEPT ![m] = s]
    BY <1>2 DEF SetObj
  <2>2. /\ queue["sync"] \subseteq queue'["sync"]
        /\ m = n /\ "sync" \in up => <<"spec", n>> \in queue'["sync"]
    BY <2>1 DEF EnqueuedSpec, NamesOf, Ctl
  <2>3. m # n => objs'[n] = objs[n]
    BY <2>1 DEF IInv, Types, Name
  <2>4. Posted("sync")
    BY <2>1, <2>2, DigisPosted DEF Ctl
  <2> QED
    BY <2>1, <2>2, <2>3, <2>4, PostedBeside DEF caches
<1>3. CASE UNCHANGED <<store, workers>>
  BY <1>3, DigisPosted, PostedBeside DEF store, caches, Ctl
<1> QED
  BY <1>1, <1>2, <1>3 DEF PipeCreate, Delete, Apply, Pipe, Unpipe, Name

-----------------------------------------------------------------------------
(* The syncer's own steps.                                                 *)

(* Between two requests nothing is in hand.                                *)
LEMMA IdleHoldsNothing ==
    ASSUME IInv, IsIdle(syn), NEW n \in SyncName
    PROVE  /\ ~ AtWork(n) /\ ~ Putting(n)
           /\ syn.put = NoWrite /\ syn.todo = {}
<1>1. <<>> \notin Concerned(n)
  BY DEF Concerned
<1> QED
  BY <1>1 DEF IsIdle, AtWork, Putting, IInv, DownIsEmpty

(* The worker that starts on a digi has all bindings in hand that are      *)
(* filed there.                                                            *)
LEMMA EnforceHolds ==
    ASSUME NEW req, NEW d \in Digi, Enforce(req, d, index'), NEW n \in SyncName
    PROVE  /\ ~ Putting(n)'
           /\ objs'[n] \in Spec0 /\ index'[d][n] = objs'[n] /\ req \in Concerned(n)' => AtWork(n)'
<1>0. \A m \in SyncName : m \in syn'.todo <=> index'[d][m] # NoSpec
  BY DEF Enforce, Idle
<1>1. syn'.req = req /\ syn'.digi = d /\ syn'.put = NoWrite
  BY DEF Enforce, Idle
<1>2. ~ Putting(n)'
  BY <1>1 DEF Putting
<1>3. ASSUME objs'[n] \in Spec0, index'[d][n] = objs'[n], req \in Concerned(n)' PROVE AtWork(n)'
  <2>1. n \in syn'.todo /\ index'[syn'.digi][n] = objs'[n]
    BY <1>0, <1>1, <1>3, StoreAssumption
  <2> QED
    BY <1>1, <1>3, <2>1 DEF AtWork
<1> QED
  BY <1>2, <1>3

(* A step between requests, or before one, that takes no request of the    *)
(* binding's.                                                              *)
LEMMA OtherKeeps ==
    ASSUME IInv, NEW n \in SyncName, Bound(n), IsIdle(syn), ~ Putting(n)',
           UNCHANGED <<digis, masked, up>>, objs'[n] = objs[n],
           \A d \in Digi : index'[d][n] = index[d][n],
           \A d : d \in watched["sync"] => d \in watched'["sync"],
           \A req \in queue["sync"] : req \in Concerned(n) => req \in queue'["sync"]
    PROVE  Bound(n)'
<1>1. ~ AtWork(n) /\ Concerned(n)' = Concerned(n) /\ Off(n)' = Off(n)
  BY IdleHoldsNothing DEF Concerned, Off, digis
<1>2. Wanted(n) => Wanted(n)'
  BY <1>1 DEF Wanted
<1>3. <<"spec", n>> \in queue["sync"] => <<"spec", n>> \in queue'["sync"]
  BY DEF Concerned
<1>4. objs[n] # NoSpec => objs[n].src \in Digi /\ objs[n].dst \in Digi
  BY DEF IInv, Types, Spec0, Name
<1>5. Tracked(n) /\ objs[n] # NoSpec => Tracked(n)'
  BY <1>4 DEF Tracked
<1>6. AtHome(n)'
  BY DEF Bound, AtHome
<1> QED
  BY <1>1, <1>2, <1>3, <1>5, <1>6 DEF Bound

(* doSync of a binding that is there.                                      *)
LEMMA AddBinds ==
    ASSUME IInv, MInv, NEW n \in SyncName, Bound(n), NEW m \in SyncName, SyncAdd(m)
    PROVE  Bound(n)'
<1> USE StoreAssumption
<1> DEFINE s == objs[m]
<1>1. /\ IsIdle(syn) /\ CacheAdd("sync", m, s) /\ UNCHANGED <<digis, objs, up, masked>>
      /\ IF WatchesBoth("sync", s) THEN Enforce(<<"spec", m>>, s.src, index') ELSE UNCHANGED syn
      /\ s # NoSpec
  BY DEF SyncAdd, Take
<1>2. /\ s \in Spec0 /\ s.src \in Digi /\ s.dst \in Digi /\ m \in NamesOf("sync") /\ "sync" \in Ctl
      /\ m \in Name /\ n \in Name
  BY <1>1 DEF IInv, Types, NamesOf, Name, Ctl, Spec0
<1>3. /\ \A d \in Digi, k \in Name \ {m} : index'[d][k] = index[d][k]
      /\ \A d \in Digi : index'[d][m] \in {index[d][m]} \cup (IF d \in {s.src, s.dst} THEN {s} ELSE {})
  BY <1>1, <1>2, CacheAddFacts DEF IInv
<1>4. /\ watched["sync"] \subseteq watched'["sync"]
      /\ \A req \in queue["sync"] : req \in queue'["sync"] \/ req = <<"spec", m>>
      /\ IF WatchesBoth("sync", s)
         THEN /\ index'[s.src][m] = s /\ index'[s.dst][m] = s
              /\ {s.src, s.dst} \subseteq watched'["sync"]
         ELSE index' = index /\ queue["sync"] \subseteq queue'["sync"]
  BY <1>1, <1>2, CacheAddFiles
<1>5. ~ Putting(n)'
  <2>1. CASE WatchesBoth("sync", s)
    BY <1>1, <1>2, <2>1, EnforceHolds
  <2>2. CASE ~ WatchesBoth("sync", s)
    BY <1>1, <2>2, IdleHoldsNothing DEF Putting
  <2> QED
    BY <2>1, <2>2
<1>6. CASE n # m \/ ~ WatchesBoth("sync", s)
  <2>1. \A d \in Digi : index'[d][n] = index[d][n]
    BY <1>2, <1>3, <1>4, <1>6
  <2>2. \A req \in queue["sync"] : req \in Concerned(n) => req \in queue'["sync"]
    BY <1>4, <1>6 DEF Concerned
  <2> QED
    BY <1>1, <1>4, <1>5, <2>1, <2>2, OtherKeeps
<1>7. CASE n = m /\ WatchesBoth("sync", s)
  <2>1. Tracked(n)'
    BY <1>1, <1>4, <1>7 DEF Tracked
  <2>2. AtHome(n)'
    BY <1>2, <1>3, <1>7 DEF Bound, AtHome
  <2>3. <<"spec", n>> \in Concerned(n)'
    BY DEF Concerned
  <2>4. AtWork(n)'
    BY <1>1, <1>2, <1>4, <1>7, <2>3, EnforceHolds
  <2> QED
    BY <1>5, <2>1, <2>2, <2>4 DEF Bound
<1> QED
  BY <1>6, <1>7

(* doEnforce starts on a digi.                                             *)
LEMMA EnforceBinds ==
    ASSUME IInv, MInv, NEW n \in SyncName, Bound(n), NEW d \in Digi, SyncEnforce(d)
    PROVE  Bound(n)'
<1> USE StoreAssumption
<1>1. /\ IsIdle(syn) /\ "sync" \in up /\ Done(<<"enforce", d>>)
      /\ Enforce(<<"enforce", d>>, d, index')
      /\ UNCHANGED <<digis, objs, up, masked, index, watched>>
  BY DEF SyncEnforce, Take, caches, Enforce
<1>2. \A req \in queue["sync"] : req \in queue'["sync"] \/ req = <<"enforce", d>>
  BY <1>1 DEF Done, IInv, Types, Ctl
<1>3. ~ Putting(n)'
  BY <1>1, EnforceHolds
<1>4. CASE <<"enforce", d>> \notin Concerned(n)
  BY <1>1, <1>2, <1>3, <1>4, OtherKeeps
<1>5. CASE <<"enforce", d>> \in Concerned(n)
  <2>1. AtHome(n)'
    BY <1>1 DEF Bound, AtHome
  <2>2. objs[n] # NoSpec => <<"spec", n>> \in queue'["sync"] \/ Tracked(n)'
    BY <1>1, <1>2 DEF Bound, Tracked
  <2>3. ASSUME Off(n)', ~ Wanted(n)' PROVE AtWork(n)'
    <3>1. objs'[n] \in Spec0
      BY <1>1, <2>3 DEF Off, IInv, Types, Name
    <3>2. Tracked(n)'
      BY <1>1, <2>2, <2>3, <3>1 DEF Wanted, Concerned
    <3>3. index'[d][n] = objs'[n]
      BY <1>1, <1>5, <3>2 DEF Tracked, Concerned
    <3> QED
      BY <1>1, <1>5, <3>1, <3>3, EnforceHolds DEF Concerned
  <2> QED
    BY <1>1, <1>3, <2>1, <2>2, <2>3 DEF Bound
<1> QED
  BY <1>4, <1>5

(* doSync of a binding that is gone.                                       *)
LEMMA GoneBinds ==
    ASSUME IInv, MInv, NEW n \in SyncName, Bound(n), NEW m \in SyncName, SyncGone(m)
    PROVE  Bound(n)'
<1> USE StoreAssumption
<1>1. /\ IsIdle(syn) /\ objs[m] = NoSpec /\ CacheRemove(m)
      /\ UNCHANGED <<alive, mounts, objs, up, syn, masked, watched>>
  BY DEF SyncGone, Take, CacheRemove, syncVars
<1>2. m \in Name /\ n \in Name /\ "sync" \in Ctl
  BY DEF Name, Ctl
<1>3. /\ \A d \in Digi, k \in Name \ {m} : index'[d][k] = index[d][k]
      /\ \A d \in Digi : index'[d][m] \in {NoSpec, index[d][m]}
  BY <1>1, <1>2, CacheRemoveFacts DEF IInv
<1>4. CASE n = m
  <2>1. AtHome(n)'
    BY <1>3, <1>4 DEF Bound, AtHome
  <2>2. ~ Putting(n)'
    BY <1>1, IdleHoldsNothing DEF Putting
  <2> QED
    BY <1>1, <1>4, <2>1, <2>2 DEF Bound, Off
<1>5. CASE n # m
  <2>1. /\ \A req \in queue["sync"] : req \in queue'["sync"] \/ req = <<"spec", m>>
        /\ \A d \in Digi :
              (d \in watched["sync"] => <<"enforce", d>> \in queue'["sync"]) \/ Same("sync", d)
    <3>1. CASE UNCHANGED <<attr, fresh>> /\ Done(<<"spec", m>>)
      BY <1>1, <1>2, <3>1 DEF Done, Same, IInv, Types
    <3>2. ASSUME NEW d \in ToClear(m),
                 /\ attr' = [attr EXCEPT ![d] = None]
                 /\ fresh' = IF attr[d] = None THEN fresh
                             ELSE [r \in Reader |-> fresh[r] \ {d}]
                 /\ queue' = [c \in Ctl |->
                       (IF attr[d] = None THEN queue ELSE Enqueued(d))[c] \ {<<"spec", m>>}]
          PROVE  <2>1
      <4>1. d \in Digi
        BY DEF ToClear, GetObj, IInv, Types
      <4>2. \A req \in queue["sync"] : req \in queue'["sync"] \/ req = <<"spec", m>>
        BY <1>2, <3>2 DEF Enqueued
      <4>3. CASE attr[d] = None
        <5>1. UNCHANGED <<attr, fresh>>
          BY <3>2, <4>3 DEF IInv, Types
        <5> QED
          BY <1>1, <4>2, <5>1 DEF Same
      <4>4. CASE attr[d] # None
        <5>1. d \in watched["sync"] => <<"enforce", d>> \in queue'["sync"]
          BY <1>2, <3>2, <4>4 DEF Enqueued
        <5>2. \A e \in Digi \ {d} : Same("sync", e)
          BY <1>1, <3>2, <4>4 DEF Same, IInv, Types, MInv, Shapes, Reader, Ctl
        <5> QED
          BY <4>2, <5>1, <5>2
      <4> QED
        BY <4>3, <4>4
    <3> QED
      BY <3>1, <3>2 DEF SyncGone
  <2>2. Beside(n)
    <3>1. \A req \in queue["sync"] : req \in Concerned(n) => req \in queue'["sync"]
      BY <1>5, <2>1 DEF Concerned
    <3> QED
      BY <1>1, <1>2, <1>3, <1>5, <2>1, <3>1 DEF Beside
  <2> QED
    BY <1>1, <2>2, BesideKeeps
<1> QED
  BY <1>4, <1>5

(* doEnforce reads the two sides of a binding.                             *)
LEMMA ReadBinds ==
    ASSUME IInv, MInv, BInv, NEW n \in SyncName, NEW m \in SyncName, SyncRead(m)
    PROVE  Bound(n)'
<1> USE StoreAssumption
<1> DEFINE s == index[syn.digi][m]
           w == Direction(s, syn.digi)
           ok == s.src \in alive /\ s.dst \in alive /\ attr[w.from] # None
<1>1. /\ m \in syn.todo /\ syn.put = NoWrite
      /\ UNCHANGED <<alive, attr, objs, up, queue, caches, masked>>
      /\ syn' = [syn EXCEPT !.todo = @ \ {m}, !.err = ~ ok,
                 !.put = IF ok THEN [of |-> m, spec |-> s, to |-> w.to, val |-> attr[w.from]]
                         ELSE NoWrite]
      /\ ok => fresh' = [fresh EXCEPT !["sync"] = {w.to}]
  BY DEF SyncRead, GetObj, GetAttr
<1>2. /\ syn'.todo = syn.todo \ {m} /\ syn'.err = ~ ok /\ syn'.digi = syn.digi
      /\ syn'.req = syn.req /\ syn'.lost = syn.lost
  BY <1>1 DEF IInv, Types, Worker
<1>3. /\ ~ ok => syn'.put = NoWrite
      /\ ok => /\ syn'.put.of = m /\ syn'.put.spec = s /\ syn'.put # NoWrite
               /\ syn'.put.to = w.to /\ syn'.put.val = attr[w.from]
               /\ w.to \in fresh'["sync"]
  <2>1. ~ ok => syn'.put = NoWrite
    BY <1>1 DEF IInv, Types, Worker
  <2>2. ASSUME ok PROVE syn'.put = [of |-> m, spec |-> s, to |-> w.to, val |-> attr[w.from]]
    BY <1>1, <2>2 DEF IInv, Types, Worker
  <2>3. ASSUME ok PROVE w.to \in fresh'["sync"]
    BY <1>1, <2>3 DEF MInv, Shapes, Reader, Ctl
  <2>4. ASSUME ok PROVE syn'.put # NoWrite
    <3>1. [of |-> m, spec |-> s, to |-> w.to, val |-> attr[w.from]].of # NoWrite.of
      BY DEF NoWrite, Name
    <3> QED
      BY <2>2, <2>4, <3>1
  <2> QED
    BY <2>1, <2>2, <2>3, <2>4
<1>4. /\ s \in Spec0 /\ syn.digi \in {s.src, s.dst}
      /\ w.from \in {s.src, s.dst} /\ w.to \in {s.src, s.dst}
      /\ w.from = s.src => w.to = s.dst
      /\ w.from # s.src => w.from = s.dst /\ w.to = s.src /\ syn.digi = s.dst
  <2>1. syn.digi \in Digi /\ s # NoSpec /\ s \in Spec0
    BY <1>1 DEF IInv, WorkIsIndexed, Types, Name
  <2>2. syn.digi \in {s.src, s.dst}
    BY <2>1 DEF BInv, Bound, AtHome
  <2> QED
    BY <2>1, <2>2 DEF Direction
<1> HIDE DEF s, w, ok
<1>5. Putting(n)' => n = m /\ s = objs[n] /\ ok /\ Mends(n)'
  <2> SUFFICES ASSUME Putting(n)' PROVE n = m /\ s = objs[n] /\ ok /\ Mends(n)'
    OBVIOUS
  <2>1. ok /\ n = m /\ s = objs[n]
    BY <1>1, <1>3 DEF Putting
  <2> QED
    BY <1>1, <1>3, <1>4, <2>1 DEF Mends
<1>6. /\ AtHome(n)'
      /\ "sync" \in up' /\ objs'[n] # NoSpec => <<"spec", n>> \in queue'["sync"] \/ Tracked(n)'
  BY <1>1 DEF BInv, Bound, AtHome, Tracked, caches
<1>7. ASSUME "sync" \in up, n \notin masked, Off(n), ~ Wanted(n) PROVE AtWork(n)'
  <2>1. AtWork(n) /\ Concerned(n)' = Concerned(n)
    BY <1>1, <1>7 DEF BInv, Bound, Concerned
  <2>2. syn'.req \in Concerned(n)'
    BY <1>2, <2>1 DEF AtWork
  <2>3. CASE n \in syn.todo /\ index[syn.digi][n] = objs[n] /\ n # m
    BY <1>1, <1>2, <2>2, <2>3 DEF AtWork, caches
  <2>4. CASE index[syn.digi][n] = objs[n] /\ n = m /\ ok
    <3>1. Putting(n)'
      BY <1>1, <1>3, <2>4 DEF Putting, s
    <3>2. Mends(n)'
      BY <1>5, <3>1
    <3> QED
      BY <1>3, <2>2, <2>4, <3>1, <3>2 DEF AtWork
  <2>5. CASE index[syn.digi][n] = objs[n] /\ n = m /\ ~ ok
    <3>1. s = objs[n]
      BY <2>5 DEF s
    <3>2. attr[w.from] = None /\ attr[s.src] # None
      BY <1>7, <2>5, <3>1 DEF Off, ok
    <3>3. syn.digi = s.dst /\ attr[s.dst] = None
      BY <1>4, <3>2
    <3>4. Failing(n)'
      BY <1>1, <1>2, <2>5, <3>1, <3>3 DEF Failing
    <3> QED
      BY <2>2, <3>4 DEF AtWork
  <2>6. CASE n \in syn.lost
    BY <1>2, <2>2, <2>6 DEF AtWork
  <2>7. CASE Failing(n)
    <3>1. syn.digi = objs[n].dst /\ attr[syn.digi] = None
      BY <2>7 DEF Failing
    <3>2. CASE ok
      <4>1. attr[w.from] # None
        BY <3>2 DEF ok
      <4>2. w.to = syn.digi
        BY <1>4, <3>1, <4>1
      <4>3. Failing(n)'
        BY <1>1, <1>2, <1>3, <3>1, <3>2, <4>1, <4>2 DEF Failing
      <4> QED
        BY <2>2, <4>3 DEF AtWork
    <3>3. CASE ~ ok
      <4>1. Failing(n)'
        BY <1>1, <1>2, <3>1, <3>3 DEF Failing
      <4> QED
        BY <2>2, <4>1 DEF AtWork
    <3> QED
      BY <3>2, <3>3
  <2> QED
    BY <1>1, <2>1, <2>3, <2>4, <2>5, <2>6, <2>7 DEF AtWork, Putting
<1>8. (Off(n)' <=> Off(n)) /\ (Wanted(n)' <=> Wanted(n))
  BY <1>1 DEF Off, Wanted, Concerned
<1> QED
  BY <1>1, <1>5, <1>6, <1>7, <1>8 DEF Bound

(* The Update of the target.                                               *)
LEMMA WriteBinds ==
    ASSUME IInv, MInv, NEW n \in SyncName, Bound(n), SyncWrite
    PROVE  Bound(n)'
<1> USE StoreAssumption
<1> DEFINE w == syn.put
           by == IF w.spec.mode = "match" THEN w.of ELSE Nothing
<1>1. /\ w # NoWrite /\ w.to \in fresh["sync"] /\ w.to \in Digi
      /\ WriteAttr("sync", w.to, w.val, by)
      /\ UNCHANGED <<objs, up, caches>>
      /\ masked' = IF w.spec = objs[w.of] THEN masked \ {w.of} ELSE masked
  BY DEF SyncWrite, IInv, Types
<1>2. /\ syn'.put = NoWrite /\ syn'.todo = syn.todo /\ syn'.err = syn.err
      /\ syn'.digi = syn.digi /\ syn'.req = syn.req /\ syn'.lost = syn.lost
  BY DEF SyncWrite, IInv, Types, Worker
<1>3. Posted("sync")
  BY <1>1, AttrPosted DEF Ctl
<1>4. Beside(n)
  BY <1>1, <1>3, PostedBeside DEF caches
<1>5. ~ Putting(n)'
  BY <1>2 DEF Putting
<1>6. attr' = [attr EXCEPT ![w.to] = w.val] /\ attr'[w.to] = w.val
  BY <1>1 DEF WriteAttr, IInv, Types
<1>7. ASSUME "sync" \in up', n \notin masked', Off(n)', ~ Wanted(n)' PROVE AtWork(n)'
  <2>1. CASE Putting(n)
    <3>1. objs'[n] = objs[n] /\ ~ Wanted(n) /\ Same("sync", objs[n].src) /\ Same("sync", objs[n].dst)
      BY <1>4, <1>7, BesideSees DEF Off
    <3>2. Mends(n)
      BY <2>1, <3>1 DEF Bound
    <3> QED
      BY <1>6, <1>7, <3>1, <3>2 DEF Mends, Same, Off
  <2>2. CASE ~ Putting(n)
    <3>1. n \notin masked
      BY <1>1, <1>7, <2>2 DEF Putting
    <3>2. /\ objs'[n] = objs[n] /\ AtWork(n) /\ Concerned(n)' = Concerned(n)
          /\ Same("sync", objs[n].dst)
      BY <1>4, <1>7, <3>1, BesidePends
    <3>3. Failing(n) => syn.err
      BY <1>6, <3>2 DEF Failing, Same
    <3> QED
      BY <1>1, <1>2, <2>2, <3>2, <3>3 DEF AtWork, Failing, Same, caches
  <2> QED
    BY <2>1, <2>2
<1> QED
  BY <1>4, <1>5, <1>7, BesideFiles DEF Bound

(* An Update that is refused, or lost, and the end of a request.           *)
LEMMA EndBinds ==
    ASSUME IInv, MInv, NEW n \in SyncName, Bound(n), SyncConflict \/ SyncFails \/ SyncDone
    PROVE  Bound(n)'
<1> USE StoreAssumption
<1>1. /\ UNCHANGED <<digis, objs, up, caches>> /\ masked \subseteq masked'
      /\ queue["sync"] \subseteq queue'["sync"] /\ syn'.put = NoWrite
  <2>1. CASE SyncConflict \/ SyncFails
    <3>1. /\ UNCHANGED <<digis, objs, up, caches, masked, queue>>
          /\ \/ syn' = [syn EXCEPT !.put = NoWrite, !.err = TRUE]
             \/ syn' = [syn EXCEPT !.put = NoWrite, !.err = TRUE, !.lost = @ \cup {syn.put.of}]
      BY <2>1 DEF SyncConflict, SyncFails, store
    <3>2. syn'.put = NoWrite
      BY <3>1 DEF IInv, Types, Worker
    <3> QED
      BY <3>1, <3>2
  <2>2. CASE SyncDone
    <3>1. syn' = Idle /\ UNCHANGED <<digis, objs, up, caches>> /\ masked \subseteq masked'
      BY <2>2 DEF SyncDone
    <3>2. queue["sync"] \subseteq queue'["sync"]
      BY <2>2 DEF SyncDone, IInv, Types, Ctl
    <3> QED
      BY <3>1, <3>2 DEF Idle
  <2> QED
    BY <2>1, <2>2
<1>2. Beside(n)
  BY <1>1, DigisPosted, PostedBeside DEF caches, Ctl
<1>3. ~ Putting(n)'
  BY <1>1 DEF Putting
<1>4. ASSUME "sync" \in up', n \notin masked', Off(n)', ~ Wanted(n)' PROVE AtWork(n)'
  <2>1. /\ objs'[n] = objs[n] /\ AtWork(n) /\ Concerned(n)' = Concerned(n) /\ Off(n)
    BY <1>1, <1>2, <1>4, BesidePends
  <2>2. CASE SyncConflict \/ SyncFails
    <3>1. /\ syn.put # NoWrite /\ syn'.todo = syn.todo /\ syn'.err = TRUE
          /\ syn'.digi = syn.digi /\ syn'.req = syn.req /\ syn.lost \subseteq syn'.lost
          /\ \/ syn.put.to \notin fresh["sync"] \cap alive
             \/ syn'.lost = syn.lost \cup {syn.put.of}
      <4>1. CASE SyncConflict
        BY <4>1 DEF SyncConflict, IInv, Types, Worker
      <4>2. CASE SyncFails
        BY <4>2 DEF SyncFails, IInv, Types, Worker
      <4> QED
        BY <2>2, <4>1, <4>2
    <3>2. CASE Putting(n) /\ Mends(n) /\ syn.put.to \in fresh["sync"]
      <4>1. syn.put.to \in alive
        BY <2>1, <3>2 DEF Mends, Off
      <4>2. n \in syn'.lost
        BY <3>1, <3>2, <4>1 DEF Putting
      <4> QED
        BY <2>1, <3>1, <4>2 DEF AtWork
    <3>3. CASE ~ (Putting(n) /\ Mends(n) /\ syn.put.to \in fresh["sync"])
      BY <1>1, <2>1, <3>1, <3>3 DEF AtWork, Failing, caches, digis
    <3> QED
      BY <3>2, <3>3
  <2>3. CASE SyncDone
    <3>1. /\ syn.todo = {} /\ syn.put = NoWrite
          /\ syn.err => syn.req \in queue'["sync"]
          /\ ~ syn.err => syn.lost \subseteq masked'
      BY <2>3 DEF SyncDone, SyncEnds, IInv, Types, Ctl
    <3>2. n \in syn.lost \/ syn.err
      BY <2>1, <3>1 DEF AtWork, Putting, Failing
    <3>3. syn.err
      BY <1>4, <3>1, <3>2
    <3> QED
      BY <1>4, <2>1, <3>1, <3>3 DEF AtWork, Wanted
  <2> QED
    BY <2>2, <2>3
<1> QED
  BY <1>2, <1>3, <1>4, BesideFiles DEF Bound

(* The process.                                                            *)
LEMMA ProcessBinds ==
    ASSUME IInv, MInv, NEW n \in SyncName, Bound(n), SyncCrash \/ SyncStart
    PROVE  Bound(n)'
<1> USE StoreAssumption
<1>0. n \in Name
  BY DEF Name
<1>1. CASE SyncCrash
  <2>1. "sync" \notin up' /\ syn'.put = NoWrite /\ \A d \in Digi : index'[d][n] = NoSpec
    BY <1>0, <1>1 DEF SyncCrash, EmptyCaches, NamesOf, Idle
  <2> QED
    BY <2>1 DEF Bound, AtHome, Putting
<1>2. CASE SyncStart
  <2>1. /\ "sync" \notin up /\ UNCHANGED <<objs, index, syn>>
        /\ objs[n] # NoSpec => <<"spec", n>> \in queue'["sync"]
    BY <1>2 DEF SyncStart, IInv, Types, Ctl, syncVars, caches
  <2>2. ~ Putting(n)'
    BY <2>1 DEF IInv, DownIsEmpty, Putting
  <2>3. Off(n)' => Wanted(n)'
    BY <2>1 DEF Off, Wanted, Concerned
  <2> QED
    BY <2>1, <2>2, <2>3 DEF Bound, AtHome
<1> QED
  BY <1>1, <1>2

-----------------------------------------------------------------------------

(* The invariant of the bindings is inductive, given those of the syncer   *)
(* and of the mounts.                                                      *)
THEOREM BindingsInvariant == Spec => []BInv
<1>1. Init => BInv
  <2> SUFFICES ASSUME Init, NEW n \in SyncName PROVE Bound(n)
    BY DEF BInv
  <2>1. /\ "sync" \notin up /\ syn = Idle /\ \A d \in Digi : index[d][n] = NoSpec
    BY DEF Init, Name
  <2> QED
    BY <2>1 DEF Bound, AtHome, Putting, Idle
<1>2. IInv /\ MInv /\ BInv /\ [Next]_vars => BInv'
  <2> SUFFICES ASSUME IInv, MInv, BInv, [Next]_vars, NEW n \in SyncName PROVE Bound(n)'
    BY DEF BInv
  <2>0. Bound(n)
    BY DEF BInv
  <2>1. CASE Syncer
    BY <2>0, <2>1, AddBinds, GoneBinds, ReadBinds, EnforceBinds, WriteBinds, EndBinds, ProcessBinds
    DEF Syncer, SyncStep
  <2>2. CASE Policer
    BY <2>0, <2>2, PolicerBeside, BesideKeeps DEF Policer, syncVars
  <2>3. ASSUME NEW c \in Client, Caller(c) PROVE Bound(n)'
    BY <2>0, <2>3, CallBeside, BesideKeeps DEF Caller, syncVars
  <2>4. CASE Failure
    BY <2>0, <2>4, EndBinds, CallBeside, BesideKeeps DEF Failure, syncVars
  <2>5. CASE Crash
    BY <2>0, <2>5, ProcessBinds, PolicerBeside, BesideKeeps DEF Crash, syncVars
  <2>6. CASE Users
    <3>1. ASSUME NEW c \in Client, NEW m \in MountArgs, Mount(c, m),
                 UNCHANGED <<syncVars, spoiled, pol, dropped, rest>>
          PROVE  Bound(n)'
      <4>1. Beside(n)
        BY <3>1, CallBeside DEF Mount
      <4> QED
        BY <2>0, <3>1, <4>1, BesideKeeps DEF syncVars
    <3>2. ASSUME \/ \E m \in SyncName : \E s \in Specs[m] : PipeCreate(m, s)
                 \/ \E d \in Digi : Toggle(d) \/ \E v \in Val : Write(d, v)
                 \/ \E m \in Name : Delete(m) \/ \E s \in Specs[m] : Apply(m, s)
                 \/ \E m \in SyncName : Pipe(m) \/ Unpipe(m)
          PROVE  Bound(n)'
      <4>1. Beside(n)
        BY <3>2, UserBeside
      <4>2. syn' = syn /\ masked' = masked
        BY <3>2 DEF PipeCreate, Toggle, Write, Delete, Apply, Pipe, Unpipe, SetObj, workers, syncVars
      <4> QED
        BY <2>0, <4>1, <4>2, BesideKeeps
    <3> QED
      BY <2>6, <3>1, <3>2 DEF Users
  <2>7. CASE UNCHANGED vars
    <3>1. UNCHANGED <<digis, objs, up, queue, caches, syn, masked>>
      BY <2>7 DEF vars, store, workers, syncVars
    <3>2. Beside(n)
      BY <3>1, DigisPosted, PostedBeside DEF caches, Ctl
    <3> QED
      BY <2>0, <3>1, <3>2, BesideKeeps
  <2> QED
    BY <2>1, <2>2, <2>3, <2>4, <2>5, <2>6, <2>7 DEF Next
<1> QED
  BY <1>1, <1>2, SpaceInvariant, MountsInvariant, PTL DEF Spec

(* When no request of the syncer concerns a binding, its target has the    *)
(* value of its source, or no read or write of it is possible, or a write  *)
(* of it was lost with nothing left to repeat it: however users, policies, *)
(* other bindings and restarts come in between, for any number of bindings *)
(* that share digis and go in circles (doSync and doEnforce lose no        *)
(* change).                                                                *)
THEOREM BindingsSettleTheorem == Spec => []BindingsSettle
<1>1. BInv => BindingsSettle
  <2> SUFFICES ASSUME BInv, NEW n \in SyncName, "sync" \in up, objs[n] # NoSpec, n \notin masked,
                      objs[n].src \in alive, objs[n].dst \in alive, attr[objs[n].src] # None,
                      (queue["sync"] \cup {syn.req}) \cap Concerned(n) = {}
               PROVE  attr[objs[n].dst] = attr[objs[n].src]
    BY DEF BindingsSettle
  <2>1. ~ Wanted(n) /\ ~ AtWork(n)
    BY DEF Wanted, AtWork
  <2>2. Bound(n)
    BY DEF BInv
  <2> QED
    BY <2>1, <2>2 DEF Bound, Off
<1> QED
  BY <1>1, BindingsInvariant, PTL

-----------------------------------------------------------------------------
(* The types of what is not the syncer's.                                  *)

MountMap == [Digi -> {"none", "active", "inactive"}]

BoundsOK ==
    /\ fails \in Nat /\ ops \in Nat /\ crashes \in Nat
    /\ piping \subseteq SyncName /\ masked \subseteq SyncName /\ dropped \subseteq PolicyName

\* A controller that is down hears nothing.
DownIsDeaf == \A c \in Ctl \ up : queue[c] = {} /\ watched[c] = {}

PolWorker == [st : {"idle", "loop", "source", "target"}, todo : SUBSET PolicyName,
              digi : Digi \cup {Nothing}, of : PolicyName \cup {Nothing},
              spec : Spec0 \cup {NoSpec},
              srcMounts : MountMap \cup {<<>>}, dstMounts : MountMap \cup {<<>>}]

\* A policy whose yield is under way has its mounts ready.
YieldOK ==
    /\ pol \in PolWorker
    /\ pol.st \in {"source", "target"} =>
          pol.of \in PolicyName /\ pol.srcMounts \in MountMap /\ pol.dstMounts \in MountMap

CallType == [target : Digi \cup {Nothing}, srcs : SUBSET Digi,
             mounts : MountMap \cup {<<>>}, tries : Nat]

\* A call under way has a try left.
CallOK(c) ==
    /\ call[c] \in CallType
    /\ call[c] # NoCall => call[c].tries \in 1 .. NumRetry + 1 /\ call[c].mounts \in MountMap

TInv ==
    /\ BoundsOK /\ DownIsDeaf /\ YieldOK /\ mounts \in [Digi -> MountMap]
    /\ \A c \in Client : CallOK(c)

(* Faults and users use up their bounds.                                   *)
LEMMA BoundsKept == ASSUME IInv, MInv, TInv, [Next]_vars PROVE BoundsOK'
<1> USE DEF TInv, BoundsOK
<1>0. fails' = fails \/ MayFail => fails' \in Nat
  BY DEF MayFail
<1>1. CASE Syncer
  <2>1. fails' = fails \/ MayFail
    BY <1>1, Zenon DEF Syncer, SyncStep, SyncAdd, SyncGone, SyncEnforce, SyncRead, SyncWrite, SyncConflict,
                SyncDone, SyncStart
  <2>2. masked' \subseteq SyncName
    <3>1. masked' \subseteq masked \cup syn.lost
      BY <1>1 DEF Syncer, SyncStep, SyncAdd, SyncGone, SyncEnforce, SyncRead, SyncWrite, SyncConflict,
                  SyncDone, SyncStart, syncVars
    <3> QED
      BY <3>1 DEF IInv, Types, Worker
  <2> QED
    BY <1>0, <1>1, <2>1, <2>2 DEF Syncer, rest
<1>2. CASE Policer
  <2>1. fails' = fails \/ MayFail
    BY <1>2, Zenon DEF Policer, PolicyStep, PolicyAdd, PolicyGone, PolicyEnforce, PolicyRead, YieldSource,
                YieldTarget, YieldConflict, YieldLost, PolicyDone, PolicyStart
  <2>2. dropped' = dropped \/ YieldLost
    BY <1>2 DEF Policer, PolicyStep, PolicyAdd, PolicyGone, PolicyEnforce, PolicyRead, YieldSource,
                YieldTarget, YieldConflict, PolicyDone, PolicyStart
  <2>3. YieldLost => dropped' \subseteq PolicyName
    BY DEF YieldLost, YieldOK
  <2> QED
    BY <1>0, <1>2, <2>1, <2>2, <2>3 DEF Policer, rest, syncVars
<1>3. ASSUME NEW c \in Client, Caller(c) PROVE BoundsOK'
  BY <1>3 DEF Caller, ClientStep, Update, UpdateConflict, rest, syncVars
<1>4. CASE Failure
  BY <1>4 DEF Failure, SyncFails, UpdateFails, MayFail, rest, syncVars
<1>5. CASE Crash
  <2>1. PolicyCrash => dropped' \subseteq PolicyName
    BY DEF PolicyCrash, YieldOK
  <2> QED
    BY <1>5, <2>1 DEF Crash, SyncCrash, PolicyCrash, syncVars
<1>6. CASE Users
  <2>1. ops' \in Nat
    BY <1>6 DEF Users, PipeCreate, Toggle, Write, Delete, Apply, Pipe, Unpipe, Mount, User
  <2>2. piping' \subseteq SyncName /\ crashes' = crashes
    BY <1>6 DEF Users, PipeCreate, Toggle, Write, Delete, Apply, Pipe, Unpipe, rest
  <2>3. UNCHANGED <<fails, masked, dropped>>
    BY <1>6 DEF Users, PipeCreate, Toggle, Write, Delete, Apply, Pipe, Unpipe, Mount, DoMount,
                SetObj, workers, syncVars
  <2> QED
    BY <2>1, <2>2, <2>3
<1>7. CASE UNCHANGED vars
  BY <1>7 DEF vars, workers, rest
<1> QED
  BY <1>1, <1>2, <1>3, <1>4, <1>5, <1>6, <1>7 DEF Next

(* The events of others leave the queue of a controller that is down empty. *)
LEMMA DeafKept == ASSUME IInv, MInv, TInv, [Next]_vars PROVE DownIsDeaf'
<1> USE DEF IInv, Types
<1>0. /\ \A c \in Ctl \ up : /\ queue[c] = {} /\ watched[c] = {}
                             /\ \A d : Enqueued(d)[c] = {}
                             /\ \A n : EnqueuedSpec(n)[c] = {}
      /\ "sync" \in Ctl /\ "policy" \in Ctl
  BY DEF TInv, DownIsDeaf, Enqueued, EnqueuedSpec, Ctl
<1>1. ASSUME up' = up, watched' = watched, NEW c \in Ctl, c \in up,
             \A b \in Ctl \ {c} : queue'[b] = queue[b]
      PROVE  DownIsDeaf'
  BY <1>0, <1>1 DEF DownIsDeaf
<1>2. ASSUME up' = up, watched' = watched, queue' = queue \/ \E d : queue' = Enqueued(d)
      PROVE  DownIsDeaf'
  BY <1>0, <1>2 DEF DownIsDeaf
<1>3. ASSUME up' = up, NEW c \in Ctl, c \in up, NEW n, NEW s, CacheAdd(c, n, s) PROVE DownIsDeaf'
  <2>1. \A b \in Ctl \ {c} : queue'[b] = queue[b] /\ watched'[b] = watched[b]
    BY <1>3 DEF CacheAdd
  <2> QED
    BY <1>0, <1>3, <2>1 DEF DownIsDeaf
<1>4. ASSUME NEW c \in Ctl, NEW req, queue' = [queue EXCEPT ![c] = @ \ {req}],
             up' = up, watched' = watched
      PROVE  DownIsDeaf'
  <2>1. \A b \in Ctl : queue'[b] \subseteq queue[b]
    BY <1>4
  <2> QED
    BY <1>0, <1>4, <2>1 DEF DownIsDeaf
<1>5. CASE Syncer
  <2>1. ASSUME NEW n \in SyncName, SyncAdd(n) PROVE DownIsDeaf'
    BY <1>0, <1>3, <2>1 DEF SyncAdd, Take
  <2>2. ASSUME NEW n \in SyncName, SyncGone(n) PROVE DownIsDeaf'
    <3>1. up' = up /\ watched' = watched
      BY <2>2 DEF SyncGone, CacheRemove
    <3>2. CASE Done(<<"spec", n>>)
      BY <1>0, <1>4, <3>1, <3>2 DEF Done
    <3>3. ASSUME NEW d, queue' = [c \in Ctl |->
                   (IF attr[d] = None THEN queue ELSE Enqueued(d))[c] \ {<<"spec", n>>}]
          PROVE  DownIsDeaf'
      BY <1>0, <3>1, <3>3 DEF DownIsDeaf
    <3> QED
      BY <2>2, <3>2, <3>3 DEF SyncGone
  <2>3. ASSUME NEW d \in Digi, SyncEnforce(d) PROVE DownIsDeaf'
    BY <1>0, <1>4, <2>3 DEF SyncEnforce, Done, caches
  <2>4. CASE (\E n \in SyncName : SyncRead(n)) \/ SyncWrite \/ SyncConflict
    BY <1>2, <2>4 DEF SyncRead, SyncWrite, SyncConflict, WriteAttr, store, caches
  <2>5. CASE SyncDone
    <3>1. "sync" \in up
      BY <2>5 DEF SyncDone, SyncEnds, IsIdle, DownIsEmpty
    <3>2. up' = up /\ watched' = watched /\ \A b \in Ctl \ {"sync"} : queue'[b] = queue[b]
      BY <2>5 DEF SyncDone, caches
    <3> QED
      BY <1>0, <1>1, <3>1, <3>2
  <2>6. CASE SyncStart
    <3>1. /\ up' = up \cup {"sync"} /\ watched' = watched
          /\ \A b \in Ctl \ {"sync"} : queue'[b] = queue[b]
      BY <2>6 DEF SyncStart, caches
    <3> QED
      BY <1>0, <3>1 DEF DownIsDeaf
  <2> QED
    BY <1>5, <2>1, <2>2, <2>3, <2>4, <2>5, <2>6 DEF Syncer, SyncStep
<1>6. CASE Policer
  <2>1. ASSUME NEW n \in PolicyName, PolicyAdd(n) PROVE DownIsDeaf'
    BY <1>0, <1>3, <2>1 DEF PolicyAdd, PolicyCacheAdd, PolTake
  <2>2. ASSUME NEW n \in PolicyName, PolicyGone(n) PROVE DownIsDeaf'
    BY <1>0, <1>4, <2>2 DEF PolicyGone, PolicyCacheRemove, CacheRemove, PolDone
  <2>3. ASSUME NEW d \in Digi, PolicyEnforce(d) PROVE DownIsDeaf'
    BY <1>0, <1>4, <2>3 DEF PolicyEnforce, PolDone, caches
  <2>4. CASE \/ \E n \in PolicyName : PolicyRead(n)
             \/ YieldSource \/ YieldTarget \/ YieldConflict \/ YieldLost \/ PolicyDone
    BY <1>2, <2>4 DEF PolicyRead, YieldSource, YieldTarget, YieldConflict, YieldLost, PolicyDone,
                      WriteMounts, store, caches
  <2>5. CASE PolicyStart
    <3>1. /\ up' = up \cup {"policy"} /\ watched' = watched
          /\ \A b \in Ctl \ {"policy"} : queue'[b] = queue[b]
      BY <2>5 DEF PolicyStart, caches
    <3> QED
      BY <1>0, <3>1 DEF DownIsDeaf
  <2> QED
    BY <1>6, <2>1, <2>2, <2>3, <2>4, <2>5 DEF Policer, PolicyStep
<1>7. ASSUME NEW c \in Client, Caller(c) PROVE DownIsDeaf'
  BY <1>2, <1>7 DEF Caller, ClientStep, Update, UpdateConflict, WriteMounts, store, caches
<1>8. CASE Failure
  BY <1>2, <1>8 DEF Failure, SyncFails, UpdateFails, store, caches
<1>9. CASE Crash
  <2>1. ASSUME NEW c \in Ctl, up' = up \ {c}, queue' = [queue EXCEPT ![c] = {}],
               watched' = [watched EXCEPT ![c] = {}]
        PROVE  DownIsDeaf'
    BY <1>0, <2>1 DEF DownIsDeaf
  <2> QED
    BY <1>0, <1>9, <2>1 DEF Crash, SyncCrash, PolicyCrash, EmptyCaches
<1>10. CASE Users
  <2>1. up' = up /\ watched' = watched
    BY <1>10 DEF Users, PipeCreate, Toggle, Write, Delete, Apply, Pipe, Unpipe, Mount, DoMount,
                 SetObj, store, caches
  <2>2. queue' = queue \/ (\E d : queue' = Enqueued(d)) \/ \E n : queue' = EnqueuedSpec(n)
    BY <1>10 DEF Users, PipeCreate, Toggle, Write, Delete, Apply, Pipe, Unpipe, Mount, DoMount,
                 SetObj, store
  <2> QED
    BY <1>0, <2>1, <2>2 DEF DownIsDeaf
<1>11. CASE UNCHANGED vars
  BY <1>2, <1>11 DEF vars, store, caches
<1> QED
  BY <1>5, <1>6, <1>7, <1>8, <1>9, <1>10, <1>11 DEF Next

(* The mounts that are written are mounts.                                 *)
LEMMA MountsTyped == ASSUME IInv, MInv, TInv, [Next]_vars PROVE mounts' \in [Digi -> MountMap]
<1> USE DEF TInv
<1>1. ASSUME NEW r, NEW d \in Digi, NEW ms \in MountMap, WriteMounts(r, d, ms)
      PROVE  mounts' \in [Digi -> MountMap]
  BY <1>1 DEF WriteMounts
<1>2. CASE Syncer
  BY <1>2 DEF Syncer, SyncStep, SyncAdd, SyncGone, SyncEnforce, SyncRead, SyncWrite, SyncConflict,
              SyncDone, SyncStart, WriteAttr, store, digis
<1>3. CASE Policer
  <2>1. CASE YieldSource \/ YieldTarget
    <3>1. /\ pol.spec.src \in Digi /\ pol.spec.dst \in Digi
          /\ pol.srcMounts \in MountMap /\ pol.dstMounts \in MountMap
      BY <2>1 DEF YieldSource, YieldTarget, YieldOK, MInv, YieldIsCurrent, Spec0
    <3> QED
      BY <1>1, <2>1, <3>1 DEF YieldSource, YieldTarget
  <2>2. CASE ~ (YieldSource \/ YieldTarget)
    BY <1>3, <2>2 DEF Policer, PolicyStep, PolicyAdd, PolicyGone, PolicyEnforce, PolicyRead,
                      YieldConflict, YieldLost, PolicyDone, PolicyStart, store, digis
  <2> QED
    BY <2>1, <2>2
<1>4. ASSUME NEW c \in Client, Update(c) \/ UpdateConflict(c) \/ UpdateFails(c)
      PROVE  mounts' \in [Digi -> MountMap]
  <2>1. call[c].mounts \in MountMap
    BY <1>4 DEF Update, UpdateConflict, UpdateFails, CallOK
  <2>2. CASE mounts' = mounts
    BY <2>2
  <2>3. CASE Update(c)
    <3>1. call[c].target \in Digi
      BY <2>3 DEF Update, IInv, Types
    <3> QED
      BY <1>1, <2>1, <2>3, <3>1 DEF Update
  <2>4. CASE mounts' = [mounts EXCEPT ![call[c].target] = call[c].mounts]
    BY <2>1, <2>4
  <2> QED
    BY <1>4, <2>2, <2>3, <2>4 DEF UpdateConflict, UpdateFails, store, digis
<1>5. CASE Crash
  BY <1>5 DEF Crash, SyncCrash, PolicyCrash, digis
<1>6. CASE Users
  <2>1. mounts' = mounts \/ \E d \in Digi : mounts' = [mounts EXCEPT ![d] = [k \in Digi |-> "none"]]
    BY <1>6 DEF Users, PipeCreate, Toggle, Write, Delete, Apply, Pipe, Unpipe, Mount, DoMount,
                SetObj, store, digis
  <2>2. [k \in Digi |-> "none"] \in MountMap
    BY DEF MountMap
  <2> QED
    BY <2>1, <2>2
<1>7. CASE UNCHANGED vars
  BY <1>7 DEF vars, store, digis
<1> QED
  BY <1>2, <1>3, <1>4, <1>5, <1>6, <1>7 DEF Next, Caller, ClientStep, Failure, SyncFails, store, digis

(* The policer's worker.                                                   *)
LEMMA YieldTyped == ASSUME IInv, MInv, TInv, [Next]_vars PROVE YieldOK'
<1> USE StoreAssumption DEF TInv, YieldOK
<1>1. CASE pol' = pol
  BY <1>1
<1>2. ASSUME NEW d \in Digi, PolEnforce(d, index') PROVE YieldOK'
  <2>1. pol' = [st |-> "loop", todo |-> {n \in PolicyName : index'[d][n] # NoSpec}, digi |-> d,
                of |-> Nothing, spec |-> NoSpec, srcMounts |-> <<>>, dstMounts |-> <<>>]
    BY <1>2 DEF PolEnforce, PolIdle
  <2> QED
    BY <2>1 DEF PolWorker
<1>3. ASSUME NEW n \in PolicyName, PolicyAdd(n) PROVE YieldOK'
  <2>1. objs[n].src \in Digi
    BY <1>3 DEF PolicyAdd, IInv, Types, Spec0, Name
  <2> QED
    BY <1>1, <1>2, <1>3, <2>1 DEF PolicyAdd
<1>4. ASSUME NEW d \in Digi, PolicyEnforce(d) PROVE YieldOK'
  <2>1. PolEnforce(d, index')
    BY <1>4 DEF PolicyEnforce, caches, PolEnforce
  <2> QED
    BY <1>2, <2>1
<1>5. ASSUME NEW n \in PolicyName, PolicyRead(n) PROVE YieldOK'
  <2> DEFINE s == index[pol.digi][n]
             A == With(mounts[s.src], Yielded(s), "inactive")
             B == With(mounts[s.dst], Yielded(s), "active")
  <2>1. s \in Spec0 /\ s.src \in Digi /\ s.dst \in Digi
    BY <1>5 DEF PolicyRead, MInv, LoopIsIndexed, IInv, Types, Name, Spec0
  <2>2. A \in MountMap /\ B \in MountMap
    <3>1. mounts[s.src] \in MountMap /\ mounts[s.dst] \in MountMap
      BY <2>1
    <3> QED
      BY <3>1 DEF With, MountMap
  <2>3. \/ pol' = [pol EXCEPT !.todo = @ \ {n}, !.st = "source", !.of = n, !.spec = s,
                     !.srcMounts = A, !.dstMounts = B]
        \/ pol' = [pol EXCEPT !.todo = @ \ {n}]
    BY <1>5 DEF PolicyRead
  <2>4. pol.st = "loop"
    BY <1>5 DEF PolicyRead, InLoop
  <2> HIDE DEF s, A, B
  <2>5. CASE pol' = [pol EXCEPT !.todo = @ \ {n}]
    BY <2>4, <2>5 DEF PolWorker
  <2>6. CASE pol' = [pol EXCEPT !.todo = @ \ {n}, !.st = "source", !.of = n, !.spec = s,
                     !.srcMounts = A, !.dstMounts = B]
    BY <2>1, <2>2, <2>6 DEF PolWorker
  <2> QED
    BY <2>3, <2>5, <2>6
<1>6. ASSUME NEW st \in {"loop", "target"}, pol.st \in {"source", "target"},
             pol' = [pol EXCEPT !.st = st]
      PROVE  YieldOK'
  BY <1>6 DEF PolWorker
<1>7. CASE YieldSource \/ YieldTarget \/ YieldConflict \/ YieldLost
  BY <1>6, <1>7 DEF YieldSource, YieldTarget, YieldConflict, YieldLost
<1>8. CASE pol' = PolIdle
  BY <1>8 DEF PolIdle, PolWorker
<1>9. CASE Policer
  BY <1>1, <1>3, <1>4, <1>5, <1>7, <1>8, <1>9
  DEF Policer, PolicyStep, PolicyGone, PolicyStart, PolicyDone
<1>10. CASE Crash
  BY <1>1, <1>8, <1>10 DEF Crash, PolicyCrash
<1>11. CASE Users
  <2>1. pol' = pol
    BY <1>11 DEF Users, PipeCreate, Toggle, Write, Delete, Apply, Pipe, Unpipe, SetObj, workers
  <2> QED
    BY <1>1, <2>1
<1>12. CASE Syncer \/ Failure \/ (\E c \in Client : Caller(c)) \/ UNCHANGED vars
  BY <1>1, <1>12 DEF Syncer, Failure, Caller, vars, workers
<1> QED
  BY <1>9, <1>10, <1>11, <1>12 DEF Next

(* The calls: each try that fails leaves one fewer, and the last none.     *)
LEMMA CallTyped == ASSUME IInv, MInv, TInv, [Next]_vars, NEW c \in Client PROVE CallOK(c)'
<1> USE SpaceAssumption DEF TInv, CallOK
<1>0. NoCall \in CallType
  BY DEF NoCall, CallType
<1>1. CASE call'[c] = call[c] \/ call'[c] = NoCall
  <2>1. CASE call'[c] = call[c]
    BY <2>1
  <2>2. CASE call'[c] = NoCall
    BY <1>0, <2>2
  <2> QED
    BY <1>1, <2>1, <2>2
<1>2. ASSUME call[c] # NoCall, call'[c] = Retry(c) PROVE CallOK(c)'
  <2>1. CASE call[c].tries = 1
    BY <1>1, <1>2, <2>1 DEF Retry
  <2>2. CASE call[c].tries # 1
    <3>1. call'[c] = [call[c] EXCEPT !.tries = @ - 1]
      BY <1>2, <2>2 DEF Retry
    <3>2. call[c].tries \in 1 .. NumRetry + 1 /\ call[c].mounts \in MountMap /\ call[c] \in CallType
      BY <1>2
    <3>3. /\ call'[c].tries = call[c].tries - 1 /\ call'[c].mounts = call[c].mounts
          /\ call[c].tries - 1 \in Nat => call'[c] \in CallType
      BY <3>1, <3>2 DEF CallType
    <3>4. call[c].tries - 1 \in 1 .. NumRetry + 1
      BY <2>2, <3>2
    <3> QED
      BY <3>2, <3>3, <3>4
  <2> QED
    BY <2>1, <2>2
<1>3. ASSUME NEW b \in Client, NEW v, call' = [call EXCEPT ![b] = v]
      PROVE  call'[c] = call[c] \/ call'[c] = v
  <2>1. call = [x \in Client |-> call[x]]
    BY DEF MInv, Shapes
  <2>2. call' = [x \in Client |-> IF x = b THEN v ELSE call[x]]
    BY <1>3, <2>1, Zenon
  <2> QED
    BY <2>2
<1>4. ASSUME NEW b \in Client, ClientStep(b) \/ UpdateFails(b) PROVE CallOK(c)'
  <2>1. call[b] # NoCall /\ (call' = [call EXCEPT ![b] = NoCall] \/ call' = [call EXCEPT ![b] = Retry(b)])
    BY <1>4 DEF ClientStep, Update, UpdateConflict, UpdateFails
  <2>2. call'[c] = call[c] \/ call'[c] = NoCall \/ (call[c] # NoCall /\ call'[c] = Retry(c))
    <3>1. CASE b = c
      BY <1>3, <2>1, <3>1
    <3>2. CASE b # c
      <4>1. \A v : call' = [call EXCEPT ![b] = v] => call'[c] = call[c]
        BY <3>2 DEF MInv, Shapes
      <4> QED
        BY <2>1, <4>1
    <3> QED
      BY <3>1, <3>2
  <2> QED
    BY <1>1, <1>2, <2>2
<1>5. ASSUME NEW b \in Client, NEW m \in MountArgs, Mount(b, m) PROVE CallOK(c)'
  <2> DEFINE ms == [k \in Digi |->
                       IF k \notin m.srcs THEN mounts[m.target][k]
                       ELSE CASE m.op = "UNMOUNT" -> "none"
                              [] m.op = "YIELD" -> "inactive"
                              [] OTHER -> "active"]
  <2>1. /\ m.target \in Digi /\ m.srcs \subseteq Digi
        /\ call' = [call EXCEPT ![b] = [target |-> m.target, srcs |-> m.srcs, tries |-> NumRetry + 1,
                                       mounts |-> ms]]
    BY <1>5 DEF Mount, DoMount, IInv, Types
  <2>2. ms \in MountMap
    <3>1. \A k \in Digi : mounts[m.target][k] \in {"none", "active", "inactive"}
      BY <2>1 DEF MountMap
    <3> QED
      BY <3>1 DEF MountMap
  <2> HIDE DEF ms
  <2>3. \/ call'[c] = call[c]
        \/ call'[c] = [target |-> m.target, srcs |-> m.srcs, tries |-> NumRetry + 1, mounts |-> ms]
    BY <1>3, <2>1
  <2> QED
    BY <1>1, <2>1, <2>2, <2>3 DEF CallType
<1>6. CASE Users
  BY <1>1, <1>5, <1>6 DEF Users, PipeCreate, Toggle, Write, Delete, Apply, Pipe, Unpipe, SetObj, workers
<1>7. CASE Failure
  BY <1>1, <1>4, <1>7 DEF Failure
<1>8. CASE Syncer \/ Policer \/ Crash \/ UNCHANGED vars
  BY <1>1, <1>8 DEF Syncer, Policer, Crash, vars, workers
<1> QED
  BY <1>4, <1>6, <1>7, <1>8 DEF Next, Caller

(* The invariant of types is inductive, given those of the syncer and the  *)
(* mounts.                                                                 *)
THEOREM TypesInvariant == Spec => []TInv
<1>1. Init => TInv
  <2> SUFFICES ASSUME Init PROVE TInv
    OBVIOUS
  <2>1. BoundsOK /\ DownIsDeaf /\ mounts \in [Digi -> MountMap]
    BY SpaceAssumption DEF Init, BoundsOK, DownIsDeaf, MountMap
  <2>2. YieldOK
    BY DEF Init, YieldOK, PolIdle, PolWorker
  <2>3. \A c \in Client : CallOK(c)
    BY DEF Init, CallOK, NoCall, CallType
  <2> QED
    BY <2>1, <2>2, <2>3 DEF TInv
<1>2. IInv /\ MInv /\ TInv /\ [Next]_vars => TInv'
  BY BoundsKept, DeafKept, MountsTyped, YieldTyped, CallTyped DEF TInv
<1> QED
  BY <1>1, <1>2, SpaceInvariant, MountsInvariant, PTL DEF Spec

(* Every variable of a space keeps its type; a controller that is down has *)
(* neither requests nor watches, and a call never makes more tries than    *)
(* UpdateFromJson is given.                                                *)
THEOREM SpaceTypes == Spec => []TypeOK
<1>1. IInv /\ MInv /\ TInv => TypeOK
  <2> SUFFICES ASSUME IInv, MInv, TInv PROVE TypeOK
    OBVIOUS
  <2>1. StoreTypeOK
    BY DEF IInv, Types, MInv, Shapes, TInv, BoundsOK, DownIsDeaf, MountMap, StoreTypeOK
  <2>2. SyncTypeOK
    BY DEF IInv, Types, Worker, Put, NoWrite, TInv, BoundsOK, SyncTypeOK
  <2>3. PolTypeOK
    BY DEF TInv, YieldOK, PolWorker, BoundsOK, PolTypeOK
  <2>4. ClientTypeOK
    BY DEF TInv, CallOK, CallType, ClientTypeOK
  <2> QED
    BY <2>1, <2>2, <2>3, <2>4 DEF TypeOK, TInv, BoundsOK
<1> QED
  BY <1>1, SpaceInvariant, MountsInvariant, TypesInvariant, PTL
=============================================================================
