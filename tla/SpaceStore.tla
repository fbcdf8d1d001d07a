----------------------------- MODULE SpaceStore -----------------------------
(***************************************************************************)
(* What the space controllers and the clients of a space share: the digis  *)
(* and the Sync and YieldPolicy objects at the API server, and the part of *)
(* a controller both controllers have a copy of, its cache of objects,     *)
(* index and watches, and the queue controller-runtime feeds.              *)
(*                                                                         *)
(* A digi is one attribute and its mounts.  The resourceVersion is the set *)
(* of readers who hold the present version: a write takes it from all the  *)
(* others, and an Update goes through only for a reader who holds it.  An  *)
(* Update that changes nothing makes no version and no event.  Digis are   *)
(* read from the API server (controller-runtime 0.6 caches no unstructured *)
(* objects); a request to look at an object stays in the queue until after *)
(* the change that caused it, so the object cache need not be modelled.    *)
(***************************************************************************)
EXTENDS Naturals, FiniteSets

CONSTANTS
    Digi,
    KindOf,    \* by digi, the digis of its kind
    Val, None, \* values of the attribute, and its absence
    SyncName, PolicyName,  \* the names of the objects of each controller
    Client,    \* processes of digi space mount
    NoSpec, Nothing

Name == SyncName \cup PolicyName
Ctl == {"sync", "policy"}
NamesOf(c) == IF c = "sync" THEN SyncName ELSE PolicyName
Spec0 == [src : Digi, dst : Digi, mode : {"match", "sync", "yield"}]

ASSUME StoreAssumption ==
    /\ SyncName \cap PolicyName = {}
    /\ Client \cap Ctl = {}
    /\ None \notin Val /\ Nothing \notin Name /\ NoSpec \notin Spec0
    /\ KindOf \in [Digi -> SUBSET Digi] /\ \A d \in Digi : d \in KindOf[d]

VARIABLES
    alive,    \* the digis that exist
    attr,     \* their attribute
    mounts,   \* by digi, what it mounts: "none", "active" or "inactive"
    objs,     \* by name, the spec of a Sync or YieldPolicy object, or NoSpec
    fresh,    \* by reader, the digis of which it holds the present version
    up,       \* the controllers that run
    queue,    \* by controller: <<"spec", name>> and <<"enforce", digi>>
    cached,   \* bindings and policies, by name
    index,    \* modelToBindings and modelToPolicies, by digi and name
    fails,    \* bound: the requests to the API server that may yet fail
    watched,  \* by controller, the digis of the kinds it watches
    writer    \* history: the match binding the attribute's value came by

digis == <<alive, attr, mounts, fresh, writer>>
caches == <<cached, index, watched>>
store == <<digis, objs, up, queue, caches>>

\* A request to the API server fails.
MayFail == fails > 0 /\ fails' = fails - 1

Reader == Ctl \cup Client
Request == ({"spec"} \X Name) \cup ({"enforce"} \X Digi)

StoreTypeOK ==
    /\ alive \in SUBSET Digi /\ fails \in Nat /\ up \in SUBSET Ctl
    /\ attr \in [Digi -> Val \cup {None}]
    /\ mounts \in [Digi -> [Digi -> {"none", "active", "inactive"}]]
    /\ objs \in [Name -> Spec0 \cup {NoSpec}]
    /\ cached \in [Name -> Spec0 \cup {NoSpec}]
    /\ index \in [Digi -> [Name -> Spec0 \cup {NoSpec}]]
    /\ fresh \in [Reader -> SUBSET Digi] /\ watched \in [Ctl -> SUBSET Digi]
    /\ queue \in [Ctl -> SUBSET Request]
    /\ writer \in [Digi -> Name \cup {Nothing}]
    /\ \A c \in Ctl \ up : queue[c] = {} /\ watched[c] = {}

\* newReconciler: the caches of a process that starts.
EmptyCaches(c) ==
    /\ cached' = [n \in Name |-> IF n \in NamesOf(c) THEN NoSpec ELSE cached[n]]
    /\ index' = [d \in Digi |-> [n \in Name |->
          IF n \in NamesOf(c) THEN NoSpec ELSE index[d][n]]]
    /\ watched' = [watched EXCEPT ![c] = {}]

\* A digi is found, and an attribute in it.
GetObj(d) == d \in alive
GetAttr(d) == attr[d] # None

-----------------------------------------------------------------------------
(* Requests.                                                               *)

\* MuxRequest(enforceTag): the event of a digi in each controller's queue.
Enqueued(d) ==
    [c \in Ctl |-> queue[c] \cup (IF d \in watched[c] THEN {<<"enforce", d>>} ELSE {})]

\* MuxRequest(syncTag), MuxRequest(policyTag).
EnqueuedSpec(n) ==
    [c \in Ctl |-> queue[c] \cup
        (IF n \in NamesOf(c) /\ c \in up THEN {<<"spec", n>>} ELSE {})]

\* The state of the digi's readers after r wrote it.
Written(r, d) == [x \in Reader |-> IF x = r THEN fresh[x] \cup {d} ELSE fresh[x] \ {d}]

\* Reader r writes attribute v, which came by binding n, or the mounts ms.
WriteAttr(r, d, v, n) ==
    /\ IF attr[d] = v THEN UNCHANGED <<fresh, queue, writer>>
       ELSE /\ fresh' = Written(r, d)
            /\ queue' = Enqueued(d)
            /\ writer' = [writer EXCEPT ![d] = n]
    /\ attr' = [attr EXCEPT ![d] = v]
    /\ UNCHANGED <<alive, mounts>>

WriteMounts(r, d, ms) ==
    /\ IF mounts[d] = ms THEN UNCHANGED <<fresh, queue>>
       ELSE fresh' = Written(r, d) /\ queue' = Enqueued(d)
    /\ mounts' = [mounts EXCEPT ![d] = ms]
    /\ UNCHANGED <<alive, attr, writer>>

-----------------------------------------------------------------------------
(* BindingCache and PolicyCache.                                           *)

\* The watch of a digi's kind needs the digi, unless the kind has it already.
CanWatch(c, d) == d \in watched[c] \/ GetObj(d)

WatchesBoth(c, s) ==
    CanWatch(c, s.src) /\ (CanWatch(c, s.dst) \/ s.dst \in KindOf[s.src])

\* mutant: the kind of the target is not watched.
KindsOfSource(c, s) == IF CanWatch(c, s.src) THEN KindOf[s.src] ELSE {}

\* The digis of the kinds Add comes to watch, before a missing digi ends it.
KindsOf(c, s) ==
    IF ~ CanWatch(c, s.src) THEN {}
    ELSE KindOf[s.src] \cup (IF WatchesBoth(c, s) THEN KindOf[s.dst] ELSE {})

\* Add puts the binding in the cache, then starts the watches, which deliver
\* the digis there are, then files it under its source and target.  It is not
\* removed from where an earlier spec had put it.
CacheAdd(c, n, s) ==
    /\ cached' = [cached EXCEPT ![n] = s]
    /\ watched' = [watched EXCEPT ![c] = @ \cup KindsOf(c, s)]
    /\ index' = IF WatchesBoth(c, s)
                THEN [index EXCEPT ![s.src][n] = s, ![s.dst][n] = s]
                ELSE index
    /\ queue' = [queue EXCEPT ![c] =
          (IF WatchesBoth(c, s) THEN @ \ {<<"spec", n>>} ELSE @)
          \cup {<<"enforce", d>> : d \in (KindsOf(c, s) \ watched[c]) \cap alive}]

\* mutant: the entry of the target stays.
CacheRemoveSource(n) ==
    /\ cached' = [cached EXCEPT ![n] = NoSpec]
    /\ index' = IF cached[n] = NoSpec THEN index
                ELSE [index EXCEPT ![cached[n].src][n] = NoSpec]
    /\ UNCHANGED watched

\* Remove takes a binding out of where its last spec had put it.
CacheRemove(n) ==
    /\ cached' = [cached EXCEPT ![n] = NoSpec]
    /\ index' = IF cached[n] = NoSpec THEN index
                ELSE [index EXCEPT ![cached[n].src][n] = NoSpec,
                                   ![cached[n].dst][n] = NoSpec]
    /\ UNCHANGED watched

Filed(c, d) == {n \in NamesOf(c) : index[d][n] # NoSpec}
=============================================================================
