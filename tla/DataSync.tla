------------------------------ MODULE DataSync ------------------------------
(***************************************************************************)
(* The data router of a digi and its syncs (digi.data.sync.Sync): each     *)
(* ingress copies records from source pools into the digi's own pool, in a *)
(* thread of its own.  How far a sync got is kept twice: in memory         *)
(* (source_ts) and in the meta data of the destination's commits, where a  *)
(* new Sync object resumes.  A change of the model makes the router stop   *)
(* all syncs, build new ones and start them.                               *)
(*                                                                         *)
(* A record is named by its ts.  A writer takes the ts before it loads, so *)
(* records may be committed to a pool out of order.                        *)
(***************************************************************************)
EXTENDS Integers, Sequences, FiniteSets

CONSTANTS
    Source,     \* source pools
    Ingress,    \* the router's ingresses, all into the digi's own pool
    SourcesOf,  \* the sources of each ingress
    MaxLoads,   \* bound: threads that load records into source pools
    MaxRec,     \* bound: records stamped
    MaxGen,     \* bound: times the router builds its syncs
    MaxErr      \* bound: requests to the lake that fail

ASSUME DataSyncAssumption ==
    /\ SourcesOf \in [Ingress -> SUBSET Source]
    /\ MaxLoads \in Nat /\ MaxRec \in Nat
    /\ MaxGen \in Nat \ {0} /\ MaxErr \in Nat

VARIABLES
    pool,       \* the records committed to each source
    clock,      \* the last ts taken
    writing,    \* the <<source, record>> stamped and not yet committed
    mark,       \* per source: the largest ts in the destination's commit log
    copied,     \* per ingress and record: how often it was loaded
    sync,       \* the Sync object and thread of each ingress and generation
    gen,        \* the generation of the router's syncs
    phase,      \* what restart() of the router is doing
    todo,       \* the ingresses this phase has still to handle
    errs,       \* requests that failed
    late,       \* ghost: records committed after a larger ts of their source
    overtaken   \* ghost: syncs replaced without having been stopped

lake == <<pool, mark, copied, late>>
writers == <<clock, writing>>
router == <<gen, phase, todo, overtaken>>
vars == <<lake, writers, sync, router, errs>>

Rec == 1 .. MaxRec
Thread == Ingress \X (1 .. MaxGen)
S(t) == SourcesOf[t[1]]
Larger(a, b) == IF a > b THEN a ELSE b
LatestOf(R) == IF R = {} THEN 0 ELSE CHOOSE r \in R : \A q \in R : q <= r

-----------------------------------------------------------------------------
(* The Sync object, its query and the events of the lake *)

\* mutant: the commit log is not looked at.
NewSyncFromStart(t) ==
    [pc |-> "new", ts |-> [s \in S(t) |-> 0], batch |-> {},
     stopped |-> TRUE, open |-> FALSE, lines |-> <<>>, missed |-> {}]

\* Sync.__init__: resume from the commit log, with the stop flag set.
NewSync(t) ==
    [pc |-> "new", ts |-> [s \in S(t) |-> mark[s]], batch |-> {},
     stopped |-> TRUE, open |-> FALSE, lines |-> <<>>, missed |-> {}]

\* No object yet, or its thread has ended.
Ended(t, pc) ==
    [pc |-> pc, ts |-> [s \in S(t) |-> 0], batch |-> {},
     stopped |-> TRUE, open |-> FALSE, lines |-> <<>>, missed |-> {}]

\* Where a thread is in run().
InRun == {"read", "load", "connect", "wait", "blank"}

\* What the query returns: of each source the records with ts > source_ts.
Newer(t) == UNION {{r \in pool[s] : r > sync[t].ts[s]} : s \in S(t)}

\* mutant: commits to other pools are handed to the loop, which knows two kinds.
PublishedUnparsed(ss, from) ==
    [t \in Thread |->
        IF ss[t].open
        THEN [ss[t] EXCEPT !.lines =
                Append(@, IF S(t) \cap from # {} THEN "commit" ELSE "other")]
        ELSE ss[t]]

\* Every commit is an event on each open stream.  _parse_event takes a commit
\* to a source for SOURCE_COMMIT and skips the others.
Published(ss, from) ==
    [t \in Thread |->
        IF ss[t].open
        THEN [ss[t] EXCEPT !.lines =
                Append(@, IF S(t) \cap from # {} THEN "commit" ELSE "skip")]
        ELSE ss[t]]

\* Where run() goes on after once(): to the event stream, or to the empty line
\* that ends the event it was handling.
AfterOnce(t) == IF sync[t].open THEN "blank" ELSE "connect"

-----------------------------------------------------------------------------
(* Writers of source pools: ZedPool.load *)

\* now = util.now(), before the lock.
Stamp(s) ==
    /\ Cardinality(writing) < MaxLoads
    /\ clock < MaxRec
    /\ clock' = clock + 1
    /\ writing' = writing \cup {<<s, clock + 1>>}
    /\ UNCHANGED <<lake, sync, router, errs>>

Commit(s, r) ==
    /\ <<s, r>> \in writing
    /\ pool' = [pool EXCEPT ![s] = @ \cup {r}]
    /\ late' = IF \E q \in pool[s] : q > r THEN late \cup {r} ELSE late
    /\ sync' = Published(sync, {s})
    /\ writing' = writing \ {<<s, r>>}
    /\ UNCHANGED <<clock, mark, copied, router, errs>>

\* The load fails: a warning, and the record is gone.
Drop(s, r) ==
    /\ <<s, r>> \in writing
    /\ errs < MaxErr
    /\ errs' = errs + 1
    /\ writing' = writing \ {<<s, r>>}
    /\ UNCHANGED <<clock, lake, sync, router>>

-----------------------------------------------------------------------------
(* Ingress.restart: stop, update, start *)

Restart ==
    /\ phase = "idle"
    /\ gen < MaxGen
    /\ phase' = "stop"
    /\ todo' = Ingress
    /\ UNCHANGED <<lake, writers, sync, gen, overtaken, errs>>

\* stop() returns at once when the flag is set, as it is until run() has begun.
StopReturns(n) ==
    LET t == <<n, gen>> IN
    /\ phase = "stop" /\ n \in todo
    /\ sync[t].stopped
    /\ todo' = todo \ {n}
    /\ overtaken' = IF sync[t].pc = "started" THEN overtaken \cup {t} ELSE overtaken
    /\ UNCHANGED <<lake, writers, sync, gen, phase, errs>>

\* mutant: the thread is joined without having been told to stop.
StopSetsNothing(n) ==
    LET t == <<n, gen>> IN
    /\ phase = "stop" /\ n \in todo
    /\ ~sync[t].stopped
    /\ phase' = "join"
    /\ UNCHANGED <<lake, writers, sync, gen, todo, overtaken, errs>>

StopSets(n) ==
    LET t == <<n, gen>> IN
    /\ phase = "stop" /\ n \in todo
    /\ ~sync[t].stopped
    /\ sync' = [sync EXCEPT ![t].stopped = TRUE]
    /\ phase' = "join"
    /\ UNCHANGED <<lake, writers, gen, todo, overtaken, errs>>

\* join() of the thread that was told to stop, once it has ended.
Joined(n) ==
    /\ phase = "join" /\ n \in todo
    /\ sync[<<n, gen>>].stopped /\ sync[<<n, gen>>].pc = "dead"
    /\ \A m \in todo : ~ (sync[<<m, gen>>].stopped /\ sync[<<m, gen>>].pc \in InRun)
    /\ todo' = todo \ {n}
    /\ phase' = "stop"
    /\ UNCHANGED <<lake, writers, sync, gen, overtaken, errs>>

\* self._syncs = dict()
Forget ==
    /\ phase = "stop" /\ todo = {}
    /\ gen' = gen + 1
    /\ phase' = "update"
    /\ todo' = Ingress
    /\ UNCHANGED <<lake, writers, sync, overtaken, errs>>

Build(n) ==
    /\ phase = "update" /\ n \in todo
    /\ sync' = [sync EXCEPT ![<<n, gen>>] = NewSync(<<n, gen>>)]
    /\ IF todo = {n}
       THEN phase' = "start" /\ todo' = Ingress
       ELSE phase' = phase /\ todo' = todo \ {n}
    /\ UNCHANGED <<lake, writers, gen, overtaken, errs>>

\* A query of Sync.__init__ raises: restart() ends with it.
BuildFails ==
    /\ phase = "update"
    /\ errs < MaxErr
    /\ errs' = errs + 1
    /\ phase' = "idle"
    /\ todo' = {}
    /\ UNCHANGED <<lake, writers, sync, gen, overtaken>>

Start(n) ==
    /\ phase = "start" /\ n \in todo
    /\ sync' = [sync EXCEPT ![<<n, gen>>].pc = "started"]
    /\ todo' = todo \ {n}
    /\ phase' = IF todo = {n} THEN "idle" ELSE phase
    /\ UNCHANGED <<lake, writers, gen, overtaken, errs>>

\* The digi's process dies with its threads and starts again.
Crash ==
    /\ gen < MaxGen
    /\ sync' = [t \in Thread |-> Ended(t, "none")]
    /\ gen' = gen + 1
    /\ phase' = "update"
    /\ todo' = Ingress
    /\ UNCHANGED <<lake, writers, overtaken, errs>>

-----------------------------------------------------------------------------
(* The thread of a sync: run, once = read + load, _event_loop *)

Begin(t) ==
    /\ sync[t].pc = "started"
    /\ sync' = [sync EXCEPT ![t].pc = "read", ![t].stopped = FALSE]
    /\ UNCHANGED <<lake, writers, router, errs>>

\* The source_ts of each source goes to the largest ts read from it.
Read(t) ==
    /\ sync[t].pc = "read"
    /\ sync' = [sync EXCEPT
            ![t].batch = Newer(t),
            ![t].ts = [s \in S(t) |->
                Larger(@[s], LatestOf(Newer(t) \cap pool[s]))],
            ![t].missed = {},
            ![t].pc = IF Newer(t) = {} THEN AfterOnce(t) ELSE "load"]
    /\ UNCHANGED <<lake, writers, router, errs>>

\* The records and source_ts, as meta data, are one commit to the destination.
Loaded(t) ==
    /\ copied' = [copied EXCEPT ![t[1]] =
            [r \in Rec |-> IF r \in sync[t].batch THEN @[r] + 1 ELSE @[r]]]
    /\ mark' = [s \in Source |->
            IF s \in S(t) THEN Larger(mark[s], sync[t].ts[s]) ELSE mark[s]]

Load(t) ==
    /\ sync[t].pc = "load"
    /\ Loaded(t)
    /\ sync' = Published([sync EXCEPT ![t].batch = {}, ![t].pc = AfterOnce(t)], {})
    /\ UNCHANGED <<pool, late, writers, router, errs>>

\* The lake commits, and the answer is lost.
LoadUnanswered(t) ==
    /\ sync[t].pc = "load"
    /\ errs < MaxErr
    /\ errs' = errs + 1
    /\ Loaded(t)
    /\ sync' = Published([sync EXCEPT ![t] =
            [Ended(t, "dead") EXCEPT !.stopped = sync[t].stopped]], {})
    /\ UNCHANGED <<pool, late, writers, router>>

\* The event stream is opened after the first once().
Connect(t) ==
    /\ sync[t].pc = "connect"
    /\ sync' = [sync EXCEPT ![t].pc = "wait", ![t].open = TRUE, ![t].missed = Newer(t)]
    /\ UNCHANGED <<lake, writers, router, errs>>

\* mutant: the lines that piled up are dropped with the first.
OnEventDrains(t) ==
    /\ sync[t].pc = "wait" /\ sync[t].lines # <<>>
    /\ ~sync[t].stopped
    /\ sync' = [sync EXCEPT
            ![t].pc = IF Head(sync[t].lines) = "commit" THEN "read" ELSE "blank",
            ![t].lines = <<>>]
    /\ UNCHANGED <<lake, writers, router, errs>>

OnEvent(t) ==
    /\ sync[t].pc = "wait" /\ sync[t].lines # <<>>
    /\ ~sync[t].stopped
    /\ sync' = [sync EXCEPT
            ![t].pc = IF Head(sync[t].lines) = "commit" THEN "read" ELSE "blank",
            ![t].lines = Tail(@)]
    /\ UNCHANGED <<lake, writers, router, errs>>

OnBlank(t) ==
    /\ sync[t].pc = "blank"
    /\ ~sync[t].stopped
    /\ sync' = [sync EXCEPT ![t].pc = "wait"]
    /\ UNCHANGED <<lake, writers, router, errs>>

\* The stop flag is looked at with each line, before the line is.
OnStop(t) ==
    /\ \/ sync[t].pc = "blank"
       \/ sync[t].pc = "wait" /\ sync[t].lines # <<>>
    /\ sync[t].stopped
    /\ sync' = [sync EXCEPT ![t] = Ended(t, "dead")]
    /\ UNCHANGED <<lake, writers, router, errs>>

\* mutant: the loop goes on after a failed request.
FailGoesOn(t) ==
    /\ sync[t].pc \in InRun
    /\ errs < MaxErr
    /\ errs' = errs + 1
    /\ sync' = [sync EXCEPT ![t].pc = AfterOnce(t), ![t].batch = {}]
    /\ UNCHANGED <<lake, writers, router>>

\* A request or the stream fails: the exception ends the thread.
Fail(t) ==
    /\ sync[t].pc \in InRun
    /\ errs < MaxErr
    /\ errs' = errs + 1
    /\ sync' = [sync EXCEPT ![t] = [Ended(t, "dead") EXCEPT !.stopped = sync[t].stopped]]
    /\ UNCHANGED <<lake, writers, router>>

-----------------------------------------------------------------------------
Init ==
    /\ pool = [s \in Source |-> {}]
    /\ clock = 0
    /\ writing = {}
    /\ mark = [s \in Source |-> 0]
    /\ copied = [n \in Ingress |-> [r \in Rec |-> 0]]
    /\ sync = [t \in Thread |-> Ended(t, "none")]
    /\ gen = 1
    /\ phase = "update"
    /\ todo = Ingress
    /\ errs = 0
    /\ late = {}
    /\ overtaken = {}

Loading == \E s \in Source, r \in Rec : Commit(s, r)

Routing ==
    \/ Forget
    \/ \E n \in Ingress :
        StopReturns(n) \/ StopSets(n) \/ Joined(n) \/ Build(n) \/ Start(n)

Running(t) ==
    Begin(t) \/ Read(t) \/ Load(t) \/ Connect(t) \/ OnEvent(t) \/ OnBlank(t) \/ OnStop(t)

Next ==
    \/ Loading
    \/ \E s \in Source : Stamp(s) \/ \E r \in Rec : Drop(s, r)
    \/ Restart \/ BuildFails \/ Crash
    \/ Routing
    \/ \E t \in Thread : Running(t) \/ LoadUnanswered(t) \/ Fail(t)

\* Threads of the operating system: none is kept from running for ever.
Fairness ==
    /\ WF_vars(Loading)
    /\ WF_vars(Routing)
    /\ \A t \in Thread : WF_vars(Running(t))

Spec == Init /\ [][Next]_vars /\ Fairness

-----------------------------------------------------------------------------
(* Properties *)

SyncType ==
    [pc : InRun \cup {"none", "new", "started", "dead"},
     ts : UNION {[SourcesOf[n] -> 0 .. MaxRec] : n \in Ingress},
     batch : SUBSET Rec, missed : SUBSET Rec,
     stopped : BOOLEAN, open : BOOLEAN, lines : Seq({"commit", "skip"})]

\* Every variable has its type.
TypeOK ==
    /\ pool \in [Source -> SUBSET Rec]
    /\ clock \in 0 .. MaxRec
    /\ writing \subseteq Source \X Rec
    /\ mark \in [Source -> 0 .. MaxRec]
    /\ copied \in [Ingress -> [Rec -> Nat]]
    /\ sync \in [Thread -> SyncType]
    /\ \A t \in Thread : sync[t].ts \in [S(t) -> 0 .. MaxRec]
    /\ gen \in 1 .. MaxGen
    /\ phase \in {"idle", "stop", "join", "update", "start"}
    /\ todo \subseteq Ingress
    /\ errs \in 0 .. MaxErr
    /\ late \subseteq Rec /\ overtaken \subseteq Thread

\* The records a sync will never read again although they were not copied.
Passed(t) ==
    {r \in UNION {{q \in pool[s] : q <= sync[t].ts[s]} : s \in S(t)} :
        copied[t[1]][r] = 0 /\ r \notin sync[t].batch}

DisjointSources ==
    \A m, n \in Ingress : m # n => SourcesOf[m] \cap SourcesOf[n] = {}

\* A sync passes over no record, through failed and unanswered loads, crashes
\* and restarts at any point, but for one committed after a larger ts of its
\* source: source_ts and the meta data advance together with what was loaded.
\* (Ingresses that share a source are the subject of NoRecordLost.)
NothingSkipped == DisjointSources => \A t \in Thread : Passed(t) \subseteq late

\* A load adds to the destination only records newer than all it has of their
\* source: none twice and each source in order, unless an earlier sync of the
\* ingress was replaced before its thread had begun.
InOrderOnce ==
    [][overtaken = {} =>
        \A n \in Ingress : \A s \in SourcesOf[n] : \A r, q \in pool[s] :
            copied'[n][r] > copied[n][r] /\ r <= q => copied[n][q] = 0]_vars

\* The current sync of the ingress is not running: its thread ended with an
\* error, or restart() failed before it was started.
Down(n) == phase = "idle" /\ sync[<<n, gen>>].pc \in {"none", "new", "dead"}

\* Every record gets copied, but for late ones and those committed between the
\* first once() and the opening of the event stream with no commit to follow,
\* as long as the sync has not died.
EveryRecordCopied ==
    <>[](\A n \in Ingress : \/ Down(n)
                            \/ \A r \in UNION {pool[s] : s \in SourcesOf[n]} :
                                \/ copied[n][r] > 0
                                \/ r \in late \cup sync[<<n, gen>>].missed)

\* stop() waits for the thread, and the thread for a line of the event stream:
\* what stop() may wait for without end is only a thread that has been told to
\* stop and has an open stream on which nothing comes.
StopEndsWithAnEvent ==
    []<>(phase = "join" =>
            \E n \in todo : LET k == sync[<<n, gen>>] IN
                k.stopped /\ k.pc = "wait" /\ k.lines = <<>>)

\* What eoio, "exactly-once in-order" (sync.py:28), says of every record: no
\* sync passes over one.  Ingresses with a common source share the entry of
\* that source in the commit log, so the one that is ahead moves the other on.
NoRecordLost == \A t \in Thread : Passed(t) = {}

=============================================================================
