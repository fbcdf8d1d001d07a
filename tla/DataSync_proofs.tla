--------------------------- MODULE DataSync_proofs ---------------------------
(***************************************************************************)
(* What the syncs of a digi keep for any number of sources, ingresses,     *)
(* writers, records, restarts and failures: that no record is passed over, *)
(* and that each is copied once and in the order of its source.            *)
(***************************************************************************)
EXTENDS DataSync, TLAPS, WellFoundedInduction

-----------------------------------------------------------------------------
(* The inductive invariant *)

\* A record is stamped for one source and is committed to no other.
Stamped ==
    /\ \A s \in Source, r \in Rec :
        /\ r \in pool[s] => r <= clock
        /\ <<s, r>> \in writing => r <= clock
    /\ \A s, z \in Source, r \in Rec :
        /\ r \in pool[s] /\ r \in pool[z] => s = z
        /\ <<s, r>> \in writing => r \notin pool[z]
        /\ <<s, r>> \in writing /\ <<z, r>> \in writing => s = z

\* Where a sync and the commit log are is 0 or a record of the source.
OnRecords ==
    /\ \A t \in Thread : \A s \in S(t) : sync[t].ts[s] \in pool[s] \cup {0}
    /\ \A s \in Source : mark[s] \in pool[s] \cup {0}

\* What a sync holds was read from its sources, up to its source_ts.
Held ==
    \A t \in Thread :
        /\ sync[t].batch # {} => sync[t].pc = "load"
        /\ \A r \in sync[t].batch : \E s \in S(t) : r \in pool[s]
        /\ \A s \in S(t) : \A r \in sync[t].batch \cap pool[s] : r <= sync[t].ts[s]

\* The commit log has passed over no record.
MarkSkipsNothing ==
    DisjointSources =>
        \A n \in Ingress : \A s \in SourcesOf[n] : \A r \in pool[s] :
            r <= mark[s] => copied[n][r] > 0 \/ r \in late

\* What was copied is in a source and not beyond the commit log.
CopiedMarked ==
    \A n \in Ingress : \A r \in Rec : copied[n][r] > 0 =>
        /\ \E s \in SourcesOf[n] : r \in pool[s]
        /\ \A s \in SourcesOf[n] : r \in pool[s] => r <= mark[s]

\* What restart() has built and not started has not run.
Built ==
    /\ phase \in {"stop", "join"} => gen < MaxGen
    /\ \A t \in Thread : t[2] > gen => sync[t].pc = "none"
    /\ \A n \in Ingress :
        \/ phase = "update" /\ n \notin todo
        \/ phase = "start" /\ n \in todo
        => sync[<<n, gen>>].pc = "new"

LakeInv ==
    /\ TypeOK /\ Built /\ Stamped /\ OnRecords /\ Held
    /\ MarkSkipsNothing /\ CopiedMarked /\ NothingSkipped

Alive(t) == sync[t].pc \in InRun \cup {"started"}

\* As long as restart() overtook no thread, only syncs of the current
\* generation run, and those that stop() has been through have ended.
OnlyCurrentRun ==
    /\ \A t \in Thread :
        /\ Alive(t) => t[2] = gen
        /\ sync[t].stopped /\ sync[t].pc \in InRun => phase = "join" /\ t[1] \in todo
    /\ \A n \in Ingress :
        phase \in {"stop", "join"} /\ n \notin todo => ~Alive(<<n, gen>>)

\* The current sync of an ingress is not behind what was copied, and holds
\* only records that are ahead of it.
CurrentAhead ==
    \A t \in Thread : t[2] = gen /\ sync[t].pc \notin {"none", "dead"} =>
        \A s \in S(t) : \A q \in pool[s] : copied[t[1]][q] > 0 =>
            /\ q <= sync[t].ts[s]
            /\ \A r \in sync[t].batch \cap pool[s] : q < r

OrderInv == overtaken = {} => OnlyCurrentRun /\ CurrentAhead

-----------------------------------------------------------------------------
(* Facts about the operators *)

\* A set of records that is not empty has a largest one.
LEMMA LargestExists ==
    ASSUME NEW N \in Nat, NEW R, R \subseteq 1 .. N, R # {}
    PROVE  \E r \in R : \A q \in R : q <= r
<1> DEFINE D == {N - r : r \in R}
<1>1. D \subseteq Nat /\ D # {}
  <2>1. \A r \in R : r \in Int /\ N - r \in Nat
    OBVIOUS
  <2>2. PICK r \in R : TRUE
    OBVIOUS
  <2>3. N - r \in D
    BY <2>2
  <2> QED
    BY <2>1, <2>3
<1> DEFINE Less == {p \in Nat \X Nat : p[1] < p[2]}
<1>0. IsWellFoundedOn(Less, Nat)
  BY NatLessThanWellFounded DEF OpToRel
<1>2. PICK d \in D : \A e \in D : ~ (<<e, d>> \in Less)
  <2> HIDE DEF D, Less
  <2> QED
    BY <1>0, <1>1, WFMin
<1>3. \A e \in D : ~ (e < d)
  BY <1>1, <1>2
<1>4. PICK r \in R : d = N - r
  OBVIOUS
<1>5. \A q \in R : N - q \in D /\ N - q \in Int /\ q \in Int
  OBVIOUS
<1>6. \A q \in R : q <= r
  <2> SUFFICES ASSUME NEW q \in R PROVE q <= r
    OBVIOUS
  <2>1. ~ (N - q < N - r)
    BY <1>3, <1>4, <1>5
  <2> QED
    BY <2>1, <1>5
<1> QED
  BY <1>6

\* LatestOf, where a read takes source_ts, is the largest of the records or 0.
LEMMA LatestOfIsLargest ==
    ASSUME NEW R, R \subseteq Rec
    PROVE  /\ LatestOf(R) \in R \cup {0}
           /\ \A q \in R : q <= LatestOf(R)
<1>1. CASE R = {}
  BY <1>1 DEF LatestOf
<1>2. CASE R # {}
  <2>1. \E r \in R : \A q \in R : q <= r
    BY <1>2, LargestExists, DataSyncAssumption DEF Rec
  <2>2. LatestOf(R) = CHOOSE r \in R : \A q \in R : q <= r
    BY <1>2 DEF LatestOf
  <2> QED
    BY <2>1, <2>2
<1> QED
  BY <1>1, <1>2

LakeOK ==
    /\ pool \in [Source -> SUBSET Rec]
    /\ mark \in [Source -> 0 .. MaxRec]
    /\ copied \in [Ingress -> [Rec -> Nat]]
    /\ late \subseteq Rec
    /\ clock \in 0 .. MaxRec
    /\ writing \subseteq Source \X Rec

RouterOK ==
    /\ gen \in 1 .. MaxGen
    /\ phase \in {"idle", "stop", "join", "update", "start"}
    /\ todo \subseteq Ingress
    /\ overtaken \subseteq Thread

SyncOK ==
    /\ sync \in [Thread -> SyncType]
    /\ \A t \in Thread : sync[t].ts \in [S(t) -> 0 .. MaxRec]

\* Published appends a line to open streams and leaves all else of the syncs.
LEMMA PublishedKeeps ==
    ASSUME NEW ss, ss \in [Thread -> SyncType], NEW from
    PROVE  /\ Published(ss, from) \in [Thread -> SyncType]
           /\ \A t \in Thread :
                LET p == Published(ss, from)[t] IN
                /\ p.pc = ss[t].pc /\ p.ts = ss[t].ts
                /\ p.batch = ss[t].batch /\ p.stopped = ss[t].stopped
<1> DEFINE line(t) == IF S(t) \cap from # {} THEN "commit" ELSE "skip"
           next(t) == IF ss[t].open THEN [ss[t] EXCEPT !.lines = Append(@, line(t))]
                                    ELSE ss[t]
<1>1. ASSUME NEW t \in Thread
      PROVE  /\ next(t) \in SyncType
             /\ next(t).pc = ss[t].pc /\ next(t).ts = ss[t].ts
             /\ next(t).batch = ss[t].batch /\ next(t).stopped = ss[t].stopped
  <2>1. ss[t] \in SyncType
    OBVIOUS
  <2>2. ss[t].lines \in Seq({"commit", "skip"}) /\ line(t) \in {"commit", "skip"}
    BY <2>1 DEF SyncType
  <2>3. Append(ss[t].lines, line(t)) \in Seq({"commit", "skip"})
    BY <2>2
  <2> QED
    BY <2>1, <2>3 DEF SyncType
<1>2. Published(ss, from) = [t \in Thread |-> next(t)]
  BY DEF Published
<1> QED
  BY <1>1, <1>2

-----------------------------------------------------------------------------
(* The steps, by what they leave of a sync *)

Kept(t) ==
    /\ sync'[t].ts = sync[t].ts /\ sync'[t].batch = sync[t].batch
    /\ sync[t].pc = "load" => sync'[t].pc = "load"
    /\ sync[t].pc \in {"none", "dead"} => sync'[t].pc \in {"none", "dead"}

Cleared(t) ==
    /\ sync'[t].ts = [s \in S(t) |-> 0] /\ sync'[t].batch = {}
    /\ sync'[t].pc \in {"none", "dead"}

Resumed(t) ==
    sync'[t].ts = [s \in S(t) |-> mark[s]] /\ sync'[t].batch = {}

Same(t) ==
    /\ sync'[t].ts = sync[t].ts /\ sync'[t].batch = sync[t].batch
    /\ sync'[t].pc = sync[t].pc /\ sync'[t].stopped = sync[t].stopped

Others(t) == \A u \in Thread \ {t} : Same(u)

\* A step that gives one sync another value leaves the others.
LEMMA OneSync ==
    ASSUME SyncOK, NEW t \in Thread,
           NEW x \in SyncType, x.ts \in [S(t) -> 0 .. MaxRec],
           sync' = [sync EXCEPT ![t] = x]
    PROVE  SyncOK' /\ Others(t) /\ sync'[t] = x
BY DEF SyncOK, Others, Same, S

\* Where nothing was read, source_ts is 0.
LEMMA NothingRead ==
    ASSUME NEW t \in Thread
    PROVE  /\ S(t) \subseteq Source /\ t[1] \in Ingress
           /\ [s \in S(t) |-> 0] \in [S(t) -> 0 .. MaxRec]
           /\ [S(t) -> 0 .. MaxRec] \subseteq
                UNION {[SourcesOf[n] -> 0 .. MaxRec] : n \in Ingress}
BY DataSyncAssumption DEF Thread, S

\* A thread that has ended is at 0 and holds nothing.
LEMMA EndedTyped ==
    ASSUME NEW t \in Thread, NEW pc \in {"none", "dead"}
    PROVE  /\ Ended(t, pc) \in SyncType
           /\ Ended(t, pc).ts \in [S(t) -> 0 .. MaxRec]
           /\ Ended(t, pc).ts = [s \in S(t) |-> 0]
           /\ Ended(t, pc).pc = pc /\ Ended(t, pc).batch = {}
           /\ Ended(t, pc).stopped
<1> DEFINE z == [s \in S(t) |-> 0]
<1>1. /\ z \in [S(t) -> 0 .. MaxRec]
      /\ z \in UNION {[SourcesOf[n] -> 0 .. MaxRec] : n \in Ingress}
  BY NothingRead
<1>2. <<>> \in Seq({"commit", "skip"})
  OBVIOUS
<1>3. Ended(t, pc) = [pc |-> pc, ts |-> z, batch |-> {}, stopped |-> TRUE,
                      open |-> FALSE, lines |-> <<>>, missed |-> {}]
  BY DEF Ended
<1> HIDE DEF z
<1>4. Ended(t, pc) \in SyncType
  BY <1>1, <1>2, <1>3 DEF SyncType
<1>5. /\ Ended(t, pc).ts = z /\ Ended(t, pc).pc = pc
      /\ Ended(t, pc).batch = {} /\ Ended(t, pc).stopped
  BY <1>3
<1> QED
  BY <1>1, <1>4, <1>5 DEF z

\* A new sync is where the commit log is.
LEMMA NewTyped ==
    ASSUME NEW t \in Thread, mark \in [Source -> 0 .. MaxRec]
    PROVE  /\ NewSync(t) \in SyncType
           /\ NewSync(t).ts \in [S(t) -> 0 .. MaxRec]
           /\ NewSync(t).ts = [s \in S(t) |-> mark[s]]
           /\ NewSync(t).pc = "new" /\ NewSync(t).batch = {}
<1> DEFINE z == [s \in S(t) |-> mark[s]]
<1>1. z \in [S(t) -> 0 .. MaxRec]
  BY NothingRead
<1>2. z \in UNION {[SourcesOf[n] -> 0 .. MaxRec] : n \in Ingress}
  <2> HIDE DEF z
  <2> QED
    BY <1>1, NothingRead
<1>3. <<>> \in Seq({"commit", "skip"})
  OBVIOUS
<1>4. NewSync(t) = [pc |-> "new", ts |-> z, batch |-> {}, stopped |-> TRUE,
                    open |-> FALSE, lines |-> <<>>, missed |-> {}]
  BY DEF NewSync
<1> HIDE DEF z
<1>5. NewSync(t) \in SyncType
  BY <1>2, <1>3, <1>4 DEF SyncType
<1>6. NewSync(t).ts = z /\ NewSync(t).pc = "new" /\ NewSync(t).batch = {}
  BY <1>4
<1> QED
  BY <1>1, <1>5, <1>6 DEF z

\* The query returns records.
LEMMA NewerTyped ==
    ASSUME TypeOK, NEW t \in Thread
    PROVE  Newer(t) \subseteq Rec
<1>1. \A s \in S(t) : pool[s] \subseteq Rec
  BY NothingRead DEF TypeOK
<1> QED
  BY <1>1 DEF Newer

\* The steps of a thread that read and load nothing.
IdleRun(t) ==
    Begin(t) \/ Connect(t) \/ OnEvent(t) \/ OnBlank(t) \/ OnStop(t) \/ Fail(t)

\* A thread that neither reads nor loads keeps what it holds, or ends.
LEMMA IdleRunStep ==
    ASSUME TypeOK, SyncOK, NEW t \in Thread, IdleRun(t),
           sync[t].batch # {} => sync[t].pc = "load"
    PROVE  /\ SyncOK' /\ UNCHANGED <<lake, writers, router>>
           /\ Others(t) /\ (Kept(t) \/ Cleared(t))
           /\ Alive(t) /\ sync'[t].pc \in InRun \cup {"dead"}
           /\ sync'[t].pc \in InRun /\ sync'[t].stopped => sync[t].stopped /\ sync[t].pc \in InRun
<1>0. /\ sync \in [Thread -> SyncType] /\ sync[t] \in SyncType
      /\ sync[t].ts \in [S(t) -> 0 .. MaxRec]
  BY DEF SyncOK
<1>1. CASE Begin(t)
  <2> DEFINE x == [sync[t] EXCEPT !.pc = "read", !.stopped = FALSE]
  <2>1. sync' = [sync EXCEPT ![t] = x] /\ UNCHANGED <<lake, writers, router>>
    BY <1>0, <1>1 DEF Begin
  <2>2. x \in SyncType /\ x.ts \in [S(t) -> 0 .. MaxRec]
    BY <1>0, <1>1, NothingRead DEF Begin, SyncType, InRun
  <2>3. SyncOK' /\ Others(t) /\ sync'[t] = x
    <3> HIDE DEF x
    <3> QED
      BY <2>1, <2>2, OneSync
  <2> QED
    BY <1>0, <1>1, <2>1, <2>2, <2>3 DEF Begin, SyncType, Kept, Alive, InRun
<1>2. CASE Connect(t)
  <2> DEFINE x == [sync[t] EXCEPT !.pc = "wait", !.open = TRUE, !.missed = Newer(t)]
  <2>1. sync' = [sync EXCEPT ![t] = x] /\ UNCHANGED <<lake, writers, router>>
    BY <1>0, <1>2 DEF Connect
  <2>2. x \in SyncType /\ x.ts \in [S(t) -> 0 .. MaxRec]
    BY <1>0, <1>2, NewerTyped DEF Connect, SyncType, InRun
  <2>3. SyncOK' /\ Others(t) /\ sync'[t] = x
    <3> HIDE DEF x
    <3> QED
      BY <2>1, <2>2, OneSync
  <2> QED
    BY <1>0, <1>2, <2>1, <2>2, <2>3 DEF Connect, SyncType, Kept, Alive, InRun
<1>3. CASE OnEvent(t)
  <2> DEFINE x == [sync[t] EXCEPT
              !.pc = IF Head(sync[t].lines) = "commit" THEN "read" ELSE "blank",
              !.lines = Tail(@)]
  <2>1. sync' = [sync EXCEPT ![t] = x] /\ UNCHANGED <<lake, writers, router>>
    BY <1>0, <1>3 DEF OnEvent
  <2>2. x \in SyncType /\ x.ts \in [S(t) -> 0 .. MaxRec]
    BY <1>0, <1>3, NothingRead DEF OnEvent, SyncType, InRun
  <2>3. SyncOK' /\ Others(t) /\ sync'[t] = x
    <3> HIDE DEF x
    <3> QED
      BY <2>1, <2>2, OneSync
  <2> QED
    BY <1>0, <1>3, <2>1, <2>2, <2>3 DEF OnEvent, SyncType, Kept, Alive, InRun
<1>4. CASE OnBlank(t)
  <2> DEFINE x == [sync[t] EXCEPT !.pc = "wait"]
  <2>1. sync' = [sync EXCEPT ![t] = x] /\ UNCHANGED <<lake, writers, router>>
    BY <1>0, <1>4 DEF OnBlank
  <2>2. x \in SyncType /\ x.ts \in [S(t) -> 0 .. MaxRec]
    BY <1>0, <1>4, NothingRead DEF OnBlank, SyncType, InRun
  <2>3. SyncOK' /\ Others(t) /\ sync'[t] = x
    <3> HIDE DEF x
    <3> QED
      BY <2>1, <2>2, OneSync
  <2> QED
    BY <1>0, <1>4, <2>1, <2>2, <2>3 DEF OnBlank, SyncType, Kept, Alive, InRun
<1>5. CASE OnStop(t)
  <2> DEFINE x == Ended(t, "dead")
  <2>1. sync' = [sync EXCEPT ![t] = x] /\ UNCHANGED <<lake, writers, router>>
    BY <1>0, <1>5 DEF OnStop
  <2>2. x \in SyncType /\ x.ts \in [S(t) -> 0 .. MaxRec]
    BY EndedTyped
  <2>3. SyncOK' /\ Others(t) /\ sync'[t] = x
    <3> HIDE DEF x
    <3> QED
      BY <2>1, <2>2, OneSync
  <2> QED
    BY <1>0, <1>5, <2>1, <2>2, <2>3, EndedTyped DEF OnStop, Cleared, Alive, InRun
<1>6. CASE Fail(t)
  <2> DEFINE x == [Ended(t, "dead") EXCEPT !.stopped = sync[t].stopped]
  <2>1. sync' = [sync EXCEPT ![t] = x] /\ UNCHANGED <<lake, writers, router>>
    BY <1>0, <1>6 DEF Fail
  <2>2. x \in SyncType /\ x.ts \in [S(t) -> 0 .. MaxRec]
    BY <1>0, <1>6, EndedTyped DEF Fail, SyncType
  <2>3. SyncOK' /\ Others(t) /\ sync'[t] = x
    <3> HIDE DEF x
    <3> QED
      BY <2>1, <2>2, OneSync
  <2> QED
    BY <1>0, <1>6, <2>1, <2>2, <2>3, EndedTyped DEF Fail, SyncType, Cleared, Alive, InRun
<1> QED
  BY <1>1, <1>2, <1>3, <1>4, <1>5, <1>6 DEF IdleRun

\* Read takes what is newer and moves source_ts to the largest of it.
LEMMA ReadStep ==
    ASSUME TypeOK, SyncOK, NEW t \in Thread, Read(t)
    PROVE  /\ SyncOK' /\ UNCHANGED <<lake, writers, router>> /\ Others(t)
           /\ sync[t].pc = "read" /\ sync'[t].stopped = sync[t].stopped
           /\ sync'[t].pc \in InRun
           /\ sync'[t].batch = Newer(t)
           /\ sync'[t].batch # {} => sync'[t].pc = "load"
           /\ \A s \in S(t) :
                /\ sync'[t].ts[s] \in {sync[t].ts[s]} \cup (Newer(t) \cap pool[s])
                /\ sync[t].ts[s] <= sync'[t].ts[s]
                /\ \A r \in Newer(t) \cap pool[s] : r <= sync'[t].ts[s]
<1> DEFINE ts(s) == Larger(sync[t].ts[s], LatestOf(Newer(t) \cap pool[s]))
           x == [sync[t] EXCEPT !.batch = Newer(t), !.ts = [s \in S(t) |-> ts(s)],
                    !.missed = {},
                    !.pc = IF Newer(t) = {} THEN AfterOnce(t) ELSE "load"]
<1>0. /\ sync \in [Thread -> SyncType] /\ sync[t] \in SyncType
      /\ sync[t].ts \in [S(t) -> 0 .. MaxRec] /\ Newer(t) \in SUBSET Rec
  BY NewerTyped DEF SyncOK
<1>1. ASSUME NEW s \in S(t)
      PROVE  /\ ts(s) \in 0 .. MaxRec
             /\ ts(s) \in {sync[t].ts[s]} \cup (Newer(t) \cap pool[s])
             /\ sync[t].ts[s] <= ts(s)
             /\ \A r \in Newer(t) \cap pool[s] : r <= ts(s)
  <2> DEFINE new == Newer(t) \cap pool[s]
  <2>1. /\ LatestOf(new) \in new \cup {0}
        /\ \A r \in new : r <= LatestOf(new)
        /\ new \subseteq 1 .. MaxRec
    <3>1. new \subseteq Rec
      BY <1>0
    <3> QED
      BY <3>1, LatestOfIsLargest DEF Rec
  <2>2. sync[t].ts[s] \in 0 .. MaxRec
    BY <1>0
  <2> HIDE DEF new
  <2>3. /\ ts(s) \in {sync[t].ts[s]} \cup new /\ sync[t].ts[s] <= ts(s)
        /\ \A r \in new : r <= ts(s)
    <3>1. \A r \in new : r \in Int
      BY <2>1
    <3> QED
      BY <2>1, <2>2, <3>1 DEF Larger, new
  <2> QED
    BY <2>1, <2>2, <2>3, DataSyncAssumption DEF new
<1>2. sync' = [sync EXCEPT ![t] = x] /\ UNCHANGED <<lake, writers, router>>
  BY <1>0 DEF Read
<1>3. [s \in S(t) |-> ts(s)] \in [S(t) -> 0 .. MaxRec]
  BY <1>1
<1>4. x \in SyncType /\ x.ts = [s \in S(t) |-> ts(s)] /\ x.batch = Newer(t)
      /\ x.stopped = sync[t].stopped
      /\ x.pc = IF Newer(t) = {} THEN AfterOnce(t) ELSE "load"
  <2> HIDE DEF ts
  <2> QED
    BY <1>0, <1>3, NothingRead DEF SyncType, AfterOnce, InRun
<1>5. SyncOK' /\ Others(t) /\ sync'[t] = x
  <2> HIDE DEF x, ts
  <2> QED
    BY <1>2, <1>3, <1>4, OneSync
<1>6. /\ sync[t].pc = "read" /\ sync'[t].stopped = sync[t].stopped
      /\ sync'[t].pc \in InRun /\ sync'[t].batch = Newer(t)
      /\ sync'[t].batch # {} => sync'[t].pc = "load"
  <2> HIDE DEF x
  <2> QED
    BY <1>4, <1>5 DEF Read, AfterOnce, InRun
<1>7. \A s \in S(t) : sync'[t].ts[s] = ts(s)
  <2> HIDE DEF x, ts
  <2> QED
    BY <1>4, <1>5
<1> HIDE DEF x, ts
<1> QED
  BY <1>1, <1>2, <1>5, <1>6, <1>7

\* The type invariant in its parts.
LEMMA TypeParts ==
    /\ TypeOK <=> LakeOK /\ RouterOK /\ SyncOK /\ errs \in 0 .. MaxErr
    /\ TypeOK' <=> LakeOK' /\ RouterOK' /\ SyncOK' /\ errs' \in 0 .. MaxErr
BY DEF TypeOK, LakeOK, RouterOK, SyncOK, S

\* A load counts what is held, moves the commit log to source_ts, and holds no more.
LEMMA LoadStep ==
    ASSUME TypeOK, NEW t \in Thread, Load(t) \/ LoadUnanswered(t)
    PROVE  /\ TypeOK' /\ UNCHANGED <<pool, late, writers, router>> /\ Others(t)
           /\ sync[t].pc = "load" /\ sync'[t].batch = {}
           /\ \/ /\ sync'[t].ts = sync[t].ts /\ sync'[t].stopped = sync[t].stopped
                 /\ sync'[t].pc \in InRun
              \/ sync'[t].ts = [s \in S(t) |-> 0] /\ sync'[t].pc = "dead"
           /\ \A n \in Ingress, r \in Rec :
                copied'[n][r] = IF n = t[1] /\ r \in sync[t].batch
                                THEN copied[n][r] + 1 ELSE copied[n][r]
           /\ \A s \in Source :
                mark'[s] = IF s \in S(t) THEN Larger(mark[s], sync[t].ts[s]) ELSE mark[s]
<1> USE TypeParts
<1>0. /\ sync \in [Thread -> SyncType] /\ sync[t] \in SyncType
      /\ sync[t].ts \in [S(t) -> 0 .. MaxRec] /\ SyncOK
      /\ t[1] \in Ingress /\ S(t) \subseteq Source
  BY NothingRead DEF SyncOK
<1> DEFINE c == [r \in Rec |-> IF r \in sync[t].batch THEN copied[t[1]][r] + 1
                                                      ELSE copied[t[1]][r]]
           m(s) == IF s \in S(t) THEN Larger(mark[s], sync[t].ts[s]) ELSE mark[s]
<1>1. Loaded(t) /\ UNCHANGED <<pool, late, writers, router>> /\ sync[t].pc = "load"
      /\ errs' \in 0 .. MaxErr
  BY DataSyncAssumption DEF Load, LoadUnanswered
<1>2. /\ copied' = [copied EXCEPT ![t[1]] = c] /\ c \in [Rec -> Nat]
      /\ mark' = [s \in Source |-> m(s)]
      /\ copied \in [Ingress -> [Rec -> Nat]]
  BY <1>0, <1>1 DEF Loaded, LakeOK
<1>3. copied' \in [Ingress -> [Rec -> Nat]] /\ copied'[t[1]] = c
      /\ \A n \in Ingress \ {t[1]} : copied'[n] = copied[n]
  <2> HIDE DEF c
  <2> QED
    BY <1>0, <1>2
<1>4. ASSUME NEW s \in Source PROVE m(s) \in 0 .. MaxRec
  BY <1>0, DataSyncAssumption DEF LakeOK, Larger
<1>5. mark' \in [Source -> 0 .. MaxRec] /\ \A s \in Source : mark'[s] = m(s)
  <2> HIDE DEF m
  <2> QED
    BY <1>2, <1>4
<1>6. LakeOK' /\ RouterOK'
  BY <1>1, <1>3, <1>5 DEF LakeOK, RouterOK, writers, router
<1>7. \A n \in Ingress, r \in Rec :
        copied'[n][r] = IF n = t[1] /\ r \in sync[t].batch
                        THEN copied[n][r] + 1 ELSE copied[n][r]
  BY <1>3
<1> DEFINE Answer(x) ==
      /\ x \in SyncType /\ x.ts \in [S(t) -> 0 .. MaxRec] /\ x.batch = {}
      /\ \/ x.ts = sync[t].ts /\ x.stopped = sync[t].stopped /\ x.pc \in InRun
         \/ x.ts = [s \in S(t) |-> 0] /\ x.pc = "dead"
<1>8. \E x : Answer(x) /\ sync' = Published([sync EXCEPT ![t] = x], {})
  <2>1. CASE Load(t)
    <3> DEFINE x == [sync[t] EXCEPT !.batch = {}, !.pc = AfterOnce(t)]
    <3>1. sync' = Published([sync EXCEPT ![t] = x], {})
      BY <1>0, <2>1 DEF Load
    <3>2. Answer(x)
      BY <1>0 DEF SyncType, AfterOnce, InRun
    <3> HIDE DEF x, Answer
    <3> QED
      BY <3>1, <3>2
  <2>2. CASE LoadUnanswered(t)
    <3> DEFINE x == [Ended(t, "dead") EXCEPT !.stopped = sync[t].stopped]
    <3>1. sync' = Published([sync EXCEPT ![t] = x], {})
      BY <1>0, <2>2 DEF LoadUnanswered
    <3>2. Answer(x)
      BY <1>0, EndedTyped DEF SyncType
    <3> HIDE DEF x, Answer
    <3> QED
      BY <3>1, <3>2
  <2> QED
    BY <2>1, <2>2
<1>9. PICK x : Answer(x) /\ sync' = Published([sync EXCEPT ![t] = x], {})
  BY <1>8
<1> DEFINE ss == [sync EXCEPT ![t] = x]
<1>10. /\ ss \in [Thread -> SyncType] /\ ss[t] = x
       /\ \A u \in Thread \ {t} : ss[u] = sync[u]
       /\ sync' = Published(ss, {})
  BY <1>0, <1>9
<1>11. /\ sync' \in [Thread -> SyncType]
       /\ \A u \in Thread : /\ sync'[u].pc = ss[u].pc /\ sync'[u].ts = ss[u].ts
                            /\ sync'[u].batch = ss[u].batch
                            /\ sync'[u].stopped = ss[u].stopped
  <2> HIDE DEF ss
  <2> QED
    BY <1>10, PublishedKeeps
<1>12. SyncOK' /\ Others(t)
  <2> HIDE DEF ss
  <2>1. \A u \in Thread : ss[u].ts \in [S(u) -> 0 .. MaxRec]
    BY <1>0, <1>9, <1>10 DEF SyncOK
  <2>2. \A u \in Thread : sync'[u].ts \in [S(u) -> 0 .. MaxRec]
    BY <1>11, <2>1
  <2>3. Others(t)
    BY <1>10, <1>11 DEF Others, Same
  <2> QED
    BY <1>11, <2>2, <2>3 DEF SyncOK, S
<1> HIDE DEF ss, m, c
<1> QED
  BY <1>1, <1>5, <1>6, <1>7, <1>9, <1>10, <1>11, <1>12 DEF m

\* A commit adds the record to its source and tells the open streams.
LEMMA CommitStep ==
    ASSUME TypeOK, NEW s \in Source, NEW r \in Rec, Commit(s, r)
    PROVE  /\ TypeOK' /\ UNCHANGED <<clock, mark, copied, router>>
           /\ \A t \in Thread : Same(t)
           /\ <<s, r>> \in writing /\ writing' = writing \ {<<s, r>>}
           /\ \A z \in Source : pool'[z] = IF z = s THEN pool[s] \cup {r} ELSE pool[z]
           /\ late' = IF \E q \in pool[s] : q > r THEN late \cup {r} ELSE late
<1> USE TypeParts
<1>1. /\ <<s, r>> \in writing /\ writing' = writing \ {<<s, r>>}
      /\ UNCHANGED <<clock, mark, copied, router, errs>>
      /\ sync' = Published(sync, {s})
      /\ pool' = [pool EXCEPT ![s] = @ \cup {r}]
      /\ late' = IF \E q \in pool[s] : q > r THEN late \cup {r} ELSE late
  BY DEF Commit
<1>2. \A z \in Source : pool'[z] = IF z = s THEN pool[s] \cup {r} ELSE pool[z]
  BY <1>1 DEF LakeOK
<1>3. LakeOK' /\ RouterOK' /\ errs' \in 0 .. MaxErr
  BY <1>1 DEF LakeOK, RouterOK, router
<1>4. sync' \in [Thread -> SyncType] /\ \A t \in Thread : Same(t)
  BY <1>1, PublishedKeeps DEF SyncOK, Same
<1>5. SyncOK'
  BY <1>4 DEF SyncOK, Same, S
<1> QED
  BY <1>1, <1>2, <1>3, <1>4, <1>5

\* The steps of restart(), and the start of the process.
RouterAct ==
    \/ Restart \/ Forget \/ BuildFails \/ Crash
    \/ \E n \in Ingress :
        StopReturns(n) \/ StopSets(n) \/ Joined(n) \/ Build(n) \/ Start(n)

Quiet ==
    /\ UNCHANGED <<lake, writers>>
    /\ \A t \in Thread : Kept(t) \/ Cleared(t) \/ Resumed(t)
    /\ \/ gen' = gen
       \/ \A t \in Thread : t[2] = gen' => sync'[t].pc = "none"

\* The router's steps move no record: a sync keeps what it holds, ends, or is new.
LEMMA RouterStep ==
    ASSUME TypeOK, Built, Held, RouterAct
    PROVE  TypeOK' /\ Built' /\ Quiet
<1> USE TypeParts
<1>0. /\ sync \in [Thread -> SyncType]
      /\ \A t \in Thread : sync[t] \in SyncType /\ t[2] \in 1 .. MaxGen
      /\ gen \in 1 .. MaxGen
      /\ \A n \in Ingress : <<n, gen>> \in Thread
  BY DEF SyncOK, RouterOK, Thread
<1>a. LakeOK' <=> LakeOK
  <2> SUFFICES ASSUME UNCHANGED <<lake, writers>> PROVE LakeOK' <=> LakeOK
    BY DEF RouterAct, Restart, Forget, BuildFails, Crash, StopReturns, StopSets,
           Joined, Build, Start, lake, writers
  <2> QED
    BY DEF LakeOK, lake, writers
<1>b. ASSUME UNCHANGED sync PROVE SyncOK' /\ \A t \in Thread : Kept(t)
  BY <1>b DEF SyncOK, Kept, S
<1>c. ASSUME NEW t \in Thread, Others(t)
      PROVE  \A u \in Thread \ {t} : Kept(u)
  BY <1>c DEF Others, Same, Kept
<1>1. CASE Restart
  BY <1>0, <1>1, <1>a, <1>b DEF Restart, RouterOK, Built, Quiet
<1>2. CASE Forget
  <2>1. /\ phase = "stop" /\ gen' = gen + 1 /\ phase' = "update" /\ todo' = Ingress
        /\ UNCHANGED <<lake, writers, sync, overtaken, errs>>
    BY <1>2 DEF Forget
  <2>2. gen + 1 \in 1 .. MaxGen
    BY <1>0, <2>1, DataSyncAssumption DEF Built
  <2>3. RouterOK' /\ LakeOK' /\ errs' \in 0 .. MaxErr
    BY <1>a, <2>1, <2>2 DEF RouterOK
  <2>4. \A t \in Thread : t[2] >= gen + 1 => sync'[t].pc = "none"
    BY <1>0, <2>1 DEF Built
  <2>5. Built'
    BY <1>0, <2>1, <2>4 DEF Built
  <2> QED
    BY <1>0, <1>b, <2>1, <2>3, <2>4, <2>5 DEF Quiet
<1>3. CASE BuildFails
  <2>1. /\ errs' \in 0 .. MaxErr /\ phase' = "idle" /\ todo' = {}
        /\ UNCHANGED <<lake, writers, sync, gen, overtaken>>
    BY <1>3, DataSyncAssumption DEF BuildFails
  <2> QED
    BY <1>0, <1>a, <1>b, <2>1 DEF RouterOK, Built, Quiet
<1>4. CASE Crash
  <2>1. /\ gen' = gen + 1 /\ gen' \in 1 .. MaxGen /\ phase' = "update" /\ todo' = Ingress
        /\ UNCHANGED <<lake, writers, overtaken, errs>>
        /\ sync' = [t \in Thread |-> Ended(t, "none")]
    BY <1>0, <1>4, DataSyncAssumption DEF Crash
  <2>2. ASSUME NEW t \in Thread
        PROVE  /\ sync'[t] \in SyncType /\ sync'[t].ts \in [S(t) -> 0 .. MaxRec]
               /\ Cleared(t) /\ sync'[t].pc = "none"
    BY <2>1, EndedTyped DEF Cleared
  <2>3. sync' \in [Thread -> SyncType]
    BY <2>1, <2>2
  <2>4. SyncOK'
    BY <2>2, <2>3 DEF SyncOK, S
  <2> QED
    BY <1>a, <2>1, <2>2, <2>4 DEF RouterOK, Built, Quiet
<1>5. ASSUME NEW n \in Ingress, StopReturns(n) PROVE TypeOK' /\ Built' /\ Quiet
  BY <1>0, <1>5, <1>a, <1>b DEF StopReturns, RouterOK, Built, Quiet
<1>6. ASSUME NEW n \in Ingress, StopSets(n) PROVE TypeOK' /\ Built' /\ Quiet
  <2> DEFINE t == <<n, gen>>
             x == [sync[t] EXCEPT !.stopped = TRUE]
  <2>1. /\ phase = "stop" /\ phase' = "join" /\ UNCHANGED <<lake, writers, gen, todo, overtaken, errs>>
        /\ sync' = [sync EXCEPT ![t] = x]
    BY <1>0, <1>6 DEF StopSets
  <2>2. /\ x \in SyncType /\ x.ts \in [S(t) -> 0 .. MaxRec]
        /\ x.ts = sync[t].ts /\ x.batch = sync[t].batch /\ x.pc = sync[t].pc
    BY <1>0 DEF SyncType, SyncOK
  <2>3. SyncOK' /\ Others(t) /\ sync'[t] = x
    <3> HIDE DEF x
    <3> QED
      BY <1>0, <2>1, <2>2, OneSync
  <2>4. \A u \in Thread : Kept(u) /\ sync'[u].pc = sync[u].pc
    <3> HIDE DEF x
    <3> QED
      BY <1>0, <1>c, <2>2, <2>3 DEF Kept, Others, Same
  <2>5. Built'
    BY <1>0, <2>1, <2>4 DEF Built
  <2> QED
    BY <1>a, <2>1, <2>3, <2>4, <2>5 DEF RouterOK, Quiet
<1>7. ASSUME NEW n \in Ingress, Joined(n) PROVE TypeOK' /\ Built' /\ Quiet
  BY <1>0, <1>7, <1>a, <1>b DEF Joined, RouterOK, Built, Quiet
<1>8. ASSUME NEW n \in Ingress, Build(n) PROVE TypeOK' /\ Built' /\ Quiet
  <2> DEFINE t == <<n, gen>>
             x == NewSync(t)
  <2>1. /\ phase = "update" /\ n \in todo /\ UNCHANGED <<lake, writers, gen, overtaken, errs>>
        /\ sync' = [sync EXCEPT ![t] = x]
        /\ IF todo = {n} THEN phase' = "start" /\ todo' = Ingress
                         ELSE phase' = phase /\ todo' = todo \ {n}
    BY <1>8 DEF Build
  <2>2. /\ x \in SyncType /\ x.ts \in [S(t) -> 0 .. MaxRec] /\ x.pc = "new"
        /\ x.ts = [s \in S(t) |-> mark[s]] /\ x.batch = {}
    BY <1>0, NewTyped DEF LakeOK
  <2> HIDE DEF x
  <2>3. SyncOK' /\ Others(t) /\ sync'[t] = x
    BY <1>0, <2>1, <2>2, OneSync
  <2>4. Resumed(t) /\ \A u \in Thread \ {t} : Kept(u)
    BY <1>0, <1>c, <2>2, <2>3 DEF Resumed
  <2>5. \A u \in Thread \ {t} : sync'[u].pc = sync[u].pc
    BY <2>3 DEF Others, Same
  <2>6. RouterOK'
    BY <2>1 DEF RouterOK
  <2>7. \A m \in Ingress : m # n => <<m, gen>> \in Thread \ {t}
    BY <1>0
  <2>8. Built'
    <3>1. phase' # "stop" /\ phase' # "join" /\ gen' = gen
      BY <2>1
    <3>2. \A u \in Thread : u[2] > gen => sync'[u].pc = "none"
      BY <1>0, <2>5 DEF Built
    <3>3. \A m \in Ingress : m \notin todo \ {n} => sync'[<<m, gen>>].pc = "new"
      BY <2>1, <2>2, <2>3, <2>5, <2>7 DEF Built
    <3> QED
      BY <2>1, <3>1, <3>2, <3>3 DEF Built
  <2> QED
    BY <1>a, <2>1, <2>3, <2>4, <2>6, <2>8 DEF Quiet
<1>9. ASSUME NEW n \in Ingress, Start(n) PROVE TypeOK' /\ Built' /\ Quiet
  <2> DEFINE t == <<n, gen>>
             x == [sync[t] EXCEPT !.pc = "started"]
  <2>1. /\ phase = "start" /\ n \in todo /\ UNCHANGED <<lake, writers, gen, overtaken, errs>>
        /\ sync' = [sync EXCEPT ![t] = x]
        /\ todo' = todo \ {n} /\ phase' \in {"idle", phase}
        /\ sync[t].pc = "new"
    BY <1>0, <1>9 DEF Start, Built
  <2>2. /\ x \in SyncType /\ x.ts \in [S(t) -> 0 .. MaxRec]
        /\ x.ts = sync[t].ts /\ x.batch = sync[t].batch /\ x.pc = "started"
    BY <1>0 DEF SyncType, SyncOK
  <2> HIDE DEF x
  <2>3. SyncOK' /\ Others(t) /\ sync'[t] = x
    BY <1>0, <2>1, <2>2, OneSync
  <2>4. \A u \in Thread : Kept(u)
    BY <1>0, <1>c, <2>1, <2>2, <2>3 DEF Kept
  <2>5. \A u \in Thread \ {t} : sync'[u].pc = sync[u].pc
    BY <2>3 DEF Others, Same
  <2>6. Built'
    <3>1. phase' \in {"idle", "start"} /\ gen' = gen
      BY <2>1
    <3>2. \A u \in Thread : u[2] > gen => sync'[u].pc = "none"
      BY <1>0, <2>5 DEF Built
    <3>3. \A m \in Ingress : m \in todo \ {n} => sync'[<<m, gen>>].pc = "new"
      BY <1>0, <2>1, <2>5 DEF Built
    <3> QED
      BY <2>1, <3>1, <3>2, <3>3 DEF Built
  <2>7. RouterOK'
    BY <2>1 DEF RouterOK
  <2> QED
    BY <1>a, <2>1, <2>3, <2>4, <2>6, <2>7 DEF Quiet
<1> QED
  BY <1>1, <1>2, <1>3, <1>4, <1>5, <1>6, <1>7, <1>8, <1>9 DEF RouterAct

-----------------------------------------------------------------------------
(* No record is passed over *)

\* What a step of a thread leaves of the syncs that are built and not started.
LEMMA RunKeepsBuilt ==
    ASSUME TypeOK, Built, NEW t \in Thread, Alive(t) \/ sync[t].pc \in InRun,
           Others(t), UNCHANGED router
    PROVE  Built'
<1>1. /\ \A u \in Thread : t[2] \in Int /\ gen \in Int
      /\ \A n \in Ingress : <<n, gen>> \in Thread
  BY DEF TypeOK, Thread
<1>2. sync[t].pc # "none" /\ sync[t].pc # "new"
  BY DEF Alive, InRun
<1> QED
  BY <1>1, <1>2 DEF Built, Others, Same, router

\* A step that reads, loads and commits nothing keeps what is said of the records.
LEMMA QuietKeeps ==
    ASSUME LakeInv, UNCHANGED lake,
           \A t \in Thread : Kept(t) \/ Cleared(t) \/ Resumed(t)
    PROVE  (OnRecords /\ Held /\ MarkSkipsNothing /\ CopiedMarked /\ NothingSkipped)'
<1>0. /\ UNCHANGED <<pool, mark, copied, late>>
      /\ \A t \in Thread : S(t) \subseteq Source /\ t[1] \in Ingress /\ S(t) = SourcesOf[t[1]]
      /\ \A s \in Source : pool[s] \subseteq 1 .. MaxRec
  BY NothingRead DEF lake, S, LakeInv, TypeOK, Rec
<1>1. MarkSkipsNothing' /\ CopiedMarked'
  BY <1>0 DEF LakeInv, MarkSkipsNothing, CopiedMarked, DisjointSources
<1>2. ASSUME NEW t \in Thread
      PROVE  /\ \A s \in S(t) : sync'[t].ts[s] \in pool'[s] \cup {0}
             /\ sync'[t].batch # {} => sync'[t].pc = "load"
             /\ \A r \in sync'[t].batch : \E s \in S(t) : r \in pool'[s]
             /\ \A s \in S(t) : \A r \in sync'[t].batch \cap pool'[s] : r <= sync'[t].ts[s]
             /\ DisjointSources => Passed(t)' \subseteq late'
  <2>1. CASE Kept(t)
    <3>1. Passed(t)' = Passed(t)
      BY <1>0, <2>1 DEF Kept, Passed, S
    <3> QED
      BY <1>0, <2>1, <3>1 DEF Kept, LakeInv, OnRecords, Held, NothingSkipped
  <2>2. CASE Cleared(t)
    <3>1. Passed(t)' = {}
      BY <1>0, <2>2 DEF Cleared, Passed, S
    <3> QED
      BY <1>0, <2>2, <3>1 DEF Cleared
  <2>3. CASE Resumed(t)
    <3>1. DisjointSources => Passed(t)' \subseteq late
      <4> SUFFICES ASSUME DisjointSources, NEW r \in Passed(t)' PROVE r \in late
        OBVIOUS
      <4>1. /\ copied[t[1]][r] = 0
            /\ \E s \in S(t) : r \in pool[s] /\ r <= mark[s]
        BY <1>0, <2>3 DEF Resumed, Passed, S
      <4> QED
        BY <1>0, <4>1 DEF LakeInv, MarkSkipsNothing
    <3>2. \A s \in S(t) : sync'[t].ts[s] = mark[s]
      BY <2>3 DEF Resumed
    <3> QED
      BY <1>0, <2>3, <3>1, <3>2 DEF Resumed, LakeInv, OnRecords
  <2> QED
    BY <1>2, <2>1, <2>2, <2>3
<1>3. OnRecords'
  BY <1>0, <1>2 DEF OnRecords, S, LakeInv
<1>4. Held'
  BY <1>2 DEF Held, S
<1>5. NothingSkipped'
  BY <1>2 DEF NothingSkipped, DisjointSources
<1> QED
  BY <1>1, <1>3, <1>4, <1>5

\* A read takes all between the old source_ts and the new one.
LEMMA ReadKeeps ==
    ASSUME LakeInv, NEW t \in Thread, Read(t)
    PROVE  LakeInv'
<1>0. /\ TypeOK /\ Built /\ Stamped /\ OnRecords /\ Held
      /\ MarkSkipsNothing /\ CopiedMarked /\ NothingSkipped /\ SyncOK /\ errs' = errs
  BY TypeParts DEF LakeInv, Read
<1>1. /\ SyncOK' /\ UNCHANGED <<lake, writers, router>> /\ Others(t)
      /\ sync[t].pc = "read" /\ sync'[t].batch = Newer(t)
      /\ sync'[t].batch # {} => sync'[t].pc = "load"
      /\ \A s \in S(t) :
           /\ sync'[t].ts[s] \in {sync[t].ts[s]} \cup (Newer(t) \cap pool[s])
           /\ \A r \in Newer(t) \cap pool[s] : r <= sync'[t].ts[s]
  BY <1>0, ReadStep
<1>2. /\ UNCHANGED <<pool, mark, copied, late, clock, writing, gen, phase, todo, overtaken>>
      /\ \A u \in Thread : S(u) \subseteq Source
      /\ \A s \in Source : pool[s] \subseteq 1 .. MaxRec
      /\ sync[t].batch = {}
  BY <1>0, <1>1, NothingRead DEF lake, writers, router, TypeOK, Rec, Held
<1>3. TypeOK'
  <2>1. LakeOK' /\ RouterOK' /\ errs' \in 0 .. MaxErr
    BY <1>0, <1>2, TypeParts DEF LakeOK, RouterOK
  <2> QED
    BY <1>1, <2>1, TypeParts
<1>4. Built'
  BY <1>0, <1>1, RunKeepsBuilt DEF InRun
<1>5. Stamped' /\ MarkSkipsNothing' /\ CopiedMarked'
  BY <1>0, <1>2 DEF Stamped, MarkSkipsNothing, CopiedMarked, DisjointSources
<1>6. OnRecords'
  <2>1. \A u \in Thread : \A s \in S(u) : sync'[u].ts[s] \in pool[s] \cup {0}
    BY <1>0, <1>1 DEF OnRecords, Others, Same
  <2> QED
    BY <1>0, <1>2, <2>1 DEF OnRecords, S
<1>7. Held'
  <2>1. \A r \in Newer(t) : \E s \in S(t) : r \in pool[s]
    BY DEF Newer
  <2>2. ASSUME NEW u \in Thread
        PROVE  /\ sync'[u].batch # {} => sync'[u].pc = "load"
               /\ \A r \in sync'[u].batch : \E s \in S(u) : r \in pool[s]
               /\ \A s \in S(u) : \A r \in sync'[u].batch \cap pool[s] : r <= sync'[u].ts[s]
    BY <1>0, <1>1, <2>1 DEF Held, Others, Same
  <2> QED
    BY <1>2, <2>2 DEF Held, S
<1>8. NothingSkipped'
  <2> SUFFICES ASSUME DisjointSources, NEW u \in Thread PROVE Passed(u)' \subseteq late
    BY <1>2 DEF NothingSkipped, DisjointSources
  <2>1. CASE u # t
    BY <1>0, <1>1, <1>2, <2>1 DEF NothingSkipped, Passed, Others, Same, S
  <2>2. CASE u = t
    <3> SUFFICES ASSUME NEW r \in Passed(t)' PROVE r \in Passed(t)
      BY <1>0, <2>2 DEF NothingSkipped
    <3>1. PICK s \in S(t) : r \in pool[s] /\ r <= sync'[t].ts[s]
      BY <1>2 DEF Passed, S
    <3>2. copied[t[1]][r] = 0 /\ r \notin Newer(t)
      BY <1>1, <1>2 DEF Passed
    <3>3. r \in Int /\ sync[t].ts[s] \in Int
      BY <1>0, <1>2, <3>1 DEF SyncOK
    <3>4. r <= sync[t].ts[s]
      BY <3>1, <3>2, <3>3 DEF Newer
    <3> QED
      BY <1>2, <3>1, <3>2, <3>4 DEF Passed
  <2> QED
    BY <2>1, <2>2
<1> QED
  BY <1>3, <1>4, <1>5, <1>6, <1>7, <1>8 DEF LakeInv

\* A load moves the commit log over what it loads, and over no other record.
LEMMA LoadKeeps ==
    ASSUME LakeInv, NEW t \in Thread, Load(t) \/ LoadUnanswered(t)
    PROVE  LakeInv'
<1>0. /\ TypeOK /\ Built /\ Stamped /\ OnRecords /\ Held
      /\ MarkSkipsNothing /\ CopiedMarked /\ NothingSkipped /\ SyncOK
  BY TypeParts DEF LakeInv
<1> DEFINE held == sync[t].batch
<1>1. /\ TypeOK' /\ UNCHANGED <<pool, late, writers, router>> /\ Others(t)
      /\ sync[t].pc = "load" /\ sync'[t].batch = {}
      /\ sync'[t].ts = sync[t].ts \/ sync'[t].ts = [s \in S(t) |-> 0]
      /\ \A n \in Ingress, r \in Rec :
           copied'[n][r] = IF n = t[1] /\ r \in held
                           THEN copied[n][r] + 1 ELSE copied[n][r]
      /\ \A s \in Source :
           mark'[s] = IF s \in S(t) THEN Larger(mark[s], sync[t].ts[s]) ELSE mark[s]
  BY <1>0, LoadStep
<1>2. /\ UNCHANGED <<pool, late, clock, writing>>
      /\ \A u \in Thread : S(u) \subseteq Source /\ S(u) = SourcesOf[u[1]] /\ u[1] \in Ingress
      /\ \A n \in Ingress : SourcesOf[n] \subseteq Source
      /\ \A s \in Source : pool[s] \subseteq Rec /\ pool[s] \subseteq Int /\ mark[s] \in Int
      /\ \A n \in Ingress, r \in Rec : copied[n][r] \in Nat
  BY <1>0, <1>1, NothingRead, DataSyncAssumption DEF writers, TypeOK, Rec, S
<1>3. \A s \in S(t) : sync[t].ts[s] \in Int
  BY <1>0 DEF SyncOK
<1>4. \A n \in Ingress, r \in Rec :
        /\ copied[n][r] > 0 => copied'[n][r] > 0
        /\ n = t[1] /\ r \in held => copied'[n][r] > 0
        /\ copied'[n][r] > 0 => copied[n][r] > 0 \/ (n = t[1] /\ r \in held)
  BY <1>1, <1>2
<1>5. \A s \in Source :
        /\ mark[s] <= mark'[s]
        /\ s \in S(t) => sync[t].ts[s] <= mark'[s]
        /\ mark'[s] = mark[s] \/ (s \in S(t) /\ mark'[s] = sync[t].ts[s])
        /\ mark'[s] \in Int
  BY <1>1, <1>2, <1>3 DEF Larger
<1>6. DisjointSources => \A s \in S(t) : \A r \in pool[s] :
        r <= sync[t].ts[s] => copied'[t[1]][r] > 0 \/ r \in late
  <2> SUFFICES ASSUME DisjointSources, NEW s \in S(t), NEW r \in pool[s],
                      r <= sync[t].ts[s], r \notin late
               PROVE  copied'[t[1]][r] > 0
    OBVIOUS
  <2>1. r \in Rec /\ t[1] \in Ingress
    BY <1>2
  <2>2. r \notin Passed(t)
    BY <1>0 DEF NothingSkipped
  <2>3. copied[t[1]][r] # 0 \/ r \in held
    BY <2>2 DEF Passed
  <2> QED
    BY <1>2, <1>4, <2>1, <2>3
<1>7. Built'
  BY <1>0, <1>1, RunKeepsBuilt DEF InRun
<1>8. Stamped'
  BY <1>0, <1>2 DEF Stamped
<1>9. OnRecords'
  <2>1. \A u \in Thread : \A s \in S(u) : sync'[u].ts[s] \in pool[s] \cup {0}
    BY <1>0, <1>1 DEF OnRecords, Others, Same
  <2>2. \A s \in Source : mark'[s] \in pool[s] \cup {0}
    BY <1>0, <1>5 DEF OnRecords
  <2> QED
    BY <1>2, <2>1, <2>2 DEF OnRecords, S
<1>10. Held'
  <2>1. ASSUME NEW u \in Thread
        PROVE  /\ sync'[u].batch # {} => sync'[u].pc = "load"
               /\ \A r \in sync'[u].batch : \E s \in S(u) : r \in pool[s]
               /\ \A s \in S(u) : \A r \in sync'[u].batch \cap pool[s] : r <= sync'[u].ts[s]
    BY <1>0, <1>1 DEF Held, Others, Same
  <2> QED
    BY <1>2, <2>1 DEF Held, S
<1>11. MarkSkipsNothing'
  <2> SUFFICES ASSUME DisjointSources, NEW n \in Ingress, NEW s \in SourcesOf[n],
                      NEW r \in pool[s], r <= mark'[s]
               PROVE  copied'[n][r] > 0 \/ r \in late
    BY <1>2 DEF MarkSkipsNothing, DisjointSources
  <2>1. r \in Rec /\ s \in Source
    BY <1>2
  <2>2. CASE r <= mark[s]
    BY <1>0, <1>4, <2>1, <2>2 DEF MarkSkipsNothing
  <2>3. CASE ~ (r <= mark[s])
    <3>1. s \in S(t) /\ r <= sync[t].ts[s]
      BY <1>5, <2>1, <2>3
    <3>2. n = t[1]
      BY <1>2, <3>1 DEF DisjointSources
    <3> QED
      BY <1>6, <3>1, <3>2
  <2> QED
    BY <2>2, <2>3
<1>12. CopiedMarked'
  <2> SUFFICES ASSUME NEW n \in Ingress, NEW r \in Rec, copied'[n][r] > 0
               PROVE  /\ \E s \in SourcesOf[n] : r \in pool[s]
                      /\ \A s \in SourcesOf[n] : r \in pool[s] => r <= mark'[s]
    BY <1>2 DEF CopiedMarked
  <2>1. CASE copied[n][r] > 0
    <3>1. /\ \E s \in SourcesOf[n] : r \in pool[s]
          /\ \A s \in SourcesOf[n] : r \in pool[s] => r <= mark[s]
      BY <1>0, <2>1 DEF CopiedMarked
    <3>2. r \in Int
      BY DEF Rec
    <3> QED
      BY <1>2, <1>5, <3>1, <3>2
  <2>2. CASE n = t[1] /\ r \in held
    <3>1. /\ \E s \in SourcesOf[n] : r \in pool[s]
          /\ \A s \in SourcesOf[n] : r \in pool[s] => r <= sync[t].ts[s]
      BY <1>0, <1>2, <2>2 DEF Held
    <3>2. r \in Int
      BY DEF Rec
    <3> QED
      BY <1>2, <1>3, <1>5, <2>2, <3>1, <3>2
  <2> QED
    BY <1>4, <2>1, <2>2
<1>13. NothingSkipped'
  <2> SUFFICES ASSUME DisjointSources, NEW u \in Thread, NEW r \in Passed(u)'
               PROVE  r \in late
    BY <1>2 DEF NothingSkipped, DisjointSources
  <2>1. PICK s \in S(u) : r \in pool[s] /\ r <= sync'[u].ts[s]
    BY <1>2 DEF Passed, S
  <2>2. copied'[u[1]][r] = 0 /\ r \notin sync'[u].batch
    BY DEF Passed
  <2>3. r \in Rec /\ r \in Int /\ u[1] \in Ingress
    BY <1>2, <2>1
  <2>4. copied[u[1]][r] = 0 /\ ~ (u[1] = t[1] /\ r \in held)
    BY <1>1, <1>2, <2>2, <2>3
  <2>5. CASE u # t
    <3>1. r \in Passed(u)
      BY <1>1, <2>1, <2>2, <2>4, <2>5 DEF Passed, Others, Same
    <3> QED
      BY <1>0, <3>1 DEF NothingSkipped
  <2>6. CASE u = t
    <3>1. r >= 1
      BY <2>3 DEF Rec
    <3>2. sync'[t].ts = sync[t].ts
      BY <1>1, <2>1, <2>3, <2>6, <3>1
    <3>3. r \in Passed(t)
      BY <2>1, <2>4, <2>6, <3>2 DEF Passed
    <3> QED
      BY <1>0, <3>3 DEF NothingSkipped
  <2> QED
    BY <2>5, <2>6
<1> QED
  BY <1>1, <1>7, <1>8, <1>9, <1>10, <1>11, <1>12, <1>13 DEF LakeInv

\* A record that is committed below the source_ts of a sync is a late one.
LEMMA CommitKeeps ==
    ASSUME LakeInv, NEW z \in Source, NEW q \in Rec, Commit(z, q)
    PROVE  LakeInv'
<1>0. /\ TypeOK /\ Built /\ Stamped /\ OnRecords /\ Held
      /\ MarkSkipsNothing /\ CopiedMarked /\ NothingSkipped /\ SyncOK
  BY TypeParts DEF LakeInv
<1>1. /\ TypeOK' /\ UNCHANGED <<clock, mark, copied, router>>
      /\ \A t \in Thread : Same(t)
      /\ <<z, q>> \in writing /\ writing' = writing \ {<<z, q>>}
      /\ \A s \in Source : pool'[s] = IF s = z THEN pool[z] \cup {q} ELSE pool[s]
      /\ late' = IF \E r \in pool[z] : r > q THEN late \cup {q} ELSE late
  BY <1>0, CommitStep
<1>2. /\ \A u \in Thread : S(u) \subseteq Source /\ u[1] \in Ingress
      /\ \A n \in Ingress : SourcesOf[n] \subseteq Source
      /\ \A s \in Source : pool[s] \subseteq Rec /\ mark[s] \in Int
      /\ \A s \in Source : q \notin pool[s]
      /\ \A r \in Rec : r \in Int /\ r >= 1
      /\ \A n \in Ingress, r \in Rec : copied[n][r] \in Nat
  <2>1. \A s \in Source : q \notin pool[s]
    BY <1>0, <1>1 DEF Stamped
  <2>2. \A s \in Source : pool[s] \subseteq Rec /\ mark[s] \in Int
    BY <1>0 DEF TypeOK
  <2>3. \A n \in Ingress, r \in Rec : copied[n][r] \in Nat
    BY <1>0 DEF TypeOK
  <2>4. \A r \in Rec : r \in Int /\ r >= 1
    BY DEF Rec
  <2> QED
    BY <2>1, <2>2, <2>3, <2>4, NothingRead, DataSyncAssumption
<1>3. /\ \A s \in Source : pool[s] \subseteq pool'[s]
      /\ \A s \in Source : \A r \in pool'[s] : r \in pool[s] \/ (s = z /\ r = q)
  BY <1>1
<1>4. \A r \in pool[z] : q <= r => q \in late'
  <2> SUFFICES ASSUME NEW r \in pool[z], q <= r PROVE q \in late'
    OBVIOUS
  <2>1. r > q
    BY <1>2
  <2> QED
    BY <1>1, <2>1
<1>5. Built'
  BY <1>0, <1>1 DEF Built, Same, router, TypeOK, Thread
<1>6. Stamped'
  <2>1. q <= clock
    BY <1>0, <1>1 DEF Stamped
  <2> QED
    BY <1>0, <1>1, <1>3, <2>1 DEF Stamped
<1>7. OnRecords'
  <2>1. \A u \in Thread : \A s \in S(u) : sync'[u].ts[s] \in pool'[s] \cup {0}
    BY <1>0, <1>1, <1>2, <1>3 DEF OnRecords, Same
  <2>2. \A s \in Source : mark'[s] \in pool'[s] \cup {0}
    BY <1>0, <1>1, <1>3 DEF OnRecords
  <2> QED
    BY <2>1, <2>2 DEF OnRecords, S
<1>8. Held'
  <2>1. ASSUME NEW u \in Thread
        PROVE  /\ sync'[u].batch # {} => sync'[u].pc = "load"
               /\ \A r \in sync'[u].batch : \E s \in S(u) : r \in pool'[s]
               /\ \A s \in S(u) : \A r \in sync'[u].batch \cap pool'[s] : r <= sync'[u].ts[s]
    <3>1. q \notin sync[u].batch
      BY <1>0, <1>2 DEF Held
    <3> QED
      BY <1>0, <1>1, <1>2, <1>3, <3>1 DEF Held, Same
  <2> QED
    BY <2>1 DEF Held, S
<1>9. MarkSkipsNothing'
  <2> SUFFICES ASSUME DisjointSources, NEW n \in Ingress, NEW s \in SourcesOf[n],
                      NEW r \in pool'[s], r <= mark[s]
               PROVE  copied[n][r] > 0 \/ r \in late'
    BY <1>1 DEF MarkSkipsNothing, DisjointSources
  <2>1. CASE r \in pool[s]
    BY <1>0, <1>1, <2>1 DEF MarkSkipsNothing
  <2>2. CASE s = z /\ r = q
    <3>1. mark[z] \in pool[z]
      BY <1>0, <1>2, <2>2 DEF OnRecords
    <3> QED
      BY <1>4, <2>2, <3>1
  <2> QED
    BY <1>2, <1>3, <2>1, <2>2
<1>10. CopiedMarked'
  <2> SUFFICES ASSUME NEW n \in Ingress, NEW r \in Rec, copied[n][r] > 0
               PROVE  /\ \E s \in SourcesOf[n] : r \in pool'[s]
                      /\ \A s \in SourcesOf[n] : r \in pool'[s] => r <= mark[s]
    BY <1>1 DEF CopiedMarked
  <2>1. /\ \E s \in SourcesOf[n] : r \in pool[s]
        /\ \A s \in SourcesOf[n] : r \in pool[s] => r <= mark[s]
    BY <1>0 DEF CopiedMarked
  <2>2. r # q
    BY <1>2, <2>1
  <2> QED
    BY <1>2, <1>3, <2>1, <2>2
<1>11. NothingSkipped'
  <2> SUFFICES ASSUME DisjointSources, NEW u \in Thread, NEW r \in Passed(u)'
               PROVE  r \in late'
    BY DEF NothingSkipped, DisjointSources
  <2>1. PICK s \in S(u) : r \in pool'[s] /\ r <= sync[u].ts[s]
    BY <1>1 DEF Passed, S, Same
  <2>2. copied[u[1]][r] = 0 /\ r \notin sync[u].batch
    BY <1>1 DEF Passed, Same
  <2>3. CASE r \in pool[s]
    <3>1. r \in Passed(u)
      BY <2>1, <2>2, <2>3 DEF Passed
    <3> QED
      BY <1>0, <1>1, <3>1 DEF NothingSkipped
  <2>4. CASE s = z /\ r = q
    <3>1. sync[u].ts[z] \in pool[z]
      BY <1>0, <1>2, <2>1, <2>4 DEF OnRecords
    <3> QED
      BY <1>4, <2>1, <2>4, <3>1
  <2> QED
    BY <1>2, <1>3, <2>1, <2>3, <2>4
<1> QED
  BY <1>1, <1>5, <1>6, <1>7, <1>8, <1>9, <1>10, <1>11 DEF LakeInv

\* A record is stamped with a ts that no other has, or dropped.
LEMMA WriterKeeps ==
    ASSUME LakeInv, NEW z \in Source,
           Stamp(z) \/ \E q \in Rec : Drop(z, q)
    PROVE  LakeInv'
<1>0. /\ TypeOK /\ Built /\ Stamped /\ SyncOK /\ LakeOK /\ RouterOK
  BY TypeParts DEF LakeInv
<1>1. /\ UNCHANGED <<lake, sync, router>>
      /\ \/ /\ clock < MaxRec /\ clock' = clock + 1 /\ errs' = errs
            /\ writing' = writing \cup {<<z, clock + 1>>}
         \/ /\ errs < MaxErr /\ clock' = clock /\ errs' = errs + 1
            /\ writing' \subseteq writing
  BY DEF Stamp, Drop
<1>2. /\ UNCHANGED <<pool, mark, copied, late>>
      /\ UNCHANGED <<gen, phase, todo, overtaken>>
      /\ clock \in 0 .. MaxRec /\ errs \in 0 .. MaxErr
      /\ writing \subseteq Source \X Rec
      /\ MaxRec \in Nat /\ MaxErr \in Nat
  BY <1>0, <1>1, DataSyncAssumption DEF lake, router, TypeOK
<1>3. TypeOK'
  <2>1. clock' \in 0 .. MaxRec /\ errs' \in 0 .. MaxErr
    BY <1>1, <1>2
  <2>2. writing' \subseteq Source \X Rec
    BY <1>1, <1>2 DEF Rec
  <2>3. SyncOK'
    BY <1>0, <1>1 DEF SyncOK, S
  <2> QED
    BY <1>0, <1>2, <2>1, <2>2, <2>3, TypeParts DEF LakeOK, RouterOK
<1>4. Built'
  BY <1>0, <1>1, <1>2 DEF Built
<1>5. Stamped'
  <2>1. CASE writing' \subseteq writing /\ clock' = clock
    BY <1>0, <1>2, <2>1 DEF Stamped
  <2>2. CASE clock' = clock + 1 /\ writing' = writing \cup {<<z, clock + 1>>}
    <3>1. \A s \in Source, r \in Rec :
            /\ r \in pool[s] => r <= clock
            /\ <<s, r>> \in writing => r <= clock
            /\ <<s, r>> \in writing' => <<s, r>> \in writing \/ (s = z /\ r = clock + 1)
      BY <1>0, <2>2 DEF Stamped
    <3>2. \A r \in Rec : r \in Int
      BY DEF Rec
    <3>3. \A s \in Source, r \in Rec :
            /\ r \in pool[s] => r <= clock'
            /\ <<s, r>> \in writing' => r <= clock'
      <4> SUFFICES ASSUME NEW s \in Source, NEW r \in Rec
                   PROVE  /\ r \in pool[s] => r <= clock + 1
                          /\ <<s, r>> \in writing' => r <= clock + 1
        BY <2>2
      <4>1. r \in Int /\ clock \in Int
        BY <1>2, <3>2
      <4>2. r <= clock => r <= clock + 1
        BY <4>1
      <4> QED
        BY <3>1, <4>1, <4>2
    <3>4. \A s, w \in Source, r \in Rec :
            /\ r \in pool[s] /\ r \in pool[w] => s = w
            /\ <<s, r>> \in writing' => r \notin pool[w]
            /\ <<s, r>> \in writing' /\ <<w, r>> \in writing' => s = w
      <4> SUFFICES ASSUME NEW s \in Source, NEW w \in Source, NEW r \in Rec
                   PROVE  /\ r \in pool[s] /\ r \in pool[w] => s = w
                          /\ <<s, r>> \in writing' => r \notin pool[w]
                          /\ <<s, r>> \in writing' /\ <<w, r>> \in writing' => s = w
        OBVIOUS
      <4>1. CASE r = clock + 1
        BY <1>2, <3>1, <4>1
      <4>2. CASE r # clock + 1
        BY <1>0, <3>1, <4>2 DEF Stamped
      <4> QED
        BY <4>1, <4>2
    <3> QED
      BY <1>2, <3>3, <3>4 DEF Stamped
  <2> QED
    BY <1>1, <2>1, <2>2
<1>6. (OnRecords /\ Held /\ MarkSkipsNothing /\ CopiedMarked /\ NothingSkipped)'
  BY <1>1, QuietKeeps DEF Kept
<1> QED
  BY <1>3, <1>4, <1>5, <1>6 DEF LakeInv

\* At the start nothing has been written or read.
LEMMA LakeInit == Init => LakeInv
<1> SUFFICES ASSUME Init PROVE LakeInv
  OBVIOUS
<1>1. TypeOK
  <2>1. \A t \in Thread : Ended(t, "none") \in SyncType
                          /\ Ended(t, "none").ts \in [S(t) -> 0 .. MaxRec]
    BY EndedTyped
  <2>2. SyncOK
    BY <2>1 DEF Init, SyncOK
  <2>3. LakeOK /\ RouterOK /\ errs \in 0 .. MaxErr
    BY DataSyncAssumption DEF Init, LakeOK, RouterOK
  <2> QED
    BY <2>2, <2>3, TypeParts
<1>2. /\ \A t \in Thread : /\ sync[t].ts = [s \in S(t) |-> 0] /\ sync[t].batch = {}
                           /\ sync[t].pc = "none"
      /\ \A s \in Source : pool[s] = {} /\ mark[s] = 0
      /\ \A n \in Ingress : SourcesOf[n] \subseteq Source
      /\ \A t \in Thread : S(t) \subseteq Source
      /\ \A n \in Ingress, r \in Rec : copied[n][r] = 0
  BY EndedTyped, NothingRead, DataSyncAssumption DEF Init
<1>3. Built
  BY <1>2 DEF Init, Built
<1>4. Stamped /\ OnRecords /\ Held /\ MarkSkipsNothing /\ CopiedMarked
  <2>1. Stamped
    BY <1>2 DEF Init, Stamped
  <2>2. OnRecords
    <3>1. ASSUME NEW t \in Thread, NEW s \in S(t) PROVE sync[t].ts[s] = 0
      <4>1. sync[t].ts = [z \in S(t) |-> 0]
        BY <1>2
      <4> QED
        BY <4>1
    <3> QED
      BY <1>2, <3>1 DEF OnRecords
  <2>3. Held
    BY <1>2 DEF Held
  <2>4. MarkSkipsNothing /\ CopiedMarked
    BY <1>2 DEF MarkSkipsNothing, CopiedMarked
  <2> QED
    BY <2>1, <2>2, <2>3, <2>4
<1>5. NothingSkipped
  BY <1>2 DEF NothingSkipped, Passed
<1> QED
  BY <1>1, <1>3, <1>4, <1>5 DEF LakeInv

\* Every step keeps the lake's invariant.
LEMMA LakeStep == LakeInv /\ [Next]_vars => LakeInv'
<1> SUFFICES ASSUME LakeInv, [Next]_vars PROVE LakeInv'
  OBVIOUS
<1>0. TypeOK /\ Built /\ Held /\ Stamped /\ SyncOK
  BY TypeParts DEF LakeInv
<1>1. ASSUME NEW s \in Source, NEW r \in Rec, Commit(s, r) PROVE LakeInv'
  BY <1>1, CommitKeeps
<1>2. ASSUME NEW s \in Source, Stamp(s) \/ \E r \in Rec : Drop(s, r) PROVE LakeInv'
  BY <1>2, WriterKeeps
<1>3. CASE RouterAct
  <2>1. TypeOK' /\ Built' /\ Quiet
    BY <1>0, <1>3, RouterStep
  <2>2. Stamped'
    BY <1>0, <2>1 DEF Quiet, lake, writers, Stamped
  <2> QED
    BY <2>1, <2>2, QuietKeeps DEF LakeInv, Quiet
<1>4. ASSUME NEW t \in Thread, IdleRun(t) PROVE LakeInv'
  <2>1. /\ SyncOK' /\ UNCHANGED <<lake, writers, router>>
        /\ Others(t) /\ (Kept(t) \/ Cleared(t)) /\ Alive(t)
    BY <1>0, <1>4, IdleRunStep DEF Held
  <2>2. errs' \in 0 .. MaxErr
    BY <1>0, <1>4, DataSyncAssumption
    DEF TypeOK, IdleRun, Begin, Connect, OnEvent, OnBlank, OnStop, Fail
  <2>3. TypeOK'
    BY <1>0, <2>1, <2>2, TypeParts DEF LakeOK, RouterOK, lake, writers, router
  <2>4. Built'
    BY <1>0, <2>1, RunKeepsBuilt
  <2>5. Stamped'
    BY <1>0, <2>1 DEF lake, writers, Stamped
  <2>6. \A u \in Thread : Kept(u) \/ Cleared(u) \/ Resumed(u)
    BY <2>1 DEF Others, Same, Kept
  <2> QED
    BY <2>1, <2>3, <2>4, <2>5, <2>6, QuietKeeps DEF LakeInv
<1>5. ASSUME NEW t \in Thread, Read(t) PROVE LakeInv'
  BY <1>5, ReadKeeps
<1>6. ASSUME NEW t \in Thread, Load(t) \/ LoadUnanswered(t) PROVE LakeInv'
  BY <1>6, LoadKeeps
<1>7. CASE UNCHANGED vars
  <2>1. UNCHANGED <<lake, writers, sync, router, errs>>
    BY <1>7 DEF vars
  <2>2. TypeOK'
    BY <1>0, <2>1, TypeParts DEF LakeOK, RouterOK, SyncOK, S, lake, writers, router
  <2>3. Built' /\ Stamped'
    BY <1>0, <2>1 DEF Built, Stamped, lake, writers, router
  <2>4. \A u \in Thread : Kept(u)
    BY <2>1 DEF Kept
  <2> QED
    BY <2>1, <2>2, <2>3, <2>4, QuietKeeps DEF LakeInv
<1> QED
  BY <1>1, <1>2, <1>3, <1>4, <1>5, <1>6, <1>7
  DEF Next, Loading, Routing, Running, RouterAct, IdleRun

\* The invariants of the syncs and of the lake hold together.
THEOREM LakeTheorem == Spec => []LakeInv
BY LakeInit, LakeStep, PTL DEF Spec

\* Every variable keeps its type.
THEOREM SyncTypeTheorem == Spec => []TypeOK
<1>1. LakeInv => TypeOK
  BY DEF LakeInv
<1> QED
  BY <1>1, LakeTheorem, PTL

\* A sync passes over no record, whatever fails and whenever the digi's process
\* dies or its router restarts: what source_ts or the commit log has moved over
\* was copied or is held, but for records committed after a larger ts.
THEOREM NothingSkippedTheorem == Spec => []NothingSkipped
<1>1. LakeInv => NothingSkipped
  BY DEF LakeInv
<1> QED
  BY <1>1, LakeTheorem, PTL

-----------------------------------------------------------------------------
(* Each record once, and in order *)

\* A thread's step that is part of its run leaves the router's view of it.
LEMMA RunKeepsOnly ==
    ASSUME TypeOK, OnlyCurrentRun, NEW t \in Thread, Others(t), Alive(t),
           sync'[t].pc \in InRun \cup {"dead"}, UNCHANGED router,
           sync'[t].pc \in InRun /\ sync'[t].stopped => sync[t].stopped /\ sync[t].pc \in InRun
    PROVE  OnlyCurrentRun'
<1>1. \A n \in Ingress : <<n, gen>> \in Thread
  BY DEF TypeOK, Thread
<1>2. UNCHANGED <<gen, phase, todo, overtaken>>
  BY DEF router
<1>3. ASSUME NEW u \in Thread
      PROVE  /\ Alive(u)' => Alive(u)
             /\ sync'[u].stopped /\ sync'[u].pc \in InRun
                => sync[u].stopped /\ sync[u].pc \in InRun
  BY DEF Others, Same, Alive, InRun
<1> QED
  BY <1>1, <1>2, <1>3 DEF OnlyCurrentRun

\* restart() leaves no thread running, as long as it overtakes none.
LEMMA RouterKeepsOnly ==
    ASSUME TypeOK, Built, Held, OnlyCurrentRun, RouterAct, overtaken' = {}
    PROVE  OnlyCurrentRun'
<1>0. /\ sync \in [Thread -> SyncType]
      /\ \A t \in Thread : /\ t = <<t[1], t[2]>> /\ t[1] \in Ingress
                           /\ t[2] \in 1 .. MaxGen /\ sync[t] \in SyncType
      /\ gen \in 1 .. MaxGen /\ todo \subseteq Ingress
      /\ \A n \in Ingress : <<n, gen>> \in Thread
  BY DEF TypeOK, Thread
<1>1. CASE Restart
  BY <1>0, <1>1 DEF Restart, OnlyCurrentRun, Alive, InRun
<1>2. CASE Forget
  <2>1. /\ phase = "stop" /\ todo = {} /\ gen' = gen + 1 /\ phase' = "update"
        /\ todo' = Ingress /\ sync' = sync
    BY <1>2 DEF Forget, lake
  <2>2. \A t \in Thread : ~ Alive(t)
    BY <1>0, <2>1 DEF OnlyCurrentRun
  <2> QED
    BY <1>0, <2>1, <2>2 DEF OnlyCurrentRun, Alive
<1>3. CASE BuildFails
  BY <1>0, <1>3 DEF BuildFails, OnlyCurrentRun, Alive, InRun
<1>4. CASE Crash
  <2>1. /\ phase' = "update" /\ todo' = Ingress
        /\ \A t \in Thread : sync'[t].pc = "none"
    BY <1>4, EndedTyped DEF Crash
  <2> QED
    BY <2>1 DEF OnlyCurrentRun, Alive, InRun
<1>5. ASSUME NEW n \in Ingress, StopReturns(n) PROVE OnlyCurrentRun'
  <2>1. /\ phase = "stop" /\ n \in todo /\ sync[<<n, gen>>].stopped /\ todo' = todo \ {n}
        /\ overtaken' = IF sync[<<n, gen>>].pc = "started"
                        THEN overtaken \cup {<<n, gen>>} ELSE overtaken
        /\ UNCHANGED <<sync, gen, phase>>
    BY <1>5 DEF StopReturns
  <2>2. sync[<<n, gen>>].pc # "started"
    BY <2>1
  <2>3. sync[<<n, gen>>].pc \notin InRun
    BY <1>0, <2>1 DEF OnlyCurrentRun
  <2>4. ~ Alive(<<n, gen>>)
    BY <2>2, <2>3 DEF Alive
  <2> QED
    BY <1>0, <2>1, <2>4 DEF OnlyCurrentRun, Alive
<1>6. ASSUME NEW n \in Ingress, StopSets(n) PROVE OnlyCurrentRun'
  <2> DEFINE t == <<n, gen>>
             x == [sync[t] EXCEPT !.stopped = TRUE]
  <2>1. /\ phase = "stop" /\ n \in todo /\ phase' = "join" /\ UNCHANGED <<gen, todo>>
        /\ sync' = [sync EXCEPT ![t] = x]
    BY <1>0, <1>6 DEF StopSets
  <2>2. x.pc = sync[t].pc
    BY <1>0 DEF SyncType
  <2> HIDE DEF x
  <2>3. /\ \A u \in Thread : sync'[u].pc = sync[u].pc
        /\ \A u \in Thread : u # t => sync'[u] = sync[u]
    BY <1>0, <2>1, <2>2
  <2>4. \A u \in Thread : sync'[u].pc \in InRun => u[2] = gen
    BY <2>3 DEF OnlyCurrentRun, Alive
  <2>5. \A u \in Thread : sync'[u].stopped /\ sync'[u].pc \in InRun => u[1] \in todo
    <3> SUFFICES ASSUME NEW u \in Thread, sync'[u].stopped, sync'[u].pc \in InRun
                 PROVE  u[1] \in todo
      OBVIOUS
    <3>1. CASE u = t
      BY <2>1, <3>1
    <3>2. CASE u # t
      BY <2>1, <2>3, <3>2 DEF OnlyCurrentRun
    <3> QED
      BY <3>1, <3>2
  <2> QED
    BY <1>0, <2>1, <2>3, <2>5 DEF OnlyCurrentRun, Alive
<1>7. ASSUME NEW n \in Ingress, Joined(n) PROVE OnlyCurrentRun'
  <2>1. /\ phase = "join" /\ n \in todo /\ sync[<<n, gen>>].pc = "dead"
        /\ \A m \in todo : ~ (sync[<<m, gen>>].stopped /\ sync[<<m, gen>>].pc \in InRun)
        /\ todo' = todo \ {n} /\ phase' = "stop" /\ UNCHANGED <<sync, gen>>
    BY <1>7 DEF Joined
  <2>2. ASSUME NEW u \in Thread, sync[u].stopped, sync[u].pc \in InRun PROVE FALSE
    <3>1. u[1] \in todo /\ u[2] = gen
      BY <2>2 DEF OnlyCurrentRun, Alive
    <3>2. u = <<u[1], gen>>
      BY <1>0, <3>1
    <3> QED
      BY <2>1, <2>2, <3>1, <3>2
  <2>3. ~ Alive(<<n, gen>>)
    BY <2>1 DEF Alive, InRun
  <2> QED
    BY <1>0, <2>1, <2>2, <2>3 DEF OnlyCurrentRun, Alive
<1>8. ASSUME NEW n \in Ingress, Build(n) PROVE OnlyCurrentRun'
  <2>1. /\ phase = "update" /\ phase' \in {"update", "start"} /\ gen' = gen
        /\ sync' = [sync EXCEPT ![<<n, gen>>] = NewSync(<<n, gen>>)]
    BY <1>8 DEF Build
  <2>2. /\ sync'[<<n, gen>>].pc = "new"
        /\ \A u \in Thread : u # <<n, gen>> => sync'[u] = sync[u]
    BY <1>0, <2>1, NewTyped DEF TypeOK
  <2> QED
    BY <1>0, <2>1, <2>2 DEF OnlyCurrentRun, Alive, InRun
<1>9. ASSUME NEW n \in Ingress, Start(n) PROVE OnlyCurrentRun'
  <2> DEFINE x == [sync[<<n, gen>>] EXCEPT !.pc = "started"]
  <2>1. /\ phase = "start" /\ phase' \in {"idle", "start"} /\ gen' = gen
        /\ sync' = [sync EXCEPT ![<<n, gen>>] = x]
    BY <1>0, <1>9 DEF Start
  <2>2. x.pc = "started"
    BY <1>0 DEF SyncType
  <2> HIDE DEF x
  <2>3. /\ sync'[<<n, gen>>].pc = "started"
        /\ \A u \in Thread : u # <<n, gen>> => sync'[u] = sync[u]
    BY <1>0, <2>1, <2>2
  <2> QED
    BY <1>0, <2>1, <2>3 DEF OnlyCurrentRun, Alive, InRun
<1> QED
  BY <1>1, <1>2, <1>3, <1>4, <1>5, <1>6, <1>7, <1>8, <1>9 DEF RouterAct

\* What neither reads, loads nor commits leaves the current syncs ahead: a new
\* one starts at the commit log, which is not behind what was copied.
LEMMA QuietKeepsAhead ==
    ASSUME LakeInv, CurrentAhead, UNCHANGED lake,
           \A t \in Thread : Kept(t) \/ Cleared(t) \/ Resumed(t),
           gen' = gen \/ \A t \in Thread : t[2] = gen' => sync'[t].pc = "none"
    PROVE  CurrentAhead'
<1>0. /\ UNCHANGED <<pool, mark, copied>>
      /\ \A t \in Thread : S(t) \subseteq Source /\ t[1] \in Ingress /\ S(t) = SourcesOf[t[1]]
      /\ \A s \in Source : pool[s] \subseteq Rec
  BY NothingRead DEF lake, S, LakeInv, TypeOK
<1>1. ASSUME NEW t \in Thread, t[2] = gen', sync'[t].pc \notin {"none", "dead"},
             NEW s \in S(t), NEW q \in pool[s], copied[t[1]][q] > 0
      PROVE  /\ q <= sync'[t].ts[s]
             /\ \A r \in sync'[t].batch \cap pool[s] : q < r
  <2>1. CASE Kept(t)
    BY <1>1, <2>1 DEF Kept, CurrentAhead
  <2>2. CASE Cleared(t)
    BY <1>1, <2>2 DEF Cleared
  <2>3. CASE Resumed(t)
    <3>1. q <= mark[s]
      BY <1>0, <1>1 DEF LakeInv, CopiedMarked
    <3> QED
      BY <2>3, <3>1 DEF Resumed
  <2> QED
    BY <2>1, <2>2, <2>3
<1> QED
  BY <1>0, <1>1 DEF CurrentAhead, S

\* A read takes only records that are ahead of what was copied.
LEMMA ReadKeepsAhead ==
    ASSUME LakeInv, CurrentAhead, NEW t \in Thread, Read(t)
    PROVE  CurrentAhead'
<1>0. TypeOK /\ Stamped /\ SyncOK
  BY TypeParts DEF LakeInv
<1>1. /\ UNCHANGED <<lake, writers, router>> /\ Others(t)
      /\ sync[t].pc = "read" /\ sync'[t].batch = Newer(t)
      /\ \A s \in S(t) : /\ sync[t].ts[s] <= sync'[t].ts[s]
                         /\ sync'[t].ts[s] \in {sync[t].ts[s]} \cup (Newer(t) \cap pool[s])
  BY <1>0, ReadStep
<1>2. /\ UNCHANGED <<pool, copied, gen>>
      /\ \A u \in Thread : S(u) \subseteq Source
      /\ \A s \in Source : pool[s] \subseteq Rec
      /\ \A r \in Rec : r \in Int
  BY <1>0, <1>1, NothingRead DEF lake, router, TypeOK, Rec
<1>3. ASSUME NEW u \in Thread, u[2] = gen, sync'[u].pc \notin {"none", "dead"},
             NEW s \in S(u), NEW q \in pool[s], copied[u[1]][q] > 0
      PROVE  /\ q <= sync'[u].ts[s]
             /\ \A r \in sync'[u].batch \cap pool[s] : q < r
  <2>1. CASE u # t
    BY <1>1, <1>3, <2>1 DEF Others, Same, CurrentAhead
  <2>2. CASE u = t
    <3>1. q <= sync[t].ts[s]
      BY <1>1, <1>3, <2>2 DEF CurrentAhead
    <3>2. sync[t].ts[s] \in Int /\ q \in Int
      BY <1>0, <1>2, <2>2 DEF SyncOK
    <3>3. sync'[t].ts[s] \in Int
      BY <1>1, <1>2, <2>2, <3>2
    <3>4. ASSUME NEW r \in Newer(t) \cap pool[s] PROVE q < r
      <4>1. PICK w \in S(t) : r \in pool[w] /\ r > sync[t].ts[w]
        BY DEF Newer
      <4>2. w = s
        BY <1>0, <1>2, <2>2, <3>4, <4>1 DEF Stamped
      <4> QED
        BY <1>2, <2>2, <3>1, <3>2, <4>1, <4>2
    <3> QED
      BY <1>1, <2>2, <3>1, <3>2, <3>3, <3>4
  <2> QED
    BY <2>1, <2>2
<1> QED
  BY <1>2, <1>3 DEF CurrentAhead, S

\* A load of the one thread that runs leaves its sync at or after what it loaded.
LEMMA LoadKeepsAhead ==
    ASSUME LakeInv, OnlyCurrentRun, CurrentAhead, NEW t \in Thread,
           Load(t) \/ LoadUnanswered(t)
    PROVE  CurrentAhead'
<1>0. TypeOK /\ Held /\ SyncOK
  BY TypeParts DEF LakeInv
<1>1. /\ UNCHANGED <<pool, late, writers, router>> /\ Others(t)
      /\ sync[t].pc = "load" /\ sync'[t].batch = {}
      /\ sync'[t].ts = sync[t].ts \/ sync'[t].pc = "dead"
      /\ \A n \in Ingress, r \in Rec :
           copied'[n][r] = IF n = t[1] /\ r \in sync[t].batch
                           THEN copied[n][r] + 1 ELSE copied[n][r]
  BY <1>0, LoadStep
<1>2. /\ UNCHANGED <<pool, gen>> /\ t[2] = gen
      /\ \A u \in Thread : S(u) \subseteq Source /\ u[1] \in Ingress /\ u = <<u[1], u[2]>>
      /\ \A s \in Source : pool[s] \subseteq Rec
  BY <1>0, <1>1, NothingRead DEF router, TypeOK, OnlyCurrentRun, Alive, InRun, Thread
<1>3. ASSUME NEW u \in Thread, u[2] = gen, sync'[u].pc \notin {"none", "dead"},
             NEW s \in S(u), NEW q \in pool[s], copied'[u[1]][q] > 0
      PROVE  /\ q <= sync'[u].ts[s]
             /\ \A r \in sync'[u].batch \cap pool[s] : q < r
  <2>1. q \in Rec
    BY <1>2
  <2>2. CASE u # t
    <3>1. u[1] # t[1]
      BY <1>2, <1>3, <2>2
    <3>2. copied[u[1]][q] > 0
      BY <1>1, <1>2, <1>3, <2>1, <3>1
    <3> QED
      BY <1>1, <1>3, <2>2, <3>2 DEF Others, Same, CurrentAhead
  <2>3. CASE u = t
    <3>1. copied[t[1]][q] > 0 \/ q \in sync[t].batch
      BY <1>1, <1>2, <1>3, <2>1, <2>3
    <3>2. q <= sync[t].ts[s]
      BY <1>0, <1>1, <1>2, <2>3, <3>1 DEF CurrentAhead, Held
    <3> QED
      BY <1>1, <1>3, <2>3, <3>2
  <2> QED
    BY <2>2, <2>3
<1> QED
  BY <1>2, <1>3 DEF CurrentAhead, S

\* A record that is committed was not copied before and is held by no sync.
LEMMA CommitKeepsAhead ==
    ASSUME LakeInv, CurrentAhead, NEW z \in Source, NEW w \in Rec, Commit(z, w)
    PROVE  CurrentAhead'
<1>0. TypeOK /\ Stamped /\ Held /\ CopiedMarked
  BY DEF LakeInv
<1>1. /\ UNCHANGED <<clock, mark, copied, router>>
      /\ \A t \in Thread : Same(t)
      /\ <<z, w>> \in writing
      /\ \A s \in Source : pool'[s] = IF s = z THEN pool[z] \cup {w} ELSE pool[s]
  BY <1>0, CommitStep
<1>2. /\ UNCHANGED <<copied, gen>>
      /\ \A u \in Thread : S(u) \subseteq Source /\ u[1] \in Ingress
      /\ \A n \in Ingress : SourcesOf[n] \subseteq Source
  BY <1>1, NothingRead, DataSyncAssumption DEF router
<1>3. \A s \in Source : w \notin pool[s]
  BY <1>0, <1>1 DEF Stamped
<1>4. \A n \in Ingress : ~ (copied[n][w] > 0)
  BY <1>0, <1>2, <1>3 DEF CopiedMarked
<1>5. \A u \in Thread : w \notin sync[u].batch
  BY <1>0, <1>2, <1>3 DEF Held
<1>6. ASSUME NEW u \in Thread, u[2] = gen, sync'[u].pc \notin {"none", "dead"},
             NEW s \in S(u), NEW q \in pool'[s], copied[u[1]][q] > 0
      PROVE  /\ q <= sync'[u].ts[s]
             /\ \A r \in sync'[u].batch \cap pool'[s] : q < r
  <2>1. q # w
    BY <1>2, <1>4, <1>6
  <2>2. /\ q \in pool[s]
        /\ \A r \in sync[u].batch \cap pool'[s] : r \in pool[s]
    BY <1>1, <1>2, <1>5, <2>1
  <2> QED
    BY <1>1, <1>6, <2>2 DEF Same, CurrentAhead
<1> QED
  BY <1>2, <1>6 DEF CurrentAhead, S

\* Init has no thread that runs.
LEMMA OrderInit == Init => OrderInv
<1> SUFFICES ASSUME Init PROVE OnlyCurrentRun /\ CurrentAhead
  BY DEF OrderInv
<1>1. \A t \in Thread : sync[t].pc = "none"
  BY EndedTyped DEF Init
<1>2. phase = "update"
  BY DEF Init
<1> QED
  BY <1>1, <1>2 DEF OnlyCurrentRun, CurrentAhead, Alive, InRun

\* Every step keeps the order, as long as no thread has been overtaken.
LEMMA OrderStep == LakeInv /\ OrderInv /\ [Next]_vars => OrderInv'
<1> SUFFICES ASSUME LakeInv, OrderInv, [Next]_vars, overtaken' = {}
             PROVE  OnlyCurrentRun' /\ CurrentAhead'
  BY DEF OrderInv
<1>0. /\ TypeOK /\ Built /\ Held /\ Stamped /\ SyncOK
      /\ sync \in [Thread -> SyncType]
      /\ \A t \in Thread : S(t) \subseteq Source
  BY TypeParts, NothingRead DEF LakeInv, SyncOK
<1>1. OnlyCurrentRun /\ CurrentAhead
  <2>1. overtaken \subseteq overtaken'
    BY DEF Next, vars, router, Loading, Routing, Running, Commit, Stamp, Drop, Restart,
           BuildFails, Crash, Forget, StopReturns, StopSets, Joined, Build, Start, Begin,
           Read, Load, LoadUnanswered, Connect, OnEvent, OnBlank, OnStop, Fail
  <2> QED
    BY <2>1 DEF OrderInv
<1>2. ASSUME UNCHANGED router, \A t \in Thread : Same(t)
      PROVE  OnlyCurrentRun'
  <2>1. \A n \in Ingress : <<n, gen>> \in Thread
    BY <1>0 DEF TypeOK, Thread
  <2> QED
    BY <1>1, <1>2, <2>1 DEF OnlyCurrentRun, Same, Alive, router
<1>3. ASSUME NEW s \in Source, NEW r \in Rec, Commit(s, r)
      PROVE  OnlyCurrentRun' /\ CurrentAhead'
  BY <1>0, <1>1, <1>2, <1>3, CommitStep, CommitKeepsAhead
<1>4. ASSUME UNCHANGED <<lake, sync, router>>
      PROVE  OnlyCurrentRun' /\ CurrentAhead'
  <2>1. \A t \in Thread : Same(t) /\ Kept(t)
    BY <1>4 DEF Same, Kept
  <2> QED
    BY <1>1, <1>2, <1>4, <2>1, QuietKeepsAhead DEF router
<1>5. CASE RouterAct
  <2>1. OnlyCurrentRun'
    BY <1>0, <1>1, <1>5, RouterKeepsOnly
  <2>2. Quiet
    BY <1>0, <1>5, RouterStep
  <2> QED
    BY <1>1, <2>1, <2>2, QuietKeepsAhead DEF Quiet
<1>6. ASSUME NEW t \in Thread, IdleRun(t)
      PROVE  OnlyCurrentRun' /\ CurrentAhead'
  <2>1. /\ UNCHANGED <<lake, writers, router>>
        /\ Others(t) /\ (Kept(t) \/ Cleared(t))
        /\ Alive(t) /\ sync'[t].pc \in InRun \cup {"dead"}
        /\ sync'[t].pc \in InRun /\ sync'[t].stopped
           => sync[t].stopped /\ sync[t].pc \in InRun
    BY <1>0, <1>6, IdleRunStep DEF Held
  <2>2. OnlyCurrentRun'
    BY <1>0, <1>1, <2>1, RunKeepsOnly
  <2>3. \A u \in Thread : Kept(u) \/ Cleared(u) \/ Resumed(u)
    BY <2>1 DEF Others, Same, Kept
  <2> QED
    BY <1>1, <2>1, <2>2, <2>3, QuietKeepsAhead DEF router
<1>7. ASSUME NEW t \in Thread, Read(t)
      PROVE  OnlyCurrentRun' /\ CurrentAhead'
  <2>1. OnlyCurrentRun'
    BY <1>0, <1>1, <1>7, ReadStep, RunKeepsOnly DEF Alive, InRun
  <2> QED
    BY <1>1, <1>7, <2>1, ReadKeepsAhead
<1>8. ASSUME NEW t \in Thread, Load(t) \/ LoadUnanswered(t)
      PROVE  OnlyCurrentRun' /\ CurrentAhead'
  <2>1. OnlyCurrentRun'
    <3>1. /\ UNCHANGED router /\ Others(t) /\ sync[t].pc = "load"
          /\ sync'[t].pc \in InRun \cup {"dead"}
          /\ sync'[t].pc = "dead" \/ sync'[t].stopped = sync[t].stopped
      BY <1>0, <1>8, LoadStep
    <3> QED
      BY <1>0, <1>1, <3>1, RunKeepsOnly DEF Alive, InRun
  <2> QED
    BY <1>1, <1>8, <2>1, LoadKeepsAhead
<1>9. ASSUME NEW s \in Source, Stamp(s) \/ \E r \in Rec : Drop(s, r)
      PROVE  UNCHANGED <<lake, sync, router>>
  BY <1>9 DEF Stamp, Drop
<1>10. CASE UNCHANGED vars
  BY <1>4, <1>10 DEF vars
<1> QED
  BY <1>3, <1>4, <1>5, <1>6, <1>7, <1>8, <1>9, <1>10
  DEF Next, Loading, Routing, Running, RouterAct, IdleRun

\* Only a load copies, and what it copies is ahead of all that was copied.
LEMMA CopiesInOrder ==
    ASSUME LakeInv, OrderInv, [Next]_vars, overtaken = {},
           NEW n \in Ingress, NEW s \in SourcesOf[n], NEW r \in pool[s], NEW q \in pool[s],
           copied'[n][r] > copied[n][r], r <= q
    PROVE  copied[n][q] = 0
<1>a. TypeOK /\ OnlyCurrentRun /\ CurrentAhead
  BY DEF LakeInv, OrderInv
<1>b. /\ s \in Source /\ pool[s] \subseteq Rec
      /\ copied \in [Ingress -> [Rec -> Nat]]
  BY <1>a, DataSyncAssumption DEF TypeOK
<1>0. /\ r \in Rec /\ q \in Rec /\ r \in Int /\ q \in Int
      /\ copied[n][r] \in Nat /\ copied[n][q] \in Nat
  <2>1. r \in Rec /\ q \in Rec /\ copied[n] \in [Rec -> Nat]
    BY <1>b
  <2>2. copied[n][r] \in Nat /\ copied[n][q] \in Nat
    BY <2>1
  <2> QED
    BY <2>1, <2>2 DEF Rec
<1>1. copied' # copied
  BY <1>0
<1>2. PICK t \in Thread : Load(t) \/ LoadUnanswered(t)
  BY <1>1
  DEF Next, vars, lake, Loading, Routing, Running, Commit, Stamp, Drop, Restart,
      BuildFails, Crash, Forget, StopReturns, StopSets, Joined, Build, Start, Begin,
      Read, Connect, OnEvent, OnBlank, OnStop, Fail
<1>3. /\ sync[t].pc = "load"
      /\ copied'[n][r] = IF n = t[1] /\ r \in sync[t].batch
                         THEN copied[n][r] + 1 ELSE copied[n][r]
  <2>1. /\ sync[t].pc = "load"
        /\ \A m \in Ingress, w \in Rec :
             copied'[m][w] = IF m = t[1] /\ w \in sync[t].batch
                             THEN copied[m][w] + 1 ELSE copied[m][w]
    BY <1>a, <1>2, LoadStep
  <2> QED
    BY <1>0, <2>1
<1>4. n = t[1] /\ r \in sync[t].batch /\ s \in S(t) /\ t[2] = gen
  BY <1>a, <1>0, <1>3 DEF S, OnlyCurrentRun, Alive, InRun
<1>5. copied[n][q] > 0 => q < r
  BY <1>a, <1>3, <1>4 DEF CurrentAhead
<1> QED
  BY <1>0, <1>5

\* The syncs copy each record once and each source in its order, through
\* restarts, crashes and errors, as long as restart() overtakes no thread that
\* has been started and has not yet run.
THEOREM InOrderOnceTheorem == Spec => InOrderOnce
<1>1. Init => OrderInv
  BY OrderInit
<1>2. LakeInv /\ OrderInv /\ [Next]_vars => OrderInv'
  BY OrderStep
<1>3. LakeInv /\ OrderInv /\ [Next]_vars =>
        [overtaken = {} =>
          \A n \in Ingress : \A s \in SourcesOf[n] : \A r, q \in pool[s] :
            copied'[n][r] > copied[n][r] /\ r <= q => copied[n][q] = 0]_vars
  BY CopiesInOrder
<1> QED
  BY <1>1, <1>2, <1>3, LakeTheorem, PTL DEF Spec, InOrderOnce

=============================================================================
