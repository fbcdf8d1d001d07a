--------------------------- MODULE Mounter_proofs ---------------------------
(***************************************************************************)
(* What the mounter keeps for any number of children, values, requests of  *)
(* users and errors: the types, that a child's status is its own, and that *)
(* no push is based on a copy older than the child's own last write.       *)
(***************************************************************************)
EXTENDS Mounter, TLAPS

-----------------------------------------------------------------------------
(* Types *)

PThreads == [pc : {"idle", "check", "sync", "mark"}, gen : Nat, mount : Mounts,
             todo : SUBSET Child, at : Child \cup {None}, cur : Nat, new : Nat]
CThreads == [pc : {"idle", "create", "check", "push", "mark"}, ev : Model,
             trim : SUBSET Attr, again : BOOLEAN, seen : Nat, cur : Nat, new : Nat]

\* What the parent's thread pushes is mounted in its event.
ToPush ==
    /\ pThread.pc \in {"sync", "mark"} =>
          \A c \in pThread.todo : Mounted(pThread.mount, c)
    /\ pThread.pc = "mark" => pThread.at \in Child

\* A child's own last write is not ahead of it.
OwnInPast == \A c \in Child : child[c].gen > 0 => own[c] <= child[c].gen

ModelInv == TypeOK /\ ToPush /\ OwnInPast

\* Merges and trims of specs are specs.
LEMMA SpecsStay ==
    ASSUME NEW s \in Spec_, NEW p \in Spec_, NEW A \in SUBSET Attr
    PROVE  Merge(s, p) \in Spec_ /\ Trim(s, A) \in Spec_ /\ NoSpec \in Spec_
BY DEF Spec_, Merge, Trim, NoSpec

\* A write of a child moves its generation by one, or it changes nothing.
LEMMA PutMoves ==
    ASSUME NEW o \in Model, NEW s \in Spec_
    PROVE  /\ Put(o, s) \in Model /\ Put(o, s).spec = s
           /\ Put(o, s) = o \/ Put(o, s).gen = o.gen + 1
           /\ s # o.spec => Put(o, s).gen = o.gen + 1
BY DEF Model, Put

\* And so does a write of the parent.
LEMMA PutMountsMoves ==
    ASSUME NEW o \in [gen : Nat, mount : Mounts], NEW m \in Mounts
    PROVE  /\ PutMounts(o, m) \in [gen : Nat, mount : Mounts]
           /\ PutMounts(o, m).mount = m
BY DEF PutMounts

\* The threads at rest, and an entry as it is first mounted.
LEMMA RestTyped ==
    /\ PIdle \in PThreads /\ CIdle \in CThreads /\ JustMounted \in Entry
    /\ NoSpec \in Spec_
BY MounterAssumption
DEF PIdle, CIdle, JustMounted, PThreads, CThreads, Mounts, Model, Entry, Spec_, NoSpec, Attr

LEMMA StartInv == Init => ModelInv
<1> SUFFICES ASSUME Init PROVE ModelInv
  OBVIOUS
<1>1. child \in [Child -> Model] /\ own \in [Child -> Nat] /\ OwnInPast
  <2>1. [Attr -> Val] \subseteq Spec_
    BY DEF Spec_
  <2>2. \A s \in [Attr -> Val] : [gen |-> 1, spec |-> s] \in Model
    BY <2>1 DEF Model
  <2>3. child \in [Child -> Model] /\ \A c \in Child : child[c].gen = 1
    BY <2>2 DEF Init
  <2> QED
    BY <2>3 DEF Init, OwnInPast
<1>2. parent \in [gen : Nat, mount : Mounts] /\ pHandled \in Mounts \cup {None}
  BY RestTyped DEF Init, Mounts
<1>3. pThread = PIdle /\ pThread \in PThreads /\ cThread \in [Child -> CThreads]
  BY RestTyped DEF Init
<1>4. TypeOK
  <2>1. /\ pFresh = TRUE /\ watch = [c \in Child |-> "none"]
        /\ childrenGen = [c \in Child |-> 0] /\ childrenSkip = [c \in Child |-> 0]
        /\ parentSkip = 0 /\ rushed = FALSE /\ ops = 0 /\ errs = 0
    BY DEF Init
  <2>2. parentSkip \in Nat /\ ops \in 0..MaxOps /\ errs \in 0..MaxErr
    BY <2>1, MounterAssumption
  <2>4. pFresh \in BOOLEAN /\ rushed \in BOOLEAN
    BY <2>1
  <2>3. /\ watch \in [Child -> {"none", "fresh", "on"}]
        /\ childrenGen \in [Child -> Nat] /\ childrenSkip \in [Child -> Nat]
    BY <2>1
  <2> QED
    BY <1>1, <1>2, <1>3, <2>2, <2>3, <2>4 DEF TypeOK, PThreads, CThreads
<1>5. ToPush
  BY <1>3 DEF ToPush, PIdle
<1> QED
  BY <1>1, <1>4, <1>5 DEF ModelInv

LEMMA SteadyInv == Steady => ModelInv
<1> SUFFICES ASSUME Steady PROVE ModelInv
  OBVIOUS
<1>1. PICK s \in [Attr -> Val] :
        /\ child = [c \in Child |-> [gen |-> 1, spec |-> s]]
        /\ parent = [gen |-> 2, mount |-> [c \in Child |->
                        [active |-> TRUE, spec |-> s, gen |-> 1]]]
  BY DEF Steady
<1>2. s \in Spec_
  BY DEF Spec_
<1>3. child \in [Child -> Model] /\ own \in [Child -> Nat] /\ OwnInPast
  BY <1>1, <1>2 DEF Steady, Model, OwnInPast
<1>4. parent \in [gen : Nat, mount : Mounts] /\ pHandled \in Mounts \cup {None}
  BY <1>1, <1>2 DEF Steady, Mounts, Entry
<1>5. pThread = PIdle /\ pThread \in PThreads /\ cThread \in [Child -> CThreads]
  BY RestTyped DEF Steady, CThreads
<1>6. TypeOK
  <2>1. /\ pFresh = FALSE /\ watch = [c \in Child |-> "on"]
        /\ childrenGen = [c \in Child |-> 1] /\ childrenSkip = [c \in Child |-> 0]
        /\ parentSkip = 2 /\ rushed = FALSE /\ ops = 0 /\ errs = 0
    BY DEF Steady
  <2>2. parentSkip \in Nat /\ ops \in 0..MaxOps /\ errs \in 0..MaxErr
    BY <2>1, MounterAssumption
  <2>4. pFresh \in BOOLEAN /\ rushed \in BOOLEAN
    BY <2>1
  <2>3. /\ watch \in [Child -> {"none", "fresh", "on"}]
        /\ childrenGen \in [Child -> Nat] /\ childrenSkip \in [Child -> Nat]
    BY <2>1
  <2> QED
    BY <1>3, <1>4, <1>5, <2>2, <2>3, <2>4 DEF TypeOK, PThreads, CThreads
<1>7. ToPush
  BY <1>5 DEF ToPush, PIdle
<1> QED
  BY <1>3, <1>6, <1>7 DEF ModelInv

-----------------------------------------------------------------------------
(* The steps *)

\* Parts of the type that the steps below change one at a time.
LEMMA Typed ==
    ASSUME ModelInv
    PROVE  /\ child \in [Child -> Model] /\ own \in [Child -> Nat]
           /\ parent \in [gen : Nat, mount : Mounts]
           /\ pThread \in PThreads /\ cThread \in [Child -> CThreads]
           /\ childrenGen \in [Child -> Nat] /\ childrenSkip \in [Child -> Nat]
BY DEF ModelInv, TypeOK, PThreads, CThreads

\* Users count their operations.
LEMMA UserOpTyped ==
    ASSUME ModelInv, NEW kind, UserOp(kind)
    PROVE  rushed' \in BOOLEAN /\ ops' \in 0..MaxOps
BY MounterAssumption DEF ModelInv, TypeOK, UserOp

\* A user who writes an entry of the parent, or removes it.
LEMMA WriteMountKeeps ==
    ASSUME ModelInv, NEW c \in Child, NEW e \in Entry \cup {None}, WriteMount(c, e),
           rushed' \in BOOLEAN, ops' \in 0..MaxOps
    PROVE  ModelInv'
<1>1. [parent.mount EXCEPT ![c] = e] \in Mounts
  BY Typed DEF Mounts
<1>2. parent' \in [gen : Nat, mount : Mounts]
  BY <1>1, Typed, PutMountsMoves DEF WriteMount
<1> QED
  BY <1>2 DEF WriteMount, kopf, gens, ModelInv, TypeOK, ToPush, OwnInPast

LEMMA UsersKeep ==
    ASSUME ModelInv, UserNext
    PROVE  ModelInv'
<1>1. ASSUME NEW c \in Child, NEW a \in Attr, NEW v \in Val, ChildWrite(c, a, v)
      PROVE  ModelInv'
  <2>1. [child[c].spec EXCEPT ![a] = v] \in Spec_ /\ child[c] \in Model
    BY Typed DEF Model, Spec_
  <2>2. child'[c] = Put(child[c], [child[c].spec EXCEPT ![a] = v])
        /\ child' \in [Child -> Model]
    BY <1>1, <2>1, Typed, PutMoves DEF ChildWrite
  <2>3. own' = [own EXCEPT ![c] = child'[c].gen] /\ child'[c].gen \in Nat
        /\ \A d \in Child \ {c} : child'[d] = child[d]
    BY <1>1, <2>2, Typed DEF ChildWrite, Model
  <2>4. OwnInPast' /\ own' \in [Child -> Nat]
    BY <2>2, <2>3, Typed DEF OwnInPast, ModelInv
  <2> QED
    BY <1>1, <2>2, <2>4, UserOpTyped
    DEF ChildWrite, kopf, gens, ModelInv, TypeOK, ToPush
<1>2. ASSUME NEW c \in Child, NEW a \in Attr, NEW v \in Val, CopyWrite(c, a, v)
      PROVE  ModelInv'
  <2>1. parent.mount[c] \in Entry
    BY <1>2, Typed DEF CopyWrite, Mounted, Mounts
  <2>2. [parent.mount[c] EXCEPT !.spec[a] = v] \in Entry
    BY <2>1 DEF Entry, Spec_
  <2> QED
    BY <1>2, <2>2, WriteMountKeeps, UserOpTyped DEF CopyWrite
<1>3. ASSUME NEW c \in Child, Mount(c) \/ Unmount(c) PROVE ModelInv'
  BY <1>3, WriteMountKeeps, UserOpTyped, RestTyped DEF Mount, Unmount
<1>4. ASSUME NEW c \in Child, Toggle(c) PROVE ModelInv'
  <2>1. parent.mount[c] \in Entry
    BY <1>4, Typed DEF Toggle, Mounted, Mounts
  <2>2. [parent.mount[c] EXCEPT !.active = ~ @] \in Entry
    BY <2>1 DEF Entry
  <2> QED
    BY <1>4, <2>2, WriteMountKeeps, UserOpTyped DEF Toggle
<1>5. ASSUME NEW c \in Child, Delete(c) PROVE ModelInv'
  <2>1. [gen |-> 0, spec |-> NoSpec] \in Model
    BY RestTyped DEF Model
  <2>2. child' \in [Child -> Model] /\ child'[c].gen = 0
        /\ \A d \in Child \ {c} : child'[d] = child[d]
    BY <1>5, <2>1, Typed DEF Delete
  <2>3. OwnInPast'
    BY <1>5, <2>2 DEF Delete, OwnInPast, ModelInv
  <2> QED
    BY <1>5, <2>2, <2>3, UserOpTyped DEF Delete, kopf, gens, ModelInv, TypeOK, ToPush
<1>6. CASE Restart
  <2>1. cThread' \in [Child -> CThreads]
    BY <1>6, Typed, RestTyped DEF Restart, CThreads
  <2>2. pThread' \in PThreads /\ ToPush'
    BY <1>6, RestTyped DEF Restart, ToPush, PIdle
  <2> QED
    BY <1>6, <2>1, <2>2, UserOpTyped
    DEF Restart, models, ModelInv, TypeOK, OwnInPast, PThreads, CThreads
<1> QED
  BY <1>1, <1>2, <1>3, <1>4, <1>5, <1>6 DEF UserNext

\* The parent's thread: only a push touches a model.
LEMMA ParentKeeps ==
    ASSUME ModelInv, ParentThread \/ \E c \in Child : PFail(c)
    PROVE  ModelInv'
<1>1. CASE PStart
  <2>1. pThread' \in PThreads /\ ToPush'
    BY <1>1, Typed, RestTyped DEF PStart, PThreads, ToPush
  <2> QED
    BY <1>1, <2>1 DEF PStart, models, kopf, gens, budget, ModelInv, TypeOK, OwnInPast, PThreads
<1>2. CASE PSkip \/ PDone
  <2>1. pThread' = PIdle /\ pHandled' \in Mounts
    BY <1>2, Typed DEF PSkip, PDone, PReturn, PThreads
  <2> QED
    BY <1>2, <2>1, RestTyped
    DEF PSkip, PDone, PReturn, PIdle, models, gens, budget, ModelInv, TypeOK, ToPush, OwnInPast, PThreads
<1>3. CASE PCheck
  <2>1. ToSync \subseteq Child /\ \A c \in ToSync : Mounted(pThread.mount, c)
    BY DEF ToSync, Pushable
  <2>2. pThread' \in PThreads /\ ToPush'
    BY <1>3, <2>1, Typed DEF PCheck, PThreads, ToPush
  <2>3. watch' \in [Child -> {"none", "fresh", "on"}]
    BY <1>3 DEF PCheck, ModelInv, TypeOK
  <2> QED
    BY <1>3, <2>2, <2>3
    DEF PCheck, models, kopf, gens, budget, ModelInv, TypeOK, OwnInPast, PThreads
<1>4. ASSUME NEW c \in Child, PPush(c) PROVE ModelInv'
  <2>1. pThread.mount[c] \in Entry
    BY <1>4, Typed DEF PPush, ModelInv, ToPush, Mounted, PThreads, Mounts
  <2>2. child[c] \in Model /\ child[c].spec \in Spec_ /\ pThread.mount[c].spec \in Spec_
    BY <2>1, Typed DEF Model, Entry
  <2>3. Pushed(c) \in Spec_
    BY <2>2, SpecsStay, MounterAssumption DEF Pushed
  <2>4. /\ child' = [child EXCEPT ![c] = Put(child[c], Pushed(c))]
        /\ child' \in [Child -> Model]
        /\ child'[c] = child[c] \/ child'[c].gen = child[c].gen + 1
    BY <1>4, <2>2, <2>3, Typed, PutMoves DEF PPush
  <2>5. pThread' \in PThreads /\ ToPush'
    BY <1>4, <2>2, <2>4, Typed DEF PPush, PThreads, ToPush, Model, ModelInv
  <2>6. OwnInPast'
    BY <1>4, <2>2, <2>4, Typed DEF PPush, OwnInPast, ModelInv, Model
  <2> QED
    BY <1>4, <2>4, <2>5, <2>6 DEF PPush, kopf, gens, budget, ModelInv, TypeOK, PThreads
<1>5. CASE PMark
  <2>1. pThread.at \in Child /\ pThread.new \in Nat
    BY <1>5, Typed DEF PMark, ModelInv, ToPush, PThreads
  <2>2. childrenGen' \in [Child -> Nat] /\ childrenSkip' \in [Child -> Nat]
    BY <1>5, <2>1, Typed DEF PMark
  <2>3. pThread' \in PThreads /\ ToPush'
    BY <1>5, Typed DEF PMark, PThreads, ToPush, ModelInv
  <2> QED
    BY <1>5, <2>2, <2>3 DEF PMark, models, kopf, budget, ModelInv, TypeOK, OwnInPast, PThreads
<1>6. ASSUME NEW c \in Child, POutdated(c) \/ PFail(c) PROVE ModelInv'
  <2>1. PDrop(c) /\ errs' \in 0..MaxErr
    BY <1>6, MounterAssumption DEF POutdated, PFail, PDrop, ModelInv, TypeOK
  <2>2. pThread' \in PThreads /\ ToPush'
    BY <2>1, Typed DEF PDrop, PThreads, ToPush, ModelInv
  <2> QED
    BY <2>1, <2>2 DEF PDrop, models, kopf, gens, ModelInv, TypeOK, OwnInPast, PThreads
<1>7. ASSUME NEW c \in Child, PRaise(c) PROVE ModelInv'
  BY <1>7, RestTyped
  DEF PRaise, PIdle, models, kopf, gens, budget, ModelInv, TypeOK, ToPush, OwnInPast, PThreads
<1> QED
  BY <1>1, <1>2, <1>3, <1>4, <1>5, <1>6, <1>7 DEF ParentThread

\* The thread of a child.
LEMMA ChildKeeps ==
    ASSUME ModelInv, NEW c \in Child, ChildThread(c) \/ CFail(c)
    PROVE  ModelInv'
<1>0. cThread[c] \in CThreads /\ child[c] \in Model /\ Returned(cThread[c]) \in CThreads
  BY Typed, RestTyped DEF Returned, CThreads, Model
<1>1. cThread' \in [Child -> CThreads]
  <2>1. CASE UNCHANGED cThread
    BY <2>1, Typed
  <2>2. CASE CStart(c) \/ CSyncFromParent(c) \/ CRaise(c) \/ CCheck(c)
    <3>1. ASSUME NEW t \in CThreads, cThread' = [cThread EXCEPT ![c] = t]
          PROVE  cThread' \in [Child -> CThreads]
      BY <3>1, Typed
    <3>2. [cThread[c] EXCEPT !.pc = "push"] \in CThreads
      BY <1>0 DEF CThreads
    <3>3. LET t == [cThread[c] EXCEPT !.ev = child[c]] IN
          /\ [t EXCEPT !.pc = "check"] \in CThreads
          /\ [t EXCEPT !.pc = "create", !.trim = TrimChild,
                       !.again = t.seen \notin {0, child[c].gen}] \in CThreads
      BY <1>0, MounterAssumption DEF CThreads
    <3> QED
      BY <2>2, <3>1, <3>2, <3>3, RestTyped
      DEF CStart, CSyncFromParent, CRaise, CCheck, SetThread
  <2>3. CASE CSkip(c) \/ CNotMounted(c) \/ CFail(c) \/ CMark(c)
    BY <1>0, <2>3, Typed DEF CSkip, CNotMounted, CReturn, CFail, CMark, SetThread
  <2>4. CASE CToParent(c)
    <3>1. parent.gen \in Nat /\ parent'.gen \in Nat
      BY <2>4, Typed DEF CToParent, PutMounts
    <3> QED
      BY <1>0, <2>4, <3>1, Typed DEF CToParent, SetThread, CThreads
  <2> QED
    BY <2>1, <2>2, <2>3, <2>4 DEF ChildThread, CDelete
<1>2. parent' \in [gen : Nat, mount : Mounts]
  <2>1. CASE CToParent(c)
    <3>1. parent.mount[c] \in Entry
      BY <2>1, Typed DEF CToParent, Mounted, Mounts
    <3>2. Merge(parent.mount[c].spec, Trim(cThread[c].ev.spec, cThread[c].trim)) \in Spec_
      BY <1>0, <3>1, SpecsStay DEF CThreads, Model, Entry
    <3>3. Synced(c, cThread[c]) \in Entry
      BY <1>0, <3>1, <3>2 DEF Synced, Entry, CThreads, Model
    <3>4. [parent.mount EXCEPT ![c] = Synced(c, cThread[c])] \in Mounts
      BY <3>3, Typed DEF Mounts
    <3> QED
      BY <2>1, <3>4, Typed, PutMountsMoves DEF CToParent
  <2>2. CASE ~ CToParent(c)
    <3>1. UNCHANGED parent
      BY <2>2 DEF ChildThread, CStart, CSyncFromParent, CRaise, CSkip, CCheck, CMark,
        CNotMounted, CDelete, CFail, CReturn, models
    <3> QED
      BY <3>1, Typed
  <2> QED
    BY <2>1, <2>2
<1>3. /\ childrenGen' \in [Child -> Nat] /\ parentSkip' \in Nat
      /\ watch' \in [Child -> {"none", "fresh", "on"}]
      /\ errs' \in 0..MaxErr
  <2>1. child[c].gen \in Nat /\ cThread[c].new \in Nat
    BY <1>0 DEF CThreads, Model
  <2>2. CASE CStart(c) \/ CDelete(c)
    BY <2>2 DEF CStart, CDelete, gens, budget, ModelInv, TypeOK
  <2>3. CASE CSyncFromParent(c)
    BY <2>1, <2>3 DEF CSyncFromParent, budget, ModelInv, TypeOK
  <2>4. CASE CMark(c)
    BY <2>1, <2>4 DEF CMark, budget, ModelInv, TypeOK
  <2>5. CASE CRaise(c) \/ CSkip(c) \/ CCheck(c) \/ CToParent(c) \/ CNotMounted(c) \/ CFail(c)
    BY <2>5, MounterAssumption
    DEF CRaise, CSkip, CCheck, CToParent, CNotMounted, CFail, CReturn, gens, budget, ModelInv, TypeOK
  <2> QED
    BY <2>2, <2>3, <2>4, <2>5 DEF ChildThread
<1>4. UNCHANGED <<child, own, kopf, pThread, childrenSkip, rushed, ops>>
  BY DEF ChildThread, CStart, CSyncFromParent, CRaise, CSkip, CCheck, CToParent,
    CMark, CNotMounted, CDelete, CFail, CReturn, models, gens, budget
<1> QED
  BY <1>1, <1>2, <1>3, <1>4 DEF ModelInv, TypeOK, ToPush, OwnInPast, kopf, CThreads

\* Every step keeps the types, and children's own writes in their past.
LEMMA ModelStep == ModelInv /\ [Next]_vars => ModelInv'
<1> SUFFICES ASSUME ModelInv, [Next]_vars PROVE ModelInv'
  OBVIOUS
<1>1. CASE UNCHANGED vars
  BY <1>1 DEF vars, models, kopf, gens, budget, ModelInv, TypeOK, ToPush, OwnInPast
<1>2. CASE UserNext
  BY <1>2, UsersKeep
<1>3. CASE ParentThread \/ \E c \in Child : PFail(c)
  BY <1>3, ParentKeeps
<1>4. ASSUME NEW c \in Child, ChildThread(c) \/ CFail(c) PROVE ModelInv'
  BY <1>4, ChildKeeps
<1> QED
  BY <1>1, <1>2, <1>3, <1>4 DEF Next, Fault

(***************************************************************************)
(* A mounter that starts, or goes on, keeps its dictionaries and the state *)
(* of its threads well typed, whatever users do and whatever fails.        *)
(***************************************************************************)
THEOREM TypesKept == (StartSpec => []TypeOK) /\ (SteadySpec => []TypeOK)
<1>1. ModelInv => TypeOK
  BY DEF ModelInv
<1> QED
  BY <1>1, StartInv, SteadyInv, ModelStep, PTL DEF StartSpec, SteadySpec

-----------------------------------------------------------------------------
(* The status *)

\* The one step by which the mounter writes a child.
LEMMA OnlyPPush ==
    ASSUME ModelInv, [Next]_vars, NEW c \in Child, Push(c)
    PROVE  PPush(c)
<1>1. child'[c] # child[c] /\ own'[c] = own[c] /\ child'[c].gen > 0
  BY DEF Push
<1>2. ~ UNCHANGED child
  BY <1>1
<1>3. ASSUME NEW d \in Child, PPush(d) PROVE d = c
  BY <1>1, <1>3, Typed DEF PPush
<1>4. ASSUME NEW d \in Child, NEW a \in Attr, NEW v \in Val, ChildWrite(d, a, v)
      PROVE  FALSE
  <2>1. d = c
    BY <1>1, <1>4, Typed DEF ChildWrite
  <2>2. [child[c].spec EXCEPT ![a] = v] \in Spec_ /\ child[c] \in Model
        /\ [child[c].spec EXCEPT ![a] = v] # child[c].spec
    BY <1>4, <2>1, Typed DEF ChildWrite, Model, Spec_
  <2>3. child'[c].gen = child[c].gen + 1 /\ own'[c] = child'[c].gen
    BY <1>4, <2>1, <2>2, Typed, PutMoves DEF ChildWrite
  <2>4. own[c] <= child[c].gen /\ own[c] \in Nat /\ child[c].gen \in Nat
    BY <1>4, <2>1, <2>2, Typed DEF ChildWrite, ModelInv, OwnInPast, Model
  <2> QED
    BY <1>1, <2>3, <2>4
<1>5. ASSUME NEW d \in Child, Delete(d) PROVE FALSE
  BY <1>1, <1>5, Typed DEF Delete
<1>6. ASSUME NEW d \in Child, ChildThread(d) \/ CFail(d) PROVE FALSE
  BY <1>2, <1>6 DEF ChildThread, CStart, CSyncFromParent, CRaise, CSkip, CCheck,
    CToParent, CMark, CNotMounted, CDelete, CFail, CReturn, models
<1>7. ASSUME PStart \/ PSkip \/ PCheck \/ PMark \/ PDone \/ Restart \/ UNCHANGED vars
      PROVE  FALSE
  BY <1>2, <1>7 DEF PStart, PSkip, PCheck, PMark, PDone, PReturn, Restart, vars, models
<1>8. ASSUME NEW d \in Child, POutdated(d) \/ PFail(d) \/ PRaise(d) PROVE FALSE
  BY <1>2, <1>8 DEF POutdated, PFail, PRaise, PDrop, models
<1>9. ASSUME NEW d \in Child, NEW a \in Attr, NEW v \in Val,
             CopyWrite(d, a, v) \/ Mount(d) \/ Unmount(d) \/ Toggle(d)
      PROVE  FALSE
  BY <1>2, <1>9 DEF CopyWrite, Mount, Unmount, Toggle, WriteMount
<1> QED
  <2>1. ~ UserNext
    BY <1>4, <1>5, <1>7, <1>9, MounterAssumption DEF UserNext, Attr
  <2>2. ParentThread \/ Fault
    BY <1>6, <1>7, <2>1 DEF Next, Fault
  <2> QED
    BY <2>2, <1>3, <1>6, <1>7, <1>8 DEF ParentThread, Fault

\* What a push writes into the child.
LEMMA PushWrites ==
    ASSUME ModelInv, NEW c \in Child, PPush(c)
    PROVE  /\ child[c] \in Model /\ pThread.mount[c] \in Entry
           /\ Pushed(c) \in Spec_
           /\ child'[c] = Put(child[c], Pushed(c))
<1>1. pThread.mount[c] \in Entry /\ child[c] \in Model
  BY Typed DEF PPush, ModelInv, ToPush, Mounted, PThreads, Mounts
<1>2. Pushed(c) \in Spec_
  BY <1>1, SpecsStay, MounterAssumption DEF Pushed, Model, Entry
<1> QED
  BY <1>1, <1>2, Typed DEF PPush

(***************************************************************************)
(* The status flows from the child to its copy only: where the mounter     *)
(* trims the status from what a parent pushes, as TRIM_FROM_PARENT does,   *)
(* no step of the mounter changes a child's status, whichever users write  *)
(* a copy's status, at start, after restarts and whatever fails.           *)
(***************************************************************************)
THEOREM ChildKeepsItsStatus ==
    ASSUME "status" \in TrimParent
    PROVE  (StartSpec => StatusIsTheChilds) /\ (SteadySpec => StatusIsTheChilds)
<1>1. ASSUME ModelInv, [Next]_vars, NEW c \in Child, Push(c)
      PROVE  child'[c].spec["status"] = child[c].spec["status"]
  <2>1. PPush(c)
    BY <1>1, OnlyPPush
  <2>2. child'[c].spec = Pushed(c)
    BY <1>1, <2>1, PushWrites, PutMoves
  <2>3. Pushed(c)["status"] = child[c].spec["status"]
    BY DEF Pushed, Merge, Trim, Attr
  <2> QED
    BY <2>2, <2>3
<1>2. ModelInv /\ [Next]_vars =>
        [\A c \in Child : Push(c) =>
            child'[c].spec["status"] = child[c].spec["status"]]_vars
  BY <1>1
<1> QED
  BY <1>2, StartInv, SteadyInv, ModelStep, PTL
  DEF StartSpec, SteadySpec, StatusIsTheChilds

-----------------------------------------------------------------------------
(* Copies and pushes in order                                              *)

\* Neither the driver's process dies nor does anyone mount or unmount.
Undisturbed == "restart" \notin Env /\ "mount" \notin Env

\* The generation of child c that its thread handles, or handled last.
Seen(c) == IF cThread[c].pc = "idle" THEN cThread[c].seen ELSE cThread[c].ev.gen

\* The generations the mounter takes for writes of its own, or is about to.
Known(c) == {childrenGen[c], childrenSkip[c]}
            \cup (IF pThread.pc = "mark" /\ pThread.at = c THEN {pThread.new} ELSE {})

\* The watches stay: no handler is called for a child that is created.
Watched ==
    \A c \in Child :
        /\ cThread[c].pc # "create" /\ cThread[c].again = FALSE
        /\ child[c].gen > 0 => watch[c] = "on"

\* The parent's event is not newer than the parent, whose copies are not
\* newer than what the children's threads have seen.
CopiesInOrder ==
    \A c \in Child :
        /\ Mounted(parent.mount, c) /\ own[c] > 0
        /\ parent.mount[c].gen <= Seen(c)
        /\ pThread.pc # "idle" =>
              /\ Mounted(pThread.mount, c)
              /\ pThread.mount[c].gen <= parent.mount[c].gen

\* Nothing the mounter saw or wrote is newer than the child.
KnownInPast ==
    \A c \in Child : child[c].gen > 0 =>
        /\ Seen(c) <= child[c].gen
        /\ \A g \in Known(c) : g <= child[c].gen

\* When the mounter wrote a child after the child's own last write, the
\* copies have that write: the parent's, and the one in the parent's event.
WritesKnown ==
    \A c \in Child : \A g \in Known(c) :
        own[c] <= g =>
            /\ own[c] <= parent.mount[c].gen
            /\ pThread.pc # "idle" => own[c] <= pThread.mount[c].gen

OrderInv == Watched /\ CopiesInOrder /\ KnownInPast /\ WritesKnown

LEMMA SteadyOrder == Steady => OrderInv
<1> SUFFICES ASSUME Steady PROVE OrderInv
  OBVIOUS
<1>1. PICK s \in [Attr -> Val] :
        /\ child = [c \in Child |-> [gen |-> 1, spec |-> s]]
        /\ parent = [gen |-> 2, mount |-> [c \in Child |->
                        [active |-> TRUE, spec |-> s, gen |-> 1]]]
  BY DEF Steady
<1>2. pThread.pc = "idle"
  BY DEF Steady, PIdle
<1>3. \A c \in Child : child[c].gen = 1 /\ own[c] = 1 /\ parent.mount[c].gen = 1
  BY <1>1 DEF Steady
<1>4. \A c \in Child : Mounted(parent.mount, c)
  <2>1. s \in Spec_
    BY DEF Spec_
  <2>2. \A c \in Child : parent.mount[c] \in Entry
    BY <1>1, <2>1 DEF Entry
  <2> QED
    BY <2>2, MounterAssumption DEF Mounted
<1>5. \A c \in Child : /\ cThread[c].pc = "idle" /\ cThread[c].again = FALSE
                       /\ cThread[c].seen = 1
  BY DEF Steady, CIdle
<1>6. \A c \in Child : Seen(c) = 1
  BY <1>5 DEF Seen
<1>7. \A c \in Child : Known(c) = {1, 0}
  BY <1>2 DEF Steady, Known
<1>8. Watched
  BY <1>5 DEF Watched, Steady
<1>9. CopiesInOrder
  BY <1>2, <1>3, <1>4, <1>6 DEF CopiesInOrder
<1>10. KnownInPast /\ WritesKnown
  BY <1>2, <1>3, <1>6, <1>7 DEF KnownInPast, WritesKnown
<1> QED
  BY <1>8, <1>9, <1>10 DEF OrderInv

\* No process dies and no mount comes or goes.
LEMMA NothingDisturbs ==
    ASSUME Undisturbed, UserNext
    PROVE  \E c \in Child : \/ \E a \in Attr, v \in Val : ChildWrite(c, a, v) \/ CopyWrite(c, a, v)
                            \/ Toggle(c) \/ Delete(c)
BY DEF Undisturbed, UserNext, UserOp, Restart, Mount, Unmount

\* Values that the invariant compares are numbers.
LEMMA Numbers ==
    ASSUME ModelInv, OrderInv, NEW c \in Child
    PROVE  /\ child[c].gen \in Nat /\ own[c] \in Nat /\ Seen(c) \in Nat
           /\ Known(c) \subseteq Nat
           /\ parent.mount[c] \in Entry /\ parent.mount[c].gen \in Nat
           /\ pThread.pc # "idle" =>
                 pThread.mount[c] \in Entry /\ pThread.mount[c].gen \in Nat
<1>1. child[c] \in Model /\ own[c] \in Nat /\ child[c].gen \in Nat
  BY Typed DEF Model
<1>2. cThread[c] \in CThreads /\ Seen(c) \in Nat
  BY Typed DEF CThreads, Seen, Model
<1>3. Known(c) \subseteq Nat
  BY Typed DEF Known, PThreads
<1>4. parent.mount[c] \in Entry /\ parent.mount[c].gen \in Nat
  BY Typed DEF Mounts, OrderInv, CopiesInOrder, Mounted, Entry
<1>5. pThread.pc # "idle" => pThread.mount[c] \in Entry /\ pThread.mount[c].gen \in Nat
  BY Typed DEF PThreads, Mounts, OrderInv, CopiesInOrder, Mounted, Entry
<1> QED
  BY <1>1, <1>2, <1>3, <1>4, <1>5

\* A user who writes an entry keeps its generation.
LEMMA UserWritesInOrder ==
    ASSUME ModelInv, OrderInv, NEW c \in Child, NEW e \in Entry, WriteMount(c, e),
           e.gen = parent.mount[c].gen
    PROVE  OrderInv'
<1>1. [parent.mount EXCEPT ![c] = e] \in Mounts
  BY Typed DEF Mounts
<1>2. parent'.mount = [parent.mount EXCEPT ![c] = e]
  BY <1>1, Typed, PutMountsMoves DEF WriteMount
<1>3. \A d \in Child : Mounted(parent'.mount, d)
  BY <1>2, Typed, MounterAssumption DEF Mounted, OrderInv, CopiesInOrder, Mounts
<1>4. \A d \in Child : parent'.mount[d].gen = parent.mount[d].gen
  BY <1>2, Typed DEF Mounts
<1>5. UNCHANGED <<child, own, pThread, cThread, watch, childrenGen, childrenSkip>>
  BY DEF WriteMount, gens
<1>6. \A d \in Child : Seen(d)' = Seen(d) /\ Known(d)' = Known(d)
  BY <1>5 DEF Seen, Known
<1>7. Watched'
  BY <1>5 DEF OrderInv, Watched
<1>8. CopiesInOrder'
  BY <1>3, <1>4, <1>5, <1>6 DEF OrderInv, CopiesInOrder
<1>9. KnownInPast' /\ WritesKnown'
  BY <1>4, <1>5, <1>6 DEF OrderInv, KnownInPast, WritesKnown
<1> QED
  BY <1>7, <1>8, <1>9 DEF OrderInv

LEMMA UsersInOrder ==
    ASSUME ModelInv, OrderInv, Undisturbed, UserNext
    PROVE  OrderInv'
<1>1. ASSUME NEW c \in Child, NEW a \in Attr, NEW v \in Val, CopyWrite(c, a, v)
      PROVE  OrderInv'
  <2>1. [parent.mount[c] EXCEPT !.spec[a] = v] \in Entry
        /\ [parent.mount[c] EXCEPT !.spec[a] = v].gen = parent.mount[c].gen
    BY Numbers DEF Entry, Spec_
  <2> QED
    BY <1>1, <2>1, UserWritesInOrder DEF CopyWrite
<1>2. ASSUME NEW c \in Child, Toggle(c) PROVE OrderInv'
  <2>1. [parent.mount[c] EXCEPT !.active = ~ @] \in Entry
        /\ [parent.mount[c] EXCEPT !.active = ~ @].gen = parent.mount[c].gen
    BY Numbers DEF Entry
  <2> QED
    BY <1>2, <2>1, UserWritesInOrder DEF Toggle
<1>3. ASSUME NEW c \in Child, NEW a \in Attr, NEW v \in Val, ChildWrite(c, a, v)
      PROVE  OrderInv'
  <2>1. [child[c].spec EXCEPT ![a] = v] \in Spec_ /\ child[c] \in Model
        /\ [child[c].spec EXCEPT ![a] = v] # child[c].spec
    BY <1>3, Typed DEF ChildWrite, Model, Spec_
  <2>2. child'[c].gen = child[c].gen + 1 /\ own'[c] = child[c].gen + 1
        /\ child[c].gen > 0 /\ child[c].gen \in Nat
    BY <1>3, <2>1, Typed, PutMoves DEF ChildWrite, Model
  <2>3. \A d \in Child \ {c} : child'[d] = child[d] /\ own'[d] = own[d]
    BY <1>3, Typed DEF ChildWrite
  <2>4. UNCHANGED <<parent, pThread, cThread, watch, childrenGen, childrenSkip>>
    BY <1>3 DEF ChildWrite, gens
  <2>5. \A d \in Child : Seen(d)' = Seen(d) /\ Known(d)' = Known(d)
    BY <2>4 DEF Seen, Known
  <2>6. Watched'
    BY <2>2, <2>3, <2>4 DEF OrderInv, Watched
  <2>7. CopiesInOrder'
    BY <2>2, <2>3, <2>4, <2>5 DEF OrderInv, CopiesInOrder
  <2>8. KnownInPast' /\ WritesKnown'
    <3>1. Seen(c) <= child[c].gen /\ \A g \in Known(c) : g <= child[c].gen
      BY <2>2 DEF OrderInv, KnownInPast
    <3>2. \A g \in Known(c) : g <= child'[c].gen /\ ~ (own'[c] <= g)
      BY <2>2, <3>1, Numbers
    <3>3. Seen(c) <= child'[c].gen
      BY <2>2, <3>1, Numbers
    <3> QED
      BY <2>3, <2>4, <2>5, <3>2, <3>3 DEF OrderInv, KnownInPast, WritesKnown
  <2> QED
    BY <2>6, <2>7, <2>8 DEF OrderInv
<1>4. ASSUME NEW c \in Child, Delete(c) PROVE OrderInv'
  <2>1. child'[c].gen = 0 /\ \A d \in Child \ {c} : child'[d] = child[d]
    BY <1>4, Typed DEF Delete
  <2>2. UNCHANGED <<parent, own, pThread, cThread, watch, childrenGen, childrenSkip>>
    BY <1>4 DEF Delete, gens
  <2>3. \A d \in Child : Seen(d)' = Seen(d) /\ Known(d)' = Known(d)
    BY <2>2 DEF Seen, Known
  <2>4. Watched'
    BY <2>1, <2>2 DEF OrderInv, Watched
  <2>5. CopiesInOrder' /\ WritesKnown'
    BY <2>2, <2>3 DEF OrderInv, CopiesInOrder, WritesKnown
  <2>6. KnownInPast'
    BY <2>1, <2>3 DEF OrderInv, KnownInPast
  <2> QED
    BY <2>4, <2>5, <2>6 DEF OrderInv
<1> QED
  BY <1>1, <1>2, <1>3, <1>4, NothingDisturbs

\* A push is based on a copy with the child's own last write in it: the copy
\* it pushes claims so, or the mounter wrote the child since.
LEMMA PushIsCurrent ==
    ASSUME ModelInv, OrderInv, NEW c \in Child, PPush(c)
    PROVE  own[c] <= pThread.mount[c].gen /\ own[c] <= parent.mount[c].gen
<1>1. own[c] <= child[c].gen /\ ~ (BaseGen(c) < child[c].gen) /\ pThread.pc = "sync"
      /\ child[c].gen > 0
  BY Numbers DEF PPush, ModelInv, OwnInPast
<1>2. pThread.mount[c].gen \in Nat /\ pThread.mount[c].gen <= parent.mount[c].gen
  BY <1>1, Numbers DEF OrderInv, CopiesInOrder
<1>3. childrenGen[c] \in Nat /\ childrenGen[c] \in Known(c)
  BY Typed DEF Known
<1>4. CASE child[c].gen <= pThread.mount[c].gen
  BY <1>1, <1>2, <1>4, Numbers
<1>5. CASE child[c].gen <= childrenGen[c]
  BY <1>1, <1>3, <1>5, Numbers DEF OrderInv, WritesKnown
<1>6. child[c].gen <= pThread.mount[c].gen \/ child[c].gen <= childrenGen[c]
  BY <1>1, <1>2, <1>3, Numbers DEF BaseGen, Larger
<1> QED
  BY <1>4, <1>5, <1>6

\* A step of the parent's thread that writes nothing and learns nothing.
LEMMA ParentMovesInOrder ==
    ASSUME ModelInv, OrderInv,
           UNCHANGED <<child, parent, own, cThread>>,
           \A c \in Child : child[c].gen > 0 => watch'[c] = "on",
           \A c \in Child : Known(c)' \subseteq Known(c),
           \/ pThread'.pc = "idle"
           \/ pThread'.mount = parent.mount
           \/ pThread.pc # "idle" /\ pThread'.mount = pThread.mount
    PROVE  OrderInv'
<1>1. \A c \in Child : Seen(c)' = Seen(c)
  BY DEF Seen
<1>2. Watched'
  BY DEF OrderInv, Watched
<1>3. CopiesInOrder'
  BY <1>1, Numbers DEF OrderInv, CopiesInOrder
<1>4. KnownInPast'
  BY <1>1 DEF OrderInv, KnownInPast
<1>5. WritesKnown'
  BY DEF OrderInv, WritesKnown
<1> QED
  BY <1>2, <1>3, <1>4, <1>5 DEF OrderInv

LEMMA ParentInOrder ==
    ASSUME ModelInv, OrderInv, ParentThread \/ \E c \in Child : PFail(c)
    PROVE  OrderInv'
<1>1. CASE PStart
  <2>1. pThread'.mount = parent.mount /\ pThread'.pc = "check"
    BY <1>1 DEF PStart, PIdle
  <2>2. \A c \in Child : Known(c)' \subseteq Known(c)
    BY <1>1, <2>1 DEF PStart, Known, gens
  <2> QED
    BY <1>1, <2>1, <2>2, ParentMovesInOrder DEF PStart, models, OrderInv, Watched
<1>2. CASE PSkip \/ PDone \/ \E c \in Child : PRaise(c)
  <2>1. pThread'.pc = "idle" /\ UNCHANGED <<models, watch, cThread, gens>>
    BY <1>2 DEF PSkip, PDone, PRaise, PReturn, PIdle
  <2>2. \A c \in Child : Known(c)' \subseteq Known(c)
    BY <2>1 DEF Known, gens
  <2> QED
    BY <2>1, <2>2, ParentMovesInOrder DEF models, OrderInv, Watched
<1>3. CASE PCheck
  <2>1. pThread.pc = "check" /\ pThread'.pc = "sync" /\ pThread'.mount = pThread.mount
    BY <1>3, Typed DEF PCheck, PThreads
  <2>2. \A c \in Child : Known(c)' \subseteq Known(c)
    BY <1>3, <2>1 DEF PCheck, Known, gens
  <2>3. \A c \in Child : Mounted(pThread.mount, c)
    BY <2>1 DEF OrderInv, CopiesInOrder
  <2>4. \A c \in Child : child[c].gen > 0 => watch'[c] = "on"
    BY <1>3, <2>3 DEF PCheck, OrderInv, Watched
  <2> QED
    BY <1>3, <2>1, <2>2, <2>4, ParentMovesInOrder DEF PCheck, models
<1>4. CASE \E c \in Child : POutdated(c) \/ PFail(c)
  <2>1. pThread.pc = "sync" /\ pThread'.pc = "sync" /\ pThread'.mount = pThread.mount
        /\ UNCHANGED <<models, watch, cThread, gens>>
    BY <1>4, Typed DEF POutdated, PFail, PDrop, PThreads, kopf
  <2>2. \A c \in Child : Known(c)' \subseteq Known(c)
    BY <2>1 DEF Known, gens
  <2> QED
    BY <2>1, <2>2, ParentMovesInOrder DEF models, OrderInv, Watched
<1>5. CASE PMark
  <2>1. /\ pThread.pc = "mark" /\ pThread'.pc = "sync" /\ pThread'.mount = pThread.mount
        /\ pThread.at \in Child
        /\ UNCHANGED <<models, watch, cThread>>
    BY <1>5, Typed DEF PMark, PThreads, ModelInv, ToPush
  <2>2. \A c \in Child : /\ childrenGen'[c] \in Known(c)
                         /\ childrenSkip'[c] \in Known(c)
    BY <1>5, <2>1, Typed DEF PMark, Known
  <2>3. \A c \in Child : Known(c)' \subseteq Known(c)
    BY <2>1, <2>2 DEF Known
  <2> QED
    BY <2>1, <2>3, ParentMovesInOrder DEF models, OrderInv, Watched
<1>6. ASSUME NEW c \in Child, PPush(c) PROVE OrderInv'
  <2>1. /\ pThread.pc = "sync" /\ pThread'.pc = "mark" /\ pThread'.at = c
        /\ pThread'.mount = pThread.mount /\ pThread'.new = child'[c].gen
        /\ UNCHANGED <<parent, own, watch, cThread, childrenGen, childrenSkip>>
    BY <1>6, Typed DEF PPush, PThreads, gens
  <2>2. /\ child[c].gen > 0 /\ child[c].gen \in Nat
        /\ child'[c].gen \in Nat /\ child[c].gen <= child'[c].gen
        /\ \A d \in Child \ {c} : child'[d] = child[d]
    <3>1. child[c].gen > 0 /\ child[c].gen \in Nat
      BY <1>6, Numbers DEF PPush
    <3>2. child'[c] = child[c] \/ child'[c].gen = child[c].gen + 1
      BY <1>6, PushWrites, PutMoves
    <3>3. \A d \in Child \ {c} : child'[d] = child[d]
      BY <1>6, Typed DEF PPush
    <3> QED
      BY <3>1, <3>2, <3>3
  <2>3. /\ \A d \in Child : Seen(d)' = Seen(d)
        /\ \A d \in Child \ {c} : Known(d)' = Known(d)
        /\ Known(c)' = Known(c) \cup {child'[c].gen}
    BY <2>1 DEF Seen, Known
  <2>4. Watched' /\ CopiesInOrder'
    <3>1. Watched'
      BY <2>1, <2>2 DEF OrderInv, Watched
    <3>2. CopiesInOrder'
      BY <2>1, <2>3 DEF OrderInv, CopiesInOrder
    <3> QED
      BY <3>1, <3>2
  <2>5. KnownInPast'
    <3>1. Seen(c) <= child[c].gen /\ \A g \in Known(c) : g <= child[c].gen
      BY <2>2 DEF OrderInv, KnownInPast
    <3>2. Seen(c) <= child'[c].gen /\ \A g \in Known(c) : g <= child'[c].gen
      BY <2>2, <3>1, Numbers
    <3>3. \A g \in Known(c)' : g <= child'[c].gen
      BY <2>2, <2>3, <3>2
    <3> QED
      BY <2>2, <2>3, <3>2, <3>3 DEF OrderInv, KnownInPast
  <2>6. WritesKnown'
    <3>1. own[c] <= pThread.mount[c].gen /\ own[c] <= parent.mount[c].gen
      BY <1>6, PushIsCurrent
    <3>2. \A d \in Child : \A g \in Known(d)' :
             own[d] <= g => /\ own[d] <= parent.mount[d].gen
                            /\ own[d] <= pThread.mount[d].gen
      BY <2>1, <2>3, <3>1 DEF OrderInv, WritesKnown
    <3> QED
      BY <2>1, <3>2 DEF WritesKnown
  <2> QED
    BY <2>4, <2>5, <2>6 DEF OrderInv
<1> QED
  BY <1>1, <1>2, <1>3, <1>4, <1>5, <1>6 DEF ParentThread

\* The thread of a child: what it has seen only grows, up to the child.
LEMMA ChildInOrder ==
    ASSUME ModelInv, OrderInv, NEW c \in Child, ChildThread(c) \/ CFail(c)
    PROVE  OrderInv'
<1>1. ~ CSyncFromParent(c) /\ ~ CRaise(c)
  BY DEF CSyncFromParent, CRaise, OrderInv, Watched
<1>2. /\ UNCHANGED <<child, own, pThread, childrenGen, childrenSkip>>
      /\ \A d \in Child : Known(d)' = Known(d)
  <2>1. UNCHANGED <<child, own, pThread, childrenGen, childrenSkip>>
    BY <1>1 DEF ChildThread, CStart, CSkip, CCheck, CToParent, CMark, CNotMounted,
      CDelete, CFail, CReturn, models, gens
  <2> QED
    BY <2>1 DEF Known
<1>3. \A d \in Child \ {c} : cThread'[d] = cThread[d] /\ Seen(d)' = Seen(d)
  <2>1. UNCHANGED cThread \/ \E t : SetThread(c, t)
    BY <1>1 DEF ChildThread, CStart, CSkip, CCheck, CToParent, CMark, CNotMounted,
      CDelete, CFail, CReturn
  <2>2. \A d \in Child \ {c} : cThread'[d] = cThread[d]
    BY <2>1, Typed DEF SetThread
  <2> QED
    BY <2>2 DEF Seen
<1>4. Returned(cThread[c]) = [CIdle EXCEPT !.seen = cThread[c].ev.gen]
  BY DEF Returned, OrderInv, Watched
<1>5. /\ cThread'[c].pc # "create" /\ cThread'[c].again = FALSE
      /\ Seen(c)' = Seen(c) \/ (CStart(c) /\ Seen(c)' = child[c].gen)
  <2>1. CASE CStart(c)
    <3>1. child[c].gen > 0 /\ watch[c] = "on" /\ cThread[c].pc = "idle"
      BY <2>1 DEF CStart, OrderInv, Watched
    <3>2. SetThread(c, [[cThread[c] EXCEPT !.ev = child[c]] EXCEPT !.pc = "check"])
      BY <2>1, <3>1 DEF CStart
    <3>3. cThread'[c] = [[cThread[c] EXCEPT !.ev = child[c]] EXCEPT !.pc = "check"]
      BY <3>2, Typed DEF SetThread
    <3>4. cThread[c] \in CThreads /\ cThread[c].again = FALSE
      BY Typed DEF OrderInv, Watched
    <3>5. cThread'[c].pc = "check" /\ cThread'[c].again = FALSE /\ cThread'[c].ev = child[c]
      BY <3>3, <3>4 DEF CThreads
    <3> QED
      BY <2>1, <3>5 DEF Seen
  <2>2. CASE CSkip(c) \/ CNotMounted(c) \/ CMark(c) \/ CFail(c)
    <3>1. cThread'[c] = [CIdle EXCEPT !.seen = cThread[c].ev.gen] /\ cThread[c].pc # "idle"
      BY <1>4, <2>2, Typed DEF CSkip, CNotMounted, CMark, CFail, CReturn, SetThread
    <3>2. /\ cThread'[c].pc = "idle" /\ cThread'[c].again = FALSE
          /\ cThread'[c].seen = cThread[c].ev.gen
      BY <3>1 DEF CIdle
    <3>3. Seen(c)' = Seen(c)
      BY <3>1, <3>2 DEF Seen
    <3> QED
      BY <3>2, <3>3
  <2>3. CASE CCheck(c) \/ CToParent(c)
    <3>1. cThread[c] \in CThreads /\ cThread[c].again = FALSE /\ cThread[c].pc # "idle"
      BY <2>3, Typed DEF OrderInv, Watched, CCheck, CToParent
    <3>2. PICK t \in CThreads :
            /\ cThread' = [cThread EXCEPT ![c] = t] /\ t.ev = cThread[c].ev
            /\ t.pc \in {"push", "mark"} /\ t.again = FALSE
      <4>1. CASE CCheck(c)
        <5>1. LET t == [cThread[c] EXCEPT !.pc = "push"] IN
              t \in CThreads /\ t.ev = cThread[c].ev /\ t.pc = "push" /\ t.again = FALSE
          BY <3>1 DEF CThreads
        <5> QED
          BY <4>1, <5>1 DEF CCheck, SetThread
      <4>2. CASE CToParent(c)
        <5>1. parent.gen \in Nat /\ parent'.gen \in Nat
          BY <4>2, Typed DEF CToParent, PutMounts
        <5>2. LET t == [cThread[c] EXCEPT !.pc = "mark", !.cur = parent.gen,
                                          !.new = parent'.gen] IN
              t \in CThreads /\ t.ev = cThread[c].ev /\ t.pc = "mark" /\ t.again = FALSE
          BY <3>1, <5>1 DEF CThreads
        <5> QED
          BY <4>2, <5>2 DEF CToParent, SetThread
      <4> QED
        BY <2>3, <4>1, <4>2
    <3>3. cThread'[c] = t
      BY <3>2, Typed
    <3>4. Seen(c)' = Seen(c)
      BY <3>1, <3>2, <3>3 DEF Seen
    <3>5. cThread'[c].pc # "create" /\ cThread'[c].again = FALSE
      BY <3>2, <3>3
    <3> QED
      BY <3>4, <3>5
  <2>4. CASE CDelete(c)
    <3>1. UNCHANGED cThread
      BY <2>4 DEF CDelete
    <3>2. Seen(c)' = Seen(c)
      BY <3>1 DEF Seen
    <3>3. cThread'[c].pc # "create" /\ cThread'[c].again = FALSE
      BY <3>1 DEF OrderInv, Watched
    <3> QED
      BY <3>2, <3>3
  <2> QED
    BY <1>1, <2>1, <2>2, <2>3, <2>4 DEF ChildThread
<1>6. /\ \A d \in Child : Mounted(parent'.mount, d)
      /\ \A d \in Child \ {c} : parent'.mount[d] = parent.mount[d]
      /\ parent'.mount[c] = parent.mount[c] \/ parent'.mount[c].gen = Seen(c)
  <2>1. CASE CToParent(c)
    <3>1. parent.mount[c] \in Entry /\ cThread[c] \in CThreads
      BY Numbers, Typed
    <3>2. Merge(parent.mount[c].spec, Trim(cThread[c].ev.spec, cThread[c].trim)) \in Spec_
      BY <3>1, SpecsStay DEF CThreads, Model, Entry
    <3>3. Synced(c, cThread[c]) \in Entry
      BY <3>1, <3>2 DEF Synced, Entry, CThreads, Model
    <3>4. [parent.mount EXCEPT ![c] = Synced(c, cThread[c])] \in Mounts
      BY <3>3, Typed DEF Mounts
    <3>5. parent'.mount = [parent.mount EXCEPT ![c] = Synced(c, cThread[c])]
      BY <2>1, <3>4, Typed, PutMountsMoves DEF CToParent
    <3>6. Synced(c, cThread[c]).gen = cThread[c].ev.gen /\ cThread[c].pc = "push"
      BY <2>1, <3>1 DEF CToParent, Synced, Entry
    <3>7. /\ parent'.mount[c] = Synced(c, cThread[c])
          /\ \A d \in Child \ {c} : parent'.mount[d] = parent.mount[d]
      BY <3>5, Typed DEF Mounts
    <3>8. \A d \in Child : Mounted(parent'.mount, d)
      BY <3>3, <3>7, MounterAssumption DEF Mounted, OrderInv, CopiesInOrder
    <3> QED
      BY <3>6, <3>7, <3>8 DEF Seen
  <2>2. CASE ~ CToParent(c)
    <3>1. UNCHANGED parent
      BY <1>1, <2>2 DEF ChildThread, CStart, CSkip, CCheck, CMark, CNotMounted,
        CDelete, CFail, CReturn, models
    <3> QED
      BY <3>1 DEF OrderInv, CopiesInOrder
  <2> QED
    BY <2>1, <2>2
<1>7. Watched'
  <2>1. \A d \in Child : child[d].gen > 0 => watch'[d] = "on"
    <3>1. CASE CDelete(c)
      <4>1. child[c].gen = 0
        BY <3>1 DEF CDelete
      <4>2. \A d \in Child \ {c} : watch'[d] = watch[d]
        BY <3>1 DEF CDelete, ModelInv, TypeOK
      <4> QED
        BY <4>1, <4>2 DEF OrderInv, Watched
    <3>2. CASE CStart(c)
      BY <3>2 DEF CStart, OrderInv, Watched, ModelInv, TypeOK
    <3>3. CASE ~ CDelete(c) /\ ~ CStart(c)
      <4>1. UNCHANGED watch
        BY <1>1, <3>3 DEF ChildThread, CSkip, CCheck, CToParent, CMark, CNotMounted,
          CFail, CReturn
      <4> QED
        BY <4>1 DEF OrderInv, Watched
    <3> QED
      BY <3>1, <3>2, <3>3
  <2> QED
    BY <1>2, <1>3, <1>5, <2>1 DEF OrderInv, Watched
<1>8. /\ Seen(c) <= Seen(c)' /\ parent'.mount[c].gen <= Seen(c)'
      /\ parent.mount[c].gen <= parent'.mount[c].gen
      /\ child[c].gen > 0 => Seen(c)' <= child[c].gen
  <2>1. Seen(c) <= Seen(c)' /\ (child[c].gen > 0 => Seen(c)' <= child[c].gen)
    BY <1>5, Numbers DEF CStart, OrderInv, KnownInPast
  <2>2. parent.mount[c].gen <= parent'.mount[c].gen /\ parent'.mount[c].gen <= Seen(c)
    BY <1>6, Numbers DEF OrderInv, CopiesInOrder
  <2>3. parent'.mount[c].gen \in Nat /\ Seen(c)' \in Nat
    BY <1>5, <1>6, Numbers
  <2> QED
    BY <2>1, <2>2, <2>3, Numbers
<1>9. CopiesInOrder'
  <2>1. \A d \in Child : parent.mount[d].gen <= parent'.mount[d].gen
    BY <1>6, <1>8, Numbers
  <2>2. \A d \in Child : parent'.mount[d].gen \in Nat
    BY <1>6, Numbers
  <2>3. \A d \in Child : parent'.mount[d].gen <= Seen(d)'
    BY <1>3, <1>6, <1>8 DEF OrderInv, CopiesInOrder
  <2>4. \A d \in Child : pThread.pc # "idle" =>
           pThread.mount[d].gen <= parent'.mount[d].gen
    BY <2>1, <2>2, Numbers DEF OrderInv, CopiesInOrder
  <2> QED
    BY <1>2, <1>6, <2>3, <2>4 DEF OrderInv, CopiesInOrder
<1>10. KnownInPast'
  BY <1>2, <1>3, <1>8 DEF OrderInv, KnownInPast
<1>11. WritesKnown'
  <2>1. \A d \in Child : own[d] <= parent.mount[d].gen => own[d] <= parent'.mount[d].gen
    BY <1>6, <1>8, Numbers
  <2> QED
    BY <1>2, <2>1 DEF OrderInv, WritesKnown
<1> QED
  BY <1>7, <1>9, <1>10, <1>11 DEF OrderInv

\* The copies stay in order.
LEMMA OrderStep ==
    ASSUME Undisturbed
    PROVE  ModelInv /\ OrderInv /\ [Next]_vars => OrderInv'
<1> SUFFICES ASSUME ModelInv, OrderInv, [Next]_vars PROVE OrderInv'
  OBVIOUS
<1>1. CASE UNCHANGED vars
  BY <1>1 DEF vars, models, kopf, gens, budget, OrderInv, Watched, CopiesInOrder,
    KnownInPast, WritesKnown, Seen, Known
<1>2. CASE UserNext
  BY <1>2, UsersInOrder
<1>3. CASE ParentThread \/ \E c \in Child : PFail(c)
  BY <1>3, ParentInOrder
<1>4. ASSUME NEW c \in Child, ChildThread(c) \/ CFail(c) PROVE OrderInv'
  BY <1>4, ChildInOrder
<1> QED
  BY <1>1, <1>2, <1>3, <1>4 DEF Next, Fault

(***************************************************************************)
(* "The parent's copy might be out of date": from the steady state, as     *)
(* long as the driver's process lives and no mount comes or goes, no push  *)
(* of the parent's thread overwrites a write of the child itself that the  *)
(* pushed copy does not have, for any number of children that are written, *)
(* toggled or deleted in any order while requests fail.                    *)
(***************************************************************************)
THEOREM PushesAreCurrent ==
    ASSUME Undisturbed
    PROVE  SteadySpec => NoStaleOverwrite
<1>1. ASSUME ModelInv, OrderInv, [Next]_vars, NEW c \in Child, Push(c)
      PROVE  own[c] <= pThread.mount[c].gen
  BY <1>1, OnlyPPush, PushIsCurrent
<1>2. ModelInv /\ OrderInv /\ [Next]_vars =>
        [\A c \in Child : Push(c) => own[c] <= pThread.mount[c].gen]_vars
  BY <1>1
<1> QED
  BY <1>2, SteadyInv, SteadyOrder, ModelStep, OrderStep, PTL
  DEF SteadySpec, NoStaleOverwrite

(***************************************************************************)
(* The event that on_child_update skips as an echo of the mounter's own    *)
(* write hides no write of the child that the parent's copy does not have. *)
(***************************************************************************)
THEOREM SkipsAreEchoes ==
    ASSUME Undisturbed
    PROVE  SteadySpec => []SkipLosesNothing
<1>1. OrderInv => SkipLosesNothing
  BY DEF OrderInv, WritesKnown, Known, SkipLosesNothing
<1> QED
  BY <1>1, SteadyInv, SteadyOrder, ModelStep, OrderStep, PTL DEF SteadySpec

=============================================================================
