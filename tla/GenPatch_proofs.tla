--------------------------- MODULE GenPatch_proofs ---------------------------
(***************************************************************************)
(* Proofs about the optimistic patch loop, for every set of clients,       *)
(* attributes and values and with no bound on generations: type            *)
(* correctness, the inductive invariant SeenIsCurrent, the action property *)
(* NeverOntoNewer, and that the loop implements AtomicPatch.               *)
(***************************************************************************)
EXTENDS GenPatch, TLAPS

(* The empty patch an idle call record carries is a patch.                 *)
LEMMA IdleType == Idle \in Call
<1>1. Atomic!NoPatch \in [{} -> Value]
  BY DEF Atomic!NoPatch
<1>2. Atomic!NoPatch \in Patch
  BY <1>1 DEF Patch, Atomic!Patch
<1>3. NoResult \in Result
  BY DEF NoResult, Atomic!NoResult, Result, Atomic!Result, Atomic!Outcome
<1> QED
  BY <1>2, <1>3 DEF Idle, Atomic!Idle, NoResult, Call

(* A patch turns a well-typed model into a well-typed model whose          *)
(* generation and resourceVersion have not gone backwards.                 *)
LEMMA PatchedType ==
    ASSUME NEW o \in [spec : Model, gen : Nat, rv : Nat], NEW p \in Patch
    PROVE  /\ Patched(o, p) \in [spec : Model, gen : Nat, rv : Nat]
           /\ Patched(o, p).rv >= o.rv /\ Patched(o, p).gen >= o.gen
           /\ Patched(o, p).rv = o.rv => Patched(o, p) = o
           /\ Patched(o, p).gen = Atomic!Bump(o.spec, Patched(o, p).spec, o.gen)
           /\ Patched(o, p).spec = Atomic!Merge(o.spec, p)
<1> DEFINE s == Atomic!Merge(o.spec, p)
<1>1. PICK S \in SUBSET Attr : p \in [S -> Value]
  BY DEF Patch, Atomic!Patch
<1>2. s \in Model
  BY <1>1 DEF Atomic!Merge, Model, Atomic!Model
<1> HIDE DEF s
<1>3. Patched(o, p) = IF s = o.spec THEN o
                      ELSE [spec |-> s, gen |-> o.gen + 1, rv |-> o.rv + 1]
  BY DEF Patched, s
<1>4. CASE s = o.spec
  BY <1>2, <1>3, <1>4 DEF Atomic!Bump, s
<1>5. CASE s # o.spec
  BY <1>2, <1>3, <1>5 DEF Atomic!Bump, s
<1> QED
  BY <1>4, <1>5

(* Ending a call with a well-formed result keeps the calls well-typed and  *)
(* changes that call's program counter and result only.                    *)
LEMMA FinishType ==
    ASSUME TypeOK, NEW c \in Client, NEW status \in Atomic!Outcome,
           NEW cur \in Nat, NEW new \in Nat, Finish(c, status, cur, new)
    PROVE  /\ call' \in [Client -> Call]
           /\ call'[c].st = "done"
           /\ call'[c].res = [status |-> status, cur |-> cur, new |-> new]
           /\ call'[c].gen = call[c].gen
           /\ call'[c].patch = call[c].patch
           /\ \A d \in Client \ {c} : call'[d] = call[d]
<1> DEFINE r == [status |-> status, cur |-> cur, new |-> new]
           b == [call[c] EXCEPT !.st = "done", !.res = r]
<1>1. r \in Result
  BY DEF Result, Atomic!Result
<1>2. call[c] \in Call
  BY DEF TypeOK
<1> HIDE DEF r
<1>3. /\ b \in Call
      /\ b.st = "done" /\ b.res = r
      /\ b.gen = call[c].gen /\ b.patch = call[c].patch
  BY <1>1, <1>2 DEF Call
<1>4. call' = [call EXCEPT ![c] = b]
  BY DEF Finish, TypeOK, Call, r
<1> HIDE DEF b
<1> QED
  BY <1>3, <1>4 DEF TypeOK, r

-----------------------------------------------------------------------------

(* The calls and the object keep their types: in particular every result   *)
(* a caller reads generations from is a well-formed result.                *)
THEOREM TypeCorrect == Spec => []TypeOK
<1> USE GenPatchAssumption
<1>1. Init => TypeOK
  BY IdleType DEF Init, TypeOK
<1>2. TypeOK /\ [Next]_vars => TypeOK'
  <2> SUFFICES ASSUME TypeOK, [Next]_vars PROVE TypeOK'
    OBVIOUS
  <2> USE DEF TypeOK, Call
  <2>1. ASSUME NEW c \in Client, NEW p \in Patch,
               NEW g \in Atomic!BaseGen, Invoke(c, p, g)
        PROVE  TypeOK'
    <3>1. g \in Nat
      BY DEF Atomic!BaseGen
    <3>2. NoResult \in Result
      BY DEF NoResult, Atomic!NoResult, Result, Atomic!Result, Atomic!Outcome
    <3> QED
      BY <2>1, <3>1, <3>2 DEF Invoke
  <2>2. ASSUME NEW c \in Client, GetSpec(c) PROVE TypeOK'
    BY <2>2 DEF GetSpec
  <2>3. ASSUME NEW c \in Client, GenOutdated(c) PROVE TypeOK'
    BY <2>3, FinishType DEF GenOutdated, Atomic!Outcome
  <2>4. ASSUME NEW c \in Client, GetSpecFail(c) PROVE TypeOK'
    BY <2>4, FinishType DEF GetSpecFail, Atomic!Outcome
  <2>5. ASSUME NEW c \in Client, PatchSpec(c) PROVE TypeOK'
    <3>1. obj' \in [spec : Model, gen : Nat, rv : Nat]
      BY <2>5, PatchedType DEF PatchSpec
    <3>2. obj'.gen \in Nat
      BY <3>1
    <3> QED
      BY <2>5, <3>1, <3>2, FinishType DEF PatchSpec, Atomic!Outcome
  <2>6. ASSUME NEW c \in Client, PatchConflict(c) PROVE TypeOK'
    BY <2>6 DEF PatchConflict
  <2>7. ASSUME NEW c \in Client, PatchFail(c) PROVE TypeOK'
    BY <2>7, FinishType DEF PatchFail, Atomic!Outcome
  <2>8. ASSUME NEW c \in Client, Return(c) PROVE TypeOK'
    BY <2>8, IdleType DEF Return
  <2>9. ASSUME NEW s \in Model, ForeignWrite(s) PROVE TypeOK'
    BY <2>9 DEF ForeignWrite
  <2>10. CASE MetaWrite
    BY <2>10 DEF MetaWrite
  <2>11. CASE UNCHANGED vars
    BY <2>11 DEF vars
  <2> QED
    BY <2>1, <2>2, <2>3, <2>4, <2>5, <2>6, <2>7, <2>8, <2>9, <2>10, <2>11
    DEF Next, Progress
<1> QED
  BY <1>1, <1>2, PTL DEF Spec

-----------------------------------------------------------------------------

(* A call that is about to send its patch has compared its base generation *)
(* with the object that its resourceVersion names.                         *)
THEOREM SeenCurrent == Spec => []SeenIsCurrent
<1> USE GenPatchAssumption
<1>1. Init => SeenIsCurrent
  BY DEF Init, SeenIsCurrent, Idle, Atomic!Idle
<1>2. TypeOK /\ TypeOK' /\ SeenIsCurrent /\ [Next]_vars => SeenIsCurrent'
  <2> SUFFICES ASSUME TypeOK, TypeOK', SeenIsCurrent, [Next]_vars
               PROVE  SeenIsCurrent'
    OBVIOUS
  <2> USE DEF TypeOK, Call, SeenIsCurrent
  <2>1. ASSUME NEW c \in Client, NEW p \in Patch,
               NEW g \in Atomic!BaseGen, Invoke(c, p, g)
        PROVE  SeenIsCurrent'
    BY <2>1 DEF Invoke
  <2>2. ASSUME NEW c \in Client, GetSpec(c) PROVE SeenIsCurrent'
    BY <2>2 DEF GetSpec
  <2>3. ASSUME NEW c \in Client, GenOutdated(c) PROVE SeenIsCurrent'
    <3>1. /\ call'[c].st = "done"
          /\ \A d \in Client \ {c} : call'[d] = call[d]
      BY <2>3, FinishType DEF GenOutdated, Atomic!Outcome
    <3> QED
      BY <2>3, <3>1 DEF GenOutdated
  <2>4. ASSUME NEW c \in Client, GetSpecFail(c) PROVE SeenIsCurrent'
    <3>1. /\ call'[c].st = "done"
          /\ \A d \in Client \ {c} : call'[d] = call[d]
      BY <2>4, FinishType DEF GetSpecFail, Atomic!Outcome
    <3> QED
      BY <2>4, <3>1 DEF GetSpecFail
  <2>5. ASSUME NEW c \in Client, PatchSpec(c) PROVE SeenIsCurrent'
    <3>1. /\ obj'.gen \in Nat
          /\ obj'.rv >= obj.rv /\ obj'.gen >= obj.gen
          /\ obj'.rv = obj.rv => obj' = obj
      BY <2>5, PatchedType DEF PatchSpec
    <3>2. /\ call'[c].st = "done"
          /\ \A d \in Client \ {c} : call'[d] = call[d]
      BY <2>5, <3>1, FinishType DEF PatchSpec, Atomic!Outcome
    <3>3. /\ seen' = seen
          /\ \A d \in Client : seen[d].rv \in Nat /\ seen[d].gen \in Nat
          /\ obj.rv \in Nat /\ obj.gen \in Nat /\ obj'.rv \in Nat
      BY <2>5 DEF PatchSpec
    <3> HIDE DEF TypeOK
    <3> QED
      BY <3>1, <3>2, <3>3
  <2>6. ASSUME NEW c \in Client, PatchConflict(c) PROVE SeenIsCurrent'
    BY <2>6 DEF PatchConflict
  <2>7. ASSUME NEW c \in Client, PatchFail(c) PROVE SeenIsCurrent'
    <3>1. /\ call'[c].st = "done"
          /\ \A d \in Client \ {c} : call'[d] = call[d]
      BY <2>7, FinishType DEF PatchFail, Atomic!Outcome
    <3> QED
      BY <2>7, <3>1 DEF PatchFail
  <2>8. ASSUME NEW c \in Client, Return(c) PROVE SeenIsCurrent'
    BY <2>8 DEF Return, Idle, Atomic!Idle
  <2>9. ASSUME NEW s \in Model, ForeignWrite(s) PROVE SeenIsCurrent'
    BY <2>9 DEF ForeignWrite
  <2>10. CASE MetaWrite
    BY <2>10 DEF MetaWrite
  <2>11. CASE UNCHANGED vars
    BY <2>11 DEF vars
  <2> QED
    BY <2>1, <2>2, <2>3, <2>4, <2>5, <2>6, <2>7, <2>8, <2>9, <2>10, <2>11
    DEF Next, Progress
<1> QED
  BY <1>1, <1>2, TypeCorrect, PTL DEF Spec

(* A patch never lands on a generation beyond the one it was computed      *)
(* from, and its caller is told the generations before and after it.       *)
THEOREM PatchNeverOntoNewer == Spec => NeverOntoNewer
<1> USE GenPatchAssumption
<1> DEFINE A == \A c \in Client :
                  call[c].res.status # "ok" /\ call'[c].res.status = "ok" =>
                      /\ obj.gen <= call[c].gen
                      /\ call'[c].res.cur = obj.gen
                      /\ call'[c].res.new = obj'.gen
<1>1. TypeOK /\ TypeOK' /\ SeenIsCurrent /\ [Next]_vars => [A]_vars
  <2> SUFFICES ASSUME TypeOK, TypeOK', SeenIsCurrent, Next PROVE A
    OBVIOUS
  <2> USE DEF TypeOK, Call
  <2>1. ASSUME NEW c \in Client, NEW p \in Patch,
               NEW g \in Atomic!BaseGen, Invoke(c, p, g)
        PROVE  A
    BY <2>1 DEF Invoke, NoResult, Atomic!NoResult
  <2>2. ASSUME NEW c \in Client, GetSpec(c) \/ PatchConflict(c) PROVE A
    BY <2>2 DEF GetSpec, PatchConflict
  <2>3. ASSUME NEW c \in Client, GenOutdated(c) PROVE A
    <3>1. /\ call'[c].res = [status |-> "outdated", cur |-> obj.gen, new |-> 0]
          /\ \A d \in Client \ {c} : call'[d] = call[d]
      BY <2>3, FinishType DEF GenOutdated, Atomic!Outcome
    <3> QED
      BY <2>3, <3>1 DEF GenOutdated
  <2>4. ASSUME NEW c \in Client, GetSpecFail(c) PROVE A
    <3>1. /\ call'[c].res = [status |-> "error", cur |-> 0, new |-> 0]
          /\ \A d \in Client \ {c} : call'[d] = call[d]
      BY <2>4, FinishType DEF GetSpecFail, Atomic!Outcome
    <3> QED
      BY <2>4, <3>1 DEF GetSpecFail
  <2>5. ASSUME NEW c \in Client, PatchSpec(c) PROVE A
    <3>1. obj'.gen \in Nat /\ seen[c].gen = obj.gen /\ obj.gen <= call[c].gen
      BY <2>5 DEF PatchSpec, SeenIsCurrent
    <3>2. /\ call'[c].res = [status |-> "ok", cur |-> seen[c].gen,
                              new |-> obj'.gen]
          /\ call'[c].gen = call[c].gen
          /\ \A d \in Client \ {c} : call'[d] = call[d]
      BY <2>5, <3>1, FinishType DEF PatchSpec, Atomic!Outcome
    <3> QED
      BY <3>1, <3>2
  <2>6. ASSUME NEW c \in Client, PatchFail(c) PROVE A
    <3>1. /\ call'[c].res = [status |-> "error", cur |-> seen[c].gen, new |-> 0]
          /\ \A d \in Client \ {c} : call'[d] = call[d]
      BY <2>6, FinishType DEF PatchFail, Atomic!Outcome
    <3> QED
      BY <2>6, <3>1 DEF PatchFail
  <2>7. ASSUME NEW c \in Client, Return(c) PROVE A
    BY <2>7 DEF Return, Idle, Atomic!Idle, Atomic!NoResult
  <2>8. ASSUME NEW s \in Model, ForeignWrite(s) PROVE A
    BY <2>8 DEF ForeignWrite
  <2>9. CASE MetaWrite
    BY <2>9 DEF MetaWrite
  <2> QED
    BY <2>1, <2>2, <2>3, <2>4, <2>5, <2>6, <2>7, <2>8, <2>9
    DEF Next, Progress
<1> QED
  BY <1>1, TypeCorrect, SeenCurrent, PTL DEF Spec, NeverOntoNewer

-----------------------------------------------------------------------------

(* The abstract call of a client depends on that client's call only.       *)
LEMMA AbstractCallOf ==
    ASSUME TypeOK
    PROVE  /\ AbstractCall \in [Client -> [st : {"idle", "pending", "done"},
                                           patch : Patch, gen : Nat, res : Result]]
           /\ \A c \in Client :
                /\ AbstractCall[c].st =
                     IF call[c].st \in {"get", "patch"} THEN "pending" ELSE call[c].st
                /\ AbstractCall[c].patch = call[c].patch
                /\ AbstractCall[c].gen = call[c].gen
                /\ AbstractCall[c].res = call[c].res
<1> SUFFICES ASSUME NEW c \in Client
             PROVE  LET a == [call[c] EXCEPT !.st = IF call[c].st \in {"get", "patch"}
                                                    THEN "pending" ELSE call[c].st]
                    IN  /\ a \in [st : {"idle", "pending", "done"},
                                  patch : Patch, gen : Nat, res : Result]
                        /\ a.st = IF call[c].st \in {"get", "patch"}
                                  THEN "pending" ELSE call[c].st
                        /\ a.patch = call[c].patch
                        /\ a.gen = call[c].gen
                        /\ a.res = call[c].res
  BY DEF AbstractCall
<1>1. call[c] \in Call
  BY DEF TypeOK
<1> QED
  BY <1>1 DEF Call

(* A step that ends c's call with a result is the abstract decision.       *)
LEMMA FinishDecides ==
    ASSUME TypeOK, NEW c \in Client, NEW status \in Atomic!Outcome,
           NEW cur \in Nat, NEW new \in Nat, Finish(c, status, cur, new)
    PROVE  Atomic!Decide(c, [status |-> status, cur |-> cur, new |-> new])
<1> DEFINE r == [status |-> status, cur |-> cur, new |-> new]
<1>1. call[c] \in Call /\ call' = [call EXCEPT ![c] = [@ EXCEPT !.st = "done", !.res = r]]
  BY DEF TypeOK, Finish, Call
<1> HIDE DEF r
<1>2. AbstractCall' = [AbstractCall EXCEPT ![c] = [@ EXCEPT !.st = "done", !.res = r]]
  <2>1. ASSUME NEW d \in Client \ {c}
        PROVE  AbstractCall'[d] = AbstractCall[d]
    BY <1>1 DEF AbstractCall, TypeOK
  <2>2. AbstractCall'[c] = [AbstractCall[c] EXCEPT !.st = "done", !.res = r]
    <3>1. call'[c] = [call[c] EXCEPT !.st = "done", !.res = r]
      BY <1>1 DEF TypeOK
    <3>2. call'[c].st = "done"
      BY <1>1, <3>1 DEF Call
    <3>3. AbstractCall'[c] = [call'[c] EXCEPT !.st = "done"]
      BY <3>2 DEF AbstractCall
    <3> QED
      BY <1>1, <3>1, <3>3 DEF AbstractCall, Call
  <2> QED
    BY <2>1, <2>2 DEF AbstractCall
<1> QED
  BY <1>2, AbstractCallOf DEF Atomic!Decide, r

(* The loop implements the atomic patch: sending the patch under the       *)
(* current resourceVersion is Apply, finding the generation moved on is    *)
(* Refuse, an API error is Fail, and reading or retrying is a stutter.     *)
THEOREM Refinement == Spec => Implements
<1> USE GenPatchAssumption
<1>1. Init => Atomic!Init
  BY DEF Init, Atomic!Init, AbstractCall, Idle, Atomic!Idle, Model
<1>2. TypeOK /\ TypeOK' /\ SeenIsCurrent /\ [Next]_vars => [Atomic!Next]_(Atomic!vars)
  <2> SUFFICES ASSUME TypeOK, TypeOK', SeenIsCurrent, [Next]_vars
               PROVE  Atomic!Next \/ UNCHANGED Atomic!vars
    OBVIOUS
  <2> USE DEF TypeOK
  <2>1. ASSUME NEW c \in Client, NEW p \in Patch,
               NEW g \in Atomic!BaseGen, Invoke(c, p, g)
        PROVE  Atomic!Invoke(c, p, g)
    <3>1. AbstractCall' = [AbstractCall EXCEPT ![c] =
              [st |-> "pending", patch |-> p, gen |-> g, res |-> NoResult]]
      <4> DEFINE b == [st |-> "get", patch |-> p, gen |-> g, res |-> NoResult]
      <4>1. call' = [call EXCEPT ![c] = b]
        BY <2>1 DEF Invoke
      <4>2. /\ b.st = "get"
            /\ [b EXCEPT !.st = "pending"] =
                 [st |-> "pending", patch |-> p, gen |-> g, res |-> NoResult]
        OBVIOUS
      <4> HIDE DEF b
      <4> QED
        BY <4>1, <4>2 DEF AbstractCall
    <3> QED
      BY <2>1, <3>1, AbstractCallOf DEF Invoke, Atomic!Invoke, NoResult
  <2>2. ASSUME NEW c \in Client, GetSpec(c) \/ PatchConflict(c)
        PROVE  UNCHANGED Atomic!vars
    <3>1. /\ call[c].st \in {"get", "patch"}
          /\ \E st \in {"get", "patch"} :
                call' = [call EXCEPT ![c].st = st]
      <4>1. CASE GetSpec(c)
        BY <4>1 DEF GetSpec
      <4>2. CASE PatchConflict(c)
        BY <4>2 DEF PatchConflict
      <4> QED
        BY <2>2, <4>1, <4>2
    <3>2. ASSUME NEW d \in Client PROVE AbstractCall'[d] = AbstractCall[d]
      BY <3>1 DEF AbstractCall, Call
    <3>3. AbstractCall' = AbstractCall
      BY <3>2 DEF AbstractCall
    <3> QED
      BY <2>2, <3>3 DEF GetSpec, PatchConflict, Atomic!vars
  <2>3. ASSUME NEW c \in Client, GenOutdated(c) PROVE Atomic!Refuse(c)
    BY <2>3, FinishDecides, AbstractCallOf
    DEF GenOutdated, Atomic!Refuse, Atomic!Outcome
  <2>4. ASSUME NEW c \in Client, GetSpecFail(c) PROVE Atomic!Fail(c)
    <3>1. 0 \in 0..obj.gen
      OBVIOUS
    <3>2. Atomic!Decide(c, [status |-> "error", cur |-> 0, new |-> 0])
      BY <2>4, FinishDecides DEF GetSpecFail, Atomic!Outcome
    <3> QED
      BY <2>4, <3>1, <3>2, AbstractCallOf DEF GetSpecFail, Atomic!Fail
  <2>5. ASSUME NEW c \in Client, PatchSpec(c) PROVE Atomic!Apply(c)
    <3>1. seen[c].gen = obj.gen /\ obj.gen <= call[c].gen
      BY <2>5 DEF PatchSpec, SeenIsCurrent
    <3>2. /\ obj'.spec = Atomic!Merge(obj.spec, call[c].patch)
          /\ obj'.gen = Atomic!Bump(obj.spec, obj'.spec, obj.gen)
          /\ obj'.gen \in Nat
      BY <2>5, PatchedType DEF PatchSpec, Call
    <3>3. Atomic!Decide(c, [status |-> "ok", cur |-> obj.gen, new |-> obj'.gen])
      BY <2>5, <3>1, <3>2, FinishDecides DEF PatchSpec, Atomic!Outcome
    <3> QED
      BY <2>5, <3>1, <3>2, <3>3, AbstractCallOf DEF PatchSpec, Atomic!Apply
  <2>6. ASSUME NEW c \in Client, PatchFail(c) PROVE Atomic!Fail(c)
    <3>1. seen[c].gen \in 0..obj.gen
      BY <2>6 DEF PatchFail, SeenIsCurrent
    <3>2. Atomic!Decide(c, [status |-> "error", cur |-> seen[c].gen, new |-> 0])
      BY <2>6, FinishDecides DEF PatchFail, Atomic!Outcome
    <3> QED
      BY <2>6, <3>1, <3>2, AbstractCallOf DEF PatchFail, Atomic!Fail
  <2>7. ASSUME NEW c \in Client, Return(c) PROVE Atomic!Return(c)
    <3>1. AbstractCall' = [AbstractCall EXCEPT ![c] = Idle]
      BY <2>7 DEF Return, AbstractCall, Idle, Atomic!Idle
    <3> QED
      BY <2>7, <3>1, AbstractCallOf DEF Return, Atomic!Return, Idle
  <2>8. ASSUME NEW s \in Model, ForeignWrite(s) PROVE Atomic!ForeignWrite(s)
    BY <2>8 DEF ForeignWrite, Atomic!ForeignWrite, AbstractCall
  <2>9. CASE MetaWrite \/ UNCHANGED vars
    BY <2>9 DEF MetaWrite, vars, Atomic!vars, AbstractCall
  <2> QED
    BY <2>1, <2>2, <2>3, <2>4, <2>5, <2>6, <2>7, <2>8, <2>9
    DEF Next, Progress, Atomic!Next, Model, Patch
<1> QED
  BY <1>1, <1>2, TypeCorrect, SeenCurrent, PTL DEF Spec, Atomic!Spec, Implements
=============================================================================
