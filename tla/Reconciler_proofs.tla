-------------------------- MODULE Reconciler_proofs --------------------------
(***************************************************************************)
(* Proofs about the reconciler, for every set of handlers, every order of  *)
(* priorities and any number of writes, restarts, exceptions and errors:   *)
(* type correctness, NeverReverts and SkipsOnlySelfWrites, and, until the  *)
(* first fault, NoLostWork and PendingHasAFuture.                          *)
(***************************************************************************)
EXTENDS Reconciler, TLAPS

(* Every copy of the model is an old or the current state of it: copies    *)
(* are ordered by generation, and a generation determines its content.     *)
Before(s, t) == s.gen <= t.gen /\ (s.gen = t.gen => s = t)

(* An effect never runs ahead of the change it is the effect of.           *)
Sane(s) == \A h \in Handler : s.out[h] <= s.in[h]

Order ==
    /\ Before(handled, ev) /\ Before(ev, buf) /\ Before(buf, model)
    /\ Sane(model) /\ Sane(buf) /\ Sane(ev)
    /\ buf.gen > 0 /\ (pc # "idle" => ev.gen > 0)
    /\ pc = "patch" => \A h \in Handler : proc[h] \in {ev.in[h], ev.out[h]}

(* The last write this driver made, if any, is newer than the event it was *)
(* made from by one generation and changed nobody else's attributes.       *)
JustWrote == pc = "done" /\ skipGen = ev.gen + 1

SkipInv ==
    /\ skipGen <= model.gen
    /\ fresh /\ pc # "done" => skipGen = 0
    /\ pc # "done" => skipGen <= handled.gen + 1
    /\ pc \in {"check", "patch"} => skipGen <= ev.gen
    /\ pc = "done" => skipGen <= ev.gen + 1
    /\ \A s \in {model, buf, ev} : skipGen # 0 /\ s.gen = skipGen =>
          s.in = (IF JustWrote THEN ev.in ELSE handled.in)

(* Where the work is while no fault strikes.  SettledBut(s): the effects   *)
(* missing from s are those of pending handlers.                           *)
SettledBut(s) == \A h \in Handler \ pending : s.out[h] = s.in[h]

WorkInv ==
    /\ ~fresh => handled.gen > 0
    /\ pc \in {"check", "patch"} => fresh \/ handled.gen < ev.gen
    /\ pc \in {"idle", "check"} => lastSeen <= handled.gen /\ (fresh => lastSeen = 0)
    /\ pc \in {"patch", "done"} => lastSeen <= ev.gen
    /\ pc # "done" /\ handled.gen > 0 /\ skipGen # handled.gen + 1 =>
          SettledBut(handled)
    /\ pc # "done" /\ skipGen # 0 /\ skipGen = handled.gen + 1 =>
          \A s \in {model, buf, ev} : s.gen >= skipGen => s.out = handled.in
    /\ JustWrote =>
          \A s \in {model, buf} : s.gen >= skipGen => s.out = ev.in
    /\ pc = "patch" => proc = ev.in /\ SettledBut(ev)
    /\ pc = "done" /\ skipGen # ev.gen + 1 => SettledBut(ev)
    /\ pending # {} =>
          /\ pc \in {"idle", "check"} =>
                handled.gen < model.gen /\ skipGen <= handled.gen
          /\ pc = "done" => ev.gen < model.gen /\ skipGen <= ev.gen

Work == Faultless => WorkInv

-----------------------------------------------------------------------------

(* What the handlers return is an assignment of effects, each of them the  *)
(* one of the event or the one it had before.                              *)
LEMMA EditedType ==
    ASSUME TypeOK, NEW H \in SUBSET Handler
    PROVE  /\ Edited(H) \in Counter
           /\ \A h \in Handler : Edited(H)[h] = IF h \in H THEN ev.in[h] ELSE ev.out[h]
BY DEF TypeOK, Edited, Snapshot, Counter

(* The next states of a step, one by one.                                  *)
LEMMA NextCases ==
    ASSUME [Next]_vars
    PROVE  \/ \E h \in Handler : ForeignWrite(h)
           \/ \E h \in Handler : RunRaises(h)
           \/ Deliver \/ DoNotSkip \/ Crash \/ Start \/ SkipLastSeen
           \/ SkipSelfWrite \/ Run \/ PatchApplied \/ PatchOutdated \/ Persist
           \/ PatchRejected \/ GetSpecRaises \/ UNCHANGED vars
BY DEF Next, Reconcile

(* The reconciler's state keeps its types.                                 *)
THEOREM TypeCorrect == Spec => []TypeOK
<1> USE ReconcilerAssumption
<1>1. Init => TypeOK
  BY DEF Init, TypeOK, Snapshot, Counter, Zero
<1>2. TypeOK /\ [Next]_vars => TypeOK'
  <2> SUFFICES ASSUME TypeOK, [Next]_vars PROVE TypeOK'
    OBVIOUS
  <2> USE DEF TypeOK, memory
  <2>1. ASSUME NEW h \in Handler, ForeignWrite(h) PROVE TypeOK'
    <3> DEFINE i == [model.in EXCEPT ![h] = @ + 1]
    <3>1. i \in Counter
      BY DEF Snapshot, Counter
    <3>2. /\ model' = [model EXCEPT !.gen = model.gen + 1, !.in = i]
          /\ UNCHANGED <<handled, buf, fresh, pc, ev, proc, memory, faults>>
      BY <2>1 DEF ForeignWrite
    <3> HIDE DEF i
    <3>3. model.gen + 1 \in Nat /\ model \in Snapshot
      BY DEF Snapshot
    <3>4. model' \in Snapshot
      BY <3>1, <3>2, <3>3 DEF Snapshot
    <3> QED
      BY <3>2, <3>4
  <2>2. ASSUME NEW x \in Handler, RunRaises(x) PROVE TypeOK'
    <3> DEFINE before == {h \in ToRun : Prio[h] < Prio[x]}
    <3>1. before \in SUBSET Handler /\ before \cup {x} \in SUBSET Handler
      BY DEF ToRun
    <3>2. proc' \in Counter
      BY <2>2, <3>1, EditedType DEF RunRaises
    <3>3. pending' \in SUBSET Handler
      BY <2>2, <3>1 DEF RunRaises
    <3>4. ev.gen \in Nat
      BY DEF Snapshot
    <3> QED
      BY <2>2, <3>2, <3>3, <3>4 DEF RunRaises, Reconciling
  <2>3. CASE Deliver
    BY <2>3 DEF Deliver
  <2>4. CASE DoNotSkip
    BY <2>4 DEF DoNotSkip
  <2>5. CASE Crash
    BY <2>5 DEF Crash
  <2>6. CASE Start \/ Persist
    BY <2>6 DEF Start, Persist
  <2>7. CASE SkipLastSeen \/ SkipSelfWrite
    BY <2>7 DEF SkipLastSeen, SkipSelfWrite, Snapshot
  <2>8. CASE Run
    <3>1. ToRun \in SUBSET Handler
      BY DEF ToRun
    <3>2. proc' \in Counter /\ pending' \in SUBSET Handler
      BY <2>8, <3>1, EditedType DEF Run
    <3> QED
      BY <2>8, <3>2 DEF Run, Reconciling, Snapshot
  <2>9. CASE PatchApplied
    BY <2>9 DEF PatchApplied, Snapshot
  <2>10. CASE PatchOutdated \/ PatchRejected \/ GetSpecRaises
    BY <2>10 DEF PatchOutdated, PatchRejected, GetSpecRaises
  <2>11. CASE UNCHANGED vars
    BY <2>11 DEF vars
  <2> QED
    BY <2>1, <2>2, <2>3, <2>4, <2>5, <2>6, <2>7, <2>8, <2>9, <2>10, <2>11,
       NextCases
<1> QED
  BY <1>1, <1>2, PTL DEF Spec

-----------------------------------------------------------------------------

(* Order is inductive: copies only move forward to the current model.      *)
LEMMA OrderInit == Init => Order
BY DEF Init, Order, Before, Sane, Zero

LEMMA OrderStep == TypeOK /\ Order /\ [Next]_vars => Order'
<1> SUFFICES ASSUME TypeOK, Order, [Next]_vars PROVE Order'
  OBVIOUS
<1> USE ReconcilerAssumption DEF TypeOK, Order, Before, Sane, Snapshot, memory
<1>1. ASSUME NEW h \in Handler, ForeignWrite(h) PROVE Order'
  BY <1>1 DEF ForeignWrite, Counter
<1>2. ASSUME NEW H \in SUBSET Handler, pc' = "patch", ev' = ev, buf' = buf,
             model' = model, handled' = handled, pc = "check", proc' = Edited(H)
      PROVE  Order'
  <2>1. \A h \in Handler : proc'[h] \in {ev.in[h], ev.out[h]}
    BY <1>2, EditedType
  <2> QED
    BY <1>2, <2>1
<1>3. ASSUME NEW x \in Handler, RunRaises(x) PROVE Order'
  <2> DEFINE before == {h \in ToRun : Prio[h] < Prio[x]}
  <2>1. before \in SUBSET Handler /\ before \cup {x} \in SUBSET Handler
    BY DEF ToRun
  <2>2. /\ pc' = "patch" /\ ev' = ev /\ buf' = buf /\ model' = model
        /\ handled' = handled /\ pc = "check"
        /\ proc' = Edited(before) \/ proc' = Edited(before \cup {x})
    BY <1>3 DEF RunRaises, Reconciling
  <2> HIDE DEF before
  <2> QED
    BY <2>1, <2>2, <1>2
<1>4. CASE Run
  BY <1>4, <1>2 DEF Run, Reconciling, ToRun
<1>5. CASE Deliver
  BY <1>5 DEF Deliver
<1>6. CASE Crash
  BY <1>6 DEF Crash
<1>7. CASE Start \/ Persist
  BY <1>7 DEF Start, Persist
<1>8. CASE DoNotSkip \/ SkipLastSeen \/ SkipSelfWrite
  BY <1>8 DEF DoNotSkip, SkipLastSeen, SkipSelfWrite
<1>9. CASE PatchApplied
  <2>1. ev = model /\ buf = model
    BY <1>9 DEF PatchApplied
  <2>2. \A h \in Handler : proc[h] <= ev.in[h]
    BY <1>9 DEF PatchApplied, Counter
  <2> QED
    BY <1>9, <2>1, <2>2 DEF PatchApplied
<1>10. CASE PatchOutdated \/ PatchRejected \/ GetSpecRaises
  BY <1>10 DEF PatchOutdated, PatchRejected, GetSpecRaises
<1>11. CASE UNCHANGED vars
  BY <1>11 DEF vars
<1> QED
  BY <1>1, <1>3, <1>4, <1>5, <1>6, <1>7, <1>8, <1>9, <1>10, <1>11, NextCases

THEOREM OrderInvariant == Spec => []Order
<1> QED
  BY OrderInit, OrderStep, TypeCorrect, PTL DEF Spec

(* A stale whole-spec write cannot happen: a write that is applied starts  *)
(* from the model as it is, and only replaces effects by newer ones.       *)
THEOREM NeverRevertsTheorem == Spec => NeverReverts
<1> DEFINE A == \A h \in Handler : model'.in[h] >= model.in[h]
                                /\ model'.out[h] >= model.out[h]
<1>1. TypeOK /\ Order /\ [Next]_vars => [A]_vars
  <2> SUFFICES ASSUME TypeOK, Order, Next PROVE A
    OBVIOUS
  <2> USE DEF TypeOK, Snapshot, Counter, memory
  <2>1. CASE model' = model
    BY <2>1
  <2>2. ASSUME NEW h \in Handler, ForeignWrite(h) PROVE A
    BY <2>2 DEF ForeignWrite
  <2>3. CASE PatchApplied
    <3>1. ev = model
      BY <2>3 DEF PatchApplied, Order, Before
    <3>2. \A h \in Handler : proc[h] >= model.out[h]
      BY <2>3, <3>1 DEF PatchApplied, Order, Sane
    <3> QED
      BY <2>3, <3>1, <3>2 DEF PatchApplied
  <2>4. \/ model' = model \/ PatchApplied
        \/ \E h \in Handler : ForeignWrite(h)
    BY NextCases DEF RunRaises, Run, Reconciling, Deliver, DoNotSkip, Crash,
       Start, SkipLastSeen, SkipSelfWrite, PatchOutdated, Persist,
       PatchRejected, GetSpecRaises, vars
  <2> QED
    BY <2>1, <2>2, <2>3, <2>4
<1> QED
  BY <1>1, TypeCorrect, OrderInvariant, PTL DEF Spec, NeverReverts

-----------------------------------------------------------------------------

(* SkipInv is inductive: it follows skip_gen from the write that set it    *)
(* to the event that is skipped.                                           *)
LEMMA SkipStep == TypeOK /\ Order /\ Order' /\ SkipInv /\ [Next]_vars => SkipInv'
<1> SUFFICES ASSUME TypeOK, Order, Order', SkipInv, [Next]_vars PROVE SkipInv'
  OBVIOUS
<1> USE DEF TypeOK, Order, Before, SkipInv, JustWrote, Snapshot, memory
<1>1. ASSUME NEW h \in Handler, ForeignWrite(h) PROVE SkipInv'
  <2>1. /\ model'.gen = model.gen + 1
        /\ UNCHANGED <<handled, buf, fresh, pc, ev, skipGen>>
    BY <1>1 DEF ForeignWrite
  <2> QED
    BY <2>1
<1>2. CASE Run \/ \E x \in Handler : RunRaises(x)
  <2>1. /\ pc = "check" /\ pc' = "patch"
        /\ UNCHANGED <<model, handled, buf, fresh, ev, skipGen>>
    BY <1>2 DEF Run, RunRaises, Reconciling
  <2> QED
    BY <2>1
<1>3. CASE Deliver
  BY <1>3 DEF Deliver
<1>4. CASE Crash
  BY <1>4 DEF Crash
<1>5. CASE Start
  BY <1>5 DEF Start
<1>6. CASE Persist
  BY <1>6 DEF Persist
<1>7. CASE DoNotSkip \/ SkipLastSeen \/ SkipSelfWrite
  BY <1>7 DEF DoNotSkip, SkipLastSeen, SkipSelfWrite
<1>8. CASE PatchApplied
  <2>1. ev = model /\ buf = model
    BY <1>8 DEF PatchApplied
  <2>2. CASE model.out = proc
    BY <1>8, <2>1, <2>2 DEF PatchApplied
  <2>3. CASE model.out # proc
    <3>1. model' = [gen |-> model.gen + 1, in |-> ev.in, out |-> proc]
      BY <1>8, <2>1, <2>3 DEF PatchApplied
    <3>2. /\ model'.gen = ev.gen + 1 /\ model'.in = ev.in
          /\ skipGen' = ev.gen + 1 /\ pc' = "done" /\ ev' = ev /\ buf' = buf
      BY <1>8, <2>1, <3>1 DEF PatchApplied
    <3> QED
      BY <1>8, <2>1, <3>2
  <2> QED
    BY <2>2, <2>3
<1>9. CASE PatchOutdated \/ PatchRejected \/ GetSpecRaises
  BY <1>9 DEF PatchOutdated, PatchRejected, GetSpecRaises
<1>10. CASE UNCHANGED vars
  BY <1>10 DEF vars
<1> QED
  BY <1>1, <1>2, <1>3, <1>4, <1>5, <1>6, <1>7, <1>8, <1>9, <1>10, NextCases

LEMMA SkipInvariant == Spec => []SkipInv
<1>1. Init => SkipInv
  BY DEF Init, SkipInv
<1> QED
  BY <1>1, SkipStep, TypeCorrect, OrderInvariant, PTL DEF Spec

(* A skipped event brings no change of anybody else.                       *)
THEOREM SkipsOnlySelfWritesTheorem == Spec => []SkipsOnlySelfWrites
<1>1. TypeOK /\ Order /\ SkipInv => SkipsOnlySelfWrites
  BY DEF TypeOK, Order, Snapshot, SkipInv, JustWrote, SkipsOnlySelfWrites
<1> QED
  BY <1>1, TypeCorrect, OrderInvariant, SkipInvariant, PTL

-----------------------------------------------------------------------------

(* WorkInv is inductive as long as no fault strikes: the effects missing   *)
(* from the recorded snapshot are owed by pending handlers or by the path  *)
(* difference with the next event.                                         *)
LEMMA WorkStep ==
    ASSUME TypeOK, Order, Order', SkipInv, SkipInv', WorkInv, [Next]_vars,
           Faultless, Faultless'
    PROVE  WorkInv'
<1> USE DEF TypeOK, Order, Before, SkipInv, JustWrote, Snapshot, WorkInv,
            SettledBut, memory
<1>1. ASSUME NEW h \in Handler, ForeignWrite(h) PROVE WorkInv'
  <2>1. /\ model'.gen = model.gen + 1 /\ model'.out = model.out
        /\ UNCHANGED <<handled, buf, fresh, pc, ev, proc, memory>>
    BY <1>1 DEF ForeignWrite
  <2> QED
    BY <2>1
<1>2. ASSUME NEW x \in Handler, RunRaises(x) PROVE WorkInv'
  BY <1>2 DEF Faultless, RunRaises
<1>3. CASE Crash \/ PatchRejected \/ GetSpecRaises
  BY <1>3 DEF Faultless, Crash, PatchRejected, GetSpecRaises
<1>4. CASE Deliver
  BY <1>4 DEF Deliver
<1>5. CASE DoNotSkip
  BY <1>5 DEF DoNotSkip
<1>6. CASE Start
  BY <1>6 DEF Start
<1>7. CASE SkipLastSeen
  BY <1>7 DEF SkipLastSeen
<1>8. CASE SkipSelfWrite
  BY <1>8 DEF SkipSelfWrite
<1>9. CASE Run
  <2>1. /\ pc = "check" /\ pc' = "patch" /\ lastSeen' = ev.gen
        /\ UNCHANGED <<model, handled, buf, fresh, ev, skipGen>>
        /\ proc' = Edited(ToRun) /\ pending' = pending \cup ToRun
    BY <1>9 DEF Run, Reconciling
  <2>2. ASSUME NEW h \in Handler, h \notin ToRun
        PROVE  ev.out[h] = ev.in[h]
    <3>1. handled.gen > 0 /\ ev.in[h] = handled.in[h] /\ ev.out[h] = handled.out[h]
          /\ h \notin pending /\ handled.gen # ev.gen
      BY <2>2 DEF ToRun, PathChanged
    <3>2. CASE skipGen # handled.gen + 1
      BY <2>1, <3>1, <3>2
    <3>3. CASE skipGen = handled.gen + 1
      BY <2>1, <3>1, <3>3
    <3> QED
      BY <3>2, <3>3
  <2>3. proc' = ev.in
    BY <2>1, <2>2, EditedType DEF ToRun, Edited, Counter
  <2> QED
    BY <2>1, <2>2, <2>3
<1>10. CASE PatchApplied
  <2>1. ev = model /\ buf = model /\ proc = ev.in /\ pending' = {} /\ pc' = "done"
        /\ UNCHANGED <<handled, buf, fresh, ev, lastSeen>>
    BY <1>10 DEF PatchApplied
  <2>2. CASE model.out = proc
    BY <1>10, <2>1, <2>2 DEF PatchApplied
  <2>3. CASE model.out # proc
    <3>1. model' = [gen |-> model.gen + 1, in |-> ev.in, out |-> proc]
      BY <1>10, <2>1, <2>3 DEF PatchApplied
    <3>2. /\ model'.gen = ev.gen + 1 /\ model'.out = ev.in /\ skipGen' = ev.gen + 1
      BY <1>10, <2>1, <3>1 DEF PatchApplied
    <3> QED
      BY <2>1, <3>2
  <2> QED
    BY <2>2, <2>3
<1>11. CASE PatchOutdated
  BY <1>11 DEF PatchOutdated
<1>12. CASE Persist
  BY <1>12 DEF Persist
<1>13. CASE UNCHANGED vars
  BY <1>13 DEF vars
<1> QED
  BY <1>1, <1>2, <1>3, <1>4, <1>5, <1>6, <1>7, <1>8, <1>9, <1>10, <1>11,
     <1>12, <1>13, NextCases

(* A fault that has struck stays counted.                                  *)
LEMMA FaultStays == TypeOK /\ [Next]_vars /\ Faultless' => Faultless
<1> SUFFICES ASSUME TypeOK, [Next]_vars, Faultless' PROVE Faultless
  OBVIOUS
<1> USE DEF TypeOK, Faultless
<1>1. ASSUME NEW h \in Handler, RunRaises(h) PROVE FALSE
  BY <1>1 DEF RunRaises
<1>2. CASE Crash
  BY <1>2 DEF Crash
<1>3. CASE PatchRejected \/ GetSpecRaises
  BY <1>3 DEF PatchRejected, GetSpecRaises
<1>4. CASE faults' = faults
  BY <1>4
<1> QED
  BY <1>1, <1>2, <1>3, <1>4, NextCases DEF ForeignWrite, Run, Deliver,
     DoNotSkip, Start, SkipLastSeen, SkipSelfWrite, PatchApplied,
     PatchOutdated, Persist, vars

LEMMA WorkInvariant == Spec => []Work
<1>1. Init => Work
  BY DEF Init, Work, WorkInv, JustWrote, SettledBut
<1>2. TypeOK /\ Order /\ Order' /\ SkipInv /\ SkipInv' /\ Work
        /\ [Next]_vars => Work'
  BY WorkStep, FaultStays DEF Work
<1> QED
  BY <1>1, <1>2, TypeCorrect, OrderInvariant, SkipInvariant, PTL DEF Spec

(* Until the first fault no change is ever left without its effect:        *)
(* nothing is lost between skip_gen, last_seen_gen, GEN_OUTDATED and       *)
(* coalescing.                                                             *)
THEOREM NoLostWorkTheorem == Spec => []NoLostWork
<1>1. TypeOK /\ Order /\ SkipInv /\ Work => NoLostWork
  <2> SUFFICES ASSUME TypeOK, Order, SkipInv, WorkInv, AtRest
               PROVE  model.out = model.in
    BY DEF NoLostWork, Work
  <2>1. handled = model /\ pending = {} /\ SettledBut(handled)
    BY DEF AtRest, TypeOK, Order, Before, SkipInv, WorkInv, Snapshot
  <2> QED
    BY <2>1 DEF SettledBut, TypeOK, Snapshot, Counter
<1> QED
  BY <1>1, TypeCorrect, OrderInvariant, SkipInvariant, WorkInvariant, PTL

(* Until the first fault a pending handler waits for a generation that is  *)
(* to come and that will not be skipped.                                   *)
THEOREM PendingHasAFutureTheorem == Spec => []PendingHasAFuture
<1>1. TypeOK /\ Order /\ SkipInv /\ Work => PendingHasAFuture
  BY DEF TypeOK, Snapshot, Work, WorkInv, PendingHasAFuture
<1> QED
  BY <1>1, TypeCorrect, OrderInvariant, SkipInvariant, WorkInvariant, PTL
=============================================================================
