----------------------------- MODULE Reconciler -----------------------------
(***************************************************************************)
(* The reconciler of a digi driver: driver/digi/main.py (reconcile) and    *)
(* driver/digi/reconcile.py.                                               *)
(*                                                                         *)
(* A digi's model holds, for every handler h of its driver, an attribute   *)
(* subtree that h subscribes to.  model.in[h] counts the changes others    *)
(* made to that subtree (a user, a parent's mounter, digi.model.patch);    *)
(* model.out[h] is the change whose effect h last wrote back.  Everything  *)
(* is well when out = in.                                                  *)
(*                                                                         *)
(* kopf watches the model and calls reconcile, one call at a time, with a  *)
(* snapshot of the model (events coalesce, and a snapshot may be old by    *)
(* the time it is handled) and with the difference from the snapshot it    *)
(* last recorded as handled.  reconcile skips its own last write, runs the *)
(* handlers whose path changed or that are pending, and writes the whole   *)
(* resulting spec back with check_gen_and_patch_spec, here one atomic step *)
(* (module GenPatch shows that it is one).                                 *)
(***************************************************************************)
EXTENDS Naturals

CONSTANTS
    Handler,   \* the driver's enabled handlers
    Prio,      \* Prio[h]: position in the compiled handler list
    MaxGen,    \* bound: no foreign write starts at this generation
    MaxCrash,  \* bound on driver restarts
    MaxRaise,  \* bound on handlers raising an exception
    MaxErr     \* bound on API requests that fail for good

ASSUME ReconcilerAssumption ==
    /\ Prio \in [Handler -> Nat]
    /\ MaxGen \in Nat /\ MaxCrash \in Nat /\ MaxRaise \in Nat /\ MaxErr \in Nat

VARIABLES
    model,    \* the digi's model at the API server
    handled,  \* kopf's last-handled configuration, kept in an annotation
    buf,      \* the newest event in kopf's queue
    fresh,    \* kopf has not yet called the handlers since the driver started
    pc,       \* where the call of reconcile is
    ev,       \* the event being reconciled
    proc,     \* proc_spec: the output of the handlers run on ev
    skipGen,  \* rc.skip_gen, 0 for -1
    lastSeen, \* rc.last_seen_gen, 0 for -1
    skip,     \* rc._skip
    pending,  \* rc._pending_handler
    faults    \* how many restarts, exceptions and API errors so far

memory == <<skipGen, lastSeen, skip, pending>>
vars == <<model, handled, buf, fresh, pc, ev, proc, memory, faults>>

Counter  == [Handler -> Nat]
Snapshot == [gen : Nat, in : Counter, out : Counter]
Zero     == [h \in Handler |-> 0]

TypeOK ==
    /\ model \in Snapshot /\ handled \in Snapshot
    /\ buf \in Snapshot /\ ev \in Snapshot
    /\ fresh \in BOOLEAN /\ skip \in BOOLEAN
    /\ pc \in {"idle", "check", "patch", "done"}
    /\ proc \in Counter
    /\ skipGen \in Nat /\ lastSeen \in Nat
    /\ pending \in SUBSET Handler
    /\ faults \in [crash : Nat, raise : Nat, err : Nat]

\* A model just created (or found) by a driver that just started.
Init ==
    /\ model = [gen |-> 1, in |-> [h \in Handler |-> 1], out |-> Zero]
    /\ handled = [gen |-> 0, in |-> Zero, out |-> Zero]
    /\ buf = model /\ ev = handled
    /\ fresh = TRUE /\ pc = "idle" /\ proc = Zero
    /\ skipGen = 0 /\ lastSeen = 0 /\ skip = TRUE /\ pending = {}
    /\ faults = [crash |-> 0, raise |-> 0, err |-> 0]

-----------------------------------------------------------------------------
(* The environment.                                                        *)

\* Anyone but this reconciler changes the attributes h subscribes to.
ForeignWrite(h) ==
    /\ model.gen < MaxGen
    /\ model' = [model EXCEPT !.gen = @ + 1, !.in[h] = @ + 1]
    /\ UNCHANGED <<handled, buf, fresh, pc, ev, proc, memory, faults>>

\* The watch stream brings the model as it is now; kopf keeps the newest.
Deliver ==
    /\ buf # model
    /\ buf' = model
    /\ UNCHANGED <<model, handled, fresh, pc, ev, proc, memory, faults>>

\* Driver code asks that the next self-write be reconciled after all.
DoNotSkip ==
    /\ skip
    /\ skip' = FALSE
    /\ UNCHANGED <<model, handled, buf, fresh, pc, ev, proc,
                   skipGen, lastSeen, pending, faults>>

\* kopf calls reconcile: something is not handled yet, or the driver is new.
Start ==
    /\ pc = "idle"
    /\ fresh \/ buf.gen > handled.gen
    /\ ev' = buf /\ pc' = "check"
    /\ UNCHANGED <<model, handled, buf, fresh, proc, memory, faults>>

\* reconcile returned (or gave up for good): kopf records ev as handled.
Persist ==
    /\ pc = "done"
    /\ handled' = ev /\ fresh' = FALSE /\ pc' = "idle"
    /\ UNCHANGED <<model, buf, ev, proc, memory, faults>>

\* The driver dies and is started again; kopf lists the model.
Crash ==
    /\ faults.crash < MaxCrash
    /\ faults' = [faults EXCEPT !.crash = @ + 1]
    /\ pc' = "idle" /\ fresh' = TRUE /\ buf' = model
    /\ skipGen' = 0 /\ lastSeen' = 0 /\ skip' = TRUE /\ pending' = {}
    /\ UNCHANGED <<model, handled, ev, proc>>

-----------------------------------------------------------------------------
(* reconcile, up to the write.                                             *)

SkipLastSeen ==
    /\ pc = "check"
    /\ ev.gen = lastSeen
    /\ pc' = "done"
    /\ UNCHANGED <<model, handled, buf, fresh, ev, proc, memory, faults>>

\* The event is this reconciler's own last write.
SkipSelfWrite ==
    /\ pc = "check"
    /\ ev.gen # lastSeen
    /\ ev.gen = skipGen /\ skip
    /\ lastSeen' = ev.gen /\ pc' = "done"
    /\ UNCHANGED <<model, handled, buf, fresh, ev, proc, skipGen, skip,
                   pending, faults>>

\* filter.path_changed: no difference at all (resume) and a model that was
\* never handled (create) select every handler.
PathChanged(h) ==
    \/ handled.gen \in {0, ev.gen}
    \/ ev.in[h] # handled.in[h]
    \/ ev.out[h] # handled.out[h]

\* The handlers rc.run calls, in order of priority, on this event.
ToRun == {h \in Handler : PathChanged(h) \/ h \in pending}

\* mutant: the handlers' edits alone, not merged into the event's spec.
EditedOnly(H) == [h \in H |-> ev.in[h]]

\* Handlers edit proc_spec, which starts as a copy of the event's spec.
Edited(H) == [h \in Handler |-> IF h \in H THEN ev.in[h] ELSE ev.out[h]]

\* mutant: the model's generation is noted instead of the event's.
ReconcilingNotesModel ==
    /\ pc = "check"
    /\ ev.gen # lastSeen
    /\ ~ (ev.gen = skipGen /\ skip)
    /\ lastSeen' = model.gen /\ pc' = "patch"
    /\ skip' = (skip \/ ev.gen = skipGen)
    /\ UNCHANGED <<model, handled, buf, fresh, ev, skipGen>>

Reconciling ==
    /\ pc = "check"
    /\ ev.gen # lastSeen
    /\ ~ (ev.gen = skipGen /\ skip)
    /\ lastSeen' = ev.gen /\ pc' = "patch"
    /\ skip' = (skip \/ ev.gen = skipGen)  \* should_skip() resets the flag
    /\ UNCHANGED <<model, handled, buf, fresh, ev, skipGen>>

\* rc.run: every selected handler edits the spec and becomes pending.
Run ==
    /\ Reconciling
    /\ proc' = Edited(ToRun)
    /\ pending' = pending \cup ToRun
    /\ UNCHANGED faults

\* rc.run: handler x raises, before or after its edits; the later handlers
\* do not run and what was edited so far is returned as the new spec.
RunRaises(x) ==
    LET before == {h \in ToRun : Prio[h] < Prio[x]}
    IN  /\ Reconciling
        /\ x \in ToRun
        /\ faults.raise < MaxRaise
        /\ faults' = [faults EXCEPT !.raise = @ + 1]
        /\ proc' \in {Edited(before), Edited(before \cup {x})}
        /\ pending' = pending \cup before

-----------------------------------------------------------------------------
(* reconcile, from check_gen_and_patch_spec on.                            *)

\* The write itself, for the mutants of PatchApplied.
Written == IF model.in = ev.in /\ model.out = proc THEN model
           ELSE [gen |-> model.gen + 1, in |-> ev.in, out |-> proc]

\* mutant: the generation is not compared.
PatchAppliedBlindly ==
    /\ pc = "patch"
    /\ model' = Written
    /\ skipGen' = IF model'.gen = ev.gen + 1 THEN model'.gen ELSE skipGen
    /\ pending' = {} /\ pc' = "done"
    /\ UNCHANGED <<handled, buf, fresh, ev, proc, lastSeen, skip, faults>>

\* mutant: the next generation is skipped although nothing was written.
PatchAppliedSkipsNext ==
    /\ pc = "patch"
    /\ ~ (ev.gen < model.gen)
    /\ model' = Written
    /\ skipGen' = ev.gen + 1
    /\ pending' = {} /\ pc' = "done"
    /\ UNCHANGED <<handled, buf, fresh, ev, proc, lastSeen, skip, faults>>

\* The model has not moved beyond the event: the whole spec is written, and
\* a write that changed something marks the generation it made.
PatchApplied ==
    /\ pc = "patch"
    /\ ~ (ev.gen < model.gen)
    /\ model' = IF model.in = ev.in /\ model.out = proc THEN model
                ELSE [gen |-> model.gen + 1, in |-> ev.in, out |-> proc]
    /\ skipGen' = IF model'.gen = ev.gen + 1 THEN model'.gen ELSE skipGen
    /\ pending' = {} /\ pc' = "done"
    /\ UNCHANGED <<handled, buf, fresh, ev, proc, lastSeen, skip, faults>>

\* mutant: the pending handlers are cleared although nothing was written.
PatchOutdatedClears ==
    /\ pc = "patch"
    /\ ev.gen < model.gen
    /\ pending' = {} /\ pc' = "done"
    /\ UNCHANGED <<model, handled, buf, fresh, ev, proc, lastSeen, skip,
                   skipGen, faults>>

\* GEN_OUTDATED: nothing is written, the handlers stay pending.
PatchOutdated ==
    /\ pc = "patch"
    /\ ev.gen < model.gen
    /\ pc' = "done"
    /\ UNCHANGED <<model, handled, buf, fresh, ev, proc, memory, faults>>

\* Any other error of the patch is a PermanentError: kopf does not retry.
PatchRejected ==
    /\ pc = "patch"
    /\ faults.err < MaxErr
    /\ faults' = [faults EXCEPT !.err = @ + 1]
    /\ pc' = "done"
    /\ UNCHANGED <<model, handled, buf, fresh, ev, proc, memory>>

\* get_spec failed and returned None: reconcile raises, kopf calls it again.
GetSpecRaises ==
    /\ pc = "patch"
    /\ faults.err < MaxErr
    /\ faults' = [faults EXCEPT !.err = @ + 1]
    /\ pc' = "idle"
    /\ UNCHANGED <<model, handled, buf, fresh, ev, proc, memory>>

Reconcile ==
    \/ Start \/ SkipLastSeen \/ SkipSelfWrite \/ Run
    \/ PatchApplied \/ PatchOutdated \/ Persist

Next ==
    \/ \E h \in Handler : ForeignWrite(h) \/ RunRaises(h)
    \/ Deliver \/ DoNotSkip \/ Crash
    \/ Reconcile
    \/ PatchRejected \/ GetSpecRaises

Spec == Init /\ [][Next]_vars

\* The watch stream keeps up and kopf's worker keeps calling.
FairSpec == Spec /\ WF_vars(Deliver) /\ WF_vars(Reconcile)

-----------------------------------------------------------------------------
(* Properties.                                                             *)

(***************************************************************************)
(* reconcile writes back the WHOLE spec of the event it was called with,   *)
(* which may be old by then.  It never undoes what somebody else wrote in  *)
(* the meantime, nor what an earlier reconciliation achieved.              *)
(***************************************************************************)
NeverReverts ==
    [][\A h \in Handler : model'.in[h] >= model.in[h]
                       /\ model'.out[h] >= model.out[h]]_vars

(***************************************************************************)
(* The event skipped as "self-write" (gen == skip_gen) holds nobody else's *)
(* change: whatever the coalescing of events and the old snapshots, its    *)
(* subscribed attributes are those of the event kopf recorded before.      *)
(***************************************************************************)
SkipsOnlySelfWrites ==
    pc = "check" /\ ev.gen = skipGen /\ skip /\ ev.gen # lastSeen =>
        ev.in = handled.in

(* What follows is claimed until the first fault: a handler that raised, a *)
(* write that failed for good and a restart leave work undone by design.   *)
Faultless == faults = [crash |-> 0, raise |-> 0, err |-> 0]

(***************************************************************************)
(* Nothing falls through the cracks of skip_gen, last_seen_gen, GEN_OUT-   *)
(* DATED and coalesced events: when kopf has nothing left to deliver every *)
(* change has had its handler's effect written to the model.               *)
(***************************************************************************)
AtRest == pc = "idle" /\ ~fresh /\ handled.gen = model.gen

NoLostWork == Faultless /\ AtRest => model.out = model.in

(***************************************************************************)
(* A handler whose effect has not been written (the generation was out-    *)
(* dated) waits for a generation that will be reconciled: there is one to  *)
(* come, and it will be skipped neither as seen nor as a self-write.       *)
(***************************************************************************)
PendingHasAFuture ==
    Faultless /\ pc = "idle" /\ pending # {} =>
        model.gen > lastSeen /\ model.gen # skipGen

(***************************************************************************)
(* Once others stop writing, every handler's effect is in the model for    *)
(* good, in spite of conflicts with those writes.                          *)
(***************************************************************************)
Converges == <>[](Faultless => model.out = model.in)

(***************************************************************************)
(* reconcile.py, the comment on _pending_handler: a handler marked as      *)
(* pending "will be invoked in future reconciliation to be executed        *)
(* again", whatever kept its update from being applied.                    *)
(***************************************************************************)
PendingIsInvoked == \A h \in Handler : h \in pending ~> h \notin pending
=============================================================================
