------------------------------ MODULE GenPatch ------------------------------
(***************************************************************************)
(* check_gen_and_patch_spec, driver/digi/util.py: the optimistic loop every *)
(* write of a digi driver goes through.                                    *)
(*                                                                         *)
(*     while True:                                                         *)
(*         _, rv, cur_gen = get_spec(...)                                  *)
(*         if gen < cur_gen: return GEN_OUTDATED                           *)
(*         resp, e = patch_spec(..., rv=rv)                                *)
(*         if e is None: return cur_gen, resp                              *)
(*         if e.status == 409: retry, else return the error                *)
(*                                                                         *)
(* The model at the API server carries a resourceVersion, which every      *)
(* write moves (kopf's annotations included), and a generation, which only *)
(* a change of the spec moves.  A patch that names a resourceVersion other *)
(* than the current one is rejected with 409.                              *)
(***************************************************************************)
EXTENDS Naturals

CONSTANTS Client, Attr, Value, MaxGen, MaxSize,
    MaxRv    \* bound: no metadata write starts at this resourceVersion

ASSUME GenPatchAssumption ==
    /\ MaxGen \in Nat /\ MaxSize \in Nat /\ MaxRv \in Nat
    /\ Value # {}

VARIABLES
    obj,     \* the model at the API server: [spec, gen, rv]
    call,    \* call[c]: arguments, program counter and result of c's call
    seen     \* seen[c]: the local variables rv and cur_gen of c's call

vars == <<obj, call, seen>>

\* A caller cannot tell the two halves of the loop apart.
AbstractCall ==
    [c \in Client |-> [call[c] EXCEPT !.st =
        IF call[c].st \in {"get", "patch"} THEN "pending" ELSE call[c].st]]

\* The abstract specification this module implements.
Atomic == INSTANCE AtomicPatch WITH
              spec <- obj.spec, gen <- obj.gen, call <- AbstractCall

Model    == Atomic!Model
Patch    == Atomic!Patch
Result   == Atomic!Result
NoResult == Atomic!NoResult
Idle     == Atomic!Idle

\* A call: program counter, the patch and its base generation, the result.
Call == [st : {"idle", "get", "patch", "done"},
         patch : Patch, gen : Nat, res : Result]

TypeOK ==
    /\ obj \in [spec : Model, gen : Nat, rv : Nat]
    /\ call \in [Client -> Call]
    /\ seen \in [Client -> [rv : Nat, gen : Nat]]

Init ==
    /\ \E s \in Model : obj = [spec |-> s, gen |-> 1, rv |-> 1]
    /\ call = [c \in Client |-> Idle]
    /\ seen = [c \in Client |-> [rv |-> 0, gen |-> 0]]

-----------------------------------------------------------------------------

\* The API server's side of a patch: a patch that changes nothing is a no-op.
Patched(o, p) ==
    LET s == Atomic!Merge(o.spec, p)
    IN  IF s = o.spec THEN o
        ELSE [spec |-> s, gen |-> o.gen + 1, rv |-> o.rv + 1]

Invoke(c, p, g) ==
    /\ call[c].st = "idle"
    /\ obj.gen < MaxGen
    /\ call' = [call EXCEPT ![c] = [st |-> "get", patch |-> p,
                                    gen |-> g, res |-> NoResult]]
    /\ UNCHANGED <<obj, seen>>

\* mutant: the outcome is stored in the wrong place.
FinishMisplaced(c, status, cur, new) ==
    call' = [call EXCEPT ![c].st = status]

Finish(c, status, cur, new) ==
    call' = [call EXCEPT ![c].st = "done",
                ![c].res = [status |-> status, cur |-> cur, new |-> new]]

\* mutant: the generation is not compared.
GetSpecUnchecked(c) ==
    /\ call[c].st = "get"
    /\ seen' = [seen EXCEPT ![c] = [rv |-> obj.rv, gen |-> obj.gen]]
    /\ call' = [call EXCEPT ![c].st = "patch"]
    /\ UNCHANGED obj

\* get_spec, and the generation is still within the caller's.
GetSpec(c) ==
    /\ call[c].st = "get"
    /\ ~ (call[c].gen < obj.gen)
    /\ seen' = [seen EXCEPT ![c] = [rv |-> obj.rv, gen |-> obj.gen]]
    /\ call' = [call EXCEPT ![c].st = "patch"]
    /\ UNCHANGED obj

\* get_spec, and the generation has moved on: DriverError.GEN_OUTDATED.
GenOutdated(c) ==
    /\ call[c].st = "get"
    /\ call[c].gen < obj.gen
    /\ seen' = [seen EXCEPT ![c] = [rv |-> obj.rv, gen |-> obj.gen]]
    /\ Finish(c, "outdated", obj.gen, 0)
    /\ UNCHANGED obj

\* get_spec swallows the API error and returns None; unpacking it raises.
GetSpecFail(c) ==
    /\ call[c].st = "get"
    /\ Finish(c, "error", 0, 0)
    /\ UNCHANGED <<obj, seen>>

\* mutant: the patch does not name a resourceVersion.
PatchSpecNoRv(c) ==
    /\ call[c].st = "patch"
    /\ obj' = Patched(obj, call[c].patch)
    /\ Finish(c, "ok", seen[c].gen, obj'.gen)
    /\ UNCHANGED seen

PatchSpec(c) ==
    /\ call[c].st = "patch"
    /\ seen[c].rv = obj.rv
    /\ obj' = Patched(obj, call[c].patch)
    /\ Finish(c, "ok", seen[c].gen, obj'.gen)
    /\ UNCHANGED seen

\* mutant: the patch is sent again without another get_spec.
PatchConflictStale(c) ==
    /\ call[c].st = "patch"
    /\ seen[c].rv # obj.rv
    /\ UNCHANGED vars

\* 409: somebody wrote the object since get_spec; go round the loop again.
PatchConflict(c) ==
    /\ call[c].st = "patch"
    /\ seen[c].rv # obj.rv
    /\ call' = [call EXCEPT ![c].st = "get"]
    /\ UNCHANGED <<obj, seen>>

\* Any other status of the patch request is handed to the caller.
PatchFail(c) ==
    /\ call[c].st = "patch"
    /\ Finish(c, "error", seen[c].gen, 0)
    /\ UNCHANGED <<obj, seen>>

Return(c) ==
    /\ call[c].st = "done"
    /\ call' = [call EXCEPT ![c] = Idle]
    /\ UNCHANGED <<obj, seen>>

\* A writer outside the protocol changes the spec.
ForeignWrite(s) ==
    /\ obj.gen < MaxGen
    /\ s # obj.spec
    /\ obj' = [spec |-> s, gen |-> obj.gen + 1, rv |-> obj.rv + 1]
    /\ UNCHANGED <<call, seen>>

\* kopf records its progress in annotations: resourceVersion moves alone.
MetaWrite ==
    /\ obj.rv < MaxRv
    /\ obj' = [obj EXCEPT !.rv = @ + 1]
    /\ UNCHANGED <<call, seen>>

\* The loop itself, as long as the API server answers its requests.
Progress(c) ==
    \/ GetSpec(c) \/ GenOutdated(c)
    \/ PatchSpec(c) \/ PatchConflict(c)
    \/ Return(c)

Next ==
    \/ \E c \in Client :
          \/ \E p \in Patch, g \in Atomic!BaseGen : Invoke(c, p, g)
          \/ Progress(c)
          \/ GetSpecFail(c) \/ PatchFail(c)
    \/ \E s \in Model : ForeignWrite(s)
    \/ MetaWrite

Spec == Init /\ [][Next]_vars

\* A thread inside the loop keeps running and gets answers.
FairSpec == Spec /\ \A c \in Client : WF_vars(Progress(c))

-----------------------------------------------------------------------------

(***************************************************************************)
(* What the loop's local variables know.  A client about to send its patch *)
(* checked the generation of the resourceVersion it will name; the object  *)
(* still has that generation as long as it has that resourceVersion, so    *)
(* the comparison made before the request holds when the request lands.    *)
(***************************************************************************)
SeenIsCurrent ==
    \A c \in Client : call[c].st = "patch" =>
        /\ seen[c].rv <= obj.rv /\ seen[c].gen <= obj.gen
        /\ seen[c].gen <= call[c].gen
        /\ seen[c].rv = obj.rv => seen[c].gen = obj.gen

(***************************************************************************)
(* The loop is one atomic step: it implements AtomicPatch, in which a call *)
(* compares the generation and merges its patch in a single action.        *)
(***************************************************************************)
Implements == Atomic!Spec

(***************************************************************************)
(* A patch computed from generation g is never merged into a later one:    *)
(* whenever a call ends in success its patch went into a generation that   *)
(* was not beyond g, and the caller is told that generation, so that       *)
(* "gen + 1 == new_gen" tells it whether the last write is its own.        *)
(***************************************************************************)
NeverOntoNewer ==
    [][\A c \in Client :
          call[c].res.status # "ok" /\ call'[c].res.status = "ok" =>
              /\ obj.gen <= call[c].gen
              /\ call'[c].res.cur = obj.gen
              /\ call'[c].res.new = obj'.gen]_vars

(***************************************************************************)
(* The retry is not a livelock: once other writers pause, which the bounds *)
(* of the model make them do, a call that gets its answers returns.        *)
(***************************************************************************)
CallReturns ==
    \A c \in Client : call[c].st \in {"get", "patch"} ~> call[c].st = "done"
=============================================================================
