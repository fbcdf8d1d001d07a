---------------------------- MODULE AtomicPatch ----------------------------
(***************************************************************************)
(* What check_gen_and_patch_spec (driver/digi/util.py) promises its        *)
(* callers, the reconciler, digi.model.patch and the mounter: "patch the   *)
(* spec atomically" provided the model's generation has not gone beyond    *)
(* the one the caller computed its patch from.                             *)
(*                                                                         *)
(* A call is pending from Invoke until one single step decides it: Apply   *)
(* merges the patch into the model as it is at that instant, Refuse        *)
(* reports GEN_OUTDATED, Fail reports (or raises) any other API error.     *)
(* GenPatch is the read / compare / conditional-write / retry loop that    *)
(* implements this specification.                                          *)
(***************************************************************************)
EXTENDS Naturals

CONSTANTS
    Client,  \* threads that may be inside check_gen_and_patch_spec
    Attr,    \* attributes of the model's spec
    Value,   \* values of an attribute (a deleted attribute is a value too)
    MaxGen,  \* bound: no call or foreign write starts at this generation
    MaxSize  \* sys.maxsize, the generation of a patch that always applies

VARIABLES
    spec,    \* the model's spec at the API server
    gen,     \* its metadata.generation
    call     \* call[c]: the call client c is in

vars == <<spec, gen, call>>

Model == [Attr -> Value]

\* A merge patch names some of the attributes.
Patch == UNION {[S -> Value] : S \in SUBSET Attr}

\* The generation a caller computed its patch from, or sys.maxsize.
BaseGen == 1..MaxGen \cup {MaxSize}

Merge(s, p) == [a \in Attr |-> IF a \in DOMAIN p THEN p[a] ELSE s[a]]

\* The API server increments generation only when the spec really changes.
Bump(s, t, g) == IF s = t THEN g ELSE g + 1

Outcome == {"none", "ok", "outdated", "error"}
Result  == [status : Outcome, cur : Nat, new : Nat]
NoResult == [status |-> "none", cur |-> 0, new |-> 0]

TypeOK ==
    /\ spec \in Model
    /\ gen \in Nat
    /\ call \in [Client -> [st : {"idle", "pending", "done"},
                            patch : Patch, gen : Nat, res : Result]]

NoPatch == [a \in {} |-> CHOOSE v \in Value : TRUE]
Idle == [st |-> "idle", patch |-> NoPatch, gen |-> 0, res |-> NoResult]

Init ==
    /\ spec \in Model
    /\ gen = 1
    /\ call = [c \in Client |-> Idle]

-----------------------------------------------------------------------------

\* A caller hands in a patch and the generation it is based on.
Invoke(c, p, g) ==
    /\ call[c].st = "idle"
    /\ gen < MaxGen
    /\ call' = [call EXCEPT ![c] = [st |-> "pending", patch |-> p,
                                    gen |-> g, res |-> NoResult]]
    /\ UNCHANGED <<spec, gen>>

Decide(c, r) ==
    call' = [call EXCEPT ![c].st = "done", ![c].res = r]

\* The patch takes effect on the current model, all at once.
Apply(c) ==
    /\ call[c].st = "pending"
    /\ gen <= call[c].gen
    /\ spec' = Merge(spec, call[c].patch)
    /\ gen' = Bump(spec, spec', gen)
    /\ Decide(c, [status |-> "ok", cur |-> gen, new |-> gen'])

Refuse(c) ==
    /\ call[c].st = "pending"
    /\ call[c].gen < gen
    /\ Decide(c, [status |-> "outdated", cur |-> gen, new |-> 0])
    /\ UNCHANGED <<spec, gen>>

Fail(c) ==
    /\ call[c].st = "pending"
    /\ \E g \in 0..gen :
          Decide(c, [status |-> "error", cur |-> g, new |-> 0])
    /\ UNCHANGED <<spec, gen>>

Return(c) ==
    /\ call[c].st = "done"
    /\ call' = [call EXCEPT ![c] = Idle]
    /\ UNCHANGED <<spec, gen>>

\* Anyone else writing the model without this protocol (kubectl, a mounter).
ForeignWrite(s) ==
    /\ gen < MaxGen
    /\ s # spec
    /\ spec' = s
    /\ gen' = gen + 1
    /\ UNCHANGED call

Next ==
    \/ \E c \in Client :
          \/ \E p \in Patch, g \in BaseGen : Invoke(c, p, g)
          \/ Apply(c) \/ Refuse(c) \/ Fail(c) \/ Return(c)
    \/ \E s \in Model : ForeignWrite(s)

Spec == Init /\ [][Next]_vars
=============================================================================
