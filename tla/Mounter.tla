------------------------------- MODULE Mounter -------------------------------
(***************************************************************************)
(* The mounter of a parent digi, driver/digi/mount.py: it keeps the copy   *)
(* of every mounted child in the parent's model (parent.mount[c]) and the  *)
(* child's own model in step.                                              *)
(*                                                                         *)
(* One thread handles the parent's events (on_parent_create for create and *)
(* resume, on_mount_attr_update for changes of spec.mount) and one thread  *)
(* per watched child handles that child's events (on_child_create for      *)
(* create and resume, on_child_update, on_child_delete).  The threads      *)
(* share the dictionaries _children_gen, _children_skip_gen and the slot   *)
(* _parent_skip_gen, without a lock.  kopf calls a handler with a snapshot *)
(* of the object, newest first (it drains its queue), and one call at a    *)
(* time per object; a call that raises is repeated.                        *)
(*                                                                         *)
(* get + conditional patch + retry on 409 is one atomic step here (module  *)
(* GenPatch).  A child's spec is its intent and its status.  The mount     *)
(* entry keeps the attributes patched into it; attributes a child's schema *)
(* does not list are pruned by the API server.                             *)
(***************************************************************************)
EXTENDS Naturals, FiniteSets

CONSTANTS
    Child,       \* names of the digis that can be mounted
    Val,         \* values of an attribute
    None,        \* an attribute, or a mount entry, that is not there
    TrimParent,  \* TRIM_FROM_PARENT: attributes not pushed to a child
    TrimChild,   \* TRIM_FROM_CHILD: attributes not taken from a new child
    MaxSize,     \* sys.maxsize
    Env,         \* the kinds of operations users perform in this instance
    MaxOps,      \* bound on the number of those operations
    MaxErr,      \* bound on the API requests that fail for good
    MaxGen       \* bound: the mounter does not write a model of this generation

Attr == {"intent", "status"}

Spec_   == [Attr -> Val \cup {None}]
NoSpec  == [a \in Attr |-> None]
Model   == [gen : Nat, spec : Spec_]
Entry   == [active : BOOLEAN, spec : Spec_, gen : Nat]
Mounts  == [Child -> Entry \cup {None}]

ASSUME MounterAssumption ==
    /\ None \notin Val \cup Entry /\ Val # {}
    /\ TrimParent \subseteq Attr /\ TrimChild \subseteq Attr
    /\ MaxSize \in Nat /\ MaxOps \in Nat /\ MaxErr \in Nat /\ MaxGen \in Nat

VARIABLES
    child,     \* the children's models; generation 0: it does not exist
    parent,    \* the parent's model: generation and mount entries
    own,       \* generation of the last write of a child not by the mounter
    pHandled,  \* the spec.mount kopf last recorded as handled, if any
    pFresh,    \* kopf has not yet called the parent's handlers
    pThread,   \* the parent's thread: program counter and local variables
    watch,     \* the children that have a watch
    cThread,   \* the children's threads
    childrenGen, childrenSkip, parentSkip, \* _children_gen, _children_skip_gen,
                                           \* _parent_skip_gen; 0 for -1
    rushed,    \* a user wrote a copy before the mounter was at rest
    ops, errs  \* how many user operations and API errors so far

models == <<child, parent, own>>
kopf   == <<pHandled, pFresh>>
gens   == <<childrenGen, childrenSkip, parentSkip>>
budget == <<rushed, ops, errs>>
vars   == <<models, kopf, pThread, watch, cThread, gens, budget>>

Mounted(m, c) == m[c] # None

\* A merge patch: the attributes it does not have stay.
Merge(s, p) == [a \in Attr |-> IF p[a] = None THEN s[a] ELSE p[a]]
Trim(s, A) == [a \in Attr |-> IF a \in A THEN None ELSE s[a]]

\* The API server moves the generation when the spec changes, only then.
Put(o, s) == IF s = o.spec THEN o ELSE [gen |-> o.gen + 1, spec |-> s]
PutMounts(o, m) == IF m = o.mount THEN o ELSE [gen |-> o.gen + 1, mount |-> m]

TypeOK ==
    /\ child \in [Child -> Model]
    /\ parent \in [gen : Nat, mount : Mounts]
    /\ own \in [Child -> Nat]
    /\ pHandled \in Mounts \cup {None}
    /\ pFresh \in BOOLEAN
    /\ pThread \in [pc : {"idle", "check", "sync", "mark"}, gen : Nat,
                    mount : Mounts, todo : SUBSET Child,
                    at : Child \cup {None}, cur : Nat, new : Nat]
    /\ watch \in [Child -> {"none", "fresh", "on"}]
    /\ cThread \in [Child -> [pc : {"idle", "create", "check", "push", "mark"},
                              ev : Model, trim : SUBSET Attr,
                              again : BOOLEAN,
                              seen : Nat, cur : Nat, new : Nat]]
    /\ childrenGen \in [Child -> Nat] /\ childrenSkip \in [Child -> Nat]
    /\ parentSkip \in Nat
    /\ rushed \in BOOLEAN
    /\ ops \in 0..MaxOps /\ errs \in 0..MaxErr

PIdle == [pc |-> "idle", gen |-> 0, mount |-> [c \in Child |-> None],
          todo |-> {}, at |-> None, cur |-> 0, new |-> 0]
CIdle == [pc |-> "idle", ev |-> [gen |-> 0, spec |-> NoSpec], trim |-> {},
          again |-> FALSE, seen |-> 0, cur |-> 0, new |-> 0]

\* What the space's mount operation writes: no copy, no generation yet.
JustMounted == [active |-> TRUE, spec |-> NoSpec, gen |-> MaxSize]

\* A driver starts; the digis exist, mounted or not.
Init ==
    /\ child \in [Child -> {[gen |-> 1, spec |-> s] : s \in [Attr -> Val]}]
    /\ \E m \in [Child -> {None, JustMounted}] :
          /\ parent = [gen |-> 1, mount |-> m]
          /\ pHandled \in {None, m}
    /\ own = [c \in Child |-> 1]
    /\ pFresh = TRUE /\ pThread = PIdle
    /\ watch = [c \in Child |-> "none"]
    /\ cThread = [c \in Child |-> CIdle]
    /\ childrenGen = [c \in Child |-> 0] /\ childrenSkip = [c \in Child |-> 0]
    /\ parentSkip = 0
    /\ rushed = FALSE /\ ops = 0 /\ errs = 0

\* The state such a start leads to when nobody interferes: every child is
\* watched, its copy is up to date and the mounter wrote the parent last.
Steady ==
    /\ \E s \in [Attr -> Val] :
          /\ child = [c \in Child |-> [gen |-> 1, spec |-> s]]
          /\ parent = [gen |-> 2, mount |-> [c \in Child |->
                          [active |-> TRUE, spec |-> s, gen |-> 1]]]
    /\ pHandled = parent.mount
    /\ own = [c \in Child |-> 1]
    /\ pFresh = FALSE /\ pThread = PIdle
    /\ watch = [c \in Child |-> "on"]
    /\ cThread = [c \in Child |-> [CIdle EXCEPT !.seen = 1]]
    /\ childrenGen = [c \in Child |-> 1] /\ childrenSkip = [c \in Child |-> 0]
    /\ parentSkip = 2
    /\ rushed = FALSE /\ ops = 0 /\ errs = 0

-----------------------------------------------------------------------------
(* Users, other digis, the driver's process.                               *)

\* Both sides have handled all there is.
AtRest ==
    /\ pThread.pc = "idle" /\ ~ pFresh /\ parent.mount = pHandled
    /\ \A c \in Child :
          /\ cThread[c].pc = "idle" /\ watch[c] # "fresh"
          /\ watch[c] = "on" => cThread[c].seen = child[c].gen

UserOp(kind) ==
    /\ kind \in Env
    /\ ops < MaxOps /\ ops' = ops + 1
    /\ rushed' = \/ rushed
                 \/ kind \in {"copyIntent", "copyStatus"} /\ ~ AtRest

\* The child's driver, or a user, writes the child's model.
ChildWrite(c, a, v) ==
    /\ UserOp("childWrite")
    /\ child[c].gen > 0 /\ child[c].spec[a] # v
    /\ child' = [child EXCEPT ![c] = Put(@, [@.spec EXCEPT ![a] = v])]
    /\ own' = [own EXCEPT ![c] = child'[c].gen]
    /\ UNCHANGED <<parent, kopf, pThread, watch, cThread, gens, errs>>

WriteMount(c, e) ==
    /\ parent' = PutMounts(parent, [parent.mount EXCEPT ![c] = e])
    /\ UNCHANGED <<child, own, kopf, pThread, watch, cThread, gens, errs>>

\* The parent's driver, or a user, writes the child's copy.
CopyWrite(c, a, v) ==
    /\ UserOp(IF a = "intent" THEN "copyIntent" ELSE "copyStatus")
    /\ Mounted(parent.mount, c)
    /\ LET e == parent.mount[c]
       IN  /\ e.spec[a] # v
           /\ WriteMount(c, [e EXCEPT !.spec[a] = v])

Mount(c) ==
    /\ UserOp("mount")
    /\ ~ Mounted(parent.mount, c)
    /\ WriteMount(c, JustMounted)

Unmount(c) ==
    /\ UserOp("mount")
    /\ Mounted(parent.mount, c)
    /\ WriteMount(c, None)

\* Yield and activate.
Toggle(c) ==
    /\ UserOp("toggle")
    /\ Mounted(parent.mount, c)
    /\ WriteMount(c, [parent.mount[c] EXCEPT !.active = ~ @])

Delete(c) ==
    /\ UserOp("delete")
    /\ child[c].gen > 0
    /\ child' = [child EXCEPT ![c] = [gen |-> 0, spec |-> NoSpec]]
    /\ UNCHANGED <<parent, own, kopf, pThread, watch, cThread, gens, errs>>

\* The driver dies and is started again: only what kopf keeps in the models'
\* annotations survives.
Restart ==
    /\ UserOp("restart")
    /\ pFresh' = TRUE /\ pThread' = PIdle
    /\ watch' = [c \in Child |-> "none"]
    /\ cThread' = [c \in Child |-> [CIdle EXCEPT !.seen = cThread[c].seen]]
    /\ childrenGen' = [c \in Child |-> 0]
    /\ childrenSkip' = [c \in Child |-> 0] /\ parentSkip' = 0
    /\ UNCHANGED <<models, pHandled, errs>>

-----------------------------------------------------------------------------
(* The parent's thread.                                                    *)

\* kopf calls the handlers with the parent as it is now.
PStart ==
    /\ pThread.pc = "idle"
    /\ pFresh \/ parent.mount # pHandled
    /\ pThread' = [PIdle EXCEPT !.pc = "check", !.gen = parent.gen,
                                !.mount = parent.mount]
    /\ UNCHANGED <<models, kopf, watch, cThread, gens, budget>>

\* The handlers returned: kopf records the snapshot as handled.
PReturn ==
    /\ pHandled' = pThread.mount /\ pFresh' = FALSE
    /\ pThread' = PIdle
    /\ UNCHANGED <<models, watch, cThread, gens, budget>>

\* mutant: off by one.
SelfWriteOrNext == ~ pFresh /\ pThread.gen \in {parentSkip, parentSkip + 1}

SelfWrite == ~ pFresh /\ pThread.gen = parentSkip

\* on_mount_attr_update: the generation is the one this mounter wrote last.
PSkip ==
    /\ pThread.pc = "check"
    /\ SelfWrite
    /\ PReturn

\* _gen_child_patch returns something for the child.
Pushable(c) ==
    /\ Mounted(pThread.mount, c)
    /\ pThread.mount[c].active
    /\ pThread.mount[c].spec # NoSpec

\* The children the event's difference selects: all when there is none (the
\* driver resumes), else those whose entry was there and changed.  A new
\* model, a new entry or a removed one has a path too short to select any.
ToSync ==
    IF pThread.mount = pHandled THEN {c \in Child : Pushable(c)}
    ELSE IF pHandled = None THEN {}
    ELSE {c \in Child : /\ Pushable(c) /\ Mounted(pHandled, c)
                        /\ pHandled[c] # pThread.mount[c]}

\* _update_children_watches: one watch per mounted child, active or not.
PCheck ==
    /\ pThread.pc = "check"
    /\ ~ SelfWrite
    /\ watch' = [c \in Child |->
                    IF ~ Mounted(pThread.mount, c) THEN "none"
                    ELSE IF watch[c] = "none" THEN "fresh" ELSE watch[c]]
    /\ pThread' = [pThread EXCEPT !.pc = "sync", !.todo = ToSync]
    /\ UNCHANGED <<models, kopf, cThread, gens, budget>>

Larger(m, n) == IF m < n THEN n ELSE m

\* The generation a push to c claims to be based on.
BaseGenUnchecked(c) == MaxSize  \* mutant: every push claims to be current
BaseGen(c) == Larger(pThread.mount[c].gen, childrenGen[c])

PushedUntrimmed(c) ==            \* mutant: TRIM_FROM_PARENT forgotten
    Merge(child[c].spec, pThread.mount[c].spec)
Pushed(c) == Merge(child[c].spec, Trim(pThread.mount[c].spec, TrimParent))

\* check_gen_and_patch_spec on a child that is not outdated.
PPush(c) ==
    /\ pThread.pc = "sync" /\ c \in pThread.todo
    /\ child[c].gen \in 1..MaxGen - 1
    /\ ~ (BaseGen(c) < child[c].gen)
    /\ child' = [child EXCEPT ![c] = Put(@, Pushed(c))]
    /\ pThread' = [pThread EXCEPT !.pc = "mark", !.at = c,
                       !.todo = @ \ {c},
                       !.cur = child[c].gen, !.new = child'[c].gen]
    /\ UNCHANGED <<parent, own, kopf, watch, cThread, gens, budget>>

\* _children_gen and _children_skip_gen, after the response.
PMark ==
    /\ pThread.pc = "mark"
    /\ LET c == pThread.at
       IN  /\ childrenGen' = [childrenGen EXCEPT ![c] = pThread.new]
           /\ childrenSkip' = IF pThread.cur + 1 = pThread.new
                              THEN [childrenSkip EXCEPT ![c] = pThread.new]
                              ELSE childrenSkip
    /\ pThread' = [pThread EXCEPT !.pc = "sync"]
    /\ UNCHANGED <<models, kopf, watch, cThread, parentSkip, budget>>

PDrop(c) ==
    /\ pThread.pc = "sync" /\ c \in pThread.todo
    /\ child[c].gen > 0
    /\ pThread' = [pThread EXCEPT !.todo = @ \ {c}]
    /\ UNCHANGED <<models, kopf, watch, cThread, gens, rushed, ops>>

\* GEN_OUTDATED: a warning, the push is given up.
POutdated(c) ==
    /\ PDrop(c)
    /\ BaseGen(c) < child[c].gen
    /\ UNCHANGED errs

\* Any other error of the patch: a warning too.
PFail(c) ==
    /\ errs < MaxErr /\ errs' = errs + 1
    /\ PDrop(c)

\* get_spec returns None for a child that does not exist and its unpacking
\* raises: the other children of the event wait for the retry as well.
PRaise(c) ==
    /\ pThread.pc = "sync" /\ c \in pThread.todo
    /\ child[c].gen = 0
    /\ pThread' = PIdle
    /\ UNCHANGED <<models, kopf, watch, cThread, gens, budget>>

\* All pushed.  _prune_mounts at the end patches an attribute "mounts" that a
\* model does not have: nothing changes.
PDone ==
    /\ pThread.pc = "sync" /\ pThread.todo = {}
    /\ PReturn

-----------------------------------------------------------------------------
(* The thread that watches child c.                                        *)

SetThread(c, t) == cThread' = [cThread EXCEPT ![c] = t]

\* kopf calls on_child_create (a new watch: the child is created or resumed;
\* on_child_update follows if it changed meanwhile) or on_child_update.
CStart(c) ==
    LET t == [cThread[c] EXCEPT !.ev = child[c]]
    IN  /\ t.pc = "idle"
        /\ child[c].gen > 0
        /\ \/ /\ watch[c] = "fresh"
              /\ SetThread(c, [t EXCEPT !.pc = "create", !.trim = TrimChild,
                                   !.again = t.seen \notin {0, child[c].gen}])
           \/ /\ watch[c] = "on" /\ t.seen # child[c].gen
              /\ SetThread(c, [t EXCEPT !.pc = "check"])
        /\ watch' = [watch EXCEPT ![c] = "on"]
        /\ UNCHANGED <<models, kopf, pThread, gens, budget>>

\* A handler returned: on to the other one, or kopf records the event.
Returned(t) ==
    IF t.again THEN [CIdle EXCEPT !.pc = "check", !.ev = t.ev, !.seen = t.seen]
    ELSE [CIdle EXCEPT !.seen = t.ev.gen]

CReturn(c) ==
    /\ SetThread(c, Returned(cThread[c]))
    /\ UNCHANGED <<models, kopf, pThread, watch, gens, budget>>

\* _sync_from_parent patches the mount entry itself into the child's spec,
\* which has none of an entry's attributes; the generation is remembered.
CSyncFromParent(c) ==
    /\ cThread[c].pc = "create"
    /\ child[c].gen > 0
    /\ childrenGen' =
          IF Mounted(parent.mount, c) /\ ~ (cThread[c].ev.gen < child[c].gen)
          THEN [childrenGen EXCEPT ![c] = child[c].gen]
          ELSE childrenGen
    /\ SetThread(c, [cThread[c] EXCEPT !.pc = "push"])
    /\ UNCHANGED <<models, kopf, pThread, watch, childrenSkip, parentSkip,
                   budget>>

\* The child is gone: get_spec's None raises in _sync_from_parent.
CRaise(c) ==
    /\ cThread[c].pc = "create"
    /\ child[c].gen = 0
    /\ SetThread(c, CIdle)
    /\ UNCHANGED <<models, kopf, pThread, watch, gens, budget>>

\* on_child_update: the generation is the mounter's own last write.
CSkip(c) ==
    /\ cThread[c].pc = "check"
    /\ cThread[c].ev.gen = childrenSkip[c]
    /\ CReturn(c)

CCheck(c) ==
    /\ cThread[c].pc = "check"
    /\ cThread[c].ev.gen # childrenSkip[c]
    /\ SetThread(c, [cThread[c] EXCEPT !.pc = "push"])
    /\ UNCHANGED <<models, kopf, pThread, watch, gens, budget>>

\* mutant: the event's whole model instead of its spec.
SyncedModel(c, t) == [parent.mount[c] EXCEPT !.spec = t.ev, !.gen = t.ev.gen]

\* The child's copy with the event's spec merged into it.
Synced(c, t) ==
    [parent.mount[c] EXCEPT !.spec = Merge(@, Trim(t.ev.spec, t.trim)),
                            !.gen = t.ev.gen]

\* _sync_to_parent, until its patch is accepted.
CToParent(c) ==
    LET t == cThread[c]
    IN  /\ t.pc = "push"
        /\ Mounted(parent.mount, c) /\ parent.gen < MaxGen
        /\ parent' = PutMounts(parent, [parent.mount EXCEPT ![c] = Synced(c, t)])
        /\ SetThread(c, [t EXCEPT !.pc = "mark", !.cur = parent.gen,
                                  !.new = parent'.gen])
        /\ UNCHANGED <<child, own, kopf, pThread, watch, gens, budget>>

\* _parent_skip_gen, after the response.
CMark(c) ==
    LET t == cThread[c]
    IN  /\ t.pc = "mark"
        /\ parentSkip' = IF t.cur + 1 = t.new THEN t.new ELSE parentSkip
        /\ SetThread(c, Returned(t))
        /\ UNCHANGED <<models, kopf, pThread, watch, childrenGen, childrenSkip,
                       budget>>

\* Not mounted (any more): a warning.
CNotMounted(c) ==
    /\ cThread[c].pc = "push"
    /\ ~ Mounted(parent.mount, c)
    /\ CReturn(c)

\* The patch fails for another reason than a conflict: "abort".
CFail(c) ==
    /\ cThread[c].pc = "push"
    /\ errs < MaxErr /\ errs' = errs + 1
    /\ SetThread(c, Returned(cThread[c]))
    /\ UNCHANGED <<models, kopf, pThread, watch, gens, rushed, ops>>

\* on_child_delete: the watch goes; _sync_to_parent is then called with two
\* values for its parameter spec, which raises before anything is written.
CDelete(c) ==
    /\ cThread[c].pc = "idle"
    /\ child[c].gen = 0 /\ watch[c] = "on"
    /\ watch' = [watch EXCEPT ![c] = "none"]
    /\ UNCHANGED <<models, kopf, pThread, cThread, gens, budget>>

-----------------------------------------------------------------------------

UserNext ==
    \/ Restart
    \/ \E c \in Child :
          \/ \E a \in Attr, v \in Val : ChildWrite(c, a, v) \/ CopyWrite(c, a, v)
          \/ Mount(c) \/ Unmount(c) \/ Toggle(c) \/ Delete(c)

ParentThread ==
    \/ PStart \/ PSkip \/ PCheck \/ PMark \/ PDone
    \/ \E c \in Child : PPush(c) \/ POutdated(c) \/ PRaise(c)

ChildThread(c) ==
    \/ CStart(c) \/ CSyncFromParent(c) \/ CRaise(c) \/ CSkip(c) \/ CCheck(c)
    \/ CToParent(c) \/ CMark(c) \/ CNotMounted(c) \/ CDelete(c)

Fault == \E c \in Child : PFail(c) \/ CFail(c)

Next == UserNext \/ ParentThread \/ Fault \/ \E c \in Child : ChildThread(c)

\* Every kopf operator is a thread of its own that keeps calling.
Fairness == WF_vars(ParentThread) /\ \A c \in Child : WF_vars(ChildThread(c))

StartSpec  == Init /\ [][Next]_vars /\ Fairness
SteadySpec == Steady /\ [][Next]_vars /\ Fairness

-----------------------------------------------------------------------------
(* Properties.                                                             *)

\* The mounter wrote child c.
Push(c) == child'[c] # child[c] /\ own'[c] = own[c] /\ child'[c].gen > 0

(***************************************************************************)
(* "The parent's copy might be out of date" (the comment on _children_gen):*)
(* the mounter never overwrites a child with a copy that does not have the *)
(* child's last own write in it, which is the one a parent pushes when it  *)
(* handles its event before the child's.                                   *)
(***************************************************************************)
NoStaleOverwrite ==
    [][\A c \in Child : Push(c) => own[c] <= pThread.mount[c].gen]_vars

(***************************************************************************)
(* The event of a child that on_child_update skips as the mounter's own    *)
(* write hides no write of the child itself, though kopf may have folded   *)
(* one into it: the parent's copy already has it.                          *)
(***************************************************************************)
SkipLosesNothing ==
    \A c \in Child :
        /\ cThread[c].pc = "check" /\ cThread[c].ev.gen = childrenSkip[c]
        /\ Mounted(parent.mount, c) /\ own[c] <= cThread[c].ev.gen
        => own[c] <= parent.mount[c].gen

(***************************************************************************)
(* As long as users write a copy only when both sides are at rest, every   *)
(* active mount ends up with the copy equal to the child, whatever the     *)
(* child or whoever toggles the mount does in the meantime; and the echoes *)
(* the two directions send each other die out, so that nothing moves then. *)
(***************************************************************************)
InStep(c) ==
    Mounted(parent.mount, c) /\ parent.mount[c].active /\ child[c].gen > 0 =>
        \A a \in Attr :
            \/ parent.mount[c].spec[a] = child[c].spec[a]
            \/ a \in TrimChild /\ parent.mount[c].spec[a] = None

Converges ==
    <>[](\/ rushed
         \/ /\ AtRest
            /\ \A c \in Child : InStep(c))

(***************************************************************************)
(* The docstring of mount.py: a child's updates reach its copy, updates of *)
(* the copy's intent reach the child, without any condition on their pace. *)
(***************************************************************************)
CopyFollows == <>[](\A c \in Child : InStep(c))

(***************************************************************************)
(* The status flows from the child to its copy only (tests/test_mount.py,  *)
(* update event 4): the mounter never changes a child's status.            *)
(***************************************************************************)
StatusIsTheChilds ==
    [][\A c \in Child :
          Push(c) => child'[c].spec["status"] = child[c].spec["status"]]_vars
=============================================================================
