-------------------------------- MODULE Cli ---------------------------------
(***************************************************************************)
(* The digi command line in several terminals: digi run, stop, expose,     *)
(* build, push, pull, rmk, alias and config (cmd/digi/digi/digi.go) and    *)
(* digi space (module Spaces).  digi run and digi stop start a goroutine   *)
(* per digi that runs make (cmd/digi/helper), which works in one directory *)
(* per kind (module Kinds) and calls kubectl, each time against the space  *)
(* in use at that moment; the aliases (module DigiHome) are not told apart *)
(* by space.                                                               *)
(*                                                                         *)
(* RunMake never returns an error: whatever make did, the command goes on. *)
(* What make calls may fail, and make goes on as well (--ignore-errors).   *)
(* Of a run.yaml there are the driver, the model and the service; the      *)
(* volume, the account and its roles go the way of the service.  Not       *)
(* modelled: what is in a model, the helm options, and calls of digi rmk,  *)
(* push, pull and gc that fail and leave things as they were.              *)
(***************************************************************************)
EXTENDS Kinds, Spaces

CONSTANTS Session   \* what there is and what users do in an instance

\* What a space holds, and the commands there are with their arguments.
Space0 == [kinds : SUBSET Kind, models : SUBSET (Kind \X Name),
           driver : [Name -> Kind \cup {Nil}], pools : SUBSET Name,
           services : SUBSET Name, ports : SUBSET Name]
\* What digi stop deletes in the background: a model of a kind, a service or
\* a nodeport service.
Object == Kind \cup {"service", "nodeport"}
Command ==
    [op : {"run"}, kind : Kind, names : SUBSET Name, alias : BOOLEAN, snap : BOOLEAN]
    \cup [op : {"stop"}, names : SUBSET Name, kind : Kind \cup {Nil}, quiet : BOOLEAN]
    \cup [op : {"expose"}, names : SUBSET Name, given : BOOLEAN]
    \cup [op : {"build", "rmk", "pull", "get", "push"}, kinds : SUBSET Kind]
    \cup [op : {"setalias"}, name : Name, kind : Kind \cup Name]
    \cup [op : {"config"}, value : Setting]
    \cup [op : {"clear"}, section : {"alias", "config"}]
    \cup [op : {"discover", "gc"}]
    \cup [op : {"add"}, given : Kube, force : BOOLEAN]
    \cup [op : {"delete", "use", "forget", "swap", "unset"}, name : Id \cup {NoId}]
    \cup [op : {"rename", "alias"}, name : Id, new : Id]

ASSUME CliAssumption ==
    /\ Shell = Terminal /\ Nowhere # Nil /\ User = Terminal \X Thread
    /\ IsFiniteSet(Kind) /\ Kind \cap {"service", "nodeport"} = {}
    /\ \A s \in Session :
          /\ s.file \in Config /\ s.kube \in Kube /\ s.space \in [Server -> Space0]
          /\ s.profile \subseteq Kind /\ s.archive \subseteq Kind
          /\ s.does \subseteq Command /\ s.ops \in Nat /\ s.kills \in Nat
          /\ s.fails \in Nat

VARIABLES
    cmd,      \* by terminal, the command it runs
    at,       \* by terminal, what the command does next
    todo,     \* by terminal, what its loop has still to do
    kindVar,  \* by terminal, the variable kind of stopCmd and buildCmd
    space,    \* by server: CRDs, models, drivers, pools and the services
    late,     \* deletions that digi stop has left in the background
    hit,      \* history: terminals whose command others interfered with
    spoilt,   \* history: terminals whose command went wrong by itself
    fails,    \* bound: calls of make that may fail
    ops, kills, does  \* bounds, and the commands of this instance

threads == <<cmd, at, stage, todo, kindVar>>
outside == <<space, late, kinds>>
faults  == <<spoilt, fails>>
bounds  == <<ops, kills, does>>
vars    == <<home, kubeFiles, threads, outside, hit, faults, bounds>>

NoCommand == [op |-> "none"]
OfSpaces == {"add", "delete", "use", "swap", "rename", "alias", "forget", "unset"}
InDir == {"sync", "template", "apply", "clean", "image"}
Stage == {"off", "rm", "copy", "spawned", "delete", "wait"} \cup InDir \cup InHome

TypeOK ==
    /\ HomeTypeOK /\ SpacesTypeOK /\ KindsTypeOK
    /\ cmd \in [Terminal -> does \cup {NoCommand}
                    \cup [op : {"swap"}, name : Id \cup {NoId}]
                    \cup [op : {"run"}, kind : Kind, names : SUBSET Name,
                          alias : {FALSE}, snap : BOOLEAN]]
    /\ at \in [Terminal -> {"idle", "loop", "gc", "threads", "write", "note", "create"}]
    /\ stage \in [Terminal -> [Thread -> Stage]]
    /\ todo \in [Terminal -> (SUBSET Name) \cup (SUBSET Kind) \cup SUBSET (Kind \X Name)]
    /\ kindVar \in [Terminal -> Kind \cup {Nil}]
    /\ space \in [Server -> Space0]
    /\ late \in SUBSET (Terminal \X Object \X Name)
    /\ hit \in SUBSET Terminal /\ spoilt \in SUBSET Terminal /\ fails \in Nat
    /\ \A t \in Terminal : at[t] = "idle" =>
          cmd[t] = NoCommand /\ \A i \in Thread : stage[t][i] = "off"

NoThreads == [i \in Thread |-> "off"]

Init ==
    \E s \in Session :
        /\ file = s.file /\ ledger = s.file /\ crossed = FALSE
        /\ kube = s.kube /\ prev = NoId /\ last = NoId
        /\ strayed = FALSE /\ space = s.space
        /\ ops = s.ops /\ kills = s.kills /\ does = s.does /\ fails = s.fails
        /\ mem = [t \in Terminal |-> NoConfig] /\ abreast = {} /\ aware = {}
        /\ held = [t \in Terminal |-> [i \in Thread |-> NoConfig]]
        /\ copy = [t \in Terminal |-> s.kube]
        /\ cmd = [t \in Terminal |-> NoCommand] /\ at = [t \in Terminal |-> "idle"]
        /\ stage = [t \in Terminal |-> NoThreads]
        /\ todo = [t \in Terminal |-> {}] /\ kindVar = [t \in Terminal |-> Nil]
        /\ profile = s.profile /\ archive = s.archive
        /\ image = [x \in Kind \X Registry |-> "none"]
        /\ dir = [k \in Kind |-> NoDir] /\ late = {} /\ hit = {} /\ spoilt = {}

Here == InUse(kube)

\* kubectl makes s of the space in use, if it gets there.
Kubectl(s) == space' = IF Here = Nowhere THEN space ELSE [space EXCEPT ![Here] = s]

Names(t) == IF cmd[t].op \in {"run", "stop", "expose"} THEN cmd[t].names ELSE {}

\* Terminal t has a hand in what others do with the digis S.
Touch(t, S) == hit' = hit \cup {u \in Terminal \ {t} : Names(u) \cap S # {}}

\* A call of the make that terminal t waits for fails.
Fails(t) == fails > 0 /\ fails' = fails - 1 /\ spoilt' = spoilt \cup {t}

Threads(t, S, s) == [stage EXCEPT ![t] = [i \in Thread |-> IF i \in S THEN s ELSE "off"]]
Go(t, a) == at' = [at EXCEPT ![t] = a]
OnOr(t, S) == Go(t, IF S = {} THEN "threads" ELSE "loop")
KindOf(t) == IF cmd[t].op = "run" THEN cmd[t].kind ELSE kindVar[t]

\* Terminal t has a hand in what others do with kind k.
TouchKind(t, k) ==
    hit' = hit \cup {u \in Terminal \ {t} :
                       \/ (cmd[u].op = "run" /\ cmd[u].kind = k)
                       \/ (cmd[u].op = "build" /\ k \in cmd[u].kinds)}

Exit(t) ==
    /\ cmd' = [cmd EXCEPT ![t] = NoCommand] /\ Go(t, "idle")
    /\ todo' = [todo EXCEPT ![t] = {}] /\ kindVar' = [kindVar EXCEPT ![t] = Nil]

-----------------------------------------------------------------------------
(* A command is entered.                                                   *)

Enter(t, c) ==
    /\ at[t] = "idle" /\ c \in does
    /\ ops > 0 /\ ops' = ops - 1
    /\ hit' = hit \ {t} /\ spoilt' = spoilt \ {t}
    /\ UNCHANGED <<outside, fails, kills, does>>

\* ParseAuri: a kind that is given in full, or that of an alias.
ParseAuri(f, a) == IF a \in Name THEN Resolve(f, a) ELSE a

SetAlias(t) ==
    \E c \in does :
        /\ Enter(t, c) /\ Load(t)
        /\ c.op \in {"setalias", "clear", "config"}
        /\ c.op = "setalias" => ParseAuri(file, c.kind) # Nil
        /\ cmd' = [cmd EXCEPT ![t] = c] /\ Go(t, "threads")
        /\ stage' = Threads(t, {Main}, "copy")
        /\ UNCHANGED <<kubeFiles, todo, kindVar>>

\* client.Discover: all models of the space in use.
Models == IF Here = Nowhere THEN {} ELSE space[Here].models

Discover(t) ==
    \E c \in does :
        /\ Enter(t, c) /\ Load(t)
        /\ c.op = "discover" /\ Models # {}
        /\ cmd' = [cmd EXCEPT ![t] = c] /\ Go(t, "threads")
        /\ todo' = [todo EXCEPT ![t] = Models]
        /\ stage' = Threads(t, {Main}, "copy")
        /\ UNCHANGED <<kubeFiles, kindVar>>

\* GetModelJson of the digi an alias stands for.
Exists(n) == <<Resolve(file, n), n>> \in Models

\* runCmd: a snapshot is not run over digis that the aliases know of.
Conflict(c) == c.snap /\ \E n \in c.names : Exists(n)

Run(t) ==
    \E c \in does :
        /\ Enter(t, c) /\ Load(t)
        /\ c.op = "run" /\ GetKindFromProfile(c.kind) /\ ~ Conflict(c)
        /\ cmd' = [cmd EXCEPT ![t] = c] /\ Go(t, "threads")
        /\ stage' = Threads(t, c.names, "rm")
        /\ UNCHANGED <<kubeFiles, todo, kindVar>>

Stop(t) ==
    \E c \in does :
        /\ Enter(t, c) /\ Load(t)
        /\ c.op = "stop"
        /\ cmd' = [cmd EXCEPT ![t] = c] /\ Go(t, "loop")
        /\ todo' = [todo EXCEPT ![t] = c.names]
        /\ kindVar' = [kindVar EXCEPT ![t] = c.kind]
        /\ UNCHANGED <<kubeFiles, stage>>

\* exposeCmd looks up the digi if its alias is known, and waits a while for
\* its pod; its clients stay with the space they have found in use.
Expose(t) ==
    \E c \in does, n \in Name :
        /\ Enter(t, c) /\ Load(t)
        /\ c.op = "expose" /\ c.names = {n} /\ Here # Nowhere
        /\ Resolve(file, n) # Nil => Exists(n)
        /\ cmd' = [cmd EXCEPT ![t] = c] /\ Go(t, "create") /\ ReadKube(t)
        /\ UNCHANGED <<stage, todo, kindVar>>

\* buildCmd, rmkCmd, pullCmd and pushCmd: one kind after another, in any
\* order.
WorkOnKinds(t) ==
    \E c \in does :
        /\ Enter(t, c) /\ Load(t)
        /\ c.op \in {"build", "rmk", "pull", "get", "push"}
        /\ c.op = "push" => \A k \in c.kinds : GetKindFromProfile(k)
        /\ cmd' = [cmd EXCEPT ![t] = c] /\ Go(t, "loop")
        /\ todo' = [todo EXCEPT ![t] = c.kinds]
        /\ UNCHANGED <<kubeFiles, stage, kindVar>>

\* gcCmd takes the kinds there are.
Gc(t) ==
    \E c \in does :
        /\ Enter(t, c) /\ Load(t)
        /\ c.op = "gc" /\ Here # Nowhere /\ space[Here].kinds # {}
        /\ cmd' = [cmd EXCEPT ![t] = c] /\ Go(t, "loop")
        /\ todo' = [todo EXCEPT ![t] = space[Here].kinds]
        /\ UNCHANGED <<kubeFiles, stage, kindVar>>

\* A command of module Spaces reads the file.
UseSpaces(t, c) ==
    /\ ReadKube(t)
    /\ cmd' = [cmd EXCEPT ![t] = c] /\ Go(t, "write")
    /\ UNCHANGED <<home, stage, todo, kindVar>>

AddSpace(t) ==
    \E c \in does :
        Enter(t, c) /\ c.op = "add" /\ CanAdd(kube, c) /\ UseSpaces(t, c)

DeleteSpace(t) ==
    \E c \in does :
        Enter(t, c) /\ c.op = "delete" /\ c.name \in Contexts(kube) /\ UseSpaces(t, c)

\* Also digi space check, which stays in the space it shows.
SwitchSpace(t) ==
    \E c \in does :
        Enter(t, c) /\ c.op = "use" /\ c.name \in Contexts(kube) /\ UseSpaces(t, c)

AliasSpace(t) ==
    \E c \in does :
        /\ Enter(t, c) /\ c.op = "alias"
        /\ c.name \in Contexts(kube) /\ c.new \notin Contexts(kube)
        /\ UseSpaces(t, c)

\* The side car ctx.  ctx - reads the context before first.
SwapSpace(t) ==
    \E c \in does :
        /\ Enter(t, c) /\ c.op = "swap" /\ prev \in Contexts(kube)
        /\ UseSpaces(t, [op |-> "swap", name |-> prev])

RenameSpace(t) ==
    \E c \in does :
        /\ Enter(t, c) /\ c.op = "rename"
        /\ c.name \in Contexts(kube) /\ c.new # c.name
        /\ UseSpaces(t, c)

ForgetSpace(t) ==
    \E c \in does :
        Enter(t, c) /\ c.op = "forget" /\ c.name \in Contexts(kube) /\ UseSpaces(t, c)

UnsetSpace(t) == \E c \in does : Enter(t, c) /\ c.op = "unset" /\ UseSpaces(t, c)

-----------------------------------------------------------------------------
(* make run, in the goroutine i of digi run for the digi i, and make       *)
(* build, in Main.                                                         *)

Making(t, i, op, from, to) ==
    /\ cmd[t].op \in op /\ stage[t][i] = from /\ Move(t, i, to)
    /\ UNCHANGED <<home, kubeFiles, cmd, at, todo, kindVar, late, bounds>>

\* Others at work in the same directory.
Sharers(t) ==
    {u \in Terminal \ {t} : \E j \in Thread :
        stage[u][j] \in InDir /\ KindOf(u) = KindOf(t)}

\* Terminal t itself is at work there in another goroutine.
SelfShared(t, i) == \E j \in Thread \ {i} : stage[t][j] \in InDir

\* prepare-build-dir.
MakeDir(t, i) ==
    /\ Making(t, i, {"run", "build"}, "rm", "sync")
    /\ dir' = Emptied(KindOf(t))
    /\ hit' = hit \cup Sharers(t) \cup (IF Sharers(t) = {} THEN {} ELSE {t})
    /\ spoilt' = IF SelfShared(t, i) THEN spoilt \cup {t} ELSE spoilt
    /\ UNCHANGED <<space, profile, archive, image, fails>>

\* mutant: without the prerequisite model.
MakeReadyOnly(t, n) ==
    /\ Making(t, n, {"run"}, "sync", "template")
    /\ dir' = Filled(KindOf(t))
    /\ Kubectl([space[Here] EXCEPT !.pools = @ \ {n}])
    /\ Touch(t, {n})
    /\ UNCHANGED <<profile, archive, image, faults>>

\* prepare-build, prepare-deploy, model and delete-pool.
MakeReady(t, n) ==
    /\ Making(t, n, {"run"}, "sync", "template")
    /\ dir' = Filled(KindOf(t))
    /\ Kubectl([space[Here] EXCEPT !.kinds = @ \cup ({KindOf(t)} \cap profile),
                                   !.pools = @ \ {n}])
    /\ Touch(t, {n})
    /\ UNCHANGED <<profile, archive, image, faults>>

\* An rsync fails, kubectl apply of the CRD or zed drop.
MakeReadyFails(t, n) ==
    /\ Making(t, n, {"run"}, "sync", "template") /\ Fails(t)
    /\ dir' \in PartlyFilled(KindOf(t))
    /\ \E K \in SUBSET ({KindOf(t)} \cap profile), S \in SUBSET {n} :
          Kubectl([space[Here] EXCEPT !.kinds = @ \cup K, !.pools = @ \ S])
    /\ Touch(t, {n})
    /\ UNCHANGED <<profile, archive, image>>

\* cd, if there is a directory, and helm template > run.yaml; a directory that
\* is not what helm needs gets an empty one.
MakeTemplate(t, n) ==
    LET k == KindOf(t)
    IN  /\ Making(t, n, {"run"}, "template", IF dir[k].is = "gone" THEN "clean" ELSE "apply")
        /\ dir' = IF dir[k].is = "gone" THEN dir
                  ELSE Rendered(k, <<t, n>>, IF Workable(k) THEN n ELSE Nil)
        /\ UNCHANGED <<space, profile, archive, image, hit, faults>>

\* helm fails.
MakeTemplateFails(t, n) ==
    LET k == KindOf(t)
    IN  /\ Making(t, n, {"run"}, "template", "apply") /\ Fails(t)
        /\ Workable(k) /\ dir' = Rendered(k, <<t, n>>, Nil)
        /\ UNCHANGED <<space, profile, archive, image, hit>>

\* The shell of goroutine n is in the directory that has the run.yaml.
InPlace(t, n) ==
    <<t, n>> \in dir[KindOf(t)].users /\ dir[KindOf(t)].yaml # Nil

\* The kind of a model in the run.yaml is known in the space in use.
Creatable(k) == dir[k].cr => k \in space[Here].kinds

\* kubectl delete and apply of the run.yaml in the directory the shell is in,
\* whoever's it is, then zed create.  A model is made only where its kind is
\* known; otherwise kubectl fails and there is no pool.
MakeApply(t, n) ==
    LET k == KindOf(t)
        m == dir[k].yaml
    IN  /\ Making(t, n, {"run"}, "apply", "clean")
        /\ IF InPlace(t, n)
           THEN /\ Kubectl([space[Here] EXCEPT !.driver[m] = k,
                     !.services = @ \cup {m},
                     !.models = IF Creatable(k) /\ dir[k].cr THEN @ \cup {<<k, m>>} ELSE @,
                     !.pools = IF Creatable(k) THEN @ \cup {n} ELSE @])
                /\ Touch(t, {m, n})
           ELSE UNCHANGED <<space, hit>>
        /\ UNCHANGED <<kinds, faults>>

\* kubectl fails to delete or to make some of what is in the run.yaml, or zed
\* create fails ("is lake running?").
MakeApplyFails(t, n) ==
    LET k == KindOf(t)
        m == dir[k].yaml
    IN  /\ Making(t, n, {"run"}, "apply", "clean") /\ Fails(t)
        /\ InPlace(t, n) /\ Here # Nowhere
        /\ \E d \in {Nil, k, space[Here].driver[m]}, S \in SUBSET {m},
              M \in SUBSET (IF Creatable(k) /\ dir[k].cr THEN {<<k, m>>} ELSE {}) :
              Kubectl([space[Here] EXCEPT !.driver[m] = d,
                  !.services = (@ \ {m}) \cup S,
                  !.models = IF dir[k].cr THEN (@ \ {<<k, m>>}) \cup M ELSE @])
        /\ Touch(t, {m, n})
        /\ UNCHANGED kinds

\* rm -rf; RunMake returns nil, and the alias is made.
MakeClean(t, n) ==
    /\ Making(t, n, {"run"}, "clean", IF cmd[t].alias THEN "copy" ELSE "off")
    /\ dir' = Removed(KindOf(t))
    /\ UNCHANGED <<space, profile, archive, image, hit, faults>>

\* The loop of buildCmd goes to make for the next kind ...
BuildNext(t) ==
    /\ at[t] = "loop" /\ cmd[t].op = "build" /\ stage[t][Main] = "off"
    /\ \E k \in todo[t] :
          /\ GetKindFromProfile(k)
          /\ kindVar' = [kindVar EXCEPT ![t] = k]
          /\ todo' = [todo EXCEPT ![t] = @ \ {k}]
          /\ OnOr(t, todo[t] \ {k})
    /\ Move(t, Main, "rm")
    /\ UNCHANGED <<home, kubeFiles, cmd, outside, hit, faults, bounds>>

\* ... or ends: log.Fatalf.
BuildUnknown(t) ==
    /\ at[t] = "loop" /\ cmd[t].op = "build" /\ stage[t][Main] = "off"
    /\ \E k \in todo[t] : ~ GetKindFromProfile(k)
    /\ todo' = [todo EXCEPT ![t] = {}] /\ Go(t, "threads")
    /\ spoilt' = spoilt \cup {t}
    /\ UNCHANGED <<home, kubeFiles, cmd, stage, kindVar, outside, hit, fails, bounds>>

BuildReady(t) ==
    /\ Making(t, Main, {"build"}, "sync", "image")
    /\ dir' = Filled(KindOf(t))
    /\ UNCHANGED <<space, profile, archive, image, hit, faults>>

BuildReadyFails(t) ==
    /\ Making(t, Main, {"build"}, "sync", "image") /\ Fails(t)
    /\ dir' \in PartlyFilled(KindOf(t))
    /\ UNCHANGED <<space, profile, archive, image, hit>>

\* docker build and push, to the registry that the configuration names; a part
\* of an image comes between others that build the kind.
BuildImage(t) ==
    LET k == KindOf(t)
        r == mem[t].setting
    IN  /\ Making(t, Main, {"build"}, "image", "off")
        /\ Image(k, r)
        /\ IF image' = [image EXCEPT ![<<k, r>>] = "torn"] THEN TouchKind(t, k) ELSE UNCHANGED hit
        /\ UNCHANGED <<space, faults>>

\* docker build, push or manifest fails: the registry has what it had.
BuildImageFails(t) ==
    /\ Making(t, Main, {"build"}, "image", "off") /\ Fails(t)
    /\ dir' = Removed(KindOf(t))
    /\ UNCHANGED <<space, profile, archive, image, hit>>

-----------------------------------------------------------------------------
(* digi stop.                                                              *)

StopKind(t, n) == IF cmd[t].kind # Nil THEN cmd[t].kind ELSE Resolve(mem[t], n)

\* The loop resolves the next name and starts its goroutine.
StopNext(t) ==
    /\ at[t] = "loop" /\ cmd[t].op = "stop"
    /\ \E n \in todo[t] :
          /\ StopKind(t, n) # Nil
          /\ kindVar' = [kindVar EXCEPT ![t] = StopKind(t, n)]
          /\ todo' = [todo EXCEPT ![t] = @ \ {n}]
          /\ Move(t, n, "spawned")
          /\ OnOr(t, todo[t] \ {n})
    /\ UNCHANGED <<home, kubeFiles, cmd, outside, hit, faults, bounds>>

\* log.Fatalf: the names before may or may not have come as far as make.
StopUnknown(t) ==
    /\ at[t] = "loop" /\ cmd[t].op = "stop"
    /\ \E n \in todo[t] : StopKind(t, n) = Nil
    /\ stage' = [stage EXCEPT ![t] = [i \in Thread |->
                     IF stage[t][i] = "spawned" THEN "off" ELSE stage[t][i]]]
    /\ todo' = [todo EXCEPT ![t] = {}] /\ Go(t, "threads")
    /\ spoilt' = spoilt \cup {t}
    /\ UNCHANGED <<home, kubeFiles, cmd, kindVar, outside, hit, fails, bounds>>

\* The goroutine of digi n goes from one step of make stop to the next.
Halting(t, n, from, to) ==
    /\ stage[t][n] = from /\ Move(t, n, to) /\ Touch(t, {n})
    /\ UNCHANGED <<home, kubeFiles, cmd, at, todo, kindVar, kinds, bounds>>

\* What make stop deletes in the background: the kind is read from the
\* variable now.
Background(t, n) == {<<t, o, n>> : o \in {kindVar[t], "service", "nodeport"}}

\* The pool is dropped, and the deletions in the background are started.
StopMake(t, n) ==
    /\ Halting(t, n, "spawned", "delete")
    /\ Kubectl([space[Here] EXCEPT !.pools = @ \ {n}])
    /\ late' = late \cup Background(t, n)
    /\ UNCHANGED faults

\* zed drop fails.
StopMakeFails(t, n) ==
    /\ Halting(t, n, "spawned", "delete") /\ Fails(t)
    /\ late' = late \cup Background(t, n)
    /\ UNCHANGED space

\* What is in the background holds make's output open, which digi waits for
\* unless it is quiet.
StillWaits(t, n) == ~ cmd[t].quiet /\ \E o \in Object : <<t, o, n>> \in late

\* mutant: digi does not wait for what is in the background.
StopDeleteOnly(t, n) ==
    /\ Halting(t, n, "delete", "off")
    /\ Kubectl([space[Here] EXCEPT !.driver[n] = Nil])
    /\ UNCHANGED <<late, faults>>

\* The driver: all that make stop itself waits for.
StopDelete(t, n) ==
    /\ Halting(t, n, "delete", IF StillWaits(t, n) THEN "wait" ELSE "off")
    /\ Kubectl([space[Here] EXCEPT !.driver[n] = Nil])
    /\ UNCHANGED <<late, faults>>

\* kubectl fails, and the driver stays.
StopDeleteFails(t, n) ==
    /\ Halting(t, n, "delete", IF StillWaits(t, n) THEN "wait" ELSE "off") /\ Fails(t)
    /\ UNCHANGED <<space, late>>

\* A deletion in the background ends, and the last one lets digi go on.
LateEnds(t, o, n) ==
    /\ <<t, o, n>> \in late /\ late' = late \ {<<t, o, n>>}
    /\ IF stage[t][n] = "wait" /\ \A j \in Object \ {o} : <<t, j, n>> \notin late
       THEN Move(t, n, "off") ELSE UNCHANGED stage
    /\ hit' = hit \cup {u \in Terminal : n \in Names(u) /\ (u # t \/ cmd[u].op # "stop")}
    /\ UNCHANGED <<home, kubeFiles, cmd, at, todo, kindVar, kinds, bounds>>

\* Space s without object o of digi n.
Without(s, o, n) ==
    CASE o = "service"  -> [s EXCEPT !.services = @ \ {n}]
      [] o = "nodeport" -> [s EXCEPT !.ports = @ \ {n}]
      [] OTHER          -> [s EXCEPT !.models = @ \ {<<o, n>>}]

StopLate(t, o, n) ==
    /\ LateEnds(t, o, n)
    /\ Kubectl(Without(space[Here], o, n))
    /\ UNCHANGED faults

StopLateFails(t, o, n) ==
    /\ LateEnds(t, o, n)
    /\ fails > 0 /\ fails' = fails - 1
    /\ spoilt' = IF cmd[t].op = "stop" THEN spoilt \cup {t} ELSE spoilt
    /\ UNCHANGED space

-----------------------------------------------------------------------------
(* The other commands.                                                     *)

ForNext(t, op) ==
    /\ at[t] = "loop" /\ cmd[t].op = op
    /\ UNCHANGED <<home, kubeFiles, cmd, stage, space, late, faults, bounds>>

Taken(t, k) == todo' = [todo EXCEPT ![t] = @ \ {k}] /\ OnOr(t, todo[t] \ {k})

\* The goroutines of rmk and pull, and push.
Rmk(t, k) ==
    /\ ForNext(t, "rmk") /\ k \in todo[t] /\ Taken(t, k)
    /\ RemoveKind(k) /\ TouchKind(t, k) /\ UNCHANGED kindVar

Push(t, k) ==
    /\ ForNext(t, "push") /\ k \in todo[t] /\ Taken(t, k)
    /\ PushKind(k) /\ UNCHANGED <<kindVar, hit>>

Pull(t, k) ==
    /\ ForNext(t, "pull") /\ k \in todo[t] /\ Taken(t, k)
    /\ PullKind(k) /\ UNCHANGED <<kindVar, hit>>

PullGit(t, k) ==
    /\ ForNext(t, "get") /\ k \in todo[t] /\ Taken(t, k)
    /\ PullRemote(k) /\ UNCHANGED <<kindVar, hit>>

\* make gc: the models of a kind are counted ...
GcCount(t, k) ==
    /\ ForNext(t, "gc") /\ k \in todo[t]
    /\ todo' = [todo EXCEPT ![t] = @ \ {k}]
    /\ IF \E n \in Name : <<k, n>> \in Models
       THEN OnOr(t, todo[t] \ {k}) /\ UNCHANGED kindVar
       ELSE Go(t, "gc") /\ kindVar' = [kindVar EXCEPT ![t] = k]
    /\ UNCHANGED <<kinds, hit>>

\* ... taking a count that fails for none ...
GcCountFails(t, k) ==
    /\ at[t] = "loop" /\ cmd[t].op = "gc" /\ k \in todo[t] /\ Fails(t)
    /\ todo' = [todo EXCEPT ![t] = @ \ {k}]
    /\ Go(t, "gc") /\ kindVar' = [kindVar EXCEPT ![t] = k]
    /\ UNCHANGED <<home, kubeFiles, cmd, stage, outside, hit, bounds>>

\* ... and a kind that has none is deleted, with the models it has now.
GcDelete(t) ==
    LET k == kindVar[t]
    IN  /\ at[t] = "gc" /\ OnOr(t, todo[t])
        /\ Kubectl([space[Here] EXCEPT !.kinds = @ \ {k}, !.models = @ \ ({k} \X Name)])
        /\ TouchKind(t, k)
        /\ UNCHANGED <<home, kubeFiles, cmd, stage, todo, kindVar, late, kinds, faults, bounds>>

\* The nodeport: for the ports of the digi's service, if they are not given.
ExposeCreate(t) ==
    LET s == InUse(copy[t])
    IN  /\ at[t] = "create" /\ Exit(t)
        /\ \E n \in cmd[t].names :
              /\ space' = IF cmd[t].given \/ n \in space[s].services
                          THEN [space EXCEPT ![s].ports = @ \cup {n}] ELSE space
              /\ Touch(t, {n})
        /\ UNCHANGED <<home, kubeFiles, stage, kinds, late, faults, bounds>>

Write(t) ==
    /\ at[t] = "write" /\ WriteKube(t, cmd[t])
    /\ IF Leaves(t, cmd[t]) THEN Go(t, "note") /\ UNCHANGED <<cmd, todo, kindVar>>
       ELSE Exit(t)
    /\ hit' = IF InUse(kube') = Here THEN hit ELSE hit \cup (Terminal \ {t})
    /\ UNCHANGED <<home, stage, outside, faults, bounds>>

Note(t) ==
    /\ at[t] = "note" /\ NotePrev(t) /\ Exit(t)
    /\ UNCHANGED <<home, stage, outside, hit, faults, bounds>>

\* Alias.Set, ClearAlias, config.Set and ClearConfig.
InThread == UNCHANGED <<kubeFiles, cmd, at, kindVar, outside, hit, faults, bounds>>

CopyConfig(t, i) == Copy(t, i) /\ InThread /\ UNCHANGED todo

\* What the command makes of a configuration f, for the digi x it discovered.
Edited(f, t, i, x) ==
    LET c == cmd[t]
    IN  CASE c.op = "run" -> WithAlias(f, i, c.kind)
          [] c.op = "setalias" -> WithAlias(f, c.name, ParseAuri(mem[t], c.kind))
          [] c.op = "config" -> WithSetting(f, c.value)
          [] c.op = "clear" -> Cleared(f, c.section)
          [] c.op = "discover" -> WithAlias(f, x[2], x[1])

SetConfig(t, i) ==
    /\ InThread
    /\ IF cmd[t].op = "discover"
       THEN \E x \in todo[t] : /\ Set(t, i, Edited(held[t][i], t, i, x), Edited(ledger, t, i, x))
                               /\ todo' = [todo EXCEPT ![t] = @ \ {x}]
       ELSE Set(t, i, Edited(held[t][i], t, i, Nil), Edited(ledger, t, i, Nil)) /\ UNCHANGED todo

OpenConfig(t, i) == Open(t, i) /\ InThread /\ UNCHANGED todo

\* DiscoverAliasAndSet writes the file once for each digi.
FillConfig(t, i) ==
    /\ Fill(t, i, IF cmd[t].op = "discover" /\ todo[t] # {} THEN "copy" ELSE "off")
    /\ InThread /\ UNCHANGED todo

\* wg.Wait: all goroutines are done.
Return(t) ==
    /\ at[t] = "threads" /\ \A i \in Thread : stage[t][i] = "off"
    /\ Exit(t)
    /\ UNCHANGED <<home, kubeFiles, stage, outside, hit, faults, bounds>>

-----------------------------------------------------------------------------
(* Faults.                                                                 *)

\* Ctrl-C: digi and its makes die, what make left in the background does not.
Kill(t) ==
    /\ kills > 0 /\ kills' = kills - 1
    /\ at[t] # "idle" /\ Exit(t)
    /\ HomeDies(t)
    /\ strayed' = (strayed \/ at[t] = "note")
    /\ stage' = [stage EXCEPT ![t] = NoThreads]
    /\ UNCHANGED <<kube, prev, copy, aware, last, outside, hit, faults, ops, does>>

\* Two goroutines in viper's maps: "fatal error: concurrent map writes".  The
\* makes go on; the shell is taken to wait for them.
Panic(t) ==
    LET in == {i \in Thread : stage[t][i] \in {"copy"} \cup InHome}
    IN  /\ Cardinality({i \in in : stage[t][i] # "fill"}) > 1
        /\ HomeDies(t)
        /\ cmd' = [cmd EXCEPT ![t].alias = FALSE]
        /\ stage' = [stage EXCEPT ![t] = [i \in Thread |->
                        IF i \in in THEN "off" ELSE stage[t][i]]]
        /\ UNCHANGED <<kubeFiles, at, todo, kindVar, outside, hit, faults, bounds>>

-----------------------------------------------------------------------------

Next ==
    \/ \E t \in Terminal :
          \/ SetAlias(t) \/ Discover(t) \/ Run(t) \/ Stop(t) \/ Expose(t)
          \/ WorkOnKinds(t) \/ Gc(t)
          \/ AddSpace(t) \/ DeleteSpace(t) \/ SwitchSpace(t) \/ AliasSpace(t)
          \/ SwapSpace(t) \/ RenameSpace(t) \/ ForgetSpace(t) \/ UnsetSpace(t)
          \/ BuildNext(t) \/ BuildUnknown(t) \/ BuildReady(t) \/ BuildImage(t)
          \/ BuildReadyFails(t) \/ BuildImageFails(t)
          \/ StopNext(t) \/ StopUnknown(t) \/ ExposeCreate(t) \/ Write(t) \/ Note(t)
          \/ GcDelete(t) \/ Return(t) \/ Kill(t) \/ Panic(t)
          \/ \E i \in Thread : CopyConfig(t, i) \/ SetConfig(t, i)
                               \/ OpenConfig(t, i) \/ FillConfig(t, i)
          \/ \E i \in Thread : MakeDir(t, i)
          \/ \E k \in Kind :
                \/ Rmk(t, k) \/ Push(t, k) \/ Pull(t, k) \/ PullGit(t, k)
                \/ GcCount(t, k) \/ GcCountFails(t, k)
          \/ \E n \in Name :
                \/ MakeReady(t, n) \/ MakeTemplate(t, n)
                \/ MakeApply(t, n) \/ MakeClean(t, n)
                \/ MakeReadyFails(t, n) \/ MakeTemplateFails(t, n) \/ MakeApplyFails(t, n)
                \/ StopMake(t, n) \/ StopDelete(t, n)
                \/ StopMakeFails(t, n) \/ StopDeleteFails(t, n)
                \/ \E o \in Object : StopLate(t, o, n) \/ StopLateFails(t, o, n)

Spec == Init /\ [][Next]_vars

-----------------------------------------------------------------------------
(* Properties.                                                             *)

\* A command of terminal t returns, with nobody else in its way.
Returns(t, op) ==
    /\ at[t] = "threads" /\ at'[t] = "idle" /\ cmd[t].op = op
    /\ \A i \in Thread : stage[t][i] = "off"
    /\ t \notin hit /\ Here # Nowhere

\* ... nor itself.
Done(t, op) == Returns(t, op) /\ t \notin spoilt

\* Digi n of kind k runs in the space in use.
Runs(k, n) ==
    /\ <<k, n>> \in space[Here].models /\ space[Here].driver[n] = k
    /\ n \in space[Here].services \cap space[Here].pools

(***************************************************************************)
(* When digi run returns, every digi named has its model, its driver, its  *)
(* service and its pool in the space in use; when digi build returns there *)
(* is an image of every kind named, of all of its files, in the registry   *)
(* the configuration named when it began.  Only this may come between, and *)
(* RunMake hides all of it (helper.go:57-64):                              *)
(*  - hit: another command was in the build directory of the kind at the   *)
(*    same time, had to do with the same digi or kind, or changed the      *)
(*    space in use;                                                        *)
(*  - spoilt: two makes of this command were in the build directory at a   *)
(*    time, something that make called failed, or log.Fatalf ended the     *)
(*    loop of digi build.                                                  *)
(***************************************************************************)
MakesAll ==
    [][\A t \in Terminal :
          /\ Done(t, "run") => \A n \in cmd[t].names : Runs(cmd[t].kind, n)
          /\ Done(t, "build") =>
                \A k \in cmd[t].kinds : image[<<k, mem[t].setting>>] = "whole"]_vars

(***************************************************************************)
(* "Will start l1-l9 lamps" (the help of digi run, digi.go:703): a digi    *)
(* run that no other command interfered with has started every digi named. *)
(* It has not: its makes share /tmp/digi-build-<kind> (Makefile:41), which *)
(* every one of them removes when it begins and when it ends.              *)
(***************************************************************************)
RunStartsAll ==
    [][\A t \in Terminal :
          Returns(t, "run") => \A n \in cmd[t].names : Runs(cmd[t].kind, n)]_vars

\* The kinds a call of digi stop has to do with.
StopKinds(t) == {StopKind(t, n) : n \in cmd[t].names}

(***************************************************************************)
(* When digi stop returns, the driver and the pool of every digi named are *)
(* gone, and so are its service, its nodeport service and its model, which *)
(* make deletes in the background (Makefile:186-194): only digi stop -q    *)
(* may return before.  Of the models that holds for the kind the alias     *)
(* gives, and only as long as the digis of one call are of one kind: the   *)
(* goroutines share the variable.  As for MakesAll, no other command had   *)
(* to do with the digi, no call of make failed, and log.Fatalf did not end *)
(* the loop.                                                               *)
(***************************************************************************)
StopStopsAll ==
    [][\A t \in Terminal : Done(t, "stop") =>
          \A n \in cmd[t].names :
              LET Pending(o) == cmd[t].quiet /\ <<t, o, n>> \in late
              IN  /\ space[Here].driver[n] = Nil /\ n \notin space[Here].pools
                  /\ n \in space[Here].services => Pending("service")
                  /\ n \in space[Here].ports => Pending("nodeport")
                  /\ \A k \in StopKinds(t) : <<k, n>> \in space[Here].models =>
                        Pending(k) \/ Cardinality(StopKinds(t)) > 1]_vars

Wrote(t) == at[t] = "write" /\ at'[t] # "write" /\ kills' = kills /\ t \in aware

\* The contexts a command is about.
About(c) ==
    CASE c.op \in {"delete", "forget"} -> {c.name}
      [] c.op \in {"rename", "alias"} -> {c.name, c.new}
      [] OTHER -> {}

(***************************************************************************)
(* A command on one space leaves the others where they led, unless two     *)
(* commands wrote the file at a time, or their cluster or user has the     *)
(* name of the space that digi space delete deletes by name; and ctx -     *)
(* leads back to the space in use before the last switch.                  *)
(***************************************************************************)
SpacesKept ==
    [][\A t \in Terminal : Wrote(t) =>
          /\ \A s \in Contexts(kube) \ About(cmd[t]) :
                \/ Leads(kube', s) = Leads(kube, s)
                \/ Nowhere \in {Leads(kube, s)[1], Leads(kube, s)[2]}
                \/ /\ cmd[t].op = "delete"
                   /\ cmd[t].name \in {kube.contexts[s].cluster, kube.contexts[s].user}
          /\ cmd[t].op = "swap" => strayed \/ kube'.current = last]_vars
=============================================================================
