----------------------------- MODULE Cli_proofs -----------------------------
(***************************************************************************)
(* What the digi command line keeps for any number of terminals, digis,    *)
(* kinds and spaces, and any commands side by side.                        *)
(***************************************************************************)
EXTENDS Cli, FiniteSetTheorems, TLAPS

-----------------------------------------------------------------------------
(* Types *)

OnConfig == {"setalias", "clear", "config", "discover"}
OnKinds == {"build", "rmk", "pull", "get", "push"}
Loops == OnKinds \cup {"stop", "gc"}

\* What a command does next is one of its own steps.
AtItsOwn ==
    \A t \in Terminal :
        /\ at[t] = "loop" => cmd[t].op \in Loops
        /\ at[t] = "gc" => cmd[t].op = "gc"
        /\ at[t] \in {"write", "note"} => cmd[t].op \in OfSpaces
        /\ at[t] = "create" => cmd[t].op = "expose"
        /\ at[t] = "threads" => cmd[t].op \in OnConfig \cup Loops \cup {"run"}

\* And so are its goroutines.
ThreadsAreItsOwn ==
    \A t \in Terminal, i \in Thread :
        /\ stage[t][i] \in {"copy"} \cup InHome =>
              \/ cmd[t].op \in OnConfig /\ i = Main
              \/ cmd[t].op = "run" /\ i \in cmd[t].names
        /\ stage[t][i] \in {"rm"} \cup InDir =>
              \/ cmd[t].op = "run" /\ i \in cmd[t].names /\ stage[t][i] # "image"
              \/ /\ cmd[t].op = "build" /\ i = Main /\ kindVar[t] \in Kind
                 /\ stage[t][i] \in {"rm", "sync", "image"}
        /\ stage[t][i] \in {"spawned", "delete", "wait"} =>
              cmd[t].op = "stop" /\ i \in cmd[t].names /\ kindVar[t] \in Kind

\* What a loop of command c has still to do is some of what c is given.
Within(c, x) ==
    /\ c.op = "stop" => x \subseteq c.names
    /\ c.op \in OnKinds => x \subseteq c.kinds
    /\ c.op = "gc" => x \subseteq Kind
    /\ c.op = "discover" => x \subseteq Kind \X Name

TodoOK == \A t \in Terminal : Within(cmd[t], todo[t])

BoundsOK == ops \in Nat /\ kills \in Nat /\ does \subseteq Command

CInv ==
    /\ TypeOK /\ AtItsOwn /\ ThreadsAreItsOwn /\ TodoOK /\ BoundsOK

\* The arguments of a command.
LEMMA Arguments ==
    ASSUME NEW c \in Command
    PROVE  /\ c.op = "run" => /\ c.kind \in Kind /\ c.names \subseteq Name
                              /\ c.alias \in BOOLEAN /\ c.snap \in BOOLEAN
           /\ c.op = "stop" => c.names \subseteq Name /\ c.kind \in Kind \cup {Nil}
           /\ c.op = "expose" => c.names \subseteq Name
           /\ c.op \in OnKinds => c.kinds \subseteq Kind
           /\ c.op = "setalias" => c.name \in Name /\ c.kind \in Kind \cup Name
           /\ c.op = "config" => c.value \in Setting
           /\ c.op = "add" => c.given \in Kube
           /\ c.op \in {"delete", "use", "forget", "swap", "unset"} => c.name \in Id \cup {NoId}
           /\ c.op \in {"rename", "alias"} => c.name \in Id /\ c.new \in Id
           /\ c.op # "none"
<1>1. CASE c \in [op : {"run"}, kind : Kind, names : SUBSET Name, alias : BOOLEAN, snap : BOOLEAN]
  BY <1>1 DEF OnKinds
<1>2. CASE c \in [op : {"stop"}, names : SUBSET Name, kind : Kind \cup {Nil}, quiet : BOOLEAN]
  BY <1>2 DEF OnKinds
<1>3. CASE c \in [op : {"expose"}, names : SUBSET Name, given : BOOLEAN]
  BY <1>3 DEF OnKinds
<1>4. CASE c \in [op : {"build", "rmk", "pull", "get", "push"}, kinds : SUBSET Kind]
  BY <1>4 DEF OnKinds
<1>5. CASE c \in [op : {"setalias"}, name : Name, kind : Kind \cup Name]
  BY <1>5 DEF OnKinds
<1>6. CASE c \in [op : {"config"}, value : Setting]
  BY <1>6 DEF OnKinds
<1>7. CASE c \in [op : {"clear"}, section : {"alias", "config"}]
  BY <1>7 DEF OnKinds
<1>8. CASE c \in [op : {"discover", "gc"}]
  BY <1>8 DEF OnKinds
<1>9. CASE c \in [op : {"add"}, given : Kube, force : BOOLEAN]
  BY <1>9 DEF OnKinds
<1>10. CASE c \in [op : {"delete", "use", "forget", "swap", "unset"}, name : Id \cup {NoId}]
  BY <1>10 DEF OnKinds
<1>11. CASE c \in [op : {"rename", "alias"}, name : Id, new : Id]
  BY <1>11 DEF OnKinds
<1> QED
  BY <1>1, <1>2, <1>3, <1>4, <1>5, <1>6, <1>7, <1>8, <1>9, <1>10, <1>11 DEF Command

-----------------------------------------------------------------------------
(* The steps in groups                                                     *)

Entering(t) ==
    \/ SetAlias(t) \/ Discover(t) \/ Run(t) \/ Stop(t) \/ Expose(t)
    \/ WorkOnKinds(t) \/ Gc(t)
    \/ AddSpace(t) \/ DeleteSpace(t) \/ SwitchSpace(t) \/ AliasSpace(t)
    \/ SwapSpace(t) \/ RenameSpace(t) \/ ForgetSpace(t) \/ UnsetSpace(t)

Looping(t) ==
    \/ BuildNext(t) \/ BuildUnknown(t) \/ StopNext(t) \/ StopUnknown(t)
    \/ GcDelete(t)
    \/ \E k \in Kind :
          Rmk(t, k) \/ Push(t, k) \/ Pull(t, k) \/ PullGit(t, k) \/ GcCount(t, k)
          \/ GcCountFails(t, k)

InMake(t) ==
    \/ BuildReady(t) \/ BuildImage(t)
    \/ \E i \in Thread : MakeDir(t, i)
    \/ \E n \in Name : \/ MakeReady(t, n) \/ MakeTemplate(t, n)
                        \/ MakeApply(t, n) \/ MakeClean(t, n)

Stopping(t) ==
    \E n \in Name : \/ StopMake(t, n) \/ StopDelete(t, n)
                    \/ \E o \in Object : StopLate(t, o, n)

Faulty(t) ==
    \/ BuildReadyFails(t) \/ BuildImageFails(t)
    \/ \E n \in Name :
          \/ MakeReadyFails(t, n) \/ MakeTemplateFails(t, n) \/ MakeApplyFails(t, n)
          \/ StopMakeFails(t, n) \/ StopDeleteFails(t, n)
          \/ \E o \in Object : StopLateFails(t, o, n)

OnFile(t) ==
    \E i \in Thread : \/ CopyConfig(t, i) \/ SetConfig(t, i)
                      \/ OpenConfig(t, i) \/ FillConfig(t, i)

Ending(t) ==
    ExposeCreate(t) \/ Write(t) \/ Note(t) \/ Return(t) \/ Kill(t) \/ Panic(t)

LEMMA Groups ==
    Next => \E t \in Terminal : \/ Entering(t) \/ Looping(t) \/ InMake(t)
                                \/ Stopping(t) \/ Faulty(t) \/ OnFile(t) \/ Ending(t)
BY DEF Next, Entering, Looping, InMake, Stopping, Faulty, OnFile, Ending

\* The space in use is one of those there are.
LEMMA InUseIsThere ==
    ASSUME NEW k \in Kube PROVE InUse(k) \in Server \cup {Nowhere}
<1>1. CASE k.current = NoId
  BY <1>1 DEF InUse
<1>2. CASE k.current # NoId
  <2>1. k.current \in Id /\ k.contexts[k.current] \in Context \cup {Nowhere}
    BY <1>2 DEF Kube
  <2>2. CASE k.contexts[k.current] = Nowhere
    BY <2>2 DEF InUse, Leads
  <2>3. CASE k.contexts[k.current] # Nowhere
    <3>1. k.contexts[k.current].cluster \in Id
      BY <2>1, <2>3 DEF Context
    <3>2. k.clusters[k.contexts[k.current].cluster] \in Server \cup {Nowhere}
      BY <3>1 DEF Kube, Entries
    <3> QED
      BY <2>3, <3>2 DEF InUse, Leads
  <2> QED
    BY <2>2, <2>3
<1> QED
  BY <1>1, <1>2

\* A command that is entered: what it does first, with which goroutines.
Swaps == [op : {"swap"}, name : Id \cup {NoId}]

First(c) == IF c.op \in OnConfig \cup {"run"} THEN "threads"
            ELSE IF c.op \in Loops THEN "loop"
            ELSE IF c.op = "expose" THEN "create" ELSE "write"

Started(t, c) == IF c.op \in OnConfig THEN Threads(t, {Main}, "copy")
                 ELSE IF c.op = "run" THEN Threads(t, c.names, "rm") ELSE stage

\* What its loop has to do; what the variable holds where it has none.
Tasks(t, c, x) ==
    /\ c.op = "stop" => x = c.names
    /\ c.op \in OnKinds => x = c.kinds
    /\ c.op = "gc" => x \subseteq Kind
    /\ c.op = "discover" => x \subseteq Kind \X Name
    /\ c.op \notin Loops \cup {"discover"} => x = todo[t]

Began(t, c, x) ==
    /\ c \in does \cup Swaps /\ c.op \in OnConfig \cup Loops \cup {"run", "expose"} \cup OfSpaces
    /\ at[t] = "idle" /\ at' = [at EXCEPT ![t] = First(c)]
    /\ cmd' = [cmd EXCEPT ![t] = c] /\ stage' = Started(t, c)
    /\ Tasks(t, c, x) /\ todo' = [todo EXCEPT ![t] = x]
    /\ kindVar' = IF c.op = "stop" THEN [kindVar EXCEPT ![t] = c.kind] ELSE kindVar
    /\ IF c.op \in OfSpaces THEN UNCHANGED home ELSE Load(t)
    /\ IF c.op \in OfSpaces \cup {"expose"} THEN ReadKube(t) ELSE UNCHANGED kubeFiles
    /\ hit' = hit \ {t} /\ spoilt' = spoilt \ {t}
    /\ UNCHANGED <<outside, fails, kills, does>> /\ ops' \in Nat
    /\ c.op = "run" => c.kind \in profile
    /\ c.op = "swap" => c.name = prev

LEMMA Beginning ==
    ASSUME CInv, NEW t \in Terminal, Entering(t)
    PROVE  \E c, x : Began(t, c, x)
<1> USE DEF Enter, OnConfig, OnKinds, Loops, OfSpaces, First, Started, Tasks, Swaps
<1>0. /\ todo = [todo EXCEPT ![t] = todo[t]] /\ stage = [stage EXCEPT ![t] = stage[t]]
      /\ ops \in Nat /\ (ops > 0 => ops - 1 \in Nat) /\ kube \in Kube /\ does \subseteq Command
      /\ space \in [Server -> Space0] /\ InUse(kube) \in Server \cup {Nowhere}
  BY InUseIsThere DEF CInv, TypeOK, BoundsOK, SpacesTypeOK
<1>1. ASSUME SetAlias(t) PROVE \E c, x : Began(t, c, x)
  <2>1. PICK c \in does : /\ Enter(t, c) /\ Load(t)
                          /\ c.op \in {"setalias", "clear", "config"}
                          /\ cmd' = [cmd EXCEPT ![t] = c] /\ Go(t, "threads")
                          /\ stage' = Threads(t, {Main}, "copy")
                          /\ UNCHANGED <<kubeFiles, todo, kindVar>>
    BY <1>1 DEF SetAlias
  <2>2. Began(t, c, todo[t])
    BY <2>1, <1>0 DEF Began, Go
  <2> QED
    BY <2>2
<1>2. ASSUME Discover(t) PROVE \E c, x : Began(t, c, x)
  <2>1. PICK c \in does : /\ Enter(t, c) /\ Load(t)
                          /\ c.op = "discover"
                          /\ cmd' = [cmd EXCEPT ![t] = c] /\ Go(t, "threads")
                          /\ todo' = [todo EXCEPT ![t] = Models]
                          /\ stage' = Threads(t, {Main}, "copy")
                          /\ UNCHANGED <<kubeFiles, kindVar>>
    BY <1>2 DEF Discover
  <2>2. Models \subseteq Kind \X Name
    BY <1>0 DEF Models, Here, Space0
  <2>3. Began(t, c, Models)
    BY <2>1, <2>2, <1>0 DEF Began, Go
  <2> QED
    BY <2>3
<1>3. ASSUME Run(t) PROVE \E c, x : Began(t, c, x)
  <2>1. PICK c \in does : /\ Enter(t, c) /\ Load(t)
                          /\ c.op = "run" /\ c.kind \in profile
                          /\ cmd' = [cmd EXCEPT ![t] = c] /\ Go(t, "threads")
                          /\ stage' = Threads(t, c.names, "rm")
                          /\ UNCHANGED <<kubeFiles, todo, kindVar>>
    BY <1>3 DEF Run, GetKindFromProfile
  <2>2. Began(t, c, todo[t])
    BY <2>1, <1>0 DEF Began, Go
  <2> QED
    BY <2>2
<1>4. ASSUME Stop(t) PROVE \E c, x : Began(t, c, x)
  <2>1. PICK c \in does : /\ Enter(t, c) /\ Load(t) /\ c.op = "stop"
                          /\ cmd' = [cmd EXCEPT ![t] = c] /\ Go(t, "loop")
                          /\ todo' = [todo EXCEPT ![t] = c.names]
                          /\ kindVar' = [kindVar EXCEPT ![t] = c.kind]
                          /\ UNCHANGED <<kubeFiles, stage>>
    BY <1>4 DEF Stop
  <2>2. Began(t, c, c.names)
    BY <2>1, <1>0 DEF Began, Go
  <2> QED
    BY <2>2
<1>5. ASSUME Expose(t) PROVE \E c, x : Began(t, c, x)
  <2>1. PICK c \in does : /\ Enter(t, c) /\ Load(t) /\ c.op = "expose"
                          /\ cmd' = [cmd EXCEPT ![t] = c] /\ Go(t, "create")
                          /\ ReadKube(t) /\ UNCHANGED <<stage, todo, kindVar>>
    BY <1>5 DEF Expose
  <2>2. Began(t, c, todo[t])
    BY <2>1, <1>0 DEF Began, Go
  <2> QED
    BY <2>2
<1>6. ASSUME WorkOnKinds(t) PROVE \E c, x : Began(t, c, x)
  <2>1. PICK c \in does : /\ Enter(t, c) /\ Load(t) /\ c.op \in OnKinds
                          /\ cmd' = [cmd EXCEPT ![t] = c] /\ Go(t, "loop")
                          /\ todo' = [todo EXCEPT ![t] = c.kinds]
                          /\ UNCHANGED <<kubeFiles, stage, kindVar>>
    BY <1>6 DEF WorkOnKinds
  <2>2. Began(t, c, c.kinds)
    BY <2>1, <1>0 DEF Began, Go
  <2> QED
    BY <2>2
<1>7. ASSUME Gc(t) PROVE \E c, x : Began(t, c, x)
  <2>1. PICK c \in does : /\ Enter(t, c) /\ Load(t) /\ c.op = "gc" /\ Here # Nowhere
                          /\ cmd' = [cmd EXCEPT ![t] = c] /\ Go(t, "loop")
                          /\ todo' = [todo EXCEPT ![t] = space[Here].kinds]
                          /\ UNCHANGED <<kubeFiles, stage, kindVar>>
    BY <1>7 DEF Gc
  <2>2. space[Here].kinds \subseteq Kind
    BY <1>0, <2>1 DEF Here, Space0
  <2>3. Began(t, c, space[Here].kinds)
    BY <2>1, <2>2, <1>0 DEF Began, Go
  <2> QED
    BY <2>3
<1>8. ASSUME NEW c \in does \cup Swaps, NEW d \in does, Enter(t, d), UseSpaces(t, c),
             c.op \in OfSpaces, c.op = "swap" => c.name = prev
      PROVE  Began(t, c, todo[t])
  BY <1>8, <1>0 DEF Began, Go, UseSpaces
<1>9. ASSUME AddSpace(t) \/ DeleteSpace(t) \/ SwitchSpace(t) \/ AliasSpace(t)
             \/ RenameSpace(t) \/ ForgetSpace(t) \/ UnsetSpace(t)
      PROVE  \E c, x : Began(t, c, x)
  <2>1. PICK c \in does : Enter(t, c) /\ c.op \in OfSpaces \ {"swap"} /\ UseSpaces(t, c)
    BY <1>9
    DEF AddSpace, DeleteSpace, SwitchSpace, AliasSpace, RenameSpace, ForgetSpace, UnsetSpace
  <2> QED
    BY <2>1, <1>8
<1>10. ASSUME SwapSpace(t) PROVE \E c, x : Began(t, c, x)
  <2>1. PICK d \in does : Enter(t, d) /\ UseSpaces(t, [op |-> "swap", name |-> prev])
    BY <1>10 DEF SwapSpace
  <2>2. [op |-> "swap", name |-> prev] \in Swaps
    BY DEF CInv, TypeOK, SpacesTypeOK
  <2> QED
    BY <2>1, <2>2, <1>8
<1> QED
  BY <1>1, <1>2, <1>3, <1>4, <1>5, <1>6, <1>7, <1>9, <1>10 DEF Entering

-----------------------------------------------------------------------------
(* The control of commands and goroutines                                  *)

\* The commands there can be, after a panic too.
Running == does \cup {NoCommand} \cup Swaps
           \cup [op : {"run"}, kind : Kind, names : SUBSET Name,
                 alias : {FALSE}, snap : BOOLEAN]

\* What a loop may have to do.
TodoSet == (SUBSET Name) \cup (SUBSET Kind) \cup SUBSET (Kind \X Name)

Control ==
    /\ cmd \in [Terminal -> Running]
    /\ at \in [Terminal -> {"idle", "loop", "gc", "threads", "write", "note", "create"}]
    /\ stage \in [Terminal -> [Thread -> Stage]]
    /\ todo \in [Terminal -> TodoSet]
    /\ kindVar \in [Terminal -> Kind \cup {Nil}]
    /\ \A t \in Terminal : at[t] = "idle" =>
          cmd[t] = NoCommand /\ \A i \in Thread : stage[t][i] = "off"
    /\ AtItsOwn /\ ThreadsAreItsOwn /\ TodoOK /\ does \subseteq Command

LEMMA ControlHolds == CInv => Control
BY DEF CInv, TypeOK, Control, Running, Swaps, BoundsOK, TodoSet

LEMMA TodoSets ==
    ASSUME NEW x, x \subseteq Name \/ x \subseteq Kind \/ x \subseteq Kind \X Name
    PROVE  x \in TodoSet
BY DEF TodoSet

\* The arguments of a command that runs.
LEMMA RunningArguments ==
    ASSUME Control, NEW t \in Terminal, NEW c, c = cmd[t]
    PROVE  /\ c.op = "run" => /\ c.kind \in Kind /\ c.names \subseteq Name
                              /\ c.alias \in BOOLEAN
           /\ c.op = "stop" => c.names \subseteq Name /\ c.kind \in Kind \cup {Nil}
           /\ c.op = "expose" => c.names \subseteq Name
           /\ c.op \in OnKinds => c.kinds \subseteq Kind
           /\ c.op = "setalias" => c.name \in Name /\ c.kind \in Kind \cup Name
           /\ c.op = "config" => c.value \in Setting
           /\ c.op = "add" => c.given \in Kube
           /\ c.op \in {"delete", "use", "forget", "swap", "unset"} => c.name \in Id \cup {NoId}
           /\ c.op \in {"rename", "alias"} => c.name \in Id /\ c.new \in Id
<1>1. CASE c \in does
  BY <1>1, Arguments DEF Control
<1>2. CASE c = NoCommand
  BY <1>2 DEF NoCommand, OnKinds
<1>3. CASE c \in Swaps
  BY <1>3 DEF Swaps, OnKinds
<1>4. CASE c \in [op : {"run"}, kind : Kind, names : SUBSET Name,
                  alias : {FALSE}, snap : BOOLEAN]
  BY <1>4 DEF OnKinds
<1> QED
  BY <1>1, <1>2, <1>3, <1>4 DEF Control, Running

LEMMA EnteringControls ==
    ASSUME Control, NEW t \in Terminal, NEW c, NEW x, Began(t, c, x)
    PROVE  Control'
<1>0. /\ c \in does \/ c \in Swaps
      /\ c.op = "run" => c.names \subseteq Name
      /\ c.op = "stop" => c.names \subseteq Name /\ c.kind \in Kind \cup {Nil}
      /\ c.op \in OnKinds => c.kinds \subseteq Kind
      /\ c.op \in OnConfig \cup Loops \cup {"run", "expose"} \cup OfSpaces
      /\ does' = does /\ c.op # "none"
  <2>1. CASE c \in does
    BY <2>1, Arguments DEF Began, Control, bounds
  <2>2. CASE c \in Swaps
    BY <2>2 DEF Swaps, OnKinds, Began
  <2> QED
    BY <2>1, <2>2 DEF Began
<1>1. /\ at' = [at EXCEPT ![t] = First(c)] /\ cmd' = [cmd EXCEPT ![t] = c]
      /\ stage' = Started(t, c) /\ todo' = [todo EXCEPT ![t] = x]
      /\ kindVar' = IF c.op = "stop" THEN [kindVar EXCEPT ![t] = c.kind] ELSE kindVar
      /\ \A i \in Thread : stage[t][i] = "off"
  BY DEF Began, Control
<1>2. /\ cmd' \in [Terminal -> Running]' /\ kindVar' \in [Terminal -> Kind \cup {Nil}]
      /\ does' \subseteq Command
  BY <1>0, <1>1 DEF Control, Running
<1>3. /\ First(c) \in {"loop", "threads", "write", "create"}
      /\ at' \in [Terminal -> {"idle", "loop", "gc", "threads", "write", "note", "create"}]
  BY <1>1 DEF Control, First
<1>4. /\ stage' \in [Terminal -> [Thread -> Stage]]
      /\ \A u \in Terminal \ {t} : stage'[u] = stage[u]
      /\ \A i \in Thread :
            \/ stage'[t][i] = "off"
            \/ c.op \in OnConfig /\ i = Main /\ stage'[t][i] = "copy"
            \/ c.op = "run" /\ i \in c.names /\ stage'[t][i] = "rm"
  BY <1>1 DEF Started, Threads, Control, Stage
<1>5. /\ todo' \in [Terminal -> TodoSet]
      /\ TodoOK'
  <2>2. Tasks(t, c, x)
    BY DEF Began
  <2>1. x \in TodoSet
    <3>1. CASE c.op \in Loops
      BY <3>1, <1>0, <2>2, TodoSets DEF Tasks, Loops
    <3>2. CASE c.op = "discover"
      BY <3>2, <2>2, TodoSets DEF Tasks
    <3>3. CASE c.op \notin Loops \cup {"discover"}
      BY <3>3, <2>2 DEF Tasks, Control
    <3> QED
      BY <3>1, <3>2, <3>3
  <2>3. Within(c, x)
    BY <2>2 DEF Tasks, Within
  <2>4. cmd'[t] = c /\ todo'[t] = x
    BY <1>1 DEF Control
  <2> QED
    BY <1>1, <2>1, <2>3, <2>4 DEF Control, TodoOK
<1>6. AtItsOwn'
  BY <1>0, <1>1 DEF AtItsOwn, Control, First, Loops, OnConfig, OnKinds, OfSpaces
<1>7. ThreadsAreItsOwn'
  BY <1>0, <1>1, <1>4 DEF ThreadsAreItsOwn, Control, InHome, InDir
<1>8. \A u \in Terminal : at'[u] = "idle" =>
          cmd'[u] = NoCommand /\ \A i \in Thread : stage'[u][i] = "off"
  BY <1>1, <1>3, <1>4 DEF Control
<1> QED
  BY <1>2, <1>3, <1>4, <1>5, <1>6, <1>7, <1>8 DEF Control

\* A goroutine moves on, and its command does not.
Advances(t, i, s) ==
    /\ stage' = [stage EXCEPT ![t][i] = s]
    /\ UNCHANGED <<cmd, at, todo, kindVar, does>>

\* What a goroutine of command c may be at.
MayBeAt(c, v, i, s) ==
    /\ s \in {"copy"} \cup InHome =>
          \/ c.op \in OnConfig /\ i = Main
          \/ c.op = "run" /\ i \in c.names
    /\ s \in {"rm"} \cup InDir =>
          \/ c.op = "run" /\ i \in c.names /\ s # "image"
          \/ c.op = "build" /\ i = Main /\ v \in Kind /\ s \in {"rm", "sync", "image"}
    /\ s \in {"spawned", "delete", "wait"} =>
          c.op = "stop" /\ i \in c.names /\ v \in Kind

LEMMA AdvanceControls ==
    ASSUME Control, NEW t \in Terminal, NEW i \in Thread, NEW s \in Stage,
           at[t] # "idle", Advances(t, i, s), MayBeAt(cmd[t], kindVar[t], i, s)
    PROVE  Control'
<1>1. /\ stage' \in [Terminal -> [Thread -> Stage]] /\ stage'[t][i] = s
      /\ \A u \in Terminal, j \in Thread : <<u, j>> # <<t, i>> => stage'[u][j] = stage[u][j]
  BY DEF Advances, Control
<1>2. ThreadsAreItsOwn'
  <2>1. ASSUME NEW u \in Terminal, NEW j \in Thread
        PROVE  MayBeAt(cmd[u], kindVar[u], j, stage'[u][j])
    <3>1. CASE <<u, j>> = <<t, i>>
      BY <3>1, <1>1
    <3>2. CASE <<u, j>> # <<t, i>>
      BY <3>2, <1>1 DEF Control, ThreadsAreItsOwn, MayBeAt
    <3> QED
      BY <3>1, <3>2
  <2> QED
    BY <2>1 DEF ThreadsAreItsOwn, MayBeAt, Advances
<1>3. AtItsOwn' /\ TodoOK'
  BY DEF Advances, Control, AtItsOwn, TodoOK
<1>4. \A u \in Terminal : at'[u] = "idle" =>
          cmd'[u] = NoCommand /\ \A j \in Thread : stage'[u][j] = "off"
  BY <1>1 DEF Advances, Control
<1> QED
  BY <1>1, <1>2, <1>3, <1>4 DEF Control, Running, Advances

\* A goroutine at work is its command's, which goes on.
LEMMA AtWork ==
    ASSUME Control, NEW t \in Terminal, NEW i \in Thread, stage[t][i] # "off"
    PROVE  at[t] # "idle" /\ MayBeAt(cmd[t], kindVar[t], i, stage[t][i])
BY DEF Control, ThreadsAreItsOwn, MayBeAt

LEMMA MakeControls ==
    ASSUME Control, NEW t \in Terminal, InMake(t)
    PROVE  Control'
<1> DEFINE Step(i, from, to) ==
      /\ stage[t][i] = from /\ Advances(t, i, to) /\ to \in Stage
      /\ MayBeAt(cmd[t], kindVar[t], i, to)
<1>1. ASSUME NEW i \in Thread, MakeDir(t, i) PROVE Step(i, "rm", "sync")
  BY <1>1, AtWork DEF MakeDir, Making, Move, Advances, bounds, MayBeAt, InDir, InHome, Stage
<1>2. ASSUME NEW n \in Name, MakeReady(t, n) PROVE Step(n, "sync", "template")
  BY <1>2, AtWork
  DEF MakeReady, Making, Move, Advances, bounds, MayBeAt, InDir, InHome, Stage, Thread
<1>3. ASSUME NEW n \in Name, MakeTemplate(t, n)
      PROVE  Step(n, "template", "apply") \/ Step(n, "template", "clean")
  BY <1>3, AtWork
  DEF MakeTemplate, Making, Move, Advances, bounds, MayBeAt, InDir, InHome, Stage, Thread
<1>4. ASSUME NEW n \in Name, MakeApply(t, n) PROVE Step(n, "apply", "clean")
  BY <1>4, AtWork
  DEF MakeApply, Making, Move, Advances, bounds, MayBeAt, InDir, InHome, Stage, Thread
<1>5. ASSUME NEW n \in Name, MakeClean(t, n)
      PROVE  Step(n, "clean", "copy") \/ Step(n, "clean", "off")
  BY <1>5, AtWork
  DEF MakeClean, Making, Move, Advances, bounds, MayBeAt, InDir, InHome, Stage, Thread
<1>6. ASSUME BuildReady(t) PROVE Step(Main, "sync", "image")
  BY <1>6, AtWork
  DEF BuildReady, Making, Move, Advances, bounds, MayBeAt, InDir, InHome, Stage, Thread
<1>7. ASSUME BuildImage(t) PROVE Step(Main, "image", "off")
  BY <1>7, AtWork
  DEF BuildImage, Making, Move, Advances, bounds, MayBeAt, InDir, InHome, Stage, Thread
<1>8. \E i \in Thread : \E from, to : from # "off" /\ Step(i, from, to)
  BY <1>1, <1>2, <1>3, <1>4, <1>5, <1>6, <1>7 DEF InMake, Thread
<1> QED
  BY <1>8, AdvanceControls, AtWork

LEMMA FileControls ==
    ASSUME Control, NEW t \in Terminal, OnFile(t)
    PROVE  Control'
<1> USE DEF InThread, bounds, Move, Advances, MayBeAt, InDir, InHome, Stage, Thread
<1>1. PICK i \in Thread : CopyConfig(t, i) \/ SetConfig(t, i) \/ OpenConfig(t, i) \/ FillConfig(t, i)
  BY DEF OnFile
<1>2. CASE CopyConfig(t, i)
  <2>1. stage[t][i] = "copy" /\ Advances(t, i, "set")
    BY <1>2 DEF CopyConfig, Copy
  <2> QED
    BY <2>1, AtWork, AdvanceControls
<1>3. CASE OpenConfig(t, i)
  <2>1. stage[t][i] = "open" /\ Advances(t, i, "fill")
    BY <1>3 DEF OpenConfig, Open
  <2> QED
    BY <2>1, AtWork, AdvanceControls
<1>4. CASE FillConfig(t, i)
  <2>1. PICK s \in {"copy", "off"} : stage[t][i] = "fill" /\ Advances(t, i, s)
    BY <1>4 DEF FillConfig, Fill
  <2> QED
    BY <2>1, AtWork, AdvanceControls
<1>5. CASE SetConfig(t, i)
  <2>1. /\ stage[t][i] = "set" /\ stage' = [stage EXCEPT ![t][i] = "open"]
        /\ UNCHANGED <<cmd, at, kindVar, does>>
    BY <1>5 DEF SetConfig, Set
  <2>2. CASE UNCHANGED todo
    BY <2>1, <2>2, AtWork, AdvanceControls
  <2>3. CASE /\ cmd[t].op = "discover"
             /\ \E x \in todo[t] : todo' = [todo EXCEPT ![t] = @ \ {x}]
    <3>1. PICK x : todo' = [todo EXCEPT ![t] = @ \ {x}]
      BY <2>3
    <3>2. todo[t] \subseteq Kind \X Name
      BY <2>3 DEF Control, TodoOK, Within
    <3>3. /\ todo[t] \ {x} \in TodoSet /\ todo'[t] \subseteq todo[t]
          /\ \A u \in Terminal \ {t} : todo'[u] = todo[u]
      BY <3>1, <3>2, TodoSets DEF Control
    <3>4. todo' \in [Terminal -> TodoSet]
      BY <3>1, <3>3 DEF Control
    <3>5. TodoOK'
      BY <2>1, <3>2, <3>3, <2>3 DEF Control, TodoOK, Within, OnKinds
    <3>6. /\ stage' \in [Terminal -> [Thread -> Stage]] /\ stage'[t][i] = "open"
          /\ \A u \in Terminal, j \in Thread : <<u, j>> # <<t, i>> => stage'[u][j] = stage[u][j]
      BY <2>1 DEF Control
    <3>7. ThreadsAreItsOwn' /\ AtItsOwn'
      BY <2>1, <3>6 DEF Control, ThreadsAreItsOwn, AtItsOwn
    <3>8. at[t] # "idle"
      BY <2>1, AtWork
    <3>9. \A u \in Terminal : at'[u] = "idle" =>
              cmd'[u] = NoCommand /\ \A j \in Thread : stage'[u][j] = "off"
      BY <2>1, <3>6, <3>8 DEF Control
    <3>10. Running' = Running /\ cmd' = cmd /\ at' = at /\ kindVar' = kindVar /\ does' = does
      BY <2>1 DEF Running
    <3> HIDE DEF InThread, bounds, Move, Advances, MayBeAt, InDir, InHome, Stage, Thread
    <3> QED
      BY <3>10, <3>4, <3>5, <3>6, <3>7, <3>9 DEF Control, TodoSet
  <2> QED
    BY <1>5, <2>2, <2>3 DEF SetConfig
<1> QED
  BY <1>1, <1>2, <1>3, <1>4, <1>5

LEMMA StopControls ==
    ASSUME Control, NEW t \in Terminal, NEW n \in Name,
           \/ StopMake(t, n) \/ StopMakeFails(t, n)
           \/ StopDelete(t, n) \/ StopDeleteFails(t, n)
           \/ \E o \in Object : StopLate(t, o, n) \/ StopLateFails(t, o, n)
    PROVE  Control'
<1> USE DEF bounds, Move, Advances, MayBeAt, InDir, InHome, Stage, Thread
<1>1. CASE StopMake(t, n) \/ StopMakeFails(t, n)
  <2>1. stage[t][n] = "spawned" /\ Advances(t, n, "delete")
    BY <1>1 DEF StopMake, StopMakeFails, Halting
  <2> QED
    BY <2>1, AtWork, AdvanceControls
<1>2. CASE StopDelete(t, n) \/ StopDeleteFails(t, n)
  <2>1. PICK s \in {"wait", "off"} : stage[t][n] = "delete" /\ Advances(t, n, s)
    BY <1>2 DEF StopDelete, StopDeleteFails, Halting
  <2> QED
    BY <2>1, AtWork, AdvanceControls
<1>3. ASSUME NEW o \in Object, LateEnds(t, o, n) PROVE Control'
  <2>1. CASE stage[t][n] = "wait" /\ Advances(t, n, "off")
    BY <2>1, AtWork, AdvanceControls
  <2>2. CASE UNCHANGED <<cmd, at, stage, todo, kindVar, does>>
    BY <2>2 DEF Control, Running, AtItsOwn, ThreadsAreItsOwn, TodoOK
  <2> QED
    BY <1>3, <2>1, <2>2 DEF LateEnds
<1> QED
  BY <1>1, <1>2, <1>3 DEF StopLate, StopLateFails

\* What fails goes on as what works.
LEMMA FaultControls ==
    ASSUME Control, NEW t \in Terminal, Stopping(t) \/ Faulty(t)
    PROVE  Control'
<1> DEFINE Step(i, from, to) ==
      /\ stage[t][i] = from /\ Advances(t, i, to) /\ to \in Stage
      /\ MayBeAt(cmd[t], kindVar[t], i, to)
<1>1. ASSUME NEW n \in Name, MakeReadyFails(t, n) PROVE Step(n, "sync", "template")
  BY <1>1, AtWork
  DEF MakeReadyFails, Making, Move, Advances, bounds, MayBeAt, InDir, InHome, Stage, Thread
<1>2. ASSUME NEW n \in Name, MakeTemplateFails(t, n) PROVE Step(n, "template", "apply")
  BY <1>2, AtWork
  DEF MakeTemplateFails, Making, Move, Advances, bounds, MayBeAt, InDir, InHome, Stage, Thread
<1>3. ASSUME NEW n \in Name, MakeApplyFails(t, n) PROVE Step(n, "apply", "clean")
  BY <1>3, AtWork
  DEF MakeApplyFails, Making, Move, Advances, bounds, MayBeAt, InDir, InHome, Stage, Thread
<1>4. ASSUME BuildReadyFails(t) PROVE Step(Main, "sync", "image")
  BY <1>4, AtWork
  DEF BuildReadyFails, Making, Move, Advances, bounds, MayBeAt, InDir, InHome, Stage, Thread
<1>5. ASSUME BuildImageFails(t) PROVE Step(Main, "image", "off")
  BY <1>5, AtWork
  DEF BuildImageFails, Making, Move, Advances, bounds, MayBeAt, InDir, InHome, Stage, Thread
<1>6. CASE \E i \in Thread : \E from, to : from # "off" /\ Step(i, from, to)
  BY <1>6, AdvanceControls, AtWork
<1> HIDE DEF Step
<1>7. ASSUME NEW i, NEW from, NEW to, i \in Thread, from # "off", Step(i, from, to) PROVE Control'
  BY <1>6, <1>7
<1>8. "sync" # "off" /\ "template" # "off" /\ "apply" # "off" /\ "image" # "off"
  OBVIOUS
<1>9. Main \in Thread /\ Name \subseteq Thread
  BY DEF Thread
<1> QED
  BY <1>1, <1>2, <1>3, <1>4, <1>5, <1>7, <1>8, <1>9, StopControls DEF Stopping, Faulty

\* A loop takes its next turn: less is to be done, and goroutines may have
\* started or ended.
Turns(t, a, T, v) ==
    /\ at' = [at EXCEPT ![t] = a] /\ todo' = [todo EXCEPT ![t] = T]
    /\ kindVar' = [kindVar EXCEPT ![t] = v] /\ UNCHANGED <<cmd, does>>
    /\ T \subseteq todo[t] /\ v \in {kindVar[t]} \cup Kind
    /\ a \in {"loop", "threads", "gc"} /\ cmd[t].op \in Loops
    /\ a = "gc" => cmd[t].op = "gc"

LEMMA TurnControls ==
    ASSUME Control, NEW t \in Terminal, NEW a, NEW T, NEW v, Turns(t, a, T, v),
           stage' \in [Terminal -> [Thread -> Stage]], at[t] # "idle",
           \A u \in Terminal, j \in Thread :
              \/ stage'[u][j] \in {stage[u][j], "off"}
              \/ u = t /\ MayBeAt(cmd[t], v, j, stage'[t][j])
    PROVE  Control'
<1>1. /\ at' \in [Terminal -> {"idle", "loop", "gc", "threads", "write", "note", "create"}]
      /\ kindVar' \in [Terminal -> Kind \cup {Nil}] /\ cmd' = cmd /\ does' = does
      /\ Running' = Running
  BY DEF Turns, Control, Running
<1>2. T \in TodoSet /\ Within(cmd[t], T)
  <2>1. Within(cmd[t], todo[t])
    BY DEF Control, TodoOK
  <2>2. Within(cmd[t], T)
    BY <2>1 DEF Within, Turns
  <2>3. T \subseteq Name \/ T \subseteq Kind
    BY <2>2, RunningArguments DEF Within, Turns, Loops
  <2> QED
    BY <2>2, <2>3, TodoSets
<1>3. todo' \in [Terminal -> TodoSet]
  BY <1>2 DEF Turns, Control
<1>4. TodoOK'
  <2>1. ASSUME NEW u \in Terminal PROVE Within(cmd'[u], todo'[u])
    <3>1. CASE u = t
      BY <3>1, <1>1, <1>2 DEF Turns, Control
    <3>2. CASE u # t
      <4>1. todo'[u] = todo[u]
        BY <3>2 DEF Turns, Control
      <4> QED
        BY <4>1, <1>1 DEF Control, TodoOK
    <3> QED
      BY <3>1, <3>2
  <2> QED
    BY <2>1 DEF TodoOK, Within
<1>5. AtItsOwn'
  BY DEF AtItsOwn, Control, Turns
<1>6. ThreadsAreItsOwn'
  <2>1. ASSUME NEW u \in Terminal, NEW j \in Thread
        PROVE  MayBeAt(cmd[u], kindVar'[u], j, stage'[u][j])
    <3>1. CASE stage'[u][j] = "off"
      BY <3>1 DEF MayBeAt, InHome, InDir
    <3>2. CASE u = t /\ MayBeAt(cmd[t], v, j, stage'[t][j])
      BY <3>2 DEF Turns, Control
    <3>3. CASE stage'[u][j] = stage[u][j]
      <4>1. MayBeAt(cmd[u], kindVar[u], j, stage[u][j])
        BY DEF Control, ThreadsAreItsOwn, MayBeAt
      <4>2. kindVar'[u] = kindVar[u] \/ kindVar'[u] \in Kind
        BY DEF Turns, Control
      <4> QED
        BY <3>3, <4>1, <4>2 DEF MayBeAt
    <3> QED
      BY <3>1, <3>2, <3>3
  <2> QED
    BY <2>1 DEF ThreadsAreItsOwn, MayBeAt, Turns
<1>7. \A u \in Terminal : at'[u] = "idle" =>
          cmd'[u] = NoCommand /\ \A j \in Thread : stage'[u][j] = "off"
  <2> SUFFICES ASSUME NEW u \in Terminal, at'[u] = "idle"
               PROVE  cmd'[u] = NoCommand /\ \A j \in Thread : stage'[u][j] = "off"
    OBVIOUS
  <2>1. u # t /\ at[u] = "idle"
    BY DEF Turns, Control
  <2> QED
    BY <2>1, <1>1 DEF Control
<1> HIDE DEF Turns
<1> QED
  BY <1>1, <1>3, <1>4, <1>5, <1>6, <1>7 DEF Control, Turns

LEMMA LoopControls ==
    ASSUME Control, mem \in [Terminal -> Config], NEW t \in Terminal, Looping(t)
    PROVE  Control'
<1>0. /\ kindVar = [kindVar EXCEPT ![t] = kindVar[t]] /\ todo = [todo EXCEPT ![t] = todo[t]]
      /\ stage \in [Terminal -> [Thread -> Stage]]
  BY DEF Control
<1>1. CASE BuildNext(t)
  <2>1. PICK k \in todo[t] : kindVar' = [kindVar EXCEPT ![t] = k]
                             /\ todo' = [todo EXCEPT ![t] = @ \ {k}] /\ OnOr(t, todo[t] \ {k})
    BY <1>1 DEF BuildNext
  <2>2. k \in Kind /\ cmd[t].op = "build"
    BY <1>1, RunningArguments DEF BuildNext, Control, TodoOK, Within, OnKinds
  <2>3. \E a : Turns(t, a, todo[t] \ {k}, k)
    BY <1>1, <2>1, <2>2 DEF Turns, BuildNext, OnOr, Go, bounds, Loops, OnKinds
  <2>4. stage' = [stage EXCEPT ![t][Main] = "rm"] /\ "rm" \in Stage /\ Main \in Thread /\ at[t] # "idle"
    BY <1>1 DEF BuildNext, Move, Stage, Thread
  <2>5. MayBeAt(cmd[t], k, Main, "rm")
    BY <2>2 DEF MayBeAt, InHome, InDir
  <2>6. stage' \in [Terminal -> [Thread -> Stage]]
    BY <2>4, <1>0
  <2>7. \A u \in Terminal, j \in Thread :
           stage'[u][j] = stage[u][j] \/ (u = t /\ j = Main /\ stage'[t][j] = "rm")
    BY <2>4, <1>0
  <2> QED
    BY <2>3, <2>4, <2>5, <2>6, <2>7, TurnControls
<1>2. CASE BuildUnknown(t)
  <2>1. Turns(t, "threads", {}, kindVar[t]) /\ stage' = stage /\ at[t] # "idle"
    BY <1>0, <1>2 DEF Turns, BuildUnknown, Go, bounds, Loops, OnKinds
  <2> QED
    BY <1>0, <2>1, TurnControls
<1>3. CASE StopNext(t)
  <2>1. PICK n \in todo[t] :
           /\ StopKind(t, n) # Nil /\ kindVar' = [kindVar EXCEPT ![t] = StopKind(t, n)]
           /\ todo' = [todo EXCEPT ![t] = @ \ {n}] /\ Move(t, n, "spawned")
           /\ OnOr(t, todo[t] \ {n})
    BY <1>3 DEF StopNext
  <2>2. cmd[t].op = "stop" /\ n \in cmd[t].names /\ n \in Name /\ kindVar'[t] = StopKind(t, n)
    BY <1>3, <2>1, RunningArguments DEF StopNext, Control, TodoOK, Within
  <2>3. StopKind(t, n) \in Kind
    <3>1. cmd[t].kind \in Kind \cup {Nil} /\ mem[t].alias[n] \in Kind \cup {Nil}
      BY <2>2, RunningArguments DEF Config
    <3> QED
      BY <2>1, <3>1 DEF StopKind, Resolve
  <2>4. \E a : Turns(t, a, todo[t] \ {n}, StopKind(t, n))
    BY <1>3, <2>1, <2>2, <2>3 DEF Turns, StopNext, OnOr, Go, bounds, Loops
  <2>5. stage' = [stage EXCEPT ![t][n] = "spawned"] /\ "spawned" \in Stage /\ n \in Thread /\ at[t] # "idle"
    BY <1>3, <2>1, <2>2 DEF StopNext, Move, Stage, Thread
  <2>6. MayBeAt(cmd[t], StopKind(t, n), n, "spawned")
    BY <2>2, <2>3 DEF MayBeAt, InHome, InDir
  <2>7. stage' \in [Terminal -> [Thread -> Stage]]
    BY <2>5, <1>0
  <2>8. \A u \in Terminal, j \in Thread :
           stage'[u][j] = stage[u][j] \/ (u = t /\ j = n /\ stage'[t][j] = "spawned")
    BY <2>5, <1>0
  <2> QED
    BY <2>4, <2>5, <2>6, <2>7, <2>8, TurnControls
<1>4. CASE StopUnknown(t)
  <2>1. /\ Turns(t, "threads", {}, kindVar[t]) /\ at[t] # "idle"
        /\ stage' = [stage EXCEPT ![t] = [i \in Thread |->
                        IF stage[t][i] = "spawned" THEN "off" ELSE stage[t][i]]]
    BY <1>0, <1>4 DEF Turns, StopUnknown, Go, bounds, Loops
  <2>2. /\ stage' \in [Terminal -> [Thread -> Stage]]
        /\ \A u \in Terminal, j \in Thread : stage'[u][j] \in {stage[u][j], "off"}
    BY <1>0, <2>1 DEF Stage
  <2> QED
    BY <2>1, <2>2, TurnControls
<1>5. CASE GcDelete(t)
  <2>1. (\E a : Turns(t, a, todo[t], kindVar[t])) /\ stage' = stage /\ at[t] # "idle"
    BY <1>0, <1>5 DEF Turns, GcDelete, OnOr, Go, bounds, Loops, Control, AtItsOwn
  <2> QED
    BY <1>0, <2>1, TurnControls
<1>6. ASSUME NEW k \in Kind, Rmk(t, k) \/ Push(t, k) \/ Pull(t, k) \/ PullGit(t, k)
      PROVE  Control'
  <2>1. /\ Taken(t, k) /\ at[t] = "loop" /\ cmd[t].op \in OnKinds
        /\ UNCHANGED <<cmd, stage, kindVar, does>>
    BY <1>6 DEF Rmk, Push, Pull, PullGit, ForNext, OnKinds, bounds
  <2>2. PICK a \in {"loop", "threads"} : at' = [at EXCEPT ![t] = a]
    BY <2>1 DEF Taken, OnOr, Go
  <2>3. /\ todo' = [todo EXCEPT ![t] = todo[t] \ {k}]
        /\ kindVar' = [kindVar EXCEPT ![t] = kindVar[t]]
    BY <1>0, <2>1 DEF Taken
  <2>4. Turns(t, a, todo[t] \ {k}, kindVar[t])
    BY <2>1, <2>2, <2>3 DEF Turns, Loops
  <2>5. stage' = stage /\ at[t] # "idle"
    BY <2>1
  <2> QED
    BY <1>0, <2>4, <2>5, TurnControls
<1>8. ASSUME NEW k \in Kind, GcCountFails(t, k) PROVE Control'
  <2>1. Turns(t, "gc", todo[t] \ {k}, k) /\ stage' = stage /\ at[t] # "idle"
    BY <1>8 DEF GcCountFails, Turns, Go, bounds, Loops
  <2> QED
    BY <1>0, <2>1, TurnControls
<1>7. ASSUME NEW k \in Kind, GcCount(t, k) PROVE Control'
  <2>1. (\E a, v : Turns(t, a, todo[t] \ {k}, v)) /\ stage' = stage /\ at[t] # "idle"
    <3>1. /\ todo' = [todo EXCEPT ![t] = todo[t] \ {k}] /\ at[t] = "loop" /\ cmd[t].op = "gc"
          /\ UNCHANGED <<cmd, stage, does>>
      BY <1>7 DEF GcCount, ForNext, bounds
    <3>2. CASE OnOr(t, todo[t] \ {k}) /\ UNCHANGED kindVar
      <4>1. \E a : Turns(t, a, todo[t] \ {k}, kindVar[t])
        BY <1>0, <3>1, <3>2 DEF Turns, OnOr, Go, Loops
      <4> QED
        BY <3>1, <4>1
    <3>3. CASE Go(t, "gc") /\ kindVar' = [kindVar EXCEPT ![t] = k]
      <4>1. Turns(t, "gc", todo[t] \ {k}, k)
        BY <3>1, <3>3 DEF Turns, Go, Loops
      <4> QED
        BY <3>1, <4>1
    <3> QED
      BY <1>7, <3>2, <3>3 DEF GcCount
  <2> QED
    BY <1>0, <2>1, TurnControls
<1> QED
  BY <1>1, <1>2, <1>3, <1>4, <1>5, <1>6, <1>7, <1>8 DEF Looping

\* A command that has ended, whose goroutines have: what is left of it.
LEMMA ExitControls ==
    ASSUME Control, NEW t \in Terminal, Exit(t), UNCHANGED does,
           stage' = stage \/ stage' = [stage EXCEPT ![t] = NoThreads],
           \A i \in Thread : stage'[t][i] = "off"
    PROVE  Control'
<1>1. /\ cmd' = [cmd EXCEPT ![t] = NoCommand] /\ at' = [at EXCEPT ![t] = "idle"]
      /\ todo' = [todo EXCEPT ![t] = {}] /\ kindVar' = [kindVar EXCEPT ![t] = Nil]
      /\ does' = does /\ Running' = Running /\ NoCommand \in Running /\ {} \in TodoSet
  BY DEF Exit, Go, Running, TodoSet
<1>2. /\ cmd' \in [Terminal -> Running] /\ todo' \in [Terminal -> TodoSet]
      /\ kindVar' \in [Terminal -> Kind \cup {Nil}]
      /\ at' \in [Terminal -> {"idle", "loop", "gc", "threads", "write", "note", "create"}]
  BY <1>1 DEF Control
<1>3. /\ stage' \in [Terminal -> [Thread -> Stage]]
      /\ \A u \in Terminal \ {t} : stage'[u] = stage[u]
  BY DEF Control, NoThreads, Stage
<1>4. TodoOK'
  BY <1>1 DEF Control, TodoOK, Within, NoCommand
<1>5. AtItsOwn'
  BY <1>1 DEF Control, AtItsOwn
<1>6. ThreadsAreItsOwn'
  <2>1. ASSUME NEW u \in Terminal, NEW j \in Thread
        PROVE  MayBeAt(cmd'[u], kindVar'[u], j, stage'[u][j])
    <3>1. CASE u = t
      BY <3>1 DEF MayBeAt, InHome, InDir
    <3>2. CASE u # t
      <4>1. cmd'[u] = cmd[u] /\ kindVar'[u] = kindVar[u] /\ stage'[u][j] = stage[u][j]
        BY <3>2, <1>1, <1>3 DEF Control
      <4>2. MayBeAt(cmd[u], kindVar[u], j, stage[u][j])
        BY DEF Control, ThreadsAreItsOwn, MayBeAt
      <4> QED
        BY <4>1, <4>2
    <3> QED
      BY <3>1, <3>2
  <2> QED
    BY <2>1 DEF ThreadsAreItsOwn, MayBeAt
<1>7. \A u \in Terminal : at'[u] = "idle" =>
          cmd'[u] = NoCommand /\ \A j \in Thread : stage'[u][j] = "off"
  BY <1>1, <1>3 DEF Control
<1> QED
  BY <1>1, <1>2, <1>3, <1>4, <1>5, <1>6, <1>7 DEF Control

\* Two goroutines are at the configuration in digi run alone.
LEMMA PanicIsInRun ==
    ASSUME Control, NEW t \in Terminal, Panic(t) PROVE cmd[t].op = "run"
<1> DEFINE S == {i \in Thread : stage[t][i] \in {"copy"} \cup InHome /\ stage[t][i] # "fill"}
<1>1. Cardinality(S) > 1
  <2>1. S = {i \in {j \in Thread : stage[t][j] \in {"copy"} \cup InHome} : stage[t][i] # "fill"}
    OBVIOUS
  <2> QED
    BY <2>1 DEF Panic
<1>2. SUFFICES ASSUME cmd[t].op # "run" PROVE FALSE
  OBVIOUS
<1>3. S \subseteq {Main}
  BY <1>2 DEF Control, ThreadsAreItsOwn
<1>4. Cardinality(S) \in {0, 1}
  BY <1>3, FS_EmptySet, FS_Singleton, S = {} \/ S = {Main}
<1> QED
  BY <1>1, <1>4

LEMMA EndControls ==
    ASSUME Control, NEW t \in Terminal, Ending(t)
    PROVE  Control'
<1>1. ASSUME at[t] \in {"write", "note", "create"} PROVE \A i \in Thread : stage[t][i] = "off"
  <2> SUFFICES ASSUME NEW i \in Thread, stage[t][i] # "off" PROVE FALSE
    OBVIOUS
  <2>1. stage[t][i] \in Stage
    BY DEF Control
  <2>2. cmd[t].op \in OnConfig \cup {"run", "build", "stop"}
    BY <2>1 DEF Control, ThreadsAreItsOwn, Stage
  <2> QED
    BY <1>1, <2>2 DEF Control, AtItsOwn, OfSpaces, OnConfig
<1>2. CASE ExposeCreate(t)
  BY <1>1, <1>2, ExitControls DEF ExposeCreate, bounds
<1>3. CASE Note(t)
  BY <1>1, <1>3, ExitControls DEF Note, bounds
<1>4. CASE Return(t)
  BY <1>4, ExitControls DEF Return, bounds
<1>5. CASE Kill(t)
  <2>1. stage' = [stage EXCEPT ![t] = NoThreads] /\ Exit(t) /\ UNCHANGED does
    BY <1>5 DEF Kill
  <2>2. \A i \in Thread : stage'[t][i] = "off"
    BY <2>1 DEF NoThreads, Control
  <2> QED
    BY <2>1, <2>2, ExitControls
<1>6. CASE Write(t)
  <2>1. CASE Exit(t)
    BY <1>1, <1>6, <2>1, ExitControls DEF Write, bounds
  <2>2. CASE Go(t, "note") /\ UNCHANGED <<cmd, todo, kindVar>>
    <3>1. /\ at' = [at EXCEPT ![t] = "note"] /\ UNCHANGED <<cmd, todo, kindVar, stage, does>>
          /\ at[t] = "write"
      BY <1>6, <2>2 DEF Go, Write, bounds
    <3>2. AtItsOwn'
      BY <3>1 DEF Control, AtItsOwn
    <3>3. ThreadsAreItsOwn' /\ TodoOK'
      BY <3>1 DEF Control, ThreadsAreItsOwn, TodoOK
    <3>4. \A u \in Terminal : at'[u] = "idle" =>
              cmd'[u] = NoCommand /\ \A j \in Thread : stage'[u][j] = "off"
      BY <3>1 DEF Control
    <3> QED
      BY <3>1, <3>2, <3>3, <3>4 DEF Control, Running
  <2> QED
    BY <1>6, <2>1, <2>2 DEF Write
<1>7. CASE Panic(t)
  <2>1. /\ cmd' = [cmd EXCEPT ![t].alias = FALSE] /\ UNCHANGED <<at, todo, kindVar, does>>
        /\ \A u \in Terminal, i \in Thread : stage'[u][i] \in {stage[u][i], "off"}
        /\ stage' \in [Terminal -> [Thread -> Stage]]
    BY <1>7 DEF Panic, bounds, Control, Stage
  <2>2. cmd[t].op = "run" /\ cmd[t] \in Running
    BY <1>7, PanicIsInRun DEF Control
  <2> DEFINE d == [cmd[t] EXCEPT !.alias = FALSE]
  <2>3. /\ d \in [op : {"run"}, kind : Kind, names : SUBSET Name, alias : {FALSE}, snap : BOOLEAN]
        /\ d.op = "run" /\ d.names = cmd[t].names
    <3>1. CASE cmd[t] \in Command
      <4>1. cmd[t] \in [op : {"run"}, kind : Kind, names : SUBSET Name, alias : BOOLEAN, snap : BOOLEAN]
        BY <2>2, <3>1 DEF Command
      <4> QED
        BY <4>1
    <3>2. CASE cmd[t] \notin Command
      <4>1. cmd[t] \in [op : {"run"}, kind : Kind, names : SUBSET Name,
                          alias : {FALSE}, snap : BOOLEAN]
        <5>1. cmd[t] # NoCommand /\ cmd[t] \notin Swaps /\ does \subseteq Command
          BY <2>2 DEF NoCommand, Swaps, Control
        <5> QED
          BY <2>2, <3>2, <5>1 DEF Running
      <4> QED
        BY <4>1
    <3> QED
      BY <3>1, <3>2
  <2>4. d \in Running
    BY <2>3 DEF Running
  <2>5. /\ cmd' \in [Terminal -> Running] /\ cmd'[t] = d
        /\ \A u \in Terminal \ {t} : cmd'[u] = cmd[u]
    BY <2>1, <2>4 DEF Control
  <2>6. AtItsOwn'
    BY <2>1, <2>2, <2>3, <2>5 DEF Control, AtItsOwn
  <2>7. TodoOK'
    BY <2>1, <2>3, <2>5 DEF Control, TodoOK, Within, OnKinds
  <2>8. ThreadsAreItsOwn'
    <3>1. ASSUME NEW u \in Terminal, NEW j \in Thread
          PROVE  MayBeAt(cmd'[u], kindVar[u], j, stage'[u][j])
      <4>1. CASE stage'[u][j] = "off"
        BY <4>1 DEF MayBeAt, InHome, InDir
      <4>2. CASE stage'[u][j] = stage[u][j]
        <5>1. MayBeAt(cmd[u], kindVar[u], j, stage[u][j])
          BY DEF Control, ThreadsAreItsOwn, MayBeAt
        <5>2. cmd'[u].op = cmd[u].op /\ (cmd[u].op \in {"run", "stop"} => cmd'[u].names = cmd[u].names)
          BY <2>2, <2>3, <2>5
        <5> QED
          BY <4>2, <5>1, <5>2 DEF MayBeAt
      <4> QED
        BY <2>1, <4>1, <4>2
    <3> QED
      BY <2>1, <3>1 DEF ThreadsAreItsOwn, MayBeAt
  <2>9. at[t] # "idle"
    BY <2>2 DEF Control, NoCommand
  <2>10. \A u \in Terminal : at'[u] = "idle" =>
            cmd'[u] = NoCommand /\ \A j \in Thread : stage'[u][j] = "off"
    BY <2>1, <2>5, <2>9 DEF Control
  <2>11. Running' = Running
    BY <2>1 DEF Running
  <2> HIDE DEF d
  <2> QED
    BY <2>1, <2>5, <2>6, <2>7, <2>8, <2>10, <2>11 DEF Control
<1> QED
  BY <1>2, <1>3, <1>4, <1>5, <1>6, <1>7 DEF Ending

LEMMA ControlStep ==
    ASSUME CInv, [Next]_vars
    PROVE  Control'
<1>1. Control /\ mem \in [Terminal -> Config]
  BY ControlHolds DEF CInv, TypeOK, HomeTypeOK
<1>2. CASE UNCHANGED vars
  <2>1. UNCHANGED <<cmd, at, stage, todo, kindVar, does>>
    BY <1>2 DEF vars, threads, bounds
  <2>2. AtItsOwn' /\ ThreadsAreItsOwn' /\ TodoOK'
    BY <1>1, <2>1 DEF Control, AtItsOwn, ThreadsAreItsOwn, TodoOK
  <2>3. Running' = Running /\ cmd' = cmd /\ at' = at /\ stage' = stage
    BY <2>1 DEF Running
  <2>4. \A u \in Terminal : at'[u] = "idle" =>
            cmd'[u] = NoCommand /\ \A j \in Thread : stage'[u][j] = "off"
    BY <1>1, <2>3 DEF Control
  <2> QED
    BY <1>1, <2>1, <2>2, <2>3, <2>4 DEF Control, TodoSet
<1>3. ASSUME NEW t \in Terminal, Entering(t) PROVE Control'
  BY <1>1, <1>3, Beginning, EnteringControls
<1> QED
  BY <1>1, <1>2, <1>3, Groups, LoopControls, MakeControls, FaultControls, FileControls, EndControls

-----------------------------------------------------------------------------
(* The files and the spaces                                                *)

\* A change of a configuration makes a configuration of it.
LEMMA EditedTypes ==
    ASSUME Control, mem \in [Terminal -> Config], NEW t \in Terminal, NEW i \in Thread,
           stage[t][i] = "set", NEW f \in Config, NEW x,
           cmd[t].op = "discover" => x \in todo[t]
    PROVE  Edited(f, t, i, x) \in Config
<1> DEFINE c == cmd[t]
<1>0. c.op \in OnConfig \/ (c.op = "run" /\ i \in c.names)
  BY DEF Control, ThreadsAreItsOwn, InHome
<1>1. CASE c.op = "run"
  <2>1. i \in Name /\ c.kind \in Kind
    BY <1>0, <1>1, RunningArguments DEF OnConfig
  <2> QED
    BY <1>1, <2>1 DEF Edited, WithAlias, Config
<1>2. CASE c.op = "setalias"
  <2>1. c.name \in Name /\ c.kind \in Kind \cup Name
    BY <1>2, RunningArguments
  <2>2. ParseAuri(mem[t], c.kind) \in Kind \cup {Nil}
    BY <2>1 DEF ParseAuri, Resolve, Config
  <2> QED
    BY <1>2, <2>1, <2>2 DEF Edited, WithAlias, Config
<1>3. CASE c.op = "config"
  <2>1. c.value \in Setting
    BY <1>3, RunningArguments
  <2> QED
    BY <1>3, <2>1 DEF Edited, WithSetting, Config
<1>4. CASE c.op = "clear"
  <2>1. Edited(f, t, i, x) = Cleared(f, c.section)
    BY <1>4 DEF Edited
  <2> QED
    BY <2>1 DEF Cleared, NoConfig, Config
<1>5. CASE c.op = "discover"
  <2>1. x \in Kind \X Name
    BY <1>5 DEF Control, TodoOK, Within
  <2> QED
    BY <1>5, <2>1 DEF Edited, WithAlias, Config
<1> QED
  BY <1>0, <1>1, <1>2, <1>3, <1>4, <1>5 DEF OnConfig

\* The steps that leave ~/.digi/config and what is known of it alone.
LEMMA HomeIsLeft ==
    ASSUME NEW t \in Terminal, Looping(t) \/ InMake(t) \/ Stopping(t) \/ Faulty(t)
                               \/ ExposeCreate(t) \/ Write(t) \/ Note(t) \/ Return(t)
    PROVE  UNCHANGED home
BY DEF Looping, InMake, Stopping, BuildNext, BuildUnknown, StopNext, StopUnknown, GcDelete,
       Rmk, Push, Pull, PullGit, GcCount, GcCountFails, ForNext, BuildReady, BuildImage, MakeDir, MakeReady,
       MakeTemplate, MakeApply, MakeClean, Making, StopMake, StopDelete, StopLate, Halting, LateEnds,
       Faulty, BuildReadyFails, BuildImageFails, MakeReadyFails, MakeTemplateFails,
       MakeApplyFails, StopMakeFails, StopDeleteFails, StopLateFails,
       ExposeCreate, Write, Note, Return

LEMMA HomeTypes ==
    ASSUME CInv, [Next]_vars
    PROVE  HomeTypeOK'
<1>0. Control /\ HomeTypeOK /\ NoConfig \in Config
  BY ControlHolds DEF CInv, TypeOK, NoConfig, Config
<1>1. ASSUME UNCHANGED home PROVE HomeTypeOK'
  BY <1>0, <1>1 DEF home, HomeTypeOK
<1>2. ASSUME NEW t \in Terminal, Load(t) PROVE HomeTypeOK'
  BY <1>0, <1>2 DEF Load, HomeTypeOK
<1>3. ASSUME NEW t \in Terminal, HomeDies(t) PROVE HomeTypeOK'
  BY <1>0, <1>3 DEF HomeDies, HomeTypeOK
<1>4. ASSUME NEW t \in Terminal, Entering(t) PROVE HomeTypeOK'
  BY <1>1, <1>2, <1>4, Beginning DEF Began
<1>5. ASSUME NEW t \in Terminal, OnFile(t) PROVE HomeTypeOK'
  <2>1. PICK i \in Thread : CopyConfig(t, i) \/ SetConfig(t, i) \/ OpenConfig(t, i) \/ FillConfig(t, i)
    BY <1>5 DEF OnFile
  <2>2. CASE CopyConfig(t, i)
    BY <1>0, <2>2 DEF CopyConfig, Copy, HomeTypeOK
  <2>3. CASE OpenConfig(t, i)
    BY <1>0, <2>3 DEF OpenConfig, Open, HomeTypeOK
  <2>4. CASE FillConfig(t, i)
    BY <1>0, <2>4 DEF FillConfig, Fill, HomeTypeOK
  <2>5. CASE SetConfig(t, i)
    <3>1. PICK x : /\ Set(t, i, Edited(held[t][i], t, i, x), Edited(ledger, t, i, x))
                   /\ cmd[t].op = "discover" => x \in todo[t]
      BY <2>5 DEF SetConfig
    <3>2. stage[t][i] = "set" /\ mem \in [Terminal -> Config] /\ held[t][i] \in Config /\ ledger \in Config
      BY <1>0, <3>1 DEF Set, HomeTypeOK
    <3>3. Edited(held[t][i], t, i, x) \in Config /\ Edited(ledger, t, i, x) \in Config
      BY <1>0, <3>1, <3>2, EditedTypes
    <3> QED
      BY <1>0, <3>1, <3>3 DEF Set, HomeTypeOK
  <2> QED
    BY <2>1, <2>2, <2>3, <2>4, <2>5
<1>6. ASSUME NEW t \in Terminal, Ending(t) PROVE HomeTypeOK'
  BY <1>1, <1>3, <1>6, HomeIsLeft DEF Ending, Kill, Panic
<1>7. CASE UNCHANGED vars
  BY <1>1, <1>7 DEF vars
<1> QED
  BY <1>1, <1>4, <1>5, <1>6, <1>7, Groups, HomeIsLeft

\* The kind a make works on.
LEMMA KindsAtWork ==
    ASSUME Control, NEW t \in Terminal, NEW i \in Thread, stage[t][i] \in {"rm"} \cup InDir
    PROVE  KindOf(t) \in Kind
BY RunningArguments DEF Control, ThreadsAreItsOwn, KindOf

LEMMA KindsTypes ==
    ASSUME CInv, [Next]_vars
    PROVE  KindsTypeOK'
<1>0. Control /\ KindsTypeOK /\ HomeTypeOK
  BY ControlHolds DEF CInv, TypeOK
<1>1. ASSUME UNCHANGED kinds PROVE KindsTypeOK'
  BY <1>0, <1>1 DEF kinds, KindsTypeOK
<1>2. ASSUME NEW k \in Kind, NEW d, d \in [is : {"gone", "partial", "bare", "whole"},
                users : SUBSET User, yaml : Name \cup {Nil}, cr : BOOLEAN],
             d.is = "gone" => d.users = {},
             dir' = [dir EXCEPT ![k] = d], UNCHANGED <<profile, archive>>,
             image' \in [Kind \X Registry -> {"none", "whole", "torn"}]
      PROVE  KindsTypeOK'
  <2>1. dir' \in [Kind -> [is : {"gone", "partial", "bare", "whole"},
                users : SUBSET User, yaml : Name \cup {Nil}, cr : BOOLEAN]]
    BY <1>0, <1>2 DEF KindsTypeOK
  <2>2. ASSUME NEW j \in Kind
        PROVE  dir'[j].is = "gone" => dir'[j].users = {}
    BY <1>0, <1>2 DEF KindsTypeOK
  <2> QED
    BY <1>0, <1>2, <2>1, <2>2 DEF KindsTypeOK
<1>3. ASSUME NEW t \in Terminal, Looping(t) PROVE KindsTypeOK'
  <2>1. UNCHANGED kinds \/ (UNCHANGED <<image, dir>> /\ profile' \subseteq Kind /\ archive' \subseteq Kind)
    BY <1>0, <1>3
    DEF Looping, BuildNext, BuildUnknown, StopNext, StopUnknown, GcDelete, GcCount, GcCountFails, outside,
        Rmk, Push, Pull, PullGit, RemoveKind, PushKind, PullKind, PullRemote, KindsTypeOK
  <2> QED
    BY <1>0, <1>1, <2>1 DEF KindsTypeOK
<1>8. ASSUME NEW k \in Kind, NEW t \in Terminal, NEW n \in Name, NEW m \in Name \cup {Nil},
             dir[k].is # "gone", dir' = Rendered(k, <<t, n>>, m), UNCHANGED <<profile, archive, image>>
      PROVE  KindsTypeOK'
  <2> DEFINE d == [is |-> dir[k].is, users |-> dir[k].users \cup {<<t, n>>},
                  yaml |-> m, cr |-> dir[k].is = "whole" /\ m # Nil]
  <2> HIDE DEF d
  <2>1. dir' = [dir EXCEPT ![k] = d]
    BY <1>8 DEF Rendered, d
  <2>2. <<t, n>> \in User
    BY CliAssumption DEF Thread
  <2>3. /\ d \in [is : {"gone", "partial", "bare", "whole"}, users : SUBSET User,
                  yaml : Name \cup {Nil}, cr : BOOLEAN]
        /\ d.is # "gone"
    BY <1>0, <1>8, <2>2 DEF KindsTypeOK, d
  <2>4. image' \in [Kind \X Registry -> {"none", "whole", "torn"}]
    BY <1>0, <1>8 DEF KindsTypeOK
  <2> QED
    BY <1>8, <2>1, <2>3, <2>4, <1>2
<1>9. ASSUME NEW k \in Kind, dir' \in PartlyFilled(k), UNCHANGED <<profile, archive, image>>
      PROVE  KindsTypeOK'
  <2>1. PICK s \in {"gone", "partial", "bare", "whole"} :
           dir' = [dir EXCEPT ![k].is = s] /\ (s = "gone" => dir[k].is = "gone")
    BY <1>0, <1>9 DEF PartlyFilled, Filled, KindsTypeOK
  <2>2. dir' = [dir EXCEPT ![k] = [dir[k] EXCEPT !.is = s]]
    BY <2>1
  <2> QED
    BY <1>0, <1>9, <2>1, <2>2, <1>2 DEF KindsTypeOK
<1>4. ASSUME NEW t \in Terminal, InMake(t) PROVE KindsTypeOK'
  <2> DEFINE k == KindOf(t)
  <2>0. image \in [Kind \X Registry -> {"none", "whole", "torn"}]
    BY <1>0 DEF KindsTypeOK
  <2>1. ASSUME NEW i \in Thread, MakeDir(t, i) PROVE KindsTypeOK'
    <3>1. k \in Kind /\ dir' = [dir EXCEPT ![k] = [NoDir EXCEPT !.is = "partial"]]
          /\ UNCHANGED <<profile, archive, image>>
      BY <1>0, <2>1, KindsAtWork DEF MakeDir, Making, Emptied
    <3> HIDE DEF k
    <3> DEFINE d == [NoDir EXCEPT !.is = "partial"]
    <3>3. /\ d \in [is : {"gone", "partial", "bare", "whole"}, users : SUBSET User,
                    yaml : Name \cup {Nil}, cr : BOOLEAN]
          /\ d.is = "partial" /\ d.users = {}
      BY DEF NoDir
    <3> HIDE DEF d
    <3>4. dir' = [dir EXCEPT ![k] = d]
      BY <3>1 DEF d
    <3> QED
      BY <2>0, <3>1, <3>3, <3>4, <1>2
  <2>2. ASSUME k \in Kind, dir' = Filled(k), UNCHANGED <<profile, archive, image>>
        PROVE  KindsTypeOK'
    <3> HIDE DEF k
    <3>1. PICK s \in {"whole", "bare"} : dir' = [dir EXCEPT ![k].is = s]
      BY <2>2 DEF Filled
    <3>2. dir' = [dir EXCEPT ![k] = [dir[k] EXCEPT !.is = s]]
      BY <3>1
    <3> QED
      BY <1>0, <2>0, <2>2, <3>2, <1>2 DEF KindsTypeOK
  <2>3. ASSUME NEW n \in Name, MakeReady(t, n) PROVE KindsTypeOK'
    BY <1>0, <2>2, <2>3, KindsAtWork DEF MakeReady, Making, InDir, Thread
  <2>4. CASE BuildReady(t)
    BY <1>0, <2>2, <2>4, KindsAtWork DEF BuildReady, Making, InDir, Thread
  <2>5. ASSUME NEW n \in Name, MakeTemplate(t, n) PROVE KindsTypeOK'
    <3>1. k \in Kind /\ UNCHANGED <<profile, archive, image>>
      BY <1>0, <2>5, KindsAtWork DEF MakeTemplate, Making, InDir, Thread
    <3>2. CASE dir' = dir
      BY <1>1, <3>1, <3>2 DEF kinds
    <3>3. ASSUME NEW m \in Name \cup {Nil}, dir[k].is # "gone", dir' = Rendered(k, <<t, n>>, m)
          PROVE  KindsTypeOK'
      BY <1>8, <3>1, <3>3
    <3> QED
      BY <2>5, <3>2, <3>3 DEF MakeTemplate
  <2>6. ASSUME NEW n \in Name, MakeApply(t, n) PROVE KindsTypeOK'
    BY <1>1, <2>6 DEF MakeApply
  <2>7. ASSUME k \in Kind, dir' = Removed(k), UNCHANGED <<profile, archive>>,
               image' \in [Kind \X Registry -> {"none", "whole", "torn"}]
        PROVE  KindsTypeOK'
    <3> HIDE DEF k
    <3> QED
      BY <2>7, <1>2 DEF Removed, NoDir
  <2>8. ASSUME NEW n \in Name, MakeClean(t, n) PROVE KindsTypeOK'
    BY <1>0, <2>0, <2>7, <2>8, KindsAtWork DEF MakeClean, Making, InDir, Thread
  <2>9. CASE BuildImage(t)
    <3>1. k \in Kind
      BY <1>0, <2>9, KindsAtWork DEF BuildImage, Making, InDir, Thread
    <3>2. mem[t].setting \in Registry
      BY <1>0 DEF HomeTypeOK, Config, Registry
    <3>3. Image(k, mem[t].setting)
      BY <2>9 DEF BuildImage
    <3> HIDE DEF k
    <3>4. image[<<k, mem[t].setting>>] \in {"none", "whole", "torn"}
      BY <2>0, <3>1, <3>2
    <3>5. \E i \in {"none", "whole", "torn"} : image' = [image EXCEPT ![<<k, mem[t].setting>>] = i]
      BY <3>3, <3>4 DEF Image
    <3>6. image' \in [Kind \X Registry -> {"none", "whole", "torn"}]
      BY <2>0, <3>5
    <3>7. dir' = Removed(k) /\ UNCHANGED <<profile, archive>>
      BY <3>3 DEF Image
    <3> QED
      BY <2>7, <3>1, <3>6, <3>7 DEF k
  <2> QED
    BY <1>4, <2>1, <2>3, <2>4, <2>5, <2>6, <2>8, <2>9 DEF InMake
<1>5. ASSUME NEW t \in Terminal, Entering(t) \/ Stopping(t) \/ OnFile(t) \/ Ending(t)
      PROVE  UNCHANGED kinds
  <2>1. CASE Entering(t)
    <3>1. CInv
      OBVIOUS
    <3> QED
      BY <2>1, <3>1, Beginning DEF Began, outside
  <2> QED
    BY <1>5, <2>1
    DEF Stopping, StopMake, StopDelete, StopLate, Halting, LateEnds, OnFile, CopyConfig, SetConfig, OpenConfig,
        FillConfig, InThread, Ending, ExposeCreate, Write, Note, Return, Kill, Panic, outside
<1>10. ASSUME NEW t \in Terminal, Faulty(t) PROVE KindsTypeOK'
  <2> DEFINE k == KindOf(t)
  <2>1. ASSUME NEW n \in Name, MakeReadyFails(t, n) PROVE KindsTypeOK'
    BY <1>0, <1>9, <2>1, KindsAtWork DEF MakeReadyFails, Making, InDir, Thread
  <2>2. CASE BuildReadyFails(t)
    BY <1>0, <1>9, <2>2, KindsAtWork DEF BuildReadyFails, Making, InDir, Thread
  <2>3. ASSUME NEW n \in Name, MakeTemplateFails(t, n) PROVE KindsTypeOK'
    <3>1. k \in Kind /\ UNCHANGED <<profile, archive, image>>
          /\ dir[k].is # "gone" /\ dir' = Rendered(k, <<t, n>>, Nil)
      BY <1>0, <2>3, KindsAtWork DEF MakeTemplateFails, Making, InDir, Thread, Workable
    <3> HIDE DEF k
    <3> QED
      BY <1>8, <3>1
  <2>4. CASE BuildImageFails(t)
    <3>1. k \in Kind /\ UNCHANGED <<profile, archive, image>> /\ dir' = Removed(k)
      BY <1>0, <2>4, KindsAtWork DEF BuildImageFails, Making, InDir, Thread
    <3>2. image' \in [Kind \X Registry -> {"none", "whole", "torn"}]
      BY <1>0, <3>1 DEF KindsTypeOK
    <3> HIDE DEF k
    <3> QED
      BY <1>2, <3>1, <3>2 DEF Removed, NoDir
  <2>5. ASSUME NEW n \in Name,
               \/ MakeApplyFails(t, n) \/ StopMakeFails(t, n) \/ StopDeleteFails(t, n)
               \/ \E o \in Object : StopLateFails(t, o, n)
        PROVE  KindsTypeOK'
    BY <1>1, <2>5 DEF MakeApplyFails, StopMakeFails, StopDeleteFails, StopLateFails,
                      Halting, LateEnds
  <2> QED
    BY <1>10, <2>1, <2>2, <2>3, <2>4, <2>5 DEF Faulty
<1>6. CASE UNCHANGED vars
  BY <1>1, <1>6 DEF vars, outside
<1> QED
  BY <1>1, <1>3, <1>4, <1>5, <1>6, <1>10, Groups

\* What a command makes of ~/.kube/config is one again.
LEMMA ChangedTypes ==
    ASSUME Control, NEW t \in Terminal, at[t] = "write", NEW k \in Kube, NEW c, c = cmd[t]
    PROVE  Changed(k, c) \in Kube
<1>0. /\ c.op \in OfSpaces /\ \A S : NoId \in S \cup {NoId}
      /\ k.contexts \in [Id -> Context \cup {Nowhere}] /\ k.clusters \in Entries
      /\ k.users \in Entries /\ k.current \in Id \cup {NoId}
  BY DEF Control, AtItsOwn, Kube
<1>1. CASE c.op = "add"
  <2>1. c.given \in Kube
    BY <1>1, RunningArguments
  <2>2. Changed(k, c) = Merged(k, c.given)
    BY <1>1 DEF Changed
  <2>3. ASSUME NEW S, NEW f \in [Id -> S], NEW g \in [Id -> S] PROVE Over(f, g) \in [Id -> S]
    BY DEF Over
  <2>4. /\ c.given.contexts \in [Id -> Context \cup {Nowhere}] /\ c.given.clusters \in Entries
        /\ c.given.users \in Entries /\ c.given.current \in Id \cup {NoId}
    BY <2>1 DEF Kube
  <2>5. /\ Over(k.contexts, c.given.contexts) \in [Id -> Context \cup {Nowhere}]
        /\ Over(k.clusters, c.given.clusters) \in Entries
        /\ Over(k.users, c.given.users) \in Entries
    BY <1>0, <2>3, <2>4 DEF Entries
  <2>6. Merged(k, c.given) \in Kube
    BY <1>0, <2>4, <2>5 DEF Merged, Kube
  <2> QED
    BY <2>2, <2>6
<1>8. ASSUME NEW s PROVE /\ [k.contexts EXCEPT ![s] = Nowhere] \in [Id -> Context \cup {Nowhere}]
                         /\ [k.clusters EXCEPT ![s] = Nowhere] \in Entries
                         /\ [k.users EXCEPT ![s] = Nowhere] \in Entries
  BY <1>0 DEF Entries
<1>2. CASE c.op = "delete"
  <2>1. Changed(k, c) = Deleted(k, c.name)
    BY <1>2 DEF Changed
  <2>2. Deleted(k, c.name) \in Kube
    BY <1>0, <1>8 DEF Deleted, Kube
  <2> QED
    BY <2>1, <2>2
<1>3. CASE c.op \in {"use", "swap"}
  <2>1. Changed(k, c) = [k EXCEPT !.current = c.name] /\ c.name \in Id \cup {NoId}
    BY <1>3, RunningArguments DEF Changed
  <2>2. [k EXCEPT !.current = c.name] \in Kube
    BY <2>1 DEF Kube
  <2> QED
    BY <2>1, <2>2
<1>4. CASE c.op \in {"rename", "alias"}
  <2>1. Changed(k, c) = Renamed(k, c.name, c.new) /\ c.name \in Id /\ c.new \in Id
    BY <1>4, RunningArguments DEF Changed
  <2>2. [k.contexts EXCEPT ![c.new] = k.contexts[c.name], ![c.name] = Nowhere]
          \in [Id -> Context \cup {Nowhere}]
    BY <1>0, <2>1
  <2>3. (IF k.current = c.name THEN c.new ELSE k.current) \in Id \cup {NoId}
    BY <1>0, <2>1
  <2>4. Renamed(k, c.name, c.new) \in Kube
    BY <1>0, <2>2, <2>3 DEF Renamed, Kube
  <2> QED
    BY <2>1, <2>4
<1>5. CASE c.op = "forget"
  <2>1. Changed(k, c) = [k EXCEPT !.contexts[c.name] = Nowhere]
    BY <1>5 DEF Changed
  <2>2. [k EXCEPT !.contexts[c.name] = Nowhere] \in Kube
    BY <1>0 DEF Kube
  <2> QED
    BY <2>1, <2>2
<1>6. CASE c.op = "unset"
  <2>1. Changed(k, c) = [k EXCEPT !.current = NoId]
    BY <1>6 DEF Changed
  <2>2. [k EXCEPT !.current = NoId] \in Kube
    BY DEF Kube
  <2> QED
    BY <2>1, <2>2
<1> QED
  BY <1>0, <1>1, <1>2, <1>3, <1>4, <1>5, <1>6 DEF OfSpaces

\* The steps that leave ~/.kube/config and what is known of it alone.
LEMMA KubeIsLeft ==
    ASSUME NEW t \in Terminal, Looping(t) \/ InMake(t) \/ Stopping(t) \/ Faulty(t)
                               \/ OnFile(t) \/ ExposeCreate(t) \/ Return(t) \/ Panic(t)
    PROVE  UNCHANGED kubeFiles
BY DEF Looping, InMake, Stopping, OnFile, BuildNext, BuildUnknown, StopNext, StopUnknown,
       GcDelete, Rmk, Push, Pull, PullGit, GcCount, GcCountFails, ForNext, BuildReady, BuildImage, MakeDir,
       MakeReady, MakeTemplate, MakeApply, MakeClean, Making, StopMake, StopDelete, StopLate, Halting, LateEnds,
       Faulty, BuildReadyFails, BuildImageFails, MakeReadyFails, MakeTemplateFails,
       MakeApplyFails, StopMakeFails, StopDeleteFails, StopLateFails,
       CopyConfig, SetConfig, OpenConfig, FillConfig, InThread, ExposeCreate, Return, Panic

LEMMA KubeTypes ==
    ASSUME CInv, [Next]_vars
    PROVE  SpacesTypeOK'
<1>0. Control /\ SpacesTypeOK /\ Shell = Terminal
  BY ControlHolds, CliAssumption DEF CInv, TypeOK
<1>1. ASSUME UNCHANGED kubeFiles PROVE SpacesTypeOK'
  BY <1>0, <1>1 DEF kubeFiles, SpacesTypeOK
<1>2. ASSUME NEW t \in Terminal, Entering(t) PROVE SpacesTypeOK'
  <2>1. ASSUME ReadKube(t) PROVE SpacesTypeOK'
    BY <1>0, <2>1 DEF ReadKube, SpacesTypeOK
  <2> QED
    BY <1>1, <1>2, <2>1, Beginning DEF Began
<1>3. ASSUME NEW t \in Terminal, Write(t) PROVE SpacesTypeOK'
  <2>1. copy[t] \in Kube /\ copy[t].current \in Id \cup {NoId}
    BY <1>0 DEF SpacesTypeOK, Kube
  <2>2. WriteKube(t, cmd[t]) /\ kube' \in Kube
    BY <1>0, <1>3, <2>1, ChangedTypes DEF Write, WriteKube
  <2> QED
    BY <1>0, <2>1, <2>2 DEF WriteKube, SpacesTypeOK
<1>4. ASSUME NEW t \in Terminal, Note(t) PROVE SpacesTypeOK'
  <2>1. copy[t].current \in Id \cup {NoId}
    BY <1>0 DEF SpacesTypeOK, Kube
  <2> QED
    BY <1>0, <1>4, <2>1 DEF Note, NotePrev, SpacesTypeOK
<1>5. ASSUME NEW t \in Terminal, Kill(t) PROVE SpacesTypeOK'
  BY <1>0, <1>5 DEF Kill, SpacesTypeOK
<1>6. CASE UNCHANGED vars
  BY <1>1, <1>6 DEF vars
<1> QED
  BY <1>1, <1>2, <1>3, <1>4, <1>5, <1>6, Groups, KubeIsLeft DEF Ending

\* kubectl makes a space of a space.
LEMMA KubectlTypes ==
    ASSUME space \in [Server -> Space0], kube \in Kube, NEW s,
           Here \in Server => s \in Space0, Kubectl(s)
    PROVE  space' \in [Server -> Space0]
BY DEF Kubectl

LEMMA ServerTypes ==
    ASSUME CInv, [Next]_vars
    PROVE  space' \in [Server -> Space0] /\ late' \in SUBSET (Terminal \X Object \X Name)
<1> DEFINE LateOK == late' \in SUBSET (Terminal \X Object \X Name)
<1>0. /\ Control /\ space \in [Server -> Space0] /\ late \in SUBSET (Terminal \X Object \X Name)
      /\ kube \in Kube /\ KindsTypeOK
      /\ Here \in Server => space[Here] \in Space0
  BY ControlHolds DEF CInv, TypeOK, SpacesTypeOK
<1>1. ASSUME UNCHANGED <<space, late>> PROVE space' \in [Server -> Space0] /\ LateOK
  BY <1>0, <1>1
<1>2. ASSUME NEW t \in Terminal, InMake(t) PROVE space' \in [Server -> Space0] /\ LateOK
  <2>0. LateOK
    BY <1>0, <1>2 DEF InMake, BuildReady, BuildImage, MakeDir, MakeReady, MakeTemplate,
                      MakeApply, MakeClean, Making
  <2>1. ASSUME NEW n \in Name, MakeReady(t, n) PROVE space' \in [Server -> Space0]
    <3>1. profile \subseteq Kind
      BY <1>0 DEF KindsTypeOK
    <3>2. Here \in Server => [space[Here] EXCEPT
              !.kinds = @ \cup ({KindOf(t)} \cap profile), !.pools = @ \ {n}] \in Space0
      BY <1>0, <3>1 DEF Space0
    <3> QED
      BY <1>0, <2>1, <3>2, KubectlTypes DEF MakeReady
  <2>2. ASSUME NEW n \in Name, MakeApply(t, n) PROVE space' \in [Server -> Space0]
    <3> DEFINE k == KindOf(t)
               m == dir[k].yaml
    <3>1. k \in Kind
      BY <1>0, <2>2, KindsAtWork DEF MakeApply, Making, InDir, Thread
    <3>2. CASE InPlace(t, n)
      <4>1. m \in Name
        BY <1>0, <3>1, <3>2 DEF InPlace, KindsTypeOK
      <4> DEFINE s == [space[Here] EXCEPT !.driver[m] = k,
                     !.services = @ \cup {m},
                     !.models = IF Creatable(k) /\ dir[k].cr THEN @ \cup {<<k, m>>} ELSE @,
                     !.pools = IF Creatable(k) THEN @ \cup {n} ELSE @]
      <4>2. Kubectl(s)
        BY <2>2, <3>2 DEF MakeApply
      <4> HIDE DEF k, m
      <4>3. Here \in Server => s \in Space0
        <5> DEFINE a == IF Creatable(k) /\ dir[k].cr THEN space[Here].models \cup {<<k, m>>}
                        ELSE space[Here].models
                   b == IF Creatable(k) THEN space[Here].pools \cup {n} ELSE space[Here].pools
                   d == [space[Here].driver EXCEPT ![m] = k]
                   e == space[Here].services \cup {m}
        <5>1. Here \in Server => /\ a \subseteq Kind \X Name /\ b \subseteq Name
                                 /\ d \in [Name -> Kind \cup {Nil}] /\ e \subseteq Name
          BY <1>0, <3>1, <4>1 DEF Space0
        <5>2. s = [space[Here] EXCEPT !.driver = d, !.services = e, !.models = a, !.pools = b]
          OBVIOUS
        <5> HIDE DEF a, b, d, e, s
        <5> QED
          BY <1>0, <5>1, <5>2 DEF Space0
      <4> HIDE DEF s
      <4> QED
        BY <1>0, <4>2, <4>3, KubectlTypes
    <3>3. CASE ~ InPlace(t, n)
      BY <1>0, <2>2, <3>3 DEF MakeApply
    <3> QED
      BY <3>2, <3>3
  <2> QED
    BY <1>0, <1>2, <2>0, <2>1, <2>2 DEF InMake, BuildReady, BuildImage, MakeDir, MakeTemplate,
                                       MakeClean
<1>3. ASSUME NEW t \in Terminal, NEW n \in Name,
             StopMake(t, n) \/ StopMakeFails(t, n) \/ StopDelete(t, n) \/ StopDeleteFails(t, n)
      PROVE  space' \in [Server -> Space0] /\ LateOK
  <2>1. CASE StopMake(t, n) \/ StopMakeFails(t, n)
    <3>1. Here \in Server => [space[Here] EXCEPT !.pools = @ \ {n}] \in Space0
      BY <1>0 DEF Space0
    <3>2. kindVar[t] \in Kind
      BY <1>0, <2>1 DEF StopMake, StopMakeFails, Halting, Control, ThreadsAreItsOwn, Thread
    <3>3. Background(t, n) \subseteq Terminal \X Object \X Name
      BY <3>2 DEF Background, Object
    <3>4. late' = late \cup Background(t, n)
      BY <2>1 DEF StopMake, StopMakeFails
    <3>5. LateOK
      BY <1>0, <3>3, <3>4
    <3> QED
      BY <1>0, <2>1, <3>1, <3>5, KubectlTypes DEF StopMake, StopMakeFails
  <2>2. CASE StopDelete(t, n) \/ StopDeleteFails(t, n)
    <3>1. Here \in Server => [space[Here] EXCEPT !.driver[n] = Nil] \in Space0
      BY <1>0 DEF Space0
    <3> QED
      BY <1>0, <2>2, <3>1, KubectlTypes DEF StopDelete, StopDeleteFails
  <2> QED
    BY <1>3, <2>1, <2>2
<1>8. ASSUME NEW t \in Terminal, Stopping(t) \/ Faulty(t)
      PROVE  space' \in [Server -> Space0] /\ LateOK
  <2>1. ASSUME NEW n \in Name, NEW o \in Object, StopLate(t, o, n) \/ StopLateFails(t, o, n)
        PROVE  space' \in [Server -> Space0] /\ LateOK
    <3>1. Here \in Server => Without(space[Here], o, n) \in Space0
      BY <1>0 DEF Space0, Without
    <3>2. space' = space \/ Kubectl(Without(space[Here], o, n))
      BY <2>1 DEF StopLate, StopLateFails
    <3>3. LateOK
      BY <1>0, <2>1 DEF StopLate, StopLateFails, LateEnds
    <3> QED
      BY <1>0, <3>1, <3>2, <3>3, KubectlTypes
  <2>2. ASSUME NEW n \in Name, MakeReadyFails(t, n) PROVE space' \in [Server -> Space0] /\ LateOK
    <3>1. profile \subseteq Kind
      BY <1>0 DEF KindsTypeOK
    <3>2. PICK K \in SUBSET ({KindOf(t)} \cap profile), S \in SUBSET {n} :
             Kubectl([space[Here] EXCEPT !.kinds = @ \cup K, !.pools = @ \ S])
      BY <2>2 DEF MakeReadyFails
    <3>3. Here \in Server => [space[Here] EXCEPT !.kinds = @ \cup K, !.pools = @ \ S] \in Space0
      BY <1>0, <3>1 DEF Space0
    <3>4. LateOK
      BY <1>0, <2>2 DEF MakeReadyFails, Making
    <3> QED
      BY <1>0, <3>2, <3>3, <3>4, KubectlTypes
  <2>3. ASSUME NEW n \in Name, MakeApplyFails(t, n) PROVE space' \in [Server -> Space0] /\ LateOK
    <3> DEFINE k == KindOf(t)
               m == dir[k].yaml
    <3>1. k \in Kind /\ LateOK
      BY <1>0, <2>3, KindsAtWork DEF MakeApplyFails, Making, InDir, Thread
    <3>2. m \in Name
      BY <1>0, <2>3, <3>1 DEF MakeApplyFails, InPlace, KindsTypeOK
    <3>3. PICK d \in {Nil, k, space[Here].driver[m]}, S \in SUBSET {m},
               M \in SUBSET (IF Creatable(k) /\ dir[k].cr THEN {<<k, m>>} ELSE {}) :
             Kubectl([space[Here] EXCEPT !.driver[m] = d,
                 !.services = (@ \ {m}) \cup S,
                 !.models = IF dir[k].cr THEN (@ \ {<<k, m>>}) \cup M ELSE @])
      BY <2>3 DEF MakeApplyFails
    <3> HIDE DEF k, m
    <3> DEFINE a == IF dir[k].cr THEN (space[Here].models \ {<<k, m>>}) \cup M
                    ELSE space[Here].models
               b == [space[Here].driver EXCEPT ![m] = d]
               e == (space[Here].services \ {m}) \cup S
               s == [space[Here] EXCEPT !.driver = b, !.services = e, !.models = a]
    <3>4. Here \in Server => /\ a \subseteq Kind \X Name
                             /\ b \in [Name -> Kind \cup {Nil}] /\ e \subseteq Name
      BY <1>0, <3>1, <3>2 DEF Space0
    <3>5. Kubectl(s)
      BY <3>3
    <3> HIDE DEF a, b, e
    <3>6. Here \in Server => s \in Space0
      BY <1>0, <3>4 DEF Space0
    <3> HIDE DEF s
    <3> QED
      BY <1>0, <3>1, <3>5, <3>6, KubectlTypes
  <2>4. ASSUME \/ BuildReadyFails(t) \/ BuildImageFails(t)
               \/ \E n \in Name : MakeTemplateFails(t, n)
        PROVE  space' \in [Server -> Space0] /\ LateOK
    BY <1>1, <2>4 DEF BuildReadyFails, BuildImageFails, MakeTemplateFails, Making
  <2> QED
    BY <1>3, <1>8, <2>1, <2>2, <2>3, <2>4 DEF Stopping, Faulty
<1>4. ASSUME NEW t \in Terminal, Looping(t) PROVE space' \in [Server -> Space0] /\ LateOK
  <2>0. LateOK
    BY <1>0, <1>4 DEF Looping, BuildNext, BuildUnknown, StopNext, StopUnknown, GcDelete, Rmk,
                      Push, Pull, PullGit, GcCount, GcCountFails, ForNext, outside
  <2>1. CASE GcDelete(t)
    <3>1. Here \in Server => [space[Here] EXCEPT !.kinds = @ \ {kindVar[t]},
                                                 !.models = @ \ ({kindVar[t]} \X Name)] \in Space0
      BY <1>0 DEF Space0
    <3> QED
      BY <1>0, <2>0, <2>1, <3>1, KubectlTypes DEF GcDelete
  <2> QED
    BY <1>0, <1>4, <2>0, <2>1 DEF Looping, BuildNext, BuildUnknown, StopNext, StopUnknown, Rmk,
                             Push, Pull, PullGit, GcCount, GcCountFails, ForNext, outside
<1>5. ASSUME NEW t \in Terminal, Ending(t) PROVE space' \in [Server -> Space0] /\ LateOK
  <2>0. LateOK
    BY <1>0, <1>5 DEF Ending, ExposeCreate, Write, Note, Return, Kill, Panic, outside
  <2>1. CASE ExposeCreate(t)
    <3> DEFINE s == InUse(copy[t])
    <3>1. cmd[t].names \subseteq Name
      BY <1>0, <2>1, RunningArguments DEF ExposeCreate, Control, AtItsOwn
    <3>2. PICK n \in Name : space' = space \/ space' = [space EXCEPT ![s].ports = @ \cup {n}]
      BY <2>1, <3>1 DEF ExposeCreate
    <3> HIDE DEF s
    <3>3. CASE space' = [space EXCEPT ![s].ports = @ \cup {n}]
      <4> DEFINE x == [space[s] EXCEPT !.ports = @ \cup {n}]
      <4>1. x \in Space0 \/ s \notin Server
        BY <1>0 DEF Space0
      <4>2. space' = [space EXCEPT ![s] = x]
        BY <3>3
      <4> HIDE DEF x
      <4> QED
        BY <1>0, <2>0, <4>1, <4>2
    <3> QED
      BY <1>0, <2>0, <3>2, <3>3
  <2> QED
    BY <1>0, <1>5, <2>0, <2>1 DEF Ending, Write, Note, Return, Kill, Panic, outside
<1>6. ASSUME NEW t \in Terminal, Entering(t) \/ OnFile(t) PROVE UNCHANGED <<space, late>>
  <2>1. CASE Entering(t)
    <3>1. CInv
      OBVIOUS
    <3> QED
      BY <2>1, <3>1, Beginning DEF Began, outside
  <2> QED
    BY <1>6, <2>1 DEF OnFile, CopyConfig, SetConfig, OpenConfig, FillConfig, InThread, outside
<1>7. CASE UNCHANGED vars
  BY <1>1, <1>7 DEF vars, outside
<1> QED
  BY <1>1, <1>2, <1>3, <1>4, <1>5, <1>6, <1>7, <1>8, Groups

\* Whatever is hit is a terminal.
LEMMA TouchTypes ==
    ASSUME hit \in SUBSET Terminal, NEW t, NEW S, Touch(t, S) \/ TouchKind(t, S)
    PROVE  hit' \in SUBSET Terminal
BY DEF Touch, TouchKind

LEMMA HistoryTypes ==
    ASSUME CInv, [Next]_vars
    PROVE  hit' \in SUBSET Terminal /\ ops' \in Nat /\ kills' \in Nat
<1>0. hit \in SUBSET Terminal /\ ops \in Nat /\ kills \in Nat
  BY DEF CInv, TypeOK, BoundsOK
<1>1. ASSUME NEW t \in Terminal, Entering(t) PROVE hit' \in SUBSET Terminal /\ ops' \in Nat /\ kills' = kills
  BY <1>0, <1>1, Beginning DEF Began
<1>2. ASSUME NEW t \in Terminal, Looping(t) PROVE hit' \in SUBSET Terminal /\ UNCHANGED bounds
  BY <1>0, <1>2
  DEF Looping, BuildNext, BuildUnknown, StopNext, StopUnknown, GcDelete, Rmk, Push, Pull,
      PullGit, GcCount, GcCountFails, ForNext, TouchKind
<1>3. ASSUME NEW t \in Terminal, InMake(t) PROVE hit' \in SUBSET Terminal /\ UNCHANGED bounds
  <2>1. UNCHANGED bounds
    BY <1>3 DEF InMake, BuildReady, BuildImage, MakeDir, MakeReady, MakeTemplate, MakeApply,
                MakeClean, Making
  <2>2. ASSUME NEW i \in Thread, MakeDir(t, i) PROVE hit' \in SUBSET Terminal
    <3>1. Sharers(t) \subseteq Terminal
      BY DEF Sharers
    <3> QED
      BY <1>0, <2>2, <3>1 DEF MakeDir
  <2>3. ASSUME BuildImage(t) PROVE hit' \in SUBSET Terminal
    <3>1. hit' = hit \/ \E k : TouchKind(t, k)
      BY <2>3 DEF BuildImage
    <3>2. ASSUME NEW k, TouchKind(t, k) PROVE hit' \in SUBSET Terminal
      BY <1>0, <3>2 DEF TouchKind
    <3> QED
      BY <1>0, <3>1, <3>2
  <2>4. ASSUME NEW n \in Name, MakeReady(t, n) \/ MakeTemplate(t, n) \/ MakeClean(t, n)
        PROVE  hit' \in SUBSET Terminal
    BY <1>0, <2>4, TouchTypes DEF MakeReady, MakeTemplate, MakeClean
  <2>5. ASSUME NEW n \in Name, MakeApply(t, n) PROVE hit' \in SUBSET Terminal
    <3>1. hit' = hit \/ \E S : Touch(t, S)
      BY <2>5 DEF MakeApply
    <3> QED
      BY <1>0, <3>1, TouchTypes
  <2>6. ASSUME BuildReady(t) PROVE hit' \in SUBSET Terminal
    BY <1>0, <2>6 DEF BuildReady
  <2> QED
    BY <1>3, <2>1, <2>2, <2>3, <2>4, <2>5, <2>6 DEF InMake
<1>4. ASSUME NEW t \in Terminal, Stopping(t) \/ Faulty(t)
      PROVE  hit' \in SUBSET Terminal /\ UNCHANGED bounds
  <2>1. UNCHANGED bounds
    BY <1>4 DEF Stopping, Faulty, StopMake, StopDelete, StopLate, BuildReadyFails,
                BuildImageFails, MakeReadyFails, MakeTemplateFails, MakeApplyFails, StopMakeFails,
                StopDeleteFails, StopLateFails, Halting, LateEnds, Making
  <2>2. \/ hit' = hit \/ \E S : Touch(t, S)
        \/ \E n \in Name, o \in Object : LateEnds(t, o, n)
    BY <1>4 DEF Stopping, Faulty, StopMake, StopDelete, StopLate, BuildReadyFails,
                BuildImageFails, MakeReadyFails, MakeTemplateFails, MakeApplyFails, StopMakeFails,
                StopDeleteFails, StopLateFails, Halting
  <2>3. ASSUME NEW n, NEW o, LateEnds(t, o, n) PROVE hit' \in SUBSET Terminal
    BY <1>0, <2>3 DEF LateEnds
  <2> QED
    BY <1>0, <2>1, <2>2, <2>3, TouchTypes
<1>5. ASSUME NEW t \in Terminal, OnFile(t) PROVE hit' = hit /\ UNCHANGED bounds
  BY <1>5 DEF OnFile, CopyConfig, SetConfig, OpenConfig, FillConfig, InThread
<1>6. ASSUME NEW t \in Terminal, Ending(t)
      PROVE  hit' \in SUBSET Terminal /\ ops' \in Nat /\ kills' \in Nat
  <2>1. CASE Kill(t)
    BY <1>0, <2>1 DEF Kill
  <2>2. CASE ExposeCreate(t) \/ Write(t) \/ Note(t) \/ Return(t) \/ Panic(t)
    BY <1>0, <2>2 DEF ExposeCreate, Write, Note, Return, Panic, Touch, bounds
  <2> QED
    BY <1>6, <2>1, <2>2 DEF Ending
<1>7. CASE UNCHANGED vars
  BY <1>0, <1>7 DEF vars, bounds
<1> QED
  BY <1>0, <1>1, <1>2, <1>3, <1>4, <1>5, <1>6, <1>7, Groups DEF bounds

LEMMA FaultTypes ==
    ASSUME CInv, [Next]_vars
    PROVE  spoilt' \in SUBSET Terminal /\ fails' \in Nat
<1>0. spoilt \in SUBSET Terminal /\ fails \in Nat
  BY DEF CInv, TypeOK
<1>1. ASSUME UNCHANGED faults PROVE spoilt' \in SUBSET Terminal /\ fails' \in Nat
  BY <1>0, <1>1 DEF faults
<1>2. ASSUME NEW t \in Terminal, Fails(t) PROVE spoilt' \in SUBSET Terminal /\ fails' \in Nat
  BY <1>0, <1>2 DEF Fails
<1>3. ASSUME NEW t \in Terminal, Entering(t) PROVE spoilt' \in SUBSET Terminal /\ fails' \in Nat
  BY <1>0, <1>3, Beginning DEF Began
<1>4. ASSUME NEW t \in Terminal, Looping(t) PROVE spoilt' \in SUBSET Terminal /\ fails' \in Nat
  <2>1. CASE BuildUnknown(t) \/ StopUnknown(t)
    BY <1>0, <2>1 DEF BuildUnknown, StopUnknown
  <2>2. CASE ~ (BuildUnknown(t) \/ StopUnknown(t))
    BY <1>1, <1>2, <1>4, <2>2
    DEF Looping, BuildNext, StopNext, GcDelete, Rmk, Push, Pull, PullGit, GcCount,
        GcCountFails, ForNext
  <2> QED
    BY <2>1, <2>2
<1>5. ASSUME NEW t \in Terminal, InMake(t) PROVE spoilt' \in SUBSET Terminal /\ fails' \in Nat
  <2>1. ASSUME NEW i \in Thread, MakeDir(t, i) PROVE spoilt' \in SUBSET Terminal /\ fails' \in Nat
    BY <1>0, <2>1 DEF MakeDir
  <2> QED
    BY <1>1, <1>5, <2>1
    DEF InMake, BuildReady, BuildImage, MakeReady, MakeTemplate, MakeApply, MakeClean
<1>6. ASSUME NEW t \in Terminal, Stopping(t) \/ Faulty(t)
      PROVE  spoilt' \in SUBSET Terminal /\ fails' \in Nat
  <2>1. ASSUME NEW n \in Name, NEW o \in Object, StopLateFails(t, o, n)
        PROVE  spoilt' \in SUBSET Terminal /\ fails' \in Nat
    BY <1>0, <2>1 DEF StopLateFails
  <2> QED
    BY <1>1, <1>2, <1>6, <2>1
    DEF Stopping, Faulty, StopMake, StopDelete, StopLate, BuildReadyFails, BuildImageFails,
        MakeReadyFails, MakeTemplateFails, MakeApplyFails, StopMakeFails, StopDeleteFails
<1>7. ASSUME NEW t \in Terminal, OnFile(t) \/ Ending(t) PROVE UNCHANGED faults
  BY <1>7 DEF OnFile, CopyConfig, SetConfig, OpenConfig, FillConfig, InThread, Ending,
              ExposeCreate, Write, Note, Return, Kill, Panic
<1>8. CASE UNCHANGED vars
  BY <1>1, <1>8 DEF vars
<1> QED
  BY <1>1, <1>3, <1>4, <1>5, <1>6, <1>7, <1>8, Groups

LEMMA InitTypes == Init => CInv
<1> SUFFICES ASSUME Init PROVE CInv
  OBVIOUS
<1>1. PICK s \in Session :
        /\ file = s.file /\ ledger = s.file /\ crossed = FALSE
        /\ kube = s.kube /\ prev = NoId /\ last = NoId
        /\ strayed = FALSE /\ space = s.space
        /\ ops = s.ops /\ kills = s.kills /\ does = s.does /\ fails = s.fails
        /\ mem = [t \in Terminal |-> NoConfig] /\ abreast = {} /\ aware = {}
        /\ held = [t \in Terminal |-> [i \in Thread |-> NoConfig]]
        /\ copy = [t \in Terminal |-> s.kube]
        /\ cmd = [t \in Terminal |-> NoCommand] /\ at = [t \in Terminal |-> "idle"]
        /\ stage = [t \in Terminal |-> NoThreads]
        /\ todo = [t \in Terminal |-> {}] /\ kindVar = [t \in Terminal |-> Nil]
        /\ profile = s.profile /\ archive = s.archive
        /\ image = [x \in Kind \X Registry |-> "none"]
        /\ dir = [k \in Kind |-> NoDir] /\ late = {} /\ hit = {} /\ spoilt = {}
  BY DEF Init
<1>2. /\ s.file \in Config /\ s.kube \in Kube /\ s.space \in [Server -> Space0]
      /\ s.profile \subseteq Kind /\ s.archive \subseteq Kind
      /\ s.does \subseteq Command /\ s.ops \in Nat /\ s.kills \in Nat /\ Shell = Terminal
      /\ s.fails \in Nat
  BY CliAssumption
<1>3. HomeTypeOK
  <2>1. NoConfig \in Config
    BY DEF NoConfig, Config
  <2> QED
    BY <1>1, <1>2, <2>1 DEF HomeTypeOK
<1>4. SpacesTypeOK
  BY <1>1, <1>2 DEF SpacesTypeOK
<1>5. KindsTypeOK
  BY <1>1, <1>2 DEF KindsTypeOK, NoDir
<1>6. TypeOK
  BY <1>1, <1>2, <1>3, <1>4, <1>5 DEF TypeOK, NoThreads, Stage
<1>7. AtItsOwn /\ ThreadsAreItsOwn /\ TodoOK
  BY <1>1 DEF AtItsOwn, ThreadsAreItsOwn, TodoOK, Within, NoThreads, InHome, InDir
<1> QED
  BY <1>1, <1>2, <1>5, <1>6, <1>7 DEF CInv, BoundsOK

LEMMA TypesStep == CInv /\ [Next]_vars => CInv'
<1> SUFFICES ASSUME CInv, [Next]_vars PROVE CInv'
  OBVIOUS
<1>1. Control' /\ HomeTypeOK' /\ SpacesTypeOK' /\ KindsTypeOK'
  BY ControlStep, HomeTypes, KubeTypes, KindsTypes
<1>2. /\ space' \in [Server -> Space0] /\ late' \in SUBSET (Terminal \X Object \X Name)
      /\ hit' \in SUBSET Terminal /\ ops' \in Nat /\ kills' \in Nat
      /\ spoilt' \in SUBSET Terminal /\ fails' \in Nat
  BY ServerTypes, HistoryTypes, FaultTypes
<1> QED
  BY <1>1, <1>2 DEF Control, Running, Swaps, TodoSet, CInv, TypeOK, BoundsOK

\* Every variable keeps its type, whatever commands are run side by side; a
\* command that has ended has no goroutine left (wg.Wait in runCmd and stopCmd).
THEOREM TypesTheorem == Spec => []TypeOK
<1>1. CInv => TypeOK
  BY DEF CInv
<1> QED
  BY <1>1, InitTypes, TypesStep, PTL DEF Spec

\* What a goroutine or a loop does next is a step of its own command on what the
\* command is given (the switch of each cobra command in digi.go).
THEOREM CInvTheorem == Spec => []CInv
BY InitTypes, TypesStep, PTL DEF Spec

-----------------------------------------------------------------------------
(* ~/.digi/config                                                          *)

\* The terminals about to open the file for writing, and about to fill it.
Opening == {t \in Terminal : \E i \in Thread : stage[t][i] = "open"}
Fillers == {t \in Terminal : \E i \in Thread : stage[t][i] = "fill"}
Writers == Opening \cup Fillers

\* A goroutine changes, and writes, all that its process has in memory.
HeldIsMem ==
    \A t \in Terminal, i \in Thread :
        stage[t][i] \in {"set", "fill"} => held[t][i] = mem[t]

\* One process writes at a time, one that has read all changes before it, and
\* no other has read any since the file was opened; between writes the file
\* has every change.
InTurn ==
    /\ \A t \in Writers : t \in abreast /\ mem[t] = ledger /\ Writers = {t}
    /\ \A t \in Fillers : abreast \subseteq {t} /\ file \in {NoConfig, mem[t]}
    /\ Writers = {} => file = ledger /\ \A t \in abreast : mem[t] = ledger

\* Or changes will be made across each other, whatever happens next.
WillCross ==
    \E t \in Opening : t \notin abreast \/ \E u \in Opening : u # t

HomeInv == crossed \/ (HeldIsMem /\ (InTurn \/ WillCross))

\* A step that leaves the file alone, and the goroutines that are at it.
Apart ==
    /\ UNCHANGED home
    /\ \A u \in Terminal, j \in Thread :
          stage'[u][j] # stage[u][j] => {stage[u][j], stage'[u][j]} \cap InHome = {}

LEMMA ApartKeeps ==
    ASSUME HomeInv, Apart
    PROVE  HomeInv'
<1>1. Opening' = Opening /\ Fillers' = Fillers /\ Writers' = Writers
  BY DEF Apart, Opening, Fillers, Writers, InHome
<1>2. UNCHANGED <<file, mem, held, abreast, ledger, crossed>>
  BY DEF Apart, home
<1>3. HeldIsMem => HeldIsMem'
  BY <1>2 DEF Apart, HeldIsMem, InHome
<1> QED
  BY <1>1, <1>2, <1>3 DEF HomeInv, InTurn, WillCross

\* A command has no goroutine at the file when it reads it.
LEMMA LoadKeeps ==
    ASSUME HomeInv, HomeTypeOK, NEW t \in Terminal, Load(t),
           \A i \in Thread : stage[t][i] \notin InHome /\ stage'[t][i] \notin InHome,
           \A u \in Terminal \ {t} : stage'[u] = stage[u]
    PROVE  HomeInv'
<1>1. /\ Opening' = Opening /\ Fillers' = Fillers /\ Writers' = Writers
      /\ t \notin Writers
  BY DEF Opening, Fillers, Writers, InHome
<1>2. /\ UNCHANGED <<file, held, ledger, crossed>> /\ mem'[t] = file
      /\ \A u \in Terminal \ {t} : mem'[u] = mem[u] /\ (u \in abreast' <=> u \in abreast)
      /\ t \in abreast' <=> ~ Filling(t)
      /\ abreast' \subseteq abreast \cup {t}
  BY DEF Load, HomeTypeOK
<1>3. HeldIsMem => HeldIsMem'
  BY <1>1, <1>2 DEF HeldIsMem, InHome
<1>4. ASSUME InTurn PROVE InTurn'
  <2>1. Writers \subseteq Terminal \ {t} /\ Fillers \subseteq Writers
    BY <1>1 DEF Writers, Opening, Fillers
  <2>2. \A u \in Writers : u \in abreast' /\ mem'[u] = ledger /\ Writers = {u}
    BY <1>2, <1>4, <2>1 DEF InTurn
  <2>3. \A u \in Fillers : abreast' \subseteq {u} /\ file \in {NoConfig, mem'[u]}
    <3> SUFFICES ASSUME NEW u \in Fillers PROVE abreast' \subseteq {u} /\ file \in {NoConfig, mem'[u]}
      OBVIOUS
    <3>1. Filling(t) /\ abreast \subseteq {u} /\ file \in {NoConfig, mem[u]} /\ u # t
      BY <1>4, <2>1 DEF InTurn, Filling, Fillers
    <3> QED
      BY <1>2, <2>1, <3>1
  <2>4. Writers = {} => file = ledger /\ \A u \in abreast' : mem'[u] = ledger
    BY <1>2, <1>4 DEF InTurn, HomeTypeOK
  <2> QED
    BY <1>1, <1>2, <2>2, <2>3, <2>4 DEF InTurn
<1>5. ASSUME WillCross PROVE WillCross'
  BY <1>1, <1>2, <1>5 DEF WillCross, Writers
<1> QED
  BY <1>2, <1>3, <1>4, <1>5 DEF HomeInv

\* What a goroutine at stage s of terminal t makes of the sets of writers.
LEMMA Moved ==
    ASSUME stage \in [Terminal -> [Thread -> Stage]], NEW t \in Terminal, NEW i \in Thread,
           NEW s, Move(t, i, s)
    PROVE  /\ stage'[t][i] = s
           /\ \A u \in Terminal, j \in Thread : <<u, j>> # <<t, i>> => stage'[u][j] = stage[u][j]
           /\ Opening' \ {t} = Opening \ {t} /\ Fillers' \ {t} = Fillers \ {t}
           /\ s = "open" => t \in Opening' /\ (stage[t][i] # "fill" => Fillers' = Fillers)
           /\ s = "fill" => t \in Fillers'
           /\ s \notin InHome /\ stage[t][i] = "fill" => Opening' = Opening
           /\ s \notin InHome /\ stage[t][i] \notin InHome => Opening' = Opening /\ Fillers' = Fillers
<1>1. /\ stage'[t][i] = s
      /\ \A u \in Terminal, j \in Thread : <<u, j>> # <<t, i>> => stage'[u][j] = stage[u][j]
  BY DEF Move
<1> QED
  BY <1>1 DEF Opening, Fillers, InHome

LEMMA CopyKeeps ==
    ASSUME HomeInv, HomeTypeOK, stage \in [Terminal -> [Thread -> Stage]],
           NEW t \in Terminal, NEW i \in Thread, Copy(t, i)
    PROVE  HomeInv'
<1>1. /\ stage'[t][i] = "set" /\ stage[t][i] = "copy" /\ held'[t][i] = mem[t]
      /\ \A u \in Terminal, j \in Thread : <<u, j>> # <<t, i>> =>
            stage'[u][j] = stage[u][j] /\ held'[u][j] = held[u][j]
      /\ UNCHANGED <<file, mem, abreast, ledger, crossed>>
  BY Moved DEF Copy, HomeTypeOK
<1>2. Opening' = Opening /\ Fillers' = Fillers /\ Writers' = Writers
  BY <1>1 DEF Opening, Fillers, Writers
<1>3. HeldIsMem => HeldIsMem'
  BY <1>1 DEF HeldIsMem
<1> QED
  BY <1>1, <1>2, <1>3 DEF HomeInv, InTurn, WillCross

\* A change is made alike to the memory and to what the file should hold.
LEMMA SetKeeps ==
    ASSUME HomeInv, HomeTypeOK, stage \in [Terminal -> [Thread -> Stage]],
           NEW t \in Terminal, NEW i \in Thread, NEW c, NEW owed, Set(t, i, c, owed),
           held[t][i] = ledger => c = owed
    PROVE  HomeInv'
<1>1. /\ stage'[t][i] = "open" /\ stage[t][i] = "set" /\ mem'[t] = c /\ ledger' = owed
      /\ \A u \in Terminal, j \in Thread : <<u, j>> # <<t, i>> => stage'[u][j] = stage[u][j]
      /\ \A u \in Terminal \ {t} : mem'[u] = mem[u]
      /\ UNCHANGED <<file, held, abreast>>
      /\ crossed' = (crossed \/ \E j \in Thread \ {i} : stage[t][j] \in {"set", "fill"})
  BY Moved DEF Set, HomeTypeOK
<1>2. /\ Opening' = Opening \cup {t} /\ Fillers' = Fillers
      /\ Writers' = Writers \cup {t}
  BY <1>1 DEF Opening, Fillers, Writers
<1>3. SUFFICES ASSUME ~ crossed' PROVE HomeInv'
  BY DEF HomeInv
<1>4. /\ ~ crossed /\ HeldIsMem /\ t \notin Fillers
      /\ \A j \in Thread \ {i} : stage[t][j] \notin {"set", "fill"}
  BY <1>1, <1>3 DEF HomeInv, Fillers
<1>5. HeldIsMem'
  BY <1>1, <1>4 DEF HeldIsMem
<1>6. WillCross => WillCross'
  BY <1>1, <1>2 DEF WillCross
<1>7. ASSUME InTurn PROVE InTurn' \/ WillCross'
  <2>1. CASE t \notin abreast
    BY <1>1, <1>2, <2>1 DEF WillCross
  <2>2. CASE \E u \in Opening : u # t
    BY <1>2, <2>2 DEF WillCross
  <2>3. CASE t \in abreast /\ Opening \subseteq {t}
    <3>1. Fillers = {}
      <4> SUFFICES ASSUME NEW u \in Fillers PROVE FALSE
        OBVIOUS
      <4>1. abreast \subseteq {u}
        BY <1>7 DEF InTurn
      <4> QED
        BY <1>4, <2>3, <4>1
    <3>2. Writers \subseteq {t} /\ Writers' = {t} /\ Fillers' = {}
      BY <1>2, <2>3, <3>1 DEF Writers
    <3>3. mem[t] = ledger
      BY <1>7, <2>3, <3>2 DEF InTurn
    <3>4. c = owed
      BY <1>1, <1>4, <3>3 DEF HeldIsMem
    <3> QED
      BY <1>1, <2>3, <3>2, <3>4 DEF InTurn
  <2> QED
    BY <2>1, <2>2, <2>3
<1> QED
  BY <1>4, <1>5, <1>6, <1>7 DEF HomeInv

\* What is written is what the memory holds, which has all changes.
LEMMA OpenKeeps ==
    ASSUME HomeInv, HomeTypeOK, stage \in [Terminal -> [Thread -> Stage]],
           NEW t \in Terminal, NEW i \in Thread, Open(t, i)
    PROVE  HomeInv'
<1>1. /\ stage'[t][i] = "fill" /\ stage[t][i] = "open" /\ held'[t][i] = mem[t]
      /\ \A u \in Terminal, j \in Thread : <<u, j>> # <<t, i>> =>
            stage'[u][j] = stage[u][j] /\ held'[u][j] = held[u][j]
      /\ UNCHANGED <<mem, ledger>> /\ file' = NoConfig /\ abreast' = abreast \cap {t}
      /\ crossed' = (crossed \/ t \notin abreast \/ Filling(t))
  BY Moved DEF Open, HomeTypeOK
<1>2. SUFFICES ASSUME ~ crossed' PROVE HomeInv'
  BY DEF HomeInv
<1>3. ~ crossed /\ HeldIsMem /\ t \in abreast /\ ~ Filling(t) /\ abreast' = {t}
  BY <1>1, <1>2 DEF HomeInv
<1>4. /\ t \in Fillers' /\ t \in Opening /\ Fillers' = Fillers \cup {t}
      /\ Fillers \subseteq {t} /\ Opening' \cup {t} = Opening
  <2>1. Opening' \ {t} = Opening \ {t} /\ Fillers' \ {t} = Fillers \ {t}
    BY <1>1 DEF Opening, Fillers
  <2>2. t \in Fillers' /\ t \in Opening /\ Fillers \subseteq {t}
    BY <1>1, <1>3 DEF Opening, Fillers, Filling
  <2> QED
    BY <2>1, <2>2
<1>5. HeldIsMem'
  BY <1>1, <1>3 DEF HeldIsMem
<1>6. ASSUME WillCross PROVE WillCross'
  <2>1. PICK u \in Opening : u # t
    BY <1>3, <1>6 DEF WillCross
  <2> QED
    BY <1>3, <1>4, <2>1 DEF WillCross
<1>7. ASSUME InTurn PROVE InTurn'
  <2>1. Writers = {t} /\ mem[t] = ledger /\ Writers' = {t} /\ Fillers' = {t}
    <3>1. t \in Writers
      BY <1>4 DEF Writers
    <3> QED
      BY <1>4, <1>7, <3>1 DEF InTurn, Writers
  <2> QED
    BY <1>1, <1>3, <2>1 DEF InTurn
<1> QED
  BY <1>3, <1>5, <1>6, <1>7 DEF HomeInv

LEMMA FillKeeps ==
    ASSUME HomeInv, HomeTypeOK, stage \in [Terminal -> [Thread -> Stage]],
           NEW t \in Terminal, NEW i \in Thread, NEW s \in {"copy", "off"}, Fill(t, i, s)
    PROVE  HomeInv'
<1>1. /\ stage'[t][i] = s /\ stage[t][i] = "fill"
      /\ \A u \in Terminal, j \in Thread : <<u, j>> # <<t, i>> =>
            stage'[u][j] = stage[u][j] /\ held'[u][j] = held[u][j]
      /\ UNCHANGED <<mem, abreast, ledger, crossed>>
      /\ file' \in {held[t][i]} \cup
            (IF file # Garbled /\ Sections(file) \subseteq Sections(held[t][i])
             THEN {} ELSE {Garbled})
  BY Moved DEF Fill, HomeTypeOK
<1>2. SUFFICES ASSUME ~ crossed, HeldIsMem PROVE HomeInv'
  BY <1>1 DEF HomeInv
<1>3. t \in Fillers /\ Fillers' \subseteq Fillers /\ Fillers \subseteq Fillers' \cup {t} /\ Opening' = Opening
  BY <1>1 DEF Fillers, Opening
<1>4. HeldIsMem'
  BY <1>1, <1>2 DEF HeldIsMem
<1>5. WillCross => WillCross'
  BY <1>1, <1>3 DEF WillCross
<1>6. ASSUME InTurn PROVE InTurn'
  <2>1. /\ Writers = {t} /\ t \in abreast /\ mem[t] = ledger /\ abreast \subseteq {t}
        /\ file \in {NoConfig, mem[t]}
    <3>1. t \in Writers
      BY <1>3 DEF Writers
    <3> QED
      BY <1>3, <1>6, <3>1 DEF InTurn
  <2>2. Sections(NoConfig) = {}
    BY DEF Sections, NoConfig
  <2>3. held[t][i] = mem[t] /\ mem[t] \in Config /\ NoConfig \in Config
    BY <1>1, <1>2 DEF HeldIsMem, HomeTypeOK, NoConfig, Config
  <2>4. file' = mem[t]
    BY <1>1, <2>1, <2>2, <2>3, HomeAssumption
  <2>5. Writers' \subseteq {t} /\ Fillers' \subseteq {t}
    BY <1>3, <2>1 DEF Writers
  <2> QED
    BY <1>1, <2>1, <2>4, <2>5 DEF InTurn
<1> QED
  BY <1>1, <1>2, <1>4, <1>5, <1>6 DEF HomeInv

\* A process that dies without having begun to write has not crossed others.
LEMMA DeathKeeps ==
    ASSUME HomeInv, HomeTypeOK, NEW t \in Terminal, HomeDies(t),
           \A i \in Thread : stage'[t][i] \notin InHome,
           \A u \in Terminal \ {t} : stage'[u] = stage[u]
    PROVE  HomeInv'
<1>1. SUFFICES ASSUME ~ crossed' PROVE HomeInv'
  BY DEF HomeInv
<1>2. /\ UNCHANGED <<file, mem, abreast, ledger, crossed>>
      /\ \A u \in Terminal \ {t} : held'[u] = held[u]
      /\ \A i \in Thread : stage[t][i] \notin {"open", "fill"}
  BY <1>1 DEF HomeDies, HomeTypeOK
<1>3. Opening' = Opening /\ Fillers' = Fillers /\ Writers' = Writers
  BY <1>2 DEF Opening, Fillers, Writers, InHome
<1>4. HeldIsMem => HeldIsMem'
  BY <1>2 DEF HeldIsMem, InHome
<1> QED
  BY <1>2, <1>3, <1>4 DEF HomeInv, InTurn, WillCross

\* A step of make that goes wrong is one of make still.
LEMMA FaultMoves ==
    ASSUME NEW t \in Terminal, Faulty(t)
    PROVE  /\ UNCHANGED <<cmd, at, todo, kindVar, bounds>>
           /\ \/ UNCHANGED stage
              \/ \E i \in Thread : \E s : /\ Move(t, i, s) /\ s \notin InHome
                                          /\ stage[t][i] \notin InHome
                                          /\ s \in InDir => stage[t][i] \in InDir
<1>1. UNCHANGED <<cmd, at, todo, kindVar, bounds>>
  BY DEF Faulty, BuildReadyFails, BuildImageFails, MakeReadyFails, MakeTemplateFails,
         MakeApplyFails, StopMakeFails, StopDeleteFails, StopLateFails, Making, Halting, LateEnds
<1>2. /\ Main \in Thread
      /\ \A n \in Name : n \in Thread
  BY DEF Thread
<1>3. \/ UNCHANGED stage
      \/ \E i \in Thread : \E s : /\ Move(t, i, s) /\ s \notin InHome
                                  /\ stage[t][i] \notin InHome
                                  /\ s \in InDir => stage[t][i] \in InDir
  <2>1. ASSUME BuildReadyFails(t) PROVE Move(t, Main, "image") /\ stage[t][Main] = "sync"
    BY <2>1 DEF BuildReadyFails, Making
  <2>2. ASSUME BuildImageFails(t) PROVE Move(t, Main, "off") /\ stage[t][Main] = "image"
    BY <2>2 DEF BuildImageFails, Making
  <2>3. ASSUME NEW n \in Name, MakeReadyFails(t, n) PROVE Move(t, n, "template") /\ stage[t][n] = "sync"
    BY <2>3 DEF MakeReadyFails, Making
  <2>4. ASSUME NEW n \in Name, MakeTemplateFails(t, n) PROVE Move(t, n, "apply") /\ stage[t][n] = "template"
    BY <2>4 DEF MakeTemplateFails, Making
  <2>5. ASSUME NEW n \in Name, MakeApplyFails(t, n) PROVE Move(t, n, "clean") /\ stage[t][n] = "apply"
    BY <2>5 DEF MakeApplyFails, Making
  <2>6. ASSUME NEW n \in Name, StopMakeFails(t, n) PROVE Move(t, n, "delete") /\ stage[t][n] = "spawned"
    BY <2>6 DEF StopMakeFails, Halting
  <2>7. ASSUME NEW n \in Name, StopDeleteFails(t, n)
        PROVE  (Move(t, n, "wait") \/ Move(t, n, "off")) /\ stage[t][n] = "delete"
    BY <2>7 DEF StopDeleteFails, Halting
  <2>8. ASSUME NEW n \in Name, NEW o \in Object, StopLateFails(t, o, n)
        PROVE  UNCHANGED stage \/ (Move(t, n, "off") /\ stage[t][n] = "wait")
    BY <2>8 DEF StopLateFails, LateEnds
  <2> QED
    BY <1>2, <2>1, <2>2, <2>3, <2>4, <2>5, <2>6, <2>7, <2>8 DEF Faulty, InHome, InDir
<1> QED
  BY <1>1, <1>3

\* The steps that are not at the file.
LEMMA ApartSteps ==
    ASSUME Control, NEW t \in Terminal, Looping(t) \/ InMake(t) \/ Stopping(t) \/ Faulty(t)
                               \/ ExposeCreate(t) \/ Write(t) \/ Note(t) \/ Return(t)
    PROVE  Apart
<1>0. UNCHANGED home /\ stage \in [Terminal -> [Thread -> Stage]]
  BY HomeIsLeft DEF Control
<1>1. ASSUME NEW i \in Thread, NEW s, Move(t, i, s), s \notin InHome, stage[t][i] \notin InHome
      PROVE  Apart
  <2>1. /\ stage'[t][i] = s
        /\ \A u \in Terminal, j \in Thread : <<u, j>> # <<t, i>> => stage'[u][j] = stage[u][j]
    BY <1>0, <1>1 DEF Move
  <2> QED
    BY <1>0, <1>1, <2>1 DEF Apart
<1>2. ASSUME UNCHANGED stage PROVE Apart
  BY <1>0, <1>2 DEF Apart
<1>3. ASSUME Looping(t) PROVE Apart
  <2>1. CASE BuildNext(t)
    BY <1>1, <2>1 DEF BuildNext, InHome, Thread
  <2>2. CASE StopNext(t)
    <3>1. PICK n \in todo[t] : Move(t, n, "spawned")
      BY <2>2 DEF StopNext
    <3>2. /\ stage' = [stage EXCEPT ![t][n] = "spawned"] /\ cmd[t].op = "stop"
      BY <2>2, <3>1 DEF Move, StopNext
    <3>3. \A j \in Thread : stage[t][j] \notin InHome
      BY <3>2 DEF Control, ThreadsAreItsOwn, OnConfig
    <3>4. \A u \in Terminal, j \in Thread :
             stage'[u][j] = stage[u][j] \/ (u = t /\ stage'[u][j] = "spawned")
      BY <1>0, <3>2
    <3> QED
      BY <1>0, <3>3, <3>4 DEF Apart, InHome
  <2>3. CASE StopUnknown(t)
    <3>1. \A u \in Terminal, j \in Thread :
             stage'[u][j] = stage[u][j] \/ (stage[u][j] = "spawned" /\ stage'[u][j] = "off")
      BY <1>0, <2>3 DEF StopUnknown
    <3> QED
      BY <1>0, <3>1 DEF Apart, InHome
  <2>4. CASE BuildUnknown(t) \/ GcDelete(t) \/ \E k \in Kind :
             \/ Rmk(t, k) \/ Push(t, k) \/ Pull(t, k) \/ PullGit(t, k)
             \/ GcCount(t, k) \/ GcCountFails(t, k)
    BY <1>2, <2>4 DEF BuildUnknown, GcDelete, Rmk, Push, Pull, PullGit, GcCount, GcCountFails, ForNext
  <2> QED
    BY <1>3, <2>1, <2>2, <2>3, <2>4 DEF Looping
<1>4. ASSUME InMake(t) PROVE Apart
  <2>1. \E i \in Thread : \E s, from : Move(t, i, s) /\ stage[t][i] = from
                                   /\ s \notin InHome /\ from \notin InHome
    <3>1. ASSUME NEW i \in Thread, MakeDir(t, i) PROVE Move(t, i, "sync") /\ stage[t][i] = "rm"
      BY <3>1 DEF MakeDir, Making
    <3>2. ASSUME NEW n \in Name, MakeReady(t, n)
          PROVE  Move(t, n, "template") /\ stage[t][n] = "sync"
      BY <3>2 DEF MakeReady, Making
    <3>3. ASSUME NEW n \in Name, MakeTemplate(t, n)
          PROVE  (Move(t, n, "apply") \/ Move(t, n, "clean")) /\ stage[t][n] = "template"
      BY <3>3 DEF MakeTemplate, Making
    <3>4. ASSUME NEW n \in Name, MakeApply(t, n)
          PROVE  Move(t, n, "clean") /\ stage[t][n] = "apply"
      BY <3>4 DEF MakeApply, Making
    <3>5. ASSUME NEW n \in Name, MakeClean(t, n)
          PROVE  (Move(t, n, "copy") \/ Move(t, n, "off")) /\ stage[t][n] = "clean"
      BY <3>5 DEF MakeClean, Making
    <3>6. ASSUME BuildReady(t) PROVE Move(t, Main, "image") /\ stage[t][Main] = "sync"
      BY <3>6 DEF BuildReady, Making
    <3>7. ASSUME BuildImage(t) PROVE Move(t, Main, "off") /\ stage[t][Main] = "image"
      BY <3>7 DEF BuildImage, Making
    <3>8. \A n \in Name : n \in Thread
      BY DEF Thread
    <3>9. Main \in Thread
      BY DEF Thread
    <3> QED
      BY <1>4, <3>1, <3>2, <3>3, <3>4, <3>5, <3>6, <3>7, <3>8, <3>9 DEF InMake, InHome
  <2> QED
    BY <2>1, <1>1
<1>5. ASSUME Stopping(t) \/ Faulty(t) PROVE Apart
  <2>1. UNCHANGED stage \/ \E i \in Thread : \E s : Move(t, i, s)
                                /\ s \notin InHome /\ stage[t][i] \notin InHome
    <3>1. CASE Stopping(t)
      BY <3>1 DEF Stopping, StopMake, StopDelete, StopLate, Halting, LateEnds, InHome, Thread
    <3>2. CASE Faulty(t)
      <4>1. \/ UNCHANGED stage
            \/ \E i \in Thread : \E s : /\ Move(t, i, s) /\ s \notin InHome
                                        /\ stage[t][i] \notin InHome
                                        /\ s \in InDir => stage[t][i] \in InDir
        BY <3>2, FaultMoves
      <4> QED
        BY <4>1
    <3> QED
      BY <1>5, <3>1, <3>2
  <2> QED
    BY <1>1, <1>2, <2>1
<1>6. ASSUME ExposeCreate(t) \/ Write(t) \/ Note(t) \/ Return(t) PROVE Apart
  BY <1>2, <1>6 DEF ExposeCreate, Write, Note, Return
<1> QED
  BY <1>3, <1>4, <1>5, <1>6

LEMMA HomeStep == CInv /\ HomeInv /\ [Next]_vars => HomeInv'
<1> SUFFICES ASSUME CInv, HomeInv, [Next]_vars PROVE HomeInv'
  OBVIOUS
<1>0. Control /\ HomeTypeOK /\ stage \in [Terminal -> [Thread -> Stage]]
  BY ControlHolds DEF CInv, TypeOK
<1>1. ASSUME NEW t \in Terminal, Entering(t) PROVE HomeInv'
  <2>1. PICK c, x : Began(t, c, x)
    BY <1>1, Beginning
  <2>2. /\ \A i \in Thread : stage[t][i] = "off" /\ stage'[t][i] \in {"off", "copy", "rm"}
        /\ \A u \in Terminal \ {t} : stage'[u] = stage[u]
    BY <1>0, <2>1 DEF Began, Started, Threads, Control
  <2>3. CASE Load(t)
    BY <1>0, <2>2, <2>3, LoadKeeps DEF InHome
  <2>4. CASE UNCHANGED home
    BY <2>2, <2>4, ApartKeeps DEF Apart, InHome
  <2> QED
    BY <2>1, <2>3, <2>4 DEF Began
<1>2. ASSUME NEW t \in Terminal, OnFile(t) PROVE HomeInv'
  <2>1. PICK i \in Thread : CopyConfig(t, i) \/ SetConfig(t, i) \/ OpenConfig(t, i) \/ FillConfig(t, i)
    BY <1>2 DEF OnFile
  <2>2. CASE CopyConfig(t, i)
    BY <1>0, <2>2, CopyKeeps DEF CopyConfig
  <2>3. CASE OpenConfig(t, i)
    BY <1>0, <2>3, OpenKeeps DEF OpenConfig
  <2>4. CASE FillConfig(t, i)
    BY <1>0, <2>4, FillKeeps DEF FillConfig
  <2>5. CASE SetConfig(t, i)
    <3>1. PICK x : Set(t, i, Edited(held[t][i], t, i, x), Edited(ledger, t, i, x))
      BY <2>5 DEF SetConfig
    <3>2. held[t][i] = ledger => Edited(held[t][i], t, i, x) = Edited(ledger, t, i, x)
      OBVIOUS
    <3> QED
      BY <1>0, <3>1, <3>2, SetKeeps
  <2> QED
    BY <2>1, <2>2, <2>3, <2>4, <2>5
<1>3. ASSUME NEW t \in Terminal, Kill(t) \/ Panic(t) PROVE HomeInv'
  <2>1. /\ HomeDies(t) /\ \A u \in Terminal \ {t} : stage'[u] = stage[u]
        /\ \A i \in Thread : stage'[t][i] \notin InHome
    BY <1>0, <1>3 DEF Kill, Panic, NoThreads, InHome
  <2> QED
    BY <1>0, <2>1, DeathKeeps
<1>4. CASE UNCHANGED vars
  BY <1>4, ApartKeeps DEF vars, threads, Apart
<1> QED
  BY <1>0, <1>1, <1>2, <1>3, <1>4, Groups, ApartSteps, ApartKeeps DEF Ending

LEMMA HomeBegins == Init => HomeInv
<1> SUFFICES ASSUME Init PROVE HomeInv
  OBVIOUS
<1>1. /\ file = ledger /\ abreast = {} /\ stage = [t \in Terminal |-> NoThreads]
  BY DEF Init
<1>2. Opening = {} /\ Fillers = {} /\ Writers = {}
  BY <1>1 DEF Opening, Fillers, Writers, NoThreads
<1>3. HeldIsMem
  BY <1>1 DEF HeldIsMem, NoThreads
<1> QED
  BY <1>1, <1>2, <1>3 DEF HomeInv, InTurn

\* Every change made through the alias and config packages is in the file once
\* it is made, whatever else is run, unless two commands or two goroutines met
\* at it (digi.go:812) or a write was cut short.
THEOREM HomeTheorem == Spec => []HomeKept
<1>1. HomeInv => HomeKept
  BY DEF HomeInv, InTurn, WillCross, HomeKept, Writers, Opening, Fillers, InHome
<1>2. (CInv /\ HomeInv) /\ [Next]_vars => (CInv /\ HomeInv)'
  BY TypesStep, HomeStep
<1> QED
  BY <1>1, <1>2, InitTypes, HomeBegins, PTL DEF Spec

-----------------------------------------------------------------------------
(* ~/.kube/config                                                          *)

\* What a command writes back is what it has read, with its change, if no other
\* has written; and ctx - writes the context that is noted now.
ReadIsCurrent ==
    \A t \in Terminal : at[t] = "write" /\ t \in aware =>
        copy[t] = kube /\ (cmd[t].op = "swap" => cmd[t].name = prev)

KubeInv == ReadIsCurrent /\ (strayed \/ prev = last)

\* A step that reads and writes neither file.
Aside ==
    /\ UNCHANGED kubeFiles
    /\ \A t \in Terminal : at'[t] = "write" => at[t] = "write" /\ cmd'[t] = cmd[t]

LEMMA AsideKeeps == ASSUME KubeInv, Aside PROVE KubeInv'
BY DEF KubeInv, Aside, ReadIsCurrent, kubeFiles

LEMMA AsideSteps ==
    ASSUME Control, NEW t \in Terminal, Looping(t) \/ InMake(t) \/ Stopping(t) \/ Faulty(t)
                                        \/ OnFile(t) \/ ExposeCreate(t) \/ Return(t) \/ Panic(t)
    PROVE  Aside
<1>0. UNCHANGED kubeFiles /\ at \in [Terminal -> {"idle", "loop", "gc", "threads", "write", "note", "create"}]
  BY KubeIsLeft DEF Control
<1>1. CASE Looping(t)
  <2>1. cmd' = cmd /\ (at' = at \/ \E a : at' = [at EXCEPT ![t] = a] /\ a # "write")
    <3>1. CASE BuildNext(t) \/ BuildUnknown(t)
      BY <3>1 DEF BuildNext, BuildUnknown, OnOr, Go
    <3>2. CASE StopNext(t) \/ StopUnknown(t)
      BY <3>2 DEF StopNext, StopUnknown, OnOr, Go
    <3>3. CASE GcDelete(t)
      BY <3>3 DEF GcDelete, OnOr, Go
    <3>4. ASSUME NEW k \in Kind, Rmk(t, k) \/ Push(t, k) \/ Pull(t, k) \/ PullGit(t, k)
          PROVE  cmd' = cmd /\ \E a : at' = [at EXCEPT ![t] = a] /\ a # "write"
      BY <3>4 DEF Rmk, Push, Pull, PullGit, ForNext, Taken, OnOr, Go
    <3>5. ASSUME NEW k \in Kind, GcCount(t, k) \/ GcCountFails(t, k)
          PROVE  cmd' = cmd /\ \E a : at' = [at EXCEPT ![t] = a] /\ a # "write"
      BY <3>5 DEF GcCount, GcCountFails, ForNext, OnOr, Go
    <3> QED
      BY <1>1, <3>1, <3>2, <3>3, <3>4, <3>5 DEF Looping
  <2> QED
    BY <1>0, <2>1 DEF Aside
<1>2. CASE InMake(t) \/ Stopping(t) \/ Faulty(t) \/ OnFile(t)
  <2>1. UNCHANGED <<cmd, at>>
    BY <1>2, FaultMoves
    DEF InMake, Stopping, OnFile, BuildReady, BuildImage, MakeDir, MakeReady, MakeTemplate,
        MakeApply, MakeClean, Making, StopMake, StopDelete, StopLate, Halting, LateEnds, CopyConfig, SetConfig,
        OpenConfig, FillConfig, InThread
  <2> QED
    BY <1>0, <2>1 DEF Aside
<1>3. CASE ExposeCreate(t) \/ Return(t)
  BY <1>0, <1>3 DEF ExposeCreate, Return, Exit, Go, Control, Aside
<1>4. CASE Panic(t)
  <2>1. cmd[t].op = "run" /\ at' = at /\ cmd' = [cmd EXCEPT ![t].alias = FALSE]
    BY <1>4, PanicIsInRun DEF Panic
  <2>2. at[t] # "write"
    BY <2>1 DEF Control, AtItsOwn, OfSpaces
  <2> QED
    BY <1>0, <2>1, <2>2 DEF Aside, Control
<1> QED
  BY <1>1, <1>2, <1>3, <1>4

LEMMA KubeStep == CInv /\ KubeInv /\ [Next]_vars => KubeInv'
<1> SUFFICES ASSUME CInv, KubeInv, [Next]_vars PROVE KubeInv'
  OBVIOUS
<1>0. Control /\ SpacesTypeOK /\ Shell = Terminal
  BY ControlHolds, CliAssumption DEF CInv, TypeOK
<1>1. ASSUME NEW t \in Terminal, Entering(t) PROVE KubeInv'
  <2>1. PICK c, x : Began(t, c, x)
    BY <1>1, Beginning
  <2>2. /\ cmd'[t] = c /\ at'[t] = First(c)
        /\ \A u \in Terminal \ {t} : cmd'[u] = cmd[u] /\ at'[u] = at[u]
        /\ c.op \in OnConfig \cup Loops \cup {"run", "expose"} \cup OfSpaces
        /\ c.op = "swap" => c.name = prev
    BY <1>0, <2>1 DEF Began, Control
  <2>3. CASE ReadKube(t)
    <3>1. /\ copy'[t] = kube /\ UNCHANGED <<kube, prev, last, strayed>>
          /\ \A u \in Terminal \ {t} : copy'[u] = copy[u] /\ (u \in aware' <=> u \in aware)
      BY <1>0, <2>3 DEF ReadKube, SpacesTypeOK
    <3> QED
      BY <2>2, <3>1 DEF KubeInv, ReadIsCurrent
  <2>4. CASE UNCHANGED kubeFiles /\ c.op \notin OfSpaces
    <3>1. First(c) # "write"
      BY <2>2, <2>4 DEF First
    <3>2. Aside
      BY <2>2, <2>4, <3>1 DEF Aside
    <3> QED
      BY <3>2, AsideKeeps
  <2> QED
    BY <2>1, <2>3, <2>4 DEF Began
<1>2. ASSUME NEW t \in Terminal, Write(t) PROVE KubeInv'
  <2>1. /\ WriteKube(t, cmd[t])
        /\ at'[t] # "write" /\ \A u \in Terminal \ {t} : at'[u] = at[u] /\ cmd'[u] = cmd[u]
    BY <1>0, <1>2 DEF Write, Exit, Go, Control
  <2>2. /\ UNCHANGED <<prev, copy>> /\ strayed' = (strayed \/ kube' # kube \/ last' # last)
        /\ aware' \subseteq aware /\ (kube' # kube => aware' \subseteq {t})
    BY <2>1 DEF WriteKube
  <2>3. ReadIsCurrent'
    BY <2>1, <2>2 DEF KubeInv, ReadIsCurrent
  <2> QED
    BY <2>2, <2>3 DEF KubeInv
<1>3. ASSUME NEW t \in Terminal, Note(t) PROVE KubeInv'
  <2>1. /\ NotePrev(t)
        /\ at'[t] = "idle" /\ \A u \in Terminal \ {t} : at'[u] = at[u] /\ cmd'[u] = cmd[u]
    BY <1>0, <1>3 DEF Note, Exit, Go, Control
  <2>2. /\ UNCHANGED <<kube, copy, last>> /\ strayed' = (t \notin aware \/ prev' # last)
        /\ aware' \subseteq aware /\ (prev' # prev => aware' \subseteq {t})
    BY <2>1 DEF NotePrev
  <2>3. ReadIsCurrent'
    BY <2>1, <2>2 DEF KubeInv, ReadIsCurrent
  <2> QED
    BY <2>2, <2>3 DEF KubeInv
<1>4. ASSUME NEW t \in Terminal, Kill(t) PROVE KubeInv'
  <2>1. /\ UNCHANGED <<kube, prev, copy, aware, last>> /\ (strayed => strayed')
        /\ at'[t] = "idle" /\ \A u \in Terminal \ {t} : at'[u] = at[u] /\ cmd'[u] = cmd[u]
    BY <1>0, <1>4 DEF Kill, Exit, Go, Control
  <2> QED
    BY <2>1 DEF KubeInv, ReadIsCurrent
<1>5. CASE UNCHANGED vars
  BY <1>5, AsideKeeps DEF vars, threads, Aside
<1> QED
  BY <1>0, <1>1, <1>2, <1>3, <1>4, <1>5, Groups, AsideSteps, AsideKeeps DEF Ending

LEMMA KubeBegins == Init => KubeInv
BY DEF Init, KubeInv, ReadIsCurrent

\* A command's change leaves the other contexts where they led.
LEMMA ChangedLeads ==
    ASSUME Control, NEW t \in Terminal, at[t] = "write", NEW k \in Kube, NEW c, c = cmd[t],
           NEW s \in Contexts(k) \ About(c)
    PROVE  \/ Leads(Changed(k, c), s) = Leads(k, s)
           \/ Nowhere \in {Leads(k, s)[1], Leads(k, s)[2]}
           \/ c.op = "delete" /\ c.name \in {k.contexts[s].cluster, k.contexts[s].user}
<1>0. /\ c.op \in OfSpaces /\ s \in Id /\ k.contexts[s] # Nowhere /\ k.contexts[s] \in Context
      /\ k.contexts \in [Id -> Context \cup {Nowhere}] /\ k.clusters \in [Id -> Server \cup {Nowhere}]
      /\ k.users \in [Id -> Server \cup {Nowhere}]
  BY DEF Control, AtItsOwn, Kube, Entries, Contexts, There
<1>1. k.contexts[s].cluster \in Id /\ k.contexts[s].user \in Id
  BY <1>0 DEF Context
<1>2. ASSUME NEW j, j.contexts[s] = k.contexts[s],
             j.clusters[k.contexts[s].cluster] = k.clusters[k.contexts[s].cluster],
             j.users[k.contexts[s].user] = k.users[k.contexts[s].user]
      PROVE  Leads(j, s) = Leads(k, s)
  BY <1>2 DEF Leads
<1>3. CASE c.op = "add"
  <2>1. Changed(k, c) = Merged(k, c.given)
    BY <1>3 DEF Changed
  <2>2. Leads(k, s) = <<k.clusters[k.contexts[s].cluster], k.users[k.contexts[s].user]>>
    BY <1>0 DEF Leads
  <2>3. CASE k.clusters[k.contexts[s].cluster] # Nowhere /\ k.users[k.contexts[s].user] # Nowhere
    <3>1. /\ Over(k.contexts, c.given.contexts)[s] = k.contexts[s]
          /\ Over(k.clusters, c.given.clusters)[k.contexts[s].cluster] = k.clusters[k.contexts[s].cluster]
          /\ Over(k.users, c.given.users)[k.contexts[s].user] = k.users[k.contexts[s].user]
      BY <1>0, <1>1, <2>3 DEF Over
    <3>2. Leads(Merged(k, c.given), s) = Leads(k, s)
      BY <1>2, <3>1 DEF Merged
    <3> QED
      BY <2>1, <3>2
  <2> QED
    BY <2>2, <2>3
<1>4. CASE c.op = "delete" /\ c.name \notin {k.contexts[s].cluster, k.contexts[s].user}
  <2>1. Changed(k, c) = Deleted(k, c.name) /\ s # c.name
    BY <1>4 DEF Changed, About
  <2>2. Leads(Deleted(k, c.name), s) = Leads(k, s)
    BY <1>0, <1>1, <1>2, <1>4, <2>1 DEF Deleted
  <2> QED
    BY <2>1, <2>2
<1>5. CASE c.op \in {"use", "swap"}
  <2>1. Changed(k, c) = [k EXCEPT !.current = c.name]
    BY <1>5 DEF Changed
  <2>2. Leads([k EXCEPT !.current = c.name], s) = Leads(k, s)
    BY <1>2 DEF Kube
  <2> QED
    BY <2>1, <2>2
<1>6. CASE c.op \in {"rename", "alias"}
  <2>1. Changed(k, c) = Renamed(k, c.name, c.new) /\ s # c.name /\ s # c.new
    BY <1>6 DEF Changed, About
  <2>2. Leads(Renamed(k, c.name, c.new), s) = Leads(k, s)
    BY <1>0, <1>2, <2>1 DEF Renamed
  <2> QED
    BY <2>1, <2>2
<1>7. CASE c.op = "forget"
  <2>1. Changed(k, c) = [k EXCEPT !.contexts[c.name] = Nowhere] /\ s # c.name
    BY <1>7 DEF Changed, About
  <2>2. Leads([k EXCEPT !.contexts[c.name] = Nowhere], s) = Leads(k, s)
    BY <1>0, <1>2, <2>1 DEF Kube
  <2> QED
    BY <2>1, <2>2
<1>8. CASE c.op = "unset"
  <2>1. Changed(k, c) = [k EXCEPT !.current = NoId]
    BY <1>8 DEF Changed
  <2>2. Leads([k EXCEPT !.current = NoId], s) = Leads(k, s)
    BY <1>2 DEF Kube
  <2> QED
    BY <2>1, <2>2
<1> QED
  BY <1>0, <1>3, <1>4, <1>5, <1>6, <1>7, <1>8 DEF OfSpaces

\* What SpacesKept says of a step.
SpacesKeptBy(t) ==
    /\ \A s \in Contexts(kube) \ About(cmd[t]) :
          \/ Leads(kube', s) = Leads(kube, s)
          \/ Nowhere \in {Leads(kube, s)[1], Leads(kube, s)[2]}
          \/ /\ cmd[t].op = "delete"
             /\ cmd[t].name \in {kube.contexts[s].cluster, kube.contexts[s].user}
    /\ cmd[t].op = "swap" => strayed \/ kube'.current = last

LEMMA WritesKeep ==
    CInv /\ KubeInv /\ [Next]_vars => \A t \in Terminal : Wrote(t) => SpacesKeptBy(t)
<1> SUFFICES ASSUME CInv, KubeInv, [Next]_vars, NEW t \in Terminal, Wrote(t)
             PROVE  SpacesKeptBy(t)
  OBVIOUS
<1>0. Control /\ SpacesTypeOK /\ kills \in Nat /\ at[t] = "write" /\ at'[t] # "write" /\ kills' = kills
  BY ControlHolds DEF CInv, TypeOK, BoundsOK, Wrote
<1>1. Write(t)
  <2>1. ASSUME NEW u \in Terminal, Entering(u) PROVE u # t /\ at'[t] = at[t]
    BY <1>0, <2>1, Beginning DEF Began, Control
  <2>2. ASSUME NEW u \in Terminal, Looping(u) PROVE at'[t] = at[t]
    <3>1. /\ at[u] # "write"
          /\ (at' = at \/ \E a : at' = [at EXCEPT ![u] = a])
      BY <2>2 DEF Looping, BuildNext, BuildUnknown, StopNext, StopUnknown, GcDelete, Rmk, Push,
                  Pull, PullGit, GcCount, GcCountFails, ForNext, Taken, OnOr, Go
    <3> QED
      BY <1>0, <3>1 DEF Control
  <2>3. ASSUME NEW u \in Terminal, InMake(u) \/ Stopping(u) \/ Faulty(u) \/ OnFile(u)
        PROVE  at' = at
    BY <2>3, FaultMoves
    DEF InMake, Stopping, OnFile, BuildReady, BuildImage, MakeDir, MakeReady, MakeTemplate,
        MakeApply, MakeClean, Making, StopMake, StopDelete, StopLate, Halting, LateEnds, CopyConfig, SetConfig,
        OpenConfig, FillConfig, InThread
  <2>4. ASSUME NEW u \in Terminal, ExposeCreate(u) \/ Note(u) \/ Return(u) \/ Panic(u)
        PROVE  at'[t] = at[t]
    BY <1>0, <2>4 DEF ExposeCreate, Note, Return, Panic, Exit, Go, Control
  <2>5. ASSUME NEW u \in Terminal, Kill(u) PROVE FALSE
    BY <1>0, <2>5 DEF Kill
  <2>6. ASSUME NEW u \in Terminal, Write(u) PROVE u = t
    BY <1>0, <2>6 DEF Write, Exit, Go, Control
  <2>7. ~ UNCHANGED vars
    BY <1>0 DEF vars, threads
  <2> QED
    BY <1>0, <2>1, <2>2, <2>3, <2>4, <2>5, <2>6, <2>7, Groups DEF Ending
<1>2. /\ copy[t] = kube /\ kube \in Kube /\ kube' = Changed(kube, cmd[t])
      /\ cmd[t].op = "swap" => cmd[t].name = prev
  BY <1>0, <1>1 DEF Write, WriteKube, KubeInv, ReadIsCurrent, Wrote, SpacesTypeOK
<1>3. cmd[t].op = "swap" => strayed \/ kube'.current = last
  <2> SUFFICES ASSUME cmd[t].op = "swap", ~ strayed PROVE kube'.current = last
    OBVIOUS
  <2>1. prev = last /\ kube' = [kube EXCEPT !.current = prev]
    BY <1>2 DEF KubeInv, Changed
  <2> QED
    BY <1>2, <2>1 DEF Kube
<1> QED
  BY <1>0, <1>2, <1>3, ChangedLeads DEF SpacesKeptBy

\* A command on one space leaves the others where they led, if no other has
\* written the file since it read it, but for those whose cluster or user has
\* the name of the space DeleteKubeConfig deletes; and ctx - leads back to the
\* space in use before the last switch.
THEOREM SpacesTheorem == Spec => SpacesKept
<1>1. CInv /\ KubeInv /\ [Next]_vars =>
        [\A t \in Terminal : Wrote(t) =>
          /\ \A s \in Contexts(kube) \ About(cmd[t]) :
                \/ Leads(kube', s) = Leads(kube, s)
                \/ Nowhere \in {Leads(kube, s)[1], Leads(kube, s)[2]}
                \/ /\ cmd[t].op = "delete"
                   /\ cmd[t].name \in {kube.contexts[s].cluster, kube.contexts[s].user}
          /\ cmd[t].op = "swap" => strayed \/ kube'.current = last]_vars
  BY WritesKeep DEF SpacesKeptBy
<1>2. (CInv /\ KubeInv) /\ [Next]_vars => (CInv /\ KubeInv)'
  BY TypesStep, KubeStep
<1> QED
  BY <1>1, <1>2, InitTypes, KubeBegins, PTL DEF Spec, SpacesKept

-----------------------------------------------------------------------------
(* Makes                                                                   *)

\* The commands that MakesAll says nothing of.
Marked == hit \cup spoilt

\* Whoever works in the directory beside goroutine i of command t.
Fellows(t, i) ==
    {u \in Terminal : \E j \in Thread :
        <<u, j>> # <<t, i>> /\ stage[u][j] \in InDir /\ KindOf(u) = KindOf(t)}

\* Nobody works in the directory beside a command that is not marked.
Alone(t) ==
    \A i \in Thread : stage[t][i] \in InDir => Fellows(t, i) = {}

\* How far the make of digi n of command t has come.
Progress(t, n) ==
    LET k == cmd[t].kind
        d == dir[k]
    IN  /\ stage[t][n] \in {"template", "apply"} =>
              d.is = "whole" /\ (Here # Nowhere => k \in space[Here].kinds)
        /\ stage[t][n] = "apply" => <<t, n>> \in d.users /\ d.yaml = n /\ d.cr
        /\ stage[t][n] \in {"clean", "copy", "off"} \cup InHome /\ Here # Nowhere => Runs(k, n)

RunOK(t) ==
    cmd[t].op = "run" =>
        cmd[t].kind \in profile /\ \A n \in cmd[t].names : Progress(t, n)

\* How far digi build has come with kind k.
Built(t, k) ==
    \/ k \in todo[t]
    \/ k = kindVar[t] /\ stage[t][Main] \in {"rm", "sync", "image"}
    \/ image[<<k, mem[t].setting>>] = "whole"

BuildOK(t) ==
    cmd[t].op = "build" =>
        /\ \A k \in cmd[t].kinds : Built(t, k)
        /\ stage[t][Main] # "off" => kindVar[t] \in cmd[t].kinds \ todo[t]
        /\ \A k \in cmd[t].kinds \ todo[t] : k \in profile
        /\ stage[t][Main] = "image" => dir[kindVar[t]].is = "whole"
        /\ at[t] = "threads" => todo[t] = {}

MakeInv == \A t \in Terminal \ Marked : Alone(t) /\ RunOK(t) /\ BuildOK(t)

\* What is t's own changes with its steps alone.
Own(t) == <<cmd[t], at[t], stage[t], todo[t], kindVar[t], mem[t]>>

LEMMA OwnIsKept ==
    ASSUME CInv, NEW t \in Terminal, NEW u \in Terminal \ {t},
           \/ Entering(u) \/ Looping(u) \/ InMake(u) \/ Stopping(u) \/ Faulty(u)
           \/ OnFile(u) \/ Ending(u)
    PROVE  Own(t)' = Own(t)
<1>0. Control /\ HomeTypeOK
  BY ControlHolds DEF CInv, TypeOK
<1>1. CASE Entering(u)
  <2>1. PICK c, x : Began(u, c, x)
    BY <1>1, Beginning
  <2>2. mem'[t] = mem[t]
    BY <1>0, <2>1 DEF Began, Load, home, HomeTypeOK
  <2>3. stage'[t] = stage[t]
    BY <1>0, <2>1 DEF Began, Started, Threads, Control
  <2>4. cmd'[t] = cmd[t] /\ at'[t] = at[t] /\ todo'[t] = todo[t] /\ kindVar'[t] = kindVar[t]
    BY <1>0, <2>1 DEF Began, Control
  <2> QED
    BY <2>2, <2>3, <2>4 DEF Own
<1>2. CASE Looping(u)
  <2>1. UNCHANGED <<cmd, mem>>
    BY <1>2, HomeIsLeft
    DEF Looping, BuildNext, BuildUnknown, StopNext, StopUnknown, GcDelete, Rmk, Push, Pull,
        PullGit, GcCount, GcCountFails, ForNext, home
  <2>2. /\ todo' = todo \/ \E x : todo' = [todo EXCEPT ![u] = x]
        /\ kindVar' = kindVar \/ \E x : kindVar' = [kindVar EXCEPT ![u] = x]
        /\ at' = at \/ \E x : at' = [at EXCEPT ![u] = x]
    BY <1>2
    DEF Looping, BuildNext, BuildUnknown, StopNext, StopUnknown, GcDelete, Rmk, Push, Pull,
        PullGit, GcCount, GcCountFails, ForNext, Taken, OnOr, Go
  <2>3. stage' = stage \/ \E x : stage' = [stage EXCEPT ![u] = x]
    <3>1. CASE BuildNext(u)
      BY <3>1 DEF BuildNext, Move
    <3>2. CASE StopNext(u)
      BY <3>2 DEF StopNext, Move
    <3>3. CASE StopUnknown(u)
      BY <3>3 DEF StopUnknown
    <3>4. CASE ~ (BuildNext(u) \/ StopNext(u) \/ StopUnknown(u))
      BY <1>2, <3>4 DEF Looping, BuildUnknown, GcDelete, Rmk, Push, Pull, PullGit, GcCount, GcCountFails, ForNext
    <3> QED
      BY <3>1, <3>2, <3>3, <3>4
  <2> QED
    BY <1>0, <2>1, <2>2, <2>3 DEF Own, Control
<1>3. CASE InMake(u)
  <2>1. UNCHANGED <<cmd, at, todo, kindVar, mem>>
    BY <1>3 DEF InMake, BuildReady, BuildImage, MakeDir, MakeReady, MakeTemplate, MakeApply,
                MakeClean, Making, home
  <2>2. \E i, x : stage' = [stage EXCEPT ![u][i] = x]
    BY <1>3 DEF InMake, BuildReady, BuildImage, MakeDir, MakeReady, MakeTemplate, MakeApply,
                MakeClean, Making, Move
  <2> QED
    BY <1>0, <2>1, <2>2 DEF Own, Control
<1>4. CASE Stopping(u)
  <2>1. UNCHANGED <<cmd, at, todo, kindVar, mem>>
    BY <1>4 DEF Stopping, StopMake, StopDelete, StopLate, Halting, LateEnds, home
  <2>2. stage' = stage \/ \E i, x : stage' = [stage EXCEPT ![u][i] = x]
    BY <1>4 DEF Stopping, StopMake, StopDelete, StopLate, Halting, LateEnds, Move
  <2> QED
    BY <1>0, <2>1, <2>2 DEF Own, Control
<1>5. CASE OnFile(u)
  <2>1. PICK i \in Thread : CopyConfig(u, i) \/ SetConfig(u, i) \/ OpenConfig(u, i) \/ FillConfig(u, i)
    BY <1>5 DEF OnFile
  <2>2. UNCHANGED <<cmd, at, kindVar>>
    BY <2>1 DEF CopyConfig, SetConfig, OpenConfig, FillConfig, InThread
  <2>3. \E x : stage' = [stage EXCEPT ![u][i] = x]
    BY <2>1 DEF CopyConfig, SetConfig, OpenConfig, FillConfig, Copy, Set, Open, Fill, Move
  <2>4. mem' = mem \/ \E x : mem' = [mem EXCEPT ![u] = x]
    BY <2>1 DEF CopyConfig, SetConfig, OpenConfig, FillConfig, Copy, Set, Open, Fill
  <2>5. todo' = todo \/ \E x : todo' = [todo EXCEPT ![u] = x]
    BY <2>1 DEF CopyConfig, SetConfig, OpenConfig, FillConfig
  <2> QED
    BY <1>0, <2>2, <2>3, <2>4, <2>5 DEF Own, Control, HomeTypeOK
<1>6. CASE Ending(u)
  <2>1. mem' = mem
    BY <1>6 DEF Ending, ExposeCreate, Write, Note, Return, Kill, Panic, HomeDies, home
  <2>2. stage' = stage \/ \E x : stage' = [stage EXCEPT ![u] = x]
    BY <1>6 DEF Ending, ExposeCreate, Write, Note, Return, Kill, Panic
  <2>3. CASE Exit(u)
    BY <1>0, <2>1, <2>2, <2>3 DEF Exit, Go, Control, Own
  <2>4. CASE /\ UNCHANGED <<todo, kindVar>> /\ (UNCHANGED at \/ Go(u, "note"))
             /\ UNCHANGED cmd \/ cmd' = [cmd EXCEPT ![u].alias = FALSE]
    BY <1>0, <2>1, <2>2, <2>4 DEF Go, Control, Own
  <2> QED
    BY <1>6, <2>3, <2>4 DEF Ending, ExposeCreate, Write, Note, Return, Kill, Panic
<1>7. CASE Faulty(u)
  <2>1. UNCHANGED <<cmd, at, todo, kindVar, mem>>
    BY <1>7, FaultMoves, HomeIsLeft DEF home
  <2>2. stage' = stage \/ \E i, x : stage' = [stage EXCEPT ![u][i] = x]
    <3>1. UNCHANGED stage \/ \E i \in Thread : \E s : Move(u, i, s)
      BY <1>7, FaultMoves
    <3> QED
      BY <3>1 DEF Move
  <2> QED
    BY <1>0, <2>1, <2>2 DEF Own, Control
<1> QED
  BY <1>1, <1>2, <1>3, <1>4, <1>5, <1>6, <1>7

\* Only a command that is entered is no longer one that was interfered with ...
LEMMA HitGrows ==
    ASSUME CInv, [Next]_vars, NEW t \in Terminal, t \notin hit', ~ Entering(t)
    PROVE  t \notin hit
<1>1. ASSUME NEW u \in Terminal, Entering(u) PROVE t \notin hit
  BY <1>1, Beginning DEF Began
<1>2. ASSUME NEW u \in Terminal, Looping(u) PROVE hit \subseteq hit'
  BY <1>2
  DEF Looping, BuildNext, BuildUnknown, StopNext, StopUnknown, GcDelete, Rmk, Push, Pull,
      PullGit, GcCount, GcCountFails, ForNext, TouchKind
<1>3. ASSUME NEW u \in Terminal, InMake(u) PROVE hit \subseteq hit'
  <2>1. ASSUME NEW i \in Thread, MakeDir(u, i) PROVE hit \subseteq hit'
    BY <2>1 DEF MakeDir
  <2>2. ASSUME BuildImage(u) PROVE hit \subseteq hit'
    <3>1. hit' = hit \/ TouchKind(u, KindOf(u))
      BY <2>2 DEF BuildImage
    <3> QED
      BY <3>1 DEF TouchKind
  <2>3. ASSUME NEW n \in Name, MakeReady(u, n) \/ MakeTemplate(u, n) \/ MakeClean(u, n)
        PROVE  hit \subseteq hit'
    BY <2>3 DEF MakeReady, MakeTemplate, MakeClean, Touch
  <2>4. ASSUME NEW n \in Name, MakeApply(u, n) PROVE hit \subseteq hit'
    <3>1. hit' = hit \/ \E S : Touch(u, S)
      BY <2>4 DEF MakeApply
    <3> QED
      BY <3>1 DEF Touch
  <2>5. ASSUME BuildReady(u) PROVE hit \subseteq hit'
    BY <2>5 DEF BuildReady
  <2> QED
    BY <1>3, <2>1, <2>2, <2>3, <2>4, <2>5 DEF InMake
<1>4. ASSUME NEW u \in Terminal, Stopping(u) \/ Faulty(u) PROVE hit \subseteq hit'
  <2>1. \/ hit' = hit \/ \E S : Touch(u, S)
        \/ \E n \in Name, o \in Object : LateEnds(u, o, n)
    BY <1>4 DEF Stopping, Faulty, StopMake, StopDelete, StopLate, BuildReadyFails,
                BuildImageFails, MakeReadyFails, MakeTemplateFails, MakeApplyFails, StopMakeFails,
                StopDeleteFails, StopLateFails, Halting
  <2>2. ASSUME NEW n, NEW o, LateEnds(u, o, n) PROVE hit \subseteq hit'
    BY <2>2 DEF LateEnds
  <2> QED
    BY <2>1, <2>2 DEF Touch
<1>5. ASSUME NEW u \in Terminal, OnFile(u) PROVE hit \subseteq hit'
  BY <1>5 DEF OnFile, CopyConfig, SetConfig, OpenConfig, FillConfig, InThread
<1>6. ASSUME NEW u \in Terminal, Ending(u) PROVE hit \subseteq hit'
  BY <1>6 DEF Ending, ExposeCreate, Write, Note, Return, Kill, Panic, Touch
<1>7. CASE UNCHANGED vars
  BY <1>7 DEF vars
<1> QED
  BY <1>1, <1>2, <1>3, <1>4, <1>5, <1>6, <1>7, Groups

\* ... or that went wrong by itself.
LEMMA SpoiltGrows ==
    ASSUME CInv, [Next]_vars, NEW t \in Terminal, t \notin spoilt', ~ Entering(t)
    PROVE  t \notin spoilt
<1>1. ASSUME NEW u \in Terminal, Entering(u) PROVE t \notin spoilt
  BY <1>1, Beginning DEF Began
<1>2. ASSUME NEW u \in Terminal, Looping(u) PROVE spoilt \subseteq spoilt'
  BY <1>2
  DEF Looping, BuildNext, BuildUnknown, StopNext, StopUnknown, GcDelete, Rmk, Push, Pull,
      PullGit, GcCount, GcCountFails, ForNext, Fails, faults
<1>3. ASSUME NEW u \in Terminal, InMake(u) PROVE spoilt \subseteq spoilt'
  BY <1>3 DEF InMake, BuildReady, BuildImage, MakeDir, MakeReady, MakeTemplate, MakeApply,
              MakeClean, faults
<1>4. ASSUME NEW u \in Terminal, Stopping(u) \/ Faulty(u) PROVE spoilt \subseteq spoilt'
  BY <1>4 DEF Stopping, Faulty, StopMake, StopDelete, StopLate, BuildReadyFails,
              BuildImageFails, MakeReadyFails, MakeTemplateFails, MakeApplyFails, StopMakeFails,
              StopDeleteFails, StopLateFails, Fails, faults
<1>5. ASSUME NEW u \in Terminal, OnFile(u) PROVE spoilt \subseteq spoilt'
  BY <1>5 DEF OnFile, CopyConfig, SetConfig, OpenConfig, FillConfig, InThread, faults
<1>6. ASSUME NEW u \in Terminal, Ending(u) PROVE spoilt \subseteq spoilt'
  BY <1>6 DEF Ending, ExposeCreate, Write, Note, Return, Kill, Panic, faults
<1>7. CASE UNCHANGED vars
  BY <1>7 DEF vars, faults
<1> QED
  BY <1>1, <1>2, <1>3, <1>4, <1>5, <1>6, <1>7, Groups

LEMMA MarkedGrow ==
    ASSUME CInv, [Next]_vars, NEW t \in Terminal, t \notin Marked', ~ Entering(t)
    PROVE  t \notin Marked
BY HitGrows, SpoiltGrows DEF Marked

\* A goroutine is in a directory if it was there before, or makes it now.
LEMMA WorkGoesOn ==
    ASSUME CInv, [Next]_vars, NEW v \in Terminal, NEW j \in Thread, stage'[v][j] \in InDir
    PROVE  MakeDir(v, j) \/ (stage[v][j] \in InDir /\ KindOf(v)' = KindOf(v))
<1>0. Control /\ Control'
  BY ControlHolds, ControlStep
<1>1. ASSUME Own(v)' = Own(v) PROVE stage[v][j] \in InDir /\ KindOf(v)' = KindOf(v)
  BY <1>1 DEF Own, KindOf
<1>2. \/ cmd'[v].op = "run"
      \/ cmd'[v].op = "build" /\ j = Main
  BY <1>0 DEF Control, ThreadsAreItsOwn
<1>3. ~ Entering(v)
  <2> SUFFICES ASSUME Entering(v) PROVE FALSE
    OBVIOUS
  <2>1. PICK c, x : Began(v, c, x)
    BY Beginning
  <2>2. stage'[v][j] \in {"off", "copy", "rm"}
    BY <1>0, <2>1 DEF Began, Started, Threads, Control
  <2> QED
    BY <2>2 DEF InDir
<1>4. ~ Looping(v)
  <2> SUFFICES ASSUME Looping(v) PROVE FALSE
    OBVIOUS
  <2>1. cmd' = cmd /\ cmd[v].op \in Loops
    BY <1>0 DEF Looping, BuildNext, BuildUnknown, StopNext, StopUnknown, GcDelete, Rmk, Push, Pull,
        PullGit, GcCount, GcCountFails, ForNext, Loops, OnKinds, Control, AtItsOwn
  <2>2. cmd[v].op = "build" /\ j = Main
    BY <1>2, <2>1 DEF Loops, OnKinds
  <2>3. CASE BuildNext(v)
    BY <1>0, <2>2, <2>3 DEF BuildNext, Move, InDir, Control
  <2>4. CASE BuildUnknown(v)
    BY <2>2, <2>4 DEF BuildUnknown, InDir
  <2>5. CASE ~ (BuildNext(v) \/ BuildUnknown(v))
    BY <1>0, <2>2, <2>5 DEF Looping, StopNext, StopUnknown, GcDelete, Rmk, Push, Pull,
        PullGit, GcCount, GcCountFails, ForNext, Control, AtItsOwn
  <2> QED
    BY <2>3, <2>4, <2>5
<1>5. ASSUME InMake(v) PROVE MakeDir(v, j) \/ (stage[v][j] \in InDir /\ KindOf(v)' = KindOf(v))
  <2>1. PICK i \in Thread : \E x : /\ stage' = [stage EXCEPT ![v][i] = x]
                                   /\ MakeDir(v, i) \/ stage[v][i] \in InDir
                                   /\ UNCHANGED <<cmd, kindVar>>
    <3>1. ASSUME NEW i \in Thread, MakeDir(v, i)
          PROVE  (\E x : stage' = [stage EXCEPT ![v][i] = x]) /\ UNCHANGED <<cmd, kindVar>>
      BY <3>1 DEF MakeDir, Making, Move
    <3>2. ASSUME NEW i \in Thread, NEW S, NEW from, NEW to, from \in InDir, Making(v, i, S, from, to)
          PROVE  /\ \E x : stage' = [stage EXCEPT ![v][i] = x]
                 /\ stage[v][i] \in InDir /\ UNCHANGED <<cmd, kindVar>>
      BY <3>2 DEF Making, Move
    <3>3. ASSUME NEW n \in Name, MakeReady(v, n) \/ MakeTemplate(v, n) \/ MakeApply(v, n) \/ MakeClean(v, n)
          PROVE  n \in Thread /\ \E S, from, to : from \in InDir /\ Making(v, n, S, from, to)
      BY <3>3 DEF MakeReady, MakeTemplate, MakeApply, MakeClean, InDir, Thread
    <3>4. ASSUME BuildReady(v) \/ BuildImage(v)
          PROVE  Main \in Thread /\ \E S, from, to : from \in InDir /\ Making(v, Main, S, from, to)
      BY <3>4 DEF BuildReady, BuildImage, InDir, Thread
    <3>5. CASE \E i \in Thread : MakeDir(v, i)
      BY <3>1, <3>5
    <3>6. CASE ~ \E i \in Thread : MakeDir(v, i)
      BY <1>5, <3>2, <3>3, <3>4, <3>6 DEF InMake
    <3> QED
      BY <3>5, <3>6
  <2>2. j # i => stage'[v][j] = stage[v][j]
    BY <1>0, <2>1 DEF Control
  <2> QED
    BY <2>1, <2>2 DEF KindOf
<1>6. ASSUME Stopping(v) \/ OnFile(v) PROVE stage[v][j] \in InDir /\ KindOf(v)' = KindOf(v)
  <2>1. UNCHANGED <<cmd, kindVar>>
    BY <1>6
    DEF Stopping, OnFile, StopMake, StopDelete, StopLate, Halting, LateEnds, CopyConfig, SetConfig, OpenConfig,
        FillConfig, InThread
  <2>2. stage' = stage \/ \E i \in Thread : \E x : stage' = [stage EXCEPT ![v][i] = x] /\ x \notin InDir
    <3>1. CASE Stopping(v)
      <4>1. UNCHANGED stage \/ \E n \in Name : \E x \in {"delete", "wait", "off"} : Move(v, n, x)
        BY <3>1 DEF Stopping, StopMake, StopDelete, StopLate, Halting, LateEnds
      <4> QED
        BY <4>1 DEF Move, InDir, Thread
    <3>2. CASE OnFile(v)
      <4>1. PICK i \in Thread : CopyConfig(v, i) \/ SetConfig(v, i) \/ OpenConfig(v, i) \/ FillConfig(v, i)
        BY <3>2 DEF OnFile
      <4>2. \E x \in {"set", "open", "fill", "copy", "off"} : Move(v, i, x)
        BY <4>1 DEF CopyConfig, SetConfig, OpenConfig, FillConfig, Copy, Set, Open, Fill
      <4> QED
        BY <4>2 DEF Move, InDir
    <3> QED
      BY <1>6, <3>1, <3>2
  <2>3. stage'[v][j] = stage[v][j]
    BY <1>0, <2>2 DEF Control
  <2> QED
    BY <2>1, <2>3 DEF KindOf
<1>7. ASSUME Ending(v) PROVE stage[v][j] \in InDir /\ KindOf(v)' = KindOf(v)
  <2>1. ~ Exit(v)
    BY <1>0, <1>2 DEF Exit, Control, NoCommand
  <2>2. CASE Write(v)
    BY <1>0, <1>2, <2>1, <2>2 DEF Write, Control, AtItsOwn, OfSpaces
  <2>3. CASE Panic(v)
    <3>1. /\ stage'[v][j] = stage[v][j] /\ cmd' = [cmd EXCEPT ![v].alias = FALSE]
          /\ kindVar' = kindVar /\ cmd[v].op = "run"
      BY <1>0, <2>3, PanicIsInRun DEF Panic, Control, InDir
    <3> QED
      BY <1>0, <3>1 DEF KindOf, Control
  <2> QED
    BY <1>7, <2>1, <2>2, <2>3 DEF Ending, ExposeCreate, Note, Return, Kill
<1>8. CASE UNCHANGED vars
  BY <1>8 DEF vars, threads, KindOf
<1>9. ASSUME Faulty(v) PROVE stage[v][j] \in InDir /\ KindOf(v)' = KindOf(v)
  <2>1. \/ UNCHANGED stage
        \/ \E i \in Thread : \E s : /\ stage' = [stage EXCEPT ![v][i] = s]
                                    /\ s \in InDir => stage[v][i] \in InDir
    <3>1. \/ UNCHANGED stage
          \/ \E i \in Thread : \E s : Move(v, i, s) /\ (s \in InDir => stage[v][i] \in InDir)
      BY <1>9, FaultMoves
    <3> QED
      BY <3>1 DEF Move
  <2>2. stage[v][j] \in InDir
    BY <1>0, <2>1 DEF Control
  <2>3. UNCHANGED <<cmd, kindVar>>
    BY <1>9, FaultMoves
  <2> QED
    BY <2>2, <2>3 DEF KindOf
<1>10. PICK u \in Terminal : \/ Entering(u) \/ Looping(u) \/ InMake(u) \/ Stopping(u)
                             \/ Faulty(u) \/ OnFile(u) \/ Ending(u) \/ UNCHANGED vars
  BY Groups
<1>11. CASE u # v
  BY <1>1, <1>8, <1>10, <1>11, OwnIsKept
<1> QED
  BY <1>3, <1>4, <1>5, <1>6, <1>7, <1>8, <1>9, <1>10, <1>11

LEMMA AloneStep ==
    ASSUME CInv, MakeInv, [Next]_vars, NEW t \in Terminal, t \notin Marked'
    PROVE  Alone(t)'
<1>0. Control
  BY ControlHolds
<1>1. CASE Entering(t)
  <2>1. PICK c, x : Began(t, c, x)
    BY <1>1, Beginning
  <2>2. \A i \in Thread : stage'[t][i] \in {"off", "copy", "rm"}
    BY <1>0, <2>1 DEF Began, Started, Threads, Control
  <2> QED
    BY <2>2 DEF Alone, InDir
<1>2. CASE ~ Entering(t)
  <2>1. t \notin Marked /\ Alone(t)
    BY <1>2, MarkedGrow DEF MakeInv
  <2> SUFFICES ASSUME NEW i \in Thread, stage'[t][i] \in InDir,
                      NEW u \in Terminal, NEW j \in Thread, <<u, j>> # <<t, i>>,
                      stage'[u][j] \in InDir, KindOf(u)' = KindOf(t)'
               PROVE  FALSE
    BY DEF Alone, Fellows
  <2>2. \/ MakeDir(t, i)
        \/ stage[t][i] \in InDir /\ KindOf(t)' = KindOf(t)
    BY WorkGoesOn
  <2>3. \/ MakeDir(u, j)
        \/ stage[u][j] \in InDir /\ KindOf(u)' = KindOf(u)
    BY WorkGoesOn
  <2>4. ASSUME NEW v \in Terminal, NEW h \in Thread, MakeDir(v, h)
        PROVE  /\ \A w \in Terminal : KindOf(w)' = KindOf(w)
               /\ \A w \in Terminal, l \in Thread : <<w, l>> # <<v, h>> => stage'[w][l] = stage[w][l]
               /\ \A w \in Fellows(v, h) : {v, w} \subseteq Marked'
    <3>1. /\ \A w \in Terminal : KindOf(w)' = KindOf(w)
          /\ \A w \in Terminal, l \in Thread : <<w, l>> # <<v, h>> => stage'[w][l] = stage[w][l]
      BY <1>0, <2>4 DEF MakeDir, Making, Move, KindOf, Control
    <3>2. /\ hit' = hit \cup Sharers(v) \cup (IF Sharers(v) = {} THEN {} ELSE {v})
          /\ SelfShared(v, h) => spoilt' = spoilt \cup {v}
      BY <2>4 DEF MakeDir
    <3>3. ASSUME NEW w \in Fellows(v, h) PROVE {v, w} \subseteq Marked'
      <4>1. w # v => w \in Sharers(v)
        BY <3>3 DEF Fellows, Sharers
      <4>2. w = v => SelfShared(v, h)
        BY <3>3 DEF Fellows, SelfShared
      <4> QED
        BY <3>2, <4>1, <4>2 DEF Marked
    <3> QED
      BY <3>1, <3>3
  <2>5. CASE MakeDir(t, i)
    <3>1. stage[u][j] \in InDir /\ KindOf(u) = KindOf(t)
      BY <2>4, <2>5
    <3>2. u \in Fellows(t, i)
      BY <3>1 DEF Fellows
    <3> QED
      BY <2>4, <2>5, <3>2
  <2>6. CASE MakeDir(u, j)
    <3>1. stage[t][i] \in InDir /\ KindOf(u) = KindOf(t)
      BY <2>4, <2>6
    <3>2. t \in Fellows(u, j)
      BY <3>1 DEF Fellows
    <3> QED
      BY <2>4, <2>6, <3>2
  <2>7. CASE ~ MakeDir(t, i) /\ ~ MakeDir(u, j)
    <3>1. u \in Fellows(t, i) /\ stage[t][i] \in InDir
      BY <2>2, <2>3, <2>7 DEF Fellows
    <3> QED
      BY <2>1, <3>1 DEF Alone
  <2> QED
    BY <2>5, <2>6, <2>7
<1> QED
  BY <1>1, <1>2

\* The kinds command t makes digis or images of.
MadeBy(t) == {k \in Kind : \/ (cmd[t].op = "run" /\ cmd[t].kind = k)
                           \/ (cmd[t].op = "build" /\ k \in cmd[t].kinds)}

\* What a step leaves of what the make of command t has done.
Spares(t) ==
    /\ Here' = Here
    /\ \A k \in MadeBy(t) :
          /\ k \in profile => k \in profile'
          /\ Here # Nowhere /\ k \in space[Here].kinds => k \in space'[Here].kinds
          /\ \A r \in Registry : image[<<k, r>>] = "whole" => image'[<<k, r>>] = "whole"
          /\ \A n \in Names(t) : Here # Nowhere /\ Runs(k, n) => Runs(k, n)'
    /\ (\E i \in Thread : stage[t][i] \in InDir) => dir'[KindOf(t)] = dir[KindOf(t)]

LEMMA SparesKeep ==
    ASSUME Control, mem \in [Terminal -> Config], NEW t \in Terminal, Spares(t), Own(t)' = Own(t),
           RunOK(t), BuildOK(t)
    PROVE  RunOK(t)' /\ BuildOK(t)'
<1>1. /\ cmd'[t] = cmd[t] /\ at'[t] = at[t] /\ stage'[t] = stage[t] /\ todo'[t] = todo[t]
      /\ kindVar'[t] = kindVar[t] /\ mem'[t] = mem[t]
  BY DEF Own
<1>2. RunOK(t)'
  <2> SUFFICES ASSUME cmd[t].op = "run"
               PROVE  cmd[t].kind \in profile' /\ \A n \in cmd[t].names : Progress(t, n)'
    BY <1>1 DEF RunOK
  <2> DEFINE k == cmd[t].kind
  <2>1. k \in MadeBy(t) /\ KindOf(t) = k /\ Names(t) = cmd[t].names /\ cmd[t].names \subseteq Name
    BY RunningArguments DEF MadeBy, KindOf, Names
  <2>2. k \in profile'
    BY <2>1 DEF Spares, RunOK
  <2>3. ASSUME NEW n \in cmd[t].names PROVE Progress(t, n)'
    <3>1. Progress(t, n) /\ n \in Thread
      BY <2>1 DEF RunOK, Thread
    <3>2. stage[t][n] \in {"template", "apply"} => dir'[k] = dir[k]
      BY <2>1, <3>1 DEF Spares, InDir
    <3>3. Here # Nowhere /\ k \in space[Here].kinds => k \in space'[Here].kinds
      BY <2>1 DEF Spares
    <3>4. Here # Nowhere /\ Runs(k, n) => Runs(k, n)'
      <4>1. \A j \in MadeBy(t) : Here # Nowhere /\ Runs(j, n) =>
                /\ <<j, n>> \in space'[Here'].models
                /\ space'[Here'].driver[n] = j
                /\ n \in space'[Here'].services \cap space'[Here'].pools
        BY <2>1 DEF Spares, Runs
      <4> QED
        BY <1>1, <2>1, <4>1 DEF Runs
    <3>5. Here' = Here
      BY DEF Spares
    <3>6. Here # Nowhere /\ Progress(t, n) => (stage[t][n] \in {"clean", "copy", "off"} \cup InHome => Runs(k, n)')
      BY <3>4 DEF Progress
    <3>7. stage[t][n] = "apply" => <<t, n>> \in dir'[k].users /\ dir'[k].yaml = n /\ dir'[k].cr
      BY <3>1, <3>2 DEF Progress
    <3>8. stage[t][n] \in {"template", "apply"} =>
              dir'[k].is = "whole" /\ (Here # Nowhere => k \in space'[Here].kinds)
      BY <3>1, <3>2, <3>3 DEF Progress
    <3> QED
      BY <1>1, <3>1, <3>5, <3>6, <3>7, <3>8 DEF Progress, Runs
  <2> QED
    BY <2>2, <2>3
<1>3. BuildOK(t)'
  <2> SUFFICES ASSUME cmd[t].op = "build" PROVE BuildOK(t)'
    BY <1>1 DEF BuildOK
  <2>1. /\ \A k \in cmd[t].kinds : k \in MadeBy(t)
        /\ mem[t].setting \in Registry /\ KindOf(t) = kindVar[t] /\ Main \in Thread
    BY RunningArguments DEF MadeBy, OnKinds, Registry, Config, KindOf, Thread
  <2>2. \A k \in cmd[t].kinds : Built(t, k)'
    BY <1>1, <2>1 DEF BuildOK, Built, Spares
  <2>3. stage[t][Main] = "image" => dir'[kindVar[t]] = dir[kindVar[t]]
    BY <2>1 DEF Spares, InDir
  <2>4. \A k \in cmd[t].kinds \ todo[t] : k \in profile'
    BY <2>1 DEF BuildOK, Spares
  <2> QED
    BY <1>1, <2>2, <2>3, <2>4 DEF BuildOK
<1> QED
  BY <1>2, <1>3

\* The steps of another terminal, or of what stop has left behind, that do not
\* interfere with a command spare it.
LEMMA Unchanging ==
    ASSUME UNCHANGED <<profile, space, image, dir, kube>>, NEW t \in Terminal
    PROVE  Spares(t)
BY DEF Spares, Here, Runs

LEMMA Untouched ==
    ASSUME NEW t \in Terminal, NEW u \in Terminal \ {t}, t \notin hit'
    PROVE  /\ \A S : Touch(u, S) => Names(t) \cap S = {}
           /\ \A k : TouchKind(u, k) => k \notin MadeBy(t)
BY DEF Touch, TouchKind, MadeBy

LEMMA MakeSpares ==
    ASSUME CInv, NEW t \in Terminal, NEW u \in Terminal \ {t}, InMake(u), t \notin hit', Alone(t)
    PROVE  Spares(t)
<1>0. /\ Control /\ kube' = kube /\ Here' = Here /\ space \in [Server -> Space0]
      /\ Here \in Server \cup {Nowhere} /\ KindsTypeOK
  <2>1. kube' = kube
    BY KubeIsLeft DEF kubeFiles
  <2> QED
    BY <2>1, ControlHolds, InUseIsThere DEF Here, CInv, TypeOK, SpacesTypeOK
<1> DEFINE k == KindOf(u)
<1>1. ASSUME NEW j \in Thread, stage[u][j] \in InDir, NEW d, dir' = [dir EXCEPT ![k] = d]
      PROVE  (\E i \in Thread : stage[t][i] \in InDir) => dir'[KindOf(t)] = dir[KindOf(t)]
  <2> SUFFICES ASSUME NEW i \in Thread, stage[t][i] \in InDir
               PROVE  dir'[KindOf(t)] = dir[KindOf(t)]
    OBVIOUS
  <2>1. KindOf(t) # k
    BY <1>1 DEF Alone, Fellows
  <2>2. KindOf(t) \in Kind
    BY <1>0, KindsAtWork
  <2> QED
    BY <1>0, <1>1, <2>1, <2>2 DEF KindsTypeOK
<1>2. ASSUME NEW i \in Thread, MakeDir(u, i) PROVE Spares(t)
  <2>1. UNCHANGED <<space, profile, image>> /\ t \notin Sharers(u)
    BY <1>2 DEF MakeDir
  <2>2. (\E j \in Thread : stage[t][j] \in InDir) => dir'[KindOf(t)] = dir[KindOf(t)]
    <3> SUFFICES ASSUME NEW j \in Thread, stage[t][j] \in InDir
                 PROVE  dir'[KindOf(t)] = dir[KindOf(t)]
      OBVIOUS
    <3>1. KindOf(t) # k
      BY <2>1 DEF Sharers
    <3>2. KindOf(t) \in Kind
      BY <1>0, KindsAtWork
    <3> QED
      BY <1>0, <1>2, <3>1, <3>2 DEF MakeDir, Emptied, KindsTypeOK
  <2> QED
    BY <1>0, <2>1, <2>2 DEF Spares, Runs
<1>3. ASSUME NEW n \in Name, MakeReady(u, n) PROVE Spares(t)
  <2>1. /\ stage[u][n] = "sync" /\ dir' = Filled(k) /\ Touch(u, {n}) /\ UNCHANGED <<profile, image>>
        /\ Kubectl([space[Here] EXCEPT !.kinds = @ \cup ({k} \cap profile), !.pools = @ \ {n}])
    BY <1>3 DEF MakeReady, Making
  <2>2. (\E i \in Thread : stage[t][i] \in InDir) => dir'[KindOf(t)] = dir[KindOf(t)]
    <3> HIDE DEF k
    <3>1. \E d : dir' = [dir EXCEPT ![k] = d]
      BY <2>1 DEF Filled
    <3> QED
      BY <1>1, <2>1, <3>1 DEF InDir, Thread, k
  <2>3. n \notin Names(t)
    BY <2>1, Untouched
  <2>4. Here # Nowhere => /\ space[Here].kinds \subseteq space'[Here].kinds
                          /\ space'[Here].models = space[Here].models
                          /\ space'[Here].driver = space[Here].driver
                          /\ space'[Here].services = space[Here].services
                          /\ space'[Here].pools = space[Here].pools \ {n}
    BY <1>0, <2>1 DEF Kubectl, Space0
  <2> QED
    BY <1>0, <2>1, <2>2, <2>3, <2>4 DEF Spares, Runs
<1>4. ASSUME NEW n \in Name, MakeTemplate(u, n) PROVE Spares(t)
  <2>1. /\ stage[u][n] = "template" /\ UNCHANGED <<space, profile, image>>
        /\ dir' = dir \/ \E m : dir' = Rendered(k, <<u, n>>, m)
    BY <1>4 DEF MakeTemplate, Making
  <2>2. (\E i \in Thread : stage[t][i] \in InDir) => dir'[KindOf(t)] = dir[KindOf(t)]
    <3> HIDE DEF k
    <3>1. dir' = dir \/ \E d : dir' = [dir EXCEPT ![k] = d]
      BY <2>1 DEF Rendered
    <3> QED
      BY <1>1, <2>1, <3>1 DEF InDir, Thread, k
  <2> QED
    BY <1>0, <2>1, <2>2 DEF Spares, Runs
<1>5. ASSUME NEW n \in Name, MakeApply(u, n) PROVE Spares(t)
  <2> DEFINE m == dir[k].yaml
  <2>1. UNCHANGED <<profile, image, dir>>
    BY <1>5 DEF MakeApply, kinds
  <2>2. CASE UNCHANGED space
    BY <1>0, <2>1, <2>2, Unchanging
  <2>3. CASE /\ Kubectl([space[Here] EXCEPT !.driver[m] = k,
                     !.services = @ \cup {m},
                     !.models = IF Creatable(k) /\ dir[k].cr THEN @ \cup {<<k, m>>} ELSE @,
                     !.pools = IF Creatable(k) THEN @ \cup {n} ELSE @])
             /\ Touch(u, {m, n})
    <3>1. m \notin Names(t)
      BY <2>3, Untouched
    <3> HIDE DEF m, k
    <3>2. Here # Nowhere => /\ space'[Here].kinds = space[Here].kinds
                            /\ space[Here].models \subseteq space'[Here].models
                            /\ space'[Here].driver = [space[Here].driver EXCEPT ![m] = k]
                            /\ space[Here].services \subseteq space'[Here].services
                            /\ space[Here].pools \subseteq space'[Here].pools
      BY <1>0, <2>3 DEF Kubectl, Space0
    <3>3. \A x \in Name : Here # Nowhere /\ x # m => space'[Here].driver[x] = space[Here].driver[x]
      BY <1>0, <3>2 DEF Space0
    <3>4. Names(t) \subseteq Name
      BY <1>0, RunningArguments DEF Names
    <3> QED
      BY <1>0, <2>1, <3>1, <3>2, <3>3, <3>4 DEF Spares, Runs
  <2> QED
    BY <1>5, <2>2, <2>3 DEF MakeApply
<1>6. ASSUME NEW n \in Name, MakeClean(u, n) PROVE Spares(t)
  <2>1. stage[u][n] = "clean" /\ UNCHANGED <<space, profile, image>> /\ dir' = Removed(k)
    BY <1>6 DEF MakeClean, Making
  <2>2. (\E i \in Thread : stage[t][i] \in InDir) => dir'[KindOf(t)] = dir[KindOf(t)]
    BY <1>1, <2>1 DEF InDir, Thread, Removed
  <2> QED
    BY <1>0, <2>1, <2>2 DEF Spares, Runs
<1>7. CASE BuildReady(u)
  <2>1. stage[u][Main] = "sync" /\ UNCHANGED <<space, profile, image>> /\ dir' = Filled(k)
    BY <1>7 DEF BuildReady, Making
  <2>2. (\E i \in Thread : stage[t][i] \in InDir) => dir'[KindOf(t)] = dir[KindOf(t)]
    <3> HIDE DEF k
    <3>1. \E d : dir' = [dir EXCEPT ![k] = d]
      BY <2>1 DEF Filled
    <3> QED
      BY <1>1, <2>1, <3>1 DEF InDir, Thread, k
  <2> QED
    BY <1>0, <2>1, <2>2 DEF Spares, Runs
<1>8. CASE BuildImage(u)
  <2> DEFINE r == mem[u].setting
  <2>1. /\ stage[u][Main] = "image" /\ UNCHANGED <<space, profile>> /\ dir' = Removed(k)
        /\ \E i \in {"whole", "torn", image[<<k, r>>]} : image' = [image EXCEPT ![<<k, r>>] = i]
        /\ image' = [image EXCEPT ![<<k, r>>] = "torn"] => TouchKind(u, k)
    BY <1>8 DEF BuildImage, Making, Image
  <2>2. (\E i \in Thread : stage[t][i] \in InDir) => dir'[KindOf(t)] = dir[KindOf(t)]
    BY <1>1, <2>1 DEF InDir, Thread, Removed
  <2>3. CASE image' = [image EXCEPT ![<<k, r>>] = "torn"]
    <3>1. k \notin MadeBy(t)
      BY <2>1, <2>3, Untouched
    <3> HIDE DEF k, r
    <3>2. \A j \in MadeBy(t), s \in Registry : image'[<<j, s>>] = image[<<j, s>>]
      BY <1>0, <2>3, <3>1 DEF KindsTypeOK, MadeBy
    <3> QED
      BY <1>0, <2>1, <2>2, <3>2 DEF Spares, Runs
  <2>4. CASE \E i \in {"whole", image[<<k, r>>]} : image' = [image EXCEPT ![<<k, r>>] = i]
    <3> HIDE DEF k, r
    <3>1. \A j \in Kind, s \in Registry : image[<<j, s>>] = "whole" => image'[<<j, s>>] = "whole"
      BY <1>0, <2>4 DEF KindsTypeOK
    <3> QED
      BY <1>0, <2>1, <2>2, <3>1 DEF Spares, Runs, MadeBy
  <2> QED
    BY <2>1, <2>3, <2>4
<1> QED
  BY <1>2, <1>3, <1>4, <1>5, <1>6, <1>7, <1>8 DEF InMake

\* What kubectl does to the space in use spares a command if it leaves the kinds
\* and what runs of its digis.
LEMMA KubectlSpares ==
    ASSUME UNCHANGED <<profile, image, dir, kube>>, NEW t \in Terminal, NEW s, Kubectl(s),
           space \in [Server -> Space0], Here \in Server \cup {Nowhere},
           Here # Nowhere =>
               \A k \in MadeBy(t) :
                   /\ k \in space[Here].kinds => k \in s.kinds
                   /\ \A n \in Names(t) : Runs(k, n) =>
                          /\ <<k, n>> \in s.models /\ s.driver[n] = k
                          /\ n \in s.services \cap s.pools
    PROVE  Spares(t)
<1>1. Here' = Here
  BY DEF Here
<1>2. Here # Nowhere => space'[Here] = s
  BY DEF Kubectl
<1> QED
  BY <1>1, <1>2 DEF Spares, Runs

\* What is left of a space without an object of digi n.
LEMMA WithoutOne ==
    ASSUME NEW s \in Space0, NEW o \in Object, NEW n \in Name
    PROVE  LET w == Without(s, o, n)
           IN  /\ w.kinds = s.kinds /\ w.driver = s.driver /\ w.pools = s.pools
               /\ w.models \subseteq s.models /\ w.services \subseteq s.services
               /\ w.ports \subseteq s.ports
               /\ \A k, m : m # n /\ <<k, m>> \in s.models => <<k, m>> \in w.models
               /\ s.services \ {n} \subseteq w.services
               /\ o = "service" => n \notin w.services
               /\ o = "nodeport" => n \notin w.ports
               /\ o \notin {"service", "nodeport"} => <<o, n>> \notin w.models
<1>1. CASE o = "service"
  BY <1>1 DEF Without, Space0
<1>2. CASE o = "nodeport"
  BY <1>2 DEF Without, Space0
<1>3. CASE o \notin {"service", "nodeport"}
  BY <1>3 DEF Without, Space0
<1> QED
  BY <1>1, <1>2, <1>3

\* The stages of digi run and digi build are not those of digi stop.
LEMMA NotStopping ==
    ASSUME Control, NEW t \in Terminal, cmd[t].op \in {"run", "build"}, NEW n \in Name
    PROVE  stage[t][n] \notin {"spawned", "delete", "wait"}
BY DEF Control, ThreadsAreItsOwn, Thread

LEMMA StopSpares ==
    ASSUME CInv, NEW t \in Terminal, NEW u \in Terminal, Stopping(u), t \notin hit',
           cmd[t].op \in {"run", "build"}
    PROVE  Spares(t) /\ Own(t)' = Own(t)
<1>0. /\ Control /\ space \in [Server -> Space0] /\ Here \in Server \cup {Nowhere}
  BY ControlHolds, InUseIsThere DEF Here, CInv, TypeOK, SpacesTypeOK
<1>1. UNCHANGED <<home, kubeFiles, cmd, at, todo, kindVar, kinds>>
  BY DEF Stopping, StopMake, StopDelete, StopLate, Halting, LateEnds
<1>2. UNCHANGED <<profile, image, dir, kube>>
  BY <1>1 DEF kinds, kubeFiles
<1>3. Names(t) \subseteq Name
  BY <1>0, RunningArguments DEF Names
<1>4. ASSUME NEW n \in Name, StopMake(u, n) \/ StopDelete(u, n)
      PROVE  u # t /\ n \notin Names(t) /\ stage'[t] = stage[t]
  <2>1. u # t
    BY <1>0, <1>4, NotStopping DEF StopMake, StopDelete, Halting
  <2>2. Touch(u, {n}) /\ \E x : Move(u, n, x)
    BY <1>4 DEF StopMake, StopDelete, Halting
  <2> QED
    BY <1>0, <2>1, <2>2, Untouched DEF Move, Control
<1>5. ASSUME NEW n \in Name, StopMake(u, n) PROVE Spares(t) /\ Own(t)' = Own(t)
  <2> DEFINE s == [space[Here] EXCEPT !.pools = @ \ {n}]
  <2>1. Kubectl(s)
    BY <1>5 DEF StopMake
  <2>2. Here # Nowhere => /\ s.kinds = space[Here].kinds /\ s.models = space[Here].models
                          /\ s.driver = space[Here].driver /\ s.services = space[Here].services
                          /\ s.pools = space[Here].pools \ {n}
    BY <1>0 DEF Space0
  <2>3. Spares(t)
    <3> HIDE DEF s
    <3> QED
      BY <1>0, <1>2, <1>4, <1>5, <2>1, <2>2, KubectlSpares DEF Runs
  <2> QED
    BY <1>1, <1>4, <1>5, <2>3 DEF Own, home
<1>6. ASSUME NEW n \in Name, StopDelete(u, n) PROVE Spares(t) /\ Own(t)' = Own(t)
  <2> DEFINE s == [space[Here] EXCEPT !.driver[n] = Nil]
  <2>1. Kubectl(s)
    BY <1>6 DEF StopDelete
  <2>2. Here # Nowhere => /\ s.kinds = space[Here].kinds /\ s.models = space[Here].models
                          /\ s.pools = space[Here].pools /\ s.services = space[Here].services
                          /\ \A m \in Name \ {n} : s.driver[m] = space[Here].driver[m]
    BY <1>0 DEF Space0
  <2>3. Spares(t)
    <3> HIDE DEF s
    <3> QED
      BY <1>0, <1>2, <1>3, <1>4, <1>6, <2>1, <2>2, KubectlSpares DEF Runs
  <2> QED
    BY <1>1, <1>4, <1>6, <2>3 DEF Own, home
<1>7. ASSUME NEW n \in Name, NEW o \in Object, StopLate(u, o, n) PROVE Spares(t) /\ Own(t)' = Own(t)
  <2> DEFINE s == Without(space[Here], o, n)
  <2>1. Kubectl(s) /\ LateEnds(u, o, n)
    BY <1>7 DEF StopLate
  <2>2. n \notin Names(t)
    BY <2>1 DEF LateEnds
  <2>3. Here # Nowhere => /\ s.kinds = space[Here].kinds /\ s.pools = space[Here].pools
                          /\ s.driver = space[Here].driver
                          /\ space[Here].services \ {n} \subseteq s.services
                          /\ \A k, m : m # n /\ <<k, m>> \in space[Here].models => <<k, m>> \in s.models
    BY <1>0, WithoutOne
  <2>4. Spares(t)
    <3> HIDE DEF s
    <3> QED
      BY <1>0, <1>2, <2>1, <2>2, <2>3, KubectlSpares DEF Runs
  <2>5. stage' = stage \/ (stage[u][n] = "wait" /\ Move(u, n, "off"))
    BY <2>1 DEF LateEnds
  <2>6. stage'[t] = stage[t]
    BY <1>0, <2>5, NotStopping DEF Move, Control
  <2> QED
    BY <1>1, <2>4, <2>6 DEF Own, home
<1> QED
  BY <1>5, <1>6, <1>7 DEF Stopping

\* So do the steps of others that fail ...
LEMMA FaultSpares ==
    ASSUME CInv, NEW t \in Terminal, NEW u \in Terminal \ {t}, Faulty(u), t \notin hit', Alone(t)
    PROVE  Spares(t)
<1>0. /\ Control /\ kube' = kube /\ Here' = Here /\ space \in [Server -> Space0]
      /\ Here \in Server \cup {Nowhere} /\ KindsTypeOK
  <2>1. kube' = kube
    BY KubeIsLeft DEF kubeFiles
  <2> QED
    BY <2>1, ControlHolds, InUseIsThere DEF Here, CInv, TypeOK, SpacesTypeOK
<1> DEFINE k == KindOf(u)
<1>1. ASSUME NEW j \in Thread, stage[u][j] \in InDir, NEW d, dir' = [dir EXCEPT ![k] = d]
      PROVE  (\E i \in Thread : stage[t][i] \in InDir) => dir'[KindOf(t)] = dir[KindOf(t)]
  <2> SUFFICES ASSUME NEW i \in Thread, stage[t][i] \in InDir
               PROVE  dir'[KindOf(t)] = dir[KindOf(t)]
    OBVIOUS
  <2>1. KindOf(t) # k
    BY <1>1 DEF Alone, Fellows
  <2>2. KindOf(t) \in Kind
    BY <1>0, KindsAtWork
  <2> QED
    BY <1>0, <1>1, <2>1, <2>2 DEF KindsTypeOK
<1>2. /\ Main \in Thread
      /\ \A n \in Name : n \in Thread
  BY DEF Thread
<1>3. ASSUME dir' \in PartlyFilled(k) PROVE \E d : dir' = [dir EXCEPT ![k] = d]
  <2> HIDE DEF k
  <2>1. dir = [dir EXCEPT ![k] = dir[k]]
    BY <1>0 DEF KindsTypeOK
  <2> QED
    BY <1>3, <2>1 DEF PartlyFilled, Filled
<1>4. ASSUME NEW n \in Name, MakeReadyFails(u, n) PROVE Spares(t)
  <2>1. /\ stage[u][n] = "sync" /\ dir' \in PartlyFilled(k) /\ Touch(u, {n}) /\ UNCHANGED <<profile, image>>
        /\ \E K \in SUBSET ({k} \cap profile), S \in SUBSET {n} :
              Kubectl([space[Here] EXCEPT !.kinds = @ \cup K, !.pools = @ \ S])
    BY <1>4 DEF MakeReadyFails, Making
  <2>2. (\E i \in Thread : stage[t][i] \in InDir) => dir'[KindOf(t)] = dir[KindOf(t)]
    BY <1>1, <1>2, <1>3, <2>1 DEF InDir
  <2>3. n \notin Names(t)
    BY <2>1, Untouched
  <2>4. Here # Nowhere => /\ space[Here].kinds \subseteq space'[Here].kinds
                          /\ space'[Here].models = space[Here].models
                          /\ space'[Here].driver = space[Here].driver
                          /\ space'[Here].services = space[Here].services
                          /\ space[Here].pools \ {n} \subseteq space'[Here].pools
    BY <1>0, <2>1 DEF Kubectl, Space0
  <2> QED
    BY <1>0, <2>1, <2>2, <2>3, <2>4 DEF Spares, Runs
<1>5. ASSUME NEW n \in Name, MakeTemplateFails(u, n) PROVE Spares(t)
  <2>1. /\ stage[u][n] = "template" /\ UNCHANGED <<space, profile, image>>
        /\ dir' = Rendered(k, <<u, n>>, Nil)
    BY <1>5 DEF MakeTemplateFails, Making
  <2>2. (\E i \in Thread : stage[t][i] \in InDir) => dir'[KindOf(t)] = dir[KindOf(t)]
    <3> HIDE DEF k
    <3>1. \E d : dir' = [dir EXCEPT ![k] = d]
      BY <2>1 DEF Rendered
    <3> QED
      BY <1>1, <1>2, <2>1, <3>1 DEF InDir, k
  <2> QED
    BY <1>0, <2>1, <2>2 DEF Spares, Runs
<1>6. ASSUME NEW n \in Name, MakeApplyFails(u, n) PROVE Spares(t)
  <2> DEFINE m == dir[k].yaml
  <2>1. UNCHANGED <<profile, image, dir>> /\ Touch(u, {m, n})
    BY <1>6 DEF MakeApplyFails, kinds
  <2>2. PICK d \in {Nil, k, space[Here].driver[m]}, S \in SUBSET {m},
             M \in SUBSET (IF Creatable(k) /\ dir[k].cr THEN {<<k, m>>} ELSE {}) :
             Kubectl([space[Here] EXCEPT !.driver[m] = d,
                 !.services = (@ \ {m}) \cup S,
                 !.models = IF dir[k].cr THEN (@ \ {<<k, m>>}) \cup M ELSE @])
    BY <1>6 DEF MakeApplyFails
  <2>3. m \notin Names(t) /\ Names(t) \subseteq Name
    BY <1>0, <2>1, Untouched, RunningArguments DEF Names
  <2> HIDE DEF m, k
  <2>4. Here # Nowhere => /\ space'[Here].kinds = space[Here].kinds
                          /\ \A j, x : x # m /\ <<j, x>> \in space[Here].models => <<j, x>> \in space'[Here].models
                          /\ space'[Here].driver = [space[Here].driver EXCEPT ![m] = d]
                          /\ space[Here].services \ {m} \subseteq space'[Here].services
                          /\ space'[Here].pools = space[Here].pools
    BY <1>0, <2>2 DEF Kubectl, Space0
  <2>5. \A x \in Name : Here # Nowhere /\ x # m => space'[Here].driver[x] = space[Here].driver[x]
    BY <1>0, <2>4 DEF Space0
  <2> QED
    BY <1>0, <2>1, <2>3, <2>4, <2>5 DEF Spares, Runs
<1>7. CASE BuildReadyFails(u)
  <2>1. stage[u][Main] = "sync" /\ UNCHANGED <<space, profile, image>> /\ dir' \in PartlyFilled(k)
    BY <1>7 DEF BuildReadyFails, Making
  <2>2. (\E i \in Thread : stage[t][i] \in InDir) => dir'[KindOf(t)] = dir[KindOf(t)]
    BY <1>1, <1>2, <1>3, <2>1 DEF InDir
  <2> QED
    BY <1>0, <2>1, <2>2 DEF Spares, Runs
<1>8. CASE BuildImageFails(u)
  <2>1. stage[u][Main] = "image" /\ UNCHANGED <<space, profile, image>> /\ dir' = Removed(k)
    BY <1>8 DEF BuildImageFails, Making
  <2>2. (\E i \in Thread : stage[t][i] \in InDir) => dir'[KindOf(t)] = dir[KindOf(t)]
    BY <1>1, <1>2, <2>1 DEF InDir, Removed
  <2> QED
    BY <1>0, <2>1, <2>2 DEF Spares, Runs
<1>9. ASSUME \E n \in Name : \/ StopMakeFails(u, n) \/ StopDeleteFails(u, n)
                             \/ \E o \in Object : StopLateFails(u, o, n)
      PROVE  Spares(t)
  <2>1. UNCHANGED <<profile, space, image, dir, kube>>
    BY <1>9 DEF StopMakeFails, StopDeleteFails, StopLateFails, Halting, LateEnds, kinds, kubeFiles
  <2> QED
    BY <2>1, Unchanging
<1> QED
  BY <1>4, <1>5, <1>6, <1>7, <1>8, <1>9 DEF Faulty

\* ... and what its own terminal's last digi stop could not delete.
LEMMA OwnFaultSpares ==
    ASSUME CInv, NEW t \in Terminal, Faulty(t), t \notin spoilt',
           cmd[t].op \in {"run", "build"}
    PROVE  Spares(t) /\ Own(t)' = Own(t)
<1>0. Control
  BY ControlHolds
<1>1. PICK n \in Name, o \in Object : StopLateFails(t, o, n)
  BY DEF Faulty, BuildReadyFails, BuildImageFails, MakeReadyFails, MakeTemplateFails,
         MakeApplyFails, StopMakeFails, StopDeleteFails, Fails
<1>2. UNCHANGED <<home, kubeFiles, cmd, at, todo, kindVar, kinds, space>>
  BY <1>1 DEF StopLateFails, LateEnds
<1>3. stage' = stage
  BY <1>0, <1>1, NotStopping DEF StopLateFails, LateEnds
<1>4. Spares(t)
  BY <1>2, Unchanging DEF kinds, kubeFiles
<1> QED
  BY <1>2, <1>3, <1>4 DEF Own, home

LEMMA LoopSpares ==
    ASSUME CInv, NEW t \in Terminal, NEW u \in Terminal \ {t}, Looping(u), t \notin hit'
    PROVE  Spares(t)
<1>0. /\ Control /\ space \in [Server -> Space0] /\ Here \in Server \cup {Nowhere}
      /\ KindsTypeOK /\ kube' = kube
  <2>1. kube' = kube
    BY DEF Looping, BuildNext, BuildUnknown, StopNext, StopUnknown, GcDelete, Rmk, Push, Pull,
           PullGit, GcCount, GcCountFails, ForNext, kubeFiles
  <2> QED
    BY <2>1, ControlHolds, InUseIsThere DEF Here, CInv, TypeOK, SpacesTypeOK
<1>1. ASSUME BuildNext(u) \/ BuildUnknown(u) \/ StopNext(u) \/ StopUnknown(u)
      PROVE  Spares(t)
  <2>1. UNCHANGED <<profile, space, image, dir, kube>>
    BY <1>1 DEF BuildNext, BuildUnknown, StopNext, StopUnknown, outside, kinds, kubeFiles
  <2> QED
    BY <2>1, Unchanging
<1>2. ASSUME NEW k \in Kind, GcCount(u, k) \/ GcCountFails(u, k) PROVE Spares(t)
  <2>1. UNCHANGED <<profile, space, image, dir, kube>>
    BY <1>2 DEF GcCount, GcCountFails, ForNext, outside, kinds, kubeFiles
  <2> QED
    BY <2>1, Unchanging
<1>3. ASSUME NEW k \in Kind, Push(u, k) PROVE Spares(t)
  <2>1. UNCHANGED <<profile, space, image, dir, kube>>
    BY <1>3 DEF Push, PushKind, ForNext, kubeFiles
  <2> QED
    BY <2>1, Unchanging
<1>4. ASSUME NEW k \in Kind, Pull(u, k) \/ PullGit(u, k) PROVE Spares(t)
  <2>1. UNCHANGED <<space, image, dir>> /\ profile \subseteq profile'
    BY <1>4 DEF Pull, PullGit, PullKind, PullRemote, ForNext
  <2> QED
    BY <1>0, <2>1 DEF Spares, Here, Runs
<1>5. ASSUME NEW k \in Kind, Rmk(u, k) PROVE Spares(t)
  <2>1. UNCHANGED <<space, image, dir>> /\ profile' = profile \ {k} /\ TouchKind(u, k)
    BY <1>5 DEF Rmk, RemoveKind, ForNext
  <2>2. k \notin MadeBy(t)
    BY <2>1, Untouched
  <2> QED
    BY <1>0, <2>1, <2>2 DEF Spares, Here, Runs
<1>6. ASSUME GcDelete(u) PROVE Spares(t)
  <2> DEFINE k == kindVar[u]
             s == [space[Here] EXCEPT !.kinds = @ \ {k}, !.models = @ \ ({k} \X Name)]
  <2>1. Kubectl(s) /\ TouchKind(u, k) /\ UNCHANGED <<profile, image, dir>>
    BY <1>6 DEF GcDelete, kinds
  <2>2. Here # Nowhere => /\ s.kinds = space[Here].kinds \ {k}
                          /\ s.models = space[Here].models \ ({k} \X Name)
                          /\ s.pools = space[Here].pools /\ s.driver = space[Here].driver
                          /\ s.services = space[Here].services
    BY <1>0 DEF Space0
  <2>3. k \notin MadeBy(t)
    BY <2>1, Untouched
  <2> HIDE DEF s, k
  <2> QED
    BY <1>0, <2>1, <2>2, <2>3, KubectlSpares DEF Runs
<1> QED
  BY <1>1, <1>2, <1>3, <1>4, <1>5, <1>6 DEF Looping

LEMMA RestSpares ==
    ASSUME CInv, NEW t \in Terminal, NEW u \in Terminal \ {t}, t \notin hit',
           Entering(u) \/ OnFile(u) \/ Ending(u)
    PROVE  Spares(t)
<1>0. /\ Control /\ space \in [Server -> Space0] /\ KindsTypeOK
  BY ControlHolds DEF CInv, TypeOK
<1>1. CASE Entering(u)
  <2>1. PICK c, x : Began(u, c, x)
    BY <1>1, Beginning
  <2>2. UNCHANGED <<profile, space, image, dir, kube>>
    BY <2>1 DEF Began, outside, kinds, kubeFiles, ReadKube
  <2> QED
    BY <2>2, Unchanging
<1>2. CASE OnFile(u)
  <2>1. UNCHANGED <<profile, space, image, dir, kube>>
    BY <1>2 DEF OnFile, CopyConfig, SetConfig, OpenConfig, FillConfig, InThread, outside, kinds, kubeFiles
  <2> QED
    BY <2>1, Unchanging
<1>3. CASE Note(u) \/ Return(u) \/ Kill(u) \/ Panic(u)
  <2>1. UNCHANGED <<profile, space, image, dir, kube>>
    BY <1>3 DEF Note, NotePrev, Return, Kill, Panic, outside, kinds, kubeFiles
  <2> QED
    BY <2>1, Unchanging
<1>4. CASE Write(u)
  <2>1. UNCHANGED <<profile, space, image, dir>> /\ InUse(kube') = Here
    BY <1>4 DEF Write, outside, kinds
  <2> QED
    BY <2>1 DEF Spares, Here, Runs
<1>5. CASE ExposeCreate(u)
  <2>1. UNCHANGED <<profile, image, dir, kube>>
    BY <1>5 DEF ExposeCreate, kinds, kubeFiles
  <2>2. PICK n \in Name : space' = space \/ \E s : space' = [space EXCEPT ![s].ports = @ \cup {n}]
    BY <1>0, <1>5, RunningArguments DEF ExposeCreate, Control, AtItsOwn
  <2>3. Here # Nowhere => /\ space'[Here].kinds = space[Here].kinds
                          /\ space'[Here].models = space[Here].models
                          /\ space'[Here].driver = space[Here].driver
                          /\ space'[Here].services = space[Here].services
                          /\ space'[Here].pools = space[Here].pools
    <3>1. Here \in Server \cup {Nowhere}
      BY InUseIsThere DEF Here, CInv, TypeOK, SpacesTypeOK
    <3> QED
      BY <1>0, <2>2, <3>1 DEF Space0
  <2> QED
    BY <2>1, <2>3 DEF Spares, Here, Runs
<1> QED
  BY <1>1, <1>2, <1>3, <1>4, <1>5 DEF Ending

\* Digi n of kind k runs in a space s.
RunsIn(s, k, n) ==
    <<k, n>> \in s.models /\ s.driver[n] = k /\ n \in s.services \cap s.pools

\* How far a make has come, of a digi n at a stage s, in a directory d.
Reached(u, k, n, s, d) ==
    /\ s \in {"template", "apply"} =>
          d.is = "whole" /\ (Here # Nowhere => k \in space[Here].kinds)
    /\ s = "apply" => u \in d.users /\ d.yaml = n /\ d.cr
    /\ s \in {"clean", "copy", "off"} \cup InHome /\ Here # Nowhere => RunsIn(space[Here], k, n)

LEMMA ProgressReached ==
    ASSUME NEW t \in Terminal, NEW n
    PROVE  Progress(t, n) <=> Reached(<<t, n>>, cmd[t].kind, n, stage[t][n], dir[cmd[t].kind])
BY DEF Progress, Reached, Runs, RunsIn

\* A goroutine n of digi run takes a step that the others' digis survive.
LEMMA RunGoesOn ==
    ASSUME Control, NEW t \in Terminal, cmd[t].op = "run", RunOK(t),
           NEW n \in Thread, NEW y, Move(t, n, y), cmd' = cmd, kube' = kube,
           NEW k, k = cmd[t].kind, profile' = profile,
           \A m \in cmd[t].names \ {n} :
               /\ stage[t][m] \notin {"template", "apply"} \/ (dir' = dir /\ space' = space)
               /\ Here # Nowhere /\ RunsIn(space[Here], k, m) => RunsIn(space'[Here], k, m),
           n \in cmd[t].names =>
               /\ y \in {"template", "apply"} =>
                     dir'[k].is = "whole" /\ (Here # Nowhere => k \in space'[Here].kinds)
               /\ y = "apply" => <<t, n>> \in dir'[k].users /\ dir'[k].yaml = n /\ dir'[k].cr
               /\ y \in {"clean", "copy", "off"} \cup InHome /\ Here # Nowhere =>
                     RunsIn(space'[Here], k, n)
    PROVE  RunOK(t)'
<1>0. Here' = Here /\ cmd[t].names \subseteq Thread
  BY RunningArguments DEF Here, Thread
<1>1. /\ stage'[t][n] = y /\ \A m \in Thread \ {n} : stage'[t][m] = stage[t][m]
  BY DEF Move, Control
<1>2. ASSUME NEW m \in cmd[t].names, m # n PROVE Progress(t, m)'
  <2>1. Reached(<<t, m>>, k, m, stage[t][m], dir[k]) /\ stage'[t][m] = stage[t][m]
    BY <1>0, <1>1, <1>2, ProgressReached DEF RunOK
  <2>2. \/ stage[t][m] \notin {"template", "apply"}
        \/ dir' = dir /\ space' = space
    BY <1>2
  <2>3. Here # Nowhere /\ RunsIn(space[Here], k, m) => RunsIn(space'[Here], k, m)
    BY <1>2
  <2> QED
    BY <1>0, <2>1, <2>2, <2>3 DEF Progress, Reached, Runs, RunsIn
<1>3. ASSUME n \in cmd[t].names PROVE Progress(t, n)'
  BY <1>0, <1>1, <1>3 DEF Progress, Runs, RunsIn
<1> QED
  BY <1>2, <1>3 DEF RunOK

LEMMA RunMakes ==
    ASSUME CInv, NEW t \in Terminal, cmd[t].op = "run", RunOK(t), Alone(t), t \notin Marked',
           InMake(t)
    PROVE  RunOK(t)'
<1> DEFINE k == cmd[t].kind
<1>0. /\ Control /\ KindsTypeOK /\ space \in [Server -> Space0] /\ Here \in Server \cup {Nowhere}
      /\ KindOf(t) = k /\ k \in Kind /\ k \in profile /\ cmd[t].names \subseteq Name /\ k = cmd[t].kind
      /\ \A n \in Name : n \in Thread
  BY ControlHolds, InUseIsThere, RunningArguments
  DEF Here, CInv, TypeOK, SpacesTypeOK, KindOf, RunOK, Thread
<1> HIDE DEF k
<1>1. ASSUME NEW n \in Thread, stage[t][n] \in InDir \cup {"rm"}
      PROVE  n \in cmd[t].names
  BY <1>0, <1>1 DEF Control, ThreadsAreItsOwn, InDir
<1>2. ASSUME NEW n \in Thread, stage[t][n] \in InDir, NEW m \in cmd[t].names \ {n}
      PROVE  stage[t][m] \notin {"template", "apply"}
  BY <1>0, <1>2 DEF Alone, Fellows, InDir
<1>3. UNCHANGED <<cmd, kube>>
  BY DEF InMake, BuildReady, BuildImage, MakeDir, MakeReady, MakeTemplate, MakeApply, MakeClean,
         Making, kubeFiles
<1>4. ASSUME NEW n \in cmd[t].names
      PROVE  Reached(<<t, n>>, k, n, stage[t][n], dir[k])
  BY <1>0, <1>4, ProgressReached DEF RunOK
<1>5. ASSUME NEW n \in Thread, MakeDir(t, n) PROVE RunOK(t)'
  <2>1. /\ stage[t][n] = "rm" /\ Move(t, n, "sync") /\ UNCHANGED <<space, profile>>
        /\ ~ SelfShared(t, n)
    BY <1>5 DEF MakeDir, Making, Marked
  <2>2. \A m \in cmd[t].names \ {n} : stage[t][m] \notin {"template", "apply"}
    BY <1>0, <2>1 DEF SelfShared, InDir
  <2> QED
    <3>1. "sync" \notin {"template", "apply", "clean", "copy", "off"} \cup InHome
      BY DEF InHome
    <3>2. \A m \in cmd[t].names \ {n} :
              Here # Nowhere /\ RunsIn(space[Here], k, m) => RunsIn(space'[Here], k, m)
      BY <2>1
    <3> QED
      BY <1>0, <1>3, <2>1, <2>2, <3>1, <3>2, RunGoesOn
<1>6. ASSUME NEW n \in Name, MakeReady(t, n) PROVE RunOK(t)'
  <2> DEFINE s == [space[Here] EXCEPT !.kinds = @ \cup ({k} \cap profile), !.pools = @ \ {n}]
  <2>1. /\ stage[t][n] = "sync" /\ Move(t, n, "template") /\ profile' = profile
        /\ dir' = Filled(k) /\ Kubectl(s)
    BY <1>0, <1>6 DEF MakeReady, Making
  <2>2. dir'[k].is = "whole"
    BY <1>0, <2>1 DEF Filled, KindsTypeOK
  <2>3. Here # Nowhere => /\ k \in space'[Here].kinds
                          /\ space'[Here].models = space[Here].models
                          /\ space'[Here].driver = space[Here].driver
                          /\ space'[Here].services = space[Here].services
                          /\ space'[Here].pools = space[Here].pools \ {n}
    BY <1>0, <2>1 DEF Kubectl, Space0
  <2>4. \A m \in cmd[t].names \ {n} :
            Here # Nowhere /\ RunsIn(space[Here], k, m) => RunsIn(space'[Here], k, m)
    BY <2>3 DEF RunsIn
  <2>5. \A m \in cmd[t].names \ {n} : stage[t][m] \notin {"template", "apply"}
    BY <1>0, <1>2, <2>1 DEF InDir
  <2> HIDE DEF s
  <2> QED
    <3>1. "template" \notin {"apply", "clean", "copy", "off"} \cup InHome
      BY DEF InHome
    <3> QED
      <4>1. /\ "template" \in {"template", "apply"} =>
                   dir'[k].is = "whole" /\ (Here # Nowhere => k \in space'[Here].kinds)
            /\ "template" # "apply"
        BY <2>2, <2>3
      <4>2. n \in Thread
        BY <1>0
      <4> QED
        BY <1>0, <1>3, <2>1, <2>4, <2>5, <3>1, <4>1, <4>2, RunGoesOn
<1>7. ASSUME NEW n \in Name, MakeTemplate(t, n) PROVE RunOK(t)'
  <2>1. /\ stage[t][n] = "template" /\ UNCHANGED <<profile, space>>
        /\ dir[k].is # "gone" /\ Workable(k) =>
              Move(t, n, "apply") /\ dir' = Rendered(k, <<t, n>>, n)
    BY <1>0, <1>7 DEF MakeTemplate, Making
  <2>2. n \in cmd[t].names /\ dir[k].is = "whole" /\ (Here # Nowhere => k \in space[Here].kinds)
    BY <1>0, <1>1, <1>4, <2>1 DEF InDir, Reached
  <2>3. Move(t, n, "apply") /\ dir' = Rendered(k, <<t, n>>, n)
    BY <2>1, <2>2 DEF Workable
  <2>a. n # Nil
    BY HomeAssumption, <1>7
  <2>4. dir'[k].is = "whole" /\ <<t, n>> \in dir'[k].users /\ dir'[k].yaml = n /\ dir'[k].cr
    BY <1>0, <2>2, <2>3, <2>a DEF Rendered, KindsTypeOK
  <2>5. \A m \in cmd[t].names \ {n} : stage[t][m] \notin {"template", "apply"}
    BY <1>0, <1>2, <2>1 DEF InDir
  <2> QED
    BY <1>0, <1>3, <2>1, <2>2, <2>3, <2>4, <2>5, RunGoesOn DEF InHome
<1>8. ASSUME NEW n \in Name, MakeApply(t, n) PROVE RunOK(t)'
  <2> DEFINE s == [space[Here] EXCEPT !.driver[n] = k, !.services = @ \cup {n},
                                      !.models = @ \cup {<<k, n>>}, !.pools = @ \cup {n}]
  <2>1. stage[t][n] = "apply" /\ Move(t, n, "clean") /\ UNCHANGED <<profile, dir>>
    BY <1>8 DEF MakeApply, Making, kinds
  <2>2. /\ n \in cmd[t].names /\ (Here # Nowhere => k \in space[Here].kinds)
        /\ <<t, n>> \in dir[k].users /\ dir[k].yaml = n /\ dir[k].cr
    BY <1>0, <1>1, <1>4, <2>1 DEF InDir, Reached
  <2>3. Here # Nowhere => Kubectl(s)
    <3>1. n # Nil
      BY HomeAssumption, <1>8
    <3>2. InPlace(t, n) /\ (Here # Nowhere => Creatable(k))
      BY <1>0, <2>2, <3>1 DEF InPlace, Creatable
    <3> QED
      BY <1>0, <1>8, <2>2, <3>2 DEF MakeApply
  <2>4. Here # Nowhere => /\ space'[Here].models = space[Here].models \cup {<<k, n>>}
                          /\ space'[Here].driver = [space[Here].driver EXCEPT ![n] = k]
                          /\ space'[Here].services = space[Here].services \cup {n}
                          /\ space'[Here].pools = space[Here].pools \cup {n}
    BY <1>0, <2>3 DEF Kubectl, Space0
  <2>5. Here # Nowhere => space'[Here].driver[n] = k
    BY <1>0, <2>4 DEF Space0
  <2>6. ASSUME Here # Nowhere, NEW m \in cmd[t].names \ {n}, RunsIn(space[Here], k, m)
        PROVE  RunsIn(space'[Here], k, m)
    BY <1>0, <2>4, <2>6 DEF RunsIn, Space0
  <2>7. \A m \in cmd[t].names \ {n} : stage[t][m] \notin {"template", "apply"}
    BY <1>0, <1>2, <2>1 DEF InDir
  <2>8. Here # Nowhere => RunsIn(space'[Here], k, n)
    BY <2>4, <2>5 DEF RunsIn
  <2> HIDE DEF s
  <2> QED
    <3>1. "clean" \notin {"template", "apply"}
      OBVIOUS
    <3>2. \A m \in cmd[t].names \ {n} :
              Here # Nowhere /\ RunsIn(space[Here], k, m) => RunsIn(space'[Here], k, m)
      BY <2>6
    <3> QED
      BY <1>0, <1>3, <2>1, <2>7, <2>8, <3>1, <3>2, RunGoesOn
<1>9. ASSUME NEW n \in Name, MakeClean(t, n) PROVE RunOK(t)'
  <2>1. /\ stage[t][n] = "clean" /\ UNCHANGED <<profile, space>>
        /\ \E y \in {"copy", "off"} : Move(t, n, y)
    BY <1>9 DEF MakeClean, Making
  <2>2. n \in cmd[t].names => (Here # Nowhere => RunsIn(space[Here], k, n))
    BY <1>4, <2>1 DEF Reached
  <2>3. \A m \in cmd[t].names \ {n} : stage[t][m] \notin {"template", "apply"}
    BY <1>0, <1>2, <2>1 DEF InDir
  <2> QED
    BY <1>0, <1>3, <2>1, <2>2, <2>3, RunGoesOn DEF InHome
<1>10. ~ BuildReady(t) /\ ~ BuildImage(t)
  BY DEF BuildReady, BuildImage, Making
<1> QED
  BY <1>5, <1>6, <1>7, <1>8, <1>9, <1>10 DEF InMake

LEMMA RunFiles ==
    ASSUME CInv, NEW t \in Terminal, cmd[t].op = "run", RunOK(t), OnFile(t)
    PROVE  RunOK(t)'
<1> DEFINE k == cmd[t].kind
<1>0. Control
  BY ControlHolds
<1>1. PICK i \in Thread : CopyConfig(t, i) \/ SetConfig(t, i) \/ OpenConfig(t, i) \/ FillConfig(t, i)
  BY DEF OnFile
<1>2. UNCHANGED <<cmd, kube, profile, dir, space>>
  BY <1>1 DEF CopyConfig, SetConfig, OpenConfig, FillConfig, InThread, kubeFiles, outside, kinds
<1>3. stage[t][i] \in {"copy"} \cup InHome /\ \E y \in {"copy", "off"} \cup InHome : Move(t, i, y)
  BY <1>1 DEF CopyConfig, SetConfig, OpenConfig, FillConfig, Copy, Set, Open, Fill, InHome
<1>4. i \in cmd[t].names => (Here # Nowhere => RunsIn(space[Here], k, i))
  BY <1>3, ProgressReached DEF RunOK, Reached
<1>5. \A y \in {"copy", "off"} \cup InHome : y \notin {"template", "apply"}
  BY DEF InHome
<1> HIDE DEF k
<1>6. k = cmd[t].kind
  BY DEF k
<1> QED
  BY <1>0, <1>2, <1>3, <1>4, <1>5, <1>6, RunGoesOn

LEMMA RunEnds ==
    ASSUME CInv, NEW t \in Terminal, cmd[t].op = "run", RunOK(t), Ending(t)
    PROVE  RunOK(t)'
<1>0. Control
  BY ControlHolds
<1>1. CASE Exit(t)
  BY <1>0, <1>1 DEF Exit, RunOK, Control, NoCommand
<1>2. CASE Panic(t)
  <2>1. UNCHANGED <<kube, profile, dir, space>>
    BY <1>2 DEF Panic, kubeFiles, outside, kinds
  <2>2. cmd'[t].op = "run" /\ cmd'[t].kind = cmd[t].kind /\ cmd'[t].names = cmd[t].names
    BY <1>0, <1>2 DEF Panic, Control
  <2>3. ASSUME NEW n \in cmd[t].names PROVE Progress(t, n)'
    <3>1. n \in Thread /\ Reached(<<t, n>>, cmd[t].kind, n, stage[t][n], dir[cmd[t].kind])
      BY <1>0, <2>3, RunningArguments, ProgressReached DEF RunOK, Thread
    <3>2. \/ stage'[t][n] = stage[t][n]
          \/ stage'[t][n] = "off" /\ stage[t][n] \in {"copy"} \cup InHome
      BY <1>0, <1>2, <3>1 DEF Panic, Control
    <3>3. Here' = Here
      BY <2>1 DEF Here
    <3> QED
      BY <2>1, <2>2, <3>1, <3>2, <3>3 DEF Progress, Reached, Runs, RunsIn
  <2> QED
    BY <2>1, <2>2, <2>3 DEF RunOK
<1>3. ~ (Write(t) \/ Note(t) \/ ExposeCreate(t))
  BY <1>0 DEF Write, Note, ExposeCreate, Control, AtItsOwn, OfSpaces
<1> QED
  BY <1>1, <1>2, <1>3 DEF Ending, Return, Kill

\* The steps of digi build.
LEMMA BuildMakes ==
    ASSUME CInv, NEW t \in Terminal, cmd[t].op = "build", BuildOK(t), InMake(t)
    PROVE  BuildOK(t)'
<1> DEFINE k == kindVar[t]
           r == mem[t].setting
<1>0. /\ Control /\ KindsTypeOK /\ KindOf(t) = k /\ cmd[t].kinds \subseteq Kind
      /\ r \in Registry /\ Main \in Thread
  BY ControlHolds, RunningArguments
  DEF CInv, TypeOK, KindOf, Thread, OnKinds, HomeTypeOK, Registry, Config
<1>1. /\ UNCHANGED <<cmd, at, todo, kindVar, mem, profile>>
      /\ stage[t][Main] # "off" => k \in Kind /\ k \in profile
  <2>1. UNCHANGED <<cmd, at, todo, kindVar, mem>>
    BY DEF InMake, BuildReady, BuildImage, MakeDir, MakeReady, MakeTemplate, MakeApply, MakeClean,
           Making, home
  <2>2. profile' = profile
    BY DEF InMake, BuildReady, BuildImage, Image, MakeDir, MakeReady, MakeTemplate, MakeApply, MakeClean,
           Making, kinds
  <2> QED
    BY <1>0, <2>1, <2>2 DEF BuildOK
<1>2. CASE \E i \in Thread : MakeDir(t, i)
  <2>1. PICK i \in Thread : MakeDir(t, i)
    BY <1>2
  <2>2. stage[t][i] = "rm" /\ Move(t, i, "sync") /\ image' = image
    BY <2>1 DEF MakeDir, Making
  <2>3. i = Main
    BY <1>0, <2>2 DEF Control, ThreadsAreItsOwn
  <2>4. stage'[t][Main] = "sync"
    BY <1>0, <2>2, <2>3 DEF Move, Control
  <2> QED
    BY <1>1, <2>2, <2>3, <2>4 DEF BuildOK, Built
<1>3. CASE BuildReady(t)
  <2>1. stage[t][Main] = "sync" /\ Move(t, Main, "image") /\ dir' = Filled(k) /\ image' = image
    BY <1>0, <1>3 DEF BuildReady, Making
  <2>2. stage'[t][Main] = "image"
    BY <1>0, <2>1 DEF Move, Control
  <2>3. dir'[k].is = "whole"
    BY <1>0, <1>1, <2>1 DEF Filled, KindsTypeOK
  <2> QED
    BY <1>1, <2>1, <2>2, <2>3 DEF BuildOK, Built
<1>4. CASE BuildImage(t)
  <2>1. stage[t][Main] = "image" /\ Move(t, Main, "off") /\ Image(k, r)
    BY <1>0, <1>4 DEF BuildImage, Making
  <2>2. stage'[t][Main] = "off"
    BY <1>0, <2>1 DEF Move, Control
  <2>3. dir[k].is = "whole"
    BY <2>1 DEF BuildOK
  <2>4. image' = [image EXCEPT ![<<k, r>>] = "whole"]
    BY <1>1, <2>1, <2>3 DEF Image, Workable
  <2> HIDE DEF k, r
  <2>5. \A j \in Kind : j = k \/ image[<<j, r>>] = "whole" => image'[<<j, r>>] = "whole"
    BY <1>0, <2>4 DEF KindsTypeOK
  <2>6. \A j \in cmd[t].kinds : Built(t, j)'
    BY <1>0, <1>1, <2>1, <2>5 DEF BuildOK, Built, k, r
  <2> QED
    BY <1>1, <2>2, <2>6 DEF BuildOK
<1>5. ASSUME NEW n \in Name PROVE ~ (MakeReady(t, n) \/ MakeTemplate(t, n) \/ MakeApply(t, n) \/ MakeClean(t, n))
  BY DEF MakeReady, MakeTemplate, MakeApply, MakeClean, Making
<1> QED
  BY <1>2, <1>3, <1>4, <1>5 DEF InMake

LEMMA BuildLoops ==
    ASSUME CInv, NEW t \in Terminal, cmd[t].op = "build", BuildOK(t), t \notin Marked', Looping(t)
    PROVE  BuildOK(t)'
<1>0. Control /\ Main \in Thread /\ cmd[t].kinds \subseteq Kind
  BY ControlHolds, RunningArguments DEF Thread, OnKinds
<1>1. BuildNext(t)
  BY <1>0 DEF Marked, Looping, BuildNext, BuildUnknown, StopNext, StopUnknown, GcDelete, Rmk, Push, Pull,
              PullGit, GcCount, GcCountFails, ForNext, Control, AtItsOwn
<1>2. PICK k \in todo[t] : /\ k \in profile /\ kindVar' = [kindVar EXCEPT ![t] = k]
                           /\ todo' = [todo EXCEPT ![t] = @ \ {k}]
                           /\ OnOr(t, todo[t] \ {k})
  BY <1>1 DEF BuildNext, GetKindFromProfile
<1>3. /\ UNCHANGED <<mem, cmd, profile, image>> /\ stage[t][Main] = "off" /\ Move(t, Main, "rm")
  BY <1>1 DEF BuildNext, home, outside, kinds
<1>4. /\ stage'[t][Main] = "rm" /\ kindVar'[t] = k /\ todo'[t] = todo[t] \ {k}
      /\ at'[t] = "threads" => todo'[t] = {}
  BY <1>0, <1>2, <1>3 DEF Move, OnOr, Go, Control
<1>5. k \in cmd[t].kinds
  BY <1>0, <1>2 DEF Control, TodoOK, Within, OnKinds
<1>6. \A j \in cmd[t].kinds : Built(t, j)'
  BY <1>3, <1>4 DEF BuildOK, Built
<1> QED
  BY <1>2, <1>3, <1>4, <1>5, <1>6 DEF BuildOK

LEMMA BuildEnds ==
    ASSUME CInv, NEW t \in Terminal, cmd[t].op = "build", Ending(t) \/ OnFile(t)
    PROVE  BuildOK(t)'
<1>0. Control
  BY ControlHolds
<1>1. ~ OnFile(t)
  BY <1>0 DEF OnFile, CopyConfig, SetConfig, OpenConfig, FillConfig, Copy, Set, Open, Fill,
              Control, ThreadsAreItsOwn, InHome, OnConfig
<1>2. ~ (Write(t) \/ Note(t) \/ ExposeCreate(t) \/ Panic(t))
  BY <1>0, PanicIsInRun DEF Write, Note, ExposeCreate, Control, AtItsOwn, OfSpaces
<1>3. Exit(t)
  BY <1>1, <1>2 DEF Ending, Return, Kill
<1> QED
  BY <1>0, <1>3 DEF Exit, BuildOK, Control, NoCommand

\* A command that is entered has done nothing yet.
LEMMA MakesBegin ==
    ASSUME CInv, NEW t \in Terminal, Entering(t)
    PROVE  RunOK(t)' /\ BuildOK(t)'
<1>0. Control
  BY ControlHolds
<1>1. PICK c, x : Began(t, c, x)
  BY Beginning
<1>2. cmd'[t] = c /\ profile' = profile /\ todo'[t] = x /\ at'[t] = First(c)
  BY <1>0, <1>1 DEF Began, Control, outside, kinds
<1>3. RunOK(t)'
  <2> SUFFICES ASSUME c.op = "run" PROVE RunOK(t)'
    BY <1>2 DEF RunOK
  <2>1. stage' = Threads(t, c.names, "rm") /\ c.kind \in profile
    BY <1>1 DEF Began, Started, OnConfig
  <2>2. c.names \subseteq Thread
    <3>1. c \in Command
      BY <1>0, <1>1 DEF Began, Swaps, Control
    <3> QED
      BY <3>1, Arguments DEF Thread
  <2>3. \A n \in c.names : stage'[t][n] = "rm"
    BY <1>0, <2>1, <2>2 DEF Threads, Control
  <2>4. \A n \in c.names : Progress(t, n)'
    BY <1>2, <2>3 DEF Progress, InHome
  <2> QED
    BY <1>2, <2>1, <2>4 DEF RunOK
<1>4. BuildOK(t)'
  <2> SUFFICES ASSUME c.op = "build" PROVE BuildOK(t)'
    BY <1>2 DEF BuildOK
  <2>1. x = c.kinds /\ First(c) = "loop" /\ stage' = stage /\ at[t] = "idle"
    BY <1>1 DEF Began, Tasks, First, Started, OnConfig, Loops, OnKinds
  <2>2. stage'[t][Main] = "off"
    BY <1>0, <2>1 DEF Control, Thread
  <2> QED
    BY <1>2, <2>1, <2>2 DEF BuildOK, Built
<1> QED
  BY <1>3, <1>4

\* A command that has begun is the same until it ends.
LEMMA SameCommand ==
    ASSUME Control, NEW t \in Terminal,
           Looping(t) \/ InMake(t) \/ Stopping(t) \/ Faulty(t) \/ OnFile(t) \/ Ending(t)
    PROVE  cmd'[t].op \in {cmd[t].op, "none"}
<1>1. cmd' = cmd \/ cmd' = [cmd EXCEPT ![t] = NoCommand] \/ Panic(t)
  BY FaultMoves
  DEF    InMake, BuildReady, BuildImage, MakeDir, MakeReady, MakeTemplate, MakeApply, MakeClean,
         Making, OnFile, CopyConfig, SetConfig, OpenConfig, FillConfig, InThread,
         Looping, BuildNext, BuildUnknown, StopNext, StopUnknown, GcDelete, Rmk,
         Push, Pull, PullGit, GcCount, GcCountFails, ForNext, Stopping, StopMake, StopDelete, StopLate, Halting, LateEnds,
         Ending, ExposeCreate, Write, Note, Return, Kill, Exit
<1>2. CASE Panic(t)
  BY <1>2 DEF Panic, Control
<1> QED
  BY <1>1, <1>2 DEF Control, NoCommand

\* What a command has made stays, whoever takes the next step.
LEMMA MakeStep == CInv /\ MakeInv /\ [Next]_vars => MakeInv'
<1> SUFFICES ASSUME CInv, MakeInv, [Next]_vars, NEW t \in Terminal, t \notin Marked'
             PROVE  Alone(t)' /\ RunOK(t)' /\ BuildOK(t)'
  BY DEF MakeInv
<1>0. Control /\ mem \in [Terminal -> Config] /\ t \notin hit' /\ t \notin spoilt'
  BY ControlHolds DEF CInv, TypeOK, HomeTypeOK, Marked
<1>1. Alone(t)'
  BY AloneStep
<1>2. RunOK(t)' /\ BuildOK(t)'
  <2>1. CASE Entering(t)
    BY <2>1, MakesBegin
  <2>2. CASE ~ Entering(t)
    <3>1. t \notin Marked /\ Alone(t) /\ RunOK(t) /\ BuildOK(t)
      BY <2>2, MarkedGrow DEF MakeInv
    <3>2. ASSUME Own(t)' = Own(t), Spares(t) PROVE RunOK(t)' /\ BuildOK(t)'
      BY <1>0, <3>1, <3>2, SparesKeep
    <3>3. CASE UNCHANGED vars
      BY <3>1, <3>3 DEF vars, threads, outside, home, kinds, kubeFiles, RunOK, BuildOK, Built, Progress,
                        Runs, Here
    <3>4. CASE Next
      <4>1. PICK u \in Terminal : \/ Entering(u) \/ Looping(u) \/ InMake(u) \/ Stopping(u)
                                  \/ Faulty(u) \/ OnFile(u) \/ Ending(u)
        BY <3>4, Groups
      <4>2. CASE u # t
        <5>1. Own(t)' = Own(t)
          BY <4>1, <4>2, OwnIsKept
        <5>2. CASE cmd[t].op \in {"run", "build"}
          <6>1. Spares(t)
            BY <1>0, <3>1, <4>1, <4>2, <5>2, MakeSpares, StopSpares, FaultSpares, LoopSpares, RestSpares
          <6> QED
            BY <3>2, <5>1, <6>1
        <5>3. CASE cmd[t].op \notin {"run", "build"}
          BY <5>1, <5>3 DEF Own, RunOK, BuildOK
        <5> QED
          BY <5>2, <5>3
      <4>3. CASE u = t /\ cmd[t].op \in {"run", "build"} /\ (Stopping(t) \/ Faulty(t))
        BY <1>0, <3>2, <4>3, StopSpares, OwnFaultSpares
      <4>4. CASE u = t /\ cmd[t].op = "run" /\ ~ Stopping(t) /\ ~ Faulty(t)
        <5>1. ~ Looping(t)
          BY <1>0, <4>4 DEF Looping, BuildNext, BuildUnknown, StopNext, StopUnknown, GcDelete, Rmk,
                            Push, Pull, PullGit, GcCount, GcCountFails, ForNext, Control, AtItsOwn
        <5>2. RunOK(t)'
          <6>1. InMake(t) \/ OnFile(t) \/ Ending(t)
            BY <2>2, <4>1, <4>4, <5>1
          <6> QED
            BY <3>1, <4>4, <6>1, RunMakes, RunFiles, RunEnds
        <5>3. cmd'[t].op # "build"
          BY <1>0, <2>2, <4>1, <4>4, SameCommand
        <5> QED
          BY <5>2, <5>3 DEF BuildOK
      <4>5. CASE u = t /\ cmd[t].op = "build" /\ ~ Stopping(t) /\ ~ Faulty(t)
        <5>1. BuildOK(t)'
          BY <2>2, <3>1, <4>1, <4>5, BuildMakes, BuildLoops, BuildEnds
        <5>2. cmd'[t].op # "run"
          BY <1>0, <2>2, <4>1, <4>5, SameCommand
        <5> QED
          BY <5>1, <5>2 DEF RunOK
      <4>6. CASE u = t /\ cmd[t].op \notin {"run", "build"}
        <5>1. cmd'[t].op \notin {"run", "build"}
          BY <1>0, <2>2, <4>1, <4>6, SameCommand
        <5> QED
          BY <5>1 DEF RunOK, BuildOK
      <4> QED
        BY <4>2, <4>3, <4>4, <4>5, <4>6
    <3> QED
      BY <3>3, <3>4
  <2> QED
    BY <2>1, <2>2
<1> QED
  BY <1>1, <1>2

LEMMA MakeBegins == Init => MakeInv
<1> SUFFICES ASSUME Init, NEW t \in Terminal PROVE Alone(t) /\ RunOK(t) /\ BuildOK(t)
  BY DEF MakeInv
<1>1. cmd[t] = NoCommand /\ stage[t] = NoThreads
  BY DEF Init
<1> QED
  BY <1>1 DEF NoCommand, NoThreads, RunOK, BuildOK, Alone, InDir

\* What digi run and digi build say they have made is made when they return,
\* unless another command had a hand in it, two of its own makes met in their
\* directory or something make called failed (runCmd and buildCmd of digi.go,
\* which do not learn what make did: helper.go:57-64).
THEOREM MakesTheorem == Spec => MakesAll
<1>1. MakeInv /\ Control => \A t \in Terminal :
          /\ Done(t, "run") => \A n \in cmd[t].names : Runs(cmd[t].kind, n)
          /\ Done(t, "build") => \A k \in cmd[t].kinds : image[<<k, mem[t].setting>>] = "whole"
  <2> SUFFICES ASSUME MakeInv, Control, NEW t \in Terminal, NEW op, Done(t, op)
               PROVE  /\ op = "run" => \A n \in cmd[t].names : Runs(cmd[t].kind, n)
                      /\ op = "build" => \A k \in cmd[t].kinds : image[<<k, mem[t].setting>>] = "whole"
    OBVIOUS
  <2>1. RunOK(t) /\ BuildOK(t)
    BY DEF MakeInv, Done, Returns, Marked
  <2>2. ASSUME op = "run", NEW n \in cmd[t].names PROVE Runs(cmd[t].kind, n)
    <3>1. stage[t][n] = "off"
      BY <2>2, RunningArguments DEF Done, Returns, Thread
    <3> QED
      BY <2>1, <2>2, <3>1 DEF RunOK, Progress, Done, Returns
  <2>3. ASSUME op = "build", NEW k \in cmd[t].kinds PROVE image[<<k, mem[t].setting>>] = "whole"
    <3>1. stage[t][Main] = "off" /\ todo[t] = {}
      BY <2>1, <2>3 DEF Done, Returns, Thread, BuildOK
    <3> QED
      BY <2>1, <2>3, <3>1 DEF BuildOK, Built, Done, Returns
  <2> QED
    BY <2>2, <2>3
<1>2. (CInv /\ MakeInv) /\ [Next]_vars => (CInv /\ MakeInv)'
  BY TypesStep, MakeStep
<1>3. CInv => Control
  BY ControlHolds
<1> QED
  BY <1>1, <1>2, <1>3, InitTypes, MakeBegins, PTL DEF Spec, MakesAll

-----------------------------------------------------------------------------
(* Stops                                                                   *)

\* What digi stop is to delete in the background of a digi, and whether space s
\* has it.
Aims(t) == (StopKinds(t) \cap Kind) \cup {"service", "nodeport"}

Has(s, o, n) ==
    \/ o = "service" /\ n \in s.services
    \/ o = "nodeport" /\ n \in s.ports
    \/ o \in Kind /\ <<o, n>> \in s.models

\* How far command t has come with stopping digi n.
Halted(t, n) ==
    \/ n \in todo[t] \/ stage[t][n] = "spawned" \/ Here = Nowhere
    \/ /\ n \notin space[Here].pools
       /\ stage[t][n] # "delete" => space[Here].driver[n] = Nil
       /\ \A o \in Aims(t) :
             \/ ~ Has(space[Here], o, n)
             \/ <<t, o, n>> \in late /\ (stage[t][n] = "off" => cmd[t].quiet)
             \/ o \in Kind /\ Cardinality(StopKinds(t)) > 1

StopOK(t) ==
    cmd[t].op = "stop" =>
        /\ \A n \in cmd[t].names : Halted(t, n)
        /\ \A n \in todo[t] : stage[t][n] = "off"
        /\ cmd[t].names \subseteq todo[t] \/ kindVar[t] \in StopKinds(t)
        /\ at[t] = "threads" => todo[t] = {}

StopInv == \A t \in Terminal \ Marked : StopOK(t)

\* A step adds nothing of the digis of command t to the space in use.
Drains(t) ==
    /\ Here' = Here
    /\ Here # Nowhere => \A n \in Names(t) :
          /\ n \in space'[Here].pools => n \in space[Here].pools
          /\ space[Here].driver[n] = Nil => space'[Here].driver[n] = Nil
          /\ \A o \in Object : Has(space'[Here], o, n) =>
                Has(space[Here], o, n) /\ (<<t, o, n>> \in late => <<t, o, n>> \in late')

\* The kinds of a call that is the same in both states.
LEMMA SameKinds ==
    ASSUME Control, mem \in [Terminal -> Config], NEW t \in Terminal, cmd[t].op = "stop",
           cmd'[t] = cmd[t], mem'[t] = mem[t]
    PROVE  /\ StopKinds(t)' = StopKinds(t) /\ StopKinds(t) \subseteq Kind \cup {Nil}
           /\ \A n : StopKind(t, n)' = StopKind(t, n)
           /\ Aims(t)' = Aims(t) /\ Aims(t) \subseteq Object
<1>1. \A n : StopKind(t, n)' = StopKind(t, n)
  BY DEF StopKind, Resolve
<1>2. \A n \in cmd[t].names : StopKind(t, n) \in Kind \cup {Nil}
  BY RunningArguments DEF StopKind, Resolve, Config
<1>3. StopKinds(t)' = StopKinds(t) /\ StopKinds(t) \subseteq Kind \cup {Nil}
  BY <1>1, <1>2 DEF StopKinds
<1> QED
  BY <1>1, <1>3 DEF Aims, Object

LEMMA DrainsKeep ==
    ASSUME Control, mem \in [Terminal -> Config], NEW t \in Terminal, Drains(t), cmd[t].op = "stop",
           cmd'[t] = cmd[t], mem'[t] = mem[t], NEW n \in cmd[t].names, Halted(t, n),
           n \in todo[t] => n \in todo'[t],
           \/ stage'[t][n] = stage[t][n]
           \/ /\ stage'[t][n] = "off" /\ stage[t][n] = "wait"
              /\ \A o \in Object : <<t, o, n>> \notin late'
    PROVE  Halted(t, n)'
<1>1. /\ StopKinds(t)' = StopKinds(t) /\ Aims(t)' = Aims(t) /\ Aims(t) \subseteq Object
  BY SameKinds
<1>2. n \in Names(t)
  BY DEF Names
<1>3. Here' = Here
  BY DEF Drains
<1>4. CASE n \in todo[t] \/ stage[t][n] = "spawned" \/ Here = Nowhere
  BY <1>3, <1>4 DEF Halted
<1>5. CASE ~ (n \in todo[t] \/ stage[t][n] = "spawned" \/ Here = Nowhere)
  <2>1. /\ n \notin space'[Here].pools
        /\ stage'[t][n] # "delete" => space'[Here].driver[n] = Nil
    BY <1>2, <1>5 DEF Halted, Drains
  <2>2. ASSUME NEW o \in Aims(t)
        PROVE  \/ ~ Has(space'[Here], o, n)
               \/ <<t, o, n>> \in late' /\ (stage'[t][n] = "off" => cmd[t].quiet)
               \/ o \in Kind /\ Cardinality(StopKinds(t)) > 1
    <3>1. \/ ~ Has(space[Here], o, n)
          \/ <<t, o, n>> \in late /\ (stage[t][n] = "off" => cmd[t].quiet)
          \/ o \in Kind /\ Cardinality(StopKinds(t)) > 1
      BY <1>5, <2>2 DEF Halted
    <3>2. Has(space'[Here], o, n) =>
              Has(space[Here], o, n) /\ (<<t, o, n>> \in late => <<t, o, n>> \in late')
      BY <1>1, <1>2, <1>5, <2>2 DEF Drains
    <3>3. o \in Object
      BY <1>1, <2>2
    <3> QED
      BY <3>1, <3>2, <3>3
  <2>3. \A o, m : Has(space'[Here], o, m) <=> Has(space[Here], o, m)'
    BY <1>3 DEF Has
  <2> QED
    BY <1>1, <1>3, <2>1, <2>2 DEF Halted, Has
<1> QED
  BY <1>4, <1>5

LEMMA KubectlDrains ==
    ASSUME kube' = kube, NEW t \in Terminal, NEW s, Kubectl(s),
           space \in [Server -> Space0], Here \in Server \cup {Nowhere},
           Here # Nowhere => \A n \in Names(t) :
               /\ n \in s.pools => n \in space[Here].pools
               /\ space[Here].driver[n] = Nil => s.driver[n] = Nil
               /\ \A o \in Object : Has(s, o, n) =>
                     Has(space[Here], o, n) /\ (<<t, o, n>> \in late => <<t, o, n>> \in late')
    PROVE  Drains(t)
<1>1. Here' = Here
  BY DEF Here
<1>2. Here # Nowhere => space'[Here] = s
  BY DEF Kubectl
<1> QED
  BY <1>1, <1>2 DEF Drains

LEMMA StillDrains ==
    ASSUME UNCHANGED <<kube, space>>, NEW t \in Terminal,
           \A o, n : <<t, o, n>> \in late => <<t, o, n>> \in late'
    PROVE  Drains(t)
BY DEF Drains, Here

\* What most of the steps rest on.
LEMMA DrainFacts ==
    ASSUME CInv, NEW t \in Terminal, NEW u \in Terminal
    PROVE  /\ Control /\ space \in [Server -> Space0] /\ Here \in Server \cup {Nowhere}
           /\ Names(t) \subseteq Name /\ KindOf(u) \in Kind \cup {Nil}
BY ControlHolds, InUseIsThere, RunningArguments
DEF CInv, TypeOK, SpacesTypeOK, Here, Names, KindOf, Control

LEMMA MakeDrains ==
    ASSUME CInv, NEW t \in Terminal, NEW u \in Terminal \ {t}, InMake(u), t \notin hit'
    PROVE  Drains(t)
<1>0. /\ Control /\ kube' = kube /\ space \in [Server -> Space0] /\ Here \in Server \cup {Nowhere}
      /\ late' = late /\ Names(t) \subseteq Name
  <2>1. kube' = kube /\ late' = late
    BY DEF InMake, BuildReady, BuildImage, MakeDir, MakeReady, MakeTemplate, MakeApply, MakeClean,
           Making, kubeFiles
  <2> QED
    BY <2>1, DrainFacts
<1> DEFINE k == KindOf(u)
<1>1. ASSUME NEW n \in Name, MakeReady(u, n) PROVE Drains(t)
  <2> DEFINE s == [space[Here] EXCEPT !.kinds = @ \cup ({k} \cap profile), !.pools = @ \ {n}]
  <2>1. Kubectl(s)
    BY <1>1 DEF MakeReady
  <2>2. Here # Nowhere => /\ s.models = space[Here].models /\ s.driver = space[Here].driver
                          /\ s.pools \subseteq space[Here].pools /\ s.ports = space[Here].ports
                          /\ s.services = space[Here].services
    BY <1>0 DEF Space0
  <2> HIDE DEF s
  <2>3. Here # Nowhere => \A o, x : Has(s, o, x) => Has(space[Here], o, x)
    BY <2>2 DEF Has
  <2> QED
    BY <1>0, <2>1, <2>2, <2>3, KubectlDrains
<1>2. ASSUME NEW n \in Name, MakeApply(u, n) PROVE Drains(t)
  <2> DEFINE m == dir[k].yaml
             s == [space[Here] EXCEPT !.driver[m] = k,
                     !.services = @ \cup {m},
                     !.models = IF Creatable(k) /\ dir[k].cr THEN @ \cup {<<k, m>>} ELSE @,
                     !.pools = IF Creatable(k) THEN @ \cup {n} ELSE @]
  <2>1. CASE UNCHANGED space
    BY <1>0, <2>1, StillDrains
  <2>2. CASE Kubectl(s) /\ Touch(u, {m, n})
    <3>1. m \notin Names(t) /\ n \notin Names(t)
      BY <2>2, Untouched
    <3>2. Kubectl(s)
      BY <2>2
    <3> HIDE DEF m, k
    <3>3. Here # Nowhere => /\ s.models \subseteq space[Here].models \cup {<<k, m>>}
                            /\ s.driver = [space[Here].driver EXCEPT ![m] = k]
                            /\ s.pools \subseteq space[Here].pools \cup {n}
                            /\ s.ports = space[Here].ports
                            /\ s.services = space[Here].services \cup {m}
      BY <1>0 DEF Space0
    <3> HIDE DEF s
    <3>4. \A x \in Name : Here # Nowhere /\ x # m => s.driver[x] = space[Here].driver[x]
      BY <1>0, <3>3 DEF Space0
    <3>5. Here # Nowhere => \A o, x : x # m /\ Has(s, o, x) => Has(space[Here], o, x)
      BY <3>3 DEF Has
    <3>6. Here # Nowhere => \A x \in Names(t) :
               /\ x \in s.pools => x \in space[Here].pools
               /\ space[Here].driver[x] = Nil => s.driver[x] = Nil
               /\ \A o \in Object : Has(s, o, x) => Has(space[Here], o, x)
      BY <1>0, <3>1, <3>3, <3>4, <3>5
    <3> QED
      BY <1>0, <3>2, <3>6, KubectlDrains
  <2> QED
    BY <1>2, <2>1, <2>2 DEF MakeApply
<1>3. CASE \A n \in Name : ~ (MakeReady(u, n) \/ MakeApply(u, n))
  <2>1. UNCHANGED space
    BY <1>3 DEF InMake, BuildReady, BuildImage, MakeDir, MakeTemplate, MakeClean
  <2> QED
    BY <1>0, <2>1, StillDrains
<1> QED
  BY <1>1, <1>2, <1>3

LEMMA FaultDrains ==
    ASSUME CInv, NEW t \in Terminal, NEW u \in Terminal \ {t}, Faulty(u), t \notin hit'
    PROVE  Drains(t)
<1>0. /\ Control /\ kube' = kube /\ space \in [Server -> Space0] /\ Here \in Server \cup {Nowhere}
      /\ Names(t) \subseteq Name
  <2>1. kube' = kube
    BY KubeIsLeft DEF kubeFiles
  <2> QED
    BY <2>1, DrainFacts
<1> DEFINE k == KindOf(u)
<1>1. ASSUME NEW n \in Name, MakeReadyFails(u, n) PROVE Drains(t)
  <2>1. PICK K \in SUBSET ({k} \cap profile), S \in SUBSET {n} :
            Kubectl([space[Here] EXCEPT !.kinds = @ \cup K, !.pools = @ \ S])
    BY <1>1 DEF MakeReadyFails
  <2> DEFINE s == [space[Here] EXCEPT !.kinds = @ \cup K, !.pools = @ \ S]
  <2>2. Here # Nowhere => /\ s.models = space[Here].models /\ s.driver = space[Here].driver
                          /\ s.pools \subseteq space[Here].pools /\ s.ports = space[Here].ports
                          /\ s.services = space[Here].services
    BY <1>0 DEF Space0
  <2>3. Kubectl(s) /\ late' = late
    BY <1>1, <2>1 DEF MakeReadyFails, Making
  <2> HIDE DEF s
  <2>4. Here # Nowhere => \A o, x : Has(s, o, x) => Has(space[Here], o, x)
    BY <2>2 DEF Has
  <2> QED
    BY <1>0, <2>2, <2>3, <2>4, KubectlDrains
<1>2. ASSUME NEW n \in Name, MakeApplyFails(u, n) PROVE Drains(t)
  <2> DEFINE m == dir[k].yaml
  <2>1. PICK d \in {Nil, k, space[Here].driver[m]}, S \in SUBSET {m},
             M \in SUBSET (IF Creatable(k) /\ dir[k].cr THEN {<<k, m>>} ELSE {}) :
             Kubectl([space[Here] EXCEPT !.driver[m] = d,
                 !.services = (@ \ {m}) \cup S,
                 !.models = IF dir[k].cr THEN (@ \ {<<k, m>>}) \cup M ELSE @])
    BY <1>2 DEF MakeApplyFails
  <2> DEFINE s == [space[Here] EXCEPT !.driver[m] = d,
                 !.services = (@ \ {m}) \cup S,
                 !.models = IF dir[k].cr THEN (@ \ {<<k, m>>}) \cup M ELSE @]
  <2>2. Kubectl(s) /\ late' = late /\ Touch(u, {m, n})
    BY <1>2, <2>1 DEF MakeApplyFails, Making
  <2>3. m \notin Names(t)
    BY <2>2, Untouched
  <2> HIDE DEF m, k
  <2>4. Here # Nowhere => /\ s.models \subseteq space[Here].models \cup {<<k, m>>}
                          /\ s.driver = [space[Here].driver EXCEPT ![m] = d]
                          /\ s.pools = space[Here].pools
                          /\ s.ports = space[Here].ports
                          /\ s.services \subseteq space[Here].services \cup {m}
    BY <1>0 DEF Space0
  <2> HIDE DEF s
  <2>5. \A x \in Name : Here # Nowhere /\ x # m => s.driver[x] = space[Here].driver[x]
    BY <1>0, <2>4 DEF Space0
  <2>6. Here # Nowhere => \A o, x : x # m /\ Has(s, o, x) => Has(space[Here], o, x)
    BY <2>4 DEF Has
  <2>7. Here # Nowhere => \A x \in Names(t) :
             /\ x \in s.pools => x \in space[Here].pools
             /\ space[Here].driver[x] = Nil => s.driver[x] = Nil
             /\ \A o \in Object : Has(s, o, x) => Has(space[Here], o, x)
    BY <1>0, <2>3, <2>4, <2>5, <2>6
  <2> QED
    BY <1>0, <2>2, <2>7, KubectlDrains
<1>3. CASE \A n \in Name : ~ (MakeReadyFails(u, n) \/ MakeApplyFails(u, n))
  <2>1. UNCHANGED space
    BY <1>3 DEF Faulty, BuildReadyFails, BuildImageFails, MakeTemplateFails, StopMakeFails,
                StopDeleteFails, StopLateFails
  <2>2. \A o, n : <<t, o, n>> \in late => <<t, o, n>> \in late'
    BY <1>3 DEF Faulty, BuildReadyFails, BuildImageFails, MakeTemplateFails, StopMakeFails,
                StopDeleteFails, StopLateFails, LateEnds, Making
  <2> QED
    BY <1>0, <2>1, <2>2, StillDrains
<1> QED
  BY <1>1, <1>2, <1>3

LEMMA StopDrains ==
    ASSUME CInv, NEW t \in Terminal, NEW u \in Terminal, Stopping(u)
    PROVE  Drains(t)
<1>0. /\ Control /\ space \in [Server -> Space0] /\ Here \in Server \cup {Nowhere}
      /\ Names(t) \subseteq Name /\ kube' = kube
  <2>1. kube' = kube
    BY DEF Stopping, StopMake, StopDelete, StopLate, Halting, LateEnds, kubeFiles
  <2> QED
    BY <2>1, DrainFacts
<1>1. ASSUME NEW n \in Name, StopMake(u, n) PROVE Drains(t)
  <2> DEFINE s == [space[Here] EXCEPT !.pools = @ \ {n}]
  <2>1. Kubectl(s) /\ late \subseteq late'
    BY <1>1 DEF StopMake
  <2>2. Here # Nowhere => /\ s.models = space[Here].models /\ s.driver = space[Here].driver
                          /\ s.pools \subseteq space[Here].pools /\ s.ports = space[Here].ports
                          /\ s.services = space[Here].services
    BY <1>0 DEF Space0
  <2> HIDE DEF s
  <2>3. Here # Nowhere => \A o, x : Has(s, o, x) => Has(space[Here], o, x)
    BY <2>2 DEF Has
  <2> QED
    BY <1>0, <2>1, <2>2, <2>3, KubectlDrains
<1>2. ASSUME NEW n \in Name, StopDelete(u, n) PROVE Drains(t)
  <2> DEFINE s == [space[Here] EXCEPT !.driver[n] = Nil]
  <2>1. Kubectl(s) /\ late' = late
    BY <1>2 DEF StopDelete
  <2>2. Here # Nowhere => /\ s.models = space[Here].models /\ s.pools = space[Here].pools
                          /\ s.driver = [space[Here].driver EXCEPT ![n] = Nil]
                          /\ s.ports = space[Here].ports /\ s.services = space[Here].services
    BY <1>0 DEF Space0
  <2> HIDE DEF s
  <2>3. \A m \in Name : Here # Nowhere /\ space[Here].driver[m] = Nil => s.driver[m] = Nil
    BY <1>0, <2>2 DEF Space0
  <2>4. Here # Nowhere => \A o, x : Has(s, o, x) => Has(space[Here], o, x)
    BY <2>2 DEF Has
  <2> QED
    BY <1>0, <2>1, <2>2, <2>3, <2>4, KubectlDrains
<1>3. ASSUME NEW n \in Name, NEW o \in Object, StopLate(u, o, n) PROVE Drains(t)
  <2> DEFINE s == Without(space[Here], o, n)
  <2>1. Kubectl(s) /\ late' = late \ {<<u, o, n>>}
    BY <1>3 DEF StopLate, LateEnds
  <2>2. Here # Nowhere => /\ s.pools = space[Here].pools /\ s.driver = space[Here].driver
                          /\ s.models \subseteq space[Here].models
                          /\ s.services \subseteq space[Here].services
                          /\ s.ports \subseteq space[Here].ports
                          /\ ~ Has(s, o, n)
    <3>1. /\ "service" \notin Kind /\ "nodeport" \notin Kind
      BY CliAssumption
    <3>2. Here # Nowhere => space[Here] \in Space0
      BY <1>0
    <3> QED
      BY <3>1, <3>2, WithoutOne DEF Has
  <2> HIDE DEF s
  <2>3. Here # Nowhere => \A j, x : Has(s, j, x) => Has(space[Here], j, x) /\ <<j, x>> # <<o, n>>
    BY <2>2 DEF Has
  <2> QED
    BY <1>0, <2>1, <2>2, <2>3, KubectlDrains
<1> QED
  BY <1>1, <1>2, <1>3 DEF Stopping

LEMMA LoopDrains ==
    ASSUME CInv, NEW t \in Terminal, NEW u \in Terminal, Looping(u)
    PROVE  Drains(t)
<1>0. /\ Control /\ space \in [Server -> Space0] /\ Here \in Server \cup {Nowhere}
      /\ UNCHANGED <<kube, late>>
  <2>1. UNCHANGED <<kube, late>>
    BY DEF Looping, BuildNext, BuildUnknown, StopNext, StopUnknown, GcDelete, Rmk, Push, Pull,
           PullGit, GcCount, GcCountFails, ForNext, kubeFiles, outside
  <2> QED
    BY <2>1, DrainFacts
<1>1. CASE GcDelete(u)
  <2> DEFINE k == kindVar[u]
             s == [space[Here] EXCEPT !.kinds = @ \ {k}, !.models = @ \ ({k} \X Name)]
  <2>1. Kubectl(s)
    BY <1>1 DEF GcDelete
  <2>2. Here # Nowhere => /\ s.models \subseteq space[Here].models
                          /\ s.pools = space[Here].pools /\ s.driver = space[Here].driver
                          /\ s.ports = space[Here].ports /\ s.services = space[Here].services
    BY <1>0 DEF Space0
  <2> HIDE DEF s
  <2>3. Here # Nowhere => \A o, x : Has(s, o, x) => Has(space[Here], o, x)
    BY <2>2 DEF Has
  <2> QED
    BY <1>0, <2>1, <2>2, <2>3, KubectlDrains
<1>2. CASE ~ GcDelete(u)
  <2>1. UNCHANGED space
    BY <1>2 DEF Looping, BuildNext, BuildUnknown, StopNext, StopUnknown, Rmk, Push, Pull,
           PullGit, GcCount, GcCountFails, ForNext, outside
  <2> QED
    BY <1>0, <2>1, StillDrains
<1> QED
  BY <1>1, <1>2

LEMMA RestDrains ==
    ASSUME CInv, NEW t \in Terminal, NEW u \in Terminal \ {t}, t \notin hit',
           Entering(u) \/ OnFile(u) \/ Ending(u)
    PROVE  Drains(t)
<1>0. /\ Control /\ space \in [Server -> Space0] /\ Names(t) \subseteq Name
      /\ Here \in Server \cup {Nowhere}
  BY DrainFacts
<1>1. CASE Entering(u)
  <2>1. PICK c, x : Began(u, c, x)
    BY <1>1, Beginning
  <2>2. UNCHANGED <<space, late, kube>>
    BY <2>1 DEF Began, outside, kubeFiles, ReadKube
  <2> QED
    BY <2>2, StillDrains
<1>2. CASE OnFile(u)
  <2>1. UNCHANGED <<space, late, kube>>
    BY <1>2 DEF OnFile, CopyConfig, SetConfig, OpenConfig, FillConfig, InThread, outside, kubeFiles
  <2> QED
    BY <2>1, StillDrains
<1>3. CASE Note(u) \/ Return(u) \/ Kill(u) \/ Panic(u)
  <2>1. UNCHANGED <<space, late, kube>>
    BY <1>3 DEF Note, NotePrev, Return, Kill, Panic, outside, kubeFiles
  <2> QED
    BY <2>1, StillDrains
<1>4. CASE Write(u)
  <2>1. UNCHANGED <<space, late>> /\ InUse(kube') = Here
    BY <1>4 DEF Write, outside
  <2> QED
    BY <2>1 DEF Drains, Here
<1>5. CASE ExposeCreate(u)
  <2>1. UNCHANGED <<late, kube>>
    BY <1>5 DEF ExposeCreate, kubeFiles
  <2>2. PICK n \in Name : /\ space' = space \/ \E s : space' = [space EXCEPT ![s].ports = @ \cup {n}]
                          /\ Touch(u, {n})
    BY <1>0, <1>5, RunningArguments DEF ExposeCreate, Control, AtItsOwn
  <2>3. n \notin Names(t)
    BY <2>2, Untouched
  <2>4. Here # Nowhere => /\ space'[Here].models = space[Here].models
                          /\ space'[Here].driver = space[Here].driver
                          /\ space'[Here].pools = space[Here].pools
                          /\ space'[Here].services = space[Here].services
                          /\ space'[Here].ports \subseteq space[Here].ports \cup {n}
    BY <1>0, <2>2 DEF Space0
  <2>5. Here # Nowhere => \A o, x : x # n /\ Has(space'[Here], o, x) => Has(space[Here], o, x)
    BY <2>4 DEF Has
  <2>6. Here' = Here
    BY <2>1 DEF Here
  <2> QED
    BY <2>1, <2>3, <2>4, <2>5, <2>6 DEF Drains
<1> QED
  BY <1>1, <1>2, <1>3, <1>4, <1>5 DEF Ending

\* Two kinds of one call are more than one.
LEMMA TwoKinds ==
    ASSUME NEW S, S \subseteq Kind \cup {Nil}, NEW j \in S, NEW k \in S, ~ (Cardinality(S) > 1)
    PROVE  j = k
<1>1. IsFiniteSet(Kind \cup {Nil})
  BY CliAssumption, FS_AddElement
<1>2. IsFiniteSet(S) /\ Cardinality(S) \in Nat
  BY <1>1, FS_Subset, FS_CardinalityType
<1>3. ASSUME j # k PROVE FALSE
  <2>1. IsFiniteSet({j}) /\ Cardinality({j}) = 1
    BY FS_Singleton
  <2>2. Cardinality({j} \cup {k}) = 2
    BY <1>3, <2>1, FS_AddElement
  <2>3. {j} \cup {k} \subseteq S
    OBVIOUS
  <2>4. Cardinality({j} \cup {k}) <= Cardinality(S)
    BY <1>2, <2>3, FS_Subset
  <2> QED
    BY <1>2, <2>2, <2>4
<1> QED
  BY <1>3

LEMMA StopStarts ==
    ASSUME CInv, NEW t \in Terminal, cmd[t].op = "stop", StopOK(t), t \notin spoilt', Looping(t)
    PROVE  StopOK(t)'
<1>0. Control /\ mem \in [Terminal -> Config] /\ cmd[t].names \subseteq Name
  BY ControlHolds, RunningArguments DEF CInv, TypeOK, HomeTypeOK
<1>1. StopNext(t)
  BY <1>0 DEF Looping, BuildNext, BuildUnknown, StopNext, StopUnknown, GcDelete, Rmk, Push, Pull,
              PullGit, GcCount, GcCountFails, ForNext, Control, AtItsOwn
<1>2. PICK n \in todo[t] : /\ kindVar' = [kindVar EXCEPT ![t] = StopKind(t, n)]
                           /\ todo' = [todo EXCEPT ![t] = @ \ {n}]
                           /\ Move(t, n, "spawned") /\ OnOr(t, todo[t] \ {n})
  BY <1>1 DEF StopNext
<1>3. UNCHANGED <<cmd, mem>>
  BY <1>1 DEF StopNext, home
<1>4. n \in cmd[t].names /\ \A m \in Name : m \in Thread
  BY <1>0, <1>2 DEF Control, TodoOK, Within, Thread
<1>5. /\ stage'[t][n] = "spawned" /\ kindVar'[t] = StopKind(t, n) /\ todo'[t] = todo[t] \ {n}
      /\ at'[t] = "threads" => todo'[t] = {}
      /\ \A m \in cmd[t].names \ {n} : stage'[t][m] = stage[t][m]
  BY <1>0, <1>2, <1>4 DEF Move, OnOr, Go, Control
<1>6. ASSUME NEW m \in cmd[t].names PROVE Halted(t, m)'
  <2>1. CASE m = n
    BY <1>5, <2>1 DEF Halted
  <2>2. CASE m # n
    <3>1. Drains(t) /\ Halted(t, m)
      BY LoopDrains DEF StopOK
    <3> QED
      BY <1>0, <1>3, <1>5, <2>2, <3>1, DrainsKeep
  <2> QED
    BY <2>1, <2>2
<1>7. kindVar'[t] \in StopKinds(t)'
  BY <1>0, <1>3, <1>4, <1>5, SameKinds DEF StopKinds
<1>8. todo[t] \subseteq cmd[t].names
  BY <1>0 DEF Control, TodoOK, Within
<1> QED
  BY <1>3, <1>5, <1>6, <1>7, <1>8 DEF StopOK

LEMMA StopWorks ==
    ASSUME CInv, NEW t \in Terminal, NEW u \in Terminal, cmd[t].op = "stop", StopOK(t), Stopping(u)
    PROVE  StopOK(t)'
<1>0. /\ Control /\ mem \in [Terminal -> Config] /\ space \in [Server -> Space0]
      /\ Here \in Server \cup {Nowhere}
      /\ cmd[t].names \subseteq Name /\ \A m \in Name : m \in Thread
  BY ControlHolds, RunningArguments, InUseIsThere
  DEF Here, CInv, TypeOK, SpacesTypeOK, HomeTypeOK, Thread
<1>1. UNCHANGED <<cmd, mem, at, todo, kindVar>>
  BY DEF Stopping, StopMake, StopDelete, StopLate, Halting, LateEnds, home
<1>2. Drains(t) /\ Here' = Here
  BY StopDrains DEF Drains
<1>3. /\ StopKinds(t)' = StopKinds(t) /\ StopKinds(t) \subseteq Kind \cup {Nil}
      /\ Aims(t)' = Aims(t) /\ Aims(t) \subseteq Object
  BY <1>0, <1>1, SameKinds
<1>4. ASSUME NEW m \in cmd[t].names,
             \/ stage'[t][m] = stage[t][m]
             \/ /\ stage'[t][m] = "off" /\ stage[t][m] = "wait"
                /\ \A o \in Object : <<t, o, m>> \notin late'
      PROVE  Halted(t, m)'
  BY <1>0, <1>1, <1>2, <1>4, DrainsKeep DEF StopOK
<1>5. ASSUME \A m \in cmd[t].names : Halted(t, m)',
             \A m \in cmd[t].names : stage[t][m] = "off" => stage'[t][m] = "off"
      PROVE  StopOK(t)'
  <2>1. todo[t] \subseteq cmd[t].names
    BY <1>0 DEF Control, TodoOK, Within
  <2> QED
    BY <1>1, <1>3, <1>5, <2>1 DEF StopOK
<1>6. ASSUME NEW n \in Name, StopMake(u, n) PROVE StopOK(t)'
  <2>1. /\ stage[u][n] = "spawned" /\ Move(u, n, "delete") /\ late' = late \cup Background(u, n)
        /\ Kubectl([space[Here] EXCEPT !.pools = @ \ {n}])
    BY <1>6 DEF StopMake, Halting
  <2>2. \A m \in cmd[t].names : <<t, m>> # <<u, n>> => stage'[t][m] = stage[t][m]
    BY <1>0, <2>1 DEF Move, Control
  <2>3. ASSUME u = t PROVE Halted(t, n)' /\ stage'[t][n] = "delete"
    <3>1. n \in cmd[t].names /\ n \notin todo[t] /\ stage'[t][n] = "delete"
      BY <1>0, <2>1, <2>3 DEF StopOK, Control, ThreadsAreItsOwn, Move
    <3>2. Here # Nowhere => n \notin space'[Here].pools
      BY <1>0, <2>1 DEF Kubectl, Space0
    <3>3. kindVar[t] \in StopKinds(t)
      BY <3>1 DEF StopOK
    <3>4. ASSUME NEW o \in Aims(t)
          PROVE  <<t, o, n>> \in late' \/ (o \in Kind /\ Cardinality(StopKinds(t)) > 1)
      <4>1. CASE o \in {"service", "nodeport"}
        BY <2>1, <2>3, <4>1 DEF Background
      <4>2. CASE o \in StopKinds(t) \cap Kind
        <5>1. o = kindVar[t] \/ Cardinality(StopKinds(t)) > 1
          BY <1>3, <3>3, <4>2, TwoKinds
        <5>2. <<t, kindVar[t], n>> \in late'
          BY <2>1, <2>3 DEF Background
        <5> QED
          BY <4>2, <5>1, <5>2
      <4> QED
        BY <3>4, <4>1, <4>2 DEF Aims
    <3> QED
      BY <1>2, <1>3, <3>1, <3>2, <3>4 DEF Halted
  <2>4. \A m \in cmd[t].names : Halted(t, m)'
    BY <1>4, <2>2, <2>3
  <2> QED
    BY <1>5, <2>1, <2>2, <2>4
<1>7. ASSUME NEW n \in Name, StopDelete(u, n) PROVE StopOK(t)'
  <2>1. /\ stage[u][n] = "delete" /\ late' = late
        /\ Move(u, n, IF StillWaits(u, n) THEN "wait" ELSE "off")
        /\ Kubectl([space[Here] EXCEPT !.driver[n] = Nil])
    BY <1>7 DEF StopDelete, Halting
  <2>2. \A m \in cmd[t].names : <<t, m>> # <<u, n>> => stage'[t][m] = stage[t][m]
    BY <1>0, <2>1 DEF Move, Control
  <2>3. ASSUME u = t PROVE Halted(t, n)'
    <3>1. n \in cmd[t].names /\ n \notin todo[t] /\ Halted(t, n) /\ n \in Names(t)
      BY <1>0, <2>1, <2>3 DEF StopOK, Control, ThreadsAreItsOwn, Names
    <3>2. Here # Nowhere => space'[Here].driver[n] = Nil
      BY <1>0, <2>1 DEF Kubectl, Space0
    <3>3. stage'[t][n] = "off" => cmd[t].quiet \/ \A o \in Object : <<t, o, n>> \notin late
      <4>1. stage'[t][n] = IF StillWaits(t, n) THEN "wait" ELSE "off"
        BY <1>0, <2>1, <2>3 DEF Move, Control
      <4> QED
        BY <4>1 DEF StillWaits
    <3>4. CASE Here = Nowhere
      BY <1>2, <3>4 DEF Halted
    <3>5. CASE Here # Nowhere
      <4>1. n \notin space[Here].pools /\ n \notin space'[Here].pools
        BY <1>2, <2>1, <2>3, <3>1, <3>5 DEF Halted, Drains
      <4>2. ASSUME NEW o \in Aims(t)
            PROVE  \/ ~ Has(space'[Here], o, n)
                   \/ <<t, o, n>> \in late' /\ (stage'[t][n] = "off" => cmd[t].quiet)
                   \/ o \in Kind /\ Cardinality(StopKinds(t)) > 1
        <5>1. o \in Object
          BY <1>3, <4>2
        <5>2. \/ ~ Has(space[Here], o, n)
              \/ <<t, o, n>> \in late
              \/ o \in Kind /\ Cardinality(StopKinds(t)) > 1
          BY <2>1, <2>3, <3>1, <3>5, <4>2 DEF Halted
        <5>3. Has(space'[Here], o, n) => Has(space[Here], o, n)
          BY <1>2, <3>1, <3>5, <5>1 DEF Drains
        <5> QED
          BY <2>1, <3>3, <5>1, <5>2, <5>3
      <4> QED
        BY <1>1, <1>2, <1>3, <3>2, <3>5, <4>1, <4>2 DEF Halted, Has
    <3> QED
      BY <3>4, <3>5
  <2>4. \A m \in cmd[t].names : Halted(t, m)'
    BY <1>4, <2>2, <2>3
  <2> QED
    BY <1>5, <2>1, <2>2, <2>4
<1>8. ASSUME NEW n \in Name, NEW o \in Object, StopLate(u, o, n) PROVE StopOK(t)'
  <2>1. \/ stage' = stage
        \/ /\ stage[u][n] = "wait" /\ Move(u, n, "off")
           /\ \A j \in Object : <<u, j, n>> \notin late'
    BY <1>8 DEF StopLate, LateEnds
  <2>2. \A m \in cmd[t].names :
            \/ stage'[t][m] = stage[t][m]
            \/ /\ stage'[t][m] = "off" /\ stage[t][m] = "wait"
               /\ \A j \in Object : <<t, j, m>> \notin late'
    BY <1>0, <2>1 DEF Move, Control
  <2> QED
    BY <1>4, <1>5, <2>2
<1> QED
  BY <1>6, <1>7, <1>8 DEF Stopping

LEMMA StopEnters ==
    ASSUME CInv, NEW t \in Terminal, Entering(t) PROVE StopOK(t)'
<1>0. Control
  BY ControlHolds
<1>1. PICK c, x : Began(t, c, x)
  BY Beginning
<1>2. cmd'[t] = c /\ todo'[t] = x /\ at'[t] = First(c)
  BY <1>0, <1>1 DEF Began, Control
<1> SUFFICES ASSUME c.op = "stop" PROVE StopOK(t)'
  BY <1>2 DEF StopOK
<1>3. x = c.names /\ First(c) = "loop" /\ stage' = stage /\ at[t] = "idle"
  BY <1>1 DEF Began, Tasks, First, Started, OnConfig, Loops, OnKinds
<1>4. c.names \subseteq Thread
  <2>1. c \in Command
    BY <1>0, <1>1 DEF Began, Swaps, Control
  <2> QED
    BY <2>1, Arguments DEF Thread
<1>5. \A n \in c.names : stage'[t][n] = "off"
  BY <1>0, <1>3, <1>4 DEF Control
<1> QED
  BY <1>2, <1>3, <1>5 DEF StopOK, Halted

\* What a stop has taken away does not come back, whoever takes the next step.
LEMMA StopStep == CInv /\ StopInv /\ [Next]_vars => StopInv'
<1> SUFFICES ASSUME CInv, StopInv, [Next]_vars, NEW t \in Terminal, t \notin Marked'
             PROVE  StopOK(t)'
  BY DEF StopInv
<1>0. Control /\ mem \in [Terminal -> Config] /\ t \notin hit' /\ t \notin spoilt'
  BY ControlHolds DEF CInv, TypeOK, HomeTypeOK, Marked
<1>1. CASE Entering(t)
  BY <1>1, StopEnters
<1>2. CASE ~ Entering(t)
  <2>1. t \notin Marked /\ StopOK(t)
    BY <1>2, MarkedGrow DEF StopInv
  <2>2. ASSUME Own(t)' = Own(t), Drains(t) PROVE StopOK(t)'
    <3> SUFFICES ASSUME cmd[t].op = "stop" PROVE StopOK(t)'
      BY <2>2 DEF Own, StopOK
    <3>1. StopKinds(t)' = StopKinds(t)
      BY <1>0, <2>2, SameKinds DEF Own
    <3>2. \A n \in cmd[t].names : Halted(t, n)'
      BY <1>0, <2>1, <2>2, DrainsKeep DEF Own, StopOK
    <3> QED
      BY <2>1, <2>2, <3>1, <3>2 DEF Own, StopOK
  <2>3. CASE UNCHANGED vars
    <3>1. UNCHANGED <<kube, space, late>> /\ Own(t)' = Own(t)
      BY <2>3 DEF vars, threads, outside, home, kubeFiles, Own
    <3> QED
      BY <2>2, <3>1, StillDrains
  <2>4. CASE Next
    <3>1. PICK u \in Terminal : \/ Entering(u) \/ Looping(u) \/ InMake(u) \/ Stopping(u)
                                \/ Faulty(u) \/ OnFile(u) \/ Ending(u)
      BY <2>4, Groups
    <3>2. CASE u # t
      <4>1. Own(t)' = Own(t)
        BY <3>1, <3>2, OwnIsKept
      <4>2. Drains(t)
        BY <1>0, <3>1, <3>2, MakeDrains, StopDrains, FaultDrains, LoopDrains, RestDrains
      <4> QED
        BY <2>2, <4>1, <4>2
    <3>3. CASE u = t /\ cmd[t].op # "stop"
      <4>1. cmd'[t].op \in {cmd[t].op, "none"}
        BY <1>0, <1>2, <3>1, <3>3, SameCommand
      <4> QED
        BY <3>3, <4>1 DEF StopOK
    <3>4. CASE u = t /\ cmd[t].op = "stop"
      <4>1. ~ OnFile(t)
        BY <1>0, <3>4 DEF OnFile, CopyConfig, SetConfig, OpenConfig, FillConfig, Copy, Set, Open, Fill,
                          Control, ThreadsAreItsOwn, InHome, OnConfig
      <4>2. ~ InMake(t)
        BY <3>4 DEF InMake, BuildReady, BuildImage, MakeDir, MakeReady, MakeTemplate, MakeApply,
                    MakeClean, Making
      <4>3. ~ Faulty(t)
        BY <1>0, <3>4 DEF Faulty, BuildReadyFails, BuildImageFails, MakeReadyFails,
              MakeTemplateFails, MakeApplyFails, StopMakeFails, StopDeleteFails, StopLateFails, Fails
      <4>4. CASE Ending(t)
        <5>1. ~ (Write(t) \/ Note(t) \/ ExposeCreate(t) \/ Panic(t))
          BY <1>0, <3>4, PanicIsInRun DEF Write, Note, ExposeCreate, Control, AtItsOwn, OfSpaces
        <5>2. Exit(t)
          BY <4>4, <5>1 DEF Ending, Return, Kill
        <5> QED
          BY <1>0, <5>2 DEF Exit, StopOK, Control, NoCommand
      <4> QED
        BY <1>0, <1>2, <2>1, <3>1, <3>4, <4>1, <4>2, <4>3, <4>4, StopStarts, StopWorks
    <3> QED
      BY <3>2, <3>3, <3>4
  <2> QED
    BY <2>3, <2>4
<1> QED
  BY <1>1, <1>2

LEMMA StopBegins == Init => StopInv
<1> SUFFICES ASSUME Init, NEW t \in Terminal PROVE StopOK(t)
  BY DEF StopInv
<1>1. cmd[t] = NoCommand
  BY DEF Init
<1> QED
  BY <1>1 DEF NoCommand, StopOK

\* When digi stop returns nothing of the digis named is left in the space, but
\* for what a digi stop -q has left to the background (Makefile:185-197) and the
\* models of a call whose goroutines share a variable kind of several values,
\* unless another command had a hand in it, something that make called failed or
\* log.Fatalf ended the loop (stopCmd of digi.go).
THEOREM StopsTheorem == Spec => StopStopsAll
<1>1. CInv /\ StopInv => \A t \in Terminal : Done(t, "stop") =>
          \A n \in cmd[t].names :
              LET Pending(o) == cmd[t].quiet /\ <<t, o, n>> \in late
              IN  /\ space[Here].driver[n] = Nil /\ n \notin space[Here].pools
                  /\ n \in space[Here].services => Pending("service")
                  /\ n \in space[Here].ports => Pending("nodeport")
                  /\ \A k \in StopKinds(t) : <<k, n>> \in space[Here].models =>
                        Pending(k) \/ Cardinality(StopKinds(t)) > 1
  <2> SUFFICES ASSUME CInv, StopInv, NEW t \in Terminal, Done(t, "stop"), NEW n \in cmd[t].names
               PROVE  /\ space[Here].driver[n] = Nil /\ n \notin space[Here].pools
                      /\ n \in space[Here].services => cmd[t].quiet /\ <<t, "service", n>> \in late
                      /\ n \in space[Here].ports => cmd[t].quiet /\ <<t, "nodeport", n>> \in late
                      /\ \A k \in StopKinds(t) : <<k, n>> \in space[Here].models =>
                            \/ cmd[t].quiet /\ <<t, k, n>> \in late
                            \/ Cardinality(StopKinds(t)) > 1
    OBVIOUS
  <2>1. n \in Thread /\ StopOK(t) /\ Control /\ cmd[t].op = "stop"
    BY ControlHolds, RunningArguments DEF Done, Returns, StopInv, Marked, Thread
  <2>2. stage[t][n] = "off" /\ todo[t] = {} /\ Here # Nowhere /\ Halted(t, n)
    BY <2>1 DEF Done, Returns, StopOK
  <2>3. /\ space[Here].driver[n] = Nil /\ n \notin space[Here].pools
        /\ \A o \in Aims(t) :
              \/ ~ Has(space[Here], o, n)
              \/ cmd[t].quiet /\ <<t, o, n>> \in late
              \/ o \in Kind /\ Cardinality(StopKinds(t)) > 1
    BY <2>2 DEF Halted
  <2>4. "service" \notin Kind /\ "nodeport" \notin Kind
    BY CliAssumption
  <2>5. /\ n \in space[Here].services => cmd[t].quiet /\ <<t, "service", n>> \in late
        /\ n \in space[Here].ports => cmd[t].quiet /\ <<t, "nodeport", n>> \in late
    BY <2>3, <2>4 DEF Aims, Has
  <2>6. \A k \in StopKinds(t) : <<k, n>> \in space[Here].models => k \in Kind
    <3>1. Here \in Server
      BY <2>2, InUseIsThere DEF Here, CInv, TypeOK, SpacesTypeOK
    <3>2. space[Here].models \subseteq Kind \X Name
      BY <3>1 DEF CInv, TypeOK, Space0
    <3> QED
      BY <3>2
  <2>7. \A k \in StopKinds(t) : <<k, n>> \in space[Here].models =>
            \/ cmd[t].quiet /\ <<t, k, n>> \in late
            \/ Cardinality(StopKinds(t)) > 1
    BY <2>3, <2>6 DEF Aims, Has
  <2> QED
    BY <2>3, <2>5, <2>7
<1>2. (CInv /\ StopInv) /\ [Next]_vars => (CInv /\ StopInv)'
  BY TypesStep, StopStep
<1> QED
  BY <1>1, <1>2, InitTypes, StopBegins, PTL DEF Spec, StopStopsAll
=============================================================================
