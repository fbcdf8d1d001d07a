------------------------------ MODULE DigiHome ------------------------------
(***************************************************************************)
(* ~/.digi/config, where the digi command line keeps its aliases and its   *)
(* settings (api/alias, api/config).  A process reads the whole file into  *)
(* viper's memory when it starts; a change is made to that memory and the  *)
(* whole of it is written back, however long after the start: the file is  *)
(* opened with truncation and then filled.  Nothing is locked.             *)
(*                                                                         *)
(* A process is a terminal's current command.  Each of its goroutines, one *)
(* per digi the command names (Main for a command that needs none), makes  *)
(* one change: copy, set, open, fill.                                      *)
(***************************************************************************)
EXTENDS Naturals, FiniteSets

CONSTANTS
    Terminal, Name, Kind, Setting,
    Main,
    Nil,       \* what is not there: no kind, no setting, no name
    Garbled    \* a file that is no YAML

Thread == Name \cup {Main}
Config == [alias : [Name -> Kind \cup {Nil}], setting : Setting \cup {Nil}]
NoConfig == [alias |-> [n \in Name |-> Nil], setting |-> Nil]

ASSUME HomeAssumption ==
    Main \notin Name /\ Nil \notin Name \cup Kind \cup Setting /\ Garbled \notin Config

VARIABLES
    file,     \* ~/.digi/config
    mem,      \* by terminal, viper's memory
    stage,    \* by terminal and thread, what it does next, "off" if nothing
    held,     \* by terminal and thread, the configuration it works on
    abreast,  \* history: terminals that read all that has been written
    ledger,   \* history: the file had every change been made in its turn
    crossed   \* history: changes have been made across each other

home == <<file, mem, held, abreast, ledger, crossed>>

InHome == {"set", "open", "fill"}
HomeTypeOK ==
    /\ file \in Config \cup {Garbled} /\ ledger \in Config /\ crossed \in BOOLEAN
    /\ mem \in [Terminal -> Config] /\ held \in [Terminal -> [Thread -> Config]]
    /\ abreast \in SUBSET Terminal

Move(t, i, s) == stage' = [stage EXCEPT ![t][i] = s]
Filling(t) == \E u \in Terminal \ {t}, i \in Thread : stage[u][i] = "fill"

\* config.Load, when a process starts; it finds an empty file between the
\* opening and the filling of a write.
Load(t) ==
    /\ file # Garbled
    /\ mem' = [mem EXCEPT ![t] = file]
    /\ abreast' = IF Filling(t) THEN abreast \ {t} ELSE abreast \cup {t}
    /\ UNCHANGED <<file, held, ledger, crossed>>

\* alias.Resolve: Nil for a name it does not know.
Resolve(c, n) == c.alias[n]

\* A change of the configuration: one alias, all aliases, one setting.
WithAlias(c, n, k) == [c EXCEPT !.alias[n] = k]
Cleared(c, section) ==
    IF section = "alias" THEN [c EXCEPT !.alias = NoConfig.alias]
    ELSE [c EXCEPT !.setting = Nil]
WithSetting(c, v) == [c EXCEPT !.setting = v]

\* viper.UnmarshalKey: the thread has a copy of what it is about to change.
Copy(t, i) ==
    /\ stage[t][i] = "copy" /\ Move(t, i, "set")
    /\ held' = [held EXCEPT ![t][i] = mem[t]]
    /\ UNCHANGED <<file, mem, abreast, ledger, crossed>>

\* viper.Set of the copy with the change made, c; the change makes of what
\* the file should hold owed.
Set(t, i, c, owed) ==
    /\ stage[t][i] = "set" /\ Move(t, i, "open")
    /\ mem' = [mem EXCEPT ![t] = c]
    /\ ledger' = owed
    /\ crossed' = (crossed \/ \E j \in Thread \ {i} : stage[t][j] \in {"set", "fill"})
    /\ UNCHANGED <<file, held, abreast>>

\* mutant: viper knows only the section it was given.
OpenSection(t, i) ==
    /\ stage[t][i] = "open" /\ Move(t, i, "fill")
    /\ file' = NoConfig
    /\ held' = [held EXCEPT ![t][i] = [NoConfig EXCEPT !.alias = mem[t].alias]]
    /\ crossed' = (crossed \/ t \notin abreast \/ Filling(t))
    /\ abreast' = abreast \cap {t}
    /\ UNCHANGED <<mem, ledger>>

\* viper.WriteConfig truncates the file and takes down all it knows ...
Open(t, i) ==
    /\ stage[t][i] = "open" /\ Move(t, i, "fill")
    /\ file' = NoConfig
    /\ held' = [held EXCEPT ![t][i] = mem[t]]
    /\ crossed' = (crossed \/ t \notin abreast \/ Filling(t))
    /\ abreast' = abreast \cap {t}
    /\ UNCHANGED <<mem, ledger>>

Sections(c) == {n \in Name : c.alias[n] # Nil} \cup ({c.setting} \ {Nil})

\* ... and writes it from the start of the file: the end of a longer text
\* another has written since is left behind it.
Fill(t, i, next) ==
    /\ stage[t][i] = "fill" /\ Move(t, i, next)
    /\ file' \in {held[t][i]} \cup
          (IF file # Garbled /\ Sections(file) \subseteq Sections(held[t][i])
           THEN {} ELSE {Garbled})
    /\ held' = [held EXCEPT ![t][i] = NoConfig]
    /\ UNCHANGED <<mem, abreast, ledger, crossed>>

\* The process dies.
HomeDies(t) ==
    /\ crossed' = (crossed \/ \E i \in Thread : stage[t][i] \in {"open", "fill"})
    /\ held' = [held EXCEPT ![t] = [i \in Thread |-> NoConfig]]
    /\ UNCHANGED <<file, mem, abreast, ledger>>

(***************************************************************************)
(* Every change made through the alias and config packages is in the file, *)
(* and nothing else is lost with it, once it is made: unless two commands, *)
(* or two goroutines of one (digi.go:812, "TBD check potential race"), met *)
(* between reading the file and writing it, or a write was cut short.      *)
(***************************************************************************)
HomeKept ==
    \/ crossed \/ file = ledger
    \/ \E t \in Terminal, i \in Thread : stage[t][i] \in InHome
=============================================================================
