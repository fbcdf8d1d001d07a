------------------------------- MODULE Spaces -------------------------------
(***************************************************************************)
(* ~/.kube/config, which says what spaces there are and which is in use,   *)
(* and ~/.kube/kubectx, the space in use before: digi space add, delete,   *)
(* use and alias (cmd/digi/space, api/k8s/kubeconfig.go) and the side car  *)
(* ctx they call.  Every one of them reads the file, changes what it has   *)
(* read and writes all of it back; nothing is locked.  A write of the file *)
(* is one step here.                                                       *)
(***************************************************************************)
EXTENDS Naturals, FiniteSets

CONSTANTS
    Shell,     \* the terminals the commands run in
    Id,        \* the names of contexts, clusters and users
    Server,    \* the clusters there are: each is a space
    Nowhere,   \* no server, no user of one, no context
    NoId

Context == [cluster : Id, user : Id]
Entries == [Id -> Server \cup {Nowhere}]
Kube == [contexts : [Id -> Context \cup {Nowhere}], clusters : Entries,
         users : Entries, current : Id \cup {NoId}]

ASSUME SpacesAssumption ==
    NoId \notin Id /\ Nowhere \notin Server \cup Context

VARIABLES
    kube,      \* ~/.kube/config
    prev,      \* ~/.kube/kubectx
    copy,      \* by terminal, the file as a command of it has read it
    aware,     \* history: terminals since whose reading no other has written
    last,      \* history: the space in use before the last switch
    strayed    \* history: more has happened since, or it is not noted yet

kubeFiles == <<kube, prev, copy, aware, last, strayed>>

SpacesTypeOK ==
    /\ kube \in Kube /\ copy \in [Shell -> Kube]
    /\ prev \in Id \cup {NoId} /\ last \in Id \cup {NoId}
    /\ aware \in SUBSET Shell /\ strayed \in BOOLEAN

There(f) == {i \in DOMAIN f : f[i] # Nowhere}
Contexts(k) == There(k.contexts)

\* Clusters, Users and Contexts of kubeconfig.go start from a slice of one
\* element less than there are names: it panics for none, and holds an empty
\* name for two or more.
Listable(f) == There(f) # {}
Listed(f) == There(f) \cup (IF Cardinality(There(f)) > 1 THEN {NoId} ELSE {})

\* Where a context leads: the server of its cluster, with the server its user
\* is known at.
Leads(k, s) ==
    IF k.contexts[s] = Nowhere THEN <<Nowhere, Nowhere>>
    ELSE <<k.clusters[k.contexts[s].cluster], k.users[k.contexts[s].user]>>

\* Where kubectl goes: nowhere without a user there.
InUse(k) ==
    IF k.current = NoId \/ Leads(k, k.current)[1] # Leads(k, k.current)[2]
    THEN Nowhere ELSE Leads(k, k.current)[1]

-----------------------------------------------------------------------------
(* What a command makes of the file.                                       *)

Over(f, g) == [i \in Id |-> IF f[i] # Nowhere THEN f[i] ELSE g[i]]

\* mutant: the precedence the wrong way round.
MergedUnder(root, given) ==
    [contexts |-> Over(given.contexts, root.contexts),
     clusters |-> Over(given.clusters, root.clusters),
     users |-> Over(given.users, root.users),
     current |-> IF root.current # NoId THEN root.current ELSE given.current]

\* MergeKubeConfigs: the root's entries take precedence.
Merged(root, given) ==
    [contexts |-> Over(root.contexts, given.contexts),
     clusters |-> Over(root.clusters, given.clusters),
     users |-> Over(root.users, given.users),
     current |-> IF root.current # NoId THEN root.current ELSE given.current]

EntryLists == {"clusters", "contexts", "users"}

\* addCmd goes on: by force, or when no name of the three lists is in both.
CanAdd(root, c) ==
    \/ c.force
    \/ \A x \in EntryLists :
          /\ Listable(root[x]) /\ Listable(c.given[x])
          /\ Listed(root[x]) \cap Listed(c.given[x]) = {}

\* DeleteKubeConfig takes all that has the context's name; the current context
\* is left as it is.
Deleted(k, s) ==
    LET Less(f) == [f EXCEPT ![s] = Nowhere]
    IN  [contexts |-> Less(k.contexts), clusters |-> Less(k.clusters),
         users |-> Less(k.users), current |-> k.current]

\* RenameOp.Run of ctx, over a context of the new name; kubectl's does not.
Renamed(k, old, new) ==
    [contexts |-> [k.contexts EXCEPT ![new] = k.contexts[old], ![old] = Nowhere],
     clusters |-> k.clusters, users |-> k.users,
     current |-> IF k.current = old THEN new ELSE k.current]

Changed(k, c) ==
    CASE c.op = "add" -> Merged(k, c.given)
      [] c.op = "delete" -> Deleted(k, c.name)
      [] c.op \in {"use", "swap"} -> [k EXCEPT !.current = c.name]
      [] c.op \in {"rename", "alias"} -> Renamed(k, c.name, c.new)
      [] c.op = "forget" -> [k EXCEPT !.contexts[c.name] = Nowhere]
      [] c.op = "unset" -> [k EXCEPT !.current = NoId]

-----------------------------------------------------------------------------

ReadKube(t) ==
    /\ copy' = [copy EXCEPT ![t] = kube]
    /\ aware' = aware \cup {t}
    /\ UNCHANGED <<kube, prev, last, strayed>>

\* switchContext is still to note the context it leaves, if it leaves one.
Leaves(t, c) == c.op \in {"use", "swap"} /\ copy[t].current # c.name

WriteKube(t, c) ==
    /\ kube' = Changed(copy[t], c)
    /\ aware' = IF kube' = kube THEN aware ELSE aware \cap {t}
    /\ last' = IF Leaves(t, c) THEN copy[t].current ELSE last
    /\ strayed' = (strayed \/ kube' # kube \/ last' # last)
    /\ UNCHANGED <<prev, copy>>

NotePrev(t) ==
    /\ prev' = copy[t].current
    /\ strayed' = (t \notin aware \/ copy[t].current # last)
    /\ aware' = IF prev' = prev THEN aware ELSE aware \cap {t}
    /\ UNCHANGED <<kube, copy, last>>
=============================================================================
