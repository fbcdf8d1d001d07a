----------------------------- MODULE MultiTree ------------------------------
(***************************************************************************)
(* The digi-graph, space/mount/webhook/graph/multitree.go: which digi is   *)
(* mounted under which.  It is a multitree, a directed graph in which at   *)
(* most one path leads from a node to another, so that what hangs below a  *)
(* node is a tree.                                                         *)
(*                                                                         *)
(* The code never searches for paths.  Every node carries the set of the   *)
(* roots above it (itself when nothing is above it), the trees are filed   *)
(* under their roots, and an edge is refused when its two ends, or what is *)
(* below the lower one, have a root in common.  The properties say that    *)
(* this bookkeeping is always right.                                       *)
(***************************************************************************)
EXTENDS Naturals, FiniteSets

CONSTANT Node

VARIABLES
    nodes,     \* mt.nodes: the names that are in the graph
    children,  \* node.children, by name
    roots,     \* node.roots
    trees      \* mt.trees: the names trees are filed under

vars == <<nodes, children, roots, trees>>

\* Edges, roots and trees are of nodes that the graph has.
TypeOK ==
    /\ nodes \in SUBSET Node /\ trees \in SUBSET nodes
    /\ children \in [Node -> SUBSET nodes]
    /\ roots \in [Node -> SUBSET nodes]

\* NewMultiTree.
Init ==
    /\ nodes = {} /\ trees = {}
    /\ children = [n \in Node |-> {}]
    /\ roots = [n \in Node |-> {}]

\* The nodes a recursion along child edges visits, n first: those in every
\* set that has n and is closed under ch.
Closed(ch, S) == \A x \in S : ch[x] \subseteq S
Below(ch, n) ==
    LET around == {S \in SUBSET Node : n \in S /\ Closed(ch, S)}
    IN  {d \in Node : \A S \in around : d \in S}

-----------------------------------------------------------------------------

\* deepUpdateRoots on a graph with the edges ch, from n down.
DeepUpdated(ch, del, add, n) ==
    [d \in Node |-> IF d \in Below(ch, n) THEN (roots[d] \ del) \cup add
                    ELSE roots[d]]

\* deepCompareRoots: nothing from e down has a root in common with s.
NoSharedRoot(s, e) ==
    \A d \in Below(children, e) : roots[d] \cap roots[s] = {}

AddNode(n) ==
    /\ n \notin nodes
    /\ nodes' = nodes \cup {n}
    /\ trees' = trees \cup {n}
    /\ children' = [children EXCEPT ![n] = {}]
    /\ roots' = [roots EXCEPT ![n] = {n}]

Edge(s, e) == e \in children[s]

\* mutant: the tree of e stays filed.
AddEdgeKeepsTree(s, e) ==
    /\ {s, e} \subseteq nodes /\ ~ Edge(s, e)
    /\ NoSharedRoot(s, e)
    /\ children' = [children EXCEPT ![s] = @ \cup {e}]
    /\ roots' = DeepUpdated(children, {e}, roots[s], e)
    /\ UNCHANGED <<nodes, trees>>

\* An edge that is there already, or that is refused, changes nothing.
AddEdge(s, e) ==
    /\ {s, e} \subseteq nodes /\ ~ Edge(s, e)
    /\ NoSharedRoot(s, e)
    /\ children' = [children EXCEPT ![s] = @ \cup {e}]
    /\ trees' = trees \ {e}
    /\ roots' = DeepUpdated(children, {e}, roots[s], e)
    /\ UNCHANGED nodes

\* The state's successor without the edge from s to e: e becomes a root when
\* no root is left above it.
NewRoots(s, e) == IF roots[e] \subseteq roots[s] THEN {e} ELSE {}

\* mutant: the nodes below e are forgotten.
RemoveEdgeShallow(s, e) ==
    /\ {s, e} \subseteq nodes /\ Edge(s, e)
    /\ children' = [children EXCEPT ![s] = @ \ {e}]
    /\ trees' = trees \cup NewRoots(s, e)
    /\ roots' = [roots EXCEPT ![e] = (@ \ roots[s]) \cup NewRoots(s, e)]
    /\ UNCHANGED nodes

RemoveEdge(s, e) ==
    /\ {s, e} \subseteq nodes /\ Edge(s, e)
    /\ children' = [children EXCEPT ![s] = @ \ {e}]
    /\ trees' = trees \cup NewRoots(s, e)
    /\ roots' = DeepUpdated(children, roots[s], NewRoots(s, e), e)
    /\ UNCHANGED nodes

\* RemoveNode removes the edges to n's children one after the other.  No two
\* of them share a descendant: the order does not matter.
ChildAbove(n, d) == {c \in children[n] : d \in Below(children, c)}

\* mutant: the edges from above stay.
RemoveNodeBelow(n) ==
    /\ n \in nodes
    /\ nodes' = nodes \ {n}
    /\ trees' = (trees \cup UNION {NewRoots(n, c) : c \in children[n]}) \ {n}
    /\ roots' = [d \in Node |->
          IF d = n THEN {}
          ELSE IF ChildAbove(n, d) = {} THEN roots[d]
          ELSE (roots[d] \ roots[n])
               \cup UNION {NewRoots(n, c) : c \in ChildAbove(n, d)}]
    /\ children' = [children EXCEPT ![n] = {}]

RemoveNode(n) ==
    /\ n \in nodes
    /\ nodes' = nodes \ {n}
    /\ trees' = (trees \cup UNION {NewRoots(n, c) : c \in children[n]}) \ {n}
    /\ roots' = [d \in Node |->
          IF d = n THEN {}
          ELSE IF ChildAbove(n, d) = {} THEN roots[d]
          ELSE (roots[d] \ roots[n])
               \cup UNION {NewRoots(n, c) : c \in ChildAbove(n, d)}]
    /\ children' = [m \in Node |-> IF m = n THEN {} ELSE children[m] \ {n}]

Next ==
    \/ \E n \in Node : AddNode(n) \/ RemoveNode(n)
    \/ \E s, e \in Node : AddEdge(s, e) \/ RemoveEdge(s, e)

Spec == Init /\ [][Next]_vars

-----------------------------------------------------------------------------
(* Properties.                                                             *)

Parentless(n) == n \in nodes /\ \A m \in Node : ~ Edge(m, n)

(***************************************************************************)
(* node.roots is what a search would find: the nodes without a parent from *)
(* which the node can be reached; and a tree is filed under each of them.  *)
(***************************************************************************)
RootsAreRight ==
    /\ \A n \in nodes :
          roots[n] = {r \in nodes : Parentless(r) /\ n \in Below(children, r)}
    /\ trees = {r \in nodes : Parentless(r)}

\* No cycle, and nothing below two children of the same node.
IsMultiTree(ch) ==
    \A n \in Node : \A c \in ch[n] :
        /\ n \notin Below(ch, c)
        /\ \A d \in ch[n] \ {c} : Below(ch, c) \cap Below(ch, d) = {}

(***************************************************************************)
(* AddEdge refuses exactly the mounts that would lead to a second path: a  *)
(* mount that keeps the multitree is never refused because of stale roots. *)
(***************************************************************************)
CheckIsExact ==
    \A s, e \in nodes : ~ Edge(s, e) =>
        (NoSharedRoot(s, e) <=>
            IsMultiTree([children EXCEPT ![s] = @ \cup {e}]))
=============================================================================
