-------------------------- MODULE MultiTree_proofs --------------------------
(***************************************************************************)
(* The bookkeeping of the digi-graph is right for any set of names, finite *)
(* or not: the root sets are what a search would find, the graph stays a   *)
(* multitree, and AddEdge refuses exactly what would end that.             *)
(*                                                                         *)
(* Below is the least closed set around a node, so that what an induction  *)
(* along paths would show is shown by naming a set that is closed.         *)
(***************************************************************************)
EXTENDS MultiTree, TLAPS

-----------------------------------------------------------------------------
(* What is below a node *)

Edges == [Node -> SUBSET Node]

\* Below is closed under child edges and has the node itself.
LEMMA BelowIsClosed ==
    ASSUME NEW ch \in Edges, NEW n \in Node
    PROVE  /\ n \in Below(ch, n) /\ Below(ch, n) \subseteq Node
           /\ Closed(ch, Below(ch, n))
<1> DEFINE around == {S \in SUBSET Node : n \in S /\ Closed(ch, S)}
<1>1. Below(ch, n) = {d \in Node : \A S \in around : d \in S}
  BY DEF Below
<1>2. ASSUME NEW x \in Below(ch, n), NEW y \in ch[x] PROVE y \in Below(ch, n)
  <2>1. y \in Node
    BY <1>1 DEF Edges
  <2>2. ASSUME NEW S \in around PROVE y \in S
    BY <1>1 DEF Closed
  <2> QED
    BY <1>1, <2>1, <2>2
<1> QED
  BY <1>1, <1>2 DEF Closed

\* It is in every closed set that has the node.
LEMMA BelowIsLeast ==
    ASSUME NEW ch \in Edges, NEW n \in Node,
           NEW T \in SUBSET Node, n \in T, Closed(ch, T)
    PROVE  Below(ch, n) \subseteq T
BY DEF Below

\* What is below a lower node is below the upper one.
LEMMA BelowIsTransitive ==
    ASSUME NEW ch \in Edges, NEW n \in Node, NEW d \in Below(ch, n)
    PROVE  d \in Node /\ Below(ch, d) \subseteq Below(ch, n)
BY BelowIsClosed, BelowIsLeast

\* A child is below, with all that is below it.
LEMMA ChildIsBelow ==
    ASSUME NEW ch \in Edges, NEW n \in Node, NEW c \in ch[n]
    PROVE  c \in Node /\ c \in Below(ch, n) /\ Below(ch, c) \subseteq Below(ch, n)
BY BelowIsClosed, BelowIsTransitive DEF Closed

\* What is below a node is the node or below one of its children.
LEMMA BelowAChild ==
    ASSUME NEW ch \in Edges, NEW n \in Node, NEW d \in Below(ch, n), d # n
    PROVE  \E c \in ch[n] : d \in Below(ch, c)
<1> DEFINE T == {n} \cup UNION {Below(ch, c) : c \in ch[n]}
<1>1. T \subseteq Node /\ n \in T
  BY BelowIsClosed DEF Edges
<1>2. ASSUME NEW x \in T, NEW y \in ch[x] PROVE y \in T
  <2>1. CASE x = n
    BY <2>1, <1>2, ChildIsBelow, BelowIsClosed
  <2>2. CASE \E c \in ch[n] : x \in Below(ch, c)
    <3>1. PICK c \in ch[n] : x \in Below(ch, c)
      BY <2>2
    <3>2. c \in Node
      BY ChildIsBelow
    <3>3. y \in Below(ch, c)
      BY <1>2, <3>1, <3>2, BelowIsClosed DEF Closed
    <3> QED
      BY <3>3
  <2> QED
    BY <1>2, <2>1, <2>2
<1>3. Below(ch, n) \subseteq T
  <2> HIDE DEF T
  <2>1. Closed(ch, T)
    BY <1>2 DEF Closed
  <2> QED
    BY <1>1, <2>1, BelowIsLeast
<1> QED
  BY <1>3

\* What is below a node and is not the node has a parent that is below it.
LEMMA ParentBelow ==
    ASSUME NEW ch \in Edges, NEW n \in Node, NEW d \in Below(ch, n), d # n
    PROVE  \E p \in Below(ch, n) : d \in ch[p]
<1> SUFFICES ASSUME \A p \in Below(ch, n) : d \notin ch[p] PROVE FALSE
  OBVIOUS
<1> DEFINE T == Below(ch, n) \ {d}
<1>1. T \subseteq Node /\ n \in T /\ Closed(ch, T)
  BY BelowIsClosed DEF Closed
<1>2. Below(ch, n) \subseteq T
  BY <1>1, BelowIsLeast
<1> QED
  BY <1>2

\* With fewer edges there is less below.
LEMMA BelowIsMonotone ==
    ASSUME NEW ch \in Edges, NEW less \in Edges, \A n \in Node : less[n] \subseteq ch[n],
           NEW n \in Node
    PROVE  Below(less, n) \subseteq Below(ch, n)
<1>1. Closed(less, Below(ch, n))
  BY BelowIsClosed DEF Closed
<1> QED
  BY <1>1, BelowIsClosed, BelowIsLeast

\* A part of a multitree is a multitree.
LEMMA PartIsMultiTree ==
    ASSUME NEW ch \in Edges, NEW less \in Edges, \A n \in Node : less[n] \subseteq ch[n],
           IsMultiTree(ch)
    PROVE  IsMultiTree(less)
<1>1. \A n \in Node : Below(less, n) \subseteq Below(ch, n)
  BY BelowIsMonotone
<1> QED
  BY <1>1 DEF IsMultiTree, Edges

\* Two nodes below the same one have no child in common.
LEMMA OneParentBelow ==
    ASSUME NEW ch \in Edges, IsMultiTree(ch), NEW r \in Node,
           NEW x \in Below(ch, r), NEW p \in Below(ch, r), NEW y \in ch[x], y \in ch[p]
    PROVE  x = p
<1> SUFFICES ASSUME x # p PROVE FALSE
  OBVIOUS
<1>0. x \in Node /\ p \in Node /\ y \in Node
  BY BelowIsClosed, ChildIsBelow
<1>1. y \in Below(ch, y) /\ p \notin Below(ch, y) /\ x \notin Below(ch, y)
  BY <1>0, BelowIsClosed DEF IsMultiTree
<1>2. ASSUME NEW z \in Node, NEW c \in ch[z], NEW b \in ch[z],
             y \in Below(ch, c), y \in Below(ch, b)
      PROVE  c = b
  BY <1>2 DEF IsMultiTree
<1>3. \A z \in Node : x \in Below(ch, z) \/ p \in Below(ch, z) => y \in Below(ch, z)
  BY BelowIsClosed DEF Closed
<1>4. p \notin Below(ch, x)
  <2> SUFFICES ASSUME p \in Below(ch, x) PROVE FALSE
    OBVIOUS
  <2>1. PICK c \in ch[x] : p \in Below(ch, c)
    BY <1>0, BelowAChild
  <2>2. c \in Node
    BY <1>0, ChildIsBelow
  <2>3. c = y
    BY <1>0, <1>1, <1>2, <1>3, <2>1, <2>2
  <2> QED
    BY <1>1, <2>1, <2>3
<1>5. x \notin Below(ch, p)
  <2> SUFFICES ASSUME x \in Below(ch, p) PROVE FALSE
    OBVIOUS
  <2>1. PICK c \in ch[p] : x \in Below(ch, c)
    BY <1>0, BelowAChild
  <2>2. c \in Node
    BY <1>0, ChildIsBelow
  <2>3. c = y
    BY <1>0, <1>1, <1>2, <1>3, <2>1, <2>2
  <2> QED
    BY <1>1, <2>1, <2>3
<1> DEFINE T == {z \in Node : x \in Below(ch, z) => p \in Below(ch, z)}
<1>6. ASSUME NEW z \in T, NEW c \in ch[z] PROVE c \in T
  <2> SUFFICES ASSUME x \in Below(ch, c) PROVE c \in Node /\ p \in Below(ch, c)
    BY <1>6, ChildIsBelow
  <2>1. z \in Node /\ c \in Node /\ x \in Below(ch, z) /\ p \in Below(ch, z)
    BY <1>6, ChildIsBelow
  <2>2. z # p
    BY <1>5, <2>1
  <2>3. PICK b \in ch[z] : p \in Below(ch, b)
    BY <2>1, <2>2, BelowAChild
  <2>4. b \in Node
    BY <2>1, ChildIsBelow
  <2>5. b = c
    BY <1>2, <1>3, <1>6, <2>1, <2>3, <2>4
  <2> QED
    BY <2>1, <2>3, <2>5
<1>7. Below(ch, r) \subseteq T
  <2>1. T \subseteq Node /\ r \in T
    OBVIOUS
  <2> HIDE DEF T
  <2>2. Closed(ch, T)
    BY <1>6 DEF Closed
  <2> QED
    BY <2>1, <2>2, BelowIsLeast
<1>8. x \in T
  BY <1>7
<1> QED
  BY <1>0, <1>4, <1>8, BelowIsClosed

-----------------------------------------------------------------------------
(* The inductive invariant *)

Typed ==
    /\ nodes \in SUBSET Node /\ trees \in SUBSET Node
    /\ children \in [Node -> SUBSET Node] /\ roots \in [Node -> SUBSET Node]

\* Edges are between nodes, every node has a root above it, and what is no
\* node has neither.
WellFormed ==
    /\ \A n \in Node : children[n] \subseteq nodes
    /\ \A n \in Node \ nodes : children[n] = {} /\ roots[n] = {}
    /\ \A n \in nodes : roots[n] # {}

GraphInv == Typed /\ WellFormed /\ RootsAreRight /\ IsMultiTree(children)

\* What the invariant says of two nodes: what is below has the roots of what is above.
LEMMA RootsOfBelow ==
    ASSUME GraphInv, NEW n \in nodes, NEW d \in Below(children, n)
    PROVE  d \in nodes /\ roots[n] \subseteq roots[d]
<1>0. Typed /\ WellFormed /\ RootsAreRight
  BY DEF GraphInv
<1>1. children \in Edges /\ nodes \subseteq Node /\ n \in Node
  BY <1>0 DEF Typed, Edges
<1>2. Below(children, n) \subseteq nodes
  <2>1. Closed(children, nodes)
    BY <1>0, <1>1 DEF WellFormed, Closed
  <2> QED
    BY <1>1, <2>1, BelowIsLeast
<1>3. ASSUME NEW r \in roots[n] PROVE r \in roots[d]
  <2>1. r \in nodes /\ Parentless(r) /\ n \in Below(children, r)
    BY <1>0 DEF RootsAreRight
  <2>2. d \in Below(children, r)
    BY <1>1, <2>1, BelowIsTransitive
  <2> QED
    BY <1>0, <1>2, <2>1, <2>2 DEF RootsAreRight
<1> QED
  BY <1>2, <1>3

-----------------------------------------------------------------------------
(* An edge more *)

With(ch, s, e) == [ch EXCEPT ![s] = @ \cup {e}]

\* What is below a node with one edge more.
LEMMA BelowWith ==
    ASSUME NEW ch \in Edges, NEW s \in Node, NEW e \in Node, NEW n \in Node
    PROVE  /\ With(ch, s, e) \in Edges
           /\ \A m \in Node : With(ch, s, e)[m] = IF m = s THEN ch[s] \cup {e} ELSE ch[m]
           /\ \A d : d \in Below(With(ch, s, e), n) <=>
                \/ d \in Below(ch, n)
                \/ s \in Below(ch, n) /\ d \in Below(ch, e)
<1> DEFINE more == With(ch, s, e)
<1>1. /\ more \in Edges
      /\ \A m \in Node : more[m] = IF m = s THEN ch[s] \cup {e} ELSE ch[m]
  BY DEF Edges, With
<1> HIDE DEF more
<1>2. Below(ch, n) \subseteq Below(more, n) /\ Below(ch, e) \subseteq Below(more, e)
  BY <1>1, BelowIsMonotone
<1>3. CASE s \notin Below(ch, n)
  <2>1. Closed(more, Below(ch, n))
    BY <1>1, <1>3, BelowIsClosed DEF Closed
  <2>2. Below(more, n) \subseteq Below(ch, n)
    BY <1>1, <2>1, BelowIsClosed, BelowIsLeast
  <2> QED
    BY <1>1, <1>2, <1>3, <2>2 DEF more
<1>4. CASE s \in Below(ch, n)
  <2> DEFINE T == Below(ch, n) \cup Below(ch, e)
  <2>1. T \subseteq Node /\ n \in T /\ e \in T
    BY BelowIsClosed
  <2>2. Closed(more, T)
    BY <1>1, BelowIsClosed DEF Closed
  <2>3. Below(more, n) \subseteq T
    <3> HIDE DEF T
    <3> QED
      BY <1>1, <2>1, <2>2, BelowIsLeast
  <2>4. e \in Below(more, n)
    BY <1>1, <1>2, <1>4, BelowIsClosed DEF Closed
  <2>5. Below(more, e) \subseteq Below(more, n)
    BY <1>1, <2>4, BelowIsTransitive
  <2> QED
    BY <1>1, <1>2, <1>4, <2>3, <2>5 DEF more
<1> QED
  BY <1>3, <1>4

\* The check lets no edge pass that would give a second path.
LEMMA CheckIsSound ==
    ASSUME GraphInv, NEW s \in nodes, NEW e \in nodes, ~ Edge(s, e), NoSharedRoot(s, e)
    PROVE  IsMultiTree(With(children, s, e))
<1> DEFINE ch == children
           more == With(children, s, e)
<1>0. /\ ch \in Edges /\ nodes \subseteq Node /\ s \in Node /\ e \in Node
      /\ IsMultiTree(ch) /\ e \notin ch[s] /\ WellFormed
  BY DEF GraphInv, Typed, Edges, Edge
<1>1. /\ more \in Edges
      /\ \A m \in Node : more[m] = IF m = s THEN ch[s] \cup {e} ELSE ch[m]
      /\ \A m \in Node : \A d : d \in Below(more, m) <=>
           \/ d \in Below(ch, m)
           \/ s \in Below(ch, m) /\ d \in Below(ch, e)
  <2>1. children \in Edges /\ s \in Node /\ e \in Node
    BY <1>0
  <2>2. ASSUME NEW m \in Node
        PROVE  /\ more \in Edges
               /\ more[m] = IF m = s THEN ch[s] \cup {e} ELSE ch[m]
               /\ \A d : d \in Below(more, m) <=>
                    \/ d \in Below(ch, m)
                    \/ s \in Below(ch, m) /\ d \in Below(ch, e)
    <3>1. more \in Edges
      BY <2>1, <2>2, BelowWith
    <3>2. more[m] = IF m = s THEN ch[s] \cup {e} ELSE ch[m]
      BY <2>1 DEF With, Edges
    <3>3. \A d : d \in Below(more, m) <=>
            \/ d \in Below(ch, m)
            \/ s \in Below(ch, m) /\ d \in Below(ch, e)
      BY <2>1, <2>2, BelowWith
    <3> QED
      BY <3>1, <3>2, <3>3
  <2> QED
    BY <2>1, <2>2
<1> HIDE DEF ch, more
\* Nothing below e is below what is above s.
<1>2. ASSUME NEW y \in Node, s \in Below(ch, y), NEW x \in Below(ch, y), x \in Below(ch, e)
      PROVE  FALSE
  <2>1. y \in nodes
    <3>1. CASE y = s
      BY <3>1
    <3>2. CASE y # s
      <4>1. PICK c \in ch[y] : s \in Below(ch, c)
        BY <1>0, <1>2, <3>2, BelowAChild
      <4> QED
        BY <1>0, <4>1 DEF WellFormed, ch
    <3> QED
      BY <3>1, <3>2
  <2>2. roots[y] # {} /\ roots[y] \subseteq roots[s] /\ roots[y] \subseteq roots[x]
    BY <1>0, <1>2, <2>1, RootsOfBelow DEF WellFormed, ch
  <2> QED
    BY <1>2, <2>2 DEF NoSharedRoot, ch
<1>3. s \in Below(ch, s) /\ s \notin Below(ch, e)
  BY <1>0, <1>2, BelowIsClosed
<1>4. \A n \in Node : \A c \in ch[n] :
        /\ c \in Node /\ c \in Below(ch, n) /\ Below(ch, c) \subseteq Below(ch, n)
        /\ n \in Below(ch, n)
  BY <1>0, ChildIsBelow, BelowIsClosed
<1>5. ASSUME NEW n \in Node, NEW c \in ch[n]
      PROVE  n \notin Below(more, c)
  <2>1. n \notin Below(ch, c) /\ c \in Node
    BY <1>0, <1>4, <1>5 DEF IsMultiTree
  <2>2. s \in Below(ch, c) => n \notin Below(ch, e)
    BY <1>2, <1>4, <1>5
  <2> QED
    BY <1>1, <2>1, <2>2
<1>6. ASSUME NEW n \in Node, NEW c \in ch[n], NEW d \in ch[n] \ {c}
      PROVE  Below(more, c) \cap Below(more, d) = {}
  <2>1. Below(ch, c) \cap Below(ch, d) = {} /\ c \in Node /\ d \in Node
    BY <1>0, <1>4, <1>6 DEF IsMultiTree
  <2>2. ASSUME NEW x \in Below(ch, e), s \in Below(ch, c) \/ s \in Below(ch, d)
        PROVE  x \notin Below(ch, c) \cup Below(ch, d)
    <3>1. s \in Below(ch, n)
      BY <1>4, <1>6, <2>2
    <3> QED
      BY <1>2, <1>4, <1>6, <2>2, <3>1
  <2> QED
    BY <1>1, <2>1, <2>2
<1>7. ASSUME NEW c \in ch[s]
      PROVE  Below(more, c) \cap Below(more, e) = {}
  <2>1. s \notin Below(ch, c) /\ c \in Node
    BY <1>0, <1>4, <1>7 DEF IsMultiTree
  <2> QED
    BY <1>0, <1>1, <1>2, <1>3, <1>4, <1>7, <2>1
<1>8. s \notin Below(more, e)
  BY <1>0, <1>1, <1>3
<1>9. ASSUME NEW n \in Node, NEW c \in more[n]
      PROVE  /\ n \notin Below(more, c)
             /\ \A d \in more[n] \ {c} : Below(more, c) \cap Below(more, d) = {}
  <2>1. CASE n # s
    BY <1>1, <1>5, <1>6, <1>9, <2>1
  <2>2. CASE n = s /\ c # e
    BY <1>0, <1>1, <1>5, <1>6, <1>7, <1>9, <2>2
  <2>3. CASE n = s /\ c = e
    BY <1>0, <1>1, <1>7, <1>8, <1>9, <2>3
  <2> QED
    BY <2>1, <2>2, <2>3
<1> QED
  BY <1>9 DEF IsMultiTree, more

\* And it refuses no other: where an edge would leave a multitree, no root is shared.
LEMMA CheckIsComplete ==
    ASSUME GraphInv, NEW s \in nodes, NEW e \in nodes, ~ Edge(s, e),
           IsMultiTree(With(children, s, e))
    PROVE  NoSharedRoot(s, e)
<1> DEFINE ch == children
           more == With(children, s, e)
<1>0. /\ ch \in Edges /\ nodes \subseteq Node /\ s \in Node /\ e \in Node
      /\ e \notin ch[s] /\ RootsAreRight
  BY DEF GraphInv, Typed, Edges, Edge
<1>1. /\ more \in Edges /\ IsMultiTree(more)
      /\ \A m \in Node : more[m] = IF m = s THEN ch[s] \cup {e} ELSE ch[m]
      /\ \A m \in Node : \A d : d \in Below(more, m) <=>
           \/ d \in Below(ch, m)
           \/ s \in Below(ch, m) /\ d \in Below(ch, e)
  BY <1>0, BelowWith
<1> SUFFICES ASSUME NEW d \in Below(ch, e), NEW r \in roots[d], r \in roots[s]
             PROVE  FALSE
  BY DEF NoSharedRoot
<1>2. d \in nodes
  BY RootsOfBelow
<1>3. r \in Node /\ s \in Below(ch, r) /\ d \in Below(ch, r)
  BY <1>0, <1>2 DEF RootsAreRight
<1> HIDE DEF ch, more
<1> DEFINE Meets(y) == \E x \in Below(ch, e) : x \in Below(ch, y)
           T == {y \in Node : s \in Below(ch, y) => Meets(y)}
<1>4. ~ Meets(s)
  <2> SUFFICES ASSUME NEW x \in Below(ch, e), x \in Below(ch, s) PROVE FALSE
    OBVIOUS
  <2>1. e \in more[s] /\ x \in Below(more, e) /\ s \notin Below(more, e)
    BY <1>0, <1>1 DEF IsMultiTree
  <2>2. x # s
    BY <2>1
  <2>3. PICK c \in ch[s] : x \in Below(ch, c)
    BY <1>0, <2>2, BelowAChild
  <2>4. c \in Node /\ c \in more[s] /\ c # e /\ x \in Below(more, c)
    BY <1>0, <1>1, <2>3, ChildIsBelow
  <2> QED
    BY <1>0, <1>1, <2>1, <2>4 DEF IsMultiTree
<1>5. ASSUME NEW y \in T, NEW c \in ch[y] PROVE c \in T
  <2> SUFFICES ASSUME s \in Below(ch, c), ~ Meets(c) PROVE FALSE
    BY <1>0, <1>5, ChildIsBelow
  <2>1. y \in Node /\ c \in Node /\ s \in Below(ch, y) /\ c \in more[y]
    BY <1>0, <1>1, <1>5, ChildIsBelow
  <2>2. PICK x \in Below(ch, e) : x \in Below(ch, y)
    BY <2>1
  <2>3. x \in Below(more, c) /\ y \notin Below(more, c)
    BY <1>1, <2>1, <2>2 DEF IsMultiTree
  <2>4. PICK b \in ch[y] : x \in Below(ch, b)
    BY <1>0, <2>1, <2>2, <2>3, BelowAChild
  <2>5. b \in Node /\ b \in more[y] /\ x \in Below(more, b) /\ b # c
    BY <1>0, <1>1, <2>1, <2>2, <2>4, ChildIsBelow
  <2> QED
    BY <1>1, <2>1, <2>3, <2>5 DEF IsMultiTree
<1>6. Below(ch, r) \subseteq T
  <2>1. T \subseteq Node /\ r \in T
    BY <1>3
  <2> HIDE DEF T
  <2>2. Closed(ch, T)
    BY <1>5 DEF Closed
  <2> QED
    BY <1>0, <1>3, <2>1, <2>2, BelowIsLeast
<1>7. s \in T /\ s \in Below(ch, s)
  BY <1>0, <1>3, <1>6, BelowIsClosed
<1> QED
  BY <1>4, <1>7

-----------------------------------------------------------------------------
(* The operations *)

\* The invariant, without the names that are defined on the state.
LEMMA InvParts ==
    ASSUME GraphInv
    PROVE  /\ children \in Edges /\ nodes \subseteq Node /\ trees \subseteq Node
           /\ roots \in [Node -> SUBSET Node] /\ IsMultiTree(children)
           /\ \A n \in Node : \A c \in children[n] : n \in nodes /\ c \in nodes
           /\ \A n \in nodes : roots[n] # {} /\ n \in Below(children, n)
           /\ \A n \in nodes : \A d \in Below(children, n) : d \in nodes
           /\ \A n \in nodes, r \in Node :
                r \in roots[n] <=> r \in nodes /\ Parentless(r) /\ n \in Below(children, r)
           /\ trees = {r \in nodes : Parentless(r)}
<1>0. Typed /\ WellFormed /\ RootsAreRight /\ IsMultiTree(children)
  BY DEF GraphInv
<1>1. children \in Edges /\ nodes \subseteq Node /\ trees \subseteq Node
      /\ roots \in [Node -> SUBSET Node]
  BY <1>0 DEF Typed, Edges
<1>2. \A n \in nodes : roots[n] # {} /\ n \in Below(children, n)
  BY <1>0, <1>1, BelowIsClosed DEF WellFormed
<1>3. \A n \in nodes : \A d \in Below(children, n) : d \in nodes
  BY RootsOfBelow
<1> QED
  BY <1>0, <1>1, <1>2, <1>3 DEF WellFormed, RootsAreRight

\* A new node is a root of its own.
LEMMA AddNodeKeeps ==
    ASSUME GraphInv, NEW n \in Node, AddNode(n)
    PROVE  GraphInv'
<1>1. n \notin nodes /\ nodes' = nodes \cup {n} /\ trees' = trees \cup {n}
      /\ children' = children /\ roots' = [roots EXCEPT ![n] = {n}]
  BY InvParts DEF AddNode, Edges
<1>2. Below(children, n) = {n}
  <2>1. children[n] = {}
    BY <1>1, InvParts DEF Edges
  <2> QED
    BY <2>1, InvParts, BelowIsClosed, BelowAChild
<1>3. \A r \in nodes' : Parentless(r)' <=> r = n \/ Parentless(r)
  BY <1>1, InvParts DEF Parentless, Edge
<1>4. Typed'
  BY <1>1, InvParts DEF Typed, Edges
<1>5. \A d \in nodes' : roots'[d] = IF d = n THEN {n} ELSE roots[d]
  BY <1>1, InvParts
<1>6. WellFormed'
  <2>1. WellFormed
    BY DEF GraphInv
  <2>2. \A d \in Node \ nodes' : children'[d] = {} /\ roots'[d] = {}
    BY <1>1, <2>1, InvParts DEF WellFormed
  <2> QED
    BY <1>1, <1>5, <2>2, InvParts DEF WellFormed, Edges
<1>7. ASSUME NEW d \in nodes', NEW r \in Node
      PROVE  r \in roots'[d] <=> r \in nodes' /\ Parentless(r)' /\ d \in Below(children, r)
  <2>1. r = n => (r \in roots'[d] <=> d \in Below(children, r))
    BY <1>1, <1>2, <1>5, <1>7, InvParts
  <2>2. r \in nodes => n \notin Below(children, r)
    BY <1>1, InvParts
  <2> QED
    BY <1>1, <1>3, <1>5, <1>7, <2>1, <2>2, InvParts
<1>8. RootsAreRight'
  <2>1. \A d \in nodes' : roots'[d] \subseteq Node
    BY <1>4 DEF Typed
  <2>2. \A d \in nodes' :
          roots'[d] = {r \in nodes' : Parentless(r)' /\ d \in Below(children', r)}
    BY <1>1, <1>4, <1>7, <2>1 DEF Typed
  <2>3. trees' = {r \in nodes' : Parentless(r)'}
    BY <1>1, <1>3, InvParts
  <2> QED
    BY <2>2, <2>3 DEF RootsAreRight
<1> QED
  BY <1>1, <1>4, <1>6, <1>8, InvParts DEF GraphInv

\* The lower end of a new edge, and all below it, get the roots of the upper
\* one; the lower end is no root any more.
LEMMA AddEdgeKeeps ==
    ASSUME GraphInv, NEW s \in Node, NEW e \in Node, AddEdge(s, e)
    PROVE  GraphInv'
<1>1. /\ s \in nodes /\ e \in nodes /\ ~ Edge(s, e) /\ NoSharedRoot(s, e)
      /\ children' = With(children, s, e) /\ trees' = trees \ {e} /\ nodes' = nodes
      /\ roots' = DeepUpdated(children, {e}, roots[s], e)
  BY DEF AddEdge, With
<1>a. ASSUME NEW m \in Node
      PROVE  /\ With(children, s, e) \in Edges
             /\ With(children, s, e)[m] =
                  IF m = s THEN children[s] \cup {e} ELSE children[m]
             /\ \A d : d \in Below(With(children, s, e), m) <=>
                  \/ d \in Below(children, m)
                  \/ s \in Below(children, m) /\ d \in Below(children, e)
  <2>1. children \in Edges /\ s \in Node /\ e \in Node
    BY InvParts
  <2>2. With(children, s, e) \in Edges
    BY <2>1, <1>a, BelowWith
  <2>3. With(children, s, e)[m] = IF m = s THEN children[s] \cup {e} ELSE children[m]
    BY <2>1 DEF With, Edges
  <2>4. \A d : d \in Below(With(children, s, e), m) <=>
          \/ d \in Below(children, m)
          \/ s \in Below(children, m) /\ d \in Below(children, e)
    BY <2>1, <1>a, BelowWith
  <2> QED
    BY <2>2, <2>3, <2>4
<1>2. /\ children' \in Edges
      /\ \A m \in Node : children'[m] = IF m = s THEN children[s] \cup {e} ELSE children[m]
  BY <1>1, <1>a
<1>3. \A m \in Node : \A d : d \in Below(children', m) <=>
        \/ d \in Below(children, m)
        \/ s \in Below(children, m) /\ d \in Below(children, e)
  BY <1>1, <1>a
<1>4. IsMultiTree(children')
  BY <1>1, CheckIsSound
<1>5. \A d \in Node : roots'[d] = IF d \in Below(children, e) THEN (roots[d] \ {e}) \cup roots[s]
                                  ELSE roots[d]
  BY <1>1 DEF DeepUpdated
<1>6. e \notin roots[s]
  <2> SUFFICES ASSUME e \in roots[s] PROVE FALSE
    OBVIOUS
  <2>1. e \in roots[e] /\ e \in Below(children, e)
    BY <1>1, InvParts
  <2> QED
    BY <1>1, <2>1 DEF NoSharedRoot
<1>7. \A r \in nodes : Parentless(r)' <=> Parentless(r) /\ r # e
  <2>1. \A r \in nodes : (\A m \in Node : r \notin children'[m])
                         <=> (\A m \in Node : r \notin children[m]) /\ r # e
    BY <1>2
  <2> QED
    BY <1>1, <2>1 DEF Parentless, Edge
<1>8. Typed'
  <2>1. \A d \in Node : roots'[d] \subseteq Node
    BY <1>5, InvParts
  <2>2. roots' \in [Node -> SUBSET Node]
    BY <1>1, <2>1 DEF DeepUpdated
  <2> QED
    BY <1>1, <1>2, <2>2, InvParts DEF Typed, Edges
<1>9. WellFormed'
  <2>0. WellFormed /\ nodes \subseteq Node
    BY InvParts DEF GraphInv
  <2>1. \A n \in nodes : roots'[n] # {}
    <3>1. roots[s] # {} /\ \A n \in nodes : roots[n] # {} /\ n \in Node
      BY <1>1, <2>0 DEF WellFormed
    <3> QED
      BY <1>5, <3>1
  <2>2. \A n \in Node : children'[n] \subseteq nodes
    BY <1>1, <1>2, <2>0 DEF WellFormed
  <2>3. \A n \in Node \ nodes : children'[n] = {} /\ roots'[n] = {}
    <3>1. \A n \in Node \ nodes : n \notin Below(children, e)
      BY <1>1, InvParts
    <3> QED
      BY <1>1, <1>2, <1>5, <2>0, <3>1 DEF WellFormed
  <2> QED
    BY <1>1, <2>1, <2>2, <2>3 DEF WellFormed
<1>10. ASSUME NEW d \in nodes, NEW r \in Node
       PROVE  r \in roots'[d] <=> r \in nodes /\ Parentless(r)' /\ d \in Below(children', r)
  <2>0. d \in Node /\ r \notin nodes => r \notin roots'[d]
    BY <1>1, <1>5, InvParts
  <2>1. CASE d \in Below(children, e) /\ r \in nodes
    <3>1. r \in roots'[d] <=> (r \in roots[d] /\ r # e) \/ r \in roots[s]
      BY <1>5, <2>1, InvParts
    <3>2. d \in Below(children', r) <=> d \in Below(children, r) \/ s \in Below(children, r)
      BY <1>3, <2>1
    <3> QED
      BY <1>1, <1>6, <1>7, <2>1, <3>1, <3>2, InvParts
  <2>2. CASE d \notin Below(children, e) /\ r \in nodes
    <3>1. r \in roots'[d] <=> r \in roots[d]
      BY <1>5, <2>2, InvParts
    <3>2. d \in Below(children', r) <=> d \in Below(children, r)
      BY <1>3, <2>2
    <3> QED
      BY <1>1, <1>7, <2>2, <3>1, <3>2, InvParts
  <2> QED
    BY <2>0, <2>1, <2>2, InvParts
<1>11. RootsAreRight'
  <2>1. \A d \in nodes' :
          roots'[d] = {r \in nodes' : Parentless(r)' /\ d \in Below(children', r)}
    BY <1>1, <1>8, <1>10 DEF Typed
  <2>2. trees' = {r \in nodes' : Parentless(r)'}
    BY <1>1, <1>7, InvParts
  <2> QED
    BY <2>1, <2>2 DEF RootsAreRight
<1> QED
  BY <1>4, <1>8, <1>9, <1>11 DEF GraphInv

-----------------------------------------------------------------------------
(* Edges less *)

\* In a multitree what is below a node without an edge is what was below it and
\* not below the end of the edge.
LEMMA BelowWithout ==
    ASSUME NEW ch \in Edges, IsMultiTree(ch), NEW s \in Node, NEW e \in ch[s],
           NEW less \in Edges,
           \A m \in Node : less[m] = IF m = s THEN ch[s] \ {e} ELSE ch[m],
           NEW r \in Node
    PROVE  \A d : d \in Below(less, r) <=>
              d \in Below(ch, r) /\ ~ (s \in Below(ch, r) /\ d \in Below(ch, e))
<1>0. /\ e \in Node /\ r \in Below(ch, r) /\ r \in Below(less, r) /\ s \in Below(ch, s)
      /\ Below(ch, r) \subseteq Node /\ Below(ch, e) \subseteq Node
      /\ Below(less, r) \subseteq Node
      /\ s \notin Below(ch, e)
  BY BelowIsClosed DEF Edges, IsMultiTree
<1>1. Below(less, r) \subseteq Below(ch, r)
  BY BelowIsMonotone
<1>2. CASE s \notin Below(ch, r)
  <2>1. ASSUME NEW x \in Below(less, r), NEW y \in ch[x] PROVE y \in Below(less, r)
    <3>1. x \in Node /\ y \in less[x]
      BY <1>0, <1>1, <1>2, <2>1
    <3> QED
      BY <3>1, BelowIsClosed DEF Closed
  <2>2. Below(ch, r) \subseteq Below(less, r)
    BY <1>0, <2>1, BelowIsLeast DEF Closed
  <2> QED
    BY <1>1, <1>2, <2>2
<1>3. CASE s \in Below(ch, r)
  <2> DEFINE T == Below(ch, r) \ Below(ch, e)
             W == Below(less, r) \cup Below(ch, e)
  <2>1. r \notin Below(ch, e)
    BY <1>0, <1>3, BelowIsTransitive
  <2>2. ASSUME NEW x \in T, NEW y \in less[x] PROVE y \in T
    <3>1. x \in Node /\ y \in ch[x] /\ y \in Below(ch, r)
      BY <1>0, <2>2, BelowIsClosed DEF Closed
    <3>2. ASSUME y \in Below(ch, e), y # e PROVE FALSE
      <4>1. PICK p \in Below(ch, e) : y \in ch[p]
        BY <1>0, <3>2, ParentBelow
      <4>2. p \in Below(ch, r)
        <5>1. e \in Below(ch, r)
          BY <1>3, BelowIsClosed DEF Closed
        <5> QED
          BY <4>1, <5>1, BelowIsTransitive
      <4>3. x = p
        BY <3>1, <4>1, <4>2, OneParentBelow
      <4> QED
        BY <4>1, <4>3
    <3>3. ASSUME y = e PROVE FALSE
      <4>1. x # s
        BY <3>3, <2>2
      <4>2. e \in ch[x] /\ e \in ch[s]
        BY <3>1, <3>3
      <4>3. x = s
        BY <1>3, <4>2, OneParentBelow
      <4> QED
        BY <4>1, <4>3
    <3> QED
      BY <3>1, <3>2, <3>3
  <2>3. Below(less, r) \subseteq T
    <3>1. T \subseteq Node /\ r \in T
      BY <1>0, <2>1
    <3> HIDE DEF T
    <3>2. Closed(less, T)
      BY <2>2 DEF Closed
    <3> QED
      BY <3>1, <3>2, BelowIsLeast
  <2>4. ASSUME NEW x \in W, NEW y \in ch[x] PROVE y \in W
    <3>1. CASE x \in Below(ch, e)
      BY <1>0, <2>4, <3>1, BelowIsClosed DEF Closed
    <3>2. CASE x \in Below(less, r)
      <4>1. x \in Node /\ (y \in less[x] \/ y = e)
        BY <1>0, <2>4, <3>2
      <4>2. e \in Below(ch, e)
        BY <1>0, BelowIsClosed
      <4> QED
        BY <3>2, <4>1, <4>2, BelowIsClosed DEF Closed
    <3> QED
      BY <2>4, <3>1, <3>2
  <2>5. Below(ch, r) \subseteq W
    <3>1. W \subseteq Node /\ r \in W
      BY <1>0
    <3> HIDE DEF W
    <3>2. Closed(ch, W)
      BY <2>4 DEF Closed
    <3> QED
      BY <3>1, <3>2, BelowIsLeast
  <2> QED
    BY <1>1, <1>3, <2>3, <2>5
<1> QED
  BY <1>2, <1>3

\* And without a node, what was below it and not below the node.
LEMMA BelowWithoutNode ==
    ASSUME NEW ch \in Edges, IsMultiTree(ch), NEW n \in Node, NEW less \in Edges,
           \A m \in Node : less[m] = IF m = n THEN {} ELSE ch[m] \ {n},
           NEW r \in Node, r # n
    PROVE  \A d : d \in Below(less, r) <=>
              d \in Below(ch, r) /\ ~ (n \in Below(ch, r) /\ d \in Below(ch, n))
<1>0. /\ r \in Below(ch, r) /\ r \in Below(less, r) /\ n \in Below(ch, n)
      /\ Below(ch, r) \subseteq Node /\ Below(ch, n) \subseteq Node
      /\ Below(less, r) \subseteq Node
  BY BelowIsClosed
<1>1. Below(less, r) \subseteq Below(ch, r)
  BY BelowIsMonotone
<1>2. CASE n \notin Below(ch, r)
  <2>1. ASSUME NEW x \in Below(less, r), NEW y \in ch[x] PROVE y \in Below(less, r)
    <3>1. x \in Node /\ y \in Below(ch, r)
      BY <1>0, <1>1, <2>1, BelowIsClosed DEF Closed
    <3>2. y \in less[x]
      BY <1>1, <1>2, <2>1, <3>1
    <3> QED
      BY <3>2, BelowIsClosed DEF Closed
  <2>2. Below(ch, r) \subseteq Below(less, r)
    BY <1>0, <2>1, BelowIsLeast DEF Closed
  <2> QED
    BY <1>1, <1>2, <2>2
<1>3. CASE n \in Below(ch, r)
  <2> DEFINE T == Below(ch, r) \ Below(ch, n)
             W == Below(less, r) \cup Below(ch, n)
  <2>1. r \notin Below(ch, n)
    <3> SUFFICES ASSUME r \in Below(ch, n) PROVE FALSE
      OBVIOUS
    <3>1. PICK c \in ch[n] : r \in Below(ch, c)
      BY BelowAChild
    <3>2. c \in Node /\ n \in Below(ch, c)
      BY <1>3, <3>1, ChildIsBelow, BelowIsTransitive
    <3> QED
      BY <3>1, <3>2 DEF IsMultiTree
  <2>2. ASSUME NEW x \in T, NEW y \in less[x] PROVE y \in T
    <3>1. x \in Node /\ y \in ch[x] /\ y \in Below(ch, r) /\ y # n
      BY <1>0, <2>2, BelowIsClosed DEF Closed
    <3>2. ASSUME y \in Below(ch, n) PROVE FALSE
      <4>1. PICK p \in Below(ch, n) : y \in ch[p]
        BY <3>1, <3>2, ParentBelow
      <4>2. p \in Below(ch, r)
        BY <1>3, <4>1, BelowIsTransitive
      <4>3. x = p
        BY <3>1, <4>1, <4>2, OneParentBelow
      <4> QED
        BY <4>1, <4>3
    <3> QED
      BY <3>1, <3>2
  <2>3. Below(less, r) \subseteq T
    <3>1. T \subseteq Node /\ r \in T
      BY <1>0, <2>1
    <3> HIDE DEF T
    <3>2. Closed(less, T)
      BY <2>2 DEF Closed
    <3> QED
      BY <3>1, <3>2, BelowIsLeast
  <2>4. ASSUME NEW x \in W, NEW y \in ch[x] PROVE y \in W
    <3>1. CASE x \in Below(ch, n)
      BY <2>4, <3>1, BelowIsClosed DEF Closed
    <3>2. CASE x \in Below(less, r) /\ x \notin Below(ch, n)
      <4>1. x \in Node /\ (y \in less[x] \/ y = n)
        BY <1>0, <2>4, <3>2
      <4> QED
        BY <1>0, <3>2, <4>1, BelowIsClosed DEF Closed
    <3> QED
      BY <2>4, <3>1, <3>2
  <2>5. Below(ch, r) \subseteq W
    <3>1. W \subseteq Node /\ r \in W
      BY <1>0
    <3> HIDE DEF W
    <3>2. Closed(ch, W)
      BY <2>4 DEF Closed
    <3> QED
      BY <3>1, <3>2, BelowIsLeast
  <2> QED
    BY <1>1, <1>3, <2>3, <2>5
<1> QED
  BY <1>2, <1>3

\* The roots tell whether a node has no other parent.
LEMMA OnlyParent ==
    ASSUME GraphInv, NEW s \in Node, NEW e \in children[s]
    PROVE  roots[e] \subseteq roots[s] <=> \A m \in Node : e \in children[m] => m = s
<1>0. s \in nodes /\ e \in nodes /\ s \in Node /\ children \in Edges /\ nodes \subseteq Node
  BY InvParts
<1>1. ASSUME \A m \in Node : e \in children[m] => m = s, NEW r \in roots[e]
      PROVE  r \in roots[s]
  <2>1. r \in nodes /\ Parentless(r) /\ e \in Below(children, r)
    BY <1>0, InvParts
  <2>2. e # r
    BY <1>0, <2>1 DEF Parentless, Edge
  <2>3. PICK p \in Below(children, r) : e \in children[p]
    BY <1>0, <2>1, <2>2, ParentBelow
  <2>4. p = s
    BY <1>0, <1>1, <2>1, <2>3, InvParts
  <2> QED
    BY <1>0, <2>1, <2>3, <2>4, InvParts
<1>2. ASSUME roots[e] \subseteq roots[s], NEW m \in Node, e \in children[m] PROVE m = s
  <2>1. m \in nodes
    BY <1>2, InvParts
  <2>2. PICK r \in roots[m] : r \in Node
    BY <2>1, InvParts
  <2>3. r \in nodes /\ Parentless(r) /\ m \in Below(children, r)
    BY <2>1, <2>2, InvParts
  <2>4. e \in Below(children, r)
    BY <1>0, <1>2, <2>3, BelowIsClosed DEF Closed
  <2>5. r \in roots[s]
    BY <1>0, <1>2, <2>2, <2>3, <2>4, InvParts
  <2>6. s \in Below(children, r)
    BY <1>0, <2>2, <2>5, InvParts
  <2> QED
    BY <1>0, <1>2, <2>3, <2>6, OneParentBelow, InvParts
<1> QED
  BY <1>1, <1>2

\* What is below the end of a removed edge loses the roots above the edge, and
\* has the end as its root when nothing else is above that.
LEMMA RemoveEdgeKeeps ==
    ASSUME GraphInv, NEW s \in Node, NEW e \in Node, RemoveEdge(s, e)
    PROVE  GraphInv'
<1>0. /\ children \in Edges /\ IsMultiTree(children) /\ nodes \subseteq Node
      /\ s \in nodes /\ e \in nodes /\ e \in children[s] /\ nodes' = nodes
      /\ trees' = trees \cup NewRoots(s, e)
      /\ roots' = DeepUpdated(children, roots[s], NewRoots(s, e), e)
      /\ children' = [children EXCEPT ![s] = @ \ {e}]
  BY InvParts DEF RemoveEdge, Edge
<1>1. /\ children' \in Edges
      /\ \A m \in Node : children'[m] = IF m = s THEN children[s] \ {e} ELSE children[m]
  BY <1>0 DEF Edges
<1>2. ASSUME NEW r \in Node
      PROVE  \A d : d \in Below(children', r) <=>
                d \in Below(children, r)
                /\ ~ (s \in Below(children, r) /\ d \in Below(children, e))
  <2> DEFINE less == children'
  <2>1. less \in Edges /\ \A m \in Node : less[m] = IF m = s THEN children[s] \ {e}
                                                            ELSE children[m]
    BY <1>1
  <2> HIDE DEF less
  <2>2. \A d : d \in Below(less, r) <=>
                d \in Below(children, r)
                /\ ~ (s \in Below(children, r) /\ d \in Below(children, e))
    BY <1>0, <2>1, BelowWithout
  <2> QED
    BY <2>2 DEF less
<1>3. IsMultiTree(children')
  <2> DEFINE less == children'
  <2>1. less \in Edges /\ \A m \in Node : less[m] \subseteq children[m]
    BY <1>1
  <2> HIDE DEF less
  <2>2. IsMultiTree(less)
    BY <1>0, <2>1, PartIsMultiTree
  <2> QED
    BY <2>2 DEF less
<1> DEFINE new == NewRoots(s, e)
<1>4. new = IF \A m \in Node : e \in children[m] => m = s THEN {e} ELSE {}
  BY <1>0, OnlyParent DEF NewRoots
<1>5. \A d \in Node : roots'[d] = IF d \in Below(children, e) THEN (roots[d] \ roots[s]) \cup new
                                  ELSE roots[d]
  BY <1>0 DEF DeepUpdated
<1> HIDE DEF new
<1>6. \A r \in nodes : Parentless(r)' <=> Parentless(r) \/ r \in new
  <2>1. \A r \in nodes : (\A m \in Node : r \notin children'[m])
                         <=> (\A m \in Node : r \notin children[m]) \/ r \in new
    BY <1>0, <1>1, <1>4
  <2> QED
    BY <1>0, <2>1 DEF Parentless, Edge
<1>7. Typed'
  <2>1. \A d \in Node : roots'[d] \subseteq Node
    BY <1>4, <1>5, InvParts
  <2>2. roots' \in [Node -> SUBSET Node]
    BY <1>0, <2>1 DEF DeepUpdated
  <2>3. trees' \subseteq Node
    BY <1>0, <1>4, InvParts DEF new
  <2> QED
    BY <1>0, <1>1, <2>2, <2>3 DEF Typed, Edges
<1>8. WellFormed'
  <2>0. WellFormed
    BY DEF GraphInv
  <2>1. ASSUME NEW d \in nodes, roots'[d] = {} PROVE FALSE
    <3>1. d \in Below(children, e) /\ new = {} /\ roots[d] \subseteq roots[s]
      BY <1>0, <1>5, <2>1, InvParts
    <3>2. ~ (roots[e] \subseteq roots[s])
      BY <1>0, <3>1 DEF new, NewRoots
    <3>3. roots[e] \subseteq roots[d]
      BY <1>0, <3>1, RootsOfBelow
    <3> QED
      BY <3>1, <3>2, <3>3
  <2>2. \A n \in Node : children'[n] \subseteq nodes
    BY <1>1, <2>0 DEF WellFormed
  <2>3. \A n \in Node \ nodes : children'[n] = {} /\ roots'[n] = {}
    <3>1. \A n \in Node \ nodes : n \notin Below(children, e)
      BY <1>0, InvParts
    <3> QED
      BY <1>0, <1>1, <1>5, <2>0, <3>1 DEF WellFormed
  <2> QED
    BY <1>0, <2>1, <2>2, <2>3 DEF WellFormed
<1>9. s \notin Below(children, e) /\ e \in Below(children, e)
  BY <1>0, BelowIsClosed DEF IsMultiTree
<1>10. ASSUME NEW d \in nodes, NEW r \in Node
       PROVE  r \in roots'[d] <=> r \in nodes /\ Parentless(r)' /\ d \in Below(children', r)
  <2>1. r \notin nodes => r \notin roots'[d]
    BY <1>0, <1>4, <1>5, InvParts
  <2>2. r \in nodes =>
          /\ r \in roots[d] <=> Parentless(r) /\ d \in Below(children, r)
          /\ r \in roots[s] <=> Parentless(r) /\ s \in Below(children, r)
    BY <1>0, InvParts
  <2>3. \A k \in new : k = e /\ ~ Parentless(k)
    BY <1>0, <1>4 DEF Parentless, Edge
  <2>4. CASE d \in Below(children, e) /\ r \in nodes
    <3>1. r \in roots'[d] <=> (r \in roots[d] /\ r \notin roots[s]) \/ r \in new
      BY <1>0, <1>5, <2>4
    <3>2. d \in Below(children', r) <=> d \in Below(children, r) /\ s \notin Below(children, r)
      BY <1>0, <1>2, <2>4
    <3> QED
      BY <1>6, <1>9, <2>2, <2>3, <2>4, <3>1, <3>2
  <2>5. CASE d \notin Below(children, e) /\ r \in nodes
    <3>1. r \in roots'[d] <=> r \in roots[d]
      BY <1>0, <1>5, <2>5
    <3>2. d \in Below(children', r) <=> d \in Below(children, r)
      BY <1>0, <1>2, <2>5
    <3>3. r \in new => d \notin Below(children, r)
      BY <2>3, <2>5
    <3> QED
      BY <1>6, <2>2, <2>5, <3>1, <3>2, <3>3
  <2> QED
    BY <2>1, <2>4, <2>5
<1>11. RootsAreRight'
  <2>1. \A d \in nodes' :
          roots'[d] = {r \in nodes' : Parentless(r)' /\ d \in Below(children', r)}
    BY <1>0, <1>7, <1>10 DEF Typed
  <2>2. trees' = {r \in nodes' : Parentless(r)'}
    <3>1. new \subseteq nodes
      BY <1>0, <1>4
    <3> QED
      BY <1>0, <1>6, <3>1, InvParts DEF new
  <2> QED
    BY <2>1, <2>2 DEF RootsAreRight
<1> QED
  BY <1>3, <1>7, <1>8, <1>11 DEF GraphInv

\* A node that goes leaves its children, or those that have no other parent,
\* as roots.
LEMMA RemoveNodeKeeps ==
    ASSUME GraphInv, NEW n \in Node, RemoveNode(n)
    PROVE  GraphInv'
<1> DEFINE new(c) == NewRoots(n, c)
           left == {c \in children[n] : \A m \in Node : c \in children[m] => m = n}
<1>0. /\ children \in Edges /\ IsMultiTree(children) /\ nodes \subseteq Node
      /\ n \in nodes /\ nodes' = nodes \ {n}
      /\ trees' = (trees \cup UNION {new(c) : c \in children[n]}) \ {n}
      /\ children' = [m \in Node |-> IF m = n THEN {} ELSE children[m] \ {n}]
      /\ roots' = [d \in Node |->
            IF d = n THEN {}
            ELSE IF ChildAbove(n, d) = {} THEN roots[d]
            ELSE (roots[d] \ roots[n]) \cup UNION {new(c) : c \in ChildAbove(n, d)}]
      /\ roots \in [Node -> SUBSET Node]
  BY InvParts DEF RemoveNode
<1>1. /\ children' \in Edges
      /\ \A m \in Node : children'[m] = IF m = n THEN {} ELSE children[m] \ {n}
  BY <1>0 DEF Edges
<1>2. ASSUME NEW r \in Node, r # n
      PROVE  \A d : d \in Below(children', r) <=>
                d \in Below(children, r)
                /\ ~ (n \in Below(children, r) /\ d \in Below(children, n))
  <2> DEFINE less == children'
  <2>1. less \in Edges /\ \A m \in Node : less[m] = IF m = n THEN {} ELSE children[m] \ {n}
    BY <1>1
  <2> HIDE DEF less
  <2>2. \A d : d \in Below(less, r) <=>
                d \in Below(children, r)
                /\ ~ (n \in Below(children, r) /\ d \in Below(children, n))
    BY <1>0, <1>2, <2>1, BelowWithoutNode
  <2> QED
    BY <2>2 DEF less
<1>3. IsMultiTree(children')
  <2> DEFINE less == children'
  <2>1. less \in Edges /\ \A m \in Node : less[m] \subseteq children[m]
    BY <1>1
  <2> HIDE DEF less
  <2>2. IsMultiTree(less)
    BY <1>0, <2>1, PartIsMultiTree
  <2> QED
    BY <2>2 DEF less
<1>4. /\ left \subseteq nodes \ {n}
      /\ \A c \in children[n] : new(c) = IF c \in left THEN {c} ELSE {}
  <2>1. \A c \in children[n] : c \in nodes /\ c # n
    BY <1>0, InvParts, BelowIsClosed DEF IsMultiTree
  <2>2. \A c \in children[n] :
          roots[c] \subseteq roots[n] <=> \A m \in Node : c \in children[m] => m = n
    BY <1>0, OnlyParent
  <2> QED
    BY <2>1, <2>2 DEF NewRoots
<1> HIDE DEF new, left
\* What is below n is below exactly one child.
<1>5. ASSUME NEW d \in Node, d # n
      PROVE  /\ ChildAbove(n, d) = {} <=> d \notin Below(children, n)
             /\ \A c, b \in ChildAbove(n, d) : c = b
  <2>1. \A c \in children[n] : c \in Node /\ Below(children, c) \subseteq Below(children, n)
    BY <1>0, ChildIsBelow
  <2>2. d \in Below(children, n) => \E c \in children[n] : d \in Below(children, c)
    BY <1>0, <1>5, BelowAChild
  <2> QED
    BY <1>0, <2>1, <2>2 DEF ChildAbove, IsMultiTree
<1>6. ASSUME NEW d \in nodes', NEW r \in Node
      PROVE  r \in roots'[d] <=>
                IF d \in Below(children, n)
                THEN (r \in roots[d] /\ r \notin roots[n])
                     \/ (r \in left /\ d \in Below(children, r))
                ELSE r \in roots[d]
  <2>0. d \in Node /\ d # n /\ d \in nodes
    BY <1>0
  <2>1. CASE d \notin Below(children, n)
    BY <1>0, <1>5, <2>0, <2>1
  <2>2. CASE d \in Below(children, n)
    <3>1. roots'[d] = (roots[d] \ roots[n]) \cup UNION {new(c) : c \in ChildAbove(n, d)}
      BY <1>0, <1>5, <2>0, <2>2
    <3>2. ChildAbove(n, d) \subseteq children[n]
      BY DEF ChildAbove
    <3>3. \A c : c \in left => c \in children[n]
      BY DEF left
    <3>4. r \in UNION {new(c) : c \in ChildAbove(n, d)}
          <=> r \in left /\ d \in Below(children, r)
      BY <1>4, <3>2, <3>3 DEF ChildAbove
    <3> QED
      BY <2>2, <3>1, <3>4
  <2> QED
    BY <2>1, <2>2
<1>7. \A r \in nodes' : Parentless(r)' <=> Parentless(r) \/ r \in left
  <2>1. ASSUME NEW r \in nodes'
        PROVE  (\A m \in Node : r \notin children'[m])
                <=> (\A m \in Node : r \notin children[m]) \/ r \in left
    <3>1. r # n /\ r \in nodes
      BY <1>0
    <3> QED
      BY <1>0, <1>1, <3>1 DEF left
  <2> QED
    BY <1>0, <2>1 DEF Parentless, Edge
<1>8. Typed'
  <2>1. \A c \in children[n] : new(c) \subseteq Node
    BY <1>0, <1>4
  <2>2. \A d \in Node : ChildAbove(n, d) \subseteq children[n]
    BY DEF ChildAbove
  <2>3. roots' \in [Node -> SUBSET Node]
    <3>1. \A d \in Node : UNION {new(c) : c \in ChildAbove(n, d)} \subseteq Node
      BY <2>1, <2>2
    <3> QED
      BY <1>0, <3>1
  <2>4. UNION {new(c) : c \in children[n]} \subseteq Node
    BY <2>1
  <2> QED
    BY <1>0, <1>1, <2>3, <2>4, InvParts DEF Typed, Edges
<1>9. WellFormed'
  <2>0. WellFormed
    BY DEF GraphInv
  <2>1. ASSUME NEW d \in nodes', roots'[d] = {} PROVE FALSE
    <3>1. /\ d \in nodes /\ d # n /\ d \in Node
          /\ \A r \in roots[d] : r \in Node
          /\ roots[d] # {}
      BY <1>0, InvParts
    <3>2. d \in Below(children, n)
      BY <1>6, <2>1, <3>1
    <3>3. PICK c \in children[n] : d \in Below(children, c)
      BY <1>0, <3>1, <3>2, BelowAChild
    <3>4. c \in nodes /\ c \in Node
      BY <1>0, <3>3, InvParts
    <3>5. c \notin left
      BY <1>6, <2>1, <3>2, <3>3, <3>4
    <3>6. ~ (roots[c] \subseteq roots[n])
      BY <1>0, <3>3, <3>5, OnlyParent DEF left
    <3>7. roots[c] \subseteq roots[d]
      BY <3>3, <3>4, RootsOfBelow
    <3> QED
      BY <1>6, <2>1, <3>1, <3>2, <3>6, <3>7
  <2>2. \A m \in Node : children'[m] \subseteq nodes'
    BY <1>0, <1>1, <2>0 DEF WellFormed
  <2>3. ASSUME NEW m \in Node \ nodes' PROVE children'[m] = {} /\ roots'[m] = {}
    <3>1. m # n => m \notin nodes /\ roots[m] = {} /\ m \notin Below(children, n)
      BY <1>0, <2>0, InvParts DEF WellFormed
    <3>2. roots'[m] = {}
      BY <1>0, <1>5, <3>1
    <3> QED
      BY <1>0, <1>1, <2>0, <3>2 DEF WellFormed
  <2> QED
    BY <2>1, <2>2, <2>3 DEF WellFormed
<1>10. ASSUME NEW d \in nodes', NEW r \in Node
       PROVE  r \in roots'[d] <=> r \in nodes' /\ Parentless(r)' /\ d \in Below(children', r)
  <2>0. /\ d \in nodes /\ d # n
        /\ n \in Below(children, n)
        /\ \A c \in left : c \in children[n] /\ ~ Parentless(c) /\ n \notin Below(children, c)
                           /\ c \in nodes'
    BY <1>0, <1>4, InvParts DEF left, Parentless, Edge, IsMultiTree
  <2>1. r \in nodes =>
          /\ r \in roots[d] <=> Parentless(r) /\ d \in Below(children, r)
          /\ r \in roots[n] <=> Parentless(r) /\ n \in Below(children, r)
    BY <1>0, <2>0, InvParts
  <2>2. r \notin nodes => r \notin roots[d] /\ r \notin left
    BY <2>0, <1>4, InvParts
  <2>3. CASE r \in nodes'
    <3>1. r # n /\ r \in nodes
      BY <1>0, <2>3
    <3>2. d \in Below(children', r) <=>
                d \in Below(children, r)
                /\ ~ (n \in Below(children, r) /\ d \in Below(children, n))
      BY <1>2, <3>1
    <3>3. Parentless(r)' <=> Parentless(r) \/ r \in left
      BY <1>7, <2>3
    <3>4. r \in left /\ d \in Below(children, r) => d \in Below(children, n)
      BY <1>0, <2>0, ChildIsBelow
    <3> QED
      BY <1>6, <2>0, <2>1, <2>3, <3>1, <3>2, <3>3, <3>4
  <2>4. CASE r \notin nodes
    BY <1>0, <1>6, <2>2, <2>4
  <2>5. CASE r = n
    <3>1. d \notin Below(children, n) => n \notin roots[d]
      BY <1>0, <2>0, <2>1, <2>5
    <3>2. n \in roots[d] => n \in roots[n]
      BY <1>0, <2>0, <2>1, <2>5
    <3>3. n \notin left
      BY <1>4
    <3> QED
      BY <1>0, <1>6, <2>5, <3>1, <3>2, <3>3
  <2> QED
    BY <1>0, <2>3, <2>4, <2>5
<1>11. RootsAreRight'
  <2>1. \A d \in nodes' :
          roots'[d] = {r \in nodes' : Parentless(r)' /\ d \in Below(children', r)}
    BY <1>0, <1>8, <1>10 DEF Typed
  <2>2. trees' = {r \in nodes' : Parentless(r)'}
    <3>1. UNION {new(c) : c \in children[n]} = left
      <4>1. left \subseteq children[n]
        BY DEF left
      <4> QED
        BY <1>4, <4>1
    <3>2. \A r : r \in trees' <=> r \in nodes' /\ (Parentless(r) \/ r \in left)
      BY <1>0, <1>4, <3>1, InvParts
    <3> QED
      BY <1>7, <3>2
  <2> QED
    BY <2>1, <2>2 DEF RootsAreRight
<1> QED
  BY <1>3, <1>8, <1>9, <1>11 DEF GraphInv

\* The empty graph.
LEMMA GraphInit == Init => GraphInv
<1> SUFFICES ASSUME Init PROVE GraphInv
  OBVIOUS
<1>1. Typed /\ WellFormed /\ RootsAreRight
  BY DEF Init, Typed, WellFormed, RootsAreRight
<1>2. IsMultiTree(children)
  BY DEF Init, IsMultiTree
<1> QED
  BY <1>1, <1>2 DEF GraphInv

\* Every step keeps the invariant.
LEMMA GraphStep == GraphInv /\ [Next]_vars => GraphInv'
<1> SUFFICES ASSUME GraphInv, [Next]_vars PROVE GraphInv'
  OBVIOUS
<1>1. CASE UNCHANGED vars
  BY <1>1 DEF vars, GraphInv, Typed, WellFormed, RootsAreRight, Parentless, Edge
<1> QED
  BY <1>1, AddNodeKeeps, AddEdgeKeeps, RemoveEdgeKeeps, RemoveNodeKeeps DEF Next

\* The graph's bookkeeping is right, and the graph a multitree, always.
THEOREM GraphTheorem == Spec => []GraphInv
BY GraphInit, GraphStep, PTL DEF Spec

\* Edges, roots and filed trees are of nodes that the graph has.
THEOREM GraphTypeTheorem == Spec => []TypeOK
<1>1. GraphInv => TypeOK
  <2> SUFFICES ASSUME GraphInv PROVE TypeOK
    OBVIOUS
  <2>1. \A n \in Node : children[n] \subseteq nodes
    BY DEF GraphInv, WellFormed
  <2>2. \A n \in Node : roots[n] \subseteq nodes
    BY DEF GraphInv, WellFormed, RootsAreRight
  <2>3. trees \subseteq nodes
    BY DEF GraphInv, RootsAreRight
  <2> QED
    BY <2>1, <2>2, <2>3 DEF GraphInv, Typed, TypeOK
<1> QED
  BY <1>1, GraphTheorem, PTL

\* The root sets, which the webhook's check compares, and the filed trees are
\* what a search of the graph would find, after any additions and removals.
THEOREM RootsAreRightTheorem == Spec => []RootsAreRight
<1>1. GraphInv => RootsAreRight
  BY DEF GraphInv
<1> QED
  BY <1>1, GraphTheorem, PTL

\* The check is sound and complete where the bookkeeping is right.
LEMMA InvIsExact == GraphInv => CheckIsExact
BY CheckIsSound, CheckIsComplete DEF CheckIsExact, With

\* AddEdge refuses an edge if and only if it would lead to a second path.
THEOREM CheckIsExactTheorem == Spec => []CheckIsExact
BY InvIsExact, GraphTheorem, PTL

=============================================================================
