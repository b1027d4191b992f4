------------------------ MODULE DirectedAcyclicGraph ------------------------
(***************************************************************************)
(* The nodes of papas/graphtools/DirectedAcyclicGraph.h and the links      *)
(* between them.  A link is stored twice, as a child of one node and as a  *)
(* parent of the other, and every traversal of the program reads these two *)
(* sets.  The module also says what a traversal should find, in two ways   *)
(* that do not depend on any algorithm: the least closed set of nodes      *)
(* around a start node, and the nodes within a number of links of it.      *)
(***************************************************************************)
EXTENDS Integers, FiniteSets

CONSTANT Node              \* the nodes, named by the identifiers they hold

VARIABLES children,        \* m_children of each node
          parents          \* m_parents of each node

graph == <<children, parents>>

VisitType == {"CHILDREN", "PARENTS", "UNDIRECTED"}

GraphTypeOK == /\ children \in [Node -> SUBSET Node]
               /\ parents  \in [Node -> SUBSET Node]

GraphInit == /\ children = [n \in Node |-> {}]
             /\ parents  = [n \in Node |-> {}]

\* Node::addChild stores the link at both of its ends.
AddChild(a, b) ==
  /\ children' = [children EXCEPT ![a] = @ \cup {b}]
  /\ parents'  = [parents  EXCEPT ![b] = @ \cup {a}]

\* The neighbours of n that a traversal of the given type follows.
FollowedChildren(type, n) ==
  IF type \in {"CHILDREN", "UNDIRECTED"} THEN children[n] ELSE {}

FollowedParents(type, n) ==
  IF type \in {"PARENTS", "UNDIRECTED"} THEN parents[n] ELSE {}

Followed(type, n) == FollowedChildren(type, n) \cup FollowedParents(type, n)

-----------------------------------------------------------------------------
(***************************************************************************)
(* What a traversal should find.                                           *)
(***************************************************************************)
Closed(type, S) == \A n \in S : Followed(type, n) \subseteq S

\* The least closed set that holds start.
Reachable(type, start) ==
  {n \in Node : \A S \in SUBSET Node : start \in S /\ Closed(type, S) => n \in S}

\* The nodes at most d links away from start.
Within(type, start, d) ==
  LET ball[k \in 0 .. d] ==
        IF k = 0 THEN {start}
        ELSE ball[k - 1] \cup UNION {Followed(type, n) : n \in ball[k - 1]}
  IN  ball[d]

\* What the callers of traverseNodes are promised: everything for a negative
\* depth, else the start node and depth levels of neighbours.
Promised(type, start, depth) ==
  IF depth < 0 THEN Reachable(type, start) ELSE Within(type, start, depth)

\* The number of links from start to n, for a node n that can be reached.
Distance(type, start, n) ==
  CHOOSE d \in 0 .. Cardinality(Node) :
     /\ n \in Within(type, start, d)
     /\ \A e \in 0 .. d - 1 : n \notin Within(type, start, e)
=============================================================================
