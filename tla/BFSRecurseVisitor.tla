------------------------- MODULE BFSRecurseVisitor --------------------------
(***************************************************************************)
(* BFSRecurseVisitor of DirectedAcyclicGraph.h: the same search without a  *)
(* queue.  Each recursive call of traverse visits one level: it marks the  *)
(* nodes it was given that are not marked yet and gathers the unmarked     *)
(* neighbours of those it marked, which are the level of the next call.    *)
(* A tail call replaces its caller, so the recursion is a loop here.       *)
(***************************************************************************)
EXTENDS DirectedAcyclicGraph, Sequences

CONSTANT Depth

VARIABLES call, running,
          m_visited, m_result,
          nodes,           \* what this recursive call has still to process
          visitnextnodes,  \* what it gathers for the next one
          depth            \* its depth argument

level == <<nodes, visitnextnodes, depth>>
vars == <<children, parents, call, running, m_visited, m_result, nodes, visitnextnodes, depth>>

NoCall == [asked |-> FALSE]
Call == [asked : {TRUE}, start : Node, type : VisitType, depth : Depth]

\* The depth arguments a call can reach.  A limited call must stop at zero: the
\* code tests depth != 0, so below zero the search would go on without limit.  A
\* call without limit counts down once per level.
DepthRange ==
  IF call.depth >= 0 THEN 0 .. call.depth
  ELSE (call.depth - Cardinality(Node)) .. call.depth

TypeOK == /\ GraphTypeOK
          /\ call \in Call \cup {NoCall}
          /\ running \in BOOLEAN
          /\ m_visited \in SUBSET Node
          /\ m_result \in Seq(Node)
          /\ nodes \in SUBSET Node
          /\ visitnextnodes \in SUBSET Node
          /\ depth \in Int
          /\ running => depth \in DepthRange

Init == /\ GraphInit
        /\ call = NoCall
        /\ running = FALSE
        /\ m_visited = {}
        /\ m_result = <<>>
        /\ nodes = {}
        /\ visitnextnodes = {}
        /\ depth = 0

Link(a, b) ==
  call = NoCall /\ AddChild(a, b) /\ UNCHANGED <<call, running, m_visited, m_result, level>>

Traverse(c) ==
  /\ ~running
  /\ call' = c
  /\ running' = TRUE
  /\ m_result' = <<>>
  /\ nodes' = {c.start}
  /\ visitnextnodes' = {}
  /\ depth' = c.depth
  /\ UNCHANGED <<children, parents, m_visited>>

\* Mutant of Gathered: the limit is reached one level late.
GatheredOneMore(n) ==
  IF depth # -1 THEN Followed(call.type, n) \ (m_visited \cup {n}) ELSE {}

\* The neighbours of n that the next level gets; n itself is marked by then.
Gathered(n) ==
  IF depth # 0 THEN Followed(call.type, n) \ (m_visited \cup {n}) ELSE {}

\* One iteration of the loop over the nodes of a level, in any order.
Process(n) ==
  /\ running /\ n \in nodes
  /\ nodes' = nodes \ {n}
  /\ IF n \in m_visited
       THEN UNCHANGED <<m_visited, m_result, visitnextnodes>>
       ELSE /\ m_visited' = m_visited \cup {n}
            /\ m_result' = Append(m_result, n)
            /\ visitnextnodes' = visitnextnodes \cup Gathered(n)
  /\ UNCHANGED <<children, parents, call, running, depth>>

Recurse ==
  /\ running /\ nodes = {} /\ visitnextnodes # {}
  /\ nodes' = visitnextnodes
  /\ visitnextnodes' = {}
  /\ depth' = depth - 1
  /\ UNCHANGED <<children, parents, call, running, m_visited, m_result>>

\* traverse is entered with no nodes: the recursion ends, the public call
\* resets m_visited and returns m_result.
Return ==
  /\ running /\ nodes = {} /\ visitnextnodes = {}
  /\ running' = FALSE
  /\ m_visited' = {}
  /\ depth' = 0
  /\ UNCHANGED <<children, parents, call, m_result, nodes, visitnextnodes>>

Step == Recurse \/ Return \/ \E n \in Node : Process(n)

Next == \/ \E a, b \in Node : Link(a, b)
        \/ \E c \in Call : Traverse(c)
        \/ Step

Spec == Init /\ [][Next]_vars /\ WF_vars(Step)
-----------------------------------------------------------------------------
Returned == call # NoCall /\ ~running
Visited == {m_result[i] : i \in DOMAIN m_result}

answer == IF Returned THEN [returned |-> TRUE, nodes |-> Visited]
                      ELSE [returned |-> FALSE]

Contract == INSTANCE Traversal

(***************************************************************************)
(* Every call returns the nodes that its direction and depth select: the   *)
(* recursion of BFSRecurseVisitor::traverse keeps the contract that the    *)
(* queue of BFSVisitor::traverse keeps, so the two agree on every graph.   *)
(***************************************************************************)
ImplementsContract == Contract!Spec

=============================================================================
