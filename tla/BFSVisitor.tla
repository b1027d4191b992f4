----------------------------- MODULE BFSVisitor -----------------------------
(***************************************************************************)
(* BFSVisitor of DirectedAcyclicGraph.h: a breadth first search driven by  *)
(* a queue of nodes and a parallel queue of their depths.  The loops over  *)
(* m_children and m_parents walk unordered sets of pointers, so the order  *)
(* in which neighbours are visited is left open; children come before      *)
(* parents.  A visitor is used for one call after another: m_result is     *)
(* reset when a call starts, m_visited when it ends.                       *)
(***************************************************************************)
EXTENDS DirectedAcyclicGraph, Sequences

CONSTANT Depth             \* the depths callers ask for; negative: no limit

VARIABLES call,            \* the arguments of the current or last call
          running,         \* whether that call is between entry and return
          m_visited, m_result, nodeQueue, nodeDepth

search == <<m_visited, m_result, nodeQueue, nodeDepth>>
vars == <<children, parents, call, running, m_visited, m_result, nodeQueue, nodeDepth>>

NoCall == [asked |-> FALSE]
Call == [asked : {TRUE}, start : Node, type : VisitType, depth : Depth]

TypeOK == /\ GraphTypeOK
          /\ call \in Call \cup {NoCall}
          /\ running \in BOOLEAN
          /\ running => call \in Call
          /\ m_visited \in SUBSET Node
          /\ m_result \in Seq(Node)
          /\ nodeQueue \in Seq(Node)
          /\ nodeDepth \in Seq(Nat)
          /\ Len(nodeDepth) = Len(nodeQueue)

Init == /\ GraphInit
        /\ call = NoCall
        /\ running = FALSE
        /\ m_visited = {}
        /\ m_result = <<>>
        /\ nodeQueue = <<>>
        /\ nodeDepth = <<>>

\* The graph is complete before a visitor is used on it.
Link(a, b) == call = NoCall /\ AddChild(a, b) /\ UNCHANGED <<call, running, search>>

\* traverseNodes, traverseChildren, ...: m_result is reset and the start node
\* is visited and queued, unless an earlier call left it marked.
Traverse(c) ==
  /\ ~running
  /\ call' = c
  /\ running' = TRUE
  /\ IF c.start \in m_visited
       THEN /\ m_result' = <<>>
            /\ UNCHANGED <<m_visited, nodeQueue, nodeDepth>>
       ELSE /\ m_result' = <<c.start>>
            /\ m_visited' = m_visited \cup {c.start}
            /\ nodeQueue' = Append(nodeQueue, c.start)
            /\ nodeDepth' = Append(nodeDepth, 0)
  /\ UNCHANGED graph

\* The neighbours of the node at the front that the two loops still visit.
DepthAllows == call.depth < 0 \/ Head(nodeDepth) < call.depth

UnvisitedChildren ==
  IF DepthAllows THEN FollowedChildren(call.type, Head(nodeQueue)) \ m_visited ELSE {}

UnvisitedParents ==
  IF DepthAllows THEN FollowedParents(call.type, Head(nodeQueue)) \ m_visited ELSE {}

Visit(n) ==
  /\ m_result' = Append(m_result, n)
  /\ m_visited' = m_visited \cup {n}
  /\ nodeQueue' = Append(nodeQueue, n)
  /\ nodeDepth' = Append(nodeDepth, Head(nodeDepth) + 1)
  /\ UNCHANGED <<children, parents, call, running>>

VisitChild(n) == running /\ nodeQueue # <<>> /\ n \in UnvisitedChildren /\ Visit(n)

VisitParent(n) ==
  /\ running /\ nodeQueue # <<>>
  /\ UnvisitedChildren = {}
  /\ n \in UnvisitedParents
  /\ Visit(n)

Pop ==
  /\ running /\ nodeQueue # <<>>
  /\ UnvisitedChildren = {} /\ UnvisitedParents = {}
  /\ nodeQueue' = Tail(nodeQueue)
  /\ nodeDepth' = Tail(nodeDepth)
  /\ UNCHANGED <<children, parents, call, running, m_visited, m_result>>

\* Mutant of Return: the marks survive the call.
ReturnKeepingMarks ==
  /\ running /\ nodeQueue = <<>>
  /\ running' = FALSE
  /\ UNCHANGED <<children, parents, call, search>>

\* The queue is empty: m_visited is reset and m_result returned.
Return ==
  /\ running /\ nodeQueue = <<>>
  /\ running' = FALSE
  /\ m_visited' = {}
  /\ UNCHANGED <<children, parents, call, m_result, nodeQueue, nodeDepth>>

Step == Pop \/ Return \/ \E n \in Node : VisitChild(n) \/ VisitParent(n)

Next == \/ \E a, b \in Node : Link(a, b)
        \/ \E c \in Call : Traverse(c)
        \/ Step

Spec == Init /\ [][Next]_vars /\ WF_vars(Step)
-----------------------------------------------------------------------------
Returned == call # NoCall /\ ~running
Visited == {m_result[i] : i \in DOMAIN m_result}

\* What a caller sees, for the refinement.
answer == IF Returned THEN [returned |-> TRUE, nodes |-> Visited]
                      ELSE [returned |-> FALSE]

Contract == INSTANCE Traversal

(***************************************************************************)
(* Every call returns the nodes that its direction and depth select: the   *)
(* queue of BFSVisitor::traverse implements the contract of Visitor, also  *)
(* when the visitor is used again.                                         *)
(***************************************************************************)
ImplementsContract == Contract!Spec

=============================================================================
