----------------------------- MODULE Traversal ------------------------------
(***************************************************************************)
(* The contract of the Visitor interface of DirectedAcyclicGraph.h: a      *)
(* caller links nodes, then asks for a traversal from a start node in one  *)
(* of three directions, down to a depth, and is given exactly the nodes    *)
(* that the direction and the depth select.  Both implementations in that  *)
(* header, the queue of BFSVisitor and the recursion of BFSRecurseVisitor, *)
(* are checked against this module.                                        *)
(***************************************************************************)
EXTENDS DirectedAcyclicGraph

CONSTANT Depth             \* the depths callers ask for; negative: no limit

VARIABLES call,            \* the traversal asked for last, NoCall at the start
          answer           \* the nodes it returned, NoAnswer while it runs

NoCall == [asked |-> FALSE]
NoAnswer == [returned |-> FALSE]
Call == [asked : {TRUE}, start : Node, type : VisitType, depth : Depth]

vars == <<children, parents, call, answer>>

Busy == call # NoCall /\ answer = NoAnswer

Init == GraphInit /\ call = NoCall /\ answer = NoAnswer

\* A visitor is made once the graph is complete, and used for several calls.
Link(a, b) == call = NoCall /\ AddChild(a, b) /\ UNCHANGED <<call, answer>>

Ask(c) == ~Busy /\ call' = c /\ answer' = NoAnswer /\ UNCHANGED graph

Answer ==
  /\ Busy
  /\ answer' = [returned |-> TRUE,
                nodes |-> Promised(call.type, call.start, call.depth)]
  /\ UNCHANGED <<children, parents, call>>

Next == \/ \E a, b \in Node : Link(a, b)
        \/ \E c \in Call : Ask(c)
        \/ Answer

Spec == Init /\ [][Next]_vars /\ WF_vars(Answer)
=============================================================================
