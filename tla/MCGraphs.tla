------------------------------ MODULE MCGraphs ------------------------------
(***************************************************************************)
(* The graphs of Papas.  A behaviour is about buildSubGraphs or about one  *)
(* of the two visitors.                                                    *)
(*                                                                         *)
(* buildSubGraphs on every subset of four identifiers with every set of    *)
(* edges among them.  An unordered pair has at most one edge, as the key   *)
(* that Edge::makeKey gives it does not depend on the order of its ends;   *)
(* the smaller end is given first.                                         *)
(*                                                                         *)
(* Both visitors on every graph over three nodes, self links included,     *)
(* with every call on it, one call after another.  Over three nodes the    *)
(* largest distance is two, so the depths tell apart: no limit, the start  *)
(* alone, a limit that cuts, and a limit that does not.                    *)
(***************************************************************************)
EXTENDS BuildSubGraphs

CONSTANT VisitorNode

Pair(i) == {p \in i \X i : p[1] < p[2]}

EdgesOf(state) ==
  {[id1 |-> p[1], id2 |-> p[2], linked |-> state[p] = "linked"] :
     p \in {q \in DOMAIN state : state[q] # "none"}}

MCCall ==
  \E i \in SUBSET Node :
    \E state \in [Pair(IF ForeignEdges THEN Node ELSE i) -> {"none", "unlinked", "linked"}] :
       buildSubGraphs(i, EdgesOf(state))
-----------------------------------------------------------------------------
VARIABLES linksDown, linksUp,                                  \* of the visited graph
          call, running, marks, result, nodeQueue, nodeDepth,  \* of BFSVisitor
          recursiveCall, recursing, marked, gathered, nodes, visitnextnodes, depth

MCDepth == {-1, 0, 1, 2}

Visitor == INSTANCE BFSVisitor
             WITH Node <- VisitorNode, Depth <- MCDepth, children <- linksDown, parents <- linksUp,
                  m_visited <- marks, m_result <- result

Recursion == INSTANCE BFSRecurseVisitor
               WITH Node <- VisitorNode, Depth <- MCDepth, children <- linksDown, parents <- linksUp,
                    call <- recursiveCall, running <- recursing,
                    m_visited <- marked, m_result <- gathered

visitor == <<call, running, marks, result, nodeQueue, nodeDepth>>
recursion == <<recursiveCall, recursing, marked, gathered, nodes, visitnextnodes, depth>>
visits == <<linksDown, linksUp, visitor, recursion>>

MCInit == SubGraphsInit /\ Visitor!Init /\ Recursion!Init

MCNext ==
  \/ /\ Visitor!Init /\ Recursion!Init /\ UNCHANGED visits
     /\ MCCall \/ LinkNodes \/ (\E n \in Node : Fill(n)) \/ ReturnSubGraphs
  \/ /\ SubGraphsInit /\ recursiveCall = Recursion!NoCall /\ Visitor!Next
     /\ UNCHANGED <<subGraphVars, recursion>>
  \/ /\ SubGraphsInit /\ call = Visitor!NoCall
     /\ (\E c \in Recursion!Call : Recursion!Traverse(c)) \/ Recursion!Step
     /\ UNCHANGED <<subGraphVars, visitor>>

MCSpec ==
  /\ MCInit /\ [][MCNext]_<<subGraphVars, visits>>
  /\ WF_visits(Visitor!Step /\ UNCHANGED <<subGraphVars, recursion>>)
  /\ WF_visits(Recursion!Step /\ UNCHANGED <<subGraphVars, visitor>>)

\* The recursion of BFSRecurseVisitor::traverse keeps the contract that the
\* queue of BFSVisitor::traverse keeps, so the two agree on every graph.
VisitorImplementsContract == Visitor!ImplementsContract
RecursionImplementsContract == Recursion!ImplementsContract
=============================================================================
