--------------------------- MODULE BuildSubGraphs ---------------------------
(***************************************************************************)
(* buildSubGraphs (graphtools/src/BuildSubGraphs.cpp) and the flood fill   *)
(* it runs (graphtools/FloodFill.h).  It is called by buildPFBlocks, by    *)
(* simplifyPFBlock and by mergeClusters to cut a set of identifiers into   *)
(* connected groups.  One traversal of the flood fill is one step here:    *)
(* BFSVisitor is shown on its own to return Reachable.                     *)
(***************************************************************************)
EXTENDS DirectedAcyclicGraph, Sequences

CONSTANT ForeignEdges      \* whether edges may end outside the identifiers
                           \* (the header allows it, no caller does it)

ASSUME NodeAssumption == Node \subseteq Nat \ {0}
ASSUME ForeignEdgesAssumption == ForeignEdges \in BOOLEAN

VARIABLES pc,
          ids, edges,      \* the arguments of the call
          localNodes,      \* the keys of the map of local nodes
          filled, resultsVector,  \* FloodFill::traverse: m_visited and the result
          subGraphs        \* the list returned

args == <<ids, edges>>
subGraphVars == <<children, parents, pc, ids, edges, localNodes, filled, resultsVector, subGraphs>>

Edge == [id1 : Node, id2 : Node, linked : BOOLEAN]
Ends(e) == {e.id1, e.id2}
Linked == {e \in edges : e.linked}

\* The value a local node holds: its identifier if it was emplaced from ids,
\* 0 if operator[] had to make it for the end of an edge.
Value(k) == IF k \in ids THEN k ELSE 0

SubGraphsTypeOK ==
  /\ GraphTypeOK
  /\ pc \in {"idle", "link", "fill"}
  /\ ids \in SUBSET Node
  /\ edges \in SUBSET Edge
  /\ localNodes \in SUBSET Node
  /\ filled \in SUBSET localNodes
  /\ resultsVector \in Seq(SUBSET Node)
  /\ subGraphs \in Seq(SUBSET (Node \cup {0}))

SubGraphsInit ==
  /\ GraphInit
  /\ pc = "idle"
  /\ ids = {}
  /\ edges = {}
  /\ localNodes = {}
  /\ filled = {}
  /\ resultsVector = <<>>
  /\ subGraphs = <<>>

\* The function is called: each identifier gets a node of its own.
buildSubGraphs(i, es) ==
  /\ pc = "idle"
  /\ ForeignEdges \/ \A e \in es : Ends(e) \subseteq i
  /\ pc' = "link"
  /\ ids' = i
  /\ edges' = es
  /\ localNodes' = i
  /\ children' = [n \in Node |-> {}]
  /\ parents' = [n \in Node |-> {}]
  /\ filled' = {}
  /\ resultsVector' = <<>>
  /\ subGraphs' = <<>>

\* Mutant of LinkNodes: every edge becomes a link.
LinkAllEdges ==
  /\ pc = "link"
  /\ pc' = "fill"
  /\ localNodes' = localNodes \cup UNION {Ends(e) : e \in edges}
  /\ children' = [n \in Node |-> {e.id2 : e \in {f \in edges : f.id1 = n}}]
  /\ parents' = [n \in Node |-> {e.id1 : e \in {f \in edges : f.id2 = n}}]
  /\ UNCHANGED <<ids, edges, filled, resultsVector, subGraphs>>

\* The loop over the edges: addChild for each linked one.  operator[] makes a
\* node for an end that has none.
LinkNodes ==
  /\ pc = "link"
  /\ pc' = "fill"
  /\ localNodes' = localNodes \cup UNION {Ends(e) : e \in Linked}
  /\ children' = [n \in Node |-> {e.id2 : e \in {f \in Linked : f.id1 = n}}]
  /\ parents' = [n \in Node |-> {e.id1 : e \in {f \in Linked : f.id2 = n}}]
  /\ UNCHANGED <<ids, edges, filled, resultsVector, subGraphs>>

\* FloodFill goes through the map in ascending order, skips what is visited,
\* and takes everything around the next node as a group.
NextRoot == {n \in localNodes \ filled : \A k \in localNodes \ filled : n <= k}

\* Mutant of Group: only the children are followed.
GroupOfChildren(n) == Reachable("CHILDREN", n)

Group(n) == Reachable("UNDIRECTED", n)

Fill(n) ==
  /\ pc = "fill"
  /\ n \in NextRoot
  /\ filled' = filled \cup Group(n)
  /\ resultsVector' = Append(resultsVector, Group(n))
  /\ UNCHANGED <<children, parents, pc, ids, edges, localNodes, subGraphs>>

\* Each group of nodes becomes the set of the identifiers the nodes hold.
ReturnSubGraphs ==
  /\ pc = "fill" /\ localNodes \subseteq filled
  /\ pc' = "idle"
  /\ subGraphs' = [i \in 1 .. Len(resultsVector) |-> {Value(k) : k \in resultsVector[i]}]
  /\ UNCHANGED <<children, parents, ids, edges, localNodes, filled, resultsVector>>

SubGraphsNext ==
  \/ \E i \in SUBSET Node, es \in SUBSET Edge : buildSubGraphs(i, es)
  \/ LinkNodes
  \/ \E n \in Node : Fill(n)
  \/ ReturnSubGraphs

SubGraphsSpec == SubGraphsInit /\ [][SubGraphsNext]_subGraphVars
-----------------------------------------------------------------------------
(***************************************************************************)
(* The groups that FloodFill::traverse has found so far are disjoint: a    *)
(* traversal started at a node that is not marked never runs into a group  *)
(* found earlier, because links are followed both ways.                    *)
(***************************************************************************)
GroupsDisjoint ==
  \A i, j \in DOMAIN resultsVector :
     i # j => resultsVector[i] \cap resultsVector[j] = {}

(***************************************************************************)
(* When buildSubGraphs returns, each identifier is in one and only one     *)
(* subgraph, and the subgraphs hold nothing else.                          *)
(***************************************************************************)
EachIdInOneSubGraph ==
  pc = "idle" =>
     /\ \A id \in ids : \E i \in DOMAIN subGraphs : id \in subGraphs[i]
     /\ \A i, j \in DOMAIN subGraphs : i # j => subGraphs[i] \cap subGraphs[j] = {}
     /\ \A i \in DOMAIN subGraphs : subGraphs[i] \subseteq ids

(***************************************************************************)
(* The subgraphs that buildSubGraphs returns hold identifiers it was       *)
(* given: the nodes of its graph are the ids (BuildSubGraphs.h:13).  Part  *)
(* of EachIdInOneSubGraph, and false once an edge may end elsewhere, as    *)
(* BuildSubGraphs.h:31 allows.                                             *)
(***************************************************************************)
SubGraphsHoldOnlyIds ==
  pc = "idle" => \A i \in DOMAIN subGraphs : subGraphs[i] \subseteq ids

(***************************************************************************)
(* The subgraphs are the connected components of the linked edges: no      *)
(* linked edge joins two of them, and none can be cut in two without       *)
(* cutting a linked edge.                                                  *)
(***************************************************************************)
SubGraphsAreConnected ==
  pc = "idle" => \A i \in DOMAIN subGraphs :
     /\ \A e \in Linked : Ends(e) \cap subGraphs[i] # {} => Ends(e) \subseteq subGraphs[i]
     /\ \A S \in (SUBSET subGraphs[i]) \ {{}, subGraphs[i]} :
           \E e \in Linked : Ends(e) \cap S # {} /\ Ends(e) \cap (subGraphs[i] \ S) # {}
=============================================================================
