------------------------------- MODULE PFBlocks -------------------------------
(***************************************************************************)
(* The blocks of the particle flow: buildPFBlocks (BuildPFBlocks.cpp) puts *)
(* tracks and clusters that are linked into one block, simplifyPFBlocks    *)
(* (SimplifyPFBlocks.cpp) then keeps for each track only the links to the  *)
(* hcal clusters closest to it, and so may cut a block into smaller ones.  *)
(***************************************************************************)
EXTENDS Naturals, FiniteSets, FiniteSetsExt

CONSTANTS Track, Ecal, Hcal,   \* the identifiers of the elements, by type
          Distance             \* the distances of linked elements

ASSUME ElementAssumption ==
  Track \cap Ecal = {} /\ Track \cap Hcal = {} /\ Ecal \cap Hcal = {}
ASSUME DistanceAssumption == Distance \subseteq Nat

VARIABLES phase,
          edges,               \* the linked edges |-> their distance
          blocks,              \* buildPFBlocks's
          todo,                \* those not simplified yet
          simplified           \* simplifyPFBlocks's

blockVars == <<phase, edges, blocks, todo, simplified>>

Element == Track \cup Ecal \cup Hcal

\* The ruler knows edges from a track to a cluster of either calorimeter.
Pair == Track \X (Ecal \cup Hcal)

Ends(links) == UNION {{l[1], l[2]} : l \in links}

Block == [elementIds : SUBSET Element, links : SUBSET Pair]

TypeOK == /\ phase \in {"build", "simplify", "done"}
          /\ DOMAIN edges \in SUBSET Pair /\ \A p \in DOMAIN edges : edges[p] \in Distance
          /\ blocks \in SUBSET Block
          /\ todo \in SUBSET blocks
          /\ simplified \in SUBSET Block
          /\ \A b \in blocks \cup simplified : Ends(b.links) \subseteq b.elementIds

Init == /\ phase = "build"
        /\ \E linked \in SUBSET Pair : edges \in [linked -> Distance]
        /\ blocks = {}
        /\ todo = {}
        /\ simplified = {}

\* S is closed: a link has both of its ends in it, or none.
Closed(S, links) == \A l \in links : l[1] \in S <=> l[2] \in S

\* The group of element id: what one can get to from it along links.
Group(id, links) ==
  {e \in Element : \A S \in SUBSET Element : id \in S /\ Closed(S, links) => e \in S}

\* The second buildPFBlocks: the subgraphs of the ids become blocks, with
\* copies of the edges that both ends of are in the block.
Built(ids, links) ==
  {[elementIds |-> g, links |-> {l \in links : Ends({l}) \subseteq g}] :
     g \in {Group(id, links) : id \in ids}}

buildPFBlocks ==
  /\ phase = "build"
  /\ phase' = "simplify"
  /\ blocks' = Built(Element, DOMAIN edges)
  /\ todo' = blocks'
  /\ UNCHANGED <<edges, simplified>>

\* PFBlock::linkedIds, by type of edge.
HcalsOf(t, b) == {h \in Hcal : <<t, h>> \in b.links}
EcalsOf(t, b) == {e \in Ecal : <<t, e>> \in b.links}
TracksOf(c, b) == {t \in Track : <<t, c>> \in b.links}

\* Mutant of edgesToUnlink: the minimum distance is taken over all tracks, as
\* if it were not started anew for each.
edgesBeyondLeast(b) ==
  {l \in b.links : l[2] \in Hcal /\ \E k \in b.links : k[2] \in Hcal /\ edges[l] > edges[k]}

\* Links to hcals farther from the track than another one it is linked to.
edgesToUnlink(b) ==
  {l \in b.links : l[2] \in Hcal /\ \E h \in HcalsOf(l[1], b) : edges[l] > edges[<<l[1], h>>]}

\* Mutant of simplifyPFBlock: the blocks are rebuilt from the ends of links.
simplifyPFBlockLinkedOnly(b) ==
  /\ phase = "simplify" /\ b \in todo
  /\ simplified' = simplified \cup
       IF edgesToUnlink(b) = {} THEN {b}
       ELSE Built(Ends(b.links \ edgesToUnlink(b)), b.links \ edgesToUnlink(b))
  /\ todo' = todo \ {b}
  /\ UNCHANGED <<phase, edges, blocks>>

\* A block is copied if nothing is to be unlinked, and built anew otherwise.
simplifyPFBlock(b) ==
  /\ phase = "simplify" /\ b \in todo
  /\ simplified' = simplified \cup
       IF edgesToUnlink(b) = {} THEN {b}
       ELSE Built(b.elementIds, b.links \ edgesToUnlink(b))
  /\ todo' = todo \ {b}
  /\ UNCHANGED <<phase, edges, blocks>>

simplifyPFBlocksEnds ==
  /\ phase = "simplify" /\ todo = {}
  /\ phase' = "done"
  /\ UNCHANGED <<edges, blocks, todo, simplified>>

Next == \/ buildPFBlocks
        \/ \E b \in todo : simplifyPFBlock(b)
        \/ simplifyPFBlocksEnds

Spec == Init /\ [][Next]_blockVars
-----------------------------------------------------------------------------
(***************************************************************************)
(* Simplification neither loses an element nor hands it on in two blocks:  *)
(* the simplified blocks and the blocks still to do share out the elements *)
(* at each moment.                                                         *)
(***************************************************************************)
EachElementInOneBlock ==
  phase # "build" =>
     \A id \in Element : Cardinality({b \in simplified \cup todo : id \in b.elementIds}) = 1

(***************************************************************************)
(* At the end a track is linked to the hcals at its own least distance, to *)
(* all of them and to no other, whatever the tracks it shared a block with *)
(* are close to; so it has an hcal if it had one.  Its ecals are as before.*)
(***************************************************************************)
TrackKeepsItsClosestHcals ==
  phase = "done" => \A b \in simplified : \A t \in Track \cap b.elementIds :
     LET before(C) == {c \in C : <<t, c>> \in DOMAIN edges} IN
     /\ EcalsOf(t, b) = before(Ecal)
     /\ HcalsOf(t, b) = {h \in before(Hcal) :
                           \A k \in before(Hcal) : edges[<<t, h>>] <= edges[<<t, k>>]}

(***************************************************************************)
(* "each track links to at most one hcal within a block" is the aim of the *)
(* simplification (SimplifyPFBlocks.h).  The code keeps ties.              *)
(***************************************************************************)
AtMostOneHcalPerTrack ==
  phase = "done" => \A b \in simplified, t \in Track : Cardinality(HcalsOf(t, b)) <= 1
=============================================================================
