------------------------- MODULE ReconstructionProofs --------------------------
(***************************************************************************)
(* The blocks and the particles made of them, for any elements, links,     *)
(* distances, energies and origins.                                        *)
(*                                                                         *)
(* The blocks share out the elements from the moment they are built until  *)
(* all are simplified, and a track then has the hcals closest to it: the   *)
(* group of an element is closed under the links, and so are the elements  *)
(* outside it, so two groups that meet are the same.                       *)
(*                                                                         *)
(* The reconstruction makes one particle of each track and leaves unused   *)
(* only what it should: within a block a track is locked exactly if its    *)
(* particle has been made, and the blocks that come before and after hold  *)
(* none of the elements of this one.  The neutral particles have no more   *)
(* energy than the clusters that were used for them.                       *)
(*                                                                         *)
(* The clusters come from mergeClusters, of any clusters: two groups of    *)
(* its graph that meet are the same too, and a merged cluster is where its *)
(* parts are, which are not merged themselves.                             *)
(***************************************************************************)
EXTENDS PFReconstructor, MergeClusters, FiniteSetTheorems, SequenceTheorems, WellFoundedInduction, TLAPS

\* The blocks there are: those simplified and those still to do.
There == simplified \cup todo

\* A block of B holds something, and its links are between what it holds.
Sound(B) == \A b \in B : /\ b \in Block
                         /\ b.elementIds # {}
                         /\ Ends(b.links) \subseteq b.elementIds

\* B shares out the elements of ids.
SharesOut(B, ids) ==
  /\ \A b \in B : b.elementIds \subseteq ids
  /\ \A id \in ids : \E b \in B : id \in b.elementIds
  /\ \A b, c \in B : b.elementIds \cap c.elementIds # {} => b = c

\* The links of b are those of the elements that b holds.
HasItsLinks(b, links) ==
  b.links = {l \in links : l[1] \in b.elementIds \/ l[2] \in b.elementIds}

ShapeInv == /\ phase \in {"build", "simplify", "done"}
            /\ DOMAIN edges \in SUBSET Pair
            /\ \A p \in DOMAIN edges : edges[p] \in Distance
            /\ phase = "build" => simplified = {} /\ todo = {}
            /\ phase = "done" => todo = {}
            /\ todo \subseteq blocks /\ Sound(blocks)

BlocksInv == /\ Sound(There)
             /\ simplified \cap todo = {}
             /\ phase # "build" => SharesOut(There, Element)

\* What a track is linked to before and after its block is simplified.
LinksInv ==
  /\ \A b \in todo : HasItsLinks(b, DOMAIN edges)
  /\ \A b \in simplified : \A t \in Track \cap b.elementIds :
       LET before(C) == {c \in C : <<t, c>> \in DOMAIN edges} IN
       /\ EcalsOf(t, b) = before(Ecal)
       /\ HcalsOf(t, b) = {h \in before(Hcal) :
                             \A k \in before(Hcal) : edges[<<t, h>>] <= edges[<<t, k>>]}

IInv == ShapeInv /\ BlocksInv /\ LinksInv
-----------------------------------------------------------------------------
LEMMA PairEnds ==
  ASSUME NEW l \in Pair
  PROVE  /\ l = <<l[1], l[2]>> /\ l[1] \in Track /\ l[2] \in Ecal \cup Hcal
         /\ l[1] \in Element /\ l[2] \in Element
         /\ Ends({l}) = {l[1], l[2]}
BY DEF Pair, Element, Ends

\* A group is closed, and whatever it holds has the same group.
LEMMA GroupIsClosed ==
  ASSUME NEW id \in Element, NEW links \in SUBSET Pair
  PROVE  /\ Group(id, links) \subseteq Element
         /\ id \in Group(id, links)
         /\ Closed(Group(id, links), links)
<1>1. Group(id, links) \subseteq Element /\ id \in Group(id, links)
  BY DEF Group
<1>2. ASSUME NEW l \in links
      PROVE  l[1] \in Group(id, links) <=> l[2] \in Group(id, links)
  <2>1. l[1] \in Element /\ l[2] \in Element
    BY PairEnds
  <2>2. \A S \in SUBSET Element : Closed(S, links) => (l[1] \in S <=> l[2] \in S)
    BY DEF Closed
  <2>3. QED
    BY <2>1, <2>2 DEF Group
<1>3. QED
  BY <1>1, <1>2 DEF Closed

LEMMA GroupIsLeast ==
  ASSUME NEW id \in Element, NEW links \in SUBSET Pair,
         NEW S \in SUBSET Element, id \in S, Closed(S, links)
  PROVE  Group(id, links) \subseteq S
BY DEF Group

LEMMA GroupsThatMeetAreOne ==
  ASSUME NEW id \in Element, NEW links \in SUBSET Pair, NEW e \in Group(id, links)
  PROVE  Group(e, links) = Group(id, links)
<1>1. e \in Element
  BY DEF Group
<1>2. Group(e, links) \subseteq Group(id, links)
  BY <1>1, GroupIsClosed, GroupIsLeast
<1>3. id \in Group(e, links)
  <2> SUFFICES ASSUME id \notin Group(e, links) PROVE FALSE
    OBVIOUS
  <2> DEFINE Others == Element \ Group(e, links)
  <2>1. Closed(Group(e, links), links) /\ e \in Group(e, links)
    BY <1>1, GroupIsClosed
  <2>2. Closed(Others, links)
    <3> SUFFICES ASSUME NEW l \in links PROVE l[1] \in Others <=> l[2] \in Others
      BY DEF Closed
    <3>1. l[1] \in Element /\ l[2] \in Element
      BY PairEnds
    <3>2. l[1] \in Group(e, links) <=> l[2] \in Group(e, links)
      BY <2>1 DEF Closed
    <3>3. QED
      BY <3>1, <3>2
  <2>3. Group(id, links) \subseteq Others
    BY <2>2, GroupIsLeast
  <2>4. QED
    BY <2>1, <2>3
<1>4. Group(id, links) \subseteq Group(e, links)
  BY <1>1, <1>3, GroupIsClosed, GroupIsLeast
<1>5. QED
  BY <1>2, <1>4

\* The blocks built of ids, when no link leads out of them.
LEMMA BuiltShareOut ==
  ASSUME NEW ids \in SUBSET Element, NEW links \in SUBSET Pair, Ends(links) \subseteq ids
  PROVE  /\ Sound(Built(ids, links))
         /\ SharesOut(Built(ids, links), ids)
         /\ \A b \in Built(ids, links) : HasItsLinks(b, links)
<1> DEFINE B(id) == [elementIds |-> Group(id, links),
                     links |-> {l \in links : Ends({l}) \subseteq Group(id, links)}]
<1>1. \A b : b \in Built(ids, links) <=> \E id \in ids : b = B(id)
  BY DEF Built
<1>2. \A l \in links : l[1] \in ids /\ l[2] \in ids
  BY DEF Ends
<1>3. Closed(ids, links)
  BY <1>2 DEF Closed
<1>4. ASSUME NEW id \in ids
      PROVE  /\ Group(id, links) \subseteq ids /\ id \in Group(id, links)
             /\ Closed(Group(id, links), links)
  BY <1>3, GroupIsClosed, GroupIsLeast
<1>5. ASSUME NEW id \in ids
      PROVE  B(id) \in Block /\ Ends(B(id).links) \subseteq B(id).elementIds
  <2>1. Group(id, links) \in SUBSET Element
    BY <1>4
  <2>2. {l \in links : Ends({l}) \subseteq Group(id, links)} \in SUBSET Pair
    OBVIOUS
  <2>3. \A l \in B(id).links : l[1] \in Group(id, links) /\ l[2] \in Group(id, links)
    BY DEF Ends
  <2>4. Ends(B(id).links) \subseteq Group(id, links)
    BY <2>3 DEF Ends
  <2>5. QED
    BY <2>1, <2>2, <2>4 DEF Block
<1>6. Sound(Built(ids, links))
  <2>1. \A id \in ids : B(id).elementIds # {}
    BY <1>4
  <2> HIDE DEF B
  <2>2. QED
    BY <1>1, <1>5, <2>1 DEF Sound
<1>7. SharesOut(Built(ids, links), ids)
  <2>0. \A id \in ids : B(id).elementIds = Group(id, links)
    OBVIOUS
  <2>1. ASSUME NEW i \in ids, NEW j \in ids, NEW e \in Group(i, links) \cap Group(j, links)
        PROVE  Group(i, links) = Group(j, links)
    BY GroupsThatMeetAreOne
  <2>2. \A b, c \in Built(ids, links) : b.elementIds \cap c.elementIds # {} => b = c
    <3>1. ASSUME NEW i \in ids, NEW j \in ids, NEW e \in Group(i, links) \cap Group(j, links)
          PROVE  B(i) = B(j)
      BY <2>1
    <3> HIDE DEF B
    <3>2. QED
      BY <1>1, <2>0, <3>1
  <2>3. \A b \in Built(ids, links) : b.elementIds \subseteq ids
    BY <1>1, <1>4, <2>0
  <2>4. \A id \in ids : id \in B(id).elementIds /\ B(id) \in Built(ids, links)
    BY <1>1, <1>4, <2>0
  <2>5. QED
    BY <2>2, <2>3, <2>4 DEF SharesOut
<1>8. ASSUME NEW id \in ids PROVE HasItsLinks(B(id), links)
  <2>1. \A l \in links : /\ Ends({l}) = {l[1], l[2]}
                         /\ l[1] \in Group(id, links) <=> l[2] \in Group(id, links)
    BY <1>4, PairEnds DEF Closed
  <2>2. QED
    BY <2>1 DEF HasItsLinks
<1>9. QED
  BY <1>1, <1>6, <1>7, <1>8
-----------------------------------------------------------------------------
LEMMA InitIInv == Init => IInv
<1> SUFFICES ASSUME Init PROVE IInv
  OBVIOUS
<1>1. ShapeInv
  BY DEF Init, ShapeInv, Sound
<1>2. BlocksInv /\ LinksInv
  BY DEF Init, BlocksInv, LinksInv, There, Sound
<1>3. QED
  BY <1>1, <1>2 DEF IInv

LEMMA BuildKeepsIInv == ASSUME IInv, buildPFBlocks PROVE IInv'
<1> USE DEF IInv, buildPFBlocks
<1>1. DOMAIN edges \in SUBSET Pair /\ Ends(DOMAIN edges) \subseteq Element
  <2>1. \A l \in DOMAIN edges : l[1] \in Element /\ l[2] \in Element
    BY PairEnds DEF ShapeInv
  <2>2. QED
    BY <2>1 DEF Ends, ShapeInv
<1>2. simplified' = {} /\ todo' = Built(Element, DOMAIN edges)
  BY DEF ShapeInv
<1>3. ShapeInv'
  BY <1>1, BuiltShareOut DEF ShapeInv, Sound
<1>4. BlocksInv'
  BY <1>1, <1>2, BuiltShareOut DEF BlocksInv, There
<1>5. LinksInv'
  BY <1>1, <1>2, BuiltShareOut DEF LinksInv
<1>6. QED
  BY <1>3, <1>4, <1>5

\* What simplifying one block puts in its place.
Instead(b) == IF edgesToUnlink(b) = {} THEN {b}
              ELSE Built(b.elementIds, b.links \ edgesToUnlink(b))

LEMMA InsteadOfBlock ==
  ASSUME IInv, NEW b \in todo
  PROVE  /\ Sound(Instead(b))
         /\ SharesOut(Instead(b), b.elementIds)
         /\ \A c \in Instead(b) : HasItsLinks(c, b.links \ edgesToUnlink(b))
<1>1. b \in Block /\ b.elementIds # {} /\ Ends(b.links) \subseteq b.elementIds
  BY DEF IInv, BlocksInv, Sound, There
<1>2. b.elementIds \in SUBSET Element /\ b.links \in SUBSET Pair
  BY <1>1 DEF Block
<1>3. CASE edgesToUnlink(b) = {}
  <2>1. \A l \in b.links : l[1] \in b.elementIds /\ l[2] \in b.elementIds
    BY <1>1 DEF Ends
  <2>2. HasItsLinks(b, b.links)
    BY <2>1 DEF HasItsLinks
  <2>3. QED
    BY <1>1, <1>3, <2>2 DEF Instead, Sound, SharesOut
<1>4. CASE edgesToUnlink(b) # {}
  <2>1. Ends(b.links \ edgesToUnlink(b)) \subseteq b.elementIds
    BY <1>1 DEF Ends
  <2>2. Instead(b) = Built(b.elementIds, b.links \ edgesToUnlink(b))
    BY <1>4 DEF Instead
  <2>3. QED
    BY <1>2, <2>1, <2>2, BuiltShareOut
<1>5. QED
  BY <1>3, <1>4

\* A track keeps its ecals, and of its hcals those at the least distance.
LEMMA InsteadLinks ==
  ASSUME IInv, NEW b \in todo, NEW c \in Instead(b), NEW t \in Track \cap c.elementIds
  PROVE  LET before(C) == {x \in C : <<t, x>> \in DOMAIN edges} IN
         /\ EcalsOf(t, c) = before(Ecal)
         /\ HcalsOf(t, c) = {h \in before(Hcal) :
                               \A k \in before(Hcal) : edges[<<t, h>>] <= edges[<<t, k>>]}
<1> DEFINE before(C) == {x \in C : <<t, x>> \in DOMAIN edges}
<1>1. t \in b.elementIds
  BY InsteadOfBlock DEF SharesOut
<1>2. \A x : <<t, x>> \in b.links <=> <<t, x>> \in DOMAIN edges
  BY <1>1 DEF IInv, LinksInv, HasItsLinks
<1>3. \A x : <<t, x>> \in c.links <=> <<t, x>> \in b.links \ edgesToUnlink(b)
  BY InsteadOfBlock DEF HasItsLinks
<1>4. HcalsOf(t, b) = before(Hcal)
  BY <1>2 DEF HcalsOf
<1>5. \A x \in Ecal : <<t, x>> \notin edgesToUnlink(b)
  BY ElementAssumption DEF edgesToUnlink
<1>6. \A x \in Hcal : <<t, x>> \in b.links =>
         (<<t, x>> \in edgesToUnlink(b) <=> \E k \in before(Hcal) : edges[<<t, x>>] > edges[<<t, k>>])
  BY <1>4 DEF edgesToUnlink
<1>7. \A x, k \in before(Hcal) : edges[<<t, x>>] \in Nat /\ edges[<<t, k>>] \in Nat
  BY DistanceAssumption DEF IInv, ShapeInv
<1>8. EcalsOf(t, c) = before(Ecal)
  BY <1>2, <1>3, <1>5 DEF EcalsOf
<1>9. HcalsOf(t, c) = {h \in before(Hcal) :
                         \A k \in before(Hcal) : edges[<<t, h>>] <= edges[<<t, k>>]}
  <2>1. \A h : h \in HcalsOf(t, c) <=>
                 h \in before(Hcal) /\ \A k \in before(Hcal) : ~(edges[<<t, h>>] > edges[<<t, k>>])
    BY <1>2, <1>3, <1>6 DEF HcalsOf
  <2>2. \A h, k \in before(Hcal) :
           ~(edges[<<t, h>>] > edges[<<t, k>>]) <=> edges[<<t, h>>] <= edges[<<t, k>>]
    BY <1>7
  <2>3. QED
    BY <2>1, <2>2
<1>10. QED
  BY <1>8, <1>9

LEMMA SimplifyKeepsIInv == ASSUME IInv, NEW b \in todo, simplifyPFBlock(b) PROVE IInv'
<1>1. /\ phase = "simplify" /\ phase' = phase /\ edges' = edges
      /\ simplified' = simplified \cup Instead(b) /\ todo' = todo \ {b}
  BY DEF simplifyPFBlock, Instead
<1>2. /\ Sound(Instead(b)) /\ SharesOut(Instead(b), b.elementIds)
  BY InsteadOfBlock
<1>3. b.elementIds \subseteq Element /\ b.elementIds # {}
  BY DEF IInv, BlocksInv, Sound, There, Block
<1>4. /\ Sound(There) /\ SharesOut(There, Element) /\ simplified \cap todo = {}
  BY <1>1 DEF IInv, BlocksInv
<1>5. There' = (There \ {b}) \cup Instead(b)
  BY <1>1, <1>4 DEF There
<1>6. \A c \in There \ {b} : c.elementIds \cap b.elementIds = {}
  BY <1>4 DEF SharesOut, There
<1>7. SharesOut(There', Element)
  <2>1. \A c \in There' : c.elementIds \subseteq Element
    BY <1>2, <1>3, <1>4, <1>5 DEF SharesOut
  <2>2. \A id \in Element : \E c \in There' : id \in c.elementIds
    BY <1>2, <1>4, <1>5 DEF SharesOut
  <2>3. ASSUME NEW c \in There', NEW d \in There', c.elementIds \cap d.elementIds # {}
        PROVE  c = d
    <3>1. CASE c \in There \ {b} /\ d \in There \ {b}
      BY <1>4, <2>3, <3>1 DEF SharesOut
    <3>2. CASE c \in Instead(b) /\ d \in Instead(b)
      BY <1>2, <2>3, <3>2 DEF SharesOut
    <3>3. CASE c \in There \ {b} /\ d \in Instead(b)
      BY <1>2, <1>6, <2>3, <3>3 DEF SharesOut
    <3>4. CASE c \in Instead(b) /\ d \in There \ {b}
      BY <1>2, <1>6, <2>3, <3>4 DEF SharesOut
    <3>5. QED
      BY <1>5, <3>1, <3>2, <3>3, <3>4
  <2>4. QED
    BY <2>1, <2>2, <2>3 DEF SharesOut
<1>8. simplified' \cap todo' = {}
  <2> SUFFICES ASSUME NEW c \in Instead(b), c \in todo \ {b} PROVE FALSE
    BY <1>1, <1>4
  <2>1. c.elementIds \subseteq b.elementIds /\ c.elementIds # {}
    BY <1>2 DEF SharesOut, Sound
  <2>2. QED
    BY <1>6, <2>1 DEF There
<1>9. BlocksInv'
  <2>1. Sound(There')
    BY <1>2, <1>4, <1>5 DEF Sound
  <2>2. QED
    BY <1>7, <1>8, <2>1 DEF BlocksInv
<1>10. ShapeInv'
  <2>1. blocks' = blocks
    BY DEF simplifyPFBlock
  <2>2. QED
    BY <1>1, <2>1 DEF IInv, ShapeInv, Sound
<1>11. LinksInv'
  <2>1. \A c \in todo' : HasItsLinks(c, DOMAIN edges')
    BY <1>1 DEF IInv, LinksInv
  <2>2. ASSUME NEW c \in simplified', NEW t \in Track \cap c.elementIds
        PROVE  LET before(C) == {x \in C : <<t, x>> \in DOMAIN edges} IN
               /\ EcalsOf(t, c) = before(Ecal)
               /\ HcalsOf(t, c) = {h \in before(Hcal) :
                     \A k \in before(Hcal) : edges[<<t, h>>] <= edges[<<t, k>>]}
    BY <1>1, InsteadLinks DEF IInv, LinksInv
  <2>3. QED
    BY <1>1, <2>1, <2>2 DEF LinksInv, EcalsOf, HcalsOf
<1>12. QED
  BY <1>9, <1>10, <1>11 DEF IInv

LEMMA EndKeepsIInv == ASSUME IInv, simplifyPFBlocksEnds PROVE IInv'
<1> USE DEF IInv, simplifyPFBlocksEnds
<1>1. ShapeInv'
  BY DEF ShapeInv
<1>2. BlocksInv'
  BY DEF BlocksInv, There
<1>3. LinksInv'
  BY DEF LinksInv, EcalsOf, HcalsOf
<1>4. QED
  BY <1>1, <1>2, <1>3

LEMMA NextKeepsIInv == IInv /\ [Next]_blockVars => IInv'
<1> SUFFICES ASSUME IInv, [Next]_blockVars PROVE IInv'
  OBVIOUS
<1>1. CASE Next
  BY <1>1, BuildKeepsIInv, SimplifyKeepsIInv, EndKeepsIInv DEF Next
<1>2. CASE UNCHANGED blockVars
  <2> USE <1>2 DEF IInv, blockVars
  <2>1. ShapeInv' /\ BlocksInv'
    BY DEF ShapeInv, BlocksInv, There
  <2>2. LinksInv'
    BY DEF LinksInv, EcalsOf, HcalsOf
  <2>3. QED
    BY <2>1, <2>2
<1>3. QED
  BY <1>1, <1>2

LEMMA Inductive == Spec => []IInv
<1>1. QED
  BY InitIInv, NextKeepsIInv, PTL DEF Spec
-----------------------------------------------------------------------------
(***************************************************************************)
(* buildPFBlocks and simplifyPFBlocks neither lose an element nor hand it  *)
(* on in two blocks, at any moment, for any elements and links.            *)
(***************************************************************************)
THEOREM BlocksShareOut == Spec => []EachElementInOneBlock
<1>1. IInv => EachElementInOneBlock
  <2> SUFFICES ASSUME IInv, phase # "build", NEW id \in Element
               PROVE  Cardinality({b \in There : id \in b.elementIds}) = 1
    BY DEF EachElementInOneBlock, There
  <2>1. SharesOut(There, Element)
    BY DEF IInv, BlocksInv
  <2>2. PICK b \in There : id \in b.elementIds
    BY <2>1 DEF SharesOut
  <2>3. {c \in There : id \in c.elementIds} = {b}
    BY <2>1, <2>2 DEF SharesOut
  <2>4. QED
    BY <2>3, FS_Singleton
<1>2. QED
  BY <1>1, Inductive, PTL

(***************************************************************************)
(* A track ends up with the hcals at its own least distance and with all   *)
(* its ecals, whatever other tracks its block holds.                       *)
(***************************************************************************)
THEOREM TracksKeepTheirClosest == Spec => []TrackKeepsItsClosestHcals
<1>1. IInv => TrackKeepsItsClosestHcals
  BY DEF IInv, LinksInv, TrackKeepsItsClosestHcals
<1>2. QED
  BY <1>1, Inductive, PTL

(***************************************************************************)
(* TypeOK: besides the types, that no block links what it does not hold.   *)
(***************************************************************************)
THEOREM TypesAreRight == Spec => []TypeOK
<1>1. IInv => TypeOK
  BY DEF IInv, ShapeInv, BlocksInv, There, Sound, TypeOK
<1>2. QED
  BY <1>1, Inductive, PTL
-----------------------------------------------------------------------------
Steps == {"begin", "next", "muons", "electrons", "alone", "hcals", "tracks", "rest"}

ChargedKinds == {"muon", "electron", "hadron"}

\* Where s has a charged particle made of track t.
MadeOf(s, t) == {i \in DOMAIN s : s[i].kind \in ChargedKinds /\ t \in s[i].parents}

OneOf(s, t, kind) == \E i \in DOMAIN s : MadeOf(s, t) = {i} /\ s[i].kind = kind

IsSeq(s) == \E S : s \in Seq(S)

\* s has one particle, of the right kind, of each track of D, and no other.
Makes(s, D) == /\ IsSeq(s)
               /\ \A t \in Track : IF t \in D THEN OneOf(s, t, origin[t]) ELSE MadeOf(s, t) = {}

\* The tracks whose particles have been made.
DoneTracks == Track \cap (Through \cup (m_locked \cap block.elementIds))

\* What UnusedIsExplained says of an element of block b.
Explained(id, b) ==
  /\ id \in b.elementIds
  /\ \A t \in TracksOf(id, b) : origin[t] \in {"muon", "electron"}
  /\ \/ id \in Ecal
     \/ /\ id \in Hcal /\ energy[id] < KaonMass
        /\ \A other \in b.elementIds \ {id} : other \in Track

StepInv ==
  /\ step \in Steps
  /\ phase # "done" => step = "begin"
  /\ Inputs
  /\ queue \subseteq simplified
  /\ step = "begin" => queue = {} /\ m_particles = <<>> /\ m_unused = {}
  /\ step \in {"begin", "next"} => block = NoBlock
  /\ step \notin {"begin", "next"} => block \in simplified \ queue

\* What is locked of the block, step by step.
LockInv ==
  /\ step = "muons" => m_locked \cap block.elementIds = {}
  /\ step = "electrons" => m_locked \cap block.elementIds = From("muon")
  /\ step = "alone" =>
       /\ m_locked \cap block.elementIds = From("muon") \cup From("electron")
       /\ uids = block.elementIds \ m_locked
       /\ \E id : uids = {id}
  /\ step \in {"hcals", "tracks"} =>
       /\ From("muon") \cup From("electron") \subseteq m_locked
       /\ hcals \subseteq Hcal \cap block.elementIds
       /\ (Hcal \cap block.elementIds) \ m_locked \subseteq hcals
       /\ \A t \in From("hadron") \cap m_locked : EcalsOf(t, block) \subseteq m_locked
  /\ step = "tracks" => hcals = {}
  /\ step = "rest" => \A id \in block.elementIds \ m_locked : Explained(id, block)

UnusedInv == \A id \in m_unused : \E b \in simplified : Explained(id, b)

RecInv == IInv /\ StepInv /\ LockInv /\ UnusedInv /\ Makes(m_particles, DoneTracks)

-----------------------------------------------------------------------------
(***************************************************************************)
(* Sequences of particles.                                                 *)
(***************************************************************************)
LEMMA Joined ==
  ASSUME NEW s, NEW q, IsSeq(s), IsSeq(q)
  PROVE  /\ IsSeq(s \o q)
         /\ \A t : MadeOf(s \o q, t) = MadeOf(s, t) \cup {Len(s) + i : i \in MadeOf(q, t)}
         /\ \A i \in DOMAIN s : i \in DOMAIN (s \o q) /\ (s \o q)[i] = s[i]
         /\ \A i \in DOMAIN q : Len(s) + i \in DOMAIN (s \o q) /\ (s \o q)[Len(s) + i] = q[i]
<1>1. PICK S, Q : s \in Seq(S) /\ q \in Seq(Q)
  BY DEF IsSeq
<1>2. s \in Seq(S \cup Q) /\ q \in Seq(S \cup Q)
  BY <1>1
<1>3. s \o q \in Seq(S \cup Q)
  BY <1>2
<1>4. /\ Len(s) \in Nat /\ Len(q) \in Nat
      /\ DOMAIN s = 1 .. Len(s) /\ DOMAIN q = 1 .. Len(q)
      /\ DOMAIN (s \o q) = 1 .. (Len(s) + Len(q))
      /\ \A i \in 1 .. (Len(s) + Len(q)) :
            (s \o q)[i] = IF i <= Len(s) THEN s[i] ELSE q[i - Len(s)]
  BY <1>2
<1>5. /\ \A i \in DOMAIN s : i \in DOMAIN (s \o q) /\ (s \o q)[i] = s[i]
      /\ \A i \in DOMAIN q : Len(s) + i \in DOMAIN (s \o q) /\ (s \o q)[Len(s) + i] = q[i]
  BY <1>4
<1>6. ASSUME NEW t
      PROVE  MadeOf(s \o q, t) = MadeOf(s, t) \cup {Len(s) + i : i \in MadeOf(q, t)}
  <2>1. \A j \in DOMAIN (s \o q) : j \in DOMAIN s \/ \E i \in DOMAIN q : j = Len(s) + i
    <3> SUFFICES ASSUME NEW j \in 1 .. (Len(s) + Len(q)), ~(j <= Len(s))
                 PROVE  \E i \in DOMAIN q : j = Len(s) + i
      BY <1>4
    <3>1. j - Len(s) \in DOMAIN q /\ j = Len(s) + (j - Len(s))
      BY <1>4
    <3>2. QED
      BY <3>1
  <2>2. QED
    BY <1>5, <2>1 DEF MadeOf
<1>7. QED
  BY <1>3, <1>5, <1>6 DEF IsSeq

\* Particles of tracks not done yet are added to those there are.
LEMMA MoreMade ==
  ASSUME NEW s, NEW q, NEW D, NEW T, Makes(s, D), Makes(q, T), T \cap D = {}
  PROVE  Makes(s \o q, D \cup T)
<1>1. IsSeq(s) /\ IsSeq(q)
  BY DEF Makes
<1>2. /\ IsSeq(s \o q)
      /\ \A t : MadeOf(s \o q, t) = MadeOf(s, t) \cup {Len(s) + i : i \in MadeOf(q, t)}
      /\ \A i \in DOMAIN s : i \in DOMAIN (s \o q) /\ (s \o q)[i] = s[i]
      /\ \A i \in DOMAIN q : Len(s) + i \in DOMAIN (s \o q) /\ (s \o q)[Len(s) + i] = q[i]
  BY <1>1, Joined
<1>3. ASSUME NEW t \in Track
      PROVE  IF t \in D \cup T THEN OneOf(s \o q, t, origin[t]) ELSE MadeOf(s \o q, t) = {}
  <2>1. MadeOf(s \o q, t) = MadeOf(s, t) \cup {Len(s) + i : i \in MadeOf(q, t)}
    BY <1>2
  <2>2. CASE t \in D
    <3>1. MadeOf(q, t) = {}
      BY <2>2 DEF Makes
    <3>2. PICK i \in DOMAIN s : MadeOf(s, t) = {i} /\ s[i].kind = origin[t]
      BY <2>2 DEF Makes, OneOf
    <3>3. i \in DOMAIN (s \o q) /\ (s \o q)[i] = s[i]
      BY <1>2
    <3>4. MadeOf(s \o q, t) = {i}
      BY <2>1, <3>1, <3>2
    <3>5. QED
      BY <2>2, <3>2, <3>3, <3>4 DEF OneOf
  <2>3. CASE t \in T
    <3>1. MadeOf(s, t) = {}
      BY <2>3 DEF Makes
    <3>2. PICK i \in DOMAIN q : MadeOf(q, t) = {i} /\ q[i].kind = origin[t]
      BY <2>3 DEF Makes, OneOf
    <3>3. Len(s) + i \in DOMAIN (s \o q) /\ (s \o q)[Len(s) + i] = q[i]
      BY <1>2, <3>2
    <3>4. MadeOf(s \o q, t) = {Len(s) + i}
      BY <2>1, <3>1, <3>2
    <3>5. QED
      BY <2>3, <3>2, <3>3, <3>4 DEF OneOf
  <2>4. CASE t \notin D \cup T
    <3>1. MadeOf(s, t) = {} /\ MadeOf(q, t) = {}
      BY <2>4 DEF Makes
    <3>2. QED
      BY <2>1, <2>4, <3>1
  <2>5. QED
    BY <2>2, <2>3, <2>4
<1>4. QED
  BY <1>2, <1>3 DEF Makes

\* An ordering of finitely many tracks holds each of them once.
LEMMA OrderedTracks ==
  ASSUME NEW T \in SUBSET Track, NEW ordered \in ByEnergy(T)
  PROVE  /\ ordered \in Seq(T)
         /\ \A t \in T : \E i \in DOMAIN ordered : ordered[i] = t
         /\ \A i, j \in DOMAIN ordered : ordered[i] = ordered[j] => i = j
<1> DEFINE n == Cardinality(T)
<1>1. IsFiniteSet(T) /\ n \in Nat
  <2>1. T \subseteq Element
    BY DEF Element
  <2>2. QED
    BY <2>1, FiniteAssumption, FS_Subset, FS_CardinalityType
<1>2. ordered \in [1 .. n -> T] /\ \A i, j \in 1 .. n : i # j => ordered[i] # ordered[j]
  BY DEF ByEnergy, SetToSeqs
<1>3. ordered \in Injection(1 .. n, T)
  BY <1>2 DEF Injection, IsInjective
<1>4. IsFiniteSet(1 .. n) /\ Cardinality(1 .. n) = n
  BY <1>1, FS_Interval
<1>5. ordered \in Surjection(1 .. n, T)
  BY <1>1, <1>3, <1>4, FS_Injection
<1>6. QED
  BY <1>1, <1>2, <1>5 DEF Surjection

LEMMA ChargedMakes ==
  ASSUME NEW T \in SUBSET Track, NEW ordered, NEW kind \in ChargedKinds, NEW parents,
         \/ ordered \in ByEnergy(T)
         \/ \E t \in Track : T = {t} /\ ordered = <<t>>,
         \A t \in T : parents[t] \cap Track = {t} /\ origin[t] = kind
  PROVE  Makes(Charged(ordered, kind, parents), T)
<1> DEFINE q == Charged(ordered, kind, parents)
<1>1. /\ ordered \in Seq(T)
      /\ \A t \in T : \E i \in DOMAIN ordered : ordered[i] = t
      /\ \A i, j \in DOMAIN ordered : ordered[i] = ordered[j] => i = j
  <2>1. CASE ordered \in ByEnergy(T)
    BY <2>1, OrderedTracks
  <2>2. CASE \E t \in Track : T = {t} /\ ordered = <<t>>
    <3>1. PICK t \in Track : T = {t} /\ ordered = <<t>>
      BY <2>2
    <3>2. ordered \in Seq(T) /\ DOMAIN ordered = {1} /\ ordered[1] = t
      BY <3>1
    <3>3. QED
      BY <3>1, <3>2
  <2>3. QED
    BY <2>1, <2>2
<1>2. DOMAIN q = DOMAIN ordered /\ Len(ordered) \in Nat /\ DOMAIN ordered = 1 .. Len(ordered)
  BY <1>1 DEF Charged
<1>3. \A i \in DOMAIN q : /\ ordered[i] \in T
                          /\ q[i].kind = kind /\ q[i].parents = parents[ordered[i]]
  BY <1>1 DEF Charged, Particle
<1>4. q \in Seq({q[i] : i \in DOMAIN q})
  <2>1. q = [i \in 1 .. Len(ordered) |-> q[i]]
    BY <1>2 DEF Charged
  <2>2. QED
    BY <1>2, <2>1
<1>5. \A t \in Track : MadeOf(q, t) = {i \in DOMAIN ordered : ordered[i] = t}
  <2>1. \A t \in Track, i \in DOMAIN q : t \in q[i].parents <=> ordered[i] = t
    BY <1>3
  <2>2. QED
    BY <1>2, <1>3, <2>1 DEF MadeOf
<1>6. ASSUME NEW t \in T
      PROVE  OneOf(q, t, origin[t])
  <2>1. PICK i \in DOMAIN ordered : ordered[i] = t
    BY <1>1
  <2>2. MadeOf(q, t) = {i}
    BY <1>1, <1>5, <2>1
  <2>3. QED
    BY <1>2, <1>3, <2>1, <2>2 DEF OneOf
<1>7. ASSUME NEW t \in Track \ T
      PROVE  MadeOf(q, t) = {}
  BY <1>2, <1>3, <1>5
<1>8. QED
  BY <1>4, <1>6, <1>7 DEF Makes, IsSeq

LEMMA NeutralMakesNone ==
  ASSUME NEW kind \in {"photon", "K0"}, NEW e, NEW parents
  PROVE  Makes(Neutral(kind, e, parents), {})
<1> DEFINE P == Particle(kind, e, parents)
<1>1. Neutral(kind, e, parents) \in Seq({P})
  <2>1. <<P>> \in Seq({P}) /\ <<>> \in Seq({P})
    <3> HIDE DEF P
    <3>1. QED
      OBVIOUS
  <2>2. QED
    BY <2>1 DEF Neutral
<1>2. \A i \in DOMAIN Neutral(kind, e, parents) : Neutral(kind, e, parents)[i] = Particle(kind, e, parents)
  <2>1. CASE TooSoft(kind, e)
    BY <2>1 DEF Neutral
  <2>2. CASE ~TooSoft(kind, e)
    BY <2>2 DEF Neutral
  <2>3. QED
    BY <2>1, <2>2
<1>3. \A t : MadeOf(Neutral(kind, e, parents), t) = {}
  BY <1>2 DEF MadeOf, Particle, ChargedKinds
<1>4. QED
  BY <1>1, <1>3 DEF Makes, IsSeq

LEMMA NothingMakesNone == Makes(<<>>, {})
BY DEF Makes, IsSeq, MadeOf

-----------------------------------------------------------------------------
(***************************************************************************)
(* The steps of the reconstruction.                                        *)
(***************************************************************************)
\* Once blocks are built and simplified, what is known of the current block.
LEMMA CurrentBlock ==
  ASSUME RecInv, step \notin {"begin", "next"}
  PROVE  /\ phase = "done"
         /\ block \in simplified \ queue
         /\ block.elementIds \subseteq Element /\ block # NoBlock
         /\ block.links \in SUBSET Pair
         /\ Ends(block.links) \subseteq block.elementIds
         /\ Through \cap block.elementIds = {}
         /\ origin \in [Track -> ChargedKinds]
<1>1. phase = "done" /\ block \in simplified \ queue /\ origin \in [Track -> ChargedKinds]
  BY DEF RecInv, StepInv, Inputs, ChargedKinds
<1>2. block \in There
  BY <1>1 DEF There
<1>3. /\ block \in Block /\ block.elementIds # {} /\ Ends(block.links) \subseteq block.elementIds
      /\ SharesOut(There, Element)
  BY <1>1, <1>2 DEF RecInv, IInv, BlocksInv, Sound
<1>4. block.elementIds \subseteq Element /\ block.links \in SUBSET Pair /\ block # NoBlock
  BY <1>3 DEF Block, NoBlock
<1>5. ASSUME NEW e \in Through, e \in block.elementIds PROVE FALSE
  <2>1. PICK b \in simplified \ (queue \cup {block}) : e \in b.elementIds
    BY DEF Through
  <2>2. b \in There /\ b # block
    BY <2>1 DEF There
  <2>3. QED
    BY <1>2, <1>3, <1>5, <2>1, <2>2 DEF SharesOut
<1>6. QED
  BY <1>1, <1>3, <1>4, <1>5

LEMMA SimplifiedIsNoBlock == RecInv => NoBlock \notin simplified
BY DEF RecInv, IInv, BlocksInv, Sound, There, NoBlock

\* Within a block nothing but what is locked and made changes.
Within == /\ UNCHANGED <<blockVars, energy, origin, queue, block, m_unused>>
          /\ step \notin {"begin", "next"} /\ step' \notin {"begin", "next"}
          /\ step' \in Steps

LEMMA WithinKeeps ==
  ASSUME RecInv, Within
  PROVE  /\ IInv' /\ StepInv' /\ UnusedInv'
         /\ Through' = Through
<1> USE DEF Within, blockVars, RecInv
<1>1. IInv'
  BY NextKeepsIInv DEF RecInv
<1>2. StepInv'
  BY DEF StepInv, Inputs
<1>3. UnusedInv'
  BY DEF UnusedInv, Explained, TracksOf
<1>4. QED
  BY <1>1, <1>2, <1>3 DEF Through

\* The particles of T are added, and of the block's tracks those of T locked.
LEMMA WithinMakes ==
  ASSUME RecInv, Within, NEW q, NEW T, Makes(q, T), m_particles' = m_particles \o q,
         T \subseteq Track \cap block.elementIds, T \cap m_locked = {},
         Track \cap m_locked' \cap block.elementIds = (Track \cap m_locked \cap block.elementIds) \cup T
  PROVE  Makes(m_particles, DoneTracks)'
<1>1. Through' = Through /\ block' = block /\ origin' = origin
  BY WithinKeeps DEF Within
<1>2. Through \cap block.elementIds = {}
  BY CurrentBlock DEF Within
<1>3. T \cap DoneTracks = {}
  BY <1>2 DEF DoneTracks
<1>4. DoneTracks' = DoneTracks \cup T
  BY <1>1 DEF DoneTracks
<1>5. Makes(m_particles \o q, DoneTracks \cup T)
  BY <1>3, MoreMade DEF RecInv
<1>6. QED
  BY <1>1, <1>4, <1>5 DEF Makes, OneOf

LEMMA FromTheBlock ==
  ASSUME RecInv, step \notin {"begin", "next"}
  PROVE  /\ \A kind : From(kind) \subseteq Track \cap block.elementIds
         /\ Track \cap block.elementIds = From("muon") \cup From("electron") \cup From("hadron")
         /\ \A k, l \in ChargedKinds : k # l => From(k) \cap From(l) = {}
         /\ \A c : TracksOf(c, block) \subseteq Track \cap block.elementIds
         /\ \A t : EcalsOf(t, block) \subseteq Ecal \cap block.elementIds
<1>1. \A kind : From(kind) \subseteq Track \cap block.elementIds
  BY DEF From
<1>2. Track \cap block.elementIds = From("muon") \cup From("electron") \cup From("hadron")
  BY CurrentBlock DEF From, ChargedKinds
<1>3. \A l \in block.links : l[1] \in block.elementIds /\ l[2] \in block.elementIds
  BY CurrentBlock DEF Ends
<1>4. \A t, c : <<t, c>> \in block.links => t \in block.elementIds /\ c \in block.elementIds
  BY <1>3
<1>5. QED
  BY <1>1, <1>2, <1>4 DEF From, TracksOf, EcalsOf

LEMMA MuonsKeep == ASSUME RecInv, reconstructMuons PROVE RecInv'
<1> USE DEF reconstructMuons, Leptons
<1>1. Within /\ step = "muons" /\ step' = "electrons"
  BY DEF Within, Steps
<1>2. m_locked \cap block.elementIds = {} /\ m_locked' = m_locked \cup From("muon")
  BY <1>1 DEF RecInv, LockInv
<1>3. From("muon") \ m_locked = From("muon") /\ From("muon") \subseteq Track \cap block.elementIds
  BY <1>1, <1>2, FromTheBlock
<1>4. PICK ordered \in ByEnergy(From("muon")) :
         m_particles' = m_particles \o Charged(ordered, "muon", Itself)
  BY <1>3
<1>5. \A t \in From("muon") : Itself[t] \cap Track = {t} /\ origin[t] = "muon"
  BY DEF From, Itself
<1>6. Makes(Charged(ordered, "muon", Itself), From("muon"))
  BY <1>3, <1>5, ChargedMakes DEF ChargedKinds
<1>7. Makes(m_particles, DoneTracks)'
  BY <1>1, <1>2, <1>3, <1>4, <1>6, WithinMakes
<1>8. LockInv'
  BY <1>1, <1>2, <1>3 DEF LockInv, Within, From
<1>9. QED
  BY <1>1, <1>7, <1>8, WithinKeeps DEF RecInv

LEMMA ElectronsKeep == ASSUME RecInv, reconstructElectrons PROVE RecInv'
<1> USE DEF reconstructElectrons, Leptons
<1>1. Within /\ step = "electrons" /\ step' \in {"alone", "hcals"}
  BY DEF Within, Steps
<1>2. /\ m_locked \cap block.elementIds = From("muon")
      /\ m_locked' = m_locked \cup From("electron")
  BY <1>1 DEF RecInv, LockInv
<1>3. /\ From("electron") \ m_locked = From("electron")
      /\ From("electron") \subseteq Track \cap block.elementIds
  <2>1. /\ From("electron") \subseteq Track \cap block.elementIds
        /\ From("electron") \cap From("muon") = {}
    BY <1>1, FromTheBlock DEF ChargedKinds
  <2>2. QED
    BY <1>2, <2>1
<1>4. PICK ordered \in ByEnergy(From("electron")) :
         m_particles' = m_particles \o Charged(ordered, "electron", Itself)
  BY <1>3
<1>5. \A t \in From("electron") : Itself[t] \cap Track = {t} /\ origin[t] = "electron"
  BY DEF From, Itself
<1>6. Makes(Charged(ordered, "electron", Itself), From("electron"))
  BY <1>3, <1>5, ChargedMakes DEF ChargedKinds
<1>7. Makes(m_particles, DoneTracks)'
  BY <1>1, <1>2, <1>3, <1>4, <1>6, WithinMakes
<1>8. LockInv'
  <2>1. block' = block /\ origin' = origin
    BY <1>1 DEF Within
  <2>2. m_locked' \cap block.elementIds = From("muon") \cup From("electron")
    BY <1>2, <1>3
  <2>3. ASSUME step' = "alone" PROVE \E id : uids' = {id}
    <3>1. Cardinality(uids') = 1
      BY <2>3
    <3>2. block.elementIds \subseteq Element
      BY <1>1, CurrentBlock
    <3>3. IsFiniteSet(uids')
      BY <3>2, FiniteAssumption, FS_Subset
    <3>4. QED
      BY <3>1, <3>3, FS_Singleton
  <2>4. ASSUME step' = "hcals"
        PROVE  /\ hcals' \subseteq Hcal \cap block.elementIds
               /\ (Hcal \cap block.elementIds) \ m_locked' \subseteq hcals'
               /\ From("hadron") \cap m_locked' = {}
    <3>1. hcals' = Hcal \cap (block.elementIds \ m_locked')
      BY <2>4
    <3>2. From("hadron") \subseteq block.elementIds
          /\ From("hadron") \cap (From("muon") \cup From("electron")) = {}
      BY <1>1, FromTheBlock DEF ChargedKinds
    <3>3. QED
      BY <2>2, <3>1, <3>2
  <2>5. From("muon") \cup From("electron") \subseteq m_locked'
    BY <2>2
  <2>6. uids' = block.elementIds \ m_locked'
    OBVIOUS
  <2>7. \A kind : From(kind)' = From(kind)
    BY <2>1 DEF From
  <2>8. QED
    BY <1>1, <2>1, <2>2, <2>3, <2>4, <2>5, <2>6, <2>7 DEF LockInv
<1>9. QED
  BY <1>1, <1>7, <1>8, WithinKeeps DEF RecInv

LEMMA AloneKeeps == ASSUME RecInv, reconstructAlone PROVE RecInv'
<1>1. Within /\ step = "alone" /\ step' = "rest"
  BY DEF reconstructAlone, Within, Steps
<1>2. PICK id \in uids :
       /\ m_particles' = m_particles \o
            CASE id \in Ecal  -> Neutral("photon", energy[id], {id})
              [] id \in Hcal  -> Neutral("K0", energy[id], {id})
              [] id \in Track -> Charged(<<id>>, "hadron", Itself)
       /\ m_locked' = IF id \in Hcal /\ TooSoft("K0", energy[id]) THEN m_locked
                      ELSE m_locked \cup {id}
  BY DEF reconstructAlone
<1>3. /\ m_locked \cap block.elementIds = From("muon") \cup From("electron")
      /\ block.elementIds \ m_locked = {id}
  BY <1>1, <1>2 DEF RecInv, LockInv
<1>4. id \in block.elementIds /\ id \notin m_locked /\ id \in Element
  BY <1>1, <1>3, CurrentBlock
<1>5. id \in Track => origin[id] = "hadron"
  <2>1. id \notin From("muon") \cup From("electron")
    BY <1>3, <1>4
  <2>2. QED
    BY <1>1, <1>4, <2>1, FromTheBlock DEF From
<1>6. Makes(m_particles, DoneTracks)'
  <2>1. CASE id \in Track
    <3>1. m_particles' = m_particles \o Charged(<<id>>, "hadron", Itself)
          /\ m_locked' = m_locked \cup {id}
      BY <1>2, <2>1, ElementAssumption
    <3>2. Makes(Charged(<<id>>, "hadron", Itself), {id})
      <4>1. \A t \in {id} : Itself[t] \cap Track = {t} /\ origin[t] = "hadron"
        BY <1>5, <2>1 DEF Itself
      <4>2. QED
        BY <2>1, <4>1, ChargedMakes DEF ChargedKinds
    <3>3. QED
      BY <1>1, <1>4, <2>1, <3>1, <3>2, WithinMakes
  <2>2. CASE id \notin Track
    <3>1. \E kind \in {"photon", "K0"} :
             m_particles' = m_particles \o Neutral(kind, energy[id], {id})
      <4>1. id \in Ecal \/ (id \in Hcal /\ id \notin Ecal)
        BY <1>4, <2>2, ElementAssumption DEF Element
      <4>2. CASE id \in Ecal
        <5>1. id \notin Hcal
          BY <4>2, ElementAssumption
        <5>2. m_particles' = m_particles \o Neutral("photon", energy[id], {id})
          BY <1>2, <2>2, <4>2, <5>1
        <5>3. QED
          BY <5>2
      <4>3. CASE id \in Hcal /\ id \notin Ecal
        <5>1. m_particles' = m_particles \o Neutral("K0", energy[id], {id})
          BY <1>2, <2>2, <4>3
        <5>2. QED
          BY <5>1
      <4>4. QED
        BY <4>1, <4>2, <4>3
    <3>2. PICK kind \in {"photon", "K0"} :
             m_particles' = m_particles \o Neutral(kind, energy[id], {id})
      BY <3>1
    <3>3. Makes(Neutral(kind, energy[id], {id}), {})
      BY NeutralMakesNone
    <3>4. Track \cap m_locked' \cap block.elementIds
             = (Track \cap m_locked \cap block.elementIds) \cup {}
      BY <1>2, <2>2
    <3> DEFINE q == Neutral(kind, energy[id], {id})
    <3>5. Makes(q, {}) /\ m_particles' = m_particles \o q
      BY <3>2, <3>3
    <3>6. {} \subseteq Track \cap block.elementIds /\ {} \cap m_locked = {}
      OBVIOUS
    <3> HIDE DEF q
    <3>7. QED
      BY <1>1, <3>4, <3>5, <3>6, WithinMakes
  <2>3. QED
    BY <2>1, <2>2
<1>7. ASSUME NEW i \in block.elementIds \ m_locked' PROVE Explained(i, block)
  <2>1. i = id /\ id \in Hcal /\ energy[id] < KaonMass
    BY <1>2, <1>3, <1>4, <1>7 DEF TooSoft
  <2>2. \A other \in block.elementIds \ {id} : other \in From("muon") \cup From("electron")
    BY <1>3
  <2>3. \A other \in block.elementIds \ {id} : other \in Track /\ origin[other] \in {"muon", "electron"}
    BY <2>2 DEF From
  <2>4. TracksOf(id, block) \subseteq block.elementIds \ {id}
    <3>1. id \notin Track
      BY <2>1, ElementAssumption
    <3>2. QED
      BY <1>1, <3>1, FromTheBlock
  <2>5. QED
    BY <2>1, <2>3, <2>4 DEF Explained
<1>8. LockInv'
  <2>1. block' = block /\ origin' = origin /\ energy' = energy
    BY <1>1 DEF Within
  <2>2. \A i \in block'.elementIds \ m_locked' : Explained(i, block)'
    BY <1>7, <2>1 DEF Explained, TracksOf
  <2>3. QED
    BY <1>1, <2>2 DEF LockInv
<1>9. QED
  BY <1>1, <1>6, <1>8, WithinKeeps DEF RecInv

LEMMA NeutralsMakeNone ==
  ASSUME NEW h
  PROVE  Makes(NeutralsFromExcess(h), {})
<1> DEFINE ecals == EcalsOfTracks(h)
           A == Neutral("photon", Excess(h), ecals)
           K == Neutral("K0", Excess(h) - Total(ecals), {h})
           P == Neutral("photon", Total(ecals), ecals)
<1>1. Makes(A, {}) /\ Makes(K, {}) /\ Makes(P, {})
  BY NeutralMakesNone
<1> HIDE DEF A, K, P
<1>2. Makes(K \o <<>>, {}) /\ Makes(K \o P, {})
  <2>1. Makes(K \o <<>>, {} \cup {}) /\ Makes(K \o P, {} \cup {})
    BY <1>1, NothingMakesNone, MoreMade
  <2>2. QED
    BY <2>1
<1>3. \/ NeutralsFromExcess(h) = A
      \/ NeutralsFromExcess(h) = K \o <<>>
      \/ NeutralsFromExcess(h) = K \o P
  BY DEF NeutralsFromExcess, A, K, P
<1>4. QED
  BY <1>1, <1>2, <1>3

LEMMA HcalKeeps ==
  ASSUME RecInv, NEW h \in hcals, NEW significant \in BOOLEAN, reconstructHcal(h, significant)
  PROVE  RecInv'
<1>1. Within /\ step = "hcals" /\ step' = "hcals"
  BY DEF reconstructHcal, Within, Steps
<1>2. /\ From("muon") \cup From("electron") \subseteq m_locked
      /\ hcals \subseteq Hcal \cap block.elementIds
      /\ (Hcal \cap block.elementIds) \ m_locked \subseteq hcals
      /\ \A t \in From("hadron") \cap m_locked : EcalsOf(t, block) \subseteq m_locked
  BY <1>1 DEF RecInv, LockInv
<1>3. m_locked' = m_locked \cup LockedBy(h) /\ hcals' = hcals \ {h}
  BY DEF reconstructHcal
<1>4. /\ TracksOf(h, block) \subseteq Track \cap block.elementIds
      /\ Track \cap block.elementIds = From("muon") \cup From("electron") \cup From("hadron")
  BY <1>1, FromTheBlock
<1>5. EcalsOfTracks(h) \cap Track = {} /\ h \notin Track
  BY <1>2, ElementAssumption DEF EcalsOfTracks, EcalsOf
<1>6. Makes(m_particles, DoneTracks)'
  <2> DEFINE neutrals == IF TracksOf(h, block) = {} THEN Neutral("K0", energy[h], {h})
                         ELSE IF significant THEN NeutralsFromExcess(h) ELSE <<>>
             T == TracksToMake(h)
  <2>1. PICK ordered \in ByEnergy(T) :
           m_particles' = m_particles \o Charged(ordered, "hadron", WithLinks) \o neutrals
    BY DEF reconstructHcal
  <2>2. Makes(neutrals, {})
    BY NeutralMakesNone, NeutralsMakeNone, NothingMakesNone
  <2> HIDE DEF neutrals
  <2>3. T \subseteq Track \cap block.elementIds /\ T \cap m_locked = {}
    BY <1>4 DEF TracksToMake
  <2>4. \A t \in T : WithLinks[t] \cap Track = {t} /\ origin[t] = "hadron"
    <3>1. T \subseteq From("hadron")
      BY <1>2, <1>4, <2>3
    <3>2. \A t \in Track : WithLinks[t] \cap Track = {t}
      BY ElementAssumption DEF WithLinks, EcalsOf, HcalsOf
    <3>3. QED
      BY <2>3, <3>1, <3>2 DEF From
  <2>5. Makes(Charged(ordered, "hadron", WithLinks), T)
    BY <2>3, <2>4, ChargedMakes DEF ChargedKinds
  <2> DEFINE charged == Charged(ordered, "hadron", WithLinks)
  <2>6. Makes(charged \o neutrals, T)
    <3>1. Makes(charged \o neutrals, T \cup {})
      BY <2>2, <2>5, MoreMade
    <3>2. QED
      BY <3>1
  <2>7. m_particles' = m_particles \o (charged \o neutrals)
    <3>1. PICK A, B, C : m_particles \in Seq(A) /\ charged \in Seq(B) /\ neutrals \in Seq(C)
      BY <2>2, <2>5 DEF RecInv, Makes, IsSeq
    <3> HIDE DEF charged
    <3>2. m_particles \in Seq(A \cup B \cup C) /\ charged \in Seq(A \cup B \cup C)
          /\ neutrals \in Seq(A \cup B \cup C)
      BY <3>1
    <3>3. (m_particles \o charged) \o neutrals = m_particles \o (charged \o neutrals)
      BY <3>2, ConcatAssociative
    <3>4. QED
      BY <2>1, <3>3 DEF charged
  <2>8. Track \cap m_locked' \cap block.elementIds = (Track \cap m_locked \cap block.elementIds) \cup T
    BY <1>3, <1>4, <1>5 DEF LockedBy, TracksToMake
  <2> HIDE DEF T, charged
  <2>9. QED
    BY <1>1, <2>3, <2>6, <2>7, <2>8, WithinMakes
<1>7. LockInv'
  <2>1. block' = block /\ origin' = origin
    BY <1>1 DEF Within
  <2>2. From("muon") \cup From("electron") \subseteq m_locked'
    BY <1>2, <1>3
  <2>3. /\ hcals' \subseteq Hcal \cap block.elementIds
        /\ (Hcal \cap block.elementIds) \ m_locked' \subseteq hcals'
    BY <1>2, <1>3 DEF LockedBy
  <2>4. ASSUME NEW t \in From("hadron") \cap m_locked' PROVE EcalsOf(t, block) \subseteq m_locked'
    <3>1. CASE t \in m_locked
      BY <1>2, <1>3, <3>1
    <3>2. CASE t \in TracksOf(h, block)
      <4>1. EcalsOf(t, block) \subseteq EcalsOfTracks(h) \cup m_locked
        <5> SUFFICES ASSUME NEW e \in EcalsOf(t, block), e \notin m_locked
                     PROVE  e \in EcalsOfTracks(h)
          OBVIOUS
        <5>1. e \in UNION {EcalsOf(u, block) : u \in TracksOf(h, block)}
          BY <3>2
        <5>2. QED
          BY <5>1 DEF EcalsOfTracks
      <4>2. QED
        BY <1>3, <4>1 DEF LockedBy
    <3>3. t \in Track
      BY DEF From
    <3>4. QED
      BY <1>3, <1>5, <3>1, <3>2, <3>3 DEF LockedBy
  <2>5. \A kind : From(kind)' = From(kind)
    BY <2>1 DEF From
  <2>6. \A t : EcalsOf(t, block)' = EcalsOf(t, block)
    BY <2>1 DEF EcalsOf
  <2>7. QED
    BY <1>1, <2>1, <2>2, <2>3, <2>4, <2>5, <2>6 DEF LockInv
<1>8. QED
  BY <1>1, <1>6, <1>7, WithinKeeps DEF RecInv

LEMMA HcalsDoneKeeps == ASSUME RecInv, HcalsDone PROVE RecInv'
<1> USE DEF HcalsDone
<1>1. Within /\ step = "hcals" /\ step' = "tracks" /\ hcals = {}
  BY DEF Within, Steps
<1>2. DoneTracks' = DoneTracks
  BY <1>1, WithinKeeps DEF DoneTracks, Within
<1>3. Makes(m_particles, DoneTracks)'
  BY <1>2 DEF RecInv, Makes, OneOf
<1>4. LockInv'
  BY <1>1 DEF RecInv, LockInv, From, EcalsOf
<1>5. QED
  BY <1>1, <1>3, <1>4, WithinKeeps DEF RecInv

LEMMA TracksKeep == ASSUME RecInv, reconstructTracks PROVE RecInv'
<1> DEFINE T == (Track \cap block.elementIds) \ m_locked
<1>1. Within /\ step = "tracks" /\ step' = "rest"
  BY DEF reconstructTracks, Within, Steps
<1>2. /\ From("muon") \cup From("electron") \subseteq m_locked
      /\ (Hcal \cap block.elementIds) \subseteq m_locked
      /\ \A t \in From("hadron") \cap m_locked : EcalsOf(t, block) \subseteq m_locked
  BY <1>1 DEF RecInv, LockInv
<1>3. m_locked' = m_locked \cup T \cup UNION {EcalsOf(t, block) : t \in T}
  BY DEF reconstructTracks
<1>4. PICK ordered \in ByEnergy(T) : m_particles' = m_particles \o Charged(ordered, "hadron", Itself)
  BY DEF reconstructTracks
<1>5. T \subseteq From("hadron")
  BY <1>1, <1>2, FromTheBlock
<1>6. Makes(m_particles, DoneTracks)'
  <2>1. \A t \in T : Itself[t] \cap Track = {t} /\ origin[t] = "hadron"
    BY <1>5 DEF Itself, From
  <2>2. Makes(Charged(ordered, "hadron", Itself), T)
    BY <2>1, ChargedMakes DEF ChargedKinds
  <2>3. Track \cap UNION {EcalsOf(t, block) : t \in T} = {}
    BY ElementAssumption DEF EcalsOf
  <2>4. Track \cap m_locked' \cap block.elementIds = (Track \cap m_locked \cap block.elementIds) \cup T
    BY <1>3, <2>3
  <2>5. T \subseteq Track \cap block.elementIds /\ T \cap m_locked = {}
    OBVIOUS
  <2> HIDE DEF T
  <2>6. QED
    BY <1>1, <1>4, <2>2, <2>4, <2>5, WithinMakes
<1>7. ASSUME NEW i \in block.elementIds \ m_locked' PROVE Explained(i, block)
  <2>1. i \in Ecal
    <3>1. i \in Element /\ i \notin Track /\ i \notin Hcal
      BY <1>1, <1>2, <1>3, <1>7, CurrentBlock
    <3>2. QED
      BY <3>1 DEF Element
  <2>2. ASSUME NEW t \in TracksOf(i, block) PROVE origin[t] \in {"muon", "electron"}
    <3>1. t \in Track \cap block.elementIds /\ i \in EcalsOf(t, block)
      BY <1>1, <2>1, FromTheBlock DEF TracksOf, EcalsOf
    <3>2. t \notin T
      BY <1>3, <3>1
    <3>3. t \notin From("hadron")
      BY <1>2, <1>3, <3>1, <3>2
    <3>4. t \in From("muon") \cup From("electron")
      BY <1>1, <3>1, <3>3, FromTheBlock
    <3>5. QED
      BY <3>4 DEF From
  <2>3. QED
    BY <2>1, <2>2 DEF Explained
<1>8. LockInv'
  <2>1. block' = block /\ origin' = origin /\ energy' = energy
    BY <1>1 DEF Within
  <2>2. \A i \in block'.elementIds \ m_locked' : Explained(i, block)'
    BY <1>7, <2>1 DEF Explained, TracksOf
  <2>3. QED
    BY <1>1, <2>2 DEF LockInv
<1>9. QED
  BY <1>1, <1>6, <1>8, WithinKeeps DEF RecInv

-----------------------------------------------------------------------------
(***************************************************************************)
(* The steps between blocks.                                               *)
(***************************************************************************)
LEMMA BeginKeeps == ASSUME RecInv, BeginReconstruction PROVE RecInv'
<1> USE DEF BeginReconstruction
<1>1. IInv'
  BY NextKeepsIInv DEF RecInv, blockVars
<1>2. StepInv'
  BY DEF RecInv, StepInv, Inputs, Steps, blockVars
<1>3. LockInv' /\ UnusedInv'
  BY DEF RecInv, StepInv, LockInv, UnusedInv
<1>4. DoneTracks = {} /\ DoneTracks' = {}
  BY DEF RecInv, StepInv, DoneTracks, Through, NoBlock, blockVars
<1>5. Makes(m_particles, DoneTracks)'
  BY <1>4 DEF RecInv, Makes, OneOf
<1>6. QED
  BY <1>1, <1>2, <1>3, <1>5 DEF RecInv

LEMMA BlockKeeps == ASSUME RecInv, NEW b \in queue, reconstructBlock(b) PROVE RecInv'
<1> USE DEF reconstructBlock
<1>1. /\ step = "next" /\ block = NoBlock /\ b \in simplified /\ simplified' = simplified
      /\ queue' = queue \ {b} /\ block' = b /\ step' = "muons"
  BY DEF RecInv, StepInv, blockVars
<1>2. IInv'
  BY NextKeepsIInv DEF RecInv, blockVars
<1>3. StepInv'
  BY <1>1 DEF RecInv, StepInv, Inputs, Steps, blockVars
<1>4. LockInv' /\ UnusedInv'
  BY <1>1 DEF RecInv, LockInv, UnusedInv, Explained, TracksOf
<1>5. DoneTracks' = DoneTracks
  <2>1. simplified \ (queue \cup {NoBlock}) = simplified \ ((queue \ {b}) \cup {b})
    BY <1>1, SimplifiedIsNoBlock
  <2>2. Through' = Through
    BY <1>1, <2>1 DEF Through
  <2>3. NoBlock.elementIds = {} /\ m_locked' \cap block'.elementIds = {}
    BY <1>1 DEF NoBlock
  <2>4. QED
    BY <1>1, <2>2, <2>3 DEF DoneTracks
<1>6. Makes(m_particles, DoneTracks)'
  BY <1>5 DEF RecInv, Makes, OneOf
<1>7. QED
  BY <1>2, <1>3, <1>4, <1>6 DEF RecInv

LEMMA FinishKeeps == ASSUME RecInv, FinishBlock PROVE RecInv'
<1> USE DEF FinishBlock
<1>1. /\ step = "rest" /\ block' = NoBlock /\ step' = "next"
      /\ simplified' = simplified /\ queue' = queue
  BY DEF blockVars
<1>2. block \in simplified \ queue /\ block.elementIds \subseteq Element
  BY <1>1, CurrentBlock
<1>3. \A i \in block.elementIds \ m_locked : Explained(i, block)
  BY <1>1 DEF RecInv, LockInv
<1>4. IInv'
  BY NextKeepsIInv DEF RecInv, blockVars
<1>5. StepInv'
  BY <1>1 DEF RecInv, StepInv, Inputs, Steps, blockVars
<1>6. LockInv'
  BY <1>1 DEF LockInv
<1>7. UnusedInv'
  BY <1>1, <1>2, <1>3 DEF RecInv, UnusedInv, Explained, TracksOf
<1>8. DoneTracks' = DoneTracks
  <2>1. Through' = Through \cup block.elementIds
    <3>1. simplified \ (queue \cup {NoBlock}) = (simplified \ (queue \cup {block})) \cup {block}
      BY <1>2, SimplifiedIsNoBlock
    <3>2. QED
      BY <1>1, <3>1 DEF Through
  <2>2. Track \cap block.elementIds \subseteq m_locked
    BY <1>3, ElementAssumption DEF Explained
  <2>3. block'.elementIds = {}
    BY <1>1 DEF NoBlock
  <2>4. QED
    BY <2>1, <2>2, <2>3 DEF DoneTracks
<1>9. Makes(m_particles, DoneTracks)'
  BY <1>8 DEF RecInv, Makes, OneOf
<1>10. QED
  BY <1>4, <1>5, <1>6, <1>7, <1>9 DEF RecInv

LEMMA BlocksKeep == ASSUME RecInv, [Next]_blockVars, UNCHANGED recVars PROVE RecInv'
<1> USE DEF recVars
<1>1. IInv'
  BY NextKeepsIInv DEF RecInv
<1>2. CASE UNCHANGED blockVars
  <2>1. StepInv' /\ LockInv' /\ UnusedInv'
    BY <1>2 DEF RecInv, blockVars, StepInv, Inputs, LockInv, UnusedInv, From, EcalsOf,
                Explained, TracksOf
  <2>2. DoneTracks' = DoneTracks
    BY <1>2 DEF blockVars, DoneTracks, Through
  <2>3. Makes(m_particles, DoneTracks)'
    BY <2>2 DEF RecInv, Makes, OneOf
  <2>4. QED
    BY <1>1, <2>1, <2>3 DEF RecInv
<1>3. CASE Next
  <2>1. (phase # "done" /\ edges' = edges) \/ UNCHANGED blockVars
    BY <1>3 DEF Next, buildPFBlocks, simplifyPFBlock, simplifyPFBlocksEnds
  <2>2. CASE phase # "done" /\ edges' = edges
    <3>1. step = "begin"
      BY <2>2 DEF RecInv, StepInv
    <3>2. StepInv'
      BY <2>2, <3>1 DEF RecInv, StepInv, Inputs
    <3>3. LockInv' /\ UnusedInv'
      BY <3>1 DEF RecInv, StepInv, LockInv, UnusedInv
    <3>4. DoneTracks = {} /\ DoneTracks' = {}
      BY <3>1 DEF RecInv, StepInv, DoneTracks, Through, NoBlock
    <3>5. Makes(m_particles, DoneTracks)'
      BY <3>4 DEF RecInv, Makes, OneOf
    <3>6. QED
      BY <1>1, <3>2, <3>3, <3>5 DEF RecInv
  <2>3. QED
    BY <1>2, <2>1, <2>2
<1>4. QED
  BY <1>2, <1>3

LEMMA RecNextKeeps == RecInv /\ [RecNext]_vars => RecInv'
<1> SUFFICES ASSUME RecInv, [RecNext]_vars PROVE RecInv'
  OBVIOUS
<1>1. CASE RecStep
  BY <1>1, BeginKeeps, BlockKeeps, MuonsKeep, ElectronsKeep, AloneKeeps, HcalKeeps,
     HcalsDoneKeeps, TracksKeep, FinishKeeps DEF RecStep
<1>2. CASE Next /\ UNCHANGED recVars
  BY <1>2, BlocksKeep
<1>3. CASE UNCHANGED vars
  BY <1>3, BlocksKeep DEF vars
<1>4. QED
  BY <1>1, <1>2, <1>3 DEF RecNext

LEMMA RecInitInv == RecInit => RecInv
<1> SUFFICES ASSUME RecInit PROVE RecInv
  OBVIOUS
<1> USE DEF RecInit
<1>1. IInv
  BY InitIInv
<1>2. StepInv /\ LockInv /\ UnusedInv
  BY DEF StepInv, Steps, LockInv, UnusedInv
<1>3. Makes(m_particles, DoneTracks)
  <2>1. DoneTracks = {}
    BY DEF DoneTracks, Through, NoBlock
  <2>2. QED
    BY <2>1, NothingMakesNone
<1>4. QED
  BY <1>1, <1>2, <1>3 DEF RecInv

LEMMA RecInductive == RecSpec => []RecInv
<1>1. QED
  BY RecInitInv, RecNextKeeps, PTL DEF RecSpec
-----------------------------------------------------------------------------
(***************************************************************************)
(* Each track makes one particle, of the kind it came from, whatever locks *)
(* it: the muons, the electrons, one of its hcals, or the last loop.       *)
(***************************************************************************)
THEOREM TracksMakeOne == RecSpec => []EachTrackMakesOneParticle
<1>1. RecInv => EachTrackMakesOneParticle
  <2> SUFFICES ASSUME RecInv, NEW t \in Track \cap Through
               PROVE  LET made == ParticlesWith(t, {"muon", "electron", "hadron"})
                      IN Cardinality(made) = 1 /\ \A i \in made : m_particles[i].kind = origin[t]
    BY DEF EachTrackMakesOneParticle
  <2>1. OneOf(m_particles, t, origin[t])
    BY DEF RecInv, Makes, DoneTracks
  <2>2. PICK i \in DOMAIN m_particles :
           MadeOf(m_particles, t) = {i} /\ m_particles[i].kind = origin[t]
    BY <2>1 DEF OneOf
  <2>3. ParticlesWith(t, {"muon", "electron", "hadron"}) = {i}
    BY <2>2 DEF ParticlesWith, MadeOf, ChargedKinds
  <2>4. QED
    BY <2>2, <2>3, FS_Singleton
<1>2. QED
  BY <1>1, RecInductive, PTL

(***************************************************************************)
(* Nothing is unused but hcals too soft for a K0 that were left alone and  *)
(* ecals linked to muons and electrons only.                               *)
(***************************************************************************)
THEOREM UnusedHasAReason == RecSpec => []UnusedIsExplained
<1>1. RecInv => UnusedIsExplained
  BY DEF RecInv, UnusedInv, Explained, UnusedIsExplained
<1>2. QED
  BY <1>1, RecInductive, PTL

(***************************************************************************)
(* Reconstruction leaves the blocks alone: composed with it, they are      *)
(* built and simplified as they are without it.                            *)
(***************************************************************************)
THEOREM ReconstructionLeavesBlocks == RecSpec => Spec
<1>1. RecInit => Init
  BY DEF RecInit
<1>2. [RecNext]_vars => [Next]_blockVars
  <2> SUFFICES ASSUME [RecNext]_vars PROVE [Next]_blockVars
    OBVIOUS
  <2>1. CASE RecStep
    BY <2>1 DEF RecStep, BeginReconstruction, reconstructBlock, reconstructMuons,
       reconstructElectrons, reconstructAlone, reconstructHcal, HcalsDone,
       reconstructTracks, FinishBlock
  <2>2. QED
    BY <2>1 DEF RecNext, vars
<1>3. QED
  BY <1>1, <1>2, PTL DEF RecSpec, Spec
-----------------------------------------------------------------------------
(***************************************************************************)
(* Sums over finite sets.  SumFunctionOnSet takes the terms one by one, as *)
(* CHOOSE finds them.  What is said of every finite set is shown by a      *)
(* least set for which it would be false.                                  *)
(***************************************************************************)
\* Of the sets of a family over a finite set one is least.
LEMMA LeastSet ==
  ASSUME NEW E, IsFiniteSet(E), NEW F \in SUBSET (SUBSET E), F # {}
  PROVE  \E T \in F : \A U \in F : U \subseteq T => U = T
<1>1. IsWellFoundedOn(StrictSubsetOrdering(E), FiniteSubsetsOf(E))
  BY FS_StrictSubsetOrderingWellFounded
<1>2. F \subseteq FiniteSubsetsOf(E)
  BY FS_FiniteSubsetsOfFinite
<1>3. PICK T \in F : \A U \in F : ~(<<U, T>> \in StrictSubsetOrdering(E))
  BY <1>1, <1>2, WFMin
<1> QED BY <1>3 DEF StrictSubsetOrdering

Chosen(s) == CHOOSE x \in s : TRUE

\* The equation of the recursive function that a sum over S applies.
Adds(g, f, S) ==
  g = [s \in SUBSET S |-> IF s = {} THEN 0 ELSE f[Chosen(s)] + g[s \ {Chosen(s)}]]

LEMMA SumApplies ==
  ASSUME NEW f, NEW S
  PROVE  SumFunctionOnSet(f, S) = (CHOOSE g : Adds(g, f, S))[S]
BY DEF SumFunctionOnSet, FoldFunctionOnSet, MapThenFoldSet, Adds, Chosen

LEMMA ChosenIsThere ==
  ASSUME NEW s, s # {}
  PROVE  Chosen(s) \in s
BY DEF Chosen

LEMMA AddsValue ==
  ASSUME NEW f, NEW S, NEW g, Adds(g, f, S), NEW s \in SUBSET S
  PROVE  g[s] = IF s = {} THEN 0 ELSE f[Chosen(s)] + g[s \ {Chosen(s)}]
<1>1. g = [t \in SUBSET S |-> IF t = {} THEN 0 ELSE f[Chosen(t)] + g[t \ {Chosen(t)}]]
  BY DEF Adds
<1> QED BY <1>1

LEMMA AddsAgree ==
  ASSUME NEW f, NEW S, IsFiniteSet(S), NEW T, NEW g, NEW h, Adds(g, f, S), Adds(h, f, T),
         NEW s \in SUBSET S, s \subseteq T
  PROVE  g[s] = h[s]
<1> DEFINE Bad == {t \in SUBSET S : t \subseteq T /\ g[t] # h[t]}
<1> SUFFICES ASSUME Bad # {} PROVE FALSE
  OBVIOUS
<1>1. PICK t \in Bad : \A u \in Bad : u \subseteq t => u = t
  <2>1. Bad \in SUBSET (SUBSET S)
    OBVIOUS
  <2> HIDE DEF Bad
  <2> QED BY <2>1, LeastSet
<1>2. t # {}
  <2>1. {} \in SUBSET S /\ {} \in SUBSET T
    OBVIOUS
  <2>2. g[{}] = 0 /\ h[{}] = 0
    BY <2>1, AddsValue
  <2> QED BY <1>1, <2>2
<1>3. Chosen(t) \in t
  BY <1>2, ChosenIsThere
<1>4. t \ {Chosen(t)} \notin Bad
  BY <1>1, <1>3
<1>5. g[t \ {Chosen(t)}] = h[t \ {Chosen(t)}]
  BY <1>1, <1>4
<1>6. g[t] = h[t]
  <2>1. t \in SUBSET S /\ t \in SUBSET T
    BY <1>1
  <2> QED BY <2>1, <1>2, <1>5, AddsValue
<1> QED BY <1>1, <1>6

LEMMA AddsExists ==
  ASSUME NEW f, NEW S, IsFiniteSet(S)
  PROVE  \E g : Adds(g, f, S)
<1> DEFINE Bad == {s \in SUBSET S : ~ \E g : Adds(g, f, s)}
<1> SUFFICES ASSUME Bad # {} PROVE FALSE
  OBVIOUS
<1>1. PICK T \in Bad : \A u \in Bad : u \subseteq T => u = T
  <2>1. Bad \in SUBSET (SUBSET S)
    OBVIOUS
  <2> HIDE DEF Bad
  <2> QED BY <2>1, LeastSet
<1> DEFINE V(s) == (CHOOSE g : Adds(g, f, s))[s]
<1> DEFINE h == [s \in SUBSET T |-> IF s = {} THEN 0 ELSE f[Chosen(s)] + V(s \ {Chosen(s)})]
<1>2. ASSUME NEW Q \in SUBSET T, Q # T
      PROVE  V(Q) = h[Q]
  <2>1. \E g : Adds(g, f, Q)
    BY <1>1, <1>2
  <2> DEFINE g == CHOOSE g : Adds(g, f, Q)
  <2>2. Adds(g, f, Q)
    BY <2>1
  <2>3. IsFiniteSet(Q)
    BY <1>1, FS_Subset
  <2>4. CASE Q = {}
    BY <2>2, <2>4, AddsValue
  <2>5. CASE Q # {}
    <3> DEFINE P == Q \ {Chosen(Q)}
    <3>1. Chosen(Q) \in Q
      BY <2>5, ChosenIsThere
    <3>2. P \in SUBSET T /\ P # T /\ P \in SUBSET Q
      BY <3>1
    <3>3. \E k : Adds(k, f, P)
      BY <1>1, <3>2, <3>1
    <3> DEFINE k == CHOOSE k : Adds(k, f, P)
    <3>4. Adds(k, f, P)
      BY <3>3
    <3>5. IsFiniteSet(P)
      BY <2>3, <3>2, FS_Subset
    <3>6. g[P] = k[P]
      <4> HIDE DEF g, k, P
      <4> QED BY <2>2, <2>3, <3>2, <3>4, <3>5, AddsAgree
    <3>7. g[Q] = f[Chosen(Q)] + g[P]
      <4>1. Q \in SUBSET Q
        OBVIOUS
      <4> HIDE DEF g
      <4> QED BY <4>1, <2>2, <2>5, AddsValue
    <3> QED BY <3>6, <3>7, <2>5
  <2> QED BY <2>4, <2>5
<1>3. Adds(h, f, T)
  <2>1. ASSUME NEW s \in SUBSET T, s # {} PROVE V(s \ {Chosen(s)}) = h[s \ {Chosen(s)}]
    <3>1. s \ {Chosen(s)} \in SUBSET T /\ s \ {Chosen(s)} # T
      BY <2>1, ChosenIsThere
    <3> HIDE DEF h, V
    <3> QED BY <3>1, <1>2
  <2>2. h = [s \in SUBSET T |-> IF s = {} THEN 0 ELSE f[Chosen(s)] + V(s \ {Chosen(s)})]
    OBVIOUS
  <2>3. h = [s \in SUBSET T |-> IF s = {} THEN 0 ELSE f[Chosen(s)] + h[s \ {Chosen(s)}]]
    <3> HIDE DEF h, V
    <3> QED BY <2>1, <2>2
  <2> QED BY <2>3 DEF Adds
<1> QED BY <1>1, <1>3

\* A sum is the sum of what is left without one of its terms, and this term.
LEMMA SumStep ==
  ASSUME NEW f, NEW S, IsFiniteSet(S), S # {}
  PROVE  SumFunctionOnSet(f, S) = f[Chosen(S)] + SumFunctionOnSet(f, S \ {Chosen(S)})
<1> DEFINE R == S \ {Chosen(S)}
           g == CHOOSE g : Adds(g, f, S)
           h == CHOOSE h : Adds(h, f, R)
<1>1. IsFiniteSet(R)
  BY FS_Subset
<1>2. Adds(g, f, S)
  BY AddsExists
<1>3. Adds(h, f, R)
  BY <1>1, AddsExists
<1>4. g[S] = f[Chosen(S)] + g[R]
  <2>1. S \in SUBSET S
    OBVIOUS
  <2> HIDE DEF g
  <2> QED BY <2>1, <1>2, AddsValue
<1>5. g[R] = h[R]
  <2>1. R \in SUBSET S /\ R \in SUBSET R
    OBVIOUS
  <2> HIDE DEF g, h, R
  <2> QED BY <2>1, <1>1, <1>2, <1>3, AddsAgree
<1> QED BY <1>4, <1>5, SumApplies

LEMMA SumOfNone ==
  ASSUME NEW f
  PROVE  SumFunctionOnSet(f, {}) = 0
<1> DEFINE g == CHOOSE g : Adds(g, f, {})
<1>1. IsFiniteSet({})
  BY FS_EmptySet
<1>2. Adds(g, f, {})
  BY <1>1, AddsExists
<1>3. g[{}] = 0
  <2> HIDE DEF g
  <2> QED BY <1>2, AddsValue
<1> QED BY <1>3, SumApplies

LEMMA SumIsNatural ==
  ASSUME NEW f, NEW S, IsFiniteSet(S), \A e \in S : f[e] \in Nat
  PROVE  SumFunctionOnSet(f, S) \in Nat
<1> DEFINE Bad == {s \in SUBSET S : SumFunctionOnSet(f, s) \notin Nat}
<1> SUFFICES ASSUME Bad # {} PROVE FALSE
  OBVIOUS
<1>1. PICK T \in Bad : \A u \in Bad : u \subseteq T => u = T
  <2>1. Bad \in SUBSET (SUBSET S)
    OBVIOUS
  <2> HIDE DEF Bad
  <2> QED BY <2>1, LeastSet
<1>2. T # {}
  <2>1. SumFunctionOnSet(f, {}) \in Nat
    BY SumOfNone
  <2> QED BY <1>1, <2>1
<1>3. Chosen(T) \in T
  BY <1>2, ChosenIsThere
<1>4. SumFunctionOnSet(f, T \ {Chosen(T)}) \in Nat
  BY <1>1, <1>3
<1>5. IsFiniteSet(T) /\ f[Chosen(T)] \in Nat
  BY <1>1, <1>3, FS_Subset
<1> QED BY <1>1, <1>2, <1>4, <1>5, SumStep

\* The same, for any of its terms.
LEMMA SumWithout ==
  ASSUME NEW f, NEW S, IsFiniteSet(S), \A e \in S : f[e] \in Nat, NEW x \in S
  PROVE  SumFunctionOnSet(f, S) = f[x] + SumFunctionOnSet(f, S \ {x})
<1> DEFINE Bad == {s \in SUBSET S : \E y \in s : SumFunctionOnSet(f, s) # f[y] + SumFunctionOnSet(f, s \ {y})}
<1> SUFFICES ASSUME Bad # {} PROVE FALSE
  OBVIOUS
<1>1. PICK T \in Bad : \A u \in Bad : u \subseteq T => u = T
  <2>1. Bad \in SUBSET (SUBSET S)
    OBVIOUS
  <2> HIDE DEF Bad
  <2> QED BY <2>1, LeastSet
<1>2. PICK y \in T : SumFunctionOnSet(f, T) # f[y] + SumFunctionOnSet(f, T \ {y})
  BY <1>1
<1> DEFINE c == Chosen(T)
<1>3. c \in T
  BY <1>2, ChosenIsThere
<1>4. IsFiniteSet(T) /\ T \subseteq S
  BY <1>1, FS_Subset
<1> HIDE DEF c
<1>5. SumFunctionOnSet(f, T) = f[c] + SumFunctionOnSet(f, T \ {c})
  BY <1>2, <1>4, SumStep DEF c
<1>6. c # y
  BY <1>2, <1>5
<1>7. T \ {c} \notin Bad /\ T \ {y} \notin Bad
  BY <1>1, <1>2, <1>3
<1>8. SumFunctionOnSet(f, T \ {c}) = f[y] + SumFunctionOnSet(f, (T \ {c}) \ {y})
  BY <1>2, <1>4, <1>6, <1>7
<1>9. SumFunctionOnSet(f, T \ {y}) = f[c] + SumFunctionOnSet(f, (T \ {y}) \ {c})
  BY <1>3, <1>4, <1>6, <1>7
<1>10. (T \ {y}) \ {c} = (T \ {c}) \ {y}
  OBVIOUS
<1>11. f[c] \in Nat /\ f[y] \in Nat /\ SumFunctionOnSet(f, (T \ {y}) \ {c}) \in Nat
  <2>1. (T \ {y}) \ {c} \in SUBSET S /\ IsFiniteSet((T \ {y}) \ {c})
    BY <1>4, FS_Subset
  <2>2. SumFunctionOnSet(f, (T \ {y}) \ {c}) \in Nat
    BY <2>1, SumIsNatural
  <2> QED BY <2>2, <1>2, <1>3, <1>4
<1> QED BY <1>2, <1>5, <1>8, <1>9, <1>10, <1>11

\* The sum over two sets that do not meet.
LEMMA SumOfUnion ==
  ASSUME NEW f, NEW S, IsFiniteSet(S), \A e \in S : f[e] \in Nat,
         NEW T, IsFiniteSet(T), \A e \in T : f[e] \in Nat, S \cap T = {}
  PROVE  SumFunctionOnSet(f, S \cup T) = SumFunctionOnSet(f, S) + SumFunctionOnSet(f, T)
<1> DEFINE Bad == {s \in SUBSET T : SumFunctionOnSet(f, S \cup s) # SumFunctionOnSet(f, S) + SumFunctionOnSet(f, s)}
<1> SUFFICES ASSUME Bad # {} PROVE FALSE
  OBVIOUS
<1>1. PICK U \in Bad : \A u \in Bad : u \subseteq U => u = U
  <2>1. Bad \in SUBSET (SUBSET T)
    OBVIOUS
  <2> HIDE DEF Bad
  <2> QED BY <2>1, LeastSet
<1>2. SumFunctionOnSet(f, S) \in Nat
  BY SumIsNatural
<1>3. U # {}
  <2>1. SumFunctionOnSet(f, {}) = 0
    BY SumOfNone
  <2>2. S \cup {} = S
    OBVIOUS
  <2>3. SumFunctionOnSet(f, S \cup {}) = SumFunctionOnSet(f, S) + SumFunctionOnSet(f, {})
    BY <2>1, <2>2, <1>2
  <2>4. {} \notin Bad
    BY <2>3
  <2> QED BY <1>1, <2>4
<1>4. PICK x \in U : TRUE
  BY <1>3
<1>5. U \ {x} \notin Bad
  BY <1>1, <1>4
<1>6. IsFiniteSet(U) /\ IsFiniteSet(U \ {x}) /\ IsFiniteSet(S \cup U)
  BY <1>1, FS_Subset, FS_Union
<1>7. SumFunctionOnSet(f, U) = f[x] + SumFunctionOnSet(f, U \ {x})
  <2>1. \A e \in U : f[e] \in Nat
    BY <1>1
  <2> HIDE DEF Bad
  <2> QED BY <2>1, <1>4, <1>6, SumWithout
<1>8. SumFunctionOnSet(f, S \cup U) = f[x] + SumFunctionOnSet(f, S \cup (U \ {x}))
  <2>1. (S \cup U) \ {x} = S \cup (U \ {x}) /\ (\A e \in S \cup U : f[e] \in Nat) /\ x \in S \cup U
    BY <1>1, <1>4
  <2>2. SumFunctionOnSet(f, S \cup U) = f[x] + SumFunctionOnSet(f, (S \cup U) \ {x})
    <3> DEFINE W == S \cup U
    <3>1. (\A e \in W : f[e] \in Nat) /\ IsFiniteSet(W) /\ x \in W
      BY <2>1, <1>6
    <3>2. SumFunctionOnSet(f, W) = f[x] + SumFunctionOnSet(f, W \ {x})
      <4> HIDE DEF W, Bad
      <4> QED BY <3>1, SumWithout
    <3> QED BY <3>2
  <2> QED BY <2>1, <2>2
<1>9. f[x] \in Nat /\ SumFunctionOnSet(f, U \ {x}) \in Nat
  <2>1. (\A e \in U \ {x} : f[e] \in Nat) /\ f[x] \in Nat
    BY <1>1, <1>4
  <2> QED BY <2>1, <1>6, SumIsNatural
<1>10. SumFunctionOnSet(f, S \cup (U \ {x})) = SumFunctionOnSet(f, S) + SumFunctionOnSet(f, U \ {x})
  BY <1>1, <1>4, <1>5
<1> QED BY <1>1, <1>2, <1>7, <1>8, <1>9, <1>10

\* A sum depends on the terms alone.
LEMMA SumsAgree ==
  ASSUME NEW f, NEW g, NEW S, IsFiniteSet(S), \A s \in S : f[s] = g[s]
  PROVE  SumFunctionOnSet(f, S) = SumFunctionOnSet(g, S)
<1> DEFINE Bad == {s \in SUBSET S : SumFunctionOnSet(f, s) # SumFunctionOnSet(g, s)}
<1> SUFFICES ASSUME Bad # {} PROVE FALSE
  OBVIOUS
<1>1. PICK T \in Bad : \A u \in Bad : u \subseteq T => u = T
  <2>1. Bad \in SUBSET (SUBSET S)
    OBVIOUS
  <2> HIDE DEF Bad
  <2> QED BY <2>1, LeastSet
<1>2. T # {}
  BY <1>1, SumOfNone
<1>3. Chosen(T) \in T /\ IsFiniteSet(T)
  BY <1>1, <1>2, ChosenIsThere, FS_Subset
<1>4. T \ {Chosen(T)} \notin Bad
  BY <1>1, <1>3
<1>5. f[Chosen(T)] = g[Chosen(T)]
  BY <1>1, <1>3
<1> QED BY <1>1, <1>2, <1>3, <1>4, <1>5, SumStep

-----------------------------------------------------------------------------
(***************************************************************************)
(* The energy of neutral particles.  Within a block what has been given    *)
(* out is paid for by the clusters that are locked: a cluster is locked    *)
(* when its energy is used, and an hcal or an ecal is looked at only if it *)
(* is not.                                                                 *)
(***************************************************************************)
Calo == Ecal \cup Hcal

\* Where s has a neutral particle, and what energy its neutral particles have.
NeutralsIn(s) == {i \in DOMAIN s : s[i].kind \in {"photon", "K0"}}

NeutralEnergy(s) == SumFunctionOnSet([i \in NeutralsIn(s) |-> s[i].energy], NeutralsIn(s))

\* The energies of neutral particles can be added up.
Countable(s) == IsSeq(s) /\ \A i \in NeutralsIn(s) : s[i].energy \in Nat

\* s gives at most e more than r.
GivesUpTo(r, s, e) == Countable(s) /\ NeutralEnergy(s) <= NeutralEnergy(r) + e

\* The clusters that have been used.
Spent == Calo \cap (Through \cup (m_locked \cap block.elementIds))

EnergyInv == /\ Countable(m_particles) /\ NeutralEnergy(m_particles) <= Total(Spent)
             /\ step = "hcals" => hcals \cap m_locked = {}

-----------------------------------------------------------------------------
LEMMA FiniteElements ==
  ASSUME NEW S, S \subseteq Element
  PROVE  IsFiniteSet(S)
BY FiniteAssumption, FS_Subset

LEMMA NeutralsAreFinite ==
  ASSUME NEW s, IsSeq(s)
  PROVE  IsFiniteSet(NeutralsIn(s))
<1>1. PICK S : s \in Seq(S)
  BY DEF IsSeq
<1>2. DOMAIN s = 1 .. Len(s) /\ Len(s) \in Nat
  BY <1>1
<1>3. IsFiniteSet(1 .. Len(s))
  BY <1>2, FS_Interval
<1> QED BY <1>2, <1>3, FS_Subset DEF NeutralsIn

LEMMA NeutralEnergyIsNatural ==
  ASSUME NEW s, Countable(s)
  PROVE  NeutralEnergy(s) \in Nat
<1> DEFINE N == NeutralsIn(s)
           f == [i \in N |-> s[i].energy]
<1>1. IsFiniteSet(N) /\ \A i \in N : f[i] \in Nat
  BY NeutralsAreFinite DEF Countable
<1>2. SumFunctionOnSet(f, N) \in Nat
  <2> HIDE DEF N, f
  <2> QED BY <1>1, SumIsNatural
<1> QED BY <1>2 DEF NeutralEnergy

\* The items of joined sequences.
LEMMA JoinedItems ==
  ASSUME NEW s, NEW q, IsSeq(s), IsSeq(q)
  PROVE  /\ Len(s) \in Nat /\ DOMAIN s = 1 .. Len(s)
         /\ Len(q) \in Nat /\ DOMAIN q = 1 .. Len(q)
         /\ DOMAIN (s \o q) = 1 .. (Len(s) + Len(q))
         /\ \A i \in 1 .. (Len(s) + Len(q)) :
               (s \o q)[i] = IF i <= Len(s) THEN s[i] ELSE q[i - Len(s)]
<1>1. PICK S, Q : s \in Seq(S) /\ q \in Seq(Q)
  BY DEF IsSeq
<1>2. s \in Seq(S \cup Q) /\ q \in Seq(S \cup Q)
  BY <1>1
<1> QED BY <1>2

LEMMA JoinedIsAssociative ==
  ASSUME NEW s, NEW q, NEW r, IsSeq(s), IsSeq(q), IsSeq(r)
  PROVE  (s \o q) \o r = s \o (q \o r)
<1>1. PICK A, B, C : s \in Seq(A) /\ q \in Seq(B) /\ r \in Seq(C)
  BY DEF IsSeq
<1>2. s \in Seq(A \cup B \cup C) /\ q \in Seq(A \cup B \cup C) /\ r \in Seq(A \cup B \cup C)
  BY <1>1
<1> QED BY <1>2, ConcatAssociative

\* Charged particles leave the neutral energy as it is.
LEMMA ChargedGiveNothing ==
  ASSUME NEW s, Countable(s), NEW q, IsSeq(q), NeutralsIn(q) = {}
  PROVE  Countable(s \o q) /\ NeutralEnergy(s \o q) = NeutralEnergy(s)
<1>1. IsSeq(s) /\ IsSeq(s \o q)
  BY Joined DEF Countable
<1>2. NeutralsIn(s \o q) \subseteq NeutralsIn(s)
  <2> SUFFICES ASSUME NEW j \in NeutralsIn(s \o q) PROVE j \in NeutralsIn(s)
    OBVIOUS
  <2>1. j \in 1 .. (Len(s) + Len(q)) /\ Len(s) \in Nat /\ Len(q) \in Nat
    BY <1>1, JoinedItems DEF NeutralsIn
  <2>2. CASE j <= Len(s)
    BY <1>1, <2>1, <2>2, JoinedItems DEF NeutralsIn
  <2>3. CASE ~(j <= Len(s))
    <3>1. j - Len(s) \in DOMAIN q /\ (s \o q)[j] = q[j - Len(s)]
      BY <1>1, <2>1, <2>3, JoinedItems
    <3> QED BY <3>1 DEF NeutralsIn
  <2> QED BY <2>2, <2>3
<1>3. \A i \in NeutralsIn(s) : i \in NeutralsIn(s \o q) /\ (s \o q)[i] = s[i]
  BY <1>1, Joined DEF NeutralsIn
<1>4. NeutralsIn(s \o q) = NeutralsIn(s)
  BY <1>2, <1>3
<1>5. [i \in NeutralsIn(s \o q) |-> (s \o q)[i].energy] = [i \in NeutralsIn(s) |-> s[i].energy]
  BY <1>3, <1>4
<1> QED BY <1>1, <1>3, <1>4, <1>5 DEF Countable, NeutralEnergy

LEMMA OneNeutral ==
  ASSUME NEW s, Countable(s), NEW p, p.kind \in {"photon", "K0"}, p.energy \in Nat
  PROVE  Countable(s \o <<p>>) /\ NeutralEnergy(s \o <<p>>) = NeutralEnergy(s) + p.energy
<1> DEFINE q == <<p>>
           r == s \o q
           n == Len(s) + 1
           N == NeutralsIn(s)
           R == NeutralsIn(r)
           f == [i \in N |-> s[i].energy]
           g == [i \in R |-> r[i].energy]
<1>1. q \in Seq({p}) /\ Len(q) = 1 /\ DOMAIN q = {1} /\ q[1] = p
  OBVIOUS
<1> HIDE DEF q
<1>2. IsSeq(s) /\ IsSeq(q) /\ IsSeq(r)
  BY <1>1, Joined DEF Countable, IsSeq
<1>3. /\ Len(s) \in Nat /\ DOMAIN s = 1 .. Len(s) /\ DOMAIN r = 1 .. n
      /\ r[n] = p /\ \A i \in DOMAIN s : r[i] = s[i]
  <2>1. /\ Len(s) \in Nat /\ DOMAIN s = 1 .. Len(s) /\ DOMAIN r = 1 .. (Len(s) + Len(q))
        /\ \A i \in 1 .. (Len(s) + Len(q)) : r[i] = IF i <= Len(s) THEN s[i] ELSE q[i - Len(s)]
    BY <1>2, JoinedItems
  <2> HIDE DEF r
  <2> QED BY <1>1, <2>1
<1> HIDE DEF r
<1>4. R = N \cup {n} /\ n \notin N
  BY <1>3 DEF NeutralsIn
<1>5. /\ \A i \in N : g[i] = f[i] /\ g[i] \in Nat
      /\ g[n] = p.energy /\ g[n] \in Nat /\ \A i \in R : r[i].energy \in Nat /\ g[i] \in Nat
  <2>1. \A i \in N : i \in DOMAIN s /\ r[i] = s[i] /\ s[i].energy \in Nat
    BY <1>3 DEF NeutralsIn, Countable
  <2> HIDE DEF N, R
  <2> QED BY <2>1, <1>3, <1>4
<1>6. IsFiniteSet(N) /\ IsFiniteSet(R)
  BY <1>2, NeutralsAreFinite
<1> HIDE DEF N, R, f, g, n
<1>7. SumFunctionOnSet(g, R) = g[n] + SumFunctionOnSet(g, R \ {n})
  <2>1. n \in R /\ \A e \in R : g[e] \in Nat
    BY <1>4, <1>5
  <2> QED BY <2>1, <1>6, SumWithout
<1>8. R \ {n} = N
  BY <1>4
<1>9. SumFunctionOnSet(g, N) = SumFunctionOnSet(f, N)
  BY <1>5, <1>6, SumsAgree
<1>10. SumFunctionOnSet(f, N) \in Nat
  <2>1. \A i \in N : f[i] \in Nat
    BY <1>5
  <2> QED BY <2>1, <1>6, SumIsNatural
<1>11. NeutralEnergy(r) = NeutralEnergy(s) + p.energy
  <2>1. NeutralEnergy(r) = SumFunctionOnSet(g, R) /\ NeutralEnergy(s) = SumFunctionOnSet(f, N)
    BY DEF NeutralEnergy, g, R, f, N
  <2>2. NeutralEnergy(r) = p.energy + NeutralEnergy(s)
    BY <2>1, <1>5, <1>7, <1>8, <1>9
  <2>3. NeutralEnergy(s) \in Nat
    BY <2>1, <1>10
  <2> QED BY <2>2, <2>3
<1>12. Countable(r)
  BY <1>2, <1>5 DEF Countable, R
<1> QED BY <1>11, <1>12 DEF r, q

\* A neutral particle gives its energy, or nothing if it is too soft.
LEMMA NeutralGives ==
  ASSUME NEW s, Countable(s), NEW kind \in {"photon", "K0"}, NEW e \in Nat, NEW parents
  PROVE  GivesUpTo(s, s \o Neutral(kind, e, parents), e)
<1>1. NeutralEnergy(s) \in Nat
  BY NeutralEnergyIsNatural
<1>2. CASE TooSoft(kind, e)
  <2>1. Neutral(kind, e, parents) = <<>> /\ IsSeq(<<>>) /\ NeutralsIn(<<>>) = {}
    BY <1>2 DEF Neutral, IsSeq, NeutralsIn
  <2>2. Countable(s \o <<>>) /\ NeutralEnergy(s \o <<>>) = NeutralEnergy(s)
    BY <2>1, ChargedGiveNothing
  <2> QED BY <1>1, <2>1, <2>2 DEF GivesUpTo
<1>3. CASE ~TooSoft(kind, e)
  <2> DEFINE p == Particle(kind, e, parents)
  <2>1. Neutral(kind, e, parents) = <<p>>
    BY <1>3 DEF Neutral
  <2>2. p.kind \in {"photon", "K0"} /\ p.energy = e
    BY DEF Particle
  <2> HIDE DEF p
  <2>3. Countable(s \o <<p>>) /\ NeutralEnergy(s \o <<p>>) = NeutralEnergy(s) + e
    BY <2>2, OneNeutral
  <2> QED BY <1>1, <2>1, <2>3 DEF GivesUpTo
<1> QED BY <1>2, <1>3

LEMMA ChargedAreCharged ==
  ASSUME NEW ordered, NEW kind \in ChargedKinds, NEW parents, NEW T, ordered \in Seq(T)
  PROVE  IsSeq(Charged(ordered, kind, parents)) /\ NeutralsIn(Charged(ordered, kind, parents)) = {}
<1> DEFINE q == Charged(ordered, kind, parents)
<1>1. DOMAIN q = 1 .. Len(ordered) /\ Len(ordered) \in Nat /\ q = [i \in 1 .. Len(ordered) |-> q[i]]
  BY DEF Charged
<1>2. q \in Seq({q[i] : i \in DOMAIN q})
  BY <1>1
<1>3. \A i \in DOMAIN q : q[i].kind = kind
  BY DEF Charged, Particle
<1> QED BY <1>2, <1>3 DEF IsSeq, NeutralsIn, ChargedKinds

-----------------------------------------------------------------------------
\* The energies of elements add up.
LEMMA TotalIsNatural ==
  ASSUME Inputs, NEW S, S \subseteq Element
  PROVE  Total(S) \in Nat
<1>1. IsFiniteSet(S) /\ \A e \in S : energy[e] \in Nat
  BY FiniteElements, EnergyAssumption DEF Inputs
<1> QED BY <1>1, SumIsNatural DEF Total

LEMMA TotalOfUnion ==
  ASSUME Inputs, NEW S, S \subseteq Element, NEW T, T \subseteq Element, S \cap T = {}
  PROVE  Total(S \cup T) = Total(S) + Total(T)
<1>1. /\ IsFiniteSet(S) /\ \A e \in S : energy[e] \in Nat
      /\ IsFiniteSet(T) /\ \A e \in T : energy[e] \in Nat
  BY FiniteElements, EnergyAssumption DEF Inputs
<1> QED BY <1>1, SumOfUnion DEF Total

LEMMA TotalGrows ==
  ASSUME Inputs, NEW T, T \subseteq Element, NEW S, S \subseteq T
  PROVE  Total(S) <= Total(T)
<1> DEFINE R == T \ S
<1>1. S \cup R = T /\ S \cap R = {} /\ R \subseteq Element /\ S \subseteq Element
  OBVIOUS
<1> HIDE DEF R
<1>2. Total(S \cup R) = Total(S) + Total(R)
  BY <1>1, TotalOfUnion
<1>3. Total(S) \in Nat /\ Total(R) \in Nat
  BY <1>1, TotalIsNatural
<1>4. Total(T) = Total(S) + Total(R)
  BY <1>1, <1>2, Zenon
<1> QED BY <1>3, <1>4

LEMMA TotalOfOne ==
  ASSUME Inputs, NEW x \in Element
  PROVE  Total({x}) = energy[x] /\ energy[x] \in Nat
<1>1. IsFiniteSet({x}) /\ energy[x] \in Nat /\ {x} \ {x} = {}
  BY FS_Singleton, EnergyAssumption DEF Inputs
<1>2. SumFunctionOnSet(energy, {x}) = energy[x] + SumFunctionOnSet(energy, {x} \ {x})
  BY <1>1, SumWithout
<1> QED BY <1>1, <1>2, SumOfNone DEF Total

LEMMA TotalOfNone == Total({}) = 0
BY SumOfNone DEF Total

-----------------------------------------------------------------------------
\* The clusters used after a step within a block.
LEMMA SpentWithin ==
  ASSUME RecInv, Within
  PROVE  /\ Spent' = Calo \cap (Through \cup (m_locked' \cap block.elementIds))
         /\ \A S : Total(S)' = SumFunctionOnSet(energy, S')
         /\ Spent \subseteq Element /\ Spent' \subseteq Element
         /\ Inputs
<1>1. Through' = Through /\ block' = block /\ energy' = energy
  BY WithinKeeps DEF Within
<1> QED BY <1>1 DEF Spent, Total, Calo, Element, RecInv, StepInv

\* Tracks give charged particles only, and no cluster is given back.
LEMMA ChargedKeepEnergy ==
  ASSUME RecInv, EnergyInv, Within, NEW q, IsSeq(q), NeutralsIn(q) = {},
         m_particles' = m_particles \o q, m_locked \subseteq m_locked'
  PROVE  Countable(m_particles') /\ NeutralEnergy(m_particles') <= Total(Spent)'
<1>1. Countable(m_particles') /\ NeutralEnergy(m_particles') = NeutralEnergy(m_particles)
  BY ChargedGiveNothing DEF EnergyInv
<1>2. Spent \subseteq Spent' /\ Spent' \subseteq Element /\ Inputs
  BY SpentWithin DEF Spent
<1>3. Total(Spent)' = SumFunctionOnSet(energy, Spent')
  BY SpentWithin DEF Total, Within
<1> DEFINE T == Spent'
<1>4. Total(Spent) <= Total(T) /\ Total(Spent) \in Nat /\ Total(T) \in Nat
  BY <1>2, TotalGrows, TotalIsNatural, SpentWithin
<1>5. Total(T) = Total(Spent)'
  BY <1>3 DEF Total
<1>6. NeutralEnergy(m_particles) \in Nat
  BY NeutralEnergyIsNatural DEF EnergyInv
<1> QED BY <1>1, <1>4, <1>5, <1>6 DEF EnergyInv

LEMMA LeptonsKeepEnergy ==
  ASSUME RecInv, EnergyInv, reconstructMuons \/ reconstructElectrons
  PROVE  EnergyInv'
<1>1. Within /\ step' # "muons"
  BY DEF reconstructMuons, reconstructElectrons, Within, Steps
<1>2. PICK kind \in ChargedKinds : Leptons(kind)
  BY DEF reconstructMuons, reconstructElectrons, ChargedKinds
<1>3. PICK ordered \in ByEnergy(From(kind) \ m_locked) :
         m_particles' = m_particles \o Charged(ordered, kind, Itself)
  BY <1>2 DEF Leptons
<1>4. ordered \in Seq(From(kind) \ m_locked)
  BY OrderedTracks DEF From
<1>5. /\ IsSeq(Charged(ordered, kind, Itself)) /\ NeutralsIn(Charged(ordered, kind, Itself)) = {}
      /\ m_locked \subseteq m_locked'
  BY <1>2, <1>4, ChargedAreCharged DEF Leptons
<1>6. Countable(m_particles') /\ NeutralEnergy(m_particles') <= Total(Spent)'
  BY <1>1, <1>3, <1>5, ChargedKeepEnergy
<1>7. step' = "hcals" => hcals' \cap m_locked' = {}
  BY DEF reconstructMuons, reconstructElectrons
<1> QED BY <1>6, <1>7 DEF EnergyInv

LEMMA TracksKeepEnergy ==
  ASSUME RecInv, EnergyInv, reconstructTracks
  PROVE  EnergyInv'
<1> DEFINE T == (Track \cap block.elementIds) \ m_locked
<1>1. Within /\ step' = "rest"
  BY DEF reconstructTracks, Within, Steps
<1>2. PICK ordered \in ByEnergy(T) : m_particles' = m_particles \o Charged(ordered, "hadron", Itself)
  BY DEF reconstructTracks
<1>3. ordered \in Seq(T)
  BY OrderedTracks
<1>4. /\ IsSeq(Charged(ordered, "hadron", Itself)) /\ NeutralsIn(Charged(ordered, "hadron", Itself)) = {}
      /\ m_locked \subseteq m_locked'
  BY <1>3, ChargedAreCharged DEF reconstructTracks, ChargedKinds
<1>5. Countable(m_particles') /\ NeutralEnergy(m_particles') <= Total(Spent)'
  BY <1>1, <1>2, <1>4, ChargedKeepEnergy
<1> QED BY <1>1, <1>5 DEF EnergyInv

\* What is added is paid for with clusters not used before.
LEMMA PaidFor ==
  ASSUME RecInv, EnergyInv, Within, NEW e \in Nat, GivesUpTo(m_particles, m_particles', e),
         NEW C, C \subseteq Calo \cap block.elementIds, C \cap m_locked = {}, e <= Total(C),
         m_locked' \cap Calo \cap block.elementIds = (m_locked \cap Calo \cap block.elementIds) \cup C
  PROVE  Countable(m_particles') /\ NeutralEnergy(m_particles') <= Total(Spent)'
<1>1. Through \cap block.elementIds = {} /\ block.elementIds \subseteq Element
  BY CurrentBlock DEF Within
<1>2. /\ Spent' = Spent \cup C /\ Spent \cap C = {}
      /\ Spent \subseteq Element /\ C \subseteq Element /\ Inputs
  BY <1>1, SpentWithin DEF Spent
<1>3. Total(Spent)' = SumFunctionOnSet(energy, Spent')
  BY SpentWithin DEF Total, Within
<1>4. Total(Spent \cup C) = Total(Spent) + Total(C)
  BY <1>2, TotalOfUnion
<1>5. Total(Spent)' = Total(Spent \cup C)
  BY <1>2, <1>3 DEF Total
<1>6. /\ Total(Spent) \in Nat /\ Total(C) \in Nat /\ NeutralEnergy(m_particles) \in Nat
      /\ NeutralEnergy(m_particles') \in Nat
  BY <1>2, TotalIsNatural, NeutralEnergyIsNatural DEF EnergyInv, GivesUpTo
<1> QED BY <1>4, <1>5, <1>6 DEF EnergyInv, GivesUpTo

LEMMA AloneKeepsEnergy ==
  ASSUME RecInv, EnergyInv, reconstructAlone
  PROVE  EnergyInv'
<1>1. Within /\ step = "alone" /\ step' = "rest"
  BY DEF reconstructAlone, Within, Steps
<1>2. PICK id \in uids :
       /\ m_particles' = m_particles \o
            CASE id \in Ecal  -> Neutral("photon", energy[id], {id})
              [] id \in Hcal  -> Neutral("K0", energy[id], {id})
              [] id \in Track -> Charged(<<id>>, "hadron", Itself)
       /\ m_locked' = IF id \in Hcal /\ TooSoft("K0", energy[id]) THEN m_locked
                      ELSE m_locked \cup {id}
  BY DEF reconstructAlone
<1>3. id \in block.elementIds /\ id \notin m_locked
  BY <1>1 DEF RecInv, LockInv
<1>4. id \in Element
  BY <1>1, <1>3, CurrentBlock
<1>5. CASE id \in Track
  <2>1. m_particles' = m_particles \o Charged(<<id>>, "hadron", Itself) /\ m_locked \subseteq m_locked'
    BY <1>2, <1>5, ElementAssumption
  <2>2. <<id>> \in Seq({id})
    OBVIOUS
  <2>3. /\ IsSeq(Charged(<<id>>, "hadron", Itself))
        /\ NeutralsIn(Charged(<<id>>, "hadron", Itself)) = {}
    BY <2>2, ChargedAreCharged DEF ChargedKinds
  <2>4. Countable(m_particles') /\ NeutralEnergy(m_particles') <= Total(Spent)'
    BY <1>1, <2>1, <2>3, ChargedKeepEnergy
  <2> QED BY <1>1, <2>4 DEF EnergyInv
<1>6. CASE id \notin Track
  <2>1. id \in Calo
    BY <1>4, <1>6 DEF Element, Calo
  <2>2. Total({id}) = energy[id] /\ energy[id] \in Nat
    BY <1>1, <1>4, SpentWithin, TotalOfOne
  <2>3. PICK kind \in {"photon", "K0"} :
           /\ m_particles' = m_particles \o Neutral(kind, energy[id], {id})
           /\ kind = "K0" <=> id \in Hcal
    <3>1. CASE id \in Ecal
      <4>1. id \notin Hcal /\ m_particles' = m_particles \o Neutral("photon", energy[id], {id})
        BY <1>2, <1>6, <3>1, ElementAssumption
      <4> QED BY <4>1
    <3>2. CASE id \in Hcal
      <4>1. m_particles' = m_particles \o Neutral("K0", energy[id], {id})
        BY <1>2, <1>6, <3>2, ElementAssumption
      <4> QED BY <3>2, <4>1
    <3> QED BY <2>1, <3>1, <3>2 DEF Calo
  <2>4. CASE TooSoft(kind, energy[id])
    <3>1. Neutral(kind, energy[id], {id}) = <<>> /\ m_locked' = m_locked
      BY <1>2, <2>3, <2>4 DEF Neutral, TooSoft
    <3>2. IsSeq(<<>>) /\ NeutralsIn(<<>>) = {}
      BY DEF IsSeq, NeutralsIn
    <3>3. m_particles' = m_particles \o <<>>
      BY <2>3, <3>1
    <3>4. Countable(m_particles') /\ NeutralEnergy(m_particles') <= Total(Spent)'
      BY <1>1, <3>1, <3>2, <3>3, ChargedKeepEnergy
    <3> QED BY <1>1, <3>4 DEF EnergyInv
  <2>5. CASE ~TooSoft(kind, energy[id])
    <3>1. m_locked' = m_locked \cup {id}
      BY <1>2, <2>3, <2>5 DEF TooSoft
    <3>2. GivesUpTo(m_particles, m_particles', energy[id])
      BY <2>2, <2>3, NeutralGives DEF EnergyInv
    <3>3. /\ {id} \subseteq Calo \cap block.elementIds /\ {id} \cap m_locked = {}
          /\ energy[id] <= Total({id})
          /\ m_locked' \cap Calo \cap block.elementIds = (m_locked \cap Calo \cap block.elementIds) \cup {id}
      BY <1>3, <2>1, <2>2, <3>1
    <3>4. Countable(m_particles') /\ NeutralEnergy(m_particles') <= Total(Spent)'
      BY <1>1, <2>2, <3>2, <3>3, PaidFor
    <3> QED BY <1>1, <3>4 DEF EnergyInv
  <2> QED BY <2>4, <2>5
<1> QED BY <1>5, <1>6

\* What an hcal with its tracks and their ecals gives is what they have.
LEMMA ExcessIsPaidFor ==
  ASSUME RecInv, Within, NEW h \in Hcal, h \in block.elementIds, Excess(h) > 0,
         NEW s, Countable(s)
  PROVE  GivesUpTo(s, s \o NeutralsFromExcess(h), energy[h] + Total(EcalsOfTracks(h)))
<1> DEFINE ecals == EcalsOfTracks(h)
           e == Total(ecals)
           t == Total(TracksOf(h, block))
           P == Neutral("photon", e, ecals)
           K == Neutral("K0", Excess(h) - e, {h})
<1>1. Inputs /\ h \in Element /\ ecals \subseteq Element /\ TracksOf(h, block) \subseteq Element
  BY SpentWithin DEF Element, EcalsOfTracks, EcalsOf, TracksOf
<1>2. e \in Nat /\ t \in Nat /\ energy[h] \in Nat
  BY <1>1, TotalIsNatural, TotalOfOne
<1>3. Excess(h) = energy[h] + e - t
  BY DEF Excess
<1> HIDE DEF e, t
<1>4. Excess(h) \in Nat /\ Excess(h) <= energy[h] + e
  BY <1>2, <1>3
<1>5. NeutralEnergy(s) \in Nat
  BY NeutralEnergyIsNatural
<1>6. CASE Excess(h) <= e
  <2> DEFINE A == Neutral("photon", Excess(h), ecals)
  <2>1. NeutralsFromExcess(h) = A
    BY <1>6 DEF NeutralsFromExcess, e
  <2>2. GivesUpTo(s, s \o A, Excess(h))
    BY <1>4, NeutralGives
  <2>3. NeutralEnergy(s \o A) \in Nat
    BY <2>2, NeutralEnergyIsNatural DEF GivesUpTo
  <2> HIDE DEF A
  <2>4. GivesUpTo(s, s \o A, energy[h] + e)
    BY <1>2, <1>4, <1>5, <2>2, <2>3 DEF GivesUpTo
  <2> QED BY <2>1, <2>4 DEF e
<1>7. CASE ~(Excess(h) <= e)
  <2>1. Excess(h) - e \in Nat /\ Excess(h) - e <= energy[h]
    BY <1>2, <1>4, <1>7
  <2>2. GivesUpTo(s, s \o K, Excess(h) - e)
    BY <2>1, NeutralGives
  <2>3. Countable(s \o K) /\ NeutralEnergy(s \o K) <= NeutralEnergy(s) + (Excess(h) - e)
    BY <2>2 DEF GivesUpTo
  <2>4. NeutralEnergy(s \o K) \in Nat
    BY <2>3, NeutralEnergyIsNatural
  <2>5. CASE ecals = {}
    <3>1. NeutralsFromExcess(h) = K \o <<>>
      BY <1>7, <2>5 DEF NeutralsFromExcess, e
    <3>2. K \o <<>> = K
      <4>1. IsSeq(K)
        BY NeutralMakesNone DEF Makes
      <4> HIDE DEF K
      <4>2. PICK S : K \in Seq(S)
        BY <4>1 DEF IsSeq
      <4> QED BY <4>2
    <3> HIDE DEF K
    <3>3. NeutralEnergy(s \o K) <= NeutralEnergy(s) + (energy[h] + e)
      BY <1>2, <1>4, <1>5, <2>1, <2>3, <2>4
    <3> QED BY <2>3, <3>1, <3>2, <3>3 DEF GivesUpTo, e
  <2>6. CASE ecals # {}
    <3>1. NeutralsFromExcess(h) = K \o P
      BY <1>7, <2>6 DEF NeutralsFromExcess, e
    <3>2. GivesUpTo(s \o K, (s \o K) \o P, e)
      <4> HIDE DEF K
      <4> QED BY <1>2, <2>3, NeutralGives
    <3>3. (s \o K) \o P = s \o (K \o P)
      <4>1. IsSeq(s) /\ IsSeq(K) /\ IsSeq(P)
        BY NeutralMakesNone DEF Makes, Countable
      <4> HIDE DEF K, P
      <4> QED BY <4>1, JoinedIsAssociative
    <3> HIDE DEF K, P
    <3>4. NeutralEnergy((s \o K) \o P) \in Nat
      BY <3>2, NeutralEnergyIsNatural DEF GivesUpTo
    <3>5. GivesUpTo(s, (s \o K) \o P, energy[h] + e)
      BY <1>2, <1>4, <1>5, <2>1, <2>3, <2>4, <3>2, <3>4 DEF GivesUpTo
    <3> QED BY <3>1, <3>3, <3>5 DEF e
  <2> QED BY <2>5, <2>6
<1> QED BY <1>6, <1>7

LEMMA HcalKeepsEnergy ==
  ASSUME RecInv, EnergyInv, NEW h \in hcals, NEW significant \in BOOLEAN,
         reconstructHcal(h, significant)
  PROVE  EnergyInv'
<1>1. Within /\ step = "hcals" /\ step' = "hcals"
  BY DEF reconstructHcal, Within, Steps
<1>2. h \in Hcal /\ h \in block.elementIds /\ h \notin m_locked
  BY <1>1 DEF RecInv, LockInv, EnergyInv
<1>3. m_locked' = m_locked \cup LockedBy(h) /\ hcals' = hcals \ {h}
  BY DEF reconstructHcal
<1> DEFINE neutrals == IF TracksOf(h, block) = {} THEN Neutral("K0", energy[h], {h})
                       ELSE IF significant THEN NeutralsFromExcess(h) ELSE <<>>
           ecals == EcalsOfTracks(h)
           C == {h} \cup ecals
           e == energy[h] + Total(ecals)
<1>4. PICK ordered \in ByEnergy(TracksToMake(h)) :
         m_particles' = m_particles \o Charged(ordered, "hadron", WithLinks) \o neutrals
  BY DEF reconstructHcal
<1> DEFINE s == m_particles \o Charged(ordered, "hadron", WithLinks)
<1>5. Countable(s) /\ NeutralEnergy(s) = NeutralEnergy(m_particles)
  <2>1. ordered \in Seq(TracksToMake(h))
    BY OrderedTracks DEF TracksToMake, TracksOf
  <2>2. /\ IsSeq(Charged(ordered, "hadron", WithLinks))
        /\ NeutralsIn(Charged(ordered, "hadron", WithLinks)) = {}
    BY <2>1, ChargedAreCharged DEF ChargedKinds
  <2> QED BY <2>2, ChargedGiveNothing DEF EnergyInv
<1>6. /\ ecals \subseteq Ecal \cap block.elementIds /\ ecals \cap m_locked = {}
      /\ ecals \subseteq Element /\ h \in Element /\ Inputs /\ h \notin ecals
  <2>1. ecals \subseteq Ecal \cap block.elementIds /\ ecals \cap m_locked = {}
    BY <1>1, FromTheBlock DEF EcalsOfTracks
  <2> QED BY <1>1, <1>2, <2>1, SpentWithin, ElementAssumption DEF Element
<1>7. energy[h] \in Nat /\ Total({h}) = energy[h] /\ Total(ecals) \in Nat
  BY <1>6, TotalOfOne, TotalIsNatural
<1>8. Total(C) = e /\ e \in Nat
  <2>1. Total({h} \cup ecals) = Total({h}) + Total(ecals)
    <3> HIDE DEF ecals
    <3> QED BY <1>6, TotalOfUnion
  <2> QED BY <1>7, <2>1
<1>9. GivesUpTo(s, s \o neutrals, e)
  <2> HIDE DEF s
  <2>1. CASE TracksOf(h, block) = {}
    <3>1. neutrals = Neutral("K0", energy[h], {h})
      BY <2>1
    <3>2. GivesUpTo(s, s \o neutrals, energy[h])
      BY <1>5, <1>7, <3>1, NeutralGives
    <3> HIDE DEF neutrals
    <3>3. NeutralEnergy(s) \in Nat /\ NeutralEnergy(s \o neutrals) \in Nat
      BY <1>5, <3>2, NeutralEnergyIsNatural DEF GivesUpTo
    <3> QED BY <1>7, <3>2, <3>3 DEF GivesUpTo
  <2>2. CASE TracksOf(h, block) # {} /\ significant
    <3>1. neutrals = NeutralsFromExcess(h) /\ Excess(h) > 0
      BY <2>2 DEF reconstructHcal
    <3> QED BY <1>1, <1>2, <1>5, <3>1, ExcessIsPaidFor
  <2>3. CASE TracksOf(h, block) # {} /\ ~significant
    <3>1. neutrals = <<>>
      BY <2>3
    <3>2. IsSeq(<<>>) /\ NeutralsIn(<<>>) = {}
      BY DEF IsSeq, NeutralsIn
    <3>3. Countable(s \o <<>>) /\ NeutralEnergy(s \o <<>>) = NeutralEnergy(s)
      BY <1>5, <3>2, ChargedGiveNothing
    <3>4. NeutralEnergy(s) \in Nat
      BY <1>5, NeutralEnergyIsNatural
    <3>5. GivesUpTo(s, s \o <<>>, e)
      <4> HIDE DEF e
      <4> QED BY <1>8, <3>3, <3>4 DEF GivesUpTo
    <3> QED BY <3>1, <3>5
  <2> QED BY <2>1, <2>2, <2>3
<1>10. GivesUpTo(m_particles, m_particles', e)
  BY <1>4, <1>5, <1>9 DEF GivesUpTo
<1>11. /\ C \subseteq Calo \cap block.elementIds /\ C \cap m_locked = {} /\ e <= Total(C)
       /\ m_locked' \cap Calo \cap block.elementIds = (m_locked \cap Calo \cap block.elementIds) \cup C
  <2>1. TracksOf(h, block) \cap Calo = {}
    BY ElementAssumption DEF TracksOf, Calo
  <2>2. m_locked' = m_locked \cup TracksOf(h, block) \cup C
    BY <1>3 DEF LockedBy
  <2>3. C \subseteq Calo \cap block.elementIds /\ C \cap m_locked = {}
    BY <1>2, <1>6 DEF Calo
  <2> HIDE DEF C
  <2> QED BY <1>8, <2>1, <2>2, <2>3
<1>12. Countable(m_particles') /\ NeutralEnergy(m_particles') <= Total(Spent)'
  <2> HIDE DEF C, e
  <2> QED BY <1>1, <1>8, <1>10, <1>11, PaidFor
<1>13. hcals' \cap m_locked' = {}
  <2>1. hcals \cap m_locked = {} /\ hcals \subseteq Hcal
    BY <1>1 DEF EnergyInv, RecInv, LockInv
  <2>2. (TracksOf(h, block) \cup ecals) \cap Hcal = {}
    BY <1>6, ElementAssumption DEF TracksOf
  <2> QED BY <1>3, <2>1, <2>2 DEF LockedBy
<1> QED BY <1>12, <1>13 DEF EnergyInv

LEMMA HcalsDoneKeepsEnergy ==
  ASSUME RecInv, EnergyInv, HcalsDone
  PROVE  EnergyInv'
<1>1. Within /\ step' = "tracks" /\ m_particles' = m_particles /\ m_locked' = m_locked
  BY DEF HcalsDone, Within, Steps
<1>2. Spent' = Spent /\ energy' = energy
  BY <1>1, SpentWithin DEF Spent, Within
<1> QED BY <1>1, <1>2 DEF EnergyInv, Total

\* The steps between blocks neither make particles nor give clusters back.
LEMMA BetweenKeepsEnergy ==
  ASSUME RecInv, EnergyInv, energy' = energy, m_particles' = m_particles, step' # "hcals",
         Spent \subseteq Spent', Spent' \subseteq Element
  PROVE  EnergyInv'
<1> DEFINE T == Spent'
<1>1. Inputs
  BY DEF RecInv, StepInv
<1>2. Total(Spent) <= Total(T) /\ Total(Spent) \in Nat /\ Total(T) \in Nat
  BY <1>1, TotalGrows, TotalIsNatural
<1>3. Total(Spent)' = Total(T)
  BY DEF Total
<1>4. NeutralEnergy(m_particles) \in Nat
  BY NeutralEnergyIsNatural DEF EnergyInv
<1>5. NeutralEnergy(m_particles) <= Total(Spent)'
  BY <1>2, <1>3, <1>4 DEF EnergyInv
<1> QED BY <1>5 DEF EnergyInv

LEMMA SpentAreElements == Spent \subseteq Element
BY DEF Spent, Calo, Element

LEMMA BeginKeepsEnergy == ASSUME RecInv, EnergyInv, BeginReconstruction PROVE EnergyInv'
<1>1. Spent = {}
  BY DEF BeginReconstruction, RecInv, StepInv, Spent, Through, NoBlock
<1>2. energy' = energy /\ m_particles' = m_particles /\ step' # "hcals"
  BY DEF BeginReconstruction
<1>3. Spent' \subseteq Element
  BY DEF Spent, Calo, Element
<1> QED BY <1>1, <1>2, <1>3, BetweenKeepsEnergy

LEMMA BlockKeepsEnergy ==
  ASSUME RecInv, EnergyInv, NEW b \in queue, reconstructBlock(b)
  PROVE  EnergyInv'
<1> USE DEF reconstructBlock
<1>1. /\ step = "next" /\ block = NoBlock /\ b \in simplified /\ simplified' = simplified
      /\ queue' = queue \ {b} /\ block' = b /\ step' = "muons"
  BY DEF RecInv, StepInv, blockVars
<1>2. simplified \ (queue \cup {NoBlock}) = simplified \ ((queue \ {b}) \cup {b})
  BY <1>1, SimplifiedIsNoBlock
<1>3. Through' = Through /\ NoBlock.elementIds = {}
  BY <1>1, <1>2 DEF Through, NoBlock
<1>4. Spent \subseteq Spent' /\ Spent' \subseteq Element
  BY <1>1, <1>3 DEF Spent, Calo, Element
<1> QED BY <1>1, <1>4, BetweenKeepsEnergy

LEMMA FinishKeepsEnergy == ASSUME RecInv, EnergyInv, FinishBlock PROVE EnergyInv'
<1> USE DEF FinishBlock
<1>1. /\ step = "rest" /\ block' = NoBlock /\ step' = "next"
      /\ simplified' = simplified /\ queue' = queue
  BY DEF blockVars
<1>2. block \in simplified \ queue
  BY <1>1, CurrentBlock
<1>3. simplified \ (queue \cup {NoBlock}) = (simplified \ (queue \cup {block})) \cup {block}
  BY <1>2, SimplifiedIsNoBlock
<1>4. Through' = Through \cup block.elementIds
  BY <1>1, <1>3 DEF Through
<1>5. Spent \subseteq Spent' /\ Spent' \subseteq Element
  BY <1>4 DEF Spent, Calo, Element
<1> QED BY <1>1, <1>5, BetweenKeepsEnergy

LEMMA BlocksKeepEnergy ==
  ASSUME RecInv, EnergyInv, [Next]_blockVars, UNCHANGED recVars
  PROVE  EnergyInv'
<1> USE DEF recVars
<1>1. CASE UNCHANGED blockVars
  <2>1. Spent' = Spent
    BY <1>1 DEF blockVars, Spent, Through
  <2> QED BY <2>1 DEF EnergyInv, Total
<1>2. CASE phase # "done"
  <2>1. step = "begin"
    BY <1>2 DEF RecInv, StepInv
  <2>2. Spent' = Spent
    BY <2>1 DEF RecInv, StepInv, Spent, Through
  <2> QED BY <2>2 DEF EnergyInv, Total
<1>3. phase # "done" \/ UNCHANGED blockVars
  BY DEF Next, buildPFBlocks, simplifyPFBlock, simplifyPFBlocksEnds
<1> QED BY <1>1, <1>2, <1>3

LEMMA EnergyNext == RecInv /\ EnergyInv /\ [RecNext]_vars => EnergyInv'
<1> SUFFICES ASSUME RecInv, EnergyInv, [RecNext]_vars PROVE EnergyInv'
  OBVIOUS
<1>1. CASE RecStep
  BY <1>1, BeginKeepsEnergy, BlockKeepsEnergy, LeptonsKeepEnergy, AloneKeepsEnergy, HcalKeepsEnergy,
     HcalsDoneKeepsEnergy, TracksKeepEnergy, FinishKeepsEnergy DEF RecStep
<1>2. CASE Next /\ UNCHANGED recVars
  BY <1>2, BlocksKeepEnergy
<1>3. CASE UNCHANGED vars
  BY <1>3, BlocksKeepEnergy DEF vars
<1> QED BY <1>1, <1>2, <1>3 DEF RecNext

LEMMA EnergyInit == RecInit => EnergyInv
<1> SUFFICES ASSUME RecInit PROVE EnergyInv
  OBVIOUS
<1> USE DEF RecInit
<1>1. Spent = {} /\ NeutralsIn(<<>>) = {} /\ IsSeq(<<>>)
  BY DEF Spent, Through, NoBlock, NeutralsIn, IsSeq
<1>2. NeutralEnergy(<<>>) = 0
  BY <1>1, SumOfNone DEF NeutralEnergy
<1>3. Total(Spent) = 0
  BY <1>1, TotalOfNone
<1> QED BY <1>1, <1>2, <1>3 DEF EnergyInv, Countable

(***************************************************************************)
(* The photons and neutral hadrons have no more energy than the clusters   *)
(* of the blocks that are through: no cluster pays twice.                  *)
(***************************************************************************)
THEOREM NeutralsAreOfClusters == RecSpec => []NeutralEnergyIsOfClusters
<1>1. RecInv /\ EnergyInv => NeutralEnergyIsOfClusters
  <2> SUFFICES ASSUME RecInv, EnergyInv, step = "next"
               PROVE  NeutralEnergy(m_particles) <= Total(Through \cap (Ecal \cup Hcal))
    BY DEF NeutralEnergyIsOfClusters, NeutralEnergy, NeutralsIn
  <2>1. block.elementIds = {}
    BY DEF RecInv, StepInv, NoBlock
  <2>2. Spent = Through \cap (Ecal \cup Hcal)
    BY <2>1 DEF Spent, Calo
  <2> QED BY <2>2 DEF EnergyInv
<1>2. RecInit => RecInv /\ EnergyInv
  BY RecInitInv, EnergyInit
<1>3. RecInv /\ EnergyInv /\ [RecNext]_vars => RecInv' /\ EnergyInv'
  BY RecNextKeeps, EnergyNext
<1> QED BY <1>1, <1>2, <1>3, PTL DEF RecSpec
-----------------------------------------------------------------------------
(***************************************************************************)
(* Merged clusters.                                                        *)
(***************************************************************************)
\* Of the terms of a finite set one is least.
LEMMA LeastTerm ==
  ASSUME NEW S, IsFiniteSet(S), S # {}, NEW f, \A x \in S : f[x] \in Int
  PROVE  \E x \in S : \A y \in S : f[x] <= f[y]
<1> DEFINE Bad == {s \in SUBSET S : s # {} /\ ~ \E x \in s : \A y \in s : f[x] <= f[y]}
<1> SUFFICES ASSUME Bad # {} PROVE FALSE
  OBVIOUS
<1>1. PICK T \in Bad : \A u \in Bad : u \subseteq T => u = T
  <2>1. Bad \in SUBSET (SUBSET S)
    OBVIOUS
  <2> HIDE DEF Bad
  <2> QED BY <2>1, LeastSet
<1>2. PICK x \in T : TRUE
  BY <1>1
<1>3. x \in S /\ T \subseteq S /\ T \ {x} \notin Bad
  BY <1>1, <1>2
<1>4. CASE T \ {x} = {}
  <2>1. \A y \in T : f[x] <= f[y]
    BY <1>3, <1>4
  <2> QED BY <1>1, <1>2, <2>1
<1>5. CASE T \ {x} # {}
  <2>1. PICK z \in T \ {x} : \A y \in T \ {x} : f[z] <= f[y]
    BY <1>3, <1>5
  <2>2. f[x] \in Int /\ \A y \in T : f[y] \in Int
    BY <1>3
  <2>3. CASE f[x] <= f[z]
    <3>1. \A y \in T : f[x] <= f[y]
      BY <2>1, <2>2, <2>3
    <3> QED BY <1>1, <1>2, <3>1
  <2>4. CASE f[z] < f[x]
    <3>1. \A y \in T : f[z] <= f[y]
      BY <2>1, <2>2, <2>4
    <3> QED BY <1>1, <2>1, <3>1
  <2> QED BY <2>1, <2>2, <2>3, <2>4
<1> QED BY <1>4, <1>5

LEMMA MaxOfTwo ==
  ASSUME NEW a \in Nat, NEW b \in Nat
  PROVE  Max({a, b}) \in Nat /\ Max({a, b}) >= a /\ Max({a, b}) >= b
<1>1. \E x \in {a, b} : \A y \in {a, b} : x >= y
  <2>1. CASE a >= b
    BY <2>1
  <2>2. CASE b >= a
    BY <2>2
  <2> QED BY <2>1, <2>2
<1>2. Max({a, b}) \in {a, b} /\ \A y \in {a, b} : Max({a, b}) >= y
  BY <1>1 DEF Max
<1> QED BY <1>2

\* What holds of every cluster, smeared or merged.
IsCluster(c) ==
  /\ DOMAIN c = {"type", "subtype", "index", "position", "size", "energy", "subClusters"}
  /\ c.type \in {"ecal", "hcal"} /\ c.position \in Position
  /\ c.size \in Nat /\ c.energy \in Nat

AreClusters(S) == IsFiniteSet(S) /\ \A c \in S : IsCluster(c)

LEMMA EnergyIs ==
  ASSUME NEW U, NEW S \in SUBSET U, AreClusters(U)
  PROVE  /\ SumOfEnergies(S) \in Nat
         /\ SumOfEnergies(S) = SumFunctionOnSet([c \in U |-> c.energy], S)
<1> DEFINE f == [c \in S |-> c.energy]
           g == [c \in U |-> c.energy]
<1>1. IsFiniteSet(S) /\ \A c \in S : f[c] \in Nat /\ f[c] = g[c]
  BY FS_Subset DEF AreClusters, IsCluster
<1> HIDE DEF f, g
<1>2. SumFunctionOnSet(f, S) \in Nat /\ SumFunctionOnSet(f, S) = SumFunctionOnSet(g, S)
  BY <1>1, SumIsNatural, SumsAgree
<1> QED BY <1>2 DEF SumOfEnergies, f, g

\* The energy of two collections that have nothing in common.
LEMMA EnergyOfUnion ==
  ASSUME NEW S, NEW T, AreClusters(S), AreClusters(T), S \cap T = {}
  PROVE  SumOfEnergies(S \cup T) = SumOfEnergies(S) + SumOfEnergies(T)
<1> DEFINE U == S \cup T
           g == [c \in U |-> c.energy]
<1>1. AreClusters(U)
  BY FS_Union DEF AreClusters
<1>2. (\A c \in S : g[c] \in Nat) /\ (\A c \in T : g[c] \in Nat)
  BY DEF AreClusters, IsCluster
<1>3. IsFiniteSet(S) /\ IsFiniteSet(T)
  BY DEF AreClusters
<1> HIDE DEF g
<1>4. SumFunctionOnSet(g, S \cup T) = SumFunctionOnSet(g, S) + SumFunctionOnSet(g, T)
  BY <1>2, <1>3, SumOfUnion
<1>5. /\ SumOfEnergies(U) = SumFunctionOnSet(g, U)
      /\ SumOfEnergies(S) = SumFunctionOnSet(g, S)
      /\ SumOfEnergies(T) = SumFunctionOnSet(g, T)
  BY <1>1, EnergyIs DEF g
<1> QED BY <1>4, <1>5

LEMMA EnergyOfOne ==
  ASSUME NEW c, IsCluster(c)
  PROVE  AreClusters({c}) /\ SumOfEnergies({c}) = c.energy
<1> DEFINE f == [d \in {c} |-> d.energy]
<1>1. AreClusters({c})
  BY FS_Singleton DEF AreClusters
<1>2. f[c] = c.energy /\ f[c] \in Nat /\ IsFiniteSet({c}) /\ {c} \ {c} = {}
  BY FS_Singleton DEF IsCluster
<1> HIDE DEF f
<1>3. SumFunctionOnSet(f, {c}) = f[c] + SumFunctionOnSet(f, {})
  BY <1>2, SumWithout
<1>4. SumFunctionOnSet(f, {}) = 0
  BY SumOfNone
<1> QED BY <1>1, <1>2, <1>3, <1>4 DEF SumOfEnergies, f

LEMMA EnergyOfNone == SumOfEnergies({}) = 0
BY SumOfNone DEF SumOfEnergies

\* The constructor of a merged cluster.
LEMMA MergedIs ==
  ASSUME NEW S, S # {}, AreClusters(S), NEW i
  PROVE  /\ IsCluster(MergedCluster(S, i))
         /\ MergedCluster(S, i).subClusters = S
         /\ MergedCluster(S, i).energy = SumOfEnergies(S)
         /\ \E f \in S : /\ MergedCluster(S, i).type = f.type
                         /\ MergedCluster(S, i).position = f.position
                         /\ MergedCluster(S, i).size = f.size
<1> DEFINE f == CHOOSE c \in S : TRUE
<1>1. f \in S
  OBVIOUS
<1>2. IsCluster(f)
  BY <1>1 DEF AreClusters
<1>3. PICK e : e = SumOfEnergies(S)
  OBVIOUS
<1>4. e \in Nat
  BY <1>3, EnergyIs
<1> DEFINE m == [f EXCEPT !.index = i, !.subtype = "m", !.subClusters = S, !.energy = e]
<1>5. MergedCluster(S, i) = m
  BY <1>3 DEF MergedCluster
<1> HIDE DEF f
<1>6. /\ DOMAIN m = DOMAIN f
      /\ m.type = f.type /\ m.position = f.position /\ m.size = f.size
      /\ m.subClusters = S /\ m.energy = e
  BY <1>2 DEF IsCluster
<1> QED BY <1>1, <1>2, <1>3, <1>4, <1>5, <1>6 DEF IsCluster

\* The groups, and the merged clusters' parts.
Groups == subGraphs \cup {c.subClusters : c \in merged}

\* A merged cluster and its parts.
ComesFromParts(m) ==
  /\ IsCluster(m) /\ m.energy <= maxEnergy
  /\ m.subClusters \notin subGraphs
  /\ \A p \in m.subClusters : ~IsMerged(p)
  /\ \E f \in m.subClusters : m.type = f.type /\ m.position = f.position /\ m.size = f.size

MergeInv ==
  /\ AreClusters(clusters) /\ \A c, d \in clusters : c.type = d.type
  /\ maxEnergy \in Nat
  /\ \A S \in Groups : S # {} /\ S \subseteq clusters
  /\ \A S, T \in Groups : S # T =>
       S \cap T = {} /\ \A c \in S, d \in T : ~distance(c, d).isLinked
  /\ IsFiniteSet(merged) /\ \A m \in merged : ComesFromParts(m)
  /\ \A c, d \in merged : c.subClusters = d.subClusters => c = d
  /\ Groups # {} => SumOfEnergies(merged) + SumOfEnergies(UNION subGraphs) = SumOfEnergies(clusters)

LEMMA MergeInitInv == MergeInit => MergeInv
<1> SUFFICES ASSUME MergeInit PROVE MergeInv
  OBVIOUS
<1>1. AreClusters(clusters)
  <2>1. IsFiniteSet(clusters)
    BY ClusterAssumption, FS_Subset DEF MergeInit
  <2>2. ASSUME NEW c \in clusters PROVE IsCluster(c)
    <3>1. c \in [type : {"ecal", "hcal"}, subtype : STRING, index : Nat, position : Position,
                 size : Nat, energy : Nat, subClusters : {{}}]
      BY ClusterAssumption DEF MergeInit
    <3> QED BY <3>1 DEF IsCluster
  <2> QED BY <2>1, <2>2 DEF AreClusters
<1>2. maxEnergy \in Nat
  <2> DEFINE E == {c.energy : c \in clusters}
             f == [c \in clusters |-> -c.energy]
  <2>1. \A c \in clusters : f[c] \in Int /\ c.energy \in Nat
    BY <1>1 DEF AreClusters, IsCluster
  <2>2. \E x \in clusters : \A y \in clusters : f[x] <= f[y]
    <3> HIDE DEF f
    <3> QED BY <1>1, <2>1, LeastTerm DEF MergeInit, AreClusters
  <2>3. PICK x \in clusters : \A y \in clusters : x.energy >= y.energy
    BY <2>1, <2>2
  <2>4. \E e \in E : \A y \in E : e >= y
    BY <2>3
  <2>5. Max(E) \in E
    BY <2>4 DEF Max
  <2> QED BY <2>1, <2>5 DEF MergeInit
<1>3. Groups = {} /\ merged = {} /\ IsFiniteSet(merged)
  BY FS_EmptySet DEF MergeInit, Groups
<1> QED BY <1>1, <1>2, <1>3 DEF MergeInit, MergeInv

\* A group is closed under the edges, and all its clusters share the others.
LEMMA GroupIs ==
  ASSUME NEW c \in clusters, NEW E, E = Edges(clusters)
  PROVE  /\ c \in SubGraph(c, E) /\ SubGraph(c, E) \subseteq clusters
         /\ \A e \in E : e[1] \in SubGraph(c, E) <=> e[2] \in SubGraph(c, E)
         /\ \A S \in SUBSET clusters :
              c \in S /\ (\A e \in E : e[1] \in S <=> e[2] \in S) => SubGraph(c, E) \subseteq S
<1>1. \A e \in E : e[1] \in clusters /\ e[2] \in clusters
  BY DEF Edges
<1> QED BY <1>1 DEF SubGraph

LEMMA GroupsSeparate ==
  ASSUME NEW c \in clusters, NEW d \in clusters, NEW E, E = Edges(clusters),
         SubGraph(c, E) # SubGraph(d, E)
  PROVE  /\ SubGraph(c, E) \cap SubGraph(d, E) = {}
         /\ \A x \in SubGraph(c, E), y \in SubGraph(d, E) : ~distance(x, y).isLinked
<1>1. PICK S, T : S = SubGraph(c, E) /\ T = SubGraph(d, E)
  OBVIOUS
<1>2. /\ c \in S /\ S \subseteq clusters /\ d \in T /\ T \subseteq clusters
      /\ \A e \in E : e[1] \in S <=> e[2] \in S
      /\ \A e \in E : e[1] \in T <=> e[2] \in T
  BY <1>1, GroupIs
<1>3. \A U \in SUBSET clusters :
        (\A e \in E : e[1] \in U <=> e[2] \in U) =>
          (c \in U => S \subseteq U) /\ (d \in U => T \subseteq U)
  BY <1>1, GroupIs
<1>4. S \cap T = {}
  <2> SUFFICES ASSUME NEW x \in S \cap T PROVE FALSE
    OBVIOUS
  <2>1. c \in T
    <3>1. \A e \in E : e[1] \in S \ T <=> e[2] \in S \ T
      BY <1>2
    <3>2. c \notin S \ T
      BY <1>2, <1>3, <3>1
    <3> QED BY <1>2, <3>2
  <2>2. d \in S
    <3>1. \A e \in E : e[1] \in T \ S <=> e[2] \in T \ S
      BY <1>2
    <3>2. d \notin T \ S
      BY <1>2, <1>3, <3>1
    <3> QED BY <1>2, <3>2
  <2>3. S \subseteq T /\ T \subseteq S
    BY <1>2, <1>3, <2>1, <2>2
  <2> QED BY <1>1, <2>3
<1>5. ASSUME NEW x \in S, NEW y \in T, distance(x, y).isLinked PROVE FALSE
  <2>1. x # y /\ x \in clusters /\ y \in clusters
    BY <1>2, <1>4
  <2>2. <<x, y>> \in E
    BY <1>5, <2>1 DEF Edges
  <2>3. x \in T
    BY <1>2, <2>2
  <2> QED BY <1>4, <2>3
<1> QED BY <1>1, <1>4, <1>5

LEMMA MergeStepInv == MergeInv /\ [MergeNext]_mergeVars => MergeInv'
<1> SUFFICES ASSUME MergeInv, [MergeNext]_mergeVars PROVE MergeInv'
  OBVIOUS
<1>0. ASSUME UNCHANGED <<clusters, subGraphs, merged, maxEnergy>> PROVE MergeInv'
  BY <1>0 DEF MergeInv, Groups, ComesFromParts, AreClusters, SumOfEnergies
<1>1. CASE mergeClusters
  <2>1. /\ subGraphs = {} /\ merged = {} /\ UNCHANGED <<clusters, merged, maxEnergy>>
    BY <1>1 DEF mergeClusters
  <2>2. PICK E : E = Edges(clusters) /\ subGraphs' = {SubGraph(c, E) : c \in clusters}
    BY <1>1 DEF mergeClusters
  <2>3. Groups' = {SubGraph(c, E) : c \in clusters}
    BY <2>1, <2>2 DEF Groups
  <2>4. \A S \in Groups' : S # {} /\ S \subseteq clusters
    BY <2>2, <2>3, GroupIs
  <2>5. \A S, T \in Groups' : S # T =>
          S \cap T = {} /\ \A c \in S, d \in T : ~distance(c, d).isLinked
    BY <2>2, <2>3, GroupsSeparate
  <2>6. UNION subGraphs' = clusters
    BY <2>2, GroupIs
  <2>7. SumOfEnergies(merged) + SumOfEnergies(clusters) = SumOfEnergies(clusters)
    <3>1. SumOfEnergies(clusters) \in Nat
      BY EnergyIs DEF MergeInv
    <3> QED BY <2>1, <3>1, EnergyOfNone
  <2>8. (SumOfEnergies(merged) + SumOfEnergies(UNION subGraphs) = SumOfEnergies(clusters))'
    BY <2>1, <2>6, <2>7 DEF SumOfEnergies
  <2> QED BY <2>1, <2>4, <2>5, <2>8 DEF MergeInv, AreClusters
<1>2. ASSUME NEW S \in subGraphs, MakeMerged(S) PROVE MergeInv'
  <2>1. CASE \E c \in S : IsMerged(c)
    BY <1>0, <1>2, <2>1 DEF MakeMerged
  <2>2. CASE ~ \E c \in S : IsMerged(c)
    <3>1. PICK m : /\ m = MergedCluster(S, Cardinality(merged))
                   /\ merged' = merged \cup {m} /\ subGraphs' = subGraphs \ {S}
                   /\ maxEnergy' = Max({maxEnergy, m.energy})
                   /\ clusters' = clusters
      BY <1>2, <2>2 DEF MakeMerged
    <3>2. S \in Groups /\ S # {} /\ S \subseteq clusters /\ AreClusters(S)
      BY FS_Subset DEF Groups, MergeInv, AreClusters
    <3>3. /\ IsCluster(m) /\ m.subClusters = S /\ m.energy = SumOfEnergies(S)
          /\ \E f \in S : m.type = f.type /\ m.position = f.position /\ m.size = f.size
      BY <3>1, <3>2, MergedIs
    <3>4. m \notin merged /\ \A c \in merged : c.subClusters # S
      BY <3>3 DEF MergeInv, ComesFromParts
    <3>5. Groups' = Groups
      BY <3>1, <3>3 DEF Groups
    <3>6. maxEnergy' \in Nat /\ maxEnergy' >= maxEnergy /\ maxEnergy' >= m.energy
      BY <3>1, <3>3, MaxOfTwo DEF MergeInv, IsCluster
    <3>7. ASSUME NEW n \in merged' PROVE ComesFromParts(n)'
      <4>1. CASE n = m
        BY <2>2, <3>1, <3>3, <3>6, <4>1 DEF ComesFromParts
      <4>2. CASE n \in merged
        <5>1. ComesFromParts(n) /\ n.energy \in Nat /\ maxEnergy \in Nat
          BY <4>2 DEF MergeInv, ComesFromParts, IsCluster
        <5>2. n.energy <= maxEnergy'
          BY <3>6, <5>1 DEF ComesFromParts
        <5> QED BY <3>1, <5>1, <5>2 DEF ComesFromParts
      <4> QED BY <3>1, <4>1, <4>2
    <3>8. \A c, d \in merged' : c.subClusters = d.subClusters => c = d
      BY <3>1, <3>3, <3>4 DEF MergeInv
    <3>9. IsFiniteSet(merged')
      BY <3>1, FS_AddElement DEF MergeInv
    <3>10. SumOfEnergies(merged') + SumOfEnergies(UNION subGraphs') = SumOfEnergies(clusters)
      <4>1. AreClusters(merged) /\ AreClusters({m}) /\ SumOfEnergies({m}) = m.energy
        BY <3>3, EnergyOfOne DEF MergeInv, AreClusters, ComesFromParts
      <4>2. SumOfEnergies(merged') = SumOfEnergies(merged) + SumOfEnergies(S)
        BY <3>1, <3>3, <3>4, <4>1, EnergyOfUnion
      <4> DEFINE R == UNION subGraphs'
      <4>3. UNION subGraphs = R \cup S /\ R \cap S = {} /\ R \subseteq clusters
        BY <3>1 DEF MergeInv, Groups
      <4>4. AreClusters(R)
        BY <4>3, FS_Subset DEF MergeInv, AreClusters
      <4> HIDE DEF R
      <4>5. SumOfEnergies(UNION subGraphs) = SumOfEnergies(R) + SumOfEnergies(S)
        BY <3>2, <4>3, <4>4, EnergyOfUnion
      <4>6. /\ SumOfEnergies(R) \in Nat /\ SumOfEnergies(S) \in Nat /\ SumOfEnergies(merged) \in Nat
        BY <3>2, <4>1, <4>4, EnergyIs
      <4>7. SumOfEnergies(merged) + SumOfEnergies(UNION subGraphs) = SumOfEnergies(clusters)
        BY <3>2 DEF MergeInv
      <4> QED BY <4>2, <4>5, <4>6, <4>7 DEF R
    <3>11. (SumOfEnergies(merged) + SumOfEnergies(UNION subGraphs) = SumOfEnergies(clusters))'
      BY <3>1, <3>10 DEF SumOfEnergies
    <3>12. /\ \A T \in Groups' : T # {} /\ T \subseteq clusters'
           /\ \A T, U \in Groups' : T # U =>
                T \cap U = {} /\ \A c \in T, d \in U : ~distance(c, d).isLinked
      BY <3>1, <3>5 DEF MergeInv
    <3>13. /\ AreClusters(clusters)' /\ \A c, d \in clusters' : c.type = d.type
      BY <3>1 DEF MergeInv, AreClusters
    <3> QED BY <3>6, <3>7, <3>8, <3>9, <3>11, <3>12, <3>13 DEF MergeInv
  <2> QED BY <2>1, <2>2
<1>3. CASE TakeMerged
  <2>1. /\ subGraphs = {} /\ subGraphs' = {} /\ clusters' = merged /\ merged' = {}
        /\ maxEnergy' = maxEnergy
    BY <1>3 DEF TakeMerged, Done
  <2>2. Groups' = {} /\ IsFiniteSet(merged')
    BY <2>1, FS_EmptySet DEF Groups
  <2>3. AreClusters(clusters)'
    BY <2>1 DEF MergeInv, AreClusters, ComesFromParts
  <2>4. ASSUME NEW c \in merged, NEW d \in merged PROVE c.type = d.type
    <3>1. PICK f \in c.subClusters : c.type = f.type
      BY DEF MergeInv, ComesFromParts
    <3>2. PICK g \in d.subClusters : d.type = g.type
      BY DEF MergeInv, ComesFromParts
    <3>3. f \in clusters /\ g \in clusters
      BY DEF MergeInv, Groups
    <3> QED BY <3>1, <3>2, <3>3 DEF MergeInv
  <2> QED BY <2>1, <2>2, <2>3, <2>4 DEF MergeInv
<1>4. CASE UNCHANGED mergeVars
  BY <1>0, <1>4 DEF mergeVars
<1> QED BY <1>1, <1>2, <1>3, <1>4 DEF MergeNext

LEMMA Merging == MergeSpec => []MergeInv
BY MergeInitInv, MergeStepInv, PTL DEF MergeSpec

\* Clusters that are not merged are measured as they are.
LEMMA SimpleDistance ==
  ASSUME MergeInv, NEW p \in clusters, NEW q \in clusters, ~IsMerged(p), ~IsMerged(q)
  PROVE  distance(p, q) = BetweenClusters(p, q)
<1>1. p.type = q.type /\ p.type # "track" /\ q.type # "track"
  BY DEF MergeInv, AreClusters, IsCluster
<1> QED BY <1>1 DEF distance, clusterClusterDistance

\* A merged cluster of one part is where this part is.
LEMMA OnePart ==
  ASSUME MergeInv, NEW m \in merged
  PROVE  /\ m.subClusters # {} /\ m.subClusters \subseteq clusters /\ m.subClusters \in Groups
         /\ m.type # "track" /\ \A p \in m.subClusters : p.type = m.type /\ ~IsMerged(p)
         /\ ~IsMerged(m) => \E p : /\ m.subClusters = {p}
                                   /\ m.position = p.position /\ m.size = p.size
<1>1. /\ m.subClusters # {} /\ m.subClusters \subseteq clusters /\ m.subClusters \in Groups
      /\ ComesFromParts(m)
  BY DEF MergeInv, Groups
<1>2. PICK f \in m.subClusters : m.type = f.type /\ m.position = f.position /\ m.size = f.size
  BY <1>1 DEF ComesFromParts
<1>3. m.type # "track" /\ \A p \in m.subClusters : p.type = m.type /\ ~IsMerged(p)
  BY <1>1, <1>2 DEF ComesFromParts, IsCluster, MergeInv
<1>4. ASSUME ~IsMerged(m) PROVE m.subClusters = {f}
  <2> DEFINE S == m.subClusters
  <2>1. IsFiniteSet(S)
    BY <1>1, FS_Subset DEF MergeInv, AreClusters
  <2>2. Cardinality(S) \in Nat /\ Cardinality(S) # 0 /\ ~(Cardinality(S) > 1)
    BY <1>1, <1>4, <2>1, FS_CardinalityType, FS_EmptySet DEF IsMerged
  <2>3. Cardinality(S) = 1
    BY <2>2
  <2> HIDE DEF S
  <2>4. PICK x : S = {x}
    BY <2>1, <2>3, FS_Singleton
  <2> QED BY <1>2, <2>4 DEF S
<1> QED BY <1>1, <1>2, <1>3, <1>4

(***************************************************************************)
(* The ruler, which measures merged clusters by their parts, agrees with   *)
(* the groups that mergeClusters made, for clusters of every number, place *)
(* and size: what comes out of a call does not overlap, also when merged   *)
(* clusters are merged again.                                              *)
(***************************************************************************)
THEOREM MergedKeepApart == MergeSpec => []MergedDoNotOverlap
<1>1. MergeInv => MergedDoNotOverlap
  <2> SUFFICES ASSUME MergeInv, NEW c \in merged, NEW d \in merged, c # d
               PROVE  ~distance(c, d).isLinked
    BY DEF MergedDoNotOverlap
  <2>1. /\ c.subClusters # d.subClusters
        /\ \A p \in c.subClusters, q \in d.subClusters : ~distance(p, q).isLinked
    BY OnePart DEF MergeInv
  <2>2. \A p \in c.subClusters, q \in d.subClusters : ~BetweenClusters(p, q).isLinked
    <3> TAKE p \in c.subClusters, q \in d.subClusters
    <3>1. p \in clusters /\ q \in clusters /\ ~IsMerged(p) /\ ~IsMerged(q)
      BY OnePart
    <3> QED BY <2>1, <3>1, SimpleDistance
  <2>3. distance(c, d) = clusterClusterDistance(c, d)
    <3>1. PICK p \in c.subClusters, q \in d.subClusters : TRUE
      BY OnePart
    <3>2. p \in clusters /\ q \in clusters /\ p.type = c.type /\ q.type = d.type
          /\ c.type # "track" /\ d.type # "track"
      BY OnePart
    <3>3. c.type = d.type
      BY <3>2 DEF MergeInv
    <3> QED BY <3>2, <3>3 DEF distance
  <2>4. CASE ~IsMerged(c) /\ ~IsMerged(d)
    <3>1. PICK p : c.subClusters = {p} /\ c.position = p.position /\ c.size = p.size
      BY <2>4, OnePart
    <3>2. PICK q : d.subClusters = {q} /\ d.position = q.position /\ d.size = q.size
      BY <2>4, OnePart
    <3>3. BetweenClusters(c, d) = BetweenClusters(p, q)
      BY <3>1, <3>2 DEF BetweenClusters, angularSize
    <3> QED BY <2>2, <2>3, <2>4, <3>1, <3>2, <3>3 DEF clusterClusterDistance
  <2>5. CASE ~(~IsMerged(c) /\ ~IsMerged(d))
    <3> DEFINE ds == {BetweenClusters(p, q) : p \in c.subClusters, q \in d.subClusters}
    <3>1. \A x \in ds : ~x.isLinked
      BY <2>2
    <3>2. clusterClusterDistance(c, d) = Closest(ds)
      BY <2>5 DEF clusterClusterDistance
    <3> HIDE DEF ds
    <3>3. ~Closest(ds).isLinked
      BY <3>1 DEF Closest
    <3> QED BY <2>3, <3>2, <3>3
  <2> QED BY <2>4, <2>5
<1> QED BY <1>1, Merging, PTL

\* Squares are not negative, and so neither is a distance.
LEMMA SquareIsNatural == \A n \in Int : Square(n) \in Nat
BY DEF Square

LEMMA DistanceIsNatural ==
  ASSUME NEW a \in Position, NEW b \in Position
  PROVE  deltaR(a, b) \in Nat
<1>1. a.theta - b.theta \in Int /\ a.phi \in Int /\ b.phi \in Int
  BY DEF Position
<1>2. deltaPhi(a.phi, b.phi) \in Int
  BY <1>1, ClusterAssumption DEF deltaPhi
<1>3. Square(a.theta - b.theta) \in Nat /\ Square(deltaPhi(a.phi, b.phi)) \in Nat
  BY <1>1, <1>2, SquareIsNatural
<1> QED BY <1>3 DEF deltaR

LEMMA LinkIsNatural ==
  ASSUME NEW p, IsCluster(p), NEW t \in Tracks, BetweenClusterAndTrack(p, t).isLinked
  PROVE  BetweenClusterAndTrack(p, t).distance \in Nat
<1>1. p.type \in DOMAIN t.points
  BY DEF BetweenClusterAndTrack, NoDistance
<1>2. deltaR(p.position, t.points[p.type]) \in Nat
  BY <1>1, ClusterAssumption, DistanceIsNatural DEF IsCluster
<1> QED BY <1>1, <1>2 DEF BetweenClusterAndTrack

(***************************************************************************)
(* Merging keeps energy and links, for clusters of every number, place,    *)
(* size and energy and for every track: what comes out has the energy that *)
(* went in, none of it above s_maxEnergy, and a track is linked to a       *)
(* merged cluster just if it is to a part, and as close as to the closest  *)
(* of these.                                                               *)
(***************************************************************************)
THEOREM MergingKeeps == MergeSpec => []MergingKeepsEnergyAndLinks
<1>1. MergeInv => MergingKeepsEnergyAndLinks
  <2> SUFFICES ASSUME MergeInv, Done PROVE MergingKeepsEnergyAndLinks
    BY DEF MergingKeepsEnergyAndLinks
  <2>1. SumOfEnergies(merged) = SumOfEnergies(clusters)
    <3>1. Groups # {} /\ UNION subGraphs = {}
      BY DEF Done, Groups
    <3>2. AreClusters(merged) /\ SumOfEnergies(merged) \in Nat
      <4>1. AreClusters(merged)
        BY DEF MergeInv, AreClusters, ComesFromParts
      <4> QED BY <4>1, EnergyIs
    <3>3. SumOfEnergies(UNION subGraphs) = 0
      BY <3>1, EnergyOfNone
    <3>4. SumOfEnergies(merged) + SumOfEnergies(UNION subGraphs) = SumOfEnergies(clusters)
      BY <3>1 DEF MergeInv
    <3> QED BY <3>2, <3>3, <3>4
  <2>2. \A c \in merged : c.energy <= maxEnergy
    BY DEF MergeInv, ComesFromParts
  <2>3. ASSUME NEW t \in Tracks, NEW c \in merged,
               NEW links, links = {p \in c.subClusters : distance(t, p).isLinked}
        PROVE  /\ distance(t, c).isLinked <=> links # {}
               /\ links # {} => /\ \A p \in links : distance(t, c).distance <= distance(t, p).distance
                                /\ \E p \in links : distance(t, c).distance = distance(t, p).distance
    <3>1. t.type = "track"
      BY ClusterAssumption
    <3>2. ASSUME NEW p \in c.subClusters
          PROVE  /\ distance(t, p) = BetweenClusterAndTrack(p, t)
                 /\ p \in links => distance(t, p).distance \in Nat
      <4>1. p.type # "track" /\ ~IsMerged(p) /\ IsCluster(p)
        BY OnePart DEF MergeInv, AreClusters
      <4>2. distance(t, p) = BetweenClusterAndTrack(p, t)
        BY <3>1, <4>1 DEF distance, clusterTrackDistance
      <4> QED BY <2>3, <4>1, <4>2, LinkIsNatural
    <3>3. distance(t, c) = clusterTrackDistance(c, t)
      BY <3>1, OnePart DEF distance
    <3>4. CASE ~IsMerged(c)
      <4>1. PICK p : c.subClusters = {p} /\ c.position = p.position /\ c.size = p.size
        BY <3>4, OnePart
      <4>2. c.type = p.type
        BY <4>1, OnePart
      <4>3. distance(t, c) = distance(t, p)
        BY <3>2, <3>3, <3>4, <4>1, <4>2 DEF clusterTrackDistance, BetweenClusterAndTrack
      <4> QED BY <2>3, <3>2, <4>1, <4>3
    <3>5. CASE IsMerged(c)
      <4> DEFINE ds == {BetweenClusterAndTrack(p, t) : p \in c.subClusters}
                 linked == {d \in ds : d.isLinked}
                 lengths == {d.distance : d \in linked}
      <4>1. distance(t, c) = Closest(ds)
        BY <3>3, <3>5 DEF clusterTrackDistance
      <4>2. linked = {distance(t, p) : p \in links}
        BY <2>3, <3>2
      <4>3. distance(t, c).isLinked <=> links # {}
        <5>1. Closest(ds).isLinked <=> linked # {}
          <6> HIDE DEF ds
          <6> QED BY DEF Closest
        <5>2. linked # {} <=> links # {}
          <6> HIDE DEF linked
          <6> QED BY <4>2
        <5> HIDE DEF ds, linked
        <5> QED BY <4>1, <5>1, <5>2
      <4>4. ASSUME links # {} PROVE distance(t, c).distance = Min(lengths)
        <5>1. linked # {}
          BY <4>2, <4>4
        <5> HIDE DEF ds
        <5> QED BY <4>1, <5>1 DEF Closest
      <4>5. lengths = {distance(t, p).distance : p \in links}
        BY <4>2
      <4> HIDE DEF ds, linked, lengths
      <4>6. ASSUME links # {} PROVE Min(lengths) \in lengths /\ \A n \in lengths : Min(lengths) <= n
        <5> DEFINE f == [p \in links |-> distance(t, p).distance]
        <5>1. IsFiniteSet(links)
          <6>1. c.subClusters \subseteq clusters /\ links \subseteq clusters
            BY <2>3, OnePart
          <6> QED BY <6>1, FS_Subset DEF MergeInv, AreClusters
        <5>2. \A p \in links : f[p] \in Int /\ f[p] = distance(t, p).distance
          BY <2>3, <3>2
        <5> HIDE DEF f
        <5>3. PICK p \in links : \A q \in links : f[p] <= f[q]
          BY <4>6, <5>1, <5>2, LeastTerm
        <5>4. \E n \in lengths : \A k \in lengths : n <= k
          BY <4>5, <5>2, <5>3
        <5> QED BY <5>4 DEF Min
      <4> QED BY <4>3, <4>4, <4>5, <4>6
    <3> QED BY <3>4, <3>5
  <2> QED BY <2>1, <2>2, <2>3 DEF MergingKeepsEnergyAndLinks
<1> QED BY <1>1, Merging, PTL
=============================================================================
