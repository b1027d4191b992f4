------------------------------- MODULE PFBlock -------------------------------
(***************************************************************************)
(* A block as it is stored and printed (reconstruction/src/PFBlock.cpp):   *)
(* a sorted set of identifiers, and edges (graphtools/src/Edge.cpp) in a   *)
(* map by their key.  PFBlocks has blocks as sets of links; here they are  *)
(* looked up by the keys made of packed identifiers, listed and printed as *)
(* a matrix.  Of the text printed, the cells are kept.                     *)
(***************************************************************************)
EXTENDS IdCoder, FiniteSets, Sequences

CONSTANTS ElementIds,      \* the identifiers of an event
          Distances        \* the distances of linked elements

ASSUME DistancesAssumption == Distances \subseteq Nat

\* A block has clusters and tracks.  Their identifiers were made by makeId, and
\* each collection of an event numbers its objects.
ASSUME ElementAssumption ==
  /\ IsFiniteSet(ElementIds)
  /\ \A id \in ElementIds : \E a \in Arguments : Accepted(a) /\ a.type \in 1 .. 3 /\ id = uid(a)
  /\ \A id1, id2 \in ElementIds : id1 # id2 => uniqueId(id1) # uniqueId(id2)

VARIABLES block,           \* the block, once it is constructed
          given            \* the edges it was constructed from

blockVars == <<block, given>>

\* The types of IdCoder::ItemType and their letters.
typelist == <<"e", "h", "t", "p", "b">>
typeLetter(id) == typelist[type(id)]

isEcal(id) == typeLetter(id) = "e"
isHcal(id) == typeLetter(id) = "h"
isTrack(id) == typeLetter(id) = "t"

pretty(id) == <<typeLetter(id), subtype(id), index(id)>>

-----------------------------------------------------------------------------
(***************************************************************************)
(* Edges.                                                                  *)
(***************************************************************************)
Edge(id1, id2, isLinked, distance) ==
  [endIds |-> <<id1, id2>>, isLinked |-> isLinked, distance |-> distance,
   key |-> makeKey(id1, id2)]

\* Mutant of otherId: the second end is not looked at.
otherIdOfEither(e, id) == IF e.endIds[1] = id THEN e.endIds[2] ELSE e.endIds[1]

\* The identifier 0 is none.
otherId(e, id) ==
  CASE e.endIds[1] = id -> e.endIds[2]
    [] e.endIds[2] = id -> e.endIds[1]
    [] OTHER -> 0

\* The letters of the ends, in no order; those of clusters and tracks only.
edgeType(e) ==
  LET letters == {typeLetter(e.endIds[1]), typeLetter(e.endIds[2])}
  IN IF letters \subseteq {"e", "h", "t"} THEN letters ELSE {}

kUnknown == {}

-----------------------------------------------------------------------------
(***************************************************************************)
(* The block.                                                              *)
(***************************************************************************)
\* The order of Ids, and so of m_elementIds: the largest identifier first.
\* Nothing uses blockIdComparer, which would sort by type.
greater(id1, id2) == id1 > id2

Sorted(ids) ==
  CHOOSE s \in [1 .. Cardinality(ids) -> ids] :
     \A i, j \in DOMAIN s : i < j => greater(s[i], s[j])

\* The edges that join two of the identifiers are found by their key and copied.
NewBlock(ids, edges) ==
  LET keys == {makeKey(p[1], p[2]) : p \in {q \in ids \X ids : q[1] < q[2]}}
  IN [elementIds |-> ids, edges |-> [k \in keys \cap DOMAIN edges |-> edges[k]]]

countEcal(b) == Cardinality({id \in b.elementIds : isEcal(id)})
countHcal(b) == Cardinality({id \in b.elementIds : isHcal(id)})
countTracks(b) == Cardinality({id \in b.elementIds : isTrack(id)})

\* Like E1H1T2, as the set of its parts; a type that is not there is left out.
shortName(b) ==
  {part \in {<<"E", countEcal(b)>>, <<"H", countHcal(b)>>, <<"T", countTracks(b)>>} : part[2] # 0}

hasEdge(b, id1, id2) == makeKey(id1, id2) \in DOMAIN b.edges
edge(b, id1, id2) == b.edges[makeKey(id1, id2)]

\* The keys of the linked edges of an element, of one type or of any.
linkedEdgeKeys(b, id, matchtype) ==
  {k \in DOMAIN b.edges :
     /\ b.edges[k].isLinked /\ otherId(b.edges[k], id) > 0
     /\ matchtype = kUnknown \/ matchtype = edgeType(b.edges[k])}

linkedIds(b, id, edgetype) ==
  {otherId(b.edges[k], id) : k \in linkedEdgeKeys(b, id, edgetype)}

\* A line for each element: its letter and number, and what they stand for.
elementsString(b) ==
  LET ids == Sorted(b.elementIds)
  IN [i \in 1 .. Len(ids) |-> [name |-> <<typeLetter(ids[i]), i - 1>>, pretty |-> pretty(ids[i])]]

\* What is printed for a pair without a linked edge, and on the diagonal.
Dashes == -1
Dot == -2

\* What the matrix shows where the row of id1 and the column of id2 cross.
Shown(b, id1, id2) ==
  CASE id1 = id2 -> Dot
    [] id1 # id2 /\ hasEdge(b, id1, id2) /\ edge(b, id1, id2).distance >= 0
         /\ edge(b, id1, id2).isLinked -> edge(b, id1, id2).distance
    [] OTHER -> Dashes

\* The lower part, each row up to the diagonal; nothing for a single element.
edgeMatrixString(b) ==
  LET ids == Sorted(b.elementIds)
  IN IF Len(ids) < 2 THEN <<>>
     ELSE [row \in 1 .. Len(ids) |-> [column \in 1 .. row |-> Shown(b, ids[row], ids[column])]]

NoBlock == [elementIds |-> {}, edges |-> <<>>]

BlockInit ==
  /\ block = NoBlock
  /\ \E present \in SUBSET {p \in ElementIds \X ElementIds : p[1] < p[2]} :
        given \in [present -> [isLinked : {TRUE}, distance : Distances]
                                \cup {[isLinked |-> FALSE, distance |-> -1]}]

\* All edges of the event, emplaced one after another by their key.
AllEdges ==
  [k \in {makeKey(p[1], p[2]) : p \in DOMAIN given} |->
     LET p == CHOOSE p \in DOMAIN given : makeKey(p[1], p[2]) = k
     IN Edge(p[1], p[2], given[p].isLinked, given[p].distance)]

Construct(ids) ==
  /\ block = NoBlock
  /\ block' = NewBlock(ids, AllEdges)
  /\ UNCHANGED given

BlockNext == \E ids \in (SUBSET ElementIds) \ {{}} : Construct(ids)

BlockSpec == BlockInit /\ [][BlockNext]_blockVars
-----------------------------------------------------------------------------
Cell(rows, i, j) == IF i < j THEN rows[j][i] ELSE rows[i][j]

(***************************************************************************)
(* What a block says of its elements is what was measured of them: the     *)
(* printed matrix, read by the names in its list of elements, shows each   *)
(* linked pair with its own distance and no other pair; the name counts    *)
(* what the list has; and each end of a link finds the other under the     *)
(* type of edge that joins them.                                           *)
(***************************************************************************)
BlockShowsItsLinks ==
  block # NoBlock =>
    LET ids == Sorted(block.elementIds)
        names == elementsString(block)
        rows == edgeMatrixString(block)
        LinkOf(a, b) == LET p == IF a < b THEN <<a, b>> ELSE <<b, a>>
                        IN IF p \in DOMAIN given THEN given[p] ELSE [isLinked |-> FALSE]
    IN /\ \A i, j \in DOMAIN ids : i < j =>
            /\ IF LinkOf(ids[i], ids[j]).isLinked
               THEN Cell(rows, i, j) = LinkOf(ids[i], ids[j]).distance
               ELSE Cell(rows, i, j) = Dashes
            /\ names[i] # names[j]
       /\ \A part \in shortName(block) :
            part[2] = Cardinality({i \in DOMAIN names :
                        <<part[1], names[i].name[1]>> \in {<<"E", "e">>, <<"H", "h">>, <<"T", "t">>}})
       /\ \A a, b \in block.elementIds : a # b =>
            LET between == {typeLetter(a), typeLetter(b)} IN
            /\ b \in linkedIds(block, a, between) <=> LinkOf(a, b).isLinked
            /\ linkedIds(block, a, between) \subseteq linkedIds(block, a, kUnknown)
            /\ b \in linkedIds(block, a, kUnknown) => a \in linkedIds(block, b, kUnknown)
=============================================================================
