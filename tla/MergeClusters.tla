---------------------------- MODULE MergeClusters ----------------------------
(***************************************************************************)
(* mergeClusters (reconstruction/src/MergeClusters.cpp) with the clusters  *)
(* it makes (Cluster::Cluster of a list of clusters).  The clusters of one *)
(* type and subtype are joined by edges if they overlap, and each group of *)
(* the graph becomes one merged cluster.  Merged clusters may be merged    *)
(* again if no group holds one that is made of several.                    *)
(*                                                                         *)
(* The position of a merged cluster, the mean of its parts weighted with   *)
(* their energies, is left out where there are several: no distance is     *)
(* measured from it.                                                       *)
(***************************************************************************)
EXTENDS Ruler, Functions

CONSTANTS SmearedClusters, \* the clusters a collection is made of
          Tracks           \* the tracks that may run into them

Position == [theta : Int, phi : Int, mag : Nat \ {0}]

ASSUME ClusterAssumption ==
  /\ Turn \in Nat
  /\ IsFiniteSet(SmearedClusters)
  /\ \A c \in SmearedClusters :
       c \in [type : {"ecal", "hcal"}, subtype : STRING, index : Nat, position : Position,
             size : Nat, energy : Nat, subClusters : {{}}]
  /\ \A t \in Tracks : t.type = "track" /\ \A calo \in DOMAIN t.points : t.points[calo] \in Position

VARIABLES clusters,        \* the collection to merge
          subGraphs,       \* the groups that are not made into clusters yet
          merged,          \* the merged clusters so far
          maxEnergy,       \* Cluster::s_maxEnergy
          thrown           \* the constructor of a merged cluster has thrown

mergeVars == <<clusters, subGraphs, merged, maxEnergy, thrown>>

SumOfEnergies(S) == SumFunctionOnSet([c \in S |-> c.energy], S)

MergeInit ==
  /\ clusters \in (SUBSET SmearedClusters) \ {{}}
  /\ \A c, d \in clusters : c.type = d.type
  /\ subGraphs = {} /\ merged = {}
  /\ maxEnergy = Max({c.energy : c \in clusters})
  /\ thrown = FALSE

\* Mutant of Edges: the edge of two clusters is looked at from one side only.
EdgesToSmaller(S) ==
  {e \in S \X S : e[1].energy < e[2].energy /\ distance(e[1], e[2]).isLinked}

\* The edges that are linked; those that are not join nothing.
Edges(S) == {e \in S \X S : e[1] # e[2] /\ distance(e[1], e[2]).isLinked}

\* buildSubGraphs: what one can get to along edges, taken either way.
SubGraph(c, edges) ==
  LET closed == {S \in SUBSET clusters : \A e \in edges : e[1] \in S <=> e[2] \in S}
  IN {d \in clusters : \A S \in closed : c \in S => d \in S}

\* The constructor.  Size, angular size and position are the first cluster's,
\* and are asked for only when there is no other.
MergedCluster(S, i) ==
  LET first == CHOOSE c \in S : TRUE
  IN [first EXCEPT !.index = i, !.subtype = "m", !.subClusters = S,
                   !.energy = SumOfEnergies(S)]

\* The call: edges between all pairs, and the groups they make.
mergeClusters ==
  /\ subGraphs = {} /\ merged = {}
  /\ LET edges == Edges(clusters)
     IN subGraphs' = {SubGraph(c, edges) : c \in clusters}
  /\ UNCHANGED <<clusters, merged, maxEnergy, thrown>>

\* One group becomes a cluster, unless it holds a cluster merged of several.
MakeMerged(S) ==
  /\ S \in subGraphs /\ ~thrown
  /\ IF \E c \in S : IsMerged(c)
     THEN thrown' = TRUE /\ UNCHANGED <<subGraphs, merged, maxEnergy>>
     ELSE LET c == MergedCluster(S, Cardinality(merged)) IN
          /\ merged' = merged \cup {c}
          /\ subGraphs' = subGraphs \ {S}
          /\ maxEnergy' = Max({maxEnergy, c.energy})
          /\ UNCHANGED thrown
  /\ UNCHANGED clusters

Done == subGraphs = {} /\ merged # {}

\* The merged clusters are the collection of another call, which is the last: a
\* bound, as calls could go on for ever.
TakeMerged ==
  /\ Done
  /\ \A c \in clusters : c.subClusters = {}
  /\ clusters' = merged /\ merged' = {}
  /\ UNCHANGED <<subGraphs, maxEnergy, thrown>>

MergeNext ==
  \/ mergeClusters
  \/ \E S \in subGraphs : MakeMerged(S)
  \/ TakeMerged

MergeSpec == MergeInit /\ [][MergeNext]_mergeVars
-----------------------------------------------------------------------------
(***************************************************************************)
(* Merged clusters do not overlap: what the ruler says of two merged       *)
(* clusters, from the distances of their parts, agrees with the groups     *)
(* they were made from.  So merging what is merged joins nothing, and a    *)
(* calorimeter has no energy in two places that are one.                   *)
(***************************************************************************)
MergedDoNotOverlap ==
  Done => \A c, d \in merged : c # d => ~distance(c, d).isLinked

(***************************************************************************)
(* Merging keeps the energy, which no cluster of the event exceeds the     *)
(* record of, and the links of tracks: a track is linked to a merged       *)
(* cluster if and only if it is to a part, and as close to it as to the    *)
(* closest of the parts it is linked to.                                   *)
(***************************************************************************)
MergingKeepsEnergyAndLinks ==
  Done =>
    /\ SumOfEnergies(merged) = SumOfEnergies(clusters)
    /\ \A c \in merged : c.energy <= maxEnergy
    /\ \A t \in Tracks, c \in merged :
         LET links == {p \in c.subClusters : distance(t, p).isLinked} IN
         /\ distance(t, c).isLinked <=> links # {}
         /\ links # {} => /\ \A p \in links : distance(t, c).distance <= distance(t, p).distance
                          /\ \E p \in links : distance(t, c).distance = distance(t, p).distance
=============================================================================
