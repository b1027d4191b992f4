-------------------------------- MODULE Ruler --------------------------------
(***************************************************************************)
(* How far apart clusters and tracks are, and whether they are linked:     *)
(* Distance, Ruler and EventRuler (graphtools/src), with what they read of *)
(* Cluster (datatypes/src/Cluster.cpp).                                    *)
(*                                                                         *)
(* A position is a direction, theta and phi, in whole units of which a     *)
(* full turn has `Turn', and a distance from the origin.  Distances are    *)
(* kept squared.  The distance in space between a cluster and the point    *)
(* where a track enters its calorimeter is measured by the directions too. *)
(***************************************************************************)
EXTENDS Integers, FiniteSets, FiniteSetsExt

CONSTANT Turn              \* the full turn of phi

Square(n) == n * n

\* Both loops run at most once: phi is within half a turn of zero.
deltaPhi(p1, p2) ==
  LET res == p1 - p2
  IN CASE res > Turn \div 2  -> res - Turn
       [] res < -(Turn \div 2) -> res + Turn
       [] OTHER -> res

deltaR(a, b) == Square(a.theta - b.theta) + Square(deltaPhi(a.phi, b.phi))

\* Cluster::setSize; atan(size / distance) grows and falls as this does.
angularSize(c) == c.size \div c.position.mag

\* A cluster with several subclusters has neither size nor angular size.
IsMerged(c) == Cardinality(c.subClusters) > 1

NoDistance == [isLinked |-> FALSE, distance |-> -1]

\* Distance::Distance of two clusters that are not merged.
BetweenClusters(c1, c2) ==
  LET d == deltaR(c1.position, c2.position)
  IN [isLinked |-> d < Square(angularSize(c1) + angularSize(c2)), distance |-> d]

\* Of a cluster that is not merged and a track: none when the path of the track
\* has no point on the calorimeter, which it may curl up in front of.
BetweenClusterAndTrack(c, track) ==
  IF c.type \notin DOMAIN track.points THEN NoDistance
  ELSE LET d == deltaR(c.position, track.points[c.type])
       IN [isLinked |-> d < Square(c.size), distance |-> d]

\* Mutant of Closest: the closest pair decides, linked or not.
ClosestOfAll(ds) ==
  LET d == CHOOSE d \in ds : \A e \in ds : d.distance <= e.distance IN d

\* The closest of those that are linked, or of all if none is.  The list is
\* empty, and its least element undefined, only if a merged cluster is compared
\* with one that is not; no collection holds both.
Closest(ds) ==
  LET linked == {d \in ds : d.isLinked}
  IN [isLinked |-> linked # {},
      distance |-> Min({d.distance : d \in IF linked # {} THEN linked ELSE ds})]

\* The parts of a merged cluster are not merged, as MergeClusters makes none of
\* such parts: the code calls itself for them, and no further.
clusterClusterDistance(c1, c2) ==
  IF ~IsMerged(c1) /\ ~IsMerged(c2) THEN BetweenClusters(c1, c2)
  ELSE Closest({BetweenClusters(s1, s2) : s1 \in c1.subClusters, s2 \in c2.subClusters})

clusterTrackDistance(c, track) ==
  IF IsMerged(c) THEN Closest({BetweenClusterAndTrack(s, track) : s \in c.subClusters})
  ELSE BetweenClusterAndTrack(c, track)

\* EventRuler::distance, which also throws for what is neither cluster nor track.
distance(o1, o2) ==
  CASE o1.type # "track" /\ o2.type # "track" ->
         IF o1.type = o2.type THEN clusterClusterDistance(o1, o2) ELSE NoDistance
    [] o1.type # "track" /\ o2.type = "track" -> clusterTrackDistance(o1, o2)
    [] o1.type = "track" /\ o2.type # "track" -> clusterTrackDistance(o2, o1)
    [] OTHER -> NoDistance
=============================================================================
