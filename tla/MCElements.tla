------------------------------ MODULE MCElements ------------------------------
(***************************************************************************)
(* The elements of the particle flow, as the other stages know them: their *)
(* identifiers, and the clusters with their distances.  A behaviour is     *)
(* about one of: identifiers, clusters, and a block of such elements.      *)
(*                                                                         *)
(* Every pair of identifiers, with small fields: upper and lower           *)
(* case letters of two kinds, values of both signs, and indices up to the  *)
(* first one that does not fit.                                            *)
(*                                                                         *)
(* Every collection of clusters of two sizes in four directions, two of    *)
(* them on either side of where phi jumps, and of two hcal clusters, one   *)
(* twice as far away; tracks in every direction, through both              *)
(* calorimeters, one, or none.                                             *)
(*                                                                         *)
(* Every block of some of four elements, two of them ecal clusters, with   *)
(* every set of edges between them.                                        *)
(***************************************************************************)
EXTENDS PFBlock, MergeClusters

MCUpper == {0, 1}

MCElementIds ==
  {uid([type |-> e[1], subt |-> e[2], val |-> [negative |-> FALSE, magnitude |-> e[3]], index |-> e[4]]) :
     e \in {<<1, 2, 3, 1>>, <<1, 3, 1, 1>>, <<2, 3, 2, 0>>, <<3, 3, 1, 1>>}}

MCDistances == {0, 1}

At(theta, phi, mag) == [theta |-> theta, phi |-> phi, mag |-> mag]
Simple(calo, position, size, energy) ==
  [type |-> calo, subtype |-> "s", index |-> 0, position |-> position, size |-> size,
   energy |-> energy, subClusters |-> {}]

MCClusters ==
  {Simple("ecal", At(0, phi, 1), size, 1 + ((size + phi) % 2)) : phi \in {-2, 0, 2, 3}, size \in {1, 2}}
    \cup {Simple("hcal", At(theta, theta, 1 + theta), 2, 1) : theta \in {0, 1}}

MCTracks ==
  {[type |-> "track", points |-> [c \in cs |-> At(theta, phi, 1)]] :
     cs \in SUBSET {"ecal", "hcal"}, theta \in {0, 1}, phi \in -2 .. 3}

NoClusters == /\ clusters = {} /\ subGraphs = {} /\ merged = {}
              /\ maxEnergy = 0 /\ thrown = FALSE

Other == block = NoBlock /\ given = <<>>

MCInit == /\ Init
          /\ \/ NoClusters /\ Other
             \/ NoClusters /\ BlockInit
             \/ MergeInit /\ Other

MCNext == \/ clusters = {} /\ Other /\ Next /\ UNCHANGED <<mergeVars, blockVars>>
          \/ clusters # {} /\ MergeNext /\ UNCHANGED <<vars, blockVars>>
          \/ clusters = {} /\ latest = NoCall /\ BlockNext /\ UNCHANGED <<vars, mergeVars>>

MCSpec == MCInit /\ [][MCNext]_<<vars, mergeVars, blockVars>>
=============================================================================
