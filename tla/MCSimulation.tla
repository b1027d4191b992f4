----------------------------- MODULE MCSimulation -----------------------------
(***************************************************************************)
(* Events in either detector.  A single particle is of any species and     *)
(* either flies from the beam in any direction, or starts along the beam,  *)
(* off it, within the ecal, within the hcal or beyond both.  Of two, the   *)
(* first may be any, and the second leaves more than one object.           *)
(***************************************************************************)
EXTENDS Simulation, TLC

MCShares == {3, 7}
MCSmearedEnergies == {-5, 12, 80}

Across == [eta |-> 0, theta |-> 0, sin |-> 100]
AtTheCrack == [eta |-> 1479, theta |-> 64, sin |-> 43]
Forward == [eta |-> 2900, theta |-> 84, sin |-> 11]

At(r, z) == [r |-> r, z |-> z]

Kinds(species, starts, levels, dirs) ==
  [species : species, start : starts, level : levels, dir : dirs]

Single == Kinds(Species, {At(0, 0)}, {FALSE}, {Across, AtTheCrack, Forward})
            \cup Kinds(Species, {At(0, 0), At(1, 0)}, {TRUE}, {Across})
            \cup Kinds(Species, {At(1, 0), At(180, 0), At(230, 0), At(300, 0), At(0, 270), At(300, 300)},
                       {FALSE}, {Across})

Pairs == Kinds(Species, {At(0, 0)}, {FALSE}, {Across})
           \X Kinds({"electron", "chargedHadron"}, {At(0, 0)}, {FALSE}, {Across})

MCEvents == {0 :> k : k \in Single} \cup {0 :> k[1] @@ 1 :> k[2] : k \in Pairs}
=============================================================================
