-------------------------- MODULE MCElectronEfficiency --------------------------
(***************************************************************************)
(* Electrons of ten GeV that fly across the beam.                          *)
(***************************************************************************)
EXTENDS ElectronEfficiency

MCDirection == [eta |-> 0, theta |-> 0, sin |-> 100]
=============================================================================
