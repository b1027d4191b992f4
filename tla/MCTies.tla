------------------------------ MODULE MCTies ------------------------------
(***************************************************************************)
(* Every way of linking one track and two hcals, near and far.             *)
(***************************************************************************)
EXTENDS PFBlocks
=============================================================================
