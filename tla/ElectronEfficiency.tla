--------------------------- MODULE ElectronEfficiency ---------------------------
(***************************************************************************)
(* How many of the electrons that fly into the acceptance of the CLIC      *)
(* detector it keeps: Clic::electronAcceptance (detectors/clic/src/        *)
(* Clic.cpp) is asked once for each of a hundred random numbers that are   *)
(* spread evenly.                                                          *)
(***************************************************************************)
EXTENDS Detectors

CONSTANTS Momentum,        \* of the electrons, in tenths of a GeV
          Direction        \* as in module Detectors

InAcceptance ==
  /\ Pt(Momentum, Direction) > Clic.electronAcceptanceMagnitude
  /\ Direction.theta < Clic.thetaMax

VARIABLES u,               \* the next random number, in percent
          accepted         \* how many electrons were

Init == u = 0 /\ accepted = 0

electronAcceptance ==
  /\ u < 100
  /\ accepted' = accepted + (IF ClicElectronAcceptance(Momentum, Direction, u) THEN 1 ELSE 0)
  /\ u' = u + 1

Spec == Init /\ [][electronAcceptance]_<<u, accepted>>
-----------------------------------------------------------------------------
(***************************************************************************)
(* m_electronAcceptanceEfficiency is the "efficiency for electron          *)
(* acceptance" (Clic.h), 0.95 unless the caller says otherwise: that part  *)
(* of the electrons is kept.  The code keeps the rest.                     *)
(***************************************************************************)
EfficiencyIsMet ==
  u = 100 /\ InAcceptance => accepted >= Clic.electronAcceptanceEfficiency
=============================================================================
