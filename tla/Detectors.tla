------------------------------- MODULE Detectors -------------------------------
(***************************************************************************)
(* The two detectors of papas, CMS and CLIC (detectors/cms, detectors/     *)
(* clic): their cylinders, what the default ones are made with, and which  *)
(* clusters and tracks they accept.                                        *)
(*                                                                         *)
(* Energies and momenta are in tenths of a GeV, eta in thousandths, angles *)
(* in degrees from the transverse plane, lengths in hundredths of a metre  *)
(* and probabilities in percent.  A direction gives its eta, its angle and *)
(* the sine of its polar angle in percent; all are taken positive.  A      *)
(* random number u of 0 .. 99 stands for uniform(0, 1).                    *)
(***************************************************************************)
EXTENDS Integers

\* Where a path meets a detector element, and which element labels it so: only
\* the ecal has a label of its own, all other cylinders get that of the hcal.
innerLayer(element) == IF element = "ecal" THEN "kEcalIn" ELSE "kHcalIn"

\* The elements in the order of Detector::setupElements.
elements == <<"tracker", "ecal", "hcal">>

\* CreateDefaultCMS.
CMS == [name |-> "CMS",
        radius |-> [tracker |-> 0, ecal |-> 130, hcal |-> 190],
        z |-> [tracker |-> 0, ecal |-> 200, hcal |-> 260],
        etaCrack |-> 1479, emin |-> [barrel |-> 3, endcap |-> 10],
        etaAcceptanceThreshold |-> 2930, ptAcceptanceThreshold |-> 2,
        hcalEtaCrack |-> 1300,
        hcal |-> [barrel |-> 10, endcap |-> 11, forward |-> 70,
                  endcapEta |-> 3000, forwardEta |-> 5000],
        ptThreshold |-> 5, etaThresholdLow |-> 1350, ptProbabilityLow |-> 95,
        etaThresholdHigh |-> 2500, ptProbabilityHigh |-> 90,
        electronAcceptanceMagnitude |-> 50, electronAcceptanceEta |-> 2500,
        muonAcceptanceMagnitude |-> 75, muonAcceptanceTheta |-> 80]

\* CreateDefaultClic.  ClicTracker::thetaMax returns its double as a bool: one
\* radian, which is 57 degrees, in place of 80 degrees.
Clic == [name |-> "Clic",
         radius |-> [tracker |-> 0, ecal |-> 215, hcal |-> 240],
         z |-> [tracker |-> 0, ecal |-> 260, hcal |-> 285],
         etaJunction |-> 1021, emin |-> [barrel |-> 5, endcap |-> 5],
         etaAcceptance |-> 2760,
         hcalEtaAcceptance |-> 2760, energyAcceptance |-> 10,
         m_thetaMax |-> 80, thetaMax |-> 57,
         ptThresholdLow |-> 4, ptProbabilityLow |-> 95,
         ptThresholdHigh |-> 20, ptProbabilityHigh |-> 99,
         electronAcceptanceMagnitude |-> 50, electronAcceptanceEfficiency |-> 95,
         muonAcceptanceMagnitude |-> 75, muonAcceptanceTheta |-> 80]

\* The part of a momentum or an energy across the beam.
Pt(p, dir) == (p * dir.sin) \div 100

-----------------------------------------------------------------------------
CMSECALacceptance(e, dir) ==
  \/ dir.eta < CMS.etaCrack /\ e > CMS.emin.barrel
  \/ /\ dir.eta >= CMS.etaCrack /\ dir.eta < CMS.etaAcceptanceThreshold
     /\ e > CMS.emin.endcap /\ Pt(e, dir) > CMS.ptAcceptanceThreshold

\* Above its thresholds the turn-on curves of the hcal leave it open.
CMSHCALacceptance(e, dir, lucky) ==
  \/ dir.eta < CMS.hcalEtaCrack /\ e > CMS.hcal.barrel /\ lucky
  \/ /\ dir.eta >= CMS.hcalEtaCrack /\ dir.eta < CMS.hcal.endcapEta
     /\ e > CMS.hcal.endcap /\ lucky
  \/ /\ dir.eta >= CMS.hcal.endcapEta /\ dir.eta < CMS.hcal.forwardEta
     /\ e > CMS.hcal.forward

CMSTrackerAcceptance(p, dir, u) ==
  /\ Pt(p, dir) > CMS.ptThreshold
  /\ \/ dir.eta < CMS.etaThresholdLow /\ u < CMS.ptProbabilityLow
     \/ /\ dir.eta >= CMS.etaThresholdLow /\ dir.eta < CMS.etaThresholdHigh
        /\ u < CMS.ptProbabilityHigh

CMSelectronAcceptance(p, dir) ==
  p > CMS.electronAcceptanceMagnitude /\ dir.eta < CMS.electronAcceptanceEta

CMSmuonAcceptance(p, dir) ==
  p > CMS.muonAcceptanceMagnitude /\ dir.theta < CMS.muonAcceptanceTheta

-----------------------------------------------------------------------------
ClicECALacceptance(e, dir) ==
  \/ dir.eta < Clic.etaJunction /\ e > Clic.emin.barrel
  \/ /\ dir.eta >= Clic.etaJunction /\ dir.eta < Clic.etaAcceptance
     /\ e > Clic.emin.endcap

ClicHCALacceptance(e, dir) == dir.eta < Clic.hcalEtaAcceptance /\ e > Clic.energyAcceptance

\* What is above the upper threshold is above the lower one, which is asked first.
ClicTrackerAcceptance(p, dir, u) ==
  /\ dir.theta < Clic.m_thetaMax
  /\ \/ Pt(p, dir) > Clic.ptThresholdLow /\ u < Clic.ptProbabilityLow
     \/ /\ Pt(p, dir) <= Clic.ptThresholdLow /\ Pt(p, dir) > Clic.ptThresholdHigh
        /\ u < Clic.ptProbabilityHigh

\* An electron is kept if the random number is above the efficiency.
ClicElectronAcceptance(p, dir, u) ==
  /\ Pt(p, dir) > Clic.electronAcceptanceMagnitude
  /\ dir.theta < Clic.thetaMax
  /\ u > Clic.electronAcceptanceEfficiency

ClicMuonAcceptance(p, dir) ==
  p > Clic.muonAcceptanceMagnitude /\ dir.theta < Clic.muonAcceptanceTheta

-----------------------------------------------------------------------------
\* Detector::calorimeter and the virtual functions of the detector.
clusterAcceptance(d, layer, e, dir, lucky) ==
  CASE d = "CMS" /\ layer = "ecal"  -> CMSECALacceptance(e, dir)
    [] d = "CMS" /\ layer = "hcal"  -> CMSHCALacceptance(e, dir, lucky)
    [] d = "Clic" /\ layer = "ecal" -> ClicECALacceptance(e, dir)
    [] d = "Clic" /\ layer = "hcal" -> ClicHCALacceptance(e, dir)

trackAcceptance(d, species, p, dir, u) ==
  CASE d = "CMS" /\ species = "electron"  -> CMSelectronAcceptance(p, dir)
    [] d = "CMS" /\ species = "muon"      -> CMSmuonAcceptance(p, dir)
    [] d = "Clic" /\ species = "electron" -> ClicElectronAcceptance(p, dir, u)
    [] d = "Clic" /\ species = "muon"     -> ClicMuonAcceptance(p, dir)
    [] d = "CMS" /\ species = "hadron"    -> CMSTrackerAcceptance(p, dir, u)
    [] d = "Clic" /\ species = "hadron"   -> ClicTrackerAcceptance(p, dir, u)
=============================================================================
