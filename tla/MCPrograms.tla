------------------------------- MODULE MCPrograms -------------------------------
(***************************************************************************)
(* The programs on events of up to two particles.  The first may be any;   *)
(* the second leaves at most one deposit, true only or accepted, so that   *)
(* each pair of deposits meets in the later stages.  A reconstructed       *)
(* particle is linked to one element of its block or to all.               *)
(***************************************************************************)
EXTENDS Programs

MCParticleStep ==
  \E p \in UNION todo :
     IF p.index = 0 THEN SimulateParticle
     ELSE \/ \E ts \in DOMAIN Smeared : \E made \in Stored(ts) : Simulated(p, made)
          \/ NotExtrapolated(p, {})

MCStageStep == \/ stage = "simulate" /\ MCParticleStep
               \/ stage \in {"merge", "build", "simplify"} /\
                  \E S \in SUBSET UNION todo : MergeGroup(S) \/ MakeBlock(S)
               \/ \E b \in UNION todo : \E others \in {{}, Parents(b)} : MakeParticle(others)
               \/ MakeNothing
               \/ Finish

MCContinueEvent == \/ pc # 0 /\ processEvent /\ pc' = pc + 1
                   \/ MCStageStep /\ UNCHANGED pc
                   \/ EndEvent

MCprocess == at = "process" /\ MCContinueEvent /\ UNCHANGED <<displayVars, progVars>>

MCStep == \/ \E found \in BOOLEAN : readEvent(found)
          \/ MCprocess \/ processed
          \/ writeParticlesROOT \/ displayEvent \/ clearManager

MCSpec == ProgInit /\ [][MCStep]_allVars /\ WF_allVars(MCStep)
=============================================================================
