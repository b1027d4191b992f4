---------------------------- MODULE MCPapasManager ----------------------------
(***************************************************************************)
(* The stages in any order, twice if the caller likes, on two particles,   *)
(* with the arguments that matter: clusters of the ecal, merged before or  *)
(* after the blocks are built, and merged again.  The first particle is a  *)
(* hadron or leaves nothing, the second leaves an accepted cluster in the  *)
(* ecal, so that there may be two of them to merge.                        *)
(***************************************************************************)
EXTENDS PapasManager

MCCall == \/ AddParticles(2)
          \/ Simulate
          \/ \E ts \in {"es", "em"} : mergeClusters(ts)
          \/ buildBlocks("em", "hs", "ts")
          \/ simplifyBlocks("br")
          \/ reconstruct("bs")
          \/ clear

MCParticleStep ==
  \E p \in UNION todo :
     IF p.index = 0 THEN simulateHadron(p) \/ simulateNothing(p)
     ELSE Simulated(p, {"et", "es"})

MCStageStep == \/ stage = "simulate" /\ MCParticleStep
               \/ stage \in {"merge", "build", "simplify"} /\
                  \E S \in SUBSET UNION todo : MergeGroup(S) \/ MakeBlock(S)
               \/ \E b \in UNION todo : MakeParticle(Parents(b))
               \/ MakeNothing
               \/ Finish

MCSpec == Init /\ [][MCCall \/ MCStageStep]_vars
=============================================================================
