------------------------------- MODULE EventLoop -------------------------------
(***************************************************************************)
(* processEvent (examples/PythiaConnector.cpp), which all programs call:   *)
(* it clears the manager, runs the stages on the next event one after      *)
(* another, and catches what they throw.  Module Programs composes it with *)
(* what the programs do around it.                                         *)
(***************************************************************************)
EXTENDS PapasManager

VARIABLE pc                \* the number of the call that is next, 0 between events

loopVars == <<vars, pc>>

LoopInit == Init /\ pc = 0

\* Mutant of processEvent: the ecals are merged twice, the hcals not at all.
processEventMergingAgain ==
  CASE pc = 0 -> clear
    [] pc = 1 -> \E n \in 0 .. NumParticles : AddParticles(n)
    [] pc = 2 -> Simulate
    [] pc = 3 -> mergeClusters("es")
    [] pc = 4 -> mergeClusters("es")
    [] pc = 5 -> buildBlocks("em", "hm", "ts")
    [] pc = 6 -> simplifyBlocks("br")
    [] pc = 7 -> reconstruct("bs")
    [] OTHER -> FALSE

\* Mutant of processEvent: the blocks are built before the hcals are merged.
processEventBlocksFirst ==
  CASE pc = 0 -> clear
    [] pc = 1 -> \E n \in 0 .. NumParticles : AddParticles(n)
    [] pc = 2 -> Simulate
    [] pc = 3 -> mergeClusters("es")
    [] pc = 4 -> buildBlocks("em", "hm", "ts")
    [] pc = 5 -> mergeClusters("hs")
    [] pc = 6 -> simplifyBlocks("br")
    [] pc = 7 -> reconstruct("bs")
    [] OTHER -> FALSE

\* The calls of processEvent, in its order.
processEvent ==
  CASE pc = 0 -> clear
    [] pc = 1 -> \E n \in 0 .. NumParticles : AddParticles(n)
    [] pc = 2 -> Simulate
    [] pc = 3 -> mergeClusters("es")
    [] pc = 4 -> mergeClusters("hs")
    [] pc = 5 -> buildBlocks("em", "hm", "ts")
    [] pc = 6 -> simplifyBlocks("br")
    [] pc = 7 -> reconstruct("bs")
    [] OTHER -> FALSE

\* The next event, if the program wants one.
StartEvent == pc = 0 /\ processEvent /\ pc' = 1

\* Mutant of EndEvent: an exception is not caught.
EndEventNormally ==
  /\ pc = 8 /\ Idle
  /\ pc' = 0
  /\ UNCHANGED vars

\* The event ends after the last call, or when an exception is caught.  What
\* the event holds by then stays until the next event starts.
EndEvent ==
  /\ (pc = 8 /\ Idle) \/ (pc # 0 /\ failed # "no")
  /\ pc' = 0
  /\ UNCHANGED vars

\* What the program does without being asked again.
ContinueEvent == \/ pc # 0 /\ processEvent /\ pc' = pc + 1
                 \/ StageStep /\ UNCHANGED pc
                 \/ EndEvent
-----------------------------------------------------------------------------
(***************************************************************************)
(* In the order in which processEvent calls the stages, no collection is   *)
(* refused and no cluster merged twice: the simulation is the only stage   *)
(* that may throw.                                                         *)
(***************************************************************************)
OnlySimulationThrows == failed \in {"no", "simulation"}

\* The blocks of subtype s that identifier id has gone into.
BlocksOf(id) == {b \in collectionIds("bs") : id \in linkedIds(b)}

(***************************************************************************)
(* When processEvent is through with an event, each smeared track and each *)
(* smeared cluster has gone into one and only one simplified block: no     *)
(* stage loses one or hands it on twice on the way to the reconstruction.  *)
(***************************************************************************)
EachDepositInOneBlock ==
  pc = 8 /\ Idle =>
     \A ts \in {"es", "hs", "ts"} : \A id \in collectionIds(ts) :
        Cardinality(BlocksOf(id)) = 1
=============================================================================
