-------------------------------- MODULE Programs --------------------------------
(***************************************************************************)
(* The programs that use papas: example_simple processes an event, writes  *)
(* the reconstructed particles to a file, and displays it; example_plot    *)
(* displays it and clears the manager; example_loop and                    *)
(* example_pdebug_python_comparer process one event after another and      *)
(* clear the manager in between.                                           *)
(*                                                                         *)
(* processEvent (examples/PythiaConnector.cpp) clears the manager itself,  *)
(* but only for an event that has a collection of generated particles.     *)
(***************************************************************************)
EXTENDS EventLoop, Display

CONSTANT NumEvents         \* of the programs with a loop, ten in the code

ASSUME NumEventsAssumption == NumEvents \in Nat \ {0}

VARIABLES program, at,     \* which one runs, and where it is
          i,               \* its number of the event
          eventNo,         \* the event's own
          written,         \* the particles in the file
          source           \* auxiliary: the event that the manager's objects are of

progVars == <<program, at, i, eventNo, written, source>>
allVars == <<loopVars, displayVars, progVars>>

ProgInit == /\ LoopInit /\ DisplayInit
            /\ program \in {"simple", "plot", "loop"}
            /\ at = "read" /\ i = 0 /\ eventNo = 0
            /\ written = {} /\ source = 0

\* processEvent up to where it catches: the store has particles, or it has none.
readEvent(found) ==
  /\ at = "read"
  /\ at' = "process"
  /\ eventNo' = i
  /\ IF found THEN StartEvent /\ source' = i ELSE UNCHANGED <<loopVars, source>>
  /\ UNCHANGED <<displayVars, program, i, written>>

process ==
  /\ at = "process"
  /\ ContinueEvent
  /\ UNCHANGED <<displayVars, progVars>>

\* Mutant of AfterEvent: the loop goes on to the next event at once.
AfterEventUncleared ==
  CASE program = "simple" -> "write"
    [] program = "plot"   -> "show"
    [] program = "loop"   -> IF i + 1 < NumEvents THEN "read" ELSE "end"

AfterEvent ==
  CASE program = "simple" -> "write"
    [] program = "plot"   -> "show"
    [] program = "loop"   -> IF i + 1 < NumEvents THEN "clear" ELSE "end"

\* processEvent returns.
processed ==
  /\ at = "process" /\ pc = 0
  /\ at' = AfterEvent
  /\ i' = IF program = "loop" THEN i + 1 ELSE i
  /\ UNCHANGED <<loopVars, displayVars, program, eventNo, written, source>>

writeParticlesROOT ==
  /\ at = "write"
  /\ written' = collectionIds("pr")
  /\ at' = "show"
  /\ UNCHANGED <<loopVars, displayVars, program, i, eventNo, source>>

displayEvent ==
  /\ at = "show"
  /\ display(collectionIds("ps"), collectionIds("es") \cup collectionIds("hs"))
  /\ at' = IF program = "plot" THEN "clear" ELSE "end"
  /\ UNCHANGED <<loopVars, program, i, eventNo, written, source>>

clearManager ==
  /\ at = "clear"
  /\ clear /\ UNCHANGED pc
  /\ at' = IF program = "loop" THEN "read" ELSE "end"
  /\ UNCHANGED <<displayVars, program, i, eventNo, written, source>>

ProgStep == \/ \E found \in BOOLEAN : readEvent(found)
            \/ process \/ processed
            \/ writeParticlesROOT \/ displayEvent \/ clearManager

\* The one thread of the program goes on until main returns.
ProgSpec == ProgInit /\ [][ProgStep]_allVars /\ WF_allVars(ProgStep)
-----------------------------------------------------------------------------
(***************************************************************************)
(* The number of the event is that of the event its objects are of.        *)
(* processEvent sets the number before it knows whether there are          *)
(* particles; where there are none, what the manager held stays, under the *)
(* new number.  The loops clear the manager in time.                       *)
(***************************************************************************)
NumberIsOfTheEvent == collections # <<>> => source = eventNo

Shown(v) == UNION {canvas[v][n] : n \in DOMAIN canvas[v]}

(***************************************************************************)
(* A discarded event stays in the manager, and example_simple goes on with *)
(* it as with any other.  Nothing half done comes out: clusters are shown  *)
(* and particles written only of an event that went through all stages.    *)
(***************************************************************************)
NothingHalfDoneComesOut ==
  failed # "no" => /\ written = {}
                   /\ \A v \in DOMAIN canvas : \A d \in Shown(v) : d = Detector \/ d.ts = "ps"

(***************************************************************************)
(* When example_simple and example_plot end, the windows show the detector *)
(* beneath the event: that example_plot has cleared the manager by then,   *)
(* and that the PFApp is gone, takes nothing away.                         *)
(***************************************************************************)
PictureOutlivesTheEvent ==
  at = "end" /\ program # "loop" => \A v \in Views :
     /\ v \in DOMAIN canvas /\ canvas[v] # <<>> /\ Head(canvas[v]) = {Detector}
     /\ program = "simple" =>
          Shown(v) = {Detector} \cup UNION {collectionIds(ts) : ts \in {"ps", "es", "hs"}}

(***************************************************************************)
(* Each program comes to its end, whatever its events are like: each stage *)
(* works through what it is given, and whatever a stage throws is caught.  *)
(***************************************************************************)
ProgramEnds == <>(at = "end")
=============================================================================
