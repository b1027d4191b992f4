------------------------------- MODULE Simulation -------------------------------
(***************************************************************************)
(* The simulation of an event in detail (simulation/src/Simulator.cpp with *)
(* the propagators and the detectors): particle after particle, its path   *)
(* is extrapolated to the cylinders it may reach, and tracks and clusters  *)
(* are made, smeared, and stored if the detector accepts them.  Module     *)
(* PapasManager takes all this as one step for each particle whose outcome *)
(* is a choice; ImplementsManager shows that it allows what happens here.  *)
(*                                                                         *)
(* A particle has a species, a start in cylindrical coordinates, and a     *)
(* direction; it is level if it flies at a right angle to the beam.  None  *)
(* flies along the beam, at 90 degrees, where the resolution of the        *)
(* tracker of Clic is not known and ClicTracker::resolution throws.        *)
(***************************************************************************)
EXTENDS PapasManager, Detectors

CONSTANTS Energy,          \* of a particle
          Shares,          \* the parts of it a hadron may leave in the ecal
          SmearedEnergies, \* what smearing may make of an energy or a momentum
          Events           \* the particles of an event: index |-> what it is

Charged == {"electron", "muon", "chargedHadron", "softHadron"}
Species == Charged \cup {"photon", "neutralHadron", "neutrino", "unknown"}

Particle == [species : Species, start : [r : Nat, z : Nat], level : BOOLEAN,
             dir : [eta : Nat, theta : 0 .. 89, sin : Nat]]

ASSUME SimulationAssumption ==
  /\ Energy \in Nat /\ Shares \subseteq 0 .. Energy /\ SmearedEnergies \subseteq Int
  /\ \A kinds \in Events : \E n \in 0 .. NumParticles : kinds \in [0 .. n - 1 -> Particle]

VARIABLES detector,        \* the one the manager was made with
          ptc,             \* index |-> what the particle is
          points,          \* index |-> which cylinder gave each point of the path
          energy,          \* of the tracks and clusters
          current,         \* the particle that is simulated
          script,          \* what is still to be done about it
          fracEcal,        \* the energy a hadron has left in the ecal
          before           \* auxiliary: collections and history when it began

simVars == <<detector, ptc, points, energy, current, script, fracEcal, before>>
allVars == <<vars, simVars>>

NoParticle == [ts |-> "ps", index |-> -1]
busy == current # NoParticle

Positions == {"kEcalIn", "kEcalDecay", "kHcalIn"}
NoPoints == [position \in Positions |-> "none"]

Is(id, species) == ptc[id.index].species \in species

SimInit == /\ Init
           /\ detector \in {CMS, Clic}
           /\ ptc = <<>> /\ points = <<>> /\ energy = <<>>
           /\ current = NoParticle /\ script = <<>> /\ fracEcal = 0
           /\ before = [collections |-> <<>>, history |-> {}]

\* The caller makes the particles of an event, once, each with its path.
MakeParticles(kinds) ==
  /\ ~hasCollection("ps")
  /\ AddParticles(Cardinality(DOMAIN kinds))
  /\ ptc' = kinds
  /\ points' = [i \in DOMAIN kinds |-> NoPoints]
  /\ UNCHANGED <<detector, energy, current, script, fracEcal, before>>

-----------------------------------------------------------------------------
(***************************************************************************)
(* Propagators.  A straight line is not followed from outside the cylinder *)
(* nor across the beam.  A helix that starts within the radius meets the   *)
(* barrel or goes on to an endcap; one that starts farther out may miss    *)
(* it.  The tracker has no inner cylinder, and so one of radius and length *)
(* zero: only what starts on the beam can meet it.                         *)
(***************************************************************************)
straightMeets(k, cyl) ==
  /\ k.start.z <= detector.z[cyl] /\ k.start.r <= detector.radius[cyl]
  /\ ~k.level

\* Mutant of helixMayMiss: a helix that misses the barrel is not followed to an endcap.
barrelMayBeMissed(k, cyl) == TRUE

helixMayMiss(k, cyl) == detector.radius[cyl] <= k.start.r
helixMayMeet(k, cyl) == cyl = "tracker" => k.start.r = 0

Meets(k, cyl) ==
  IF k.species \in Charged THEN {m \in BOOLEAN : IF m THEN helixMayMeet(k, cyl) ELSE helixMayMiss(k, cyl)}
  ELSE {straightMeets(k, cyl)}

\* Mutant of Script: the elements are taken from the outside in.
ScriptOutsideIn(k) ==
  CASE k.species = "photon"         -> <<"toEcal", "ecalCluster", "smearEcal">>
    [] k.species = "electron"       -> <<"toEcal", "track", "smearTrack">>
    [] k.species = "muon"           -> <<"toHcal", "toEcal", "toTracker", "track", "smearTrack">>
    [] k.species = "neutrino"       -> <<"toHcal", "toEcal", "toTracker">>
    [] k.species = "chargedHadron" -> <<"toEcal", "track", "smearTrack", "decay", "ecalCluster",
                                         "smearEcal", "toHcal", "hcalCluster", "smearHcal">>
    [] k.species = "neutralHadron" -> <<"toEcal", "decay", "ecalCluster",
                                         "smearEcal", "toHcal", "hcalCluster", "smearHcal">>
    [] OTHER                        -> <<>>

\* What simulateParticle does about a particle of each species: simulatePhoton,
\* simulateElectron and so on.  Charged hadrons of low pt are passed over, and so is
\* what papas does not know.
Script(k) ==
  CASE k.species = "photon"         -> <<"toEcal", "ecalCluster", "smearEcal">>
    [] k.species = "electron"       -> <<"toEcal", "track", "smearTrack">>
    [] k.species = "muon"           -> <<"toTracker", "toEcal", "toHcal", "track", "smearTrack">>
    [] k.species = "neutrino"       -> <<"toTracker", "toEcal", "toHcal">>
    [] k.species = "chargedHadron" -> <<"toEcal", "track", "smearTrack", "decay", "ecalCluster",
                                         "smearEcal", "toHcal", "hcalCluster", "smearHcal">>
    [] k.species = "neutralHadron" -> <<"toEcal", "decay", "ecalCluster",
                                         "smearEcal", "toHcal", "hcalCluster", "smearHcal">>
    [] OTHER                        -> <<>>

simulateParticle(p) ==
  /\ stage = "simulate" /\ ~busy
  /\ \E g \in todo : p = First(g)
  /\ current' = p /\ script' = Script(ptc[p.index]) /\ fracEcal' = 0
  /\ before' = [collections |-> collections, history |-> history]
  /\ UNCHANGED <<vars, detector, ptc, points, energy>>

\* The next thing to do about the current particle.
Do(what) == busy /\ script # <<>> /\ Head(script) = what

To == [tracker |-> "toTracker", ecal |-> "toEcal", hcal |-> "toHcal"]

propagateOne(cyl) ==
  /\ Do(To[cyl])
  /\ \E m \in Meets(ptc[current.index], cyl) :
        points' = IF m THEN [points EXCEPT ![current.index][innerLayer(cyl)] = cyl] ELSE points
  /\ script' = Tail(script)
  /\ UNCHANGED <<vars, detector, ptc, energy, current, fracEcal, before>>

hasNamedPoint(id, position) == points[id.index][position] # "none"

\* A hadron that reaches the ecal decays at a random depth: within its volume, or not.
decay ==
  /\ Do("decay")
  /\ \/ /\ \E share \in Shares : fracEcal' = share
        /\ hasNamedPoint(current, "kEcalIn")
        /\ points' = [points EXCEPT ![current.index]["kEcalDecay"] = "ecal"]
        /\ script' = Tail(script)
     \/ /\ points' = IF hasNamedPoint(current, "kEcalIn")
                     THEN [points EXCEPT ![current.index]["kEcalDecay"] = "ecal"] ELSE points
        /\ script' = SubSeq(script, 4, Len(script))
        /\ UNCHANGED fracEcal
  /\ UNCHANGED <<vars, detector, ptc, energy, current, before>>
-----------------------------------------------------------------------------
\* An object is stored with its energy and linked to what it comes from.
Store(id, parent, e) ==
  /\ collections' = [collections EXCEPT ![Address(id.ts)] = @ \cup {id}]
  /\ history' = history \cup {<<parent, id>>}
  /\ energy' = [i \in DOMAIN energy \cup {id} |-> IF i = id THEN e ELSE energy[i]]

\* makeAndStoreTrack.
makeAndStoreTrack ==
  /\ Do("track")
  /\ Store(New("tt"), current, Energy)
  /\ script' = Tail(script)
  /\ UNCHANGED <<folder, failed, stage, out, todo, detector, ptc, points, current, fracEcal, before>>

PositionOf(ts) == IF ts \in {"et", "es", "em"} THEN "kEcalIn" ELSE "kHcalIn"

\* A photon leaves all its energy in the ecal, a hadron what it does not leave there in
\* the hcal.
Deposited(ts) ==
  CASE ts = "et" -> IF Is(current, {"photon"}) THEN Energy ELSE fracEcal
    [] ts = "ht" -> Energy - fracEcal

\* makeAndStoreEcalCluster and makeAndStoreHcalCluster: no point, no cluster, and no event.
makeAndStoreCluster(ts, what) ==
  /\ Do(what)
  /\ IF hasNamedPoint(current, PositionOf(ts))
     THEN /\ Store(New(ts), current, Deposited(ts))
          /\ script' = Tail(script)
          /\ UNCHANGED <<folder, failed, stage, out, todo, current>>
     ELSE /\ Throw("simulation")
          /\ current' = NoParticle /\ script' = <<>>
          /\ UNCHANGED <<collections, history, energy>>
  /\ UNCHANGED <<detector, ptc, points, fracEcal, before>>

\* The track or cluster that has just been made, and what the detector asks to accept
\* what smearing has made of it.
Latest(ts) == [ts |-> ts, index |-> Cardinality(collections[Address(ts)]) - 1]

Accepted(ts, e, u) ==
  LET k == ptc[current.index] IN
  IF ts = "ts"
  THEN trackAcceptance(detector.name, IF k.species \in {"electron", "muon"} THEN k.species ELSE "hadron",
                       e, k.dir, u)
  ELSE clusterAcceptance(detector.name, IF ts = "es" THEN "ecal" ELSE "hcal", e, k.dir, u < 50)

\* Mutant of smear: what is rejected is stored all the same.
smearAcceptingAll(ts, what) ==
  /\ Do(what)
  /\ \E e \in SmearedEnergies : Store(New(ts), Latest(TrueOf[ts]), e)
  /\ script' = Tail(script)
  /\ UNCHANGED <<folder, failed, stage, out, todo, detector, ptc, points, current, fracEcal, before>>

\* Mutant of smear: what is smeared is linked to the particle.
smearFromParticle(ts, what) ==
  /\ Do(what)
  /\ \E e \in SmearedEnergies, u \in {0, 92, 97} :
       IF Accepted(ts, e, u) THEN Store(New(ts), current, e)
       ELSE UNCHANGED <<collections, history, energy>>
  /\ script' = Tail(script)
  /\ UNCHANGED <<folder, failed, stage, out, todo, detector, ptc, points, current, fracEcal, before>>

\* smearTrack or smearCluster, then storeSmeared... if it is accepted.
smear(ts, what) ==
  /\ Do(what)
  /\ \E e \in SmearedEnergies, u \in {0, 92, 97} :
       IF Accepted(ts, e, u) THEN Store(New(ts), Latest(TrueOf[ts]), e)
       ELSE UNCHANGED <<collections, history, energy>>
  /\ script' = Tail(script)
  /\ UNCHANGED <<folder, failed, stage, out, todo, detector, ptc, points, current, fracEcal, before>>

\* On to the next particle.
particleDone ==
  /\ busy /\ script = <<>>
  /\ todo' = {(UNION todo) \ {current}} \ {{}}
  /\ current' = NoParticle
  /\ UNCHANGED <<eventVars, stage, out, detector, ptc, points, energy, script, fracEcal, before>>

\* The Simulator is made and goes; what it has stored stays until the event is cleared.
SimulateEvent == Simulate /\ UNCHANGED simVars
FinishSimulation == ~busy /\ Finish /\ UNCHANGED simVars
ClearEvent ==
  /\ clear
  /\ ptc' = <<>> /\ points' = <<>> /\ energy' = <<>> /\ fracEcal' = 0
  /\ before' = [collections |-> <<>>, history |-> {}]
  /\ UNCHANGED <<detector, current, script>>

SimStep == \/ \E p \in UNION todo : simulateParticle(p)
           \/ \E i \in DOMAIN elements : propagateOne(elements[i])
           \/ decay
           \/ makeAndStoreTrack
           \/ makeAndStoreCluster("et", "ecalCluster")
           \/ makeAndStoreCluster("ht", "hcalCluster")
           \/ smear("ts", "smearTrack")
           \/ smear("es", "smearEcal")
           \/ smear("hs", "smearHcal")
           \/ particleDone
           \/ FinishSimulation

SimNext == \/ \E kinds \in Events : MakeParticles(kinds)
           \/ SimulateEvent \/ SimStep \/ ClearEvent

SimSpec == SimInit /\ [][SimNext]_allVars
-----------------------------------------------------------------------------
\* As PapasManager sees it, the current particle has left nothing yet.
Manager == INSTANCE PapasManager
             WITH collections <- IF busy THEN before.collections ELSE collections,
                  history <- IF busy THEN before.history ELSE history

(***************************************************************************)
(* What becomes of a particle here, whatever its species, its path and     *)
(* what the detector accepts, is one of the choices of PapasManager, on    *)
(* which all later stages are checked: nothing half done is seen by them,  *)
(* unless the particle is the one that ends the event.                     *)
(***************************************************************************)
ImplementsManager == Manager!Spec

(***************************************************************************)
(* The points of a path, by which a track is linked to clusters, lie on    *)
(* the cylinders they are named for.  The tracker, which comes first among *)
(* the elements a muon is propagated to, gives its point the name of the   *)
(* hcal; a muon that has met it must meet the hcal as well.                *)
(***************************************************************************)
PointsAreOnTheirCylinders ==
  ~busy => \A i \in DOMAIN points : /\ points[i]["kEcalIn"] \in {"none", "ecal"}
                                     /\ points[i]["kHcalIn"] \in {"none", "hcal"}

(***************************************************************************)
(* Smearing may turn an energy negative, and the line that cut it off at   *)
(* zero is commented out; every threshold of both detectors is positive,   *)
(* so that what is stored has a positive energy all the same.              *)
(***************************************************************************)
StoredEnergyIsPositive ==
  \A ts \in {"es", "hs", "ts"} : \A id \in collectionIds(ts) : energy[id] > 0

\* A particle that cannot be extrapolated to a calorimeter it should leave a cluster in.
Unreachable(k) ==
  \/ /\ k.species = "photon"
     /\ k.level \/ k.start.r > detector.radius["ecal"] \/ k.start.z > detector.z["ecal"]
  \/ /\ k.species = "neutralHadron"
     /\ k.level \/ k.start.r > detector.radius["hcal"] \/ k.start.z > detector.z["hcal"]
  \/ k.species = "chargedHadron" /\ k.start.r >= detector.radius["hcal"]

(***************************************************************************)
(* An event is discarded only on account of a neutral particle that starts *)
(* outside its calorimeter's inner cylinder, or flies at a right angle to  *)
(* the beam, or of a charged hadron that starts beyond the radius of the   *)
(* hcal: never of a lepton, and never of a charged hadron from inside.     *)
(***************************************************************************)
DiscardIsExplained ==
  [][failed = "no" /\ failed' = "simulation" => busy /\ Unreachable(ptc[current.index])]_allVars
=============================================================================
