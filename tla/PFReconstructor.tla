---------------------------- MODULE PFReconstructor ----------------------------
(***************************************************************************)
(* PFReconstructor (reconstruction/src/PFReconstructor.cpp): the particle  *)
(* flow, which turns the elements of each simplified block into particles. *)
(* Muons and electrons come first, then, unless one element is left alone, *)
(* each hcal with its tracks and their ecals, then the tracks without an   *)
(* hcal.  What is not locked by then is unused.                            *)
(*                                                                         *)
(* Energies are small numbers.  Whether an excess of calorimeter energy is *)
(* more than two sigma is a choice.                                        *)
(***************************************************************************)
EXTENDS PFBlocks, Integers, Sequences, SequencesExt, Functions

CONSTANTS Energy,              \* the energies of the elements
          KaonMass             \* of the K0 a neutral hadron is taken for

ASSUME EnergyAssumption == Energy \subseteq Nat \ {0} /\ KaonMass \in Nat
ASSUME FiniteAssumption == IsFiniteSet(Element)

VARIABLES energy,              \* of each element
          origin,              \* of each track, what isFromParticle finds
          queue,               \* the blocks still to come
          block, step,         \* the block it is at, and where in reconstructBlock
          uids,                \* the elements muons and electrons leave
          hcals,               \* those of the block still to come
          m_locked, m_unused, m_particles

recVars == <<energy, origin, queue, block, step, uids, hcals, m_locked, m_unused, m_particles>>
vars == <<blockVars, recVars>>

NoBlock == [elementIds |-> {}, links |-> {}]

ParticleRecord == [kind : {"muon", "electron", "hadron", "photon", "K0"},
                   energy : Nat, parents : SUBSET Element]

RecTypeOK ==
  /\ TypeOK
  /\ energy \in [Element -> Energy]
  /\ origin \in [Track -> {"muon", "electron", "hadron"}]
  /\ queue \in SUBSET simplified
  /\ block \in simplified \cup {NoBlock}
  /\ step \in {"begin", "next", "muons", "electrons", "alone", "hcals", "tracks", "rest"}
  /\ uids \in SUBSET block.elementIds
  /\ hcals \in SUBSET (Hcal \cap uids)
  /\ m_locked \in SUBSET Element
  /\ m_unused \in SUBSET (Element \ m_locked)
  /\ m_particles \in Seq(ParticleRecord)

\* The path of an electron is followed to the ecal only (module Simulation), so
\* that its track is not linked to an hcal.
Inputs == /\ energy \in [Element -> Energy]
          /\ origin \in [Track -> {"muon", "electron", "hadron"}]
          /\ \A l \in DOMAIN edges : l[2] \in Hcal => origin[l[1]] # "electron"

RecInit == /\ Init
           /\ Inputs
           /\ step = "begin"
           /\ queue = {} /\ block = NoBlock /\ uids = {} /\ hcals = {}
           /\ m_locked = {} /\ m_unused = {} /\ m_particles = <<>>

Total(ids) == SumFunctionOnSet(energy, ids)

-----------------------------------------------------------------------------
\* insertParticle.  The block is a parent of each particle and is left out.
Particle(kind, e, parents) == [kind |-> kind, energy |-> e, parents |-> parents]

\* Identifiers are sorted by energy, the highest first; those of the same energy
\* by their numbers, and so in any order.
ByEnergy(tracks) ==
  {s \in SetToSeqs(tracks) : \A i, j \in DOMAIN s : i < j => energy[s[i]] >= energy[s[j]]}

\* reconstructTrack for each of the tracks.
Charged(ordered, kind, parents) ==
  [i \in DOMAIN ordered |-> Particle(kind, energy[ordered[i]], parents[ordered[i]])]

\* reconstructCluster makes no particle below the mass.
TooSoft(kind, e) == kind = "K0" /\ e < KaonMass

Neutral(kind, e, parents) ==
  IF TooSoft(kind, e) THEN <<>> ELSE <<Particle(kind, e, parents)>>

BeginReconstruction ==
  /\ phase = "done" /\ step = "begin"
  /\ queue' = simplified
  /\ step' = "next"
  /\ UNCHANGED <<blockVars, energy, origin, block, uids, hcals, m_locked, m_unused, m_particles>>

reconstructBlock(b) ==
  /\ step = "next"
  /\ b \in queue
  /\ queue' = queue \ {b}
  /\ block' = b
  /\ m_locked' = m_locked \ b.elementIds
  /\ step' = "muons"
  /\ UNCHANGED <<blockVars, energy, origin, uids, hcals, m_unused, m_particles>>

\* The tracks of the block that come from a lepton of this kind.
From(kind) == {t \in Track \cap block.elementIds : origin[t] = kind}

Itself == [t \in Track |-> {t}]

Leptons(kind) ==
  /\ \E ordered \in ByEnergy(From(kind) \ m_locked) :
       m_particles' = m_particles \o Charged(ordered, kind, Itself)
  /\ m_locked' = m_locked \cup From(kind)

reconstructMuons ==
  /\ step = "muons"
  /\ Leptons("muon")
  /\ step' = "electrons"
  /\ UNCHANGED <<blockVars, energy, origin, queue, block, uids, hcals, m_unused>>

reconstructElectrons ==
  /\ step = "electrons"
  /\ Leptons("electron")
  /\ uids' = block.elementIds \ m_locked'
  /\ hcals' = IF Cardinality(uids') = 1 THEN {} ELSE Hcal \cap uids'
  /\ step' = IF Cardinality(uids') = 1 THEN "alone" ELSE "hcals"
  /\ UNCHANGED <<blockVars, energy, origin, queue, block, m_unused>>

\* One element is left: it makes a photon, a neutral or a charged hadron.
reconstructAlone ==
  /\ step = "alone"
  /\ \E id \in uids :
       /\ m_particles' = m_particles \o
            CASE id \in Ecal  -> Neutral("photon", energy[id], {id})
              [] id \in Hcal  -> Neutral("K0", energy[id], {id})
              [] id \in Track -> Charged(<<id>>, "hadron", Itself)
       /\ m_locked' = IF id \in Hcal /\ TooSoft("K0", energy[id]) THEN m_locked
                      ELSE m_locked \cup {id}
  /\ step' = "rest"
  /\ UNCHANGED <<blockVars, energy, origin, queue, block, uids, hcals, m_unused>>

-----------------------------------------------------------------------------
\* What a track is linked to, all of which become parents of its particle.
WithLinks == [t \in Track |-> {t} \cup EcalsOf(t, block) \cup HcalsOf(t, block)]

\* Mutant of TracksToMake: reconstructTrack does not look at m_locked.
AllTracks(h) == TracksOf(h, block)

TracksToMake(h) == TracksOf(h, block) \ m_locked

\* Mutant of EcalsOfTracks: ecals that went to another hcal are counted again.
AllEcalsOfTracks(h) == UNION {EcalsOf(t, block) : t \in TracksOf(h, block)}

\* The ecals linked to the tracks of hcal h, unless another hcal has had them.
EcalsOfTracks(h) == (UNION {EcalsOf(t, block) : t \in TracksOf(h, block)}) \ m_locked

\* Calorimeter energy over the energy of the tracks.
Excess(h) == energy[h] + Total(EcalsOfTracks(h)) - Total(TracksOf(h, block))

\* Up to the energy of the ecals the excess is a photon, beyond it a K0.
NeutralsFromExcess(h) ==
  LET ecals == EcalsOfTracks(h) IN
  IF Excess(h) <= Total(ecals) THEN Neutral("photon", Excess(h), ecals)
  ELSE Neutral("K0", Excess(h) - Total(ecals), {h})
       \o (IF ecals = {} THEN <<>> ELSE Neutral("photon", Total(ecals), ecals))

\* Mutant of LockedBy: the hcal itself is not locked.
LockedButHcal(h) == TracksOf(h, block) \cup EcalsOfTracks(h)

LockedBy(h) == TracksOf(h, block) \cup EcalsOfTracks(h) \cup {h}

\* The hcals are gone through in descending order of their energies.
reconstructHcal(h, significant) ==
  /\ step = "hcals"
  /\ h \in hcals /\ \A k \in hcals : energy[k] <= energy[h]
  /\ significant => TracksOf(h, block) # {} /\ Excess(h) > 0
  /\ LET neutrals == IF TracksOf(h, block) = {} THEN Neutral("K0", energy[h], {h})
                     ELSE IF significant THEN NeutralsFromExcess(h) ELSE <<>>
     IN \E ordered \in ByEnergy(TracksToMake(h)) :
           m_particles' = m_particles \o Charged(ordered, "hadron", WithLinks) \o neutrals
  /\ m_locked' = m_locked \cup LockedBy(h)
  /\ hcals' = hcals \ {h}
  /\ UNCHANGED <<blockVars, energy, origin, queue, block, step, uids, m_unused>>

HcalsDone ==
  /\ step = "hcals" /\ hcals = {}
  /\ step' = "tracks"
  /\ UNCHANGED <<blockVars, energy, origin, queue, block, uids, hcals, m_locked, m_unused, m_particles>>

\* The tracks without an hcal.  Their ecals are locked and give nothing.
reconstructTracks ==
  /\ step = "tracks"
  /\ LET tracks == (Track \cap block.elementIds) \ m_locked IN
       /\ \E ordered \in ByEnergy(tracks) :
            m_particles' = m_particles \o Charged(ordered, "hadron", Itself)
       /\ m_locked' = m_locked \cup tracks \cup UNION {EcalsOf(t, block) : t \in tracks}
  /\ step' = "rest"
  /\ UNCHANGED <<blockVars, energy, origin, queue, block, uids, hcals, m_unused>>

FinishBlock ==
  /\ step = "rest"
  /\ m_unused' = m_unused \cup (block.elementIds \ m_locked)
  /\ step' = "next"
  /\ block' = NoBlock /\ uids' = {}
  /\ UNCHANGED <<blockVars, energy, origin, queue, hcals, m_locked, m_particles>>

RecStep == \/ BeginReconstruction
           \/ \E b \in queue : reconstructBlock(b)
           \/ reconstructMuons
           \/ reconstructElectrons
           \/ reconstructAlone
           \/ \E h \in hcals, significant \in BOOLEAN : reconstructHcal(h, significant)
           \/ HcalsDone
           \/ reconstructTracks
           \/ FinishBlock

RecNext == (Next /\ UNCHANGED recVars) \/ RecStep

RecSpec == RecInit /\ [][RecNext]_vars
-----------------------------------------------------------------------------
\* The elements of the blocks that are through.
Through ==
  IF step = "begin" THEN {}
  ELSE UNION {b.elementIds : b \in simplified \ (queue \cup {block})}

ParticlesWith(id, kinds) ==
  {i \in DOMAIN m_particles : m_particles[i].kind \in kinds /\ id \in m_particles[i].parents}

(***************************************************************************)
(* Each track ends up in one charged particle, no more and no less, and of *)
(* the kind it came from, although muons, electrons, each of the hcals it  *)
(* is linked to and the last loop all may reconstruct it.                  *)
(***************************************************************************)
EachTrackMakesOneParticle ==
  \A t \in Track \cap Through :
     LET made == ParticlesWith(t, {"muon", "electron", "hadron"})
     IN Cardinality(made) = 1 /\ \A i \in made : m_particles[i].kind = origin[t]

(***************************************************************************)
(* The photons and neutral hadrons have no more energy than the clusters:  *)
(* an ecal whose tracks are linked to several hcals counts for one of them *)
(* only, and what the tracks carry is not given out again.                 *)
(***************************************************************************)
NeutralEnergyIsOfClusters ==
  step = "next" =>
     LET neutrals == {i \in DOMAIN m_particles : m_particles[i].kind \in {"photon", "K0"}}
     IN SumFunctionOnSet([i \in neutrals |-> m_particles[i].energy], neutrals)
          <= Total(Through \cap (Ecal \cup Hcal))

(***************************************************************************)
(* Only two kinds of elements are unused: an hcal too soft for a K0 that   *)
(* was left alone in its block, and ecals that are linked to muons and     *)
(* electrons only.                                                         *)
(***************************************************************************)
UnusedIsExplained ==
  \A id \in m_unused : \E b \in simplified :
     /\ id \in b.elementIds
     /\ \A t \in TracksOf(id, b) : origin[t] \in {"muon", "electron"}
     /\ \/ id \in Ecal
        \/ /\ id \in Hcal /\ energy[id] < KaonMass
           /\ \A other \in b.elementIds \ {id} : other \in Track

=============================================================================
