---------------------------- MODULE SimulationProofs ----------------------------
(***************************************************************************)
(* The simulation in detail, for any particles, energies and smearing.     *)
(* Base says where the simulation stands: the event is as the manager's    *)
(* invariant has it, and what is still to be done about the current        *)
(* particle is the rest of the script of its species.  The order of the    *)
(* scripts then tells what has been done.                                  *)
(***************************************************************************)
EXTENDS Simulation, PapasManagerProofs, SequenceTheorems

What == {"toTracker", "toEcal", "toHcal", "track", "smearTrack", "decay",
         "ecalCluster", "smearEcal", "hcalCluster", "smearHcal"}

\* What is done before and by what, for each kind of object.
Smears == [ts |-> "smearTrack", es |-> "smearEcal", hs |-> "smearHcal"]
Makes == [tt |-> "track", et |-> "ecalCluster", ht |-> "hcalCluster"]

\* What there is to do about the current particle, and how much of it is done.
Steps == Script(ptc[current.index])
Done == Len(Steps) - Len(script)
Passed(what) == \E j \in 1 .. Done : Steps[j] = what

CurrentInv == busy =>
  /\ stage = "simulate"
  /\ \E g \in todo : current = First(g)
  /\ Done >= 0 /\ script = SubSeq(Steps, Done + 1, Len(Steps))

ParticlesInv ==
  /\ detector \in {CMS, Clic} /\ stage \in {"ready", "add", "simulate"}
  /\ \A i \in DOMAIN ptc : ptc[i] \in Particle
  /\ points \in [DOMAIN ptc -> [Positions -> {"none", "tracker", "ecal", "hcal"}]]
  /\ \A id \in collectionIds("ps") : id.index \in DOMAIN ptc
  /\ stage = "add" => /\ ~hasCollection("ps")
                      /\ \A id \in collections[out[1]] : id.ts = "ps" /\ id.index \in DOMAIN ptc
  /\ stage = "simulate" => \A g, h \in todo : g = h /\ g # {} /\ g \subseteq collectionIds("ps")

\* What is to be smeared has just been made.
LatestInv == \A ts \in DOMAIN TrueOf :
  Do(Smears[ts]) => Latest(TrueOf[ts]) \in collections[Address(TrueOf[ts])]

Base == IInv /\ IndexInv /\ CurrentInv /\ ParticlesInv /\ LatestInv
-----------------------------------------------------------------------------
LEMMA Remaining ==
  ASSUME NEW S, NEW s \in Seq(S), NEW n \in 0 .. Len(s)
  PROVE  LET r == SubSeq(s, n + 1, Len(s)) IN
         /\ r \in Seq(S) /\ Len(r) = Len(s) - n
         /\ n < Len(s) => r # <<>> /\ Head(r) = s[n + 1] /\ Tail(r) = SubSeq(s, n + 2, Len(s))
         /\ r = <<>> => n = Len(s)
         /\ n + 3 <= Len(s) => SubSeq(r, 4, Len(r)) = SubSeq(s, n + 4, Len(s))
<1> DEFINE r == SubSeq(s, n + 1, Len(s))
<1>1. /\ r \in Seq(S) /\ Len(r) = Len(s) - n
      /\ \A i \in 1 .. Len(s) - n : r[i] = s[n + i]
  BY SubSeqProperties
<1>2. r = <<>> => n = Len(s)
  <2> HIDE DEF r
  <2>1. QED
    BY <1>1
<1>3. ASSUME n < Len(s)
      PROVE  r # <<>> /\ Head(r) = s[n + 1] /\ Tail(r) = SubSeq(s, n + 2, Len(s))
  <2> HIDE DEF r
  <2>1. r # <<>> /\ Len(r) >= 1
    BY <1>1, <1>3
  <2>2. Head(r) = s[n + 1]
    BY <1>1, <2>1
  <2>3. /\ Tail(r) \in Seq(S) /\ Len(Tail(r)) = Len(s) - n - 1
        /\ \A i \in 1 .. Len(s) - n - 1 : Tail(r)[i] = s[n + 1 + i]
    BY <1>1, <2>1
  <2>4. /\ SubSeq(s, n + 2, Len(s)) \in Seq(S) /\ Len(SubSeq(s, n + 2, Len(s))) = Len(s) - n - 1
        /\ \A i \in 1 .. Len(s) - n - 1 : SubSeq(s, n + 2, Len(s))[i] = s[n + 1 + i]
    BY <1>3, SubSeqProperties
  <2>5. Tail(r) = SubSeq(s, n + 2, Len(s))
    BY <2>3, <2>4, SeqEqual
  <2>6. QED
    BY <2>1, <2>2, <2>5
<1>4. ASSUME n + 3 <= Len(s)
      PROVE  SubSeq(r, 4, Len(r)) = SubSeq(s, n + 4, Len(s))
  <2> HIDE DEF r
  <2>1. /\ SubSeq(r, 4, Len(r)) \in Seq(S) /\ Len(SubSeq(r, 4, Len(r))) = Len(s) - n - 3
        /\ \A i \in 1 .. Len(s) - n - 3 : SubSeq(r, 4, Len(r))[i] = r[3 + i]
    BY <1>1, <1>4, SubSeqProperties
  <2>2. /\ SubSeq(s, n + 4, Len(s)) \in Seq(S) /\ Len(SubSeq(s, n + 4, Len(s))) = Len(s) - n - 3
        /\ \A i \in 1 .. Len(s) - n - 3 : SubSeq(s, n + 4, Len(s))[i] = s[n + 3 + i]
    BY <1>4, SubSeqProperties
  <2>3. \A i \in 1 .. Len(s) - n - 3 : SubSeq(r, 4, Len(r))[i] = SubSeq(s, n + 4, Len(s))[i]
    BY <1>1, <2>1, <2>2
  <2>4. QED
    BY <2>1, <2>2, <2>3, SeqEqual
<1>5. QED
  BY <1>1, <1>2, <1>3, <1>4

LEMMA ScriptOf ==
  ASSUME NEW k \in Particle
  PROVE  /\ k.species = "photon"         => Script(k) = <<"toEcal", "ecalCluster", "smearEcal">>
         /\ k.species = "electron"       => Script(k) = <<"toEcal", "track", "smearTrack">>
         /\ k.species = "muon"           => Script(k) = <<"toTracker", "toEcal", "toHcal",
                                                          "track", "smearTrack">>
         /\ k.species = "neutrino"       => Script(k) = <<"toTracker", "toEcal", "toHcal">>
         /\ k.species = "chargedHadron" => Script(k) = <<"toEcal", "track", "smearTrack", "decay", "ecalCluster",
                                              "smearEcal", "toHcal", "hcalCluster", "smearHcal">>
         /\ k.species = "neutralHadron" => Script(k) = <<"toEcal", "decay", "ecalCluster",
                                              "smearEcal", "toHcal", "hcalCluster", "smearHcal">>
         /\ k.species \in {"softHadron", "unknown"} => Script(k) = <<>>
         /\ k.species \in {"photon", "electron", "muon", "neutrino", "chargedHadron",
                           "neutralHadron", "softHadron", "unknown"}
<1>1. CASE k.species = "photon"
  BY <1>1, Zenon DEF Script
<1>2. CASE k.species = "electron"
  BY <1>2, Zenon DEF Script
<1>3. CASE k.species = "muon"
  BY <1>3, Zenon DEF Script
<1>4. CASE k.species = "neutrino"
  BY <1>4, Zenon DEF Script
<1>5. CASE k.species = "chargedHadron"
  BY <1>5, Zenon DEF Script
<1>6. CASE k.species = "neutralHadron"
  BY <1>6, Zenon DEF Script
<1>7. CASE k.species = "softHadron"
  BY <1>7, Zenon DEF Script
<1>8. CASE k.species = "unknown"
  BY <1>8, Zenon DEF Script
<1>9. k.species \in Species
  BY DEF Particle
<1>10. QED
  BY <1>1, <1>2, <1>3, <1>4, <1>5, <1>6, <1>7, <1>8, <1>9 DEF Species, Charged

\* What a script says is in an order, and nothing is said twice.
Ordered(S) ==
  /\ S \in Seq(What)
  /\ \A i, j \in 1 .. Len(S) : S[i] = S[j] => i = j
  /\ \A i, j \in 1 .. Len(S) : S[i] = "ecalCluster" /\ S[j] = "hcalCluster" => i < j
  /\ \A j \in 1 .. Len(S) :
       /\ S[j] = "toTracker" => j = 1
       /\ S[j] = "smearTrack" => j > 1 /\ S[j - 1] = "track"
       /\ S[j] = "smearEcal" => j > 1 /\ S[j - 1] = "ecalCluster"
       /\ S[j] = "smearHcal" => j > 1 /\ S[j - 1] = "hcalCluster"
       /\ S[j] = "ecalCluster" => j > 1 /\ S[j - 1] \in {"toEcal", "decay"}
       /\ S[j] = "hcalCluster" => j > 1 /\ S[j - 1] = "toHcal"
       /\ S[j] = "decay" => /\ j + 4 <= Len(S)
                            /\ S[j + 1] = "ecalCluster" /\ S[j + 2] = "smearEcal"
                            /\ S[j + 3] = "toHcal" /\ S[j + 4] = "hcalCluster"

LEMMA ScriptIsOrdered ==
  ASSUME NEW k \in Particle
  PROVE  Ordered(Script(k))
<1>1. ASSUME NEW S, S = <<"toEcal", "ecalCluster", "smearEcal">>
      PROVE  Ordered(S)
  <2>1. /\ Len(S) = 3 /\ S \in Seq(What)
        /\ S[1] = "toEcal" /\ S[2] = "ecalCluster" /\ S[3] = "smearEcal"
    BY ONLY <1>1 DEF What
  <2>2. \A j \in 1 .. Len(S) : j = 1 \/ j = 2 \/ j = 3
    BY ONLY <2>1
  <2>3. QED
    BY ONLY <2>1, <2>2 DEF Ordered
<1>2. ASSUME NEW S, S = <<"toEcal", "track", "smearTrack">>
      PROVE  Ordered(S)
  <2>1. /\ Len(S) = 3 /\ S \in Seq(What)
        /\ S[1] = "toEcal" /\ S[2] = "track" /\ S[3] = "smearTrack"
    BY ONLY <1>2 DEF What
  <2>2. \A j \in 1 .. Len(S) : j = 1 \/ j = 2 \/ j = 3
    BY ONLY <2>1
  <2>3. QED
    BY ONLY <2>1, <2>2 DEF Ordered
<1>3. ASSUME NEW S, S = <<"toTracker", "toEcal", "toHcal", "track", "smearTrack">>
      PROVE  Ordered(S)
  <2>1. /\ Len(S) = 5 /\ S \in Seq(What)
        /\ S[1] = "toTracker" /\ S[2] = "toEcal" /\ S[3] = "toHcal" /\ S[4] = "track"
        /\ S[5] = "smearTrack"
    BY ONLY <1>3 DEF What
  <2>2. \A j \in 1 .. Len(S) : j = 1 \/ j = 2 \/ j = 3 \/ j = 4 \/ j = 5
    BY ONLY <2>1
  <2>3. QED
    BY ONLY <2>1, <2>2 DEF Ordered
<1>4. ASSUME NEW S, S = <<"toTracker", "toEcal", "toHcal">>
      PROVE  Ordered(S)
  <2>1. /\ Len(S) = 3 /\ S \in Seq(What)
        /\ S[1] = "toTracker" /\ S[2] = "toEcal" /\ S[3] = "toHcal"
    BY ONLY <1>4 DEF What
  <2>2. \A j \in 1 .. Len(S) : j = 1 \/ j = 2 \/ j = 3
    BY ONLY <2>1
  <2>3. QED
    BY ONLY <2>1, <2>2 DEF Ordered
<1>5. ASSUME NEW S, S = <<"toEcal", "track", "smearTrack", "decay", "ecalCluster",
                              "smearEcal", "toHcal", "hcalCluster", "smearHcal">>
      PROVE  Ordered(S)
  <2>1. /\ Len(S) = 9 /\ S \in Seq(What)
        /\ S[1] = "toEcal" /\ S[2] = "track" /\ S[3] = "smearTrack" /\ S[4] = "decay"
        /\ S[5] = "ecalCluster" /\ S[6] = "smearEcal" /\ S[7] = "toHcal"
        /\ S[8] = "hcalCluster" /\ S[9] = "smearHcal"
    BY ONLY <1>5 DEF What
  <2>2. \A j \in 1 .. Len(S) : j = 1 \/ j = 2 \/ j = 3 \/ j = 4 \/ j = 5 \/ j = 6 \/ j = 7 \/ j = 8 \/ j = 9
    BY ONLY <2>1
  <2>3. QED
    BY ONLY <2>1, <2>2 DEF Ordered
<1>6. ASSUME NEW S, S = <<"toEcal", "decay", "ecalCluster", "smearEcal",
                              "toHcal", "hcalCluster", "smearHcal">>
      PROVE  Ordered(S)
  <2>1. /\ Len(S) = 7 /\ S \in Seq(What)
        /\ S[1] = "toEcal" /\ S[2] = "decay" /\ S[3] = "ecalCluster"
        /\ S[4] = "smearEcal" /\ S[5] = "toHcal" /\ S[6] = "hcalCluster"
        /\ S[7] = "smearHcal"
    BY ONLY <1>6 DEF What
  <2>2. \A j \in 1 .. Len(S) : j = 1 \/ j = 2 \/ j = 3 \/ j = 4 \/ j = 5 \/ j = 6 \/ j = 7
    BY ONLY <2>1
  <2>3. QED
    BY ONLY <2>1, <2>2 DEF Ordered
<1>7. ASSUME NEW S, S = <<>>
      PROVE  Ordered(S)
  BY <1>7 DEF Ordered
<1>8. QED
  BY <1>1, <1>2, <1>3, <1>4, <1>5, <1>6, <1>7, ScriptOf

\* Which particles are followed where, and what they leave.
Says(k, what) == \E j \in 1 .. Len(Script(k)) : Script(k)[j] = what

LEMMA WhatIsSaid ==
  ASSUME NEW k \in Particle
  PROVE  /\ Says(k, "track") <=> k.species \in {"electron", "muon", "chargedHadron"}
         /\ Says(k, "ecalCluster") <=> k.species \in {"photon", "chargedHadron", "neutralHadron"}
         /\ Says(k, "hcalCluster") <=> k.species \in {"chargedHadron", "neutralHadron"}
         /\ Says(k, "decay") <=> k.species \in {"chargedHadron", "neutralHadron"}
         /\ Says(k, "toTracker") <=> k.species \in {"muon", "neutrino"}
         /\ Says(k, "toTracker") => Says(k, "toHcal")
<1>1. CASE k.species = "photon"
  BY <1>1, ScriptOf DEF Says
<1>2. CASE k.species = "electron"
  <2> PICK S : S = Script(k)
    OBVIOUS
  <2>1. /\ Len(S) = 3
        /\ S[1] = "toEcal" /\ S[2] = "track" /\ S[3] = "smearTrack"
    BY <1>2, ScriptOf
  <2>2. \A j \in 1 .. Len(S) : j = 1 \/ j = 2 \/ j = 3
    BY ONLY <2>1
  <2>3. /\ \E j \in 1 .. Len(S) : S[j] = "track"
        /\ \A j \in 1 .. Len(S) : S[j] # "ecalCluster"
        /\ \A j \in 1 .. Len(S) : S[j] # "hcalCluster"
        /\ \A j \in 1 .. Len(S) : S[j] # "decay"
        /\ \A j \in 1 .. Len(S) : S[j] # "toTracker"
    BY ONLY <2>1, <2>2
  <2> QED BY <1>2, <2>3 DEF Says
<1>3. CASE k.species = "muon"
  BY <1>3, ScriptOf DEF Says
<1>4. CASE k.species = "neutrino"
  BY <1>4, ScriptOf DEF Says
<1>5. CASE k.species = "chargedHadron"
  <2> PICK S : S = Script(k)
    OBVIOUS
  <2>1. /\ Len(S) = 9
        /\ S[1] = "toEcal" /\ S[2] = "track" /\ S[3] = "smearTrack" /\ S[4] = "decay"
        /\ S[5] = "ecalCluster" /\ S[6] = "smearEcal" /\ S[7] = "toHcal"
        /\ S[8] = "hcalCluster" /\ S[9] = "smearHcal"
    BY <1>5, ScriptOf
  <2>2. \A j \in 1 .. Len(S) : j = 1 \/ j = 2 \/ j = 3 \/ j = 4 \/ j = 5 \/ j = 6 \/ j = 7 \/ j = 8 \/ j = 9
    BY ONLY <2>1
  <2>3. /\ \E j \in 1 .. Len(S) : S[j] = "track"
        /\ \E j \in 1 .. Len(S) : S[j] = "ecalCluster"
        /\ \E j \in 1 .. Len(S) : S[j] = "hcalCluster"
        /\ \E j \in 1 .. Len(S) : S[j] = "decay"
        /\ \A j \in 1 .. Len(S) : S[j] # "toTracker"
    BY ONLY <2>1, <2>2
  <2> QED BY <1>5, <2>3 DEF Says
<1>6. CASE k.species = "neutralHadron"
  <2> PICK S : S = Script(k)
    OBVIOUS
  <2>1. /\ Len(S) = 7
        /\ S[1] = "toEcal" /\ S[2] = "decay" /\ S[3] = "ecalCluster"
        /\ S[4] = "smearEcal" /\ S[5] = "toHcal" /\ S[6] = "hcalCluster"
        /\ S[7] = "smearHcal"
    BY <1>6, ScriptOf
  <2>2. \A j \in 1 .. Len(S) : j = 1 \/ j = 2 \/ j = 3 \/ j = 4 \/ j = 5 \/ j = 6 \/ j = 7
    BY ONLY <2>1
  <2>3. /\ \A j \in 1 .. Len(S) : S[j] # "track"
        /\ \E j \in 1 .. Len(S) : S[j] = "ecalCluster"
        /\ \E j \in 1 .. Len(S) : S[j] = "hcalCluster"
        /\ \E j \in 1 .. Len(S) : S[j] = "decay"
        /\ \A j \in 1 .. Len(S) : S[j] # "toTracker"
    BY ONLY <2>1, <2>2
  <2> QED BY <1>6, <2>3 DEF Says
<1>7. CASE k.species \in {"softHadron", "unknown"}
  BY <1>7, ScriptOf DEF Says
<1>8. QED
  BY <1>1, <1>2, <1>3, <1>4, <1>5, <1>6, <1>7, ScriptOf
-----------------------------------------------------------------------------
(***************************************************************************)
(* A step about the current particle takes the next of its steps, or three *)
(* of them.                                                                *)
(***************************************************************************)
LEMMA AtWork ==
  ASSUME Base, busy
  PROVE  /\ stage = "simulate" /\ failed = "no"
         /\ current \in UNION todo /\ current \in Object /\ Present(current) /\ current.ts = "ps"
         /\ current.index \in DOMAIN ptc /\ ptc[current.index] \in Particle
         /\ Steps \in Seq(What) /\ Ordered(Steps) /\ Len(Steps) \in Nat
         /\ Done \in 0 .. Len(Steps) /\ script = SubSeq(Steps, Done + 1, Len(Steps))
         /\ script = <<>> => Done = Len(Steps)
         /\ \A what : Do(what) => Done < Len(Steps) /\ Steps[Done + 1] = what
         /\ script # <<>> => Tail(script) = SubSeq(Steps, Done + 2, Len(Steps))
         /\ Done + 3 <= Len(Steps) =>
              SubSeq(script, 4, Len(script)) = SubSeq(Steps, Done + 4, Len(Steps))
<1>1. stage = "simulate" /\ failed = "no"
  BY DEF Base, CurrentInv, IInv, StageInv
<1>2. PICK g \in todo : current = First(g)
  BY DEF Base, CurrentInv
<1>3. g \in SUBSET Object /\ g \subseteq collectionIds("ps")
  BY <1>1 DEF Base, IInv, Shape, ParticlesInv
<1>4. current \in g
  BY <1>1, <1>2, <1>3, FirstIsInGroup DEF Base, ParticlesInv
<1>5. current \in UNION todo /\ current \in Object /\ current \in collectionIds("ps")
  BY <1>3, <1>4
<1>6. "ps" \in TypeAndSubtype
  BY DEF TypeAndSubtype
<1>7. hasObject(current) /\ current.ts = "ps"
  BY <1>5, <1>6, CollectionObjects DEF Base
<1>8. Present(current)
  BY <1>7 DEF Present
<1>9. current.index \in DOMAIN ptc /\ ptc[current.index] \in Particle
  BY <1>5 DEF Base, ParticlesInv
<1>10. Ordered(Steps) /\ Steps \in Seq(What) /\ Len(Steps) \in Nat
  <2>1. Ordered(Steps)
    BY <1>9, ScriptIsOrdered DEF Steps
  <2> QED BY <2>1 DEF Ordered
<1>11. Done >= 0 /\ script = SubSeq(Steps, Done + 1, Len(Steps))
  BY DEF Base, CurrentInv
<1>12. Done \in 0 .. Len(Steps) 
  BY <1>10, <1>11 DEF Done
<1> HIDE DEF Steps, Done
<1>13. /\ script = <<>> => Done = Len(Steps)
       /\ Done < Len(Steps) => /\ script # <<>> /\ Head(script) = Steps[Done + 1]
                               /\ Tail(script) = SubSeq(Steps, Done + 2, Len(Steps))
       /\ Done + 3 <= Len(Steps) =>
              SubSeq(script, 4, Len(script)) = SubSeq(Steps, Done + 4, Len(Steps))
  BY <1>10, <1>11, <1>12, Remaining
<1>14. script # <<>> => Done < Len(Steps)
  BY <1>10, <1>11, <1>12
<1> QED BY <1>1, <1>5, <1>7, <1>8, <1>9, <1>10, <1>11, <1>12, <1>13, <1>14 DEF Do

\* n of its steps are taken.
Moves(n) ==
  /\ UNCHANGED <<detector, ptc, current, before, folder, failed, stage, out, todo>>
  /\ Done + n <= Len(Steps) /\ script' = SubSeq(Steps, Done + n + 1, Len(Steps))

LEMMA MovesOn ==
  ASSUME Base, busy, NEW n \in {1, 3}, Moves(n)
  PROVE  /\ CurrentInv' /\ busy' /\ Steps' = Steps /\ Done' = Done + n
         /\ \A what : Passed(what)' <=> \E j \in 1 .. Done + n : Steps[j] = what
         /\ \A what : Do(what)' => Done + n < Len(Steps) /\ Steps[Done + n + 1] = what
<1>1. /\ Steps \in Seq(What) /\ Len(Steps) \in Nat /\ Done \in 0 .. Len(Steps)
      /\ stage = "simulate"
  BY AtWork
<1>2. Steps' = Steps
  BY DEF Moves, Steps
<1> PICK S, d : S = Steps /\ d = Done + n
  OBVIOUS
<1>3. S \in Seq(What) /\ d \in 0 .. Len(S) /\ Len(S) \in Nat
  BY <1>1 DEF Moves
<1>4. script' = SubSeq(S, d + 1, Len(S))
  BY DEF Moves
<1>5. /\ Len(script') = Len(S) - d
      /\ d < Len(S) => script' # <<>> /\ Head(script') = S[d + 1]
      /\ script' = <<>> => d = Len(S)
  BY <1>3, <1>4, Remaining
<1>6. Done' = Done + n
  <2>1. Done' = Len(Steps') - Len(script')
    BY DEF Done
  <2>2. Done' = Len(S) - (Len(S) - d)
    BY <2>1, <1>2, <1>5
  <2> QED BY <2>2, <1>3, <1>1
<1>7. busy' <=> busy
  BY DEF Moves, busy
<1>8. \E g \in todo' : current' = First(g)
  BY DEF Moves, Base, CurrentInv
<1>9. CurrentInv'
  <2>1. Done' >= 0 /\ script' = SubSeq(Steps', Done' + 1, Len(Steps'))
    BY <1>1, <1>2, <1>4, <1>6
  <2> QED BY <1>1, <1>8, <2>1 DEF CurrentInv, Moves
<1>10. \A what : Passed(what)' <=> \E j \in 1 .. Done + n : Steps[j] = what
  BY <1>2, <1>6 DEF Passed
<1>11. \A what : Do(what)' => Done + n < Len(Steps) /\ Steps[Done + n + 1] = what
  <2>1. \A what : Do(what)' => script' # <<>> /\ Head(script') = what
    BY DEF Do
  <2>2. script' # <<>> => d < Len(S)
    BY <1>3, <1>4
  <2> QED BY <2>1, <2>2, <1>5
<1> QED BY <1>2, <1>6, <1>7, <1>9, <1>10, <1>11

\* Which step takes how many.
LEMMA StepsMove ==
  ASSUME Base
  PROVE  /\ \A cyl \in {"tracker", "ecal", "hcal"} : propagateOne(cyl) => Moves(1)
         /\ decay => (Moves(1) /\ hasNamedPoint(current, "kEcalIn")) \/ Moves(3)
         /\ makeAndStoreTrack => Moves(1)
         /\ \A ts, what : makeAndStoreCluster(ts, what) /\ hasNamedPoint(current, PositionOf(ts)) => Moves(1)
         /\ \A ts, what : smear(ts, what) => Moves(1)
<1>1. \A what : Do(what) => /\ Done \in Nat /\ Len(Steps) \in Nat /\ Done + 1 <= Len(Steps)
                           /\ Tail(script) = SubSeq(Steps, Done + 1 + 1, Len(Steps))
  <2> SUFFICES ASSUME NEW what, Do(what)
               PROVE  /\ Done \in Nat /\ Len(Steps) \in Nat /\ Done + 1 <= Len(Steps)
                      /\ Tail(script) = SubSeq(Steps, Done + 1 + 1, Len(Steps))
    OBVIOUS
  <2>1. busy /\ script # <<>>
    BY DEF Do
  <2>2. /\ Done \in Nat /\ Len(Steps) \in Nat /\ Done < Len(Steps)
        /\ Tail(script) = SubSeq(Steps, Done + 2, Len(Steps))
    BY <2>1, AtWork
  <2> QED BY <2>2
<1>2. Do("decay") => /\ Done + 3 <= Len(Steps)
                     /\ SubSeq(script, 4, Len(script)) = SubSeq(Steps, Done + 3 + 1, Len(Steps))
  <2> SUFFICES ASSUME Do("decay")
               PROVE  /\ Done + 3 <= Len(Steps)
                      /\ SubSeq(script, 4, Len(script)) = SubSeq(Steps, Done + 3 + 1, Len(Steps))
    OBVIOUS
  <2>1. busy
    BY DEF Do
  <2>2. Ordered(Steps) /\ Steps[Done + 1] = "decay" /\ Done + 1 \in 1 .. Len(Steps)
    BY <2>1, <1>1, AtWork
  <2>3. Done + 1 + 4 <= Len(Steps)
    BY <2>2 DEF Ordered
  <2>4. Done \in Nat /\ Len(Steps) \in Nat
    BY <1>1
  <2> QED BY <2>1, <2>3, <2>4, AtWork
<1>3. \A cyl \in {"tracker", "ecal", "hcal"} : propagateOne(cyl) => Moves(1)
  BY <1>1 DEF propagateOne, Moves, vars, eventVars
<1>4. decay => (Moves(1) /\ hasNamedPoint(current, "kEcalIn")) \/ Moves(3)
  BY <1>1, <1>2 DEF decay, Moves, vars, eventVars
<1>5. makeAndStoreTrack => Moves(1)
  BY <1>1 DEF makeAndStoreTrack, Moves
<1>6. \A ts, what : makeAndStoreCluster(ts, what) /\ hasNamedPoint(current, PositionOf(ts)) => Moves(1)
  BY <1>1 DEF makeAndStoreCluster, Moves
<1>7. \A ts, what : smear(ts, what) => Moves(1)
  BY <1>1 DEF smear, Moves
<1> QED BY <1>3, <1>4, <1>5, <1>6, <1>7
-----------------------------------------------------------------------------
\* What a step stores goes into one collection, with one link to it.
LEMMA Storing ==
  ASSUME IInv, IndexInv, stage = "simulate", NEW ts \in Made,
         NEW parent \in Object, Present(parent), NEW e,
         Store(New(ts), parent, e), UNCHANGED <<folder, failed, stage, out, todo>>
  PROVE  /\ IInv' /\ IndexInv'
         /\ \A t \in TypeAndSubtype : collectionIds(t)' = collectionIds(t)
         /\ New(ts) \in Object /\ New(ts).ts = ts /\ ts \in TypeAndSubtype
         /\ New(ts).index = Cardinality(collections[Address(ts)])
         /\ Address(ts) \in DOMAIN collections
         /\ \A t \in Made \ {ts} : Address(t) # Address(ts)
         /\ \A t \in Made : Address(t)' = Address(t)
         /\ DOMAIN collections' = DOMAIN collections
         /\ collections'[Address(ts)] = collections[Address(ts)] \cup {New(ts)}
         /\ \A a \in DOMAIN collections : a # Address(ts) => collections'[a] = collections[a]
         /\ Latest(ts)' = New(ts)
         /\ history' = history \cup {<<parent, New(ts)>>}
         /\ energy' = [i \in DOMAIN energy \cup {New(ts)} |-> IF i = New(ts) THEN e ELSE energy[i]]
<1> PICK id : id = New(ts)
  OBVIOUS
<1>0. ts \in TypeAndSubtype
  BY DEF Made, TypeAndSubtype, Clusters
<1>1. PICK k \in 1 .. 6 : /\ k \in DOMAIN out /\ Outputs[k] = ts
                          /\ Address(ts) = out[k] /\ out[k] \in DOMAIN collections
  BY AddressOf DEF IInv
<1>2. id \in Object /\ id.ts = ts /\ id.index = Cardinality(collections[out[k]])
  BY <1>0, <1>1, NewIdType DEF IInv, New, NewId
<1>3. /\ collections' = [collections EXCEPT ![out[k]] = @ \cup {id}]
      /\ history' = history \cup {<<parent, id>>}
      /\ UNCHANGED <<folder, failed, stage, out, todo>>
  BY <1>1, <1>2 DEF Store
<1>4. collections \in Seq(Pool) /\ collections[out[k]] \in Pool /\ collections[out[k]] \cup {id} \in Pool
  BY <1>1, <1>2, PoolGrows DEF IInv, Shape
<1>5. /\ collections' \in Seq(Pool) /\ DOMAIN collections' = DOMAIN collections
      /\ collections'[out[k]] = collections[out[k]] \cup {id}
      /\ \A a \in DOMAIN collections : a # out[k] => collections'[a] = collections[a]
  BY <1>1, <1>3, <1>4
<1>6. /\ FoldersLeadToCollections'
      /\ \A t \in TypeAndSubtype : collectionIds(t)' = collectionIds(t)
      /\ Held
  BY <1>1, <1>3, <1>5, OthersStay DEF IInv
<1>7. /\ DOMAIN out = 1 .. 6 /\ \A i, j \in 1 .. 6 : out[i] = out[j] => i = j
      /\ \A i \in 1 .. 6 : out[i] \in DOMAIN collections
      /\ \A i \in 1 .. 6 : \A x \in collections[out[i]] : x.ts = Outputs[i]
      /\ failed = "no"
  BY DEF IInv, StageInv, Shape
<1>8. \A t \in Made \ {ts} : Address(t) # Address(ts)
  <2> TAKE t \in Made \ {ts}
  <2>1. PICK j \in 1 .. 6 : Outputs[j] = t /\ Address(t) = out[j]
    BY AddressOf DEF IInv
  <2> QED BY <1>1, <1>7, <2>1
<1>9. Shape'
  BY <1>2, <1>3, <1>5 DEF IInv, Shape
<1>10. StageInv'
  BY <1>1, <1>2, <1>3, <1>5, <1>7 DEF IInv, StageInv
<1>11. FolderInv'
  BY <1>3, <1>6 DEF IInv, FolderInv, hasCollection
<1>12. LinkInv'
  <2>1. \A x \in Object : hasObject(x)' = hasObject(x)
    BY <1>6 DEF hasObject, Object
  <2>2. \A x \in Object : Present(x) => Present(x)'
    BY <1>3, <1>5, <1>7, <2>1 DEF Present
  <2>3. Present(id)'
    BY <1>1, <1>3, <1>5 DEF Present
  <2>4. \A link \in history' : Present(link[1])' /\ Present(link[2])'
    <3> SUFFICES ASSUME NEW link \in history' PROVE Present(link[1])' /\ Present(link[2])'
      OBVIOUS
    <3>1. CASE link \in history
      <4>1. link[1] \in Object /\ link[2] \in Object
        BY <3>1 DEF IInv, Shape
      <4>2. Present(link[1]) /\ Present(link[2])
        BY <3>1, <1>7 DEF IInv, LinkInv
      <4> QED BY <4>1, <4>2, <2>2
    <3>2. CASE link = <<parent, id>>
      <4>1. link[1] = parent /\ link[2] = id
        BY <3>2
      <4>2. Present(parent)'
        BY <2>2
      <4> QED BY <4>1, <4>2, <2>3
    <3> QED BY <3>1, <3>2, <1>3
  <2>5. \A g \in todo' : \A x \in g : hasObject(x)'
    BY <1>3, <1>7, <2>1 DEF IInv, LinkInv, Shape
  <2> QED BY <2>4, <2>5 DEF LinkInv
<1>13. IndexInv'
  <2>1. \A x \in collections[out[k]] \cup {id} : x.index < Cardinality(collections[out[k]] \cup {id})
    BY <1>1, <1>2, <1>4, IndexGrows DEF IndexInv
  <2> QED BY <1>5, <2>1 DEF IndexInv
<1>14. \A t \in Made : Address(t)' = Address(t)
  BY <1>3 DEF Address
<1>15. Latest(ts)' = id
  <2>1. Cardinality(collections[out[k]]) \in Nat
    BY <1>4, Sizes
  <2>2. id \notin collections[out[k]]
    BY <1>1, <1>2, <2>1 DEF IndexInv
  <2>3. Cardinality(collections'[out[k]]) = Cardinality(collections[out[k]]) + 1
    BY <1>4, <1>5, <2>2, Sizes
  <2>4. Latest(ts)' = [ts |-> ts, index |-> Cardinality(collections'[out[k]]) - 1]
    BY <1>1, <1>14 DEF Latest
  <2>5. Latest(ts)' = [ts |-> ts, index |-> id.index]
    BY <1>2, <2>1, <2>3, <2>4
  <2> QED BY <1>2, <2>5 DEF Object
<1>16. IInv'
  BY <1>9, <1>10, <1>11, <1>12 DEF IInv
<1>17. energy' = [i \in DOMAIN energy \cup {id} |-> IF i = id THEN e ELSE energy[i]]
  BY DEF Store
<1> QED BY <1>0, <1>1, <1>2, <1>3, <1>5, <1>6, <1>8, <1>13, <1>14, <1>15, <1>16, <1>17
-----------------------------------------------------------------------------
(***************************************************************************)
(* What each step keeps.                                                   *)
(***************************************************************************)
LEMMA SmearingFollows ==
  ASSUME Base, busy, NEW n \in {1, 3}, Moves(n), NEW what, Do(what), n = 3 => what = "decay",
         NEW ts \in DOMAIN TrueOf, Do(Smears[ts])'
  PROVE  what = Makes[TrueOf[ts]]
<1>1. /\ Ordered(Steps) /\ Done \in Nat /\ Len(Steps) \in Nat /\ Done < Len(Steps)
      /\ Steps[Done + 1] = what
  BY AtWork
<1>2. Done + n < Len(Steps) /\ Steps[Done + n + 1] = Smears[ts]
  BY MovesOn
<1> PICK S, j : S = Steps /\ j = Done + 1
  OBVIOUS
<1>3. Ordered(S) /\ j \in 1 .. Len(S) /\ Len(S) \in Nat /\ S[j] = what
  BY <1>1
<1>4. j + n \in 1 .. Len(S) /\ S[j + n] = Smears[ts]
  BY <1>1, <1>2
<1>5. \/ ts = "ts" /\ Smears[ts] = "smearTrack" /\ Makes[TrueOf[ts]] = "track"
      \/ ts = "es" /\ Smears[ts] = "smearEcal" /\ Makes[TrueOf[ts]] = "ecalCluster"
      \/ ts = "hs" /\ Smears[ts] = "smearHcal" /\ Makes[TrueOf[ts]] = "hcalCluster"
  BY DEF TrueOf, Smears, Makes
<1>6. n = 1
  <2> SUFFICES ASSUME n = 3 PROVE FALSE
    OBVIOUS
  <2>1. S[j + 3] = "toHcal"
    BY <1>3 DEF Ordered
  <2> QED BY <2>1, <1>4, <1>5
<1>7. S[j + 1 - 1] = Makes[TrueOf[ts]]
  BY <1>3, <1>4, <1>5, <1>6 DEF Ordered
<1>8. j + 1 - 1 = j
  BY <1>3
<1> QED BY <1>3, <1>7, <1>8

PointType(domain) == [domain -> [Positions -> {"none", "tracker", "ecal", "hcal"}]]

LEMMA MovesKeep ==
  ASSUME Base, busy, NEW n \in {1, 3}, Moves(n),
         collectionIds("ps")' = collectionIds("ps"),
         points' \in PointType(DOMAIN ptc)
  PROVE  CurrentInv' /\ ParticlesInv'
<1>1. CurrentInv' /\ stage = "simulate"
  BY MovesOn, AtWork
<1>2. ParticlesInv'
  BY <1>1 DEF Base, ParticlesInv, Moves, PointType
<1> QED BY <1>1, <1>2

LEMMA StoringKeeps ==
  ASSUME Base, busy, Moves(1), NEW what, Do(what), points' = points,
         NEW ts \in Made, NEW parent \in Object, Present(parent), NEW e,
         Store(New(ts), parent, e),
         ts \notin DOMAIN TrueOf => what = Makes[ts],
         ts \in DOMAIN TrueOf => what = Smears[ts]
  PROVE  Base'
<1>1. stage = "simulate" /\ UNCHANGED <<folder, failed, stage, out, todo>>
  BY AtWork DEF Moves
<1>2. /\ IInv' /\ IndexInv'
      /\ \A t \in TypeAndSubtype : collectionIds(t)' = collectionIds(t)
      /\ Address(ts) \in DOMAIN collections
      /\ \A t \in Made : Address(t)' = Address(t)
      /\ collections'[Address(ts)] = collections[Address(ts)] \cup {New(ts)}
      /\ Latest(ts)' = New(ts)
  BY <1>1, Storing DEF Base
<1>3. CurrentInv' /\ ParticlesInv'
  <2>1. points' \in PointType(DOMAIN ptc)
    BY DEF Base, ParticlesInv, PointType
  <2>2. "ps" \in TypeAndSubtype
    BY DEF TypeAndSubtype
  <2> QED BY <2>1, <2>2, <1>2, MovesKeep
<1>4. LatestInv'
  <2> SUFFICES ASSUME NEW t \in DOMAIN TrueOf, Do(Smears[t])'
               PROVE  Latest(TrueOf[t])' \in collections'[Address(TrueOf[t])']
    BY DEF LatestInv
  <2>1. what = Makes[TrueOf[t]]
    BY SmearingFollows
  <2>2. ts = TrueOf[t]
    BY <2>1 DEF Made, TrueOf, Smears, Makes
  <2> QED BY <2>2, <1>2
<1> QED BY <1>2, <1>3, <1>4 DEF Base

\* A step that stores nothing.
LEMMA NotStoringKeeps ==
  ASSUME Base, busy, NEW n \in {1, 3}, Moves(n), NEW what, Do(what), n = 3 => what = "decay",
         UNCHANGED vars, points' \in PointType(DOMAIN ptc),
         \A ts \in DOMAIN TrueOf : what # Makes[TrueOf[ts]]
  PROVE  Base'
<1>1. IInv'
  BY NextKeeps DEF Base
<1>2. IndexInv' /\ collectionIds("ps")' = collectionIds("ps")
  BY DEF Base, IndexInv, vars, eventVars, collectionIds, hasCollection
<1>3. CurrentInv' /\ ParticlesInv'
  BY <1>2, MovesKeep
<1>4. LatestInv'
  BY SmearingFollows DEF LatestInv
<1> QED BY <1>1, <1>2, <1>3, <1>4 DEF Base

LEMMA PropagateKeeps ==
  ASSUME Base, NEW cyl \in {"tracker", "ecal", "hcal"}, propagateOne(cyl)
  PROVE  Base'
<1>1. busy /\ Do(To[cyl]) /\ Moves(1) /\ UNCHANGED vars
  BY StepsMove DEF propagateOne, Do
<1>2. points' \in PointType(DOMAIN ptc)
  <2>1. points \in PointType(DOMAIN ptc)
    BY DEF Base, ParticlesInv, PointType
  <2>2. innerLayer(cyl) \in Positions
    BY DEF innerLayer, Positions
  <2>3. points' = points \/ points' = [points EXCEPT ![current.index][innerLayer(cyl)] = cyl]
    BY DEF propagateOne
  <2> QED BY <2>1, <2>2, <2>3 DEF PointType
<1>3. \A ts \in DOMAIN TrueOf : To[cyl] # Makes[TrueOf[ts]]
  BY DEF TrueOf, Makes, To
<1> QED BY <1>1, <1>2, <1>3, NotStoringKeeps

LEMMA DecayKeeps ==
  ASSUME Base, decay
  PROVE  Base'
<1>1. busy /\ Do("decay") /\ UNCHANGED vars
  BY DEF decay, Do
<1>2. PICK n \in {1, 3} : Moves(n)
  BY StepsMove
<1>3. points' \in PointType(DOMAIN ptc)
  <2>1. points \in PointType(DOMAIN ptc)
    BY DEF Base, ParticlesInv, PointType
  <2>2. "kEcalDecay" \in Positions
    BY DEF Positions
  <2>3. points' = points \/ points' = [points EXCEPT ![current.index]["kEcalDecay"] = "ecal"]
    BY DEF decay
  <2> QED BY <2>1, <2>2, <2>3 DEF PointType
<1>4. \A ts \in DOMAIN TrueOf : "decay" # Makes[TrueOf[ts]]
  BY DEF TrueOf, Makes
<1> QED BY <1>1, <1>2, <1>3, <1>4, NotStoringKeeps

LEMMA TrackKeeps ==
  ASSUME Base, makeAndStoreTrack
  PROVE  Base'
<1>1. busy /\ Do("track") /\ Moves(1) /\ points' = points /\ Store(New("tt"), current, Energy)
  BY StepsMove DEF makeAndStoreTrack, Do
<1>2. "tt" \in Made /\ "tt" \notin DOMAIN TrueOf /\ Makes["tt"] = "track"
  BY DEF Made, TrueOf, Makes
<1>3. current \in Object /\ Present(current)
  BY <1>1, AtWork
<1> QED BY <1>1, <1>2, <1>3, StoringKeeps

\* The two clusters: what the propagation has found decides.
ClusterStep(ts, what) == <<ts, what>> \in {<<"et", "ecalCluster">>, <<"ht", "hcalCluster">>}

LEMMA ClusterKeeps ==
  ASSUME Base, NEW ts, NEW what, ClusterStep(ts, what), makeAndStoreCluster(ts, what),
         hasNamedPoint(current, PositionOf(ts))
  PROVE  Base'
<1>1. /\ busy /\ Do(what) /\ Moves(1) /\ points' = points
      /\ Store(New(ts), current, Deposited(ts))
  BY StepsMove DEF makeAndStoreCluster, Do
<1>2. ts \in Made /\ ts \notin DOMAIN TrueOf /\ what = Makes[ts]
  BY DEF ClusterStep, Made, TrueOf, Makes
<1>3. current \in Object /\ Present(current)
  BY <1>1, AtWork
<1> QED BY <1>1, <1>2, <1>3, StoringKeeps

\* A deposit of nothing changes nothing.
LEMMA NothingDeposited ==
  ASSUME IInv, NEW p, UNCHANGED <<collections, history>>
  PROVE  Deposit(p, {})
<1>1. collections \in Seq(Pool)
  BY DEF IInv, Shape
<1>2. collections = [a \in DOMAIN collections |-> collections[a]]
  BY <1>1
<1>3. [a \in DOMAIN collections |->
         collections[a] \cup {New(ts) : ts \in {t \in {} : Address(t) = a}}]
        = [a \in DOMAIN collections |-> collections[a]]
  OBVIOUS
<1> QED BY <1>2, <1>3 DEF Deposit

\* To the manager the exception is that of a particle that has left nothing more.
LEMMA ThrowKeeps ==
  ASSUME Base, NEW ts, NEW what, makeAndStoreCluster(ts, what),
         ~hasNamedPoint(current, PositionOf(ts))
  PROVE  Base' /\ ~busy' /\ failed' = "simulation"
<1>1. /\ busy /\ Throw("simulation") /\ current' = NoParticle /\ UNCHANGED <<collections, history>>
      /\ UNCHANGED <<detector, ptc, points>>
  BY DEF makeAndStoreCluster, Do
<1>2. /\ stage = "simulate" /\ current \in UNION todo
      /\ \E g \in todo : current = First(g)
  BY <1>1, AtWork DEF Base, CurrentInv
<1>3. NotExtrapolated(current, {})
  BY <1>1, <1>2, NothingDeposited DEF Base, NotExtrapolated
<1>4. IInv'
  BY <1>2, <1>3, SimulatedKeeps DEF Base
<1>5. IndexInv' /\ collectionIds("ps")' = collectionIds("ps")
  BY <1>1 DEF Base, IndexInv, Throw, collectionIds, hasCollection
<1>6. ~busy'
  BY <1>1 DEF busy
<1>7. stage' = "ready" /\ failed' = "simulation"
  BY <1>1 DEF Throw
<1>8. ParticlesInv'
  BY <1>1, <1>5, <1>7 DEF Base, ParticlesInv
<1> QED BY <1>4, <1>5, <1>6, <1>7, <1>8 DEF Base, CurrentInv, LatestInv, Do

SmearStep(ts, what) == ts \in DOMAIN TrueOf /\ what = Smears[ts]

LEMMA SmearKeeps ==
  ASSUME Base, NEW ts, NEW what, SmearStep(ts, what), smear(ts, what)
  PROVE  Base'
<1>1. busy /\ Do(what) /\ Moves(1) /\ points' = points
  <2>1. busy /\ Do(what) /\ points' = points
    BY Zenon DEF smear, Do
  <2> QED BY <2>1, StepsMove
<1>2. ts \in Made /\ TrueOf[ts] \in Made /\ \A t \in DOMAIN TrueOf : what # Makes[TrueOf[t]]
  BY DEF SmearStep, Made, TrueOf, Makes, Smears
<1>3. CASE \E e \in SmearedEnergies : Store(New(ts), Latest(TrueOf[ts]), e)
  <2> PICK e : Store(New(ts), Latest(TrueOf[ts]), e)
    BY <1>3
  <2>1. PICK i \in 1 .. 6 : i \in DOMAIN out /\ Address(TrueOf[ts]) = out[i] /\ out[i] \in DOMAIN collections
    BY <1>1, <1>2, AtWork, AddressOf DEF Base, IInv
  <2>2. Latest(TrueOf[ts]) \in collections[out[i]]
    BY <1>1, <2>1 DEF Base, LatestInv, SmearStep
  <2>3. collections[out[i]] \subseteq Object
    BY <2>1 DEF Base, IInv, Shape, Pool
  <2>4. Latest(TrueOf[ts]) \in Object /\ Present(Latest(TrueOf[ts]))
    BY <2>1, <2>2, <2>3 DEF Present
  <2> QED BY <1>1, <1>2, <2>4, StoringKeeps DEF SmearStep
<1>4. CASE UNCHANGED <<collections, history, energy>>
  <2>1. UNCHANGED vars
    BY <1>4 DEF smear, vars, eventVars
  <2>2. points' \in PointType(DOMAIN ptc)
    BY <1>1 DEF Base, ParticlesInv, PointType
  <2> QED BY <1>1, <1>2, <2>1, <2>2, NotStoringKeeps
<1> QED BY <1>3, <1>4 DEF smear

\* To the manager the particle is done, and leaves nothing more.
LEMMA DoneKeeps ==
  ASSUME Base, particleDone
  PROVE  Base' /\ ~busy'
<1>1. /\ busy /\ current' = NoParticle /\ todo' = {(UNION todo) \ {current}} \ {{}}
      /\ UNCHANGED <<collections, folder, history, failed, stage, out, detector, ptc, points>>
  BY DEF particleDone, eventVars
<1>2. stage = "simulate" /\ current \in UNION todo
  BY <1>1, AtWork
<1>3. PICK g \in todo : current = First(g)
  BY <1>1 DEF Base, CurrentInv
<1>4. \A h \in todo : h = g /\ g \subseteq collectionIds("ps")
  BY <1>2 DEF Base, ParticlesInv
<1>5. UNION todo = g
  BY <1>4
<1>6. Simulated(current, {})
  BY <1>1, <1>2, <1>3, <1>5, NothingDeposited DEF Base, Simulated
<1>7. IInv'
  BY <1>2, <1>6, SimulatedKeeps DEF Base
<1>8. IndexInv' /\ collectionIds("ps")' = collectionIds("ps")
  BY <1>1 DEF Base, IndexInv, collectionIds, hasCollection
<1>9. ~busy'
  BY <1>1 DEF busy
<1>10. ParticlesInv'
  <2>1. \A h \in todo' : h = g \ {current} /\ h # {}
    BY <1>1, <1>5
  <2>2. \A f, h \in todo' : f = h /\ f # {} /\ f \subseteq collectionIds("ps")'
    BY <1>4, <1>8, <2>1
  <2>3. stage' = "simulate"
    BY <1>1, <1>2
  <2>4. /\ detector' \in {CMS, Clic} /\ \A i \in DOMAIN ptc' : ptc'[i] \in Particle
        /\ points' \in [DOMAIN ptc' -> [Positions -> {"none", "tracker", "ecal", "hcal"}]]
        /\ \A id \in collectionIds("ps")' : id.index \in DOMAIN ptc'
    BY <1>1, <1>8 DEF Base, ParticlesInv
  <2> QED BY <2>2, <2>3, <2>4 DEF ParticlesInv
<1> QED BY <1>7, <1>8, <1>9, <1>10 DEF Base, CurrentInv, LatestInv, Do

\* The whole of a sequence.
LEMMA FromTheStart ==
  ASSUME NEW S, NEW s \in Seq(S)
  PROVE  SubSeq(s, 1, Len(s)) = s
<1>1. /\ SubSeq(s, 1, Len(s)) \in Seq(S) /\ Len(SubSeq(s, 1, Len(s))) = Len(s)
      /\ \A i \in 1 .. Len(s) : SubSeq(s, 1, Len(s))[i] = s[i]
  BY SubSeqProperties
<1> QED BY <1>1, SeqEqual

\* What does not come first.
Later == {"smearTrack", "smearEcal", "smearHcal", "ecalCluster", "hcalCluster"}

LEMMA StartKeeps ==
  ASSUME Base, NEW p \in UNION todo, simulateParticle(p)
  PROVE  /\ Base' /\ Steps' \in Seq(What) /\ Done' = 0 /\ busy'
         /\ \A what \in Later : ~Do(what)'
<1>1. /\ stage = "simulate" /\ current' = p /\ script' = Script(ptc[p.index])
      /\ UNCHANGED vars /\ UNCHANGED <<detector, ptc, points>>
      /\ \E g \in todo : p = First(g)
  BY DEF simulateParticle
<1>2. p \in collectionIds("ps") /\ p \in Object
  BY <1>1 DEF Base, ParticlesInv, IInv, Shape
<1>3. ptc[p.index] \in Particle
  BY <1>2 DEF Base, ParticlesInv
<1>4. Steps' = Script(ptc[p.index]) /\ script' = Steps'
  BY <1>1 DEF Steps
<1>5. Ordered(Steps') /\ Steps' \in Seq(What) /\ Len(Steps') \in Nat
  <2>1. Ordered(Script(ptc[p.index]))
    BY <1>3, ScriptIsOrdered
  <2> QED BY <2>1, <1>4 DEF Ordered
<1>6. Done' = 0
  BY <1>4, <1>5 DEF Done
<1>7. IInv' /\ stage' = "simulate"
  BY <1>1, NextKeeps DEF Base, vars
<1>8. IndexInv' /\ collectionIds("ps")' = collectionIds("ps")
  BY <1>1 DEF Base, IndexInv, vars, eventVars, collectionIds, hasCollection
<1>9. CurrentInv'
  <2>1. script' = SubSeq(Steps', Done' + 1, Len(Steps'))
    BY <1>4, <1>5, <1>6, FromTheStart
  <2>2. \E g \in todo' : current' = First(g)
    BY <1>1 DEF vars
  <2> QED BY <2>1, <2>2, <1>6, <1>7 DEF CurrentInv
<1>10. ParticlesInv'
  BY <1>1, <1>7, <1>8 DEF Base, ParticlesInv, vars, eventVars
<1>11. \A what \in Later : ~Do(what)'
  <2> SUFFICES ASSUME NEW what \in Later, Do(what)' PROVE FALSE
    OBVIOUS
  <2>1. Len(Steps') >= 1 /\ Steps'[1] = what
    BY <1>4, <1>5 DEF Do
  <2> PICK S : S = Steps'
    OBVIOUS
  <2>2. Ordered(S) /\ 1 \in 1 .. Len(S) /\ S[1] = what
    BY <1>5, <2>1
  <2>3. \A j \in 1 .. Len(S) : S[j] \in Later => j > 1
    BY ONLY <2>2 DEF Ordered, Later
  <2> QED BY <2>2, <2>3
<1>13. LatestInv'
  <2>1. \A ts \in DOMAIN TrueOf : Smears[ts] \in Later
    BY DEF TrueOf, Smears, Later
  <2> QED BY <1>11, <2>1 DEF LatestInv
<1>12. busy'
  <2>1. p.index \in Nat
    BY <1>2 DEF Object
  <2> QED BY <1>1, <2>1 DEF busy, NoParticle
<1> QED BY <1>5, <1>6, <1>7, <1>8, <1>9, <1>10, <1>11, <1>12, <1>13 DEF Base

\* The caller and the manager go on between particles.
LEMMA MakeKeeps ==
  ASSUME Base, NEW kinds \in Events, MakeParticles(kinds)
  PROVE  Base' /\ Next /\ ~busy /\ ~busy'
<1>1. PICK n \in 0 .. NumParticles : kinds \in [0 .. n - 1 -> Particle]
  BY SimulationAssumption
<1>2. Cardinality(DOMAIN kinds) = n /\ n \in Nat
  <2>1. IsFiniteSet(0 .. n - 1) /\ Cardinality(0 .. n - 1) = n /\ n \in Nat
    BY FS_Interval, ManagerAssumption
  <2> QED BY <1>1, <2>1
<1>3. /\ ~hasCollection("ps") /\ AddParticles(n) /\ ptc' = kinds
      /\ points' = [i \in DOMAIN kinds |-> NoPoints]
      /\ UNCHANGED <<detector, current, script>>
  BY <1>2 DEF MakeParticles
<1>4. Next
  BY <1>1, <1>3 DEF Next, Call
<1>5. stage = "ready" /\ ~busy /\ ~busy'
  BY <1>3 DEF AddParticles, Idle, Base, CurrentInv, busy
<1>6. IInv'
  BY <1>4, NextKeeps DEF Base
<1>7. IndexInv'
  BY <1>2, <1>3, AddKeepsIndex DEF Base
<1>8. PICK c : c = [ts : {"ps"}, index : 0 .. n - 1]
  OBVIOUS
<1>9. /\ collections' = Append(collections, c) /\ stage' = "add"
      /\ out' = <<Len(collections) + 1>> /\ folder' = folder
      /\ collections \in Seq(Pool)
  BY <1>3, <1>8 DEF AddParticles, Base, IInv, Shape
<1>10. collections'[out'[1]] = c
  <2>1. Append(collections, c)[Len(collections) + 1] = c
    BY ONLY <1>9, Appended
  <2> QED BY <1>9, <2>1
<1>11. ParticlesInv'
  <2>1. ~hasCollection("ps")'
    BY <1>3, <1>9 DEF hasCollection
  <2>2. collectionIds("ps")' = {}
    BY <2>1 DEF collectionIds
  <2>3. \A id \in c : id.ts = "ps" /\ id.index \in DOMAIN kinds
    BY <1>1, <1>8
  <2>4. points' \in PointType(DOMAIN kinds)
    BY <1>3 DEF PointType, NoPoints
  <2> QED BY <1>1, <1>3, <1>9, <1>10, <2>1, <2>2, <2>3, <2>4 DEF Base, ParticlesInv, PointType
<1> QED BY <1>4, <1>5, <1>6, <1>7, <1>11 DEF Base, CurrentInv, LatestInv, Do

LEMMA SimulateKeeps ==
  ASSUME Base, SimulateEvent
  PROVE  Base' /\ Next /\ ~busy /\ ~busy'
<1>1. Simulate /\ UNCHANGED simVars /\ Next
  BY DEF SimulateEvent, Next, Call
<1>2. Begin("simulate", 6, {collectionIds("ps")})
  BY <1>1 DEF Simulate, Outputs
<1>3. stage = "ready" /\ ~busy /\ ~busy'
  BY <1>1, <1>2 DEF Begin, Idle, Base, CurrentInv, busy, simVars
<1>4. IInv' /\ Held
  <2>1. "simulate" \in Stages \ {"ready", "add"} /\ "ps" \in TypeAndSubtype
    BY DEF Stages, TypeAndSubtype
  <2>2. {collectionIds("ps")} \in SUBSET (SUBSET Object) /\ \A id \in collectionIds("ps") : hasObject(id)
    BY <2>1, CollectionObjects DEF Base
  <2> QED BY <1>2, <2>1, <2>2, BeginKeeps DEF Base
<1>5. IndexInv'
  BY <1>2, BeginKeepsIndex DEF Base, Stages
<1>6. stage' = "simulate" /\ todo' = {collectionIds("ps")} \ {{}} /\ folder' = folder
  BY <1>2 DEF Begin
<1>7. collectionIds("ps")' = collectionIds("ps")
  <2>1. "ps" \in TypeAndSubtype
    BY DEF TypeAndSubtype
  <2> QED BY <1>4, <1>6, <2>1 DEF Held, collectionIds, hasCollection
<1>8. ParticlesInv'
  BY <1>1, <1>6, <1>7 DEF Base, ParticlesInv, simVars
<1> QED BY <1>1, <1>3, <1>4, <1>5, <1>8 DEF Base, CurrentInv, LatestInv, Do

LEMMA FinishSimulationKeeps ==
  ASSUME Base, FinishSimulation
  PROVE  Base' /\ Next /\ ~busy /\ ~busy'
<1>1. /\ Finish /\ Next /\ UNCHANGED simVars /\ ~busy /\ ~busy'
  BY DEF FinishSimulation, Next, StageStep, busy, simVars
<1>2. /\ stage \in {"add", "simulate"} /\ stage' = "ready" /\ todo' = {} /\ UNCHANGED collections
      /\ AddCollections(out)
  BY <1>1 DEF Finish, Base, ParticlesInv
<1>3. IInv'
  BY <1>1, FinishKeeps DEF Base
<1>4. IndexInv'
  BY <1>2 DEF Base, IndexInv
<1>5. "ps" \in TypeAndSubtype
  BY DEF TypeAndSubtype
<1>6. \/ folder'["ps"] = folder["ps"]
      \/ \E i \in DOMAIN out : folder'["ps"] = out[i] /\ "ps" \in {x.ts : x \in collections[out[i]]}
  <2> PICK added : added = {i \in DOMAIN out :
            /\ collections[out[i]] # {}
            /\ \A j \in {n \in DOMAIN out : Refused(collections[out[n]]) # "no"} : i < j}
    OBVIOUS
  <2>1. folder'["ps"] = IF \E i \in added : "ps" \in {x.ts : x \in collections[out[i]]}
          THEN out[CHOOSE i \in added : "ps" \in {x.ts : x \in collections[out[i]]}]
          ELSE folder["ps"]
    BY <1>2, <1>5 DEF AddCollections
  <2> QED BY <2>1
<1>7. \A id \in collectionIds("ps")' : id.index \in DOMAIN ptc
  <2> SUFFICES ASSUME NEW id \in collectionIds("ps")' PROVE id.index \in DOMAIN ptc
    OBVIOUS
  <2>1. folder'["ps"] # 0 /\ id \in collections[folder'["ps"]]
    BY <1>2 DEF collectionIds, hasCollection
  <2>2. CASE folder'["ps"] = folder["ps"]
    <3>1. id \in collectionIds("ps")
      BY <2>1, <2>2 DEF collectionIds, hasCollection
    <3> QED BY <3>1 DEF Base, ParticlesInv
  <2>3. ASSUME NEW i \in DOMAIN out, folder'["ps"] = out[i], NEW x \in collections[out[i]], x.ts = "ps"
        PROVE  id.index \in DOMAIN ptc
    <3>1. CASE stage = "add"
      <4>1. i = 1
        BY <3>1 DEF Base, IInv, StageInv, Shape
      <4> QED BY <2>1, <2>3, <3>1, <4>1 DEF Base, ParticlesInv
    <3>2. CASE stage = "simulate"
      <4>1. i \in 1 .. 6 /\ x.ts = Outputs[i]
        BY <2>3, <3>2 DEF Base, IInv, StageInv, Shape
      <4> QED BY <2>3, <4>1 DEF Outputs
    <3> QED BY <1>2, <3>1, <3>2
  <2> QED BY <1>6, <2>2, <2>3
<1>8. ParticlesInv'
  BY <1>1, <1>2, <1>7 DEF Base, ParticlesInv, simVars
<1> QED BY <1>1, <1>3, <1>4, <1>8 DEF Base, CurrentInv, LatestInv, Do

LEMMA ClearEventKeeps ==
  ASSUME Base, ClearEvent
  PROVE  Base' /\ Next /\ ~busy /\ ~busy'
<1>1. /\ clear /\ Next /\ ptc' = <<>> /\ points' = <<>> /\ UNCHANGED <<detector, current, script>>
      /\ stage = "ready" /\ stage' = "ready"
      /\ collections' = <<>> /\ folder' = NoFolder
  BY DEF ClearEvent, Next, Call, clear
<1>2. ~busy /\ ~busy'
  BY <1>1 DEF Base, CurrentInv, busy
<1>3. IInv'
  BY <1>1, NextKeeps DEF Base
<1>4. IndexInv' /\ collectionIds("ps")' = {}
  BY <1>1 DEF IndexInv, collectionIds, hasCollection, NoFolder, TypeAndSubtype
<1>5. ParticlesInv'
  BY <1>1, <1>4 DEF Base, ParticlesInv
<1> QED BY <1>1, <1>2, <1>3, <1>4, <1>5 DEF Base, CurrentInv, LatestInv, Do

LEMMA InitBase == SimInit => Base
<1> SUFFICES ASSUME SimInit PROVE Base
  OBVIOUS
<1>1. /\ Init /\ detector \in {CMS, Clic} /\ ptc = <<>> /\ points = <<>> /\ ~busy
      /\ stage = "ready" /\ collections = <<>> /\ folder = NoFolder
  BY DEF SimInit, Init, EventInit, busy
<1>2. IInv
  BY <1>1, InitHolds
<1>3. IndexInv /\ collectionIds("ps") = {}
  BY <1>1 DEF IndexInv, collectionIds, hasCollection, NoFolder, TypeAndSubtype
<1>4. ParticlesInv
  BY <1>1, <1>3 DEF ParticlesInv
<1> QED BY <1>1, <1>2, <1>3, <1>4 DEF Base, CurrentInv, LatestInv, Do

\* What a step is: of the manager between particles, or of the current one.
Between == \/ \E kinds \in Events : MakeParticles(kinds)
           \/ SimulateEvent \/ FinishSimulation \/ ClearEvent
Storage == \/ makeAndStoreTrack
           \/ \E ts, what : ClusterStep(ts, what) /\ makeAndStoreCluster(ts, what)
           \/ \E ts, what : SmearStep(ts, what) /\ smear(ts, what)

LEMMA StepIs ==
  SimNext => \/ Between
             \/ \E p \in UNION todo : simulateParticle(p)
             \/ \E cyl \in {"tracker", "ecal", "hcal"} : propagateOne(cyl)
             \/ decay \/ Storage \/ particleDone
<1>1. \A i \in DOMAIN elements : elements[i] \in {"tracker", "ecal", "hcal"}
  BY DEF elements
<1>2. ClusterStep("et", "ecalCluster") /\ ClusterStep("ht", "hcalCluster")
  BY DEF ClusterStep
<1>3. SmearStep("ts", "smearTrack") /\ SmearStep("es", "smearEcal") /\ SmearStep("hs", "smearHcal")
  BY DEF SmearStep, TrueOf, Smears
<1>4. SimStep => \/ Between
                 \/ \E p \in UNION todo : simulateParticle(p)
                 \/ \E cyl \in {"tracker", "ecal", "hcal"} : propagateOne(cyl)
                 \/ decay \/ Storage \/ particleDone
  BY <1>1, <1>2, <1>3, Zenon DEF SimStep, Between, Storage
<1> QED BY <1>4, Zenon DEF SimNext, Between

LEMMA BetweenKeeps ==
  ASSUME Base, Between
  PROVE  Base' /\ Next /\ ~busy /\ ~busy'
BY MakeKeeps, SimulateKeeps, FinishSimulationKeeps, ClearEventKeeps DEF Between

LEMMA SimNextKeeps == Base /\ [SimNext]_allVars => Base'
<1> SUFFICES ASSUME Base, [SimNext]_allVars PROVE Base'
  OBVIOUS
<1>1. CASE UNCHANGED allVars
  <2>1. UNCHANGED <<collections, folder, history, failed, stage, out, todo, detector, ptc, points,
                    current, script>> /\ UNCHANGED vars
    BY <1>1 DEF allVars, vars, eventVars, simVars
  <2>2. IInv'
    BY <2>1, NextKeeps DEF Base
  <2>3. IndexInv' /\ collectionIds("ps")' = collectionIds("ps") /\ hasCollection("ps")' = hasCollection("ps")
    BY <2>1 DEF Base, IndexInv, collectionIds, hasCollection
  <2>4. CurrentInv'
    BY <2>1 DEF Base, CurrentInv, busy, Done, Steps
  <2>5. ParticlesInv'
    BY <2>1, <2>3 DEF Base, ParticlesInv
  <2>6. LatestInv'
    BY <2>1 DEF Base, LatestInv, Latest, Address, Do, busy
  <2> QED BY <2>2, <2>3, <2>4, <2>5, <2>6 DEF Base
<1>2. CASE SimNext
  <2>1. \A ts, what : ClusterStep(ts, what) /\ makeAndStoreCluster(ts, what) => Base'
    BY ClusterKeeps, ThrowKeeps
  <2> QED BY <1>2, <2>1, StepIs, BetweenKeeps, StartKeeps, PropagateKeeps, DecayKeeps, TrackKeeps,
             SmearKeeps, DoneKeeps DEF Storage
<1> QED BY <1>1, <1>2

(***************************************************************************)
(* While particles are simulated one step at a time, the event keeps the   *)
(* manager's invariant, each index is below the size of its collection,    *)
(* and what is smeared has just been made of the particle.                 *)
(***************************************************************************)
THEOREM SimulationIsManaged == SimSpec => []Base
<1> QED BY InitBase, SimNextKeeps, PTL DEF SimSpec
-----------------------------------------------------------------------------
(***************************************************************************)
(* The points of the paths.  Only the current particle may have a point of *)
(* the tracker where that of the hcal belongs: it is on its way there.     *)
(***************************************************************************)
OnTheWay(i) == /\ busy /\ i = current.index /\ Passed("toTracker") /\ ~Passed("toHcal")
               /\ TRUE \in Meets(ptc[i], "tracker")

PointsInv ==
  \A i \in DOMAIN points : /\ points[i]["kEcalIn"] \in {"none", "ecal"}
                           /\ points[i]["kHcalIn"] \in {"none", "hcal"} \/ OnTheWay(i)

\* What has met the tracker must meet the hcal.
LEMMA HcalIsMet ==
  ASSUME detector \in {CMS, Clic}, NEW k \in Particle, TRUE \in Meets(k, "tracker")
  PROVE  FALSE \notin Meets(k, "hcal")
<1>1. k.start.r \in Nat /\ k.start.z \in Nat /\ k.level \in BOOLEAN
  BY DEF Particle
<1>2. /\ detector.radius["tracker"] = 0 /\ detector.z["tracker"] = 0
      /\ detector.radius["hcal"] \in {190, 240} /\ detector.z["hcal"] \in {260, 285}
  BY DEF CMS, Clic
<1>3. CASE k.species \in Charged
  <2>1. k.start.r = 0
    BY <1>3 DEF Meets, helixMayMeet
  <2> QED BY <1>2, <1>3, <2>1 DEF Meets, helixMayMiss
<1>4. CASE k.species \notin Charged
  <2>1. straightMeets(k, "tracker")
    BY <1>4 DEF Meets
  <2>2. straightMeets(k, "hcal")
    BY <1>1, <1>2, <2>1 DEF straightMeets
  <2> QED BY <1>4, <2>2 DEF Meets
<1> QED BY <1>3, <1>4

\* The particle is not on its way when there is nothing left to do, nor when it
\* is to leave a cluster.
LEMMA NotOnTheWay ==
  ASSUME Base, busy, script = <<>> \/ Do("ecalCluster") \/ Do("hcalCluster")
  PROVE  \A i : ~OnTheWay(i)
<1> SUFFICES ASSUME Passed("toTracker"), ~Passed("toHcal") PROVE FALSE
  BY DEF OnTheWay
<1> PICK k : k = ptc[current.index]
  OBVIOUS
<1>1. /\ k \in Particle /\ Len(Steps) \in Nat /\ Done \in 0 .. Len(Steps)
      /\ script = <<>> => Done = Len(Steps)
      /\ \A what : Do(what) => Done < Len(Steps) /\ Steps[Done + 1] = what
  BY AtWork
<1>2. Steps = Script(k)
  BY DEF Steps
<1>3. Says(k, "toTracker")
  BY <1>1, <1>2 DEF Says, Passed
<1>4. Says(k, "toHcal") /\ ~Says(k, "ecalCluster") /\ ~Says(k, "hcalCluster")
  BY <1>1, <1>3, WhatIsSaid
<1>5. script = <<>>
  BY <1>1, <1>2, <1>4 DEF Says
<1> QED BY <1>1, <1>2, <1>4, <1>5 DEF Says, Passed

\* A step other than those to the tracker and to the hcal leaves a particle on its way.
LEMMA StaysOnTheWay ==
  ASSUME Base, busy, NEW n \in {1, 3}, Moves(n), NEW what, Do(what), n = 3 => what = "decay",
         what # "toHcal"
  PROVE  \A i : OnTheWay(i) => OnTheWay(i)'
<1>1. /\ Ordered(Steps) /\ Done \in Nat /\ Len(Steps) \in Nat /\ Done < Len(Steps)
      /\ Steps[Done + 1] = what
  BY AtWork
<1>2. /\ busy' /\ \A w : Passed(w)' <=> \E j \in 1 .. Done + n : Steps[j] = w
  BY MovesOn
<1>3. \A j \in 1 .. Done + n : j \in 1 .. Done \/ Steps[j] # "toHcal"
  <2>1. CASE n = 1
    BY <1>1, <2>1
  <2>2. CASE n = 3
    <3>1. Steps[Done + 1] = "decay"
      BY <1>1, <2>2
    <3> PICK S, d : S = Steps /\ d = Done + 1
      OBVIOUS
    <3>2. Ordered(S) /\ d \in 1 .. Len(S) /\ S[d] = "decay"
      BY <1>1, <3>1
    <3>3. S[d + 1] = "ecalCluster" /\ S[d + 2] = "smearEcal"
      BY <3>2 DEF Ordered
    <3>4. Steps[Done + 2] = "ecalCluster" /\ Steps[Done + 3] = "smearEcal"
      <4>1. d + 1 = Done + 2 /\ d + 2 = Done + 3
        BY <1>1
      <4> QED BY <3>3, <4>1
    <3>5. \A j \in 1 .. Done + 3 : j \in 1 .. Done \/ j = Done + 1 \/ j = Done + 2 \/ j = Done + 3
      BY <1>1
    <3> QED BY <2>2, <3>1, <3>4, <3>5
  <2> QED BY <2>1, <2>2
<1>4. \A i : Meets(ptc[i], "tracker")' = Meets(ptc[i], "tracker")
  BY DEF Moves, Meets, helixMayMeet, helixMayMiss, straightMeets
<1>5. Passed("toTracker") => Passed("toTracker")'
  <2>1. \A j \in 1 .. Done : j \in 1 .. Done + n
    BY <1>1
  <2>2. Passed("toTracker") => \E j \in 1 .. Done + n : Steps[j] = "toTracker"
    BY <2>1 DEF Passed
  <2> QED BY <1>2, <2>2
<1>6. ~Passed("toHcal") => ~Passed("toHcal")'
  <2>1. (\E j \in 1 .. Done + n : Steps[j] = "toHcal") => Passed("toHcal")
    BY <1>3 DEF Passed
  <2> QED BY <1>2, <2>1
<1> QED BY <1>2, <1>4, <1>5, <1>6 DEF OnTheWay, Moves

LEMMA PropagateMoves ==
  ASSUME Base, PointsInv, NEW cyl \in {"tracker", "ecal", "hcal"}, propagateOne(cyl)
  PROVE  PointsInv'
<1> PICK c, k : c = current.index /\ k = ptc[current.index]
  OBVIOUS
<1>1. /\ busy /\ Do(To[cyl]) /\ Moves(1) /\ UNCHANGED <<detector, ptc, current>>
      /\ k \in Particle /\ c \in DOMAIN ptc
      /\ points \in PointType(DOMAIN ptc) /\ detector \in {CMS, Clic}
  <2>1. busy /\ Do(To[cyl]) /\ Moves(1)
    BY StepsMove DEF propagateOne, Do
  <2> QED BY <2>1, AtWork DEF Moves, Base, ParticlesInv, PointType
<1>2. PICK m \in Meets(k, cyl) :
        points' = IF m THEN [points EXCEPT ![c][innerLayer(cyl)] = cyl] ELSE points
  BY DEF propagateOne
<1>3. m \in BOOLEAN
  BY DEF Meets, straightMeets
<1>4. CASE cyl = "ecal"
  <2>1. \A i \in DOMAIN points : /\ points'[i]["kHcalIn"] = points[i]["kHcalIn"]
                                 /\ points'[i]["kEcalIn"] \in {points[i]["kEcalIn"], "ecal"}
    BY <1>1, <1>2, <1>3, <1>4 DEF innerLayer, PointType, Positions
  <2>2. DOMAIN points' = DOMAIN points
    BY <1>1, <1>2 DEF PointType
  <2>3. \A i : OnTheWay(i) => OnTheWay(i)'
    BY <1>1, <1>4, StaysOnTheWay DEF To
  <2> QED BY <2>1, <2>2, <2>3 DEF PointsInv
<1>5. CASE cyl = "hcal"
  <2>1. \A i \in DOMAIN points : /\ points'[i]["kEcalIn"] = points[i]["kEcalIn"]
                                 /\ i # c => points'[i]["kHcalIn"] = points[i]["kHcalIn"]
                                 /\ ~m => points'[i]["kHcalIn"] = points[i]["kHcalIn"]
    BY <1>1, <1>2, <1>3, <1>5 DEF innerLayer, PointType, Positions
  <2>2. DOMAIN points' = DOMAIN points /\ (m => points'[c]["kHcalIn"] = "hcal")
    BY <1>1, <1>2, <1>5 DEF innerLayer, PointType, Positions
  <2>3. \A i : OnTheWay(i) => i = c /\ m
    BY <1>1, <1>2, <1>3, <1>5, HcalIsMet DEF OnTheWay
  <2> QED BY <2>1, <2>2, <2>3 DEF PointsInv
<1>6. CASE cyl = "tracker"
  <2>1. \A i \in DOMAIN points : /\ points'[i]["kEcalIn"] = points[i]["kEcalIn"]
                                 /\ i # c \/ ~m => points'[i]["kHcalIn"] = points[i]["kHcalIn"]
    BY <1>1, <1>2, <1>3, <1>6 DEF innerLayer, PointType, Positions
  <2>2. DOMAIN points' = DOMAIN points
    BY <1>1, <1>2 DEF PointType
  <2>3. \A i : OnTheWay(i) => OnTheWay(i)'
    BY <1>1, <1>6, StaysOnTheWay DEF To
  <2>4. ASSUME m PROVE OnTheWay(c)'
    <3>1. /\ Ordered(Steps) /\ Done \in Nat /\ Len(Steps) \in Nat /\ Done < Len(Steps)
          /\ Steps[Done + 1] = "toTracker"
      BY <1>1, <1>6, AtWork DEF To
    <3>2. Done + 1 \in 1 .. Len(Steps)
      BY <3>1
    <3> PICK S, d : S = Steps /\ d = Done + 1
      OBVIOUS
    <3>3. d = 1 /\ S[1] = "toTracker"
      BY <3>1, <3>2 DEF Ordered
    <3>4. /\ busy' /\ \A w : Passed(w)' <=> \E j \in 1 .. Done + 1 : Steps[j] = w
      BY <1>1, MovesOn
    <3>5. \A j \in 1 .. Done + 1 : j = 1
      BY <3>3
    <3>6. Passed("toTracker")' /\ ~Passed("toHcal")'
      <4>1. 1 \in 1 .. Done + 1 /\ Steps[1] = "toTracker"
        BY <3>3
      <4> QED BY <3>4, <3>5, <4>1
    <3>7. TRUE \in Meets(k, "tracker") /\ Meets(ptc[c], "tracker")' = Meets(k, "tracker")
      <4>1. m = TRUE
        BY <1>3, <2>4
      <4> QED BY <1>1, <1>2, <1>6, <4>1 DEF Meets, helixMayMeet, helixMayMiss, straightMeets
    <3> QED BY <1>1, <3>4, <3>6, <3>7 DEF OnTheWay
  <2>5. \A i \in DOMAIN points : i # c \/ ~m => points'[i]["kHcalIn"] \in {"none", "hcal"} \/ OnTheWay(i)'
    BY <2>1, <2>3 DEF PointsInv
  <2>6. \A i \in DOMAIN points : points'[i]["kEcalIn"] \in {"none", "ecal"}
    BY <2>1 DEF PointsInv
  <2> QED BY <2>2, <2>4, <2>5, <2>6 DEF PointsInv
<1> QED BY <1>4, <1>5, <1>6

LEMMA PointsKept ==
  ASSUME Base, PointsInv, [SimNext]_allVars
  PROVE  PointsInv'
<1>1. CASE UNCHANGED allVars
  BY <1>1 DEF allVars, vars, simVars, PointsInv, OnTheWay, busy, Passed, Done, Steps, Meets,
              helixMayMeet, helixMayMiss, straightMeets
<1>2. CASE Between
  <2>1. ~busy /\ ~busy'
    BY <1>2, BetweenKeeps
  <2>2. \/ points' = points
        \/ points' = <<>>
        \/ \E kinds : points' = [i \in DOMAIN kinds |-> NoPoints]
    BY <1>2 DEF Between, MakeParticles, SimulateEvent, FinishSimulation, ClearEvent, simVars
  <2>3. \A i \in DOMAIN points : /\ points[i]["kEcalIn"] \in {"none", "ecal"}
                                 /\ points[i]["kHcalIn"] \in {"none", "hcal"}
    BY <2>1 DEF PointsInv, OnTheWay
  <2> QED BY <2>2, <2>3 DEF PointsInv, NoPoints, Positions
<1>3. ASSUME NEW p \in UNION todo, simulateParticle(p) PROVE PointsInv'
  <2>1. ~busy /\ points' = points
    BY <1>3 DEF simulateParticle
  <2> QED BY <2>1 DEF PointsInv, OnTheWay
<1>4. ASSUME NEW n \in {1, 3}, Moves(n), busy, NEW what, Do(what), n = 3 => what = "decay", what # "toHcal",
             \/ points' = points
             \/ points' = [points EXCEPT ![current.index]["kEcalDecay"] = "ecal"]
      PROVE  PointsInv'
  <2>1. \A i : OnTheWay(i) => OnTheWay(i)'
    BY <1>4, StaysOnTheWay
  <2>2. points \in PointType(DOMAIN ptc)
    BY DEF Base, ParticlesInv, PointType
  <2>3. /\ DOMAIN points' = DOMAIN points
        /\ \A i \in DOMAIN points : /\ points'[i]["kEcalIn"] = points[i]["kEcalIn"]
                                     /\ points'[i]["kHcalIn"] = points[i]["kHcalIn"]
    BY <1>4, <2>2 DEF PointType, Positions
  <2> QED BY <2>1, <2>3 DEF PointsInv
<1>5. CASE decay
  <2>1. /\ busy /\ Do("decay") /\ (Moves(1) \/ Moves(3))
        /\ \/ points' = points
           \/ points' = [points EXCEPT ![current.index]["kEcalDecay"] = "ecal"]
    BY <1>5, StepsMove DEF decay, Do
  <2> QED BY <2>1, <1>4
<1>6. CASE makeAndStoreTrack
  <2>1. busy /\ Do("track") /\ Moves(1) /\ points' = points
    BY <1>6, StepsMove DEF makeAndStoreTrack, Do
  <2> QED BY <2>1, <1>4
<1>7. ASSUME NEW ts, NEW what, ClusterStep(ts, what), makeAndStoreCluster(ts, what) PROVE PointsInv'
  <2>1. busy /\ Do(what) /\ points' = points /\ what \in {"ecalCluster", "hcalCluster"}
    BY <1>7 DEF makeAndStoreCluster, ClusterStep, Do
  <2>2. CASE hasNamedPoint(current, PositionOf(ts))
    <3>1. Moves(1)
      BY <1>7, <2>2, StepsMove
    <3>2. what # "toHcal" /\ what # "decay"
      BY <2>1
    <3> QED BY <2>1, <3>1, <3>2, <1>4
  <2>3. CASE ~hasNamedPoint(current, PositionOf(ts))
    <3>1. \A i : ~OnTheWay(i)
      BY <2>1, NotOnTheWay
    <3> QED BY <2>1, <3>1 DEF PointsInv
  <2> QED BY <2>2, <2>3
<1>8. ASSUME NEW ts, NEW what, SmearStep(ts, what), smear(ts, what) PROVE PointsInv'
  <2>1. busy /\ Do(what) /\ Moves(1) /\ points' = points
    <3>1. busy /\ Do(what) /\ points' = points
      BY <1>8, Zenon DEF smear, Do
    <3> QED BY <1>8, <3>1, StepsMove
  <2>2. what # "toHcal" /\ what # "decay"
    BY <1>8 DEF SmearStep, TrueOf, Smears
  <2> QED BY <2>1, <2>2, <1>4
<1>9. CASE particleDone
  <2>1. busy /\ script = <<>> /\ points' = points
    BY <1>9 DEF particleDone
  <2>2. \A i : ~OnTheWay(i)
    BY <2>1, NotOnTheWay
  <2> QED BY <2>1, <2>2 DEF PointsInv
<1> QED BY <1>1, <1>2, <1>3, <1>5, <1>6, <1>7, <1>8, <1>9, StepIs, PropagateMoves DEF Storage

(***************************************************************************)
(* When no particle is being simulated, every path has its points on the   *)
(* cylinders they are named for, wherever the particles start and fly.     *)
(***************************************************************************)
THEOREM PointsAreSafe == SimSpec => []PointsAreOnTheirCylinders
<1>1. SimInit => PointsInv
  BY DEF SimInit, PointsInv
<1>2. Base /\ PointsInv /\ [SimNext]_allVars => PointsInv'
  BY PointsKept
<1>3. PointsInv => PointsAreOnTheirCylinders
  BY DEF PointsInv, OnTheWay, PointsAreOnTheirCylinders
<1> QED BY <1>1, <1>2, <1>3, InitBase, SimNextKeeps, PTL DEF SimSpec
-----------------------------------------------------------------------------
(***************************************************************************)
(* The energies.  Every detector refuses what is not above a positive      *)
(* threshold of the energy, or of the part of it across the beam.          *)
(***************************************************************************)
EnergyInv ==
  \A a \in DOMAIN collections : \A id \in collections[a] :
     id.ts \in DOMAIN TrueOf => id \in DOMAIN energy /\ energy[id] > 0

LEMMA PtIsNotGreater ==
  ASSUME NEW e \in Int, NEW dir \in [eta : Nat, theta : Nat, sin : Nat], NEW n \in Nat, Pt(e, dir) > n
  PROVE  e > 0
<1> PICK s \in Nat : s = dir.sin
  OBVIOUS
<1> SUFFICES ASSUME e <= 0 PROVE FALSE
  OBVIOUS
<1>1. e * s <= 0 /\ e * s \in Int
  <2>1. \A x \in Nat, y \in Nat : x * y \in Nat
    OBVIOUS
  <2>2. 0 - e \in Nat /\ e = 0 - (0 - e)
    OBVIOUS
  <2>3. e * s = 0 - ((0 - e) * s)
    OBVIOUS
  <2> QED BY <2>1, <2>2, <2>3
<1> PICK p \in Int : p = e * s
  BY <1>1
<1>2. p \div 100 <= 0
  BY <1>1
<1> QED BY <1>2 DEF Pt

LEMMA AcceptedIsPositive ==
  ASSUME detector \in {CMS, Clic}, ptc[current.index] \in Particle,
         NEW ts \in DOMAIN TrueOf, NEW e \in Int, NEW u, Accepted(ts, e, u)
  PROVE  e > 0
<1> PICK k : k = ptc[current.index]
  OBVIOUS
<1>1. k.dir \in [eta : Nat, theta : Nat, sin : Nat]
  <2>1. k.dir \in [eta : Nat, theta : 0 .. 89, sin : Nat]
    BY DEF Particle
  <2>2. 0 .. 89 \subseteq Nat
    OBVIOUS
  <2> QED BY <2>1, <2>2
<1>2. ts \in {"es", "hs", "ts"}
  BY DEF TrueOf
<1>3. \A n \in Nat : Pt(e, k.dir) > n => e > 0
  BY <1>1, PtIsNotGreater
<1>4. detector.name \in {"CMS", "Clic"}
  BY DEF CMS, Clic
<1>5. CASE ts = "ts"
  <2> PICK sp : sp = IF k.species \in {"electron", "muon"} THEN k.species ELSE "hadron"
    OBVIOUS
  <2>1. trackAcceptance(detector.name, sp, e, k.dir, u) /\ sp \in {"electron", "muon", "hadron"}
    BY <1>5 DEF Accepted
  <2>2. \/ CMSelectronAcceptance(e, k.dir) \/ CMSmuonAcceptance(e, k.dir)
        \/ ClicElectronAcceptance(e, k.dir, u) \/ ClicMuonAcceptance(e, k.dir)
        \/ CMSTrackerAcceptance(e, k.dir, u) \/ ClicTrackerAcceptance(e, k.dir, u)
    <3>1. CASE detector.name = "CMS"
      <4>1. CASE sp = "electron"
        BY <2>1, <3>1, <4>1, Zenon DEF trackAcceptance
      <4>2. CASE sp = "muon"
        BY <2>1, <3>1, <4>2, Zenon DEF trackAcceptance
      <4>3. CASE sp = "hadron"
        BY <2>1, <3>1, <4>3, Zenon DEF trackAcceptance
      <4> QED BY <2>1, <4>1, <4>2, <4>3
    <3>2. CASE detector.name = "Clic"
      <4>1. CASE sp = "electron"
        BY <2>1, <3>2, <4>1, Zenon DEF trackAcceptance
      <4>2. CASE sp = "muon"
        BY <2>1, <3>2, <4>2, Zenon DEF trackAcceptance
      <4>3. CASE sp = "hadron"
        BY <2>1, <3>2, <4>3, Zenon DEF trackAcceptance
      <4> QED BY <2>1, <4>1, <4>2, <4>3
    <3> QED BY <1>4, <3>1, <3>2
  <2>3. \/ e > 50 \/ e > 75 \/ Pt(e, k.dir) > 50 \/ Pt(e, k.dir) > 5 \/ Pt(e, k.dir) > 4
        \/ Pt(e, k.dir) > 20
    BY <2>2 DEF CMSelectronAcceptance, CMSmuonAcceptance, ClicElectronAcceptance, ClicMuonAcceptance,
                CMSTrackerAcceptance, ClicTrackerAcceptance, CMS, Clic
  <2> QED BY <1>3, <2>3
<1>6. CASE ts # "ts"
  <2> PICK layer : layer = IF ts = "es" THEN "ecal" ELSE "hcal"
    OBVIOUS
  <2>1. clusterAcceptance(detector.name, layer, e, k.dir, u < 50) /\ layer \in {"ecal", "hcal"}
    BY <1>6 DEF Accepted
  <2>2. \/ CMSECALacceptance(e, k.dir) \/ CMSHCALacceptance(e, k.dir, u < 50)
        \/ ClicECALacceptance(e, k.dir) \/ ClicHCALacceptance(e, k.dir)
    <3>1. CASE detector.name = "CMS" /\ layer = "ecal"
      BY <2>1, <3>1, Zenon DEF clusterAcceptance
    <3>2. CASE detector.name = "CMS" /\ layer = "hcal"
      BY <2>1, <3>2, Zenon DEF clusterAcceptance
    <3>3. CASE detector.name = "Clic" /\ layer = "ecal"
      BY <2>1, <3>3, Zenon DEF clusterAcceptance
    <3>4. CASE detector.name = "Clic" /\ layer = "hcal"
      BY <2>1, <3>4, Zenon DEF clusterAcceptance
    <3> QED BY <1>4, <2>1, <3>1, <3>2, <3>3, <3>4
  <2>3. e > 3 \/ e > 10 \/ e > 11 \/ e > 70 \/ e > 5
    BY <2>2 DEF CMSECALacceptance, CMSHCALacceptance, ClicECALacceptance, ClicHCALacceptance, CMS, Clic
  <2> QED BY <2>3
<1> QED BY <1>5, <1>6

LEMMA EnergyStored ==
  ASSUME EnergyInv, NEW id, NEW parent, NEW e, Store(id, parent, e),
         id.ts \in DOMAIN TrueOf => e > 0
  PROVE  EnergyInv'
<1>1. /\ DOMAIN collections' = DOMAIN collections
      /\ \A a \in DOMAIN collections : collections'[a] \subseteq collections[a] \cup {id}
      /\ energy' = [i \in DOMAIN energy \cup {id} |-> IF i = id THEN e ELSE energy[i]]
  BY DEF Store
<1> QED BY <1>1 DEF EnergyInv

LEMMA EnergyKept ==
  ASSUME Base, EnergyInv, [SimNext]_allVars
  PROVE  EnergyInv'
<1>1. UNCHANGED <<collections, energy>> => EnergyInv'
  BY DEF EnergyInv
<1>2. CASE UNCHANGED allVars
  BY <1>1, <1>2 DEF allVars, vars, eventVars, simVars
<1>3. ASSUME NEW kinds \in Events, MakeParticles(kinds) PROVE EnergyInv'
  <2>1. PICK c : c = [ts : {"ps"}, index : 0 .. Cardinality(DOMAIN kinds) - 1]
    OBVIOUS
  <2>2. collections \in Seq(Pool) /\ collections' = Append(collections, c) /\ energy' = energy
    BY <1>3, <2>1 DEF MakeParticles, AddParticles, Base, IInv, Shape
  <2>3. /\ DOMAIN collections' = 1 .. Len(collections) + 1 /\ DOMAIN collections = 1 .. Len(collections)
        /\ \A a \in DOMAIN collections : collections'[a] = collections[a]
        /\ collections'[Len(collections) + 1] = c /\ Len(collections) \in Nat
    <3>1. /\ DOMAIN Append(collections, c) = 1 .. Len(collections) + 1
          /\ \A a \in DOMAIN collections : Append(collections, c)[a] = collections[a]
          /\ Append(collections, c)[Len(collections) + 1] = c
      BY ONLY <2>2, Appended
    <3> QED BY ONLY <2>2, <3>1
  <2>4. \A a \in DOMAIN collections' : a \in DOMAIN collections \/ a = Len(collections) + 1
    BY <2>3
  <2>5. \A id \in c : id.ts \notin DOMAIN TrueOf
    BY <2>1 DEF TrueOf
  <2> QED BY <2>2, <2>3, <2>4, <2>5 DEF EnergyInv
<1>4. CASE SimulateEvent
  <2>1. /\ collections \in Seq(Pool) /\ energy' = energy
        /\ collections' = collections \o [i \in 1 .. 6 |-> {}]
    BY <1>4 DEF SimulateEvent, Simulate, Outputs, Begin, simVars, Base, IInv, Shape
  <2>2. [i \in 1 .. 6 |-> {}] \in Seq(Pool) /\ Len([i \in 1 .. 6 |-> {}]) = 6
    BY FS_EmptySet DEF Pool
  <2>3. \A a \in DOMAIN collections' : \/ a \in DOMAIN collections /\ collections'[a] = collections[a]
                                       \/ collections'[a] = {}
    BY <2>1, <2>2
  <2> QED BY <2>1, <2>3 DEF EnergyInv
<1>5. CASE FinishSimulation
  BY <1>1, <1>5 DEF FinishSimulation, Finish, simVars
<1>6. CASE ClearEvent
  BY <1>6 DEF ClearEvent, clear, EnergyInv
<1>7. ASSUME NEW p, simulateParticle(p) PROVE EnergyInv'
  BY <1>1, <1>7 DEF simulateParticle, vars, eventVars
<1>8. ASSUME NEW cyl, propagateOne(cyl) PROVE EnergyInv'
  BY <1>1, <1>8 DEF propagateOne, vars, eventVars
<1>9. CASE decay
  BY <1>1, <1>9 DEF decay, vars, eventVars
<1>10. CASE particleDone
  BY <1>1, <1>10 DEF particleDone, eventVars
<1>11. \A ts : New(ts).ts = ts
  BY DEF New, NewId
<1>12. CASE makeAndStoreTrack
  BY <1>11, <1>12, EnergyStored DEF makeAndStoreTrack, TrueOf
<1>13. ASSUME NEW ts, NEW what, ClusterStep(ts, what), makeAndStoreCluster(ts, what) PROVE EnergyInv'
  <2>1. ts \notin DOMAIN TrueOf
    BY <1>13 DEF ClusterStep, TrueOf
  <2>2. Store(New(ts), current, Deposited(ts)) \/ UNCHANGED <<collections, energy>>
    BY <1>13 DEF makeAndStoreCluster
  <2> QED BY <1>1, <1>11, <2>1, <2>2, EnergyStored
<1>14. ASSUME NEW ts, NEW what, SmearStep(ts, what), smear(ts, what) PROVE EnergyInv'
  <2>1. busy /\ ts \in DOMAIN TrueOf
    BY <1>14 DEF SmearStep, smear, Do
  <2>2. \/ \E e \in SmearedEnergies, u \in {0, 92, 97} :
              Accepted(ts, e, u) /\ Store(New(ts), Latest(TrueOf[ts]), e)
        \/ UNCHANGED <<collections, energy>>
    BY <1>14 DEF smear
  <2>3. ASSUME NEW e \in SmearedEnergies, NEW u, Accepted(ts, e, u),
               Store(New(ts), Latest(TrueOf[ts]), e)
        PROVE  EnergyInv'
    <3>1. e \in Int /\ detector \in {CMS, Clic} /\ ptc[current.index] \in Particle
      BY <2>1, AtWork, SimulationAssumption DEF Base, ParticlesInv
    <3>2. e > 0
      BY <2>1, <2>3, <3>1, AcceptedIsPositive
    <3> QED BY <2>3, <3>2, EnergyStored
  <2> QED BY <1>1, <2>2, <2>3
<1> QED BY <1>2, <1>3, <1>4, <1>5, <1>6, <1>7, <1>8, <1>9, <1>10, <1>12, <1>13, <1>14, StepIs
        DEF Storage, Between

(***************************************************************************)
(* What is stored after smearing has a positive energy, whatever smearing  *)
(* makes of energies and momenta, in either detector.                      *)
(***************************************************************************)
THEOREM EnergyIsPositive == SimSpec => []StoredEnergyIsPositive
<1>1. SimInit => EnergyInv
  BY DEF SimInit, Init, EventInit, EnergyInv
<1>2. Base /\ EnergyInv /\ [SimNext]_allVars => EnergyInv'
  BY EnergyKept
<1>3. Base /\ EnergyInv => StoredEnergyIsPositive
  <2> SUFFICES ASSUME Base, EnergyInv, NEW ts \in {"es", "hs", "ts"}, NEW id \in collectionIds(ts)
               PROVE  energy[id] > 0
    BY DEF StoredEnergyIsPositive
  <2>1. ts \in TypeAndSubtype /\ ts \in DOMAIN TrueOf
    BY DEF TypeAndSubtype, Clusters, TrueOf
  <2>2. folder[ts] \in DOMAIN collections /\ id \in collections[folder[ts]] /\ id.ts = ts
    BY <2>1 DEF Base, IInv, FolderInv, FoldersLeadToCollections, collectionIds
  <2> QED BY <2>1, <2>2 DEF EnergyInv
<1> QED BY <1>1, <1>2, <1>3, InitBase, SimNextKeeps, PTL DEF SimSpec
-----------------------------------------------------------------------------
(***************************************************************************)
(* The clusters.  When one is about to be made, either the path has its    *)
(* point on the calorimeter or the particle could not have reached it.     *)
(***************************************************************************)
ReachInv ==
  /\ Do("ecalCluster") => hasNamedPoint(current, "kEcalIn") \/ Unreachable(ptc[current.index])
  /\ Do("hcalCluster") => hasNamedPoint(current, "kHcalIn") \/ Unreachable(ptc[current.index])

\* What comes before a cluster.
LEMMA ClusterFollows ==
  ASSUME Base, busy, NEW n \in {1, 3}, Moves(n), NEW what, Do(what), n = 3 => what = "decay"
  PROVE  /\ Do("ecalCluster")' =>
              /\ n = 1 /\ Says(ptc[current.index], "ecalCluster")
              /\ what = IF Says(ptc[current.index], "decay") THEN "decay" ELSE "toEcal"
         /\ Do("hcalCluster")' => n = 1 /\ what = "toHcal" /\ Says(ptc[current.index], "hcalCluster")
<1>1. /\ Ordered(Steps) /\ Done \in Nat /\ Len(Steps) \in Nat /\ Done < Len(Steps)
      /\ Steps[Done + 1] = what
  BY AtWork
<1> PICK S, j : S = Steps /\ j = Done + 1
  OBVIOUS
<1>2. Ordered(S) /\ j \in 1 .. Len(S) /\ Len(S) \in Nat /\ S[j] = what
  BY <1>1
<1>3. \A w : Do(w)' => j + n \in 1 .. Len(S) /\ S[j + n] = w
  <2>1. \A w : Do(w)' => Done + n < Len(Steps) /\ Steps[Done + n + 1] = w
    BY MovesOn
  <2> QED BY <1>1, <2>1
<1>4. n = 3 => S[j + n] = "toHcal"
  BY <1>2 DEF Ordered
<1>5. j + 1 - 1 = j
  BY <1>2
<1>6. n = 1 \/ n = 3
  OBVIOUS
<1>7. \A w : Says(ptc[current.index], w) <=> \E i \in 1 .. Len(S) : S[i] = w
  BY DEF Says, Steps
<1>8. ASSUME Do("hcalCluster")' PROVE n = 1 /\ what = "toHcal" /\ Says(ptc[current.index], "hcalCluster")
  <2>1. j + n \in 1 .. Len(S) /\ S[j + n] = "hcalCluster"
    BY <1>3, <1>8
  <2>2. n = 1
    BY <1>4, <1>6, <2>1
  <2>3. S[j + 1 - 1] = "toHcal"
    BY <1>2, <2>1, <2>2 DEF Ordered
  <2> QED BY <1>2, <1>5, <1>7, <2>1, <2>2, <2>3
<1>9. ASSUME Do("ecalCluster")'
      PROVE  /\ n = 1 /\ Says(ptc[current.index], "ecalCluster")
             /\ what = IF Says(ptc[current.index], "decay") THEN "decay" ELSE "toEcal"
  <2>1. j + n \in 1 .. Len(S) /\ S[j + n] = "ecalCluster"
    BY <1>3, <1>9
  <2>2. n = 1
    BY <1>4, <1>6, <2>1
  <2>3. S[j + 1 - 1] \in {"toEcal", "decay"}
    BY <1>2, <2>1, <2>2 DEF Ordered
  <2>4. what \in {"toEcal", "decay"}
    BY <1>2, <1>5, <2>3
  <2>5. ASSUME NEW i \in 1 .. Len(S), S[i] = "decay" PROVE what = "decay"
    <3>1. i + 1 \in 1 .. Len(S) /\ S[i + 1] = "ecalCluster"
      BY <1>2, <2>5 DEF Ordered
    <3>2. i + 1 = j + 1
      BY <1>2, <2>1, <2>2, <3>1 DEF Ordered
    <3>3. i = j
      BY <1>2, <3>2
    <3> QED BY <1>2, <2>5, <3>3
  <2> QED BY <1>2, <1>7, <2>1, <2>2, <2>4, <2>5
<1> QED BY <1>8, <1>9

\* A particle that may miss a calorimeter it is to leave a cluster in.
LEMMA MissIsUnreachable ==
  ASSUME NEW k \in Particle, detector \in {CMS, Clic}
  PROVE  /\ k.species = "photon" /\ FALSE \in Meets(k, "ecal") => Unreachable(k)
         /\ k.species \in {"chargedHadron", "neutralHadron"} /\ FALSE \in Meets(k, "hcal") => Unreachable(k)
<1>1. k.start.r \in Nat /\ k.start.z \in Nat /\ k.level \in BOOLEAN
  BY DEF Particle
<1>2. /\ detector.radius["ecal"] \in Nat /\ detector.z["ecal"] \in Nat
      /\ detector.radius["hcal"] \in Nat /\ detector.z["hcal"] \in Nat
  BY DEF CMS, Clic
<1>3. k.species = "photon" /\ FALSE \in Meets(k, "ecal") => Unreachable(k)
  BY <1>1, <1>2 DEF Meets, straightMeets, Unreachable, Charged
<1>4. k.species = "neutralHadron" /\ FALSE \in Meets(k, "hcal") => Unreachable(k)
  BY <1>1, <1>2 DEF Meets, straightMeets, Unreachable, Charged
<1>5. k.species = "chargedHadron" /\ FALSE \in Meets(k, "hcal") => Unreachable(k)
  BY <1>1, <1>2 DEF Meets, helixMayMiss, Unreachable, Charged
<1> QED BY <1>3, <1>4, <1>5

LEMMA PropagateReaches ==
  ASSUME Base, NEW cyl \in {"tracker", "ecal", "hcal"}, propagateOne(cyl)
  PROVE  ReachInv'
<1> PICK c, k : c = current.index /\ k = ptc[current.index]
  OBVIOUS
<1>1. /\ busy /\ Do(To[cyl]) /\ Moves(1) /\ UNCHANGED <<detector, ptc, current>>
      /\ k \in Particle /\ c \in DOMAIN ptc
      /\ points \in PointType(DOMAIN ptc) /\ detector \in {CMS, Clic}
  <2>1. busy /\ Do(To[cyl]) /\ Moves(1)
    BY StepsMove DEF propagateOne, Do
  <2> QED BY <2>1, AtWork DEF Moves, Base, ParticlesInv, PointType
<1>2. PICK m \in Meets(k, cyl) :
        points' = IF m THEN [points EXCEPT ![c][innerLayer(cyl)] = cyl] ELSE points
  BY DEF propagateOne
<1>3. m \in BOOLEAN /\ (~m => FALSE \in Meets(k, cyl))
  BY <1>2 DEF Meets, straightMeets
<1>4. m => hasNamedPoint(current, innerLayer(cyl))'
  <2> SUFFICES ASSUME m PROVE points'[c][innerLayer(cyl)] # "none"
    BY <1>1 DEF hasNamedPoint
  <2>1. innerLayer(cyl) \in Positions
    BY DEF innerLayer, Positions
  <2> QED BY <1>1, <1>2, <2>1 DEF PointType
<1>5. Unreachable(ptc[current.index])' = Unreachable(k)
  BY <1>1 DEF Unreachable
<1>6. To["tracker"] = "toTracker" /\ To["ecal"] = "toEcal" /\ To["hcal"] = "toHcal"
  BY DEF To
<1>7. ASSUME Do("ecalCluster")'
      PROVE  hasNamedPoint(current, "kEcalIn")' \/ Unreachable(ptc[current.index])'
  <2>1. /\ Says(k, "ecalCluster") /\ To[cyl] = IF Says(k, "decay") THEN "decay" ELSE "toEcal"
    BY <1>1, <1>7, ClusterFollows
  <2>2. cyl = "ecal" /\ ~Says(k, "decay")
    BY <1>6, <2>1
  <2>3. k.species = "photon"
    BY <1>1, <2>1, <2>2, WhatIsSaid
  <2> QED BY <1>1, <1>3, <1>4, <1>5, <2>2, <2>3, MissIsUnreachable DEF innerLayer
<1>8. ASSUME Do("hcalCluster")'
      PROVE  hasNamedPoint(current, "kHcalIn")' \/ Unreachable(ptc[current.index])'
  <2>1. Says(k, "hcalCluster") /\ To[cyl] = "toHcal"
    BY <1>1, <1>8, ClusterFollows
  <2>2. cyl = "hcal"
    BY <1>6, <2>1
  <2>3. k.species \in {"chargedHadron", "neutralHadron"}
    BY <1>1, <2>1, WhatIsSaid
  <2> QED BY <1>1, <1>3, <1>4, <1>5, <2>2, <2>3, MissIsUnreachable DEF innerLayer
<1> QED BY <1>7, <1>8 DEF ReachInv

LEMMA ReachKept ==
  ASSUME Base, ReachInv, [SimNext]_allVars
  PROVE  ReachInv'
<1>1. CASE UNCHANGED allVars
  BY <1>1 DEF allVars, vars, simVars, ReachInv, Do, busy, hasNamedPoint, Unreachable
<1>2. ~busy' => ReachInv'
  BY DEF ReachInv, Do
<1>3. CASE Between
  BY <1>2, <1>3, BetweenKeeps
<1>4. ASSUME NEW p \in UNION todo, simulateParticle(p) PROVE ReachInv'
  BY <1>4, StartKeeps DEF ReachInv, Later
<1>5. CASE decay
  <2>1. busy /\ Do("decay")
    BY <1>5 DEF decay, Do
  <2>2. Moves(3) => ReachInv'
    BY <2>1, ClusterFollows DEF ReachInv
  <2>3. ASSUME Moves(1), hasNamedPoint(current, "kEcalIn") PROVE ReachInv'
    <3>1. ~Do("hcalCluster")'
      BY <2>1, <2>3, ClusterFollows
    <3>2. hasNamedPoint(current, "kEcalIn")'
      <4>1. /\ points' = points \/ points' = [points EXCEPT ![current.index]["kEcalDecay"] = "ecal"]
            /\ current' = current
        BY <1>5 DEF decay
      <4>2. points \in PointType(DOMAIN ptc) /\ current.index \in DOMAIN ptc
        BY <2>1, AtWork DEF Base, ParticlesInv, PointType
      <4> QED BY <2>3, <4>1, <4>2 DEF hasNamedPoint, PointType, Positions
    <3> QED BY <3>1, <3>2 DEF ReachInv
  <2> QED BY <1>5, <2>2, <2>3, StepsMove
<1>6. ASSUME Moves(1), busy, NEW what, Do(what), what \notin {"decay", "toEcal", "toHcal"}
      PROVE  ReachInv'
  BY <1>6, ClusterFollows DEF ReachInv
<1>7. CASE makeAndStoreTrack
  <2>1. busy /\ Do("track") /\ Moves(1)
    BY <1>7, StepsMove DEF makeAndStoreTrack, Do
  <2> QED BY <2>1, <1>6
<1>8. ASSUME NEW ts, NEW what, ClusterStep(ts, what), makeAndStoreCluster(ts, what) PROVE ReachInv'
  <2>1. busy /\ Do(what) /\ what \in {"ecalCluster", "hcalCluster"}
    BY <1>8 DEF makeAndStoreCluster, ClusterStep, Do
  <2>2. CASE hasNamedPoint(current, PositionOf(ts))
    <3>1. Moves(1)
      BY <1>8, <2>2, StepsMove
    <3> QED BY <2>1, <3>1, <1>6
  <2>3. CASE ~hasNamedPoint(current, PositionOf(ts))
    BY <1>2, <1>8, <2>3, ThrowKeeps
  <2> QED BY <2>2, <2>3
<1>9. ASSUME NEW ts, NEW what, SmearStep(ts, what), smear(ts, what) PROVE ReachInv'
  <2>1. busy /\ Do(what) /\ Moves(1)
    <3>1. busy /\ Do(what)
      BY <1>9, Zenon DEF smear, Do
    <3> QED BY <1>9, <3>1, StepsMove
  <2>2. what \notin {"decay", "toEcal", "toHcal"}
    BY <1>9 DEF SmearStep, TrueOf, Smears
  <2> QED BY <2>1, <2>2, <1>6
<1>10. CASE particleDone
  BY <1>2, <1>10, DoneKeeps
<1> QED BY <1>1, <1>3, <1>4, <1>5, <1>7, <1>8, <1>9, <1>10, StepIs, PropagateReaches DEF Storage

LEMMA OnlyAClusterThrows ==
  ASSUME Base, ReachInv, SimNext, failed = "no", failed' = "simulation"
  PROVE  busy /\ Unreachable(ptc[current.index])
<1>1. ASSUME NEW ts, NEW what, ClusterStep(ts, what), makeAndStoreCluster(ts, what)
      PROVE  busy /\ Unreachable(ptc[current.index])
  <2>1. Do(what) /\ busy
    BY <1>1 DEF makeAndStoreCluster, Do
  <2>2. ~hasNamedPoint(current, PositionOf(ts))
    BY <1>1 DEF makeAndStoreCluster
  <2>3. \/ what = "ecalCluster" /\ PositionOf(ts) = "kEcalIn"
        \/ what = "hcalCluster" /\ PositionOf(ts) = "kHcalIn"
    BY <1>1 DEF ClusterStep, PositionOf
  <2> QED BY <2>1, <2>2, <2>3 DEF ReachInv
<1>2. ~FinishSimulation
  <2> SUFFICES ASSUME FinishSimulation PROVE FALSE
    OBVIOUS
  <2>1. \E c : "simulation" = Refused(c)
    BY DEF FinishSimulation, Finish, AddCollections
  <2>2. \A c : Refused(c) # "simulation"
    BY DEF Refused
  <2> QED BY <2>1, <2>2
<1>3. ~Between
  <2>1. \A kinds : ~MakeParticles(kinds)
    BY DEF MakeParticles, AddParticles
  <2>2. ~SimulateEvent
    BY DEF SimulateEvent, Simulate, Begin
  <2>3. ~ClearEvent
    BY DEF ClearEvent, clear
  <2> QED BY <1>2, <2>1, <2>2, <2>3 DEF Between
<1>4. /\ \A p : ~simulateParticle(p)
      /\ \A cyl : ~propagateOne(cyl)
      /\ ~decay /\ ~particleDone
  BY DEF simulateParticle, propagateOne, decay, particleDone, vars, eventVars
<1>5. ~makeAndStoreTrack /\ \A ts, what : ~smear(ts, what)
  BY DEF makeAndStoreTrack, smear
<1> QED BY <1>1, <1>3, <1>4, <1>5, StepIs DEF Storage

(***************************************************************************)
(* An event is discarded by the simulation only on account of a particle   *)
(* that could not have reached the calorimeter it was to leave a cluster   *)
(* in, whatever is simulated before it.                                    *)
(***************************************************************************)
THEOREM DiscardsAreExplained == SimSpec => DiscardIsExplained
<1>1. SimInit => ReachInv
  BY DEF SimInit, ReachInv, Do, busy
<1>2. Base /\ ReachInv /\ [SimNext]_allVars => ReachInv'
  BY ReachKept
<1>3. Base /\ ReachInv /\ [SimNext]_allVars =>
        [failed = "no" /\ failed' = "simulation" => busy /\ Unreachable(ptc[current.index])]_allVars
  BY OnlyAClusterThrows
<1> QED BY <1>1, <1>2, <1>3, InitBase, SimNextKeeps, PTL DEF SimSpec, DiscardIsExplained
-----------------------------------------------------------------------------
(***************************************************************************)
(* What the manager is shown.  While a particle is simulated it sees the   *)
(* event as it was before; what the particle has left so far is a set of   *)
(* kinds, one object of each.                                              *)
(***************************************************************************)
NewOf(ts) == [ts |-> ts, index |-> Cardinality(before.collections[Address(ts)])]
LinkOf(ts) == <<IF ts \in DOMAIN TrueOf THEN NewOf(TrueOf[ts]) ELSE current, NewOf(ts)>>
StepFor(ts) == IF ts \in DOMAIN TrueOf THEN Smears[ts] ELSE Makes[ts]

LeftBehind(made) ==
  /\ DOMAIN collections = DOMAIN before.collections
  /\ \A a \in DOMAIN collections :
       collections[a] = before.collections[a] \cup {NewOf(ts) : ts \in {t \in made : Address(t) = a}}
  /\ history = before.history \cup {LinkOf(ts) : ts \in made}
  /\ \A ts \in made : Latest(ts) = NewOf(ts)

SoFar(made) ==
  /\ \A ts \in made : Passed(StepFor(ts)) /\ (ts \in DOMAIN TrueOf => TrueOf[ts] \in made)
  /\ Passed("track") => "tt" \in made
  /\ Passed("hcalCluster") => "ht" \in made
  /\ Passed("ecalCluster") /\ ~Passed("decay") => "et" \in made
  /\ \A ts \in DOMAIN TrueOf : Do(Smears[ts]) => TrueOf[ts] \in made

MadeInv == busy => \E made \in SUBSET Made : LeftBehind(made) /\ SoFar(made)

LEMMA PassedNext ==
  ASSUME Base, busy, NEW n \in {1, 3}, Moves(n), NEW what, Do(what), n = 3 => what = "decay"
  PROVE  /\ ~Passed(what)
         /\ \A w : Passed(w)' <=> (Passed(w) \/ w = what \/ (n = 3 /\ w \in {"ecalCluster", "smearEcal"}))
<1>1. /\ Ordered(Steps) /\ Done \in Nat /\ Len(Steps) \in Nat /\ Done < Len(Steps)
      /\ Steps[Done + 1] = what
  BY AtWork
<1>2. \A w : Passed(w)' <=> \E j \in 1 .. Done + n : Steps[j] = w
  BY MovesOn
<1>3. ~Passed(what)
  <2> SUFFICES ASSUME NEW j \in 1 .. Done, Steps[j] = what PROVE FALSE
    BY DEF Passed
  <2>1. j \in 1 .. Len(Steps) /\ Done + 1 \in 1 .. Len(Steps)
    BY <1>1
  <2>2. j = Done + 1
    BY <1>1, <2>1 DEF Ordered
  <2> QED BY <1>1, <2>2
<1>4. CASE n = 1
  <2>1. \A j \in 1 .. Done + 1 : j \in 1 .. Done \/ j = Done + 1
    BY <1>1
  <2>2. Done + 1 \in 1 .. Done + 1 /\ \A j \in 1 .. Done : j \in 1 .. Done + 1
    BY <1>1
  <2>3. \A w : (\E j \in 1 .. Done + 1 : Steps[j] = w) <=> Passed(w) \/ w = what
    BY <1>1, <2>1, <2>2 DEF Passed
  <2> QED BY <1>2, <1>3, <1>4, <2>3
<1>5. CASE n = 3
  <2> PICK S, d : S = Steps /\ d = Done + 1
    OBVIOUS
  <2>1. Ordered(S) /\ d \in 1 .. Len(S) /\ S[d] = "decay"
    BY <1>1, <1>5
  <2>2. S[d + 1] = "ecalCluster" /\ S[d + 2] = "smearEcal"
    BY <2>1 DEF Ordered
  <2>3. d + 1 = Done + 2 /\ d + 2 = Done + 3
    BY <1>1
  <2>4. Steps[Done + 2] = "ecalCluster" /\ Steps[Done + 3] = "smearEcal"
    BY <2>2, <2>3
  <2>5. \A j \in 1 .. Done + 3 : j \in 1 .. Done \/ j = Done + 1 \/ j = Done + 2 \/ j = Done + 3
    BY <1>1
  <2>6. /\ Done + 1 \in 1 .. Done + 3 /\ Done + 2 \in 1 .. Done + 3 /\ Done + 3 \in 1 .. Done + 3
        /\ \A j \in 1 .. Done : j \in 1 .. Done + 3
    BY <1>1
  <2>7. \A w : (\E j \in 1 .. Done + 3 : Steps[j] = w) <=>
                \/ Passed(w) \/ w = what \/ w \in {"ecalCluster", "smearEcal"}
    BY <1>1, <2>4, <2>5, <2>6 DEF Passed
  <2> QED BY <1>2, <1>3, <1>5, <2>7
<1> QED BY <1>4, <1>5

LEMMA SameLeft ==
  ASSUME UNCHANGED <<collections, history, before, current, out>>, NEW made, LeftBehind(made)
  PROVE  LeftBehind(made)'
<1>1. /\ collections' = collections /\ history' = history /\ before' = before /\ current' = current
      /\ \A ts : Address(ts)' = Address(ts)
  BY DEF Address
<1>2. \A ts : NewOf(ts)' = NewOf(ts) /\ Latest(ts)' = Latest(ts)
  BY <1>1 DEF NewOf, Latest
<1>3. \A ts : LinkOf(ts)' = LinkOf(ts)
  BY <1>1, <1>2 DEF LinkOf
<1>4. \A a : {NewOf(ts)' : ts \in {t \in made : Address(t)' = a}} =
             {NewOf(ts) : ts \in {t \in made : Address(t) = a}}
  BY <1>1, <1>2
<1>5. {LinkOf(ts)' : ts \in made} = {LinkOf(ts) : ts \in made}
  BY <1>3
<1> QED BY <1>1, <1>2, <1>4, <1>5 DEF LeftBehind

\* A step that stores nothing, and is none of those that make something.
LEMMA MadeStays ==
  ASSUME Base, busy, MadeInv, NEW n \in {1, 3}, Moves(n), NEW what, Do(what), n = 3 => what = "decay",
         UNCHANGED <<collections, history>>,
         what \notin {"track", "ecalCluster", "hcalCluster"}
  PROVE  MadeInv'
<1> PICK made \in SUBSET Made : LeftBehind(made) /\ SoFar(made)
  BY DEF MadeInv
<1>1. LeftBehind(made)'
  BY SameLeft DEF Moves
<1>2. \A w : Passed(w)' <=> (Passed(w) \/ w = what \/ (n = 3 /\ w \in {"ecalCluster", "smearEcal"}))
  BY PassedNext
<1>3. SoFar(made)'
  <2>1. \A ts \in made : Passed(StepFor(ts))'
    BY <1>2 DEF SoFar
  <2>2. \A ts \in DOMAIN TrueOf : ~Do(Smears[ts])'
    <3>1. \A ts \in DOMAIN TrueOf : Makes[TrueOf[ts]] \in {"track", "ecalCluster", "hcalCluster"}
      BY DEF TrueOf, Makes
    <3> QED BY <3>1, SmearingFollows
  <2>3. Passed("track")' => "tt" \in made
    BY <1>2 DEF SoFar
  <2>4. Passed("hcalCluster")' => "ht" \in made
    BY <1>2 DEF SoFar
  <2>5. Passed("ecalCluster")' /\ ~Passed("decay")' => "et" \in made
    BY <1>2 DEF SoFar
  <2>6. \A ts \in made : ts \in DOMAIN TrueOf => TrueOf[ts] \in made
    BY DEF SoFar
  <2> QED BY <2>1, <2>2, <2>3, <2>4, <2>5, <2>6 DEF SoFar, StepFor
<1> QED BY <1>1, <1>3 DEF MadeInv

\* What is made next is made in the place the manager expects it in.
LEMMA MadeGrows ==
  ASSUME Base, busy, MadeInv, Moves(1), NEW what, Do(what),
         NEW ts \in Made, NEW parent \in Object, Present(parent), NEW e,
         Store(New(ts), parent, e), what = StepFor(ts),
         parent = IF ts \in DOMAIN TrueOf THEN Latest(TrueOf[ts]) ELSE current
  PROVE  MadeInv'
<1> PICK made \in SUBSET Made : LeftBehind(made) /\ SoFar(made)
  BY DEF MadeInv
<1>1. stage = "simulate" /\ UNCHANGED <<folder, failed, stage, out, todo, before, current>>
  BY AtWork DEF Moves
<1>2. /\ New(ts).index = Cardinality(collections[Address(ts)])
      /\ Address(ts) \in DOMAIN collections
      /\ \A t \in Made \ {ts} : Address(t) # Address(ts)
      /\ \A t \in Made : Address(t)' = Address(t)
      /\ DOMAIN collections' = DOMAIN collections
      /\ collections'[Address(ts)] = collections[Address(ts)] \cup {New(ts)}
      /\ \A a \in DOMAIN collections : a # Address(ts) => collections'[a] = collections[a]
      /\ Latest(ts)' = New(ts)
      /\ history' = history \cup {<<parent, New(ts)>>}
  BY <1>1, Storing DEF Base
<1>3. /\ ~Passed(what)
      /\ \A w : Passed(w)' <=> Passed(w) \/ w = what
  BY PassedNext
<1>4. ts \notin made
  BY <1>3 DEF SoFar
<1>5. New(ts) = NewOf(ts)
  <2>1. \A t \in made : Address(t) # Address(ts)
    BY <1>2, <1>4
  <2> PICK a : a = Address(ts)
    OBVIOUS
  <2>2. collections[a] = before.collections[a] \cup {NewOf(t) : t \in {x \in made : Address(x) = a}}
    BY <1>2 DEF LeftBehind
  <2>3. \A x : x \notin {NewOf(t) : t \in {y \in made : Address(y) = a}}
    BY <2>1
  <2>4. collections[Address(ts)] = before.collections[Address(ts)]
    BY <2>2, <2>3
  <2> QED BY <2>4 DEF New, NewId, NewOf
<1>6. ts \in DOMAIN TrueOf => TrueOf[ts] \in made
  BY DEF SoFar, StepFor
<1>7. /\ \A t \in Made : NewOf(t)' = NewOf(t)
      /\ \A t \in Made : LinkOf(t)' = LinkOf(t)
  <2>1. \A t \in Made : NewOf(t)' = NewOf(t)
    BY <1>1, <1>2 DEF NewOf
  <2>2. \A t \in DOMAIN TrueOf : TrueOf[t] \in Made
    BY DEF TrueOf, Made
  <2> QED BY <1>1, <2>1, <2>2 DEF LinkOf
<1>8. <<parent, New(ts)>> = LinkOf(ts)
  <2>1. ts \in DOMAIN TrueOf => Latest(TrueOf[ts]) = NewOf(TrueOf[ts])
    BY <1>6 DEF LeftBehind
  <2> QED BY <1>5, <2>1 DEF LinkOf
<1> PICK more : more = made \cup {ts}
  OBVIOUS
<1>9. LeftBehind(more)'
  <2>1. DOMAIN collections' = DOMAIN before'.collections
    BY <1>1, <1>2 DEF LeftBehind
  <2>2. ASSUME NEW a \in DOMAIN collections
        PROVE  collections'[a] = before.collections[a] \cup {NewOf(t) : t \in {x \in more : Address(x) = a}}
    <3>1. collections[a] = before.collections[a] \cup {NewOf(t) : t \in {x \in made : Address(x) = a}}
      BY DEF LeftBehind
    <3>2. CASE a = Address(ts)
      BY <1>2, <1>5, <3>1, <3>2
    <3>3. CASE a # Address(ts)
      BY <1>2, <3>1, <3>3
    <3> QED BY <3>2, <3>3
  <2>3. \A a \in DOMAIN collections' :
          collections'[a] = before'.collections[a] \cup {NewOf(t)' : t \in {x \in more : Address(x)' = a}}
    <3> TAKE a \in DOMAIN collections'
    <3>1. {x \in more : Address(x)' = a} = {x \in more : Address(x) = a}
      BY <1>2
    <3>2. {NewOf(t)' : t \in {x \in more : Address(x)' = a}} =
          {NewOf(t) : t \in {x \in more : Address(x) = a}}
      BY <1>7, <3>1
    <3> QED BY <1>1, <1>2, <2>2, <3>2
  <2>4. history' = before'.history \cup {LinkOf(t)' : t \in more}
    <3>1. history = before.history \cup {LinkOf(t) : t \in made}
      BY DEF LeftBehind
    <3>2. {LinkOf(t)' : t \in more} = {LinkOf(t) : t \in made} \cup {LinkOf(ts)}
      BY <1>7
    <3> QED BY <1>1, <1>2, <1>8, <3>1, <3>2
  <2>5. ASSUME NEW t \in more PROVE Latest(t)' = NewOf(t)'
    <3>1. CASE t = ts
      BY <1>2, <1>5, <1>7, <3>1
    <3>2. CASE t \in made
      <4>1. Latest(t) = NewOf(t) /\ t # ts
        BY <1>4, <3>2 DEF LeftBehind
      <4>2. Address(t) \in DOMAIN collections
        <5>1. \E i \in 1 .. 6 : Address(t) = out[i] /\ out[i] \in DOMAIN collections
          BY <1>1, AddressOf DEF Base, IInv
        <5> QED BY <5>1
      <4>3. collections'[Address(t)] = collections[Address(t)]
        BY <1>2, <4>1, <4>2
      <4>4. Latest(t)' = Latest(t)
        BY <1>2, <4>3 DEF Latest
      <4> QED BY <1>7, <4>1, <4>4
    <3> QED BY <3>1, <3>2
  <2> QED BY <2>1, <2>3, <2>4, <2>5 DEF LeftBehind
<1>10. SoFar(more)'
  <2>1. \A t \in more : Passed(StepFor(t))' /\ (t \in DOMAIN TrueOf => TrueOf[t] \in more)
    BY <1>3, <1>6 DEF SoFar
  <2>2. \A t \in DOMAIN TrueOf : Do(Smears[t])' => TrueOf[t] \in more
    <3> SUFFICES ASSUME NEW t \in DOMAIN TrueOf, Do(Smears[t])' PROVE TrueOf[t] \in more
      OBVIOUS
    <3>1. what = Makes[TrueOf[t]]
      BY SmearingFollows
    <3>2. ts = TrueOf[t]
      BY <3>1 DEF Made, TrueOf, Smears, Makes, StepFor
    <3> QED BY <3>2
  <2>3. /\ what = "track" => ts = "tt"
        /\ what = "hcalCluster" => ts = "ht"
        /\ what = "ecalCluster" => ts = "et"
    BY DEF Made, TrueOf, Smears, Makes, StepFor
  <2>4. /\ Passed("track")' => "tt" \in more
        /\ Passed("hcalCluster")' => "ht" \in more
        /\ Passed("ecalCluster")' /\ ~Passed("decay")' => "et" \in more
    BY <1>3, <2>3 DEF SoFar
  <2> QED BY <2>1, <2>2, <2>4 DEF SoFar, StepFor
<1> QED BY <1>9, <1>10 DEF MadeInv

LEMMA StartMakes ==
  ASSUME Base, NEW p \in UNION todo, simulateParticle(p)
  PROVE  MadeInv'
<1>1. /\ Done' = 0 /\ busy' /\ \A what \in Later : ~Do(what)'
  BY StartKeeps
<1>2. /\ collections' = collections /\ history' = history
      /\ before' = [collections |-> collections, history |-> history]
  BY DEF simulateParticle, vars, eventVars
<1>3. LeftBehind({})'
  <2>1. \A a : {NewOf(ts)' : ts \in {t \in {} : Address(t)' = a}} = {}
    OBVIOUS
  <2>2. {LinkOf(ts)' : ts \in {}} = {}
    OBVIOUS
  <2>3. before'.collections = collections' /\ before'.history = history'
    BY <1>2
  <2> QED BY <2>1, <2>2, <2>3 DEF LeftBehind
<1>4. SoFar({})'
  <2>1. \A w : ~Passed(w)'
    BY <1>1 DEF Passed
  <2>2. \A ts \in DOMAIN TrueOf : ~Do(Smears[ts])'
    BY <1>1 DEF TrueOf, Smears, Later
  <2> QED BY <2>1, <2>2 DEF SoFar
<1> QED BY <1>3, <1>4 DEF MadeInv

LEMMA MadeKept ==
  ASSUME Base, MadeInv, [SimNext]_allVars
  PROVE  MadeInv'
<1>1. CASE UNCHANGED allVars
  <2> SUFFICES ASSUME busy' PROVE \E made \in SUBSET Made : LeftBehind(made)' /\ SoFar(made)'
    BY DEF MadeInv
  <2>1. /\ UNCHANGED <<collections, history, before, current, out, script, ptc>>
        /\ busy
    BY <1>1 DEF allVars, vars, eventVars, simVars, busy
  <2>2. PICK made \in SUBSET Made : LeftBehind(made) /\ SoFar(made)
    BY <2>1 DEF MadeInv
  <2>3. LeftBehind(made)'
    BY <2>1, <2>2, SameLeft
  <2>4. \A w : (Passed(w)' <=> Passed(w)) /\ (Do(w)' <=> Do(w))
    BY <2>1 DEF Passed, Done, Steps, Do, busy
  <2>5. SoFar(made)'
    BY <2>2, <2>4 DEF SoFar, StepFor
  <2> QED BY <2>3, <2>5
<1>2. ~busy' => MadeInv'
  BY DEF MadeInv
<1>3. CASE Between
  BY <1>2, <1>3, BetweenKeeps
<1>4. ASSUME NEW cyl \in {"tracker", "ecal", "hcal"}, propagateOne(cyl) PROVE MadeInv'
  <2>1. busy /\ Do(To[cyl]) /\ Moves(1) /\ UNCHANGED <<collections, history>>
    BY <1>4, StepsMove DEF propagateOne, Do, vars, eventVars
  <2>2. To[cyl] \notin {"track", "ecalCluster", "hcalCluster", "decay"}
    BY DEF To
  <2> QED BY <2>1, <2>2, MadeStays
<1>5. CASE decay
  <2>1. busy /\ Do("decay") /\ UNCHANGED <<collections, history>>
    BY <1>5 DEF decay, Do, vars, eventVars
  <2>2. Moves(1) \/ Moves(3)
    BY <1>5, StepsMove
  <2> QED BY <2>1, <2>2, MadeStays
<1>6. CASE makeAndStoreTrack
  <2>1. busy /\ Do("track") /\ Moves(1) /\ Store(New("tt"), current, Energy)
    BY <1>6, StepsMove DEF makeAndStoreTrack, Do
  <2>2. "tt" \in Made /\ "tt" \notin DOMAIN TrueOf /\ StepFor("tt") = "track"
    BY DEF Made, TrueOf, Makes, StepFor
  <2>3. current \in Object /\ Present(current)
    BY <2>1, AtWork
  <2> QED BY <2>1, <2>2, <2>3, MadeGrows
<1>7. ASSUME NEW ts, NEW what, ClusterStep(ts, what), makeAndStoreCluster(ts, what) PROVE MadeInv'
  <2>1. CASE hasNamedPoint(current, PositionOf(ts))
    <3>1. busy /\ Do(what) /\ Moves(1) /\ Store(New(ts), current, Deposited(ts))
      BY <1>7, <2>1, StepsMove DEF makeAndStoreCluster, Do
    <3>2. ts \in Made /\ ts \notin DOMAIN TrueOf /\ what = StepFor(ts)
      BY <1>7 DEF ClusterStep, Made, TrueOf, Makes, StepFor
    <3>3. current \in Object /\ Present(current)
      BY <3>1, AtWork
    <3> QED BY <3>1, <3>2, <3>3, MadeGrows
  <2>2. CASE ~hasNamedPoint(current, PositionOf(ts))
    BY <1>2, <1>7, <2>2, ThrowKeeps
  <2> QED BY <2>1, <2>2
<1>8. ASSUME NEW ts, NEW what, SmearStep(ts, what), smear(ts, what) PROVE MadeInv'
  <2>1. busy /\ Do(what) /\ Moves(1)
    <3>1. busy /\ Do(what)
      BY <1>8, Zenon DEF smear, Do
    <3> QED BY <1>8, <3>1, StepsMove
  <2>2. /\ ts \in DOMAIN TrueOf /\ ts \in Made /\ TrueOf[ts] \in Made /\ what = StepFor(ts)
        /\ what \notin {"track", "ecalCluster", "hcalCluster", "decay"}
    BY <1>8 DEF SmearStep, Made, TrueOf, Smears, StepFor
  <2>3. ASSUME NEW e, Store(New(ts), Latest(TrueOf[ts]), e) PROVE MadeInv'
    <3>1. PICK i \in 1 .. 6 : /\ i \in DOMAIN out /\ Address(TrueOf[ts]) = out[i]
                              /\ out[i] \in DOMAIN collections
      BY <2>1, <2>2, AtWork, AddressOf DEF Base, IInv
    <3>2. Latest(TrueOf[ts]) \in collections[out[i]]
      BY <1>8, <2>1, <3>1 DEF Base, LatestInv, SmearStep
    <3>3. collections[out[i]] \subseteq Object
      BY <3>1 DEF Base, IInv, Shape, Pool
    <3>4. Latest(TrueOf[ts]) \in Object /\ Present(Latest(TrueOf[ts]))
      BY <3>1, <3>2, <3>3 DEF Present
    <3> QED BY <2>1, <2>2, <2>3, <3>4, MadeGrows
  <2>4. UNCHANGED <<collections, history>> => MadeInv'
    BY <2>1, <2>2, MadeStays
  <2> QED BY <1>8, <2>3, <2>4 DEF smear
<1>9. CASE particleDone
  BY <1>2, <1>9, DoneKeeps
<1> QED BY <1>1, <1>3, <1>4, <1>5, <1>6, <1>7, <1>8, <1>9, StepIs, StartMakes DEF Storage

\* What a particle leaves, by the time there is nothing left to do about it or it
\* cannot be extrapolated, is what the manager allows for its species.
LEMMA MadeIsAllowed ==
  ASSUME Base, busy, NEW made \in SUBSET Made, SoFar(made)
  PROVE  /\ script = <<>> =>
              \/ made \in Stored("et") \/ made \in Stored("tt") \/ made = {}
              \/ \E track \in {{}} \cup Stored("tt"), ecal \in {{}} \cup Stored("et"), hcal \in Stored("ht") :
                    made = track \cup ecal \cup hcal
         /\ Do("ecalCluster") \/ Do("hcalCluster") =>
              \E track \in {{}} \cup Stored("tt"), ecal \in {{}} \cup Stored("et") : made = track \cup ecal
<1> PICK k : k = ptc[current.index]
  OBVIOUS
<1>1. /\ k \in Particle /\ Ordered(Steps) /\ Len(Steps) \in Nat /\ Done \in 0 .. Len(Steps)
      /\ script = <<>> => Done = Len(Steps)
      /\ \A what : Do(what) => Done < Len(Steps) /\ Steps[Done + 1] = what
  BY AtWork
<1>2. Steps = Script(k)
  BY DEF Steps
<1>3. \A w : Passed(w) => Says(k, w)
  BY <1>1, <1>2 DEF Passed, Says
<1>4. /\ "tt" \in made => Passed("track")
      /\ "et" \in made => Passed("ecalCluster")
      /\ "ht" \in made => Passed("hcalCluster")
      /\ "ts" \in made => "tt" \in made
      /\ "es" \in made => "et" \in made
      /\ "hs" \in made => "ht" \in made
  <2>1. \A ts \in {"tt", "et", "ht"} : ts \in made => Passed(Makes[ts])
    BY DEF SoFar, StepFor, TrueOf
  <2>2. \A ts \in DOMAIN TrueOf : ts \in made => TrueOf[ts] \in made
    BY DEF SoFar
  <2>3. Makes["tt"] = "track" /\ Makes["et"] = "ecalCluster" /\ Makes["ht"] = "hcalCluster"
    BY DEF Makes
  <2>4. /\ DOMAIN TrueOf = {"ts", "es", "hs"}
        /\ TrueOf["ts"] = "tt" /\ TrueOf["es"] = "et" /\ TrueOf["hs"] = "ht"
    BY DEF TrueOf
  <2> QED BY <2>1, <2>2, <2>3, <2>4
<1> PICK track, ecal, hcal : /\ track = made \cap {"tt", "ts"}
                            /\ ecal = made \cap {"et", "es"}
                            /\ hcal = made \cap {"ht", "hs"}
  OBVIOUS
<1>5. /\ track \in {{}} \cup Stored("tt") /\ ("tt" \in made => track \in Stored("tt"))
      /\ ecal \in {{}} \cup Stored("et") /\ ("et" \in made => ecal \in Stored("et"))
      /\ hcal \in {{}} \cup Stored("ht") /\ ("ht" \in made => hcal \in Stored("ht"))
  BY <1>4 DEF Stored, Smeared
<1>6. made = track \cup ecal \cup hcal
  BY DEF Made
<1>7. /\ "tt" \notin made => track = {}
      /\ "et" \notin made => ecal = {}
      /\ "ht" \notin made => hcal = {}
  BY <1>4
<1>8. ASSUME script = <<>>
      PROVE  \/ made \in Stored("et") \/ made \in Stored("tt") \/ made = {}
             \/ made = track \cup ecal \cup hcal /\ hcal \in Stored("ht")
  <2>1. \A w : Says(k, w) => Passed(w)
    BY <1>1, <1>2, <1>8 DEF Passed, Says
  <2>2. CASE k.species = "photon"
    <3>1. "tt" \notin made /\ "ht" \notin made /\ Passed("ecalCluster") /\ ~Passed("decay")
      BY <1>1, <1>3, <1>4, <2>1, <2>2, WhatIsSaid
    <3>2. "et" \in made
      BY <3>1 DEF SoFar
    <3> QED BY <1>5, <1>6, <1>7, <3>1, <3>2
  <2>3. CASE k.species \in {"electron", "muon"}
    <3>1. "et" \notin made /\ "ht" \notin made /\ Passed("track")
      BY <1>1, <1>3, <1>4, <2>1, <2>3, WhatIsSaid
    <3>2. "tt" \in made
      BY <3>1 DEF SoFar
    <3> QED BY <1>5, <1>6, <1>7, <3>1, <3>2
  <2>4. CASE k.species \in {"chargedHadron", "neutralHadron"}
    <3>1. Passed("hcalCluster")
      BY <1>1, <2>1, <2>4, WhatIsSaid
    <3>2. "ht" \in made
      BY <3>1 DEF SoFar
    <3> QED BY <1>5, <1>6, <3>2
  <2>5. CASE k.species \in {"neutrino", "softHadron", "unknown"}
    <3>1. "et" \notin made /\ "ht" \notin made /\ "tt" \notin made
      BY <1>1, <1>3, <1>4, <2>5, WhatIsSaid
    <3> QED BY <1>6, <1>7, <3>1
  <2> QED BY <1>1, <2>2, <2>3, <2>4, <2>5, ScriptOf
<1>9. ASSUME Do("ecalCluster") \/ Do("hcalCluster")
      PROVE  made = track \cup ecal
  <2>1. ~Passed("hcalCluster")
    <3> SUFFICES ASSUME NEW j \in 1 .. Done, Steps[j] = "hcalCluster" PROVE FALSE
      BY DEF Passed
    <3>1. Done + 1 \in 1 .. Len(Steps) /\ j \in 1 .. Len(Steps) /\ j < Done + 1
      BY <1>1, <1>9
    <3>2. Steps[Done + 1] = "ecalCluster" \/ Steps[Done + 1] = "hcalCluster"
      BY <1>1, <1>9
    <3> PICK S, d : S = Steps /\ d = Done + 1
      OBVIOUS
    <3>3. /\ Ordered(S) /\ d \in 1 .. Len(S) /\ j \in 1 .. Len(S) /\ j < d /\ S[j] = "hcalCluster"
          /\ S[d] = "ecalCluster" \/ S[d] = "hcalCluster"
      BY <1>1, <3>1, <3>2
    <3> QED BY ONLY <3>3 DEF Ordered
  <2> QED BY <1>4, <1>6, <1>7, <2>1
<1>10. script = <<>> =>
         \/ made \in Stored("et") \/ made \in Stored("tt") \/ made = {}
         \/ \E t \in {{}} \cup Stored("tt"), e \in {{}} \cup Stored("et"), h \in Stored("ht") :
               made = t \cup e \cup h
  BY <1>5, <1>8
<1> QED BY <1>5, <1>9, <1>10
-----------------------------------------------------------------------------
(***************************************************************************)
(* The refinement.  Between particles the manager sees what there is.      *)
(***************************************************************************)
LEMMA MakeRefines ==
  ASSUME Base, NEW kinds \in Events, MakeParticles(kinds)
  PROVE  Manager!Next
<1>1. ~busy /\ ~busy'
  BY MakeKeeps
<1>2. PICK n \in 0 .. NumParticles : kinds \in [0 .. n - 1 -> Particle]
  BY SimulationAssumption
<1>3. Cardinality(DOMAIN kinds) = n
  <2>1. Cardinality(0 .. n - 1) = n
    BY FS_Interval, ManagerAssumption
  <2> QED BY <1>2, <2>1
<1>4. AddParticles(n)
  BY <1>3 DEF MakeParticles
<1>5. Manager!AddParticles(n)
  BY <1>1, <1>4 DEF AddParticles, Manager!AddParticles, Idle, Manager!Idle
<1> QED BY <1>2, <1>5 DEF Manager!Next, Manager!Call

LEMMA SimulateRefines ==
  ASSUME Base, SimulateEvent
  PROVE  Manager!Next
<1>1. ~busy /\ ~busy'
  BY SimulateKeeps
<1>2. Begin("simulate", Len(Outputs), {collectionIds("ps")})
  BY DEF SimulateEvent, Simulate
<1>3. Manager!collectionIds("ps") = collectionIds("ps") /\ Manager!Outputs = Outputs
  BY <1>1 DEF Manager!collectionIds, collectionIds, hasCollection, Manager!hasCollection,
              Manager!Outputs, Outputs
<1>4. Manager!Begin("simulate", Len(Outputs), {collectionIds("ps")})
  BY <1>1, <1>2 DEF Begin, Manager!Begin, Idle, Manager!Idle
<1>5. Manager!Simulate
  BY <1>3, <1>4 DEF Manager!Simulate
<1> QED BY <1>5 DEF Manager!Next, Manager!Call

LEMMA ClearRefines ==
  ASSUME Base, ClearEvent
  PROVE  Manager!Next
<1>1. ~busy /\ ~busy'
  BY ClearEventKeeps
<1>2. clear
  BY DEF ClearEvent
<1>3. Manager!NoFolder = NoFolder
  BY DEF Manager!NoFolder, NoFolder, Manager!TypeAndSubtype, TypeAndSubtype, Manager!Clusters, Clusters
<1>4. Manager!clear
  BY <1>1, <1>2, <1>3 DEF clear, Manager!clear
<1> QED BY <1>4 DEF Manager!Next, Manager!Call

\* AddCollections of what is stored in cs.
AddedFrom(cs) ==
  LET Throws(i) == Refused(cs[out[i]]) # "no"
      stops == {i \in DOMAIN out : Throws(i)}
      added == {i \in DOMAIN out : cs[out[i]] # {} /\ \A j \in stops : i < j}
      first == CHOOSE i \in stops : \A j \in stops : i <= j
  IN /\ folder' = [ts \in TypeAndSubtype |->
          IF \E i \in added : ts \in {id.ts : id \in cs[out[i]]}
          THEN out[CHOOSE i \in added : ts \in {id.ts : id \in cs[out[i]]}]
          ELSE folder[ts]]
     /\ failed' = IF stops = {} THEN "no" ELSE Refused(cs[out[first]])

LEMMA FinishRefines ==
  ASSUME Base, FinishSimulation
  PROVE  Manager!Next
<1>1. ~busy /\ ~busy'
  BY FinishSimulationKeeps
<1>2. Finish
  BY DEF FinishSimulation
<1>5. AddCollections(out) => Manager!AddCollections(out)
  <2>1. AddCollections(out) <=> AddedFrom(collections)
    BY DEF AddCollections, AddedFrom
  <2>2. Manager!AddCollections(out) <=> AddedFrom(IF busy THEN before.collections ELSE collections)
    BY DEF Manager!AddCollections, AddedFrom, Manager!Refused, Refused, Manager!hasCollection,
       hasCollection, Manager!TypeAndSubtype, TypeAndSubtype, Manager!Clusters, Clusters
  <2>3. (IF busy THEN before.collections ELSE collections) = collections
    BY <1>1
  <2> QED BY <2>1, <2>2, <2>3
<1>6. Manager!Finish
  BY <1>1, <1>2, <1>5 DEF Finish, Manager!Finish
<1> QED BY <1>6 DEF Manager!Next, Manager!StageStep

\* What the particle has left by the end is a deposit as the manager makes it.
LEMMA DepositRefines ==
  ASSUME Base, busy, ~busy', UNCHANGED <<collections, history>>,
         NEW made \in SUBSET Made, LeftBehind(made)
  PROVE  Manager!Deposit(current, made)
<1>1. \A ts : Manager!Address(ts) = Address(ts)
  BY DEF Manager!Address, Address, Manager!Outputs, Outputs
<1>2. \A ts : Manager!New(ts) = NewOf(ts)
  <2>1. \A S : Manager!Cardinality(S) = Cardinality(S)
    BY DEF Manager!Cardinality, Cardinality, Manager!IsFiniteSet, IsFiniteSet
  <2> QED BY <1>1, <2>1 DEF Manager!New, Manager!NewId, NewOf
<1>3. Manager!TrueOf = TrueOf
  BY DEF Manager!TrueOf, TrueOf
<1>4. collections = [a \in DOMAIN before.collections |->
         before.collections[a] \cup {NewOf(ts) : ts \in {t \in made : Address(t) = a}}]
  <2>1. collections \in Seq(Pool)
    BY DEF Base, IInv, Shape
  <2>2. collections = [a \in DOMAIN collections |-> collections[a]]
    BY <2>1
  <2> QED BY <2>2 DEF LeftBehind
<1>5. history = before.history \cup
         {<<IF ts \in DOMAIN TrueOf THEN NewOf(TrueOf[ts]) ELSE current, NewOf(ts)>> : ts \in made}
  BY DEF LeftBehind, LinkOf
<1> QED BY <1>1, <1>2, <1>3, <1>4, <1>5 DEF Manager!Deposit

LEMMA DoneRefines ==
  ASSUME Base, MadeInv, particleDone
  PROVE  Manager!Next
<1>1. /\ busy /\ script = <<>> /\ current' = NoParticle
      /\ todo' = {(UNION todo) \ {current}} \ {{}}
      /\ UNCHANGED <<collections, folder, history, failed, stage, out>>
  BY DEF particleDone, eventVars
<1>2. ~busy' /\ stage = "simulate" /\ current \in UNION todo
  BY <1>1, DoneKeeps, AtWork
<1>3. PICK g \in todo : current = First(g)
  BY <1>1 DEF Base, CurrentInv
<1>4. UNION todo = g
  BY <1>2 DEF Base, ParticlesInv
<1>5. PICK made \in SUBSET Made : LeftBehind(made) /\ SoFar(made)
  BY <1>1 DEF MadeInv
<1>6. Manager!Deposit(current, made)
  BY <1>1, <1>2, <1>5, DepositRefines
<1>7. Manager!First(g) = First(g)
  BY DEF Manager!First, First
<1>8. Manager!Simulated(current, made)
  BY <1>1, <1>2, <1>3, <1>4, <1>6, <1>7 DEF Manager!Simulated
<1>9. \A ts : Manager!Stored(ts) = Stored(ts)
  BY DEF Manager!Stored, Stored, Manager!Smeared, Smeared
<1>10. \/ made \in Stored("et") \/ made \in Stored("tt") \/ made = {}
       \/ \E track \in {{}} \cup Stored("tt"), ecal \in {{}} \cup Stored("et"), hcal \in Stored("ht") :
             made = track \cup ecal \cup hcal
  BY <1>1, <1>5, MadeIsAllowed
<1>11. \/ Manager!simulatePhoton(current) \/ Manager!simulateHadron(current)
       \/ Manager!simulateLepton(current) \/ Manager!simulateNothing(current)
  <2>1. made \in Stored("et") => Manager!simulatePhoton(current)
    BY <1>8, <1>9 DEF Manager!simulatePhoton
  <2>2. made \in Stored("tt") => Manager!simulateLepton(current)
    BY <1>8, <1>9 DEF Manager!simulateLepton
  <2>3. made = {} => Manager!simulateNothing(current)
    BY <1>8 DEF Manager!simulateNothing
  <2>4. ASSUME NEW track \in {{}} \cup Stored("tt"), NEW ecal \in {{}} \cup Stored("et"),
               NEW hcal \in Stored("ht"), made = track \cup ecal \cup hcal
        PROVE  Manager!simulateHadron(current)
    BY <1>8, <1>9, <2>4 DEF Manager!simulateHadron
  <2> QED BY <1>10, <2>1, <2>2, <2>3, <2>4
<1> QED BY <1>2, <1>11 DEF Manager!Next, Manager!StageStep, Manager!SimulateParticle

LEMMA ThrowRefines ==
  ASSUME Base, MadeInv, NEW ts, NEW what, ClusterStep(ts, what), makeAndStoreCluster(ts, what),
         ~hasNamedPoint(current, PositionOf(ts))
  PROVE  Manager!Next
<1>1. /\ busy /\ Do(what) /\ Throw("simulation") /\ UNCHANGED <<collections, history>>
      /\ what \in {"ecalCluster", "hcalCluster"}
  BY DEF makeAndStoreCluster, ClusterStep, Do
<1>2. /\ ~busy' /\ stage = "simulate" /\ current \in UNION todo
      /\ \E g \in todo : current = First(g)
  BY <1>1, ThrowKeeps, AtWork DEF Base, CurrentInv
<1>3. PICK made \in SUBSET Made : LeftBehind(made) /\ SoFar(made)
  BY <1>1 DEF MadeInv
<1>4. Manager!Deposit(current, made)
  BY <1>1, <1>2, <1>3, DepositRefines
<1>5. Manager!Throw("simulation")
  BY <1>1 DEF Throw, Manager!Throw
<1>6. \A g : Manager!First(g) = First(g)
  BY DEF Manager!First, First
<1>7. Manager!NotExtrapolated(current, made)
  BY <1>2, <1>4, <1>5, <1>6 DEF Manager!NotExtrapolated
<1>8. \A t : Manager!Stored(t) = Stored(t)
  BY DEF Manager!Stored, Stored, Manager!Smeared, Smeared
<1>9. PICK track \in {{}} \cup Stored("tt"), ecal \in {{}} \cup Stored("et") : made = track \cup ecal
  <2>1. Do("ecalCluster") \/ Do("hcalCluster")
    BY <1>1
  <2>2. busy /\ made \in SUBSET Made /\ SoFar(made)
    BY <1>1, <1>3
  <2> HIDE DEF SoFar
  <2> QED BY <2>1, <2>2, MadeIsAllowed
<1>10. Manager!simulateHadron(current)
  BY <1>7, <1>8, <1>9 DEF Manager!simulateHadron
<1> QED BY <1>2, <1>10 DEF Manager!Next, Manager!StageStep, Manager!SimulateParticle

\* Of what else is done about a particle the manager sees nothing.
LEMMA UnseenRefines ==
  ASSUME Base, SimNext, ~Between, ~particleDone,
         \A ts, what : ClusterStep(ts, what) /\ makeAndStoreCluster(ts, what) =>
            hasNamedPoint(current, PositionOf(ts))
  PROVE  UNCHANGED Manager!vars
<1>1. ASSUME NEW p \in UNION todo, simulateParticle(p) PROVE UNCHANGED Manager!vars
  <2>1. ~busy /\ before' = [collections |-> collections, history |-> history] /\ UNCHANGED vars
    BY <1>1 DEF simulateParticle
  <2>2. busy'
    BY <1>1, StartKeeps
  <2> QED BY <2>1, <2>2 DEF vars, eventVars, Manager!vars, Manager!eventVars
<1>2. ASSUME busy, Base', UNCHANGED <<current, before, folder, failed, stage, out, todo>>
      PROVE  UNCHANGED Manager!vars
  <2>1. busy'
    BY <1>2 DEF busy, NoParticle
  <2> QED BY <1>2, <2>1 DEF Manager!vars, Manager!eventVars
<1>3. ASSUME NEW cyl \in {"tracker", "ecal", "hcal"}, propagateOne(cyl) PROVE UNCHANGED Manager!vars
  <2>1. busy /\ UNCHANGED <<current, before, folder, failed, stage, out, todo>>
    BY <1>3 DEF propagateOne, Do, vars, eventVars
  <2> QED BY <1>2, <1>3, <2>1, PropagateKeeps
<1>4. CASE decay
  <2>1. busy /\ UNCHANGED <<current, before, folder, failed, stage, out, todo>>
    BY <1>4 DEF decay, Do, vars, eventVars
  <2> QED BY <1>2, <1>4, <2>1, DecayKeeps
<1>5. CASE makeAndStoreTrack
  <2>1. busy /\ UNCHANGED <<current, before, folder, failed, stage, out, todo>>
    BY <1>5 DEF makeAndStoreTrack, Do
  <2> QED BY <1>2, <1>5, <2>1, TrackKeeps
<1>6. ASSUME NEW ts, NEW what, ClusterStep(ts, what), makeAndStoreCluster(ts, what)
      PROVE  UNCHANGED Manager!vars
  <2>1. busy /\ UNCHANGED <<current, before, folder, failed, stage, out, todo>>
    BY <1>6 DEF makeAndStoreCluster, Do
  <2>2. hasNamedPoint(current, PositionOf(ts))
    BY <1>6
  <2> QED BY <1>2, <1>6, <2>1, <2>2, ClusterKeeps
<1>7. ASSUME NEW ts, NEW what, SmearStep(ts, what), smear(ts, what) PROVE UNCHANGED Manager!vars
  <2>1. busy /\ UNCHANGED <<current, before, folder, failed, stage, out, todo>>
    BY <1>7, Zenon DEF smear, Do
  <2> QED BY <1>2, <1>7, <2>1, SmearKeeps
<1> QED BY <1>1, <1>3, <1>4, <1>5, <1>6, <1>7, StepIs DEF Storage

LEMMA InitRefines == SimInit => Manager!Init
<1> SUFFICES ASSUME SimInit PROVE Manager!Init
  OBVIOUS
<1>1. Init /\ ~busy
  BY DEF SimInit, busy
<1>2. Manager!NoFolder = NoFolder
  BY DEF Manager!NoFolder, NoFolder, Manager!TypeAndSubtype, TypeAndSubtype, Manager!Clusters, Clusters
<1> QED BY <1>1, <1>2 DEF Init, EventInit, Manager!Init, Manager!EventInit

LEMMA StepRefines == Base /\ MadeInv /\ [SimNext]_allVars => [Manager!Next]_(Manager!vars)
<1> SUFFICES ASSUME Base, MadeInv, [SimNext]_allVars
             PROVE  Manager!Next \/ UNCHANGED Manager!vars
  OBVIOUS
<1>1. CASE UNCHANGED allVars
  BY <1>1 DEF allVars, vars, eventVars, simVars, busy, NoParticle, Manager!vars, Manager!eventVars
<1>2. CASE Between
  BY <1>2, MakeRefines, SimulateRefines, ClearRefines, FinishRefines DEF Between
<1>3. CASE particleDone
  BY <1>3, DoneRefines
<1>4. ASSUME NEW ts, NEW what, ClusterStep(ts, what), makeAndStoreCluster(ts, what),
             ~hasNamedPoint(current, PositionOf(ts))
      PROVE  Manager!Next
  BY <1>4, ThrowRefines
<1>5. CASE SimNext /\ ~Between /\ ~particleDone /\
           \A ts, what : ClusterStep(ts, what) /\ makeAndStoreCluster(ts, what) =>
              hasNamedPoint(current, PositionOf(ts))
  BY <1>5, UnseenRefines
<1> QED BY <1>1, <1>2, <1>3, <1>4, <1>5

(***************************************************************************)
(* The simulation in detail implements the simulation of PapasManager:     *)
(* seen between particles, whatever simulatePhoton, simulateHadron and the *)
(* others do, step by step, is one of the manager's choices, for any       *)
(* particles, paths, energies and smearing.                                *)
(***************************************************************************)
THEOREM SimulationImplementsManager == SimSpec => ImplementsManager
<1>1. SimInit => MadeInv
  BY DEF SimInit, MadeInv, busy
<1> QED BY <1>1, InitBase, SimNextKeeps, MadeKept, InitRefines, StepRefines, PTL
        DEF SimSpec, ImplementsManager, Manager!Spec
====
