---------------------------- MODULE ProgramsProofs ----------------------------
(***************************************************************************)
(* What the programs do with the manager, for any number of events and of  *)
(* particles: they keep no objects of one event under the number of        *)
(* another (NumberInv); the order in which processEvent calls the stages   *)
(* leaves each of them empty folders to fill, so that the simulation alone *)
(* may throw (OrderInv); an event it threw at has nothing but generated    *)
(* particles to write or to show (ShownInv); each deposit goes into one    *)
(* and only one block (ShareInv); and the windows keep what was drawn in   *)
(* them, the detector first (PictureInv).                                  *)
(***************************************************************************)
EXTENDS Programs, PapasManagerProofs, SequenceTheorems

NumberInv == /\ program \in {"simple", "plot", "loop"}
             /\ at \in {"read", "process", "write", "show", "clear", "end"}
             /\ pc \in Nat
             /\ stage = "ready" => todo = {}
             /\ stage # "ready" => failed = "no"
             /\ pc = 0 => stage = "ready"
             /\ at # "process" => pc = 0
             /\ at = "read" => collections = <<>>
             /\ source # eventNo => pc = 0 /\ collections = <<>>
-----------------------------------------------------------------------------
LEMMA InitNumberInv == ProgInit => NumberInv
BY DEF ProgInit, LoopInit, Init, EventInit, NumberInv

\* A stage begins and ends with nothing to do, and does nothing in between.
LEMMA StagesAreOrderly ==
  ASSUME NumberInv, StageStep
  PROVE  /\ stage # "ready"
         /\ stage' = "ready" => todo' = {}
         /\ stage' # "ready" => failed' = "no"
<1> USE DEF NumberInv
<1>1. CASE SimulateParticle
  <2>1. PICK p \in UNION todo :
           simulatePhoton(p) \/ simulateHadron(p) \/ simulateLepton(p) \/ simulateNothing(p)
    BY <1>1 DEF SimulateParticle
  <2>2. PICK made : Simulated(p, made) \/ NotExtrapolated(p, made)
    BY <2>1 DEF simulatePhoton, simulateHadron, simulateLepton, simulateNothing
  <2>3. QED
    BY <2>2 DEF Simulated, NotExtrapolated, Throw
<1>2. CASE \E S \in SUBSET UNION todo : MergeGroup(S) \/ MakeBlock(S)
  BY <1>2 DEF MergeGroup, MakeBlock, Throw, MakeFrom
<1>3. CASE \E others \in SUBSET UNION {Parents(b) : b \in UNION todo} : MakeParticle(others)
  BY <1>3 DEF MakeParticle, MakeFrom
<1>4. CASE MakeNothing
  BY <1>4 DEF MakeNothing, eventVars
<1>5. CASE Finish
  BY <1>5 DEF Finish
<1>6. QED
  BY <1>1, <1>2, <1>3, <1>4, <1>5 DEF StageStep

LEMMA ReadKeeps == ASSUME NumberInv, NEW found \in BOOLEAN, readEvent(found) PROVE NumberInv'
<1> USE DEF NumberInv, readEvent
<1>1. CASE found
  BY <1>1 DEF StartEvent, processEvent, clear
<1>2. CASE ~found
  BY <1>2 DEF loopVars, vars, eventVars
<1>3. QED
  BY <1>1, <1>2

\* Whatever the next call of processEvent is, an idle manager comes to it.
LEMMA CallsAreOrderly ==
  ASSUME NumberInv, pc # 0, processEvent
  PROVE  /\ stage' = "ready" => todo' = {}
         /\ stage' # "ready" => failed' = "no"
<1> USE DEF NumberInv
<1>1. pc \in 1 .. 7
  BY DEF processEvent
<1>2. CASE pc = 1
  BY <1>2 DEF processEvent, AddParticles, Idle
<1>3. CASE pc = 2
  BY <1>3 DEF processEvent, Simulate, Begin, Idle
<1>4. CASE pc \in 3 .. 4
  BY <1>4 DEF processEvent, mergeClusters, Begin, Idle
<1>5. CASE pc \in 5 .. 7
  BY <1>5 DEF processEvent, buildBlocks, simplifyBlocks, reconstruct, Begin, Idle
<1>6. QED
  BY <1>1, <1>2, <1>3, <1>4, <1>5

LEMMA ProcessKeeps == ASSUME NumberInv, process PROVE NumberInv'
<1> USE DEF NumberInv, process, progVars
<1>1. pc # 0 /\ source = eventNo
  <2>1. pc # 0
    BY StagesAreOrderly DEF ContinueEvent, EndEvent
  <2>2. QED
    BY <2>1
<1>2. CASE processEvent /\ pc' = pc + 1
  BY <1>1, <1>2, CallsAreOrderly
<1>3. CASE StageStep /\ UNCHANGED pc
  BY <1>1, <1>3, StagesAreOrderly
<1>4. CASE EndEvent
  BY <1>1, <1>4 DEF EndEvent, Idle, vars, eventVars
<1>5. QED
  BY <1>2, <1>3, <1>4 DEF ContinueEvent

\* What the program does when processEvent has returned.
LEMMA RestKeeps ==
  ASSUME NumberInv, processed \/ writeParticlesROOT \/ displayEvent \/ clearManager
  PROVE  NumberInv'
<1> USE DEF NumberInv
<1>1. CASE processed
  <2>1. AfterEvent \in {"write", "show", "clear", "end"}
    BY DEF AfterEvent
  <2>2. QED
    BY <1>1, <2>1 DEF processed, loopVars, vars, eventVars
<1>2. CASE writeParticlesROOT
  BY <1>2 DEF writeParticlesROOT, loopVars, vars, eventVars
<1>3. CASE displayEvent
  BY <1>3 DEF displayEvent, loopVars, vars, eventVars
<1>4. CASE clearManager
  BY <1>4 DEF clearManager, clear
<1>5. QED
  BY <1>1, <1>2, <1>3, <1>4

LEMMA StepKeeps == NumberInv /\ [ProgStep]_allVars => NumberInv'
<1> SUFFICES ASSUME NumberInv, [ProgStep]_allVars PROVE NumberInv'
  OBVIOUS
<1>1. CASE ProgStep
  BY <1>1, ReadKeeps, ProcessKeeps, RestKeeps DEF ProgStep
<1>2. CASE UNCHANGED allVars
  BY <1>2 DEF allVars, loopVars, vars, eventVars, progVars, NumberInv
<1>3. QED
  BY <1>1, <1>2
-----------------------------------------------------------------------------
(***************************************************************************)
(* The number of the event is that of the event its objects are of, though *)
(* processEvent sets it before it knows whether there are particles.       *)
(***************************************************************************)
THEOREM NumberIsNeverStale == ProgSpec => []NumberIsOfTheEvent
<1>1. NumberInv => NumberIsOfTheEvent
  BY DEF NumberInv, NumberIsOfTheEvent
<1>2. QED
  BY <1>1, InitNumberInv, StepKeeps, PTL DEF ProgSpec
-----------------------------------------------------------------------------
(***************************************************************************)
(* The programs use the manager as it may be used: what holds of it holds  *)
(* in them.                                                                *)
(***************************************************************************)
LEMMA StepIsOfManager == [ProgStep]_allVars => [Next]_vars
<1> SUFFICES ASSUME [ProgStep]_allVars PROVE [Next]_vars
  OBVIOUS
<1>1. processEvent => Call
  <2> SUFFICES ASSUME processEvent PROVE Call
    OBVIOUS
  <2>1. pc \in 0 .. 7
    BY DEF processEvent
  <2>2. CASE pc \in 0 .. 2
    BY <2>2 DEF processEvent, Call
  <2>3. CASE pc \in 3 .. 4
    BY <2>3 DEF processEvent, Call, Clusters
  <2>4. CASE pc = 5
    BY <2>4 DEF processEvent, Call
  <2>5. CASE pc \in 6 .. 7
    BY <2>5 DEF processEvent, Call
  <2>6. QED
    BY <2>1, <2>2, <2>3, <2>4, <2>5
<1>2. CASE UNCHANGED allVars
  BY <1>2 DEF allVars, loopVars
<1>3. ASSUME NEW found \in BOOLEAN, readEvent(found) PROVE [Next]_vars
  BY <1>1, <1>3 DEF readEvent, StartEvent, loopVars, Next
<1>4. CASE process
  BY <1>1, <1>4 DEF process, ContinueEvent, EndEvent, Next
<1>5. CASE clearManager
  BY <1>5 DEF clearManager, Next, Call
<1>6. CASE processed \/ writeParticlesROOT \/ displayEvent
  BY <1>6 DEF processed, writeParticlesROOT, displayEvent, loopVars
<1>7. QED
  BY <1>2, <1>3, <1>4, <1>5, <1>6 DEF ProgStep

LEMMA ManagerIsSound == ProgSpec => []IInv
<1>1. ProgInit => IInv
  BY InitHolds DEF ProgInit, LoopInit
<1>2. IInv /\ [ProgStep]_allVars => IInv'
  BY StepIsOfManager, NextKeeps
<1>3. QED
  BY <1>1, <1>2, PTL DEF ProgSpec
-----------------------------------------------------------------------------
(***************************************************************************)
(* The order of processEvent.  The stage that call k starts fills folders  *)
(* of its own, which no stage before it has filled.                        *)
(***************************************************************************)
StageAt(k) == CASE k = 2 -> "add"
                [] k = 3 -> "simulate"
                [] k \in {4, 5} -> "merge"
                [] k = 6 -> "build"
                [] k = 7 -> "simplify"
                [] k = 8 -> "reconstruct"

FilledAt(k) == CASE k = 2 -> {"ps"}
                 [] k = 3 -> Made
                 [] k = 4 -> {"em"}
                 [] k = 5 -> {"hm"}
                 [] k = 6 -> {"br"}
                 [] k = 7 -> {"bs"}
                 [] k = 8 -> {"pr"}

FilledBefore(k) == UNION {FilledAt(j) : j \in 2 .. k - 1}

Filled == {ts \in TypeAndSubtype : hasCollection(ts)}

\* Where the program is in processEvent tells which folders are filled.
FilledInv ==
  /\ pc \in 0 .. 8
  /\ failed \in {"no", "simulation"}
  /\ failed = "simulation" => Filled \subseteq {"ps"}
  /\ failed = "no" /\ pc # 0 /\ stage = "ready" => Filled \subseteq FilledBefore(pc + 1)
  /\ stage # "ready" =>
       /\ pc \in 2 .. 8 /\ stage = StageAt(pc)
       /\ Filled \subseteq FilledBefore(pc)
       /\ \A j \in DOMAIN out : \A id \in collections[out[j]] : id.ts \in FilledAt(pc)
  /\ stage = "merge" =>
       \A g \in todo : \A id \in g : id.ts = IF pc = 4 THEN "es" ELSE "hs"

Smears == {"es", "hs"}

\* A smeared cluster has an index of its own, and one parent at most.
SmearedInv ==
  /\ \A a \in DOMAIN collections : \A id \in collections[a] :
        id.ts \in Smears => id.index < Cardinality(collections[a])
  /\ \A l, m \in history : l[2].ts \in Smears /\ l[2] = m[2] => l = m

OrderInv == FilledInv /\ SmearedInv

LEMMA FilledSets ==
  /\ FilledBefore(2) = {} /\ FilledBefore(3) = {"ps"}
  /\ \A k \in 2 .. 8 : /\ FilledBefore(k + 1) = FilledBefore(k) \cup FilledAt(k)
                       /\ FilledBefore(k) \cap FilledAt(k) = {}
                       /\ k # 3 => \E ts : FilledAt(k) = {ts}
<1>1. \A k \in 2 .. 8 : FilledBefore(k + 1) = FilledBefore(k) \cup FilledAt(k)
  <2> TAKE k \in 2 .. 8
  <2>1. 2 .. (k + 1) - 1 = (2 .. k - 1) \cup {k}
    OBVIOUS
  <2>2. QED
    BY <2>1 DEF FilledBefore
<1>2. FilledBefore(2) = {}
  BY DEF FilledBefore
<1>3. /\ FilledBefore(3) = {"ps"} /\ FilledBefore(4) = {"ps"} \cup Made
      /\ FilledBefore(5) = FilledBefore(4) \cup {"em"} /\ FilledBefore(6) = FilledBefore(5) \cup {"hm"}
      /\ FilledBefore(7) = FilledBefore(6) \cup {"br"} /\ FilledBefore(8) = FilledBefore(7) \cup {"bs"}
  <2>1. /\ FilledBefore(2 + 1) = {} \cup FilledAt(2)
        /\ FilledBefore(3 + 1) = FilledBefore(3) \cup FilledAt(3)
        /\ FilledBefore(4 + 1) = FilledBefore(4) \cup FilledAt(4)
        /\ FilledBefore(5 + 1) = FilledBefore(5) \cup FilledAt(5)
        /\ FilledBefore(6 + 1) = FilledBefore(6) \cup FilledAt(6)
        /\ FilledBefore(7 + 1) = FilledBefore(7) \cup FilledAt(7)
    BY <1>1, <1>2
  <2>2. QED
    BY <2>1 DEF FilledAt
<1>4. ASSUME NEW k \in 2 .. 8
      PROVE  /\ FilledBefore(k) \cap FilledAt(k) = {}
             /\ k # 3 => \E ts : FilledAt(k) = {ts}
  <2>1. CASE k = 2
    BY <1>2, <2>1 DEF FilledAt
  <2>2. CASE k = 3
    BY <1>3, <2>2 DEF FilledAt, Made
  <2>3. CASE k = 4
    BY <1>3, <2>3 DEF FilledAt, Made
  <2>4. CASE k = 5
    BY <1>3, <2>4 DEF FilledAt, Made
  <2>5. CASE k = 6
    BY <1>3, <2>5 DEF FilledAt, Made
  <2>6. CASE k = 7
    BY <1>3, <2>6 DEF FilledAt, Made
  <2>7. CASE k = 8
    BY <1>3, <2>7 DEF FilledAt, Made
  <2>8. k = 2 \/ k = 3 \/ k = 4 \/ k = 5 \/ k = 6 \/ k = 7 \/ k = 8
    OBVIOUS
  <2> HIDE DEF FilledBefore, FilledAt
  <2>9. QED
    BY <2>8, <2>1, <2>2, <2>3, <2>4, <2>5, <2>6, <2>7
<1>5. QED
  BY <1>1, <1>2, <1>3, <1>4

LEMMA InitOrderInv == ProgInit => OrderInv
<1> SUFFICES ASSUME ProgInit PROVE OrderInv
  OBVIOUS
<1>1. pc = 0 /\ collections = <<>> /\ history = {} /\ failed = "no" /\ stage = "ready"
  BY DEF ProgInit, LoopInit, Init, EventInit
<1>2. QED
  BY <1>1 DEF OrderInv, FilledInv, SmearedInv

\* A call of processEvent starts a stage with empty collections.
LEMMA StartKeepsOrder ==
  ASSUME IInv, OrderInv, pc # 0, processEvent, pc' = pc + 1
  PROVE  OrderInv'
<1>1. pc \in 1 .. 7 /\ stage = "ready" /\ failed = "no"
  <2>1. pc \in 1 .. 7
    BY DEF processEvent, OrderInv, FilledInv
  <2>2. CASE pc = 1
    BY <2>2 DEF processEvent, AddParticles, Idle
  <2>3. CASE pc \in 2 .. 4
    BY <2>3 DEF processEvent, Simulate, mergeClusters, Begin, Idle
  <2>4. CASE pc \in 5 .. 7
    BY <2>4 DEF processEvent, buildBlocks, simplifyBlocks, reconstruct, Begin, Idle
  <2>5. QED
    BY <2>1, <2>2, <2>3, <2>4
<1>2. Filled \subseteq FilledBefore(pc')
  BY <1>1 DEF OrderInv, FilledInv
<1>3. collections \in Seq(Pool)
  BY DEF IInv, Shape
<1>4. CASE pc = 1
  <2>1. PICK n \in 0 .. NumParticles : AddParticles(n)
    BY <1>4 DEF processEvent
  <2> PICK c : c = [ts : {"ps"}, index : 0 .. n - 1]
    OBVIOUS
  <2>2. /\ collections' = Append(collections, c) /\ stage' = "add"
        /\ out' = <<Len(collections) + 1>> /\ UNCHANGED <<folder, history, failed, todo>>
    BY <2>1 DEF AddParticles
  <2>3. \A id \in c : id.ts = "ps"
    OBVIOUS
  <2>4. /\ DOMAIN collections' = 1 .. Len(collections) + 1
        /\ \A a \in DOMAIN collections : collections'[a] = collections[a]
        /\ collections'[Len(collections) + 1] = c
    <3>1. collections' = Append(collections, c)
      BY <2>2
    <3>2. QED
      BY ONLY <1>3, <3>1, Appended
  <2>5. FilledInv'
    <3>1. Filled' = Filled
      BY <2>2 DEF Filled, hasCollection
    <3>2. \A j \in DOMAIN out' : \A id \in collections'[out'[j]] : id.ts \in {"ps"}
      BY <2>2, <2>3, <2>4
    <3>3. StageAt(2) = "add" /\ FilledAt(2) = {"ps"} /\ pc' = 2
      BY <1>4 DEF StageAt, FilledAt
    <3>4. QED
      BY <1>1, <1>2, <2>2, <3>1, <3>2, <3>3 DEF FilledInv
  <2>6. SmearedInv'
    <3>1. \A a \in DOMAIN collections' : \A id \in collections'[a] :
             id.ts \in Smears => id.index < Cardinality(collections'[a])
      <4> SUFFICES ASSUME NEW a \in DOMAIN collections', NEW id \in collections'[a], id.ts \in Smears
                   PROVE  id.index < Cardinality(collections'[a])
        OBVIOUS
      <4>1. a # Len(collections) + 1
        BY <2>3, <2>4 DEF Smears
      <4>2. a \in DOMAIN collections
        BY <1>3, <2>4, <4>1
      <4>3. QED
        BY <2>4, <4>2 DEF OrderInv, SmearedInv
    <3>2. QED
      BY <2>2, <3>1 DEF OrderInv, SmearedInv
  <2>7. QED
    BY <2>5, <2>6 DEF OrderInv
<1>5. CASE pc \in 2 .. 7
  <2>1. PICK s, n, g : /\ Begin(s, n, g) /\ n \in {1, 6} /\ s = StageAt(pc + 1)
                       /\ pc = 3 => g = {collectionIds("es")}
                       /\ pc = 4 => g = {collectionIds("hs")}
    <3>1. CASE pc = 2
      <4>1. Begin("simulate", 6, {collectionIds("ps")})
        BY <3>1 DEF processEvent, Simulate, Outputs
      <4>2. QED
        BY <3>1, <4>1 DEF StageAt
    <3>2. CASE pc = 3
      BY <3>2 DEF processEvent, mergeClusters, StageAt
    <3>3. CASE pc = 4
      BY <3>3 DEF processEvent, mergeClusters, StageAt
    <3>4. CASE pc = 5
      BY <3>4 DEF processEvent, buildBlocks, StageAt
    <3>5. CASE pc = 6
      BY <3>5 DEF processEvent, simplifyBlocks, StageAt
    <3>6. CASE pc = 7
      BY <3>6 DEF processEvent, reconstruct, StageAt
    <3>7. QED
      BY <1>5, <3>1, <3>2, <3>3, <3>4, <3>5, <3>6
  <2>2. /\ stage' = s /\ collections' = collections \o [j \in 1 .. n |-> {}]
        /\ out' = [j \in 1 .. n |-> Len(collections) + j]
        /\ todo' = g \ {{}} /\ UNCHANGED <<folder, history, failed>>
    BY <2>1 DEF Begin
  <2>3. [j \in 1 .. n |-> {}] \in Seq({{}}) /\ Len([j \in 1 .. n |-> {}]) = n
    BY <2>1
  <2>4. /\ \A a \in DOMAIN collections' :
              \/ a \in DOMAIN collections /\ collections'[a] = collections[a]
              \/ collections'[a] = {}
        /\ \A j \in 1 .. n : collections'[Len(collections) + j] = {}
    BY <1>3, <2>1, <2>2, <2>3
  <2>5. FilledInv'
    <3>1. Filled' = Filled
      BY <2>2 DEF Filled, hasCollection
    <3>2. \A j \in DOMAIN out' : collections'[out'[j]] = {}
      BY <2>2, <2>4
    <3>3. stage' = "merge" =>
            \A h \in todo' : \A id \in h : id.ts = IF pc' = 4 THEN "es" ELSE "hs"
      <4> SUFFICES ASSUME stage' = "merge", NEW h \in todo', NEW id \in h
                   PROVE  id.ts = IF pc' = 4 THEN "es" ELSE "hs"
        OBVIOUS
      <4>1. pc \in {3, 4}
        BY <1>5, <2>1, <2>2 DEF StageAt
      <4>2. /\ \A x \in collectionIds("es") : x.ts = "es"
            /\ \A x \in collectionIds("hs") : x.ts = "hs"
        <5>1. "es" \in TypeAndSubtype /\ "hs" \in TypeAndSubtype
          BY DEF TypeAndSubtype, Clusters
        <5>2. QED
          BY <5>1, CollectionObjects
      <4>3. QED
        BY <2>1, <2>2, <4>1, <4>2
    <3>4. s # "ready" /\ pc' \in 2 .. 8 /\ pc' = pc + 1
      BY <1>5, <2>1 DEF StageAt
    <3>5. /\ stage' = StageAt(pc') /\ stage' # "ready" /\ failed' = "no"
          /\ Filled' \subseteq FilledBefore(pc')
          /\ \A j \in DOMAIN out' : \A id \in collections'[out'[j]] : id.ts \in FilledAt(pc')
      BY <1>1, <1>2, <2>1, <2>2, <3>1, <3>2, <3>4
    <3>6. QED
      BY <3>3, <3>4, <3>5 DEF FilledInv
  <2>6. SmearedInv'
    BY <2>2, <2>4 DEF OrderInv, SmearedInv
  <2>7. QED
    BY <2>5, <2>6 DEF OrderInv
<1>6. QED
  BY <1>1, <1>4, <1>5

\* The simulation gives each smeared cluster an index that none had before, and
\* the true one as parent.
LEMMA DepositKeepsOrder ==
  ASSUME IInv, OrderInv, stage = "simulate", NEW p \in Object, Present(p), NEW made \in SUBSET Made,
         \A ts \in made : ts \in DOMAIN TrueOf => TrueOf[ts] \in made,
         Deposit(p, made)
  PROVE  SmearedInv'
<1>1. /\ collections \in Seq(Pool) /\ collections' \in Seq(Pool)
      /\ DOMAIN collections' = DOMAIN collections
      /\ DOMAIN out = 1 .. 6 /\ \A j \in 1 .. 6 : out[j] \in DOMAIN collections
      /\ \A a \in DOMAIN collections : collections[a] \subseteq collections'[a]
      /\ \A j \in 1 .. 6 : \A id \in collections'[out[j]] : id.ts = Outputs[j]
  <2>1. DOMAIN out = 1 .. 6 /\ \A j \in DOMAIN out : out[j] \in DOMAIN collections
    BY DEF IInv, Shape, StageInv
  <2>2. collections \in Seq(Pool)
    BY DEF IInv, Shape
  <2>3. QED
    BY <2>1, <2>2, DepositKeeps
<1>2. /\ pc = 3 /\ failed = "no" /\ Filled \subseteq {"ps"}
  <2>1. pc \in 2 .. 8 /\ stage = StageAt(pc) /\ Filled \subseteq FilledBefore(pc)
    BY DEF OrderInv, FilledInv
  <2>2. pc = 3
    BY <2>1 DEF StageAt
  <2>3. QED
    BY <2>1, <2>2, FilledSets DEF IInv, StageInv
<1>3. \A ts \in Made : /\ New(ts) \in Object /\ New(ts).ts = ts
                       /\ New(ts).index = Cardinality(collections[Address(ts)])
                       /\ \E j \in 1 .. 6 : Outputs[j] = ts /\ Address(ts) = out[j]
  <2> TAKE ts \in Made
  <2>1. PICK j \in 1 .. 6 : Outputs[j] = ts /\ Address(ts) = out[j] /\ out[j] \in DOMAIN collections
    BY AddressOf DEF IInv
  <2>2. ts \in TypeAndSubtype
    BY DEF Made, TypeAndSubtype, Clusters
  <2>3. NewId(ts, out[j]) \in Object /\ NewId(ts, out[j]).ts = ts
    BY <2>1, <2>2, NewIdType DEF IInv
  <2>4. QED
    BY <2>1, <2>3 DEF New, NewId
<1>4. \A a \in DOMAIN collections :
         collections'[a] = collections[a] \cup {New(ts) : ts \in {t \in made : Address(t) = a}}
  BY DEF Deposit
<1>5. ASSUME NEW a \in DOMAIN collections', NEW id \in collections'[a], id.ts \in Smears
      PROVE  id.index < Cardinality(collections'[a])
  <2>1. collections[a] \in Pool /\ collections'[a] \in Pool /\ collections[a] \subseteq collections'[a]
    BY <1>1
  <2>2. CASE id \in collections[a]
    <3>1. id.index < Cardinality(collections[a]) /\ id \in Object
      BY <1>1, <1>5, <2>1, <2>2 DEF OrderInv, SmearedInv, Pool
    <3>2. id.index \in Nat
      BY <3>1 DEF Object
    <3>3. QED
      BY <2>1, <3>1, <3>2, Sizes
  <2>3. CASE id \notin collections[a]
    <3>1. PICK ts \in made : Address(ts) = a /\ id = New(ts)
      BY <1>1, <1>4, <2>3
    <3>2. ts = id.ts /\ id.index = Cardinality(collections[a])
      BY <1>3, <3>1
    <3>3. collections'[a] = collections[a] \cup {id}
      <4>1. \A t \in made : Address(t) = a => t = ts
        <5> TAKE t \in made
        <5>1. \E j \in 1 .. 6 : Outputs[j] = t /\ Address(t) = out[j]
          BY <1>3
        <5>2. \E j \in 1 .. 6 : Outputs[j] = ts /\ Address(ts) = out[j]
          BY <1>3
        <5>3. \A j, k \in 1 .. 6 : out[j] = out[k] => j = k
          BY <1>1 DEF IInv, StageInv
        <5>4. QED
          BY <3>1, <5>1, <5>2, <5>3
      <4>2. QED
        BY <1>1, <1>4, <3>1, <4>1
    <3>4. Cardinality(collections'[a]) = Cardinality(collections[a]) + 1
      BY <2>1, <2>3, <3>3, Sizes
    <3>5. Cardinality(collections[a]) \in Nat
      BY <2>1, Sizes
    <3>6. QED
      BY <3>2, <3>4, <3>5
  <2>4. QED
    BY <2>2, <2>3
<1>6. \A ts \in made \cap Smears : \A l \in history : l[2] # New(ts)
  <2> SUFFICES ASSUME NEW ts \in made \cap Smears, NEW l \in history, l[2] = New(ts) PROVE FALSE
    OBVIOUS
  <2>1. PICK j \in 1 .. 6 : Outputs[j] = ts /\ Address(ts) = out[j]
    BY <1>3
  <2>2. Present(New(ts)) /\ New(ts).ts = ts /\ New(ts).index = Cardinality(collections[out[j]])
    BY <1>2, <1>3, <2>1 DEF IInv, LinkInv
  <2>3. ~hasObject(New(ts))
    BY <1>2, <2>2 DEF hasObject, collectionIds, Filled, TypeAndSubtype, Clusters, Smears
  <2>4. PICK k \in 1 .. 6 : New(ts) \in collections[out[k]]
    BY <1>1, <2>2, <2>3 DEF Present
  <2>5. k = j
    <3>1. \A x, y \in 1 .. 6 : Outputs[x] = Outputs[y] => x = y
      BY DEF Outputs
    <3>2. New(ts).ts = Outputs[k]
      BY <1>1, <2>4
    <3>3. QED
      BY <2>1, <2>2, <3>1, <3>2
  <2>6. New(ts).index < Cardinality(collections[out[j]])
    BY <1>1, <2>2, <2>4, <2>5 DEF OrderInv, SmearedInv
  <2>7. collections[out[j]] \in Pool
    BY <1>1
  <2>8. Cardinality(collections[out[j]]) \in Nat
    BY <2>7, Sizes
  <2>9. QED
    BY <2>2, <2>6, <2>8
<1>7. ASSUME NEW l \in history', NEW m \in history', l[2].ts \in Smears, l[2] = m[2]
      PROVE  l = m
  <2> DEFINE link(ts) == <<IF ts \in DOMAIN TrueOf THEN New(TrueOf[ts]) ELSE p, New(ts)>>
  <2>1. \A k \in history' : k \in history \/ \E ts \in made : k = link(ts)
    BY DEF Deposit
  <2>2. \A ts \in made : link(ts)[2] = New(ts) /\ New(ts).ts = ts
    BY <1>3
  <2> HIDE DEF link
  <2>3. CASE l \in history /\ m \in history
    BY <1>7, <2>3 DEF OrderInv, SmearedInv
  <2>4. CASE l \notin history
    <3>1. PICK ts \in made : l = link(ts)
      BY <2>1, <2>4
    <3>2. ts \in Smears /\ m \notin history
      BY <1>6, <1>7, <2>2, <3>1
    <3>3. PICK u \in made : m = link(u)
      BY <2>1, <3>2
    <3>4. u = ts
      BY <1>7, <2>2, <3>1, <3>3
    <3>5. QED
      BY <3>1, <3>3, <3>4
  <2>5. CASE m \notin history
    <3>1. PICK ts \in made : m = link(ts)
      BY <2>1, <2>5
    <3>2. ts \in Smears /\ l \notin history
      BY <1>6, <1>7, <2>2, <3>1
    <3>3. PICK u \in made : l = link(u)
      BY <2>1, <3>2
    <3>4. u = ts
      BY <1>7, <2>2, <3>1, <3>3
    <3>5. QED
      BY <3>1, <3>3, <3>4
  <2>6. QED
    BY <2>3, <2>4, <2>5
<1>8. QED
  BY <1>5, <1>7 DEF SmearedInv

LEMMA SimulateKeepsOrder ==
  ASSUME IInv, OrderInv, SimulateParticle, pc' = pc
  PROVE  OrderInv'
<1>1. PICK p \in UNION todo :
        simulatePhoton(p) \/ simulateHadron(p) \/ simulateLepton(p) \/ simulateNothing(p)
  BY DEF SimulateParticle
<1>2. PICK made \in SUBSET Made : /\ \A ts \in made : ts \in DOMAIN TrueOf => TrueOf[ts] \in made
                                  /\ Simulated(p, made) \/ NotExtrapolated(p, made)
  BY <1>1, ParticleLeaves
<1>3. /\ stage = "simulate" /\ failed = "no" /\ Deposit(p, made) /\ folder' = folder
      /\ p \in Object /\ Present(p)
  BY <1>2 DEF Simulated, NotExtrapolated, Throw, IInv, StageInv, Shape, LinkInv, Present
<1>4. SmearedInv'
  BY <1>2, <1>3, DepositKeepsOrder
<1>5. pc = 3 /\ Filled \subseteq {"ps"} /\ Filled' = Filled
  <2>1. pc \in 2 .. 8 /\ stage = StageAt(pc) /\ Filled \subseteq FilledBefore(pc)
    BY <1>3 DEF OrderInv, FilledInv
  <2>2. pc = 3
    BY <1>3, <2>1 DEF StageAt
  <2>3. QED
    BY <1>3, <2>1, <2>2, FilledSets DEF Filled, hasCollection
<1>6. FilledInv'
  <2>1. CASE Simulated(p, made)
    <3>1. UNCHANGED <<failed, stage, out>>
      BY <2>1 DEF Simulated
    <3>2. \A j \in 1 .. 6 : \A id \in collections'[out[j]] : id.ts = Outputs[j]
      BY <1>2, <1>3, DepositKeeps
    <3>3. DOMAIN out = 1 .. 6
      BY <1>3 DEF IInv, StageInv, Shape
    <3>4. \A j \in DOMAIN out : \A id \in collections'[out[j]] : id.ts \in FilledAt(3)
      BY <3>2, <3>3 DEF FilledAt, Made, Outputs
    <3>5. StageAt(3) = "simulate" /\ Filled' \subseteq FilledBefore(3)
      BY <1>5, FilledSets DEF StageAt
    <3>6. QED
      BY <1>3, <1>5, <3>1, <3>4, <3>5 DEF FilledInv
  <2>2. CASE NotExtrapolated(p, made)
    <3>1. failed' = "simulation" /\ stage' = "ready"
      BY <2>2 DEF NotExtrapolated, Throw
    <3>2. QED
      BY <1>5, <3>1 DEF FilledInv
  <2>3. QED
    BY <1>2, <2>1, <2>2
<1>7. QED
  BY <1>4, <1>6 DEF OrderInv

\* The stages that group objects make objects for one folder, none of them smeared.
LEMMA MakeFromKeepsOrder ==
  ASSUME IInv, OrderInv, stage \notin {"ready", "simulate"}, pc' = pc,
         NEW ts \in FilledAt(pc) \ Smears, ts \in TypeAndSubtype,
         NEW parents, MakeFrom(ts, parents),
         \A g \in todo' : \A id \in g : \E h \in todo : id \in h
  PROVE  OrderInv'
<1> PICK made : made = NewId(ts, out[1])
  OBVIOUS
<1>1. /\ collections \in Seq(Pool) /\ DOMAIN out = {1} /\ out[1] \in DOMAIN collections
      /\ failed = "no"
  BY DEF IInv, Shape, StageInv
<1>2. made \in Object /\ made.ts = ts
  BY <1>1, NewIdType DEF IInv
<1>3. /\ collections' = [collections EXCEPT ![out[1]] = @ \cup {made}]
      /\ history' = history \cup (parents \X {made})
      /\ UNCHANGED <<folder, failed, stage, out>>
  BY DEF MakeFrom
<1>4. /\ DOMAIN collections' = DOMAIN collections
      /\ \A a \in DOMAIN collections :
           collections'[a] = IF a = out[1] THEN collections[a] \cup {made} ELSE collections[a]
  BY <1>1, <1>3
<1>5. FilledInv'
  <2>1. Filled' = Filled
    BY <1>3 DEF Filled, hasCollection
  <2>2. \A j \in DOMAIN out' : \A id \in collections'[out'[j]] : id.ts \in FilledAt(pc)
    BY <1>1, <1>2, <1>3, <1>4 DEF OrderInv, FilledInv
  <2>3. QED
    BY <1>1, <1>3, <2>1, <2>2 DEF OrderInv, FilledInv
<1>6. SmearedInv'
  <2>1. ASSUME NEW a \in DOMAIN collections', NEW id \in collections'[a], id.ts \in Smears
        PROVE  id.index < Cardinality(collections'[a])
    <3>1. a \in DOMAIN collections /\ id \in collections[a]
      BY <1>2, <1>4, <2>1
    <3>2. /\ id.index < Cardinality(collections[a])
          /\ collections[a] \in Pool /\ id \in Object
      BY <1>1, <2>1, <3>1 DEF OrderInv, SmearedInv, Pool
    <3>3. collections'[a] \in Pool /\ collections[a] \subseteq collections'[a]
      BY <1>2, <1>4, <3>1, <3>2, PoolGrows
    <3>4. id.index \in Nat
      BY <3>2 DEF Object
    <3>5. QED
      BY <3>2, <3>3, <3>4, Sizes
  <2>2. \A l \in history' : l[2].ts \in Smears => l \in history
    BY <1>2, <1>3
  <2>3. QED
    BY <2>1, <2>2 DEF OrderInv, SmearedInv
<1>7. QED
  BY <1>5, <1>6 DEF OrderInv

\* No cluster that is to be merged is a merged one: it has one parent at most.
LEMMA MergeKeepsOrder ==
  ASSUME IInv, OrderInv, NEW S, MergeGroup(S), pc' = pc
  PROVE  OrderInv'
<1>1. /\ stage = "merge" /\ todo # {} /\ S \subseteq Turn /\ First(Turn) \in S
      /\ Turn \in todo /\ Turn \in SUBSET Object
  BY DEF MergeGroup, Turn, IInv, Shape
<1>2. pc \in {4, 5} /\ \A id \in Turn : id.ts = IF pc = 4 THEN "es" ELSE "hs"
  BY <1>1 DEF OrderInv, FilledInv, StageAt
<1>3. \A c \in S : ~Merged(c)
  <2> SUFFICES ASSUME NEW c \in S PROVE ~Merged(c)
    OBVIOUS
  <2> DEFINE P == {p \in Parents(c) : p.ts \in Clusters}
  <2>1. \A l, m \in history : l[2] = c /\ m[2] = c => l = m
    BY <1>1, <1>2 DEF OrderInv, SmearedInv, Smears
  <2>2. \A p, q \in P : p = q
    BY <2>1 DEF Parents
  <2>3. P = {} \/ \E p : P = {p}
    BY <2>2
  <2>4. Cardinality(P) = 0 \/ Cardinality(P) = 1
    BY <2>3, FS_EmptySet, FS_Singleton
  <2>5. QED
    BY <2>4 DEF Merged
<1>4. MakeFrom(MergedOf[First(S).ts], S) /\ todo' = (todo \ {Turn}) \cup ({Turn \ S} \ {{}})
  BY <1>3 DEF MergeGroup
<1>5. First(S) \in S
  BY <1>1, FirstIsInGroup
<1>6. MergedOf[First(S).ts] = IF pc = 4 THEN "em" ELSE "hm"
  BY <1>1, <1>2, <1>5 DEF MergedOf, Clusters
<1>7. MergedOf[First(S).ts] \in FilledAt(pc) \ Smears /\ MergedOf[First(S).ts] \in TypeAndSubtype
  BY <1>2, <1>6 DEF FilledAt, Smears, TypeAndSubtype, Clusters
<1>8. \A g \in todo' : \A id \in g : \E h \in todo : id \in h
  BY <1>1, <1>4
<1>9. QED
  BY <1>1, <1>4, <1>7, <1>8, MakeFromKeepsOrder

LEMMA MakeKeepsOrder ==
  ASSUME IInv, OrderInv, pc' = pc,
         \/ \E S : MakeBlock(S)
         \/ \E others : MakeParticle(others)
  PROVE  OrderInv'
<1>1. PICK ts \in {"br", "bs", "pr"} : \E parents :
        /\ stage \notin {"ready", "simulate"} /\ MakeFrom(ts, parents)
        /\ ts = IF stage = "build" THEN "br" ELSE IF stage = "simplify" THEN "bs" ELSE "pr"
        /\ stage \in {"build", "simplify", "reconstruct"}
        /\ todo # {}
        /\ todo' = todo \ {Turn} \/ \E S : todo' = (todo \ {Turn}) \cup ({Turn \ S} \ {{}})
  <2>1. CASE \E S : MakeBlock(S)
    BY <2>1 DEF MakeBlock
  <2>2. CASE \E others : MakeParticle(others)
    BY <2>2 DEF MakeParticle
  <2>3. QED
    BY <2>1, <2>2
<1>2. Turn \in todo
  BY <1>1 DEF Turn
<1>3. \A g \in todo' : \A id \in g : \E h \in todo : id \in h
  BY <1>1, <1>2
<1>4. pc \in 2 .. 8 /\ stage = StageAt(pc)
  BY <1>1 DEF OrderInv, FilledInv
<1>5. ts \in FilledAt(pc)
  <2>1. pc = 2 \/ pc = 3 \/ pc = 4 \/ pc = 5 \/ pc = 6 \/ pc = 7 \/ pc = 8
    BY <1>4
  <2>2. QED
    BY <1>1, <1>4, <2>1 DEF StageAt, FilledAt
<1>6. ts \in TypeAndSubtype /\ ts \notin Smears
  BY DEF TypeAndSubtype, Smears
<1>7. PICK parents : MakeFrom(ts, parents)
  BY <1>1
<1>8. stage \notin {"ready", "simulate"}
  BY <1>1
<1>9. QED
  BY <1>3, <1>5, <1>6, <1>7, <1>8, MakeFromKeepsOrder

LEMMA NothingKeepsOrder ==
  ASSUME IInv, OrderInv, MakeNothing, pc' = pc
  PROVE  OrderInv'
<1>1. stage = "reconstruct" /\ UNCHANGED <<eventVars, stage, out, pc>>
  BY DEF MakeNothing
<1>2. UNCHANGED <<collections, folder, history, failed>> /\ Filled' = Filled
  BY <1>1 DEF eventVars, Filled, hasCollection
<1>3. FilledInv'
  BY <1>1, <1>2 DEF OrderInv, FilledInv
<1>4. SmearedInv'
  BY <1>2 DEF OrderInv, SmearedInv
<1>5. QED
  BY <1>3, <1>4 DEF OrderInv

\* No collection of a stage is refused: each is for a folder that is empty.
LEMMA FinishKeepsOrder ==
  ASSUME IInv, OrderInv, Finish, pc' = pc
  PROVE  OrderInv'
<1>1. /\ stage # "ready" /\ AddCollections(out) /\ stage' = "ready"
      /\ UNCHANGED <<collections, history>>
  BY DEF Finish
<1>2. /\ pc \in 2 .. 8 /\ stage = StageAt(pc) /\ Filled \subseteq FilledBefore(pc)
      /\ \A j \in DOMAIN out : \A id \in collections[out[j]] : id.ts \in FilledAt(pc)
  BY <1>1 DEF OrderInv, FilledInv
<1>3. /\ FilledBefore(pc + 1) = FilledBefore(pc) \cup FilledAt(pc)
      /\ FilledBefore(pc) \cap FilledAt(pc) = {}
      /\ pc # 3 => \E ts : FilledAt(pc) = {ts}
  BY <1>2, FilledSets
<1>4. ASSUME NEW j \in DOMAIN out
      PROVE  Refused(collections[out[j]]) = "no"
  <2> PICK c : c = collections[out[j]]
    OBVIOUS
  <2> DEFINE T == {id.ts : id \in c}
  <2>1. c \in Pool
    BY DEF IInv, Shape, StageInv
  <2>2. \A id \in c : ~hasCollection(id.ts)
    BY <1>2, <1>3, <2>1 DEF Pool, Object, Filled
  <2>3. \A a, b \in c : a.ts = b.ts
    <3>1. CASE pc = 3
      <4>1. stage = "simulate"
        BY <1>2, <3>1 DEF StageAt
      <4>2. DOMAIN out = 1 .. 6 /\ \A k \in 1 .. 6 : \A id \in collections[out[k]] : id.ts = Outputs[k]
        BY <4>1 DEF IInv, StageInv, Shape
      <4>3. QED
        BY <4>2
    <3>2. CASE pc # 3
      BY <1>2, <1>3, <3>2
    <3>3. QED
      BY <3>1, <3>2
  <2>4. T = {} \/ \E t : T = {t}
    <3>1. CASE c = {}
      BY <3>1
    <3>2. CASE c # {}
      <4>1. PICK a \in c : TRUE
        BY <3>2
      <4>2. T = {a.ts}
        BY <2>3, <4>1
      <4>3. QED
        BY <4>2
    <3>3. QED
      BY <3>1, <3>2
  <2>5. Cardinality(T) = 0 \/ Cardinality(T) = 1
    BY <2>4, FS_EmptySet, FS_Singleton
  <2>6. ~(Cardinality(T) > 1)
    BY <2>5
  <2>7. QED
    BY <2>2, <2>6 DEF Refused
<1>5. failed' = "no"
  BY <1>1, <1>4 DEF AddCollections
<1>6. \A ts \in TypeAndSubtype : folder'[ts] # folder[ts] => ts \in FilledAt(pc)
  <2> SUFFICES ASSUME NEW ts \in TypeAndSubtype, folder'[ts] # folder[ts]
               PROVE  ts \in FilledAt(pc)
    OBVIOUS
  <2>1. \E j \in DOMAIN out : ts \in {id.ts : id \in collections[out[j]]}
    BY <1>1 DEF AddCollections
  <2>2. QED
    BY <1>2, <2>1
<1>7. Filled' \subseteq FilledBefore(pc + 1)
  BY <1>2, <1>3, <1>6 DEF Filled, hasCollection
<1>8. FilledInv'
  BY <1>1, <1>2, <1>5, <1>7 DEF FilledInv
<1>9. SmearedInv'
  BY <1>1 DEF OrderInv, SmearedInv
<1>10. QED
  BY <1>8, <1>9 DEF OrderInv

LEMMA ClearKeepsOrder ==
  ASSUME clear, pc' \in 0 .. 8
  PROVE  OrderInv'
<1>1. /\ collections' = <<>> /\ history' = {} /\ failed' = "no" /\ stage' = "ready"
      /\ folder' = NoFolder
  BY DEF clear
<1>2. Filled' = {}
  BY <1>1 DEF Filled, hasCollection, NoFolder
<1>3. QED
  BY <1>1, <1>2 DEF OrderInv, FilledInv, SmearedInv

LEMMA SameKeepsOrder ==
  ASSUME IInv, OrderInv, UNCHANGED vars, pc' = pc \/ (pc' = 0 /\ stage = "ready")
  PROVE  OrderInv'
<1>1. UNCHANGED <<collections, folder, history, failed, stage, out, todo>> /\ Filled' = Filled
  BY DEF vars, eventVars, Filled, hasCollection
<1>2. FilledInv'
  BY <1>1 DEF OrderInv, FilledInv
<1>3. SmearedInv'
  BY <1>1 DEF OrderInv, SmearedInv
<1>4. QED
  BY <1>2, <1>3 DEF OrderInv

LEMMA ProcessKeepsOrder == ASSUME IInv, OrderInv, process PROVE OrderInv'
<1>1. CASE pc # 0 /\ processEvent /\ pc' = pc + 1
  BY <1>1, StartKeepsOrder
<1>2. CASE StageStep /\ UNCHANGED pc
  BY <1>2, SimulateKeepsOrder, MergeKeepsOrder, MakeKeepsOrder, NothingKeepsOrder,
     FinishKeepsOrder DEF StageStep
<1>3. CASE EndEvent
  <2>1. stage = "ready"
    BY <1>3 DEF EndEvent, Idle, IInv, StageInv
  <2>2. QED
    BY <1>3, <2>1, SameKeepsOrder DEF EndEvent
<1>4. QED
  BY <1>1, <1>2, <1>3 DEF process, ContinueEvent

LEMMA StepKeepsOrder == IInv /\ NumberInv /\ OrderInv /\ [ProgStep]_allVars => OrderInv'
<1> SUFFICES ASSUME IInv, NumberInv, OrderInv, [ProgStep]_allVars PROVE OrderInv'
  OBVIOUS
<1>1. ASSUME NEW found \in BOOLEAN, readEvent(found) PROVE OrderInv'
  <2>1. CASE found
    BY <1>1, <2>1, ClearKeepsOrder DEF readEvent, StartEvent, processEvent
  <2>2. CASE ~found
    BY <1>1, <2>2, SameKeepsOrder DEF readEvent, loopVars
  <2>3. QED
    BY <2>1, <2>2
<1>2. CASE process
  BY <1>2, ProcessKeepsOrder
<1>3. CASE processed \/ writeParticlesROOT \/ displayEvent
  BY <1>3, SameKeepsOrder DEF processed, writeParticlesROOT, displayEvent, loopVars
<1>4. CASE clearManager
  <2>1. clear /\ pc' = 0
    BY <1>4 DEF clearManager, NumberInv
  <2>2. QED
    BY <2>1, ClearKeepsOrder
<1>5. CASE UNCHANGED allVars
  BY <1>5, SameKeepsOrder DEF allVars, loopVars
<1>6. QED
  BY <1>1, <1>2, <1>3, <1>4, <1>5 DEF ProgStep

\* What the two theorems below rest on.
SoundInv == IInv /\ NumberInv /\ OrderInv

LEMMA ProgramsAreSound == ProgSpec => []SoundInv
<1>1. ProgInit => SoundInv
  BY InitHolds, InitNumberInv, InitOrderInv DEF SoundInv, ProgInit, LoopInit
<1>2. SoundInv /\ [ProgStep]_allVars => SoundInv'
  BY StepIsOfManager, NextKeeps, StepKeeps, StepKeepsOrder DEF SoundInv
<1>3. QED
  BY <1>1, <1>2, PTL DEF ProgSpec

(***************************************************************************)
(* In the order in which processEvent calls the stages, the simulation is  *)
(* the only one that may throw: no collection is refused, since each stage *)
(* fills folders that were empty, and no cluster is merged twice, since a  *)
(* smeared cluster has one parent.                                         *)
(***************************************************************************)
THEOREM OnlyTheSimulationThrows == ProgSpec => []OnlySimulationThrows
<1>1. SoundInv => OnlySimulationThrows
  BY DEF SoundInv, OrderInv, FilledInv, OnlySimulationThrows
<1>2. QED
  BY <1>1, ProgramsAreSound, PTL
-----------------------------------------------------------------------------
\* Nothing is written or shown before the event is through, or given up.
ShownInv ==
  /\ program = "loop" => at \notin {"write", "show"} /\ written = {} /\ canvas = NoWindow
  /\ at \in {"read", "process"} => written = {}
  /\ at \in {"read", "process", "write"} => canvas = NoWindow
  /\ NothingHalfDoneComesOut

\* An event that was given up has nothing but generated particles.
LEMMA GivenUp ==
  ASSUME SoundInv, failed # "no", NEW ts \in TypeAndSubtype \ {"ps"}
  PROVE  collectionIds(ts) = {}
BY DEF SoundInv, OrderInv, FilledInv, Filled, collectionIds

LEMMA NothingIsShown == canvas = NoWindow => \A v \in DOMAIN canvas : FALSE
BY DEF NoWindow

LEMMA DisplayShows ==
  ASSUME NEW ids, display(ids, {}), \A id \in ids : id.ts = "ps"
  PROVE  \A v \in DOMAIN canvas' : \A d \in Shown(v)' : d = Detector \/ d.ts = "ps"
<1> DEFINE D == {Detector} \cup ids
<1>1. DOMAIN register' = Views
  BY DEF display, drawEvent, addToRegister, NewRegister
<1>2. \A v \in Views : register'[v] = ({Detector} \X {0}) \cup (ids \X {2})
  BY DEF display, drawEvent, addToRegister, NewRegister
<1> SUFFICES ASSUME NEW v \in DOMAIN canvas', NEW d \in Shown(v)'
             PROVE  d \in D
  OBVIOUS
<1>3. v \in Views /\ canvas' = Drawn(NewCanvas, register')
  BY <1>1 DEF display, Drawn
<1> PICK reg : reg = register'[v]
  OBVIOUS
<1> PICK f : f = [n \in DOMAIN ByLayer(reg) |-> DrawnIn(ByLayer(reg)[n], v)]
  OBVIOUS
<1>4. canvas'[v] = <<>> \o f
  BY <1>1, <1>3 DEF Drawn, NewCanvas
<1> DEFINE layers == {pair[2] : pair \in reg}
<1>5. Cardinality(layers) \in Nat
  <2>1. layers \in SUBSET ({0} \cup {2})
    BY <1>2, <1>3
  <2>2. IsFiniteSet({0} \cup {2})
    BY FS_Singleton, FS_AddElement
  <2>3. QED
    BY <2>1, <2>2, FS_Subset, FS_CardinalityType
<1>6. DOMAIN f = 1 .. Cardinality(layers)
  BY DEF ByLayer
<1>7. \A n \in DOMAIN f : f[n] \in SUBSET D
  <2> TAKE n \in DOMAIN f
  <2>1. ByLayer(reg)[n] \subseteq {pair[1] : pair \in reg}
    BY DEF ByLayer
  <2>2. {pair[1] : pair \in reg} \subseteq D
    BY <1>2, <1>3
  <2>3. f[n] \subseteq ByLayer(reg)[n]
    BY DEF DrawnIn
  <2>4. QED
    BY <2>1, <2>2, <2>3
<1> HIDE DEF layers, D
<1>8. f \in Seq(SUBSET D)
  <2>1. f = [n \in 1 .. Cardinality(layers) |-> f[n]]
    BY <1>6
  <2>2. QED
    BY <1>5, <1>6, <1>7, <2>1
<1>9. canvas'[v] = f
  BY <1>4, <1>8
<1>10. PICK n \in DOMAIN f : d \in f[n]
  BY <1>9 DEF Shown
<1>11. QED
  BY <1>7, <1>10

LEMMA StepKeepsShown == SoundInv /\ ShownInv /\ [ProgStep]_allVars => ShownInv'
<1> SUFFICES ASSUME SoundInv, ShownInv, [ProgStep]_allVars PROVE ShownInv'
  OBVIOUS
<1>1. ASSUME NEW found \in BOOLEAN, readEvent(found) PROVE ShownInv'
  <2>1. /\ at = "read" /\ at' = "process" /\ written = {} /\ canvas = NoWindow
        /\ UNCHANGED <<program, written, canvas>>
    BY <1>1 DEF readEvent, ShownInv, displayVars
  <2>2. QED
    BY <2>1 DEF ShownInv, NothingHalfDoneComesOut, NoWindow
<1>2. CASE process
  <2>1. /\ at = "process" /\ written = {} /\ canvas = NoWindow
        /\ UNCHANGED <<program, at, written, canvas>>
    BY <1>2 DEF process, progVars, ShownInv, displayVars
  <2>2. QED
    BY <2>1 DEF ShownInv, NothingHalfDoneComesOut, NoWindow
<1>3. CASE processed
  <2>1. /\ at = "process" /\ written = {} /\ canvas = NoWindow /\ at' = AfterEvent
        /\ UNCHANGED <<program, written, canvas>>
    BY <1>3 DEF processed, ShownInv, displayVars
  <2>2. /\ AfterEvent \in {"write", "show", "clear", "end"} \/ program = "loop"
        /\ program = "loop" => AfterEvent \in {"clear", "end"}
    BY DEF AfterEvent, SoundInv, NumberInv
  <2>3. QED
    BY <2>1, <2>2 DEF ShownInv, NothingHalfDoneComesOut, NoWindow
<1>4. CASE writeParticlesROOT
  <2>1. /\ at = "write" /\ at' = "show" /\ canvas = NoWindow /\ program # "loop"
        /\ UNCHANGED <<program, canvas, failed>> /\ written' = collectionIds("pr")
    BY <1>4 DEF writeParticlesROOT, ShownInv, displayVars, loopVars, vars, eventVars
  <2>2. failed # "no" => collectionIds("pr") = {}
    BY GivenUp DEF TypeAndSubtype, Clusters
  <2>3. QED
    BY <2>1, <2>2 DEF ShownInv, NothingHalfDoneComesOut, NoWindow
<1>5. CASE displayEvent
  <2>1. /\ at = "show" /\ at' \in {"clear", "end"} /\ program # "loop"
        /\ UNCHANGED <<program, written, failed>>
        /\ display(collectionIds("ps"), collectionIds("es") \cup collectionIds("hs"))
    BY <1>5 DEF displayEvent, ShownInv, loopVars, vars, eventVars
  <2>2. ASSUME failed # "no"
        PROVE  \A v \in DOMAIN canvas' : \A d \in Shown(v)' : d = Detector \/ d.ts = "ps"
    <3>1. collectionIds("es") = {} /\ collectionIds("hs") = {}
      BY <2>2, GivenUp DEF TypeAndSubtype, Clusters
    <3>2. \A id \in collectionIds("ps") : id.ts = "ps"
      BY CollectionObjects DEF SoundInv, TypeAndSubtype
    <3>3. display(collectionIds("ps"), {})
      BY <2>1, <3>1
    <3>4. QED
      BY <3>2, <3>3, DisplayShows
  <2>3. NothingHalfDoneComesOut'
    BY <2>1, <2>2 DEF ShownInv, NothingHalfDoneComesOut
  <2>4. QED
    BY <2>1, <2>3 DEF ShownInv
<1>6. CASE clearManager
  <2>1. /\ at = "clear" /\ failed' = "no" /\ at' = IF program = "loop" THEN "read" ELSE "end"
        /\ UNCHANGED <<program, written, canvas>>
    BY <1>6 DEF clearManager, clear, displayVars
  <2>2. QED
    BY <2>1 DEF ShownInv, NothingHalfDoneComesOut
<1>7. CASE UNCHANGED allVars
  BY <1>7 DEF allVars, loopVars, vars, eventVars, displayVars, progVars, ShownInv,
     NothingHalfDoneComesOut, Shown
<1>8. QED
  BY <1>1, <1>2, <1>3, <1>4, <1>5, <1>6, <1>7 DEF ProgStep

(***************************************************************************)
(* Clusters are shown and particles written only of an event that went     *)
(* through all stages, though one that was given up is written and shown   *)
(* as any other: none of its stages that were cut short left a collection. *)
(***************************************************************************)
THEOREM NothingHalfDone == ProgSpec => []NothingHalfDoneComesOut
<1>1. ProgInit => ShownInv
  BY DEF ProgInit, DisplayInit, LoopInit, Init, EventInit, ShownInv, NothingHalfDoneComesOut
<1>2. SoundInv /\ ShownInv /\ [ProgStep]_allVars => ShownInv'
  BY StepKeepsShown
<1>3. ShownInv => NothingHalfDoneComesOut
  BY DEF ShownInv
<1>4. QED
  BY <1>1, <1>2, <1>3, ProgramsAreSound, PTL DEF ProgSpec
-----------------------------------------------------------------------------
(***************************************************************************)
(* How the deposits are shared out.  Calls 4 to 7 each make objects of one *)
(* kind from what they are given, and each thing they are given goes into  *)
(* one and only one of these objects.                                      *)
(***************************************************************************)
Product(k) == CASE k = 4 -> "em" [] k = 5 -> "hm" [] k = 6 -> "br" [] k = 7 -> "bs"

Elements == {"em", "hm", "ts"}

Kinds(k) == CASE k = 4 -> {"es"} [] k = 5 -> {"hs"} [] k \in {6, 7} -> Elements

Given(k) == UNION {collectionIds(ts) : ts \in Kinds(k)}

InOne(x, made) == \E c \in made : /\ x \in Parents(c)
                                  /\ \A d \in made : x \in Parents(d) => d = c

\* Either it waits in one group, or it has gone into one object.
Shared(x, made) ==
  \/ /\ \E g \in todo : x \in g /\ \A h \in todo : x \in h => h = g
     /\ \A c \in made : x \notin Parents(c)
  \/ /\ \A g \in todo : x \notin g
     /\ InOne(x, made)

Through(k) == pc > k \/ (pc = k /\ stage = "ready")

\* Merged clusters are of the simulated clusters of one calorimeter, and blocks
\* of merged clusters and smeared tracks.
KindInv ==
  /\ \A link \in history : /\ link[2].ts = "em" => link[1].ts = "es"
                           /\ link[2].ts = "hm" => link[1].ts = "hs"
                           /\ link[2].ts \in {"br", "bs"} => link[1].ts \in Elements
  /\ stage \in {"build", "simplify"} => \A g \in todo : \A x \in g : x.ts \in Elements

ShareInv ==
  failed = "no" =>
    /\ KindInv
    /\ \A k \in 4 .. 7 : Through(k) => \A x \in Given(k) : InOne(x, collectionIds(Product(k)))
    /\ stage # "ready" /\ pc \in 4 .. 7 => \A x \in Given(pc) : Shared(x, collections[out[1]])
-----------------------------------------------------------------------------
LEMMA KindsOf ==
  /\ Product(4) = "em" /\ Product(5) = "hm" /\ Product(6) = "br" /\ Product(7) = "bs"
  /\ Kinds(4) = {"es"} /\ Kinds(5) = {"hs"} /\ Kinds(6) = Elements /\ Kinds(7) = Elements
BY DEF Product, Kinds

\* No stage of processEvent makes an object for a folder that is taken.
LEMMA NoneIsDoomed ==
  ASSUME IInv, OrderInv
  PROVE  ~Doomed
<1>1. CASE stage = "ready"
  BY <1>1 DEF IInv, StageInv, Doomed
<1>2. CASE stage # "ready"
  <2>1. /\ pc \in 2 .. 8 /\ Filled \subseteq FilledBefore(pc)
        /\ \A j \in DOMAIN out : \A id \in collections[out[j]] : id.ts \in FilledAt(pc)
    BY <1>2 DEF OrderInv, FilledInv
  <2>2. FilledBefore(pc) \cap FilledAt(pc) = {}
    BY <2>1, FilledSets
  <2>3. \A j \in DOMAIN out : \A id \in collections[out[j]] : id.ts \in TypeAndSubtype
    <3>1. \A j \in DOMAIN out : collections[out[j]] \in Pool
      BY DEF IInv, Shape, StageInv
    <3>2. QED
      BY <3>1 DEF Pool, Object
  <2>4. QED
    BY <2>1, <2>2, <2>3 DEF Doomed, Filled
<1>3. QED
  BY <1>1, <1>2

\* The stages that group objects, and what each of them makes.
LEMMA GroupingStages ==
  ASSUME IInv, OrderInv, stage \notin {"ready", "add", "simulate"}
  PROVE  /\ pc \in 4 .. 8 /\ stage = StageAt(pc) /\ failed = "no"
         /\ DOMAIN out = {1} /\ out[1] \in DOMAIN collections
         /\ pc \in 4 .. 7 => FilledAt(pc) = {Product(pc)} /\ ~hasCollection(Product(pc))
         /\ pc = 8 => FilledAt(pc) = {"pr"} /\ ~hasCollection("pr")
         /\ stage = "merge" <=> pc \in {4, 5}
         /\ stage = "build" <=> pc = 6
         /\ stage = "simplify" <=> pc = 7
         /\ stage = "reconstruct" <=> pc = 8
<1>1. pc \in 2 .. 8 /\ stage = StageAt(pc) /\ Filled \subseteq FilledBefore(pc)
  BY DEF OrderInv, FilledInv
<1>2. pc \in 4 .. 8
  BY <1>1 DEF StageAt
<1>3. failed = "no" /\ DOMAIN out = {1} /\ out[1] \in DOMAIN collections
  BY DEF IInv, StageInv, Shape
<1>4. FilledBefore(pc) \cap FilledAt(pc) = {}
  BY <1>1, FilledSets
<1>5. pc = 4 \/ pc = 5 \/ pc = 6 \/ pc = 7 \/ pc = 8
  BY <1>2
<1>6. /\ pc \in 4 .. 7 => FilledAt(pc) = {Product(pc)}
      /\ pc = 8 => FilledAt(pc) = {"pr"}
  BY <1>5, KindsOf DEF FilledAt
<1>7. \A ts \in FilledAt(pc) : ts \in TypeAndSubtype => ~hasCollection(ts)
  BY <1>1, <1>4 DEF Filled
<1>8. "pr" \in TypeAndSubtype /\ (pc \in 4 .. 7 => Product(pc) \in TypeAndSubtype)
  BY <1>5, KindsOf DEF TypeAndSubtype, Clusters
<1>9. /\ stage = "merge" <=> pc \in {4, 5}
      /\ stage = "build" <=> pc = 6
      /\ stage = "simplify" <=> pc = 7
      /\ stage = "reconstruct" <=> pc = 8
  BY <1>1, <1>5 DEF StageAt
<1>10. QED
  BY <1>1, <1>2, <1>3, <1>6, <1>7, <1>8, <1>9

\* A new object, linked to what was in one group: it is shared out by it.
LEMMA MakeFromKeepsShare ==
  ASSUME IInv, OriginInv, OrderInv, ShareInv, stage \notin {"ready", "add", "simulate"}, pc' = pc,
         NEW ts \in FilledAt(pc), ts \in TypeAndSubtype,
         NEW S, MakeFrom(ts, S),
         \A q \in S : /\ ts = "em" => q.ts = "es"
                      /\ ts = "hm" => q.ts = "hs"
                      /\ ts \in {"br", "bs"} => q.ts \in Elements,
         pc \in 4 .. 7 => /\ S \subseteq Turn /\ S # {} /\ Turn \in todo
                          /\ todo' = (todo \ {Turn}) \cup ({Turn \ S} \ {{}})
  PROVE  ShareInv'
<1> PICK made : made = NewId(ts, out[1])
  OBVIOUS
<1>1. /\ pc \in 4 .. 8 /\ failed = "no" /\ DOMAIN out = {1} /\ out[1] \in DOMAIN collections
      /\ ~hasCollection(ts) /\ collections \in Seq(Pool)
      /\ stage \in {"build", "simplify"} => pc \in 4 .. 7
  BY GroupingStages DEF IInv, Shape
<1>2. made \in Object /\ made.ts = ts
  BY <1>1, NewIdType DEF IInv
<1>3. /\ collections' = [collections EXCEPT ![out[1]] = @ \cup {made}]
      /\ history' = history \cup (S \X {made})
      /\ UNCHANGED <<folder, failed, stage, out>>
  BY DEF MakeFrom
<1>4. /\ DOMAIN collections' = DOMAIN collections
      /\ collections'[out[1]] = collections[out[1]] \cup {made}
      /\ \A a \in DOMAIN collections : a # out[1] => collections'[a] = collections[a]
  BY <1>1, <1>3
<1>5. ~Present(made) /\ \A link \in history : link[1] # made /\ link[2] # made
  BY <1>1, NewIsUnknown DEF OriginInv
<1>6. /\ \A x : x # made => Parents(x)' = Parents(x)
      /\ Parents(made)' = S /\ Parents(made) = {}
  <2>1. ASSUME NEW x, x # made PROVE Parents(x)' = Parents(x)
    BY <1>3, <2>1 DEF Parents
  <2>2. Parents(made) = {}
    BY <1>5 DEF Parents
  <2>3. \A q : q \in Parents(made)' <=> \E link \in history' : link[1] = q /\ link[2] = made
    BY DEF Parents
  <2>4. \A q : q \in Parents(made)' <=> q \in S
    <3>1. \A q \in S : <<q, made>> \in history'
      BY <1>3
    <3>2. \A link \in history' : link[2] = made => link[1] \in S
      BY <1>3, <1>5
    <3>3. ASSUME NEW q \in S PROVE \E link \in history' : link[1] = q /\ link[2] = made
      BY <3>1
    <3>4. QED
      BY <2>3, <3>2, <3>3
  <2>5. QED
    BY <2>1, <2>2, <2>4
<1>7. \A t \in TypeAndSubtype : collectionIds(t)' = collectionIds(t)
  BY <1>1, <1>3, <1>4, OthersStay DEF IInv
<1>8. \A k \in 4 .. 7 : Given(k)' = Given(k)
  <2>1. \A k \in 4 .. 7 : Kinds(k) \subseteq TypeAndSubtype
    <3> TAKE k \in 4 .. 7
    <3>1. k = 4 \/ k = 5 \/ k = 6 \/ k = 7
      OBVIOUS
    <3>2. QED
      BY <3>1, KindsOf DEF Elements, TypeAndSubtype, Clusters
  <2>2. QED
    BY <1>7, <2>1 DEF Given
<1>9. KindInv'
  <2>1. \A link \in history' :
          /\ link[2].ts = "em" => link[1].ts = "es"
          /\ link[2].ts = "hm" => link[1].ts = "hs"
          /\ link[2].ts \in {"br", "bs"} => link[1].ts \in Elements
    BY <1>1, <1>2, <1>3 DEF ShareInv, KindInv
  <2>2. stage \in {"build", "simplify"} => \A g \in todo' : \A x \in g : x.ts \in Elements
    <3> SUFFICES ASSUME stage \in {"build", "simplify"}, NEW g \in todo', NEW x \in g
                 PROVE  x.ts \in Elements
      OBVIOUS
    <3>1. \E h \in todo : x \in h
      BY <1>1
    <3>2. QED
      BY <1>1, <3>1 DEF ShareInv, KindInv
  <2>3. QED
    BY <1>3, <2>1, <2>2 DEF KindInv
<1>10. ASSUME NEW k \in 4 .. 7, Through(k)', NEW x \in Given(k)'
       PROVE  InOne(x, collectionIds(Product(k)))'
  <2>1. Through(k)
    BY <1>3, <1>10 DEF Through
  <2>2. InOne(x, collectionIds(Product(k)))
    BY <1>1, <1>8, <1>10, <2>1 DEF ShareInv
  <2>3. Product(k) \in TypeAndSubtype
    <3>1. k = 4 \/ k = 5 \/ k = 6 \/ k = 7
      OBVIOUS
    <3>2. QED
      BY <3>1, KindsOf DEF TypeAndSubtype, Clusters
  <2>4. collectionIds(Product(k))' = collectionIds(Product(k))
    BY <1>7, <2>3
  <2>5. \A c \in collectionIds(Product(k)) : c # made
    <3>1. \A c \in collectionIds(Product(k)) : hasObject(c)
      BY <2>3, CollectionObjects
    <3>2. QED
      BY <1>5, <3>1 DEF Present
  <2>6. QED
    BY <1>6, <2>2, <2>4, <2>5 DEF InOne
<1>11. ASSUME pc \in 4 .. 7, NEW x \in Given(pc)'
       PROVE  Shared(x, collections[out[1]])'
  <2> PICK M : M = collections[out[1]]
    OBVIOUS
  <2>1. Shared(x, M)
    BY <1>1, <1>8, <1>11 DEF ShareInv
  <2>2. S \subseteq Turn /\ S # {} /\ Turn \in todo /\ todo' = (todo \ {Turn}) \cup ({Turn \ S} \ {{}})
    BY <1>11
  <2>3. \A c \in M : c # made
    BY <1>1, <1>5 DEF Present
  <2>4. \A c \in M : Parents(c)' = Parents(c)
    BY <1>6, <2>3
  <2>5. collections'[out'[1]] = M \cup {made}
    BY <1>3, <1>4
  <2>6. CASE x \in S
    <3>1. \A h \in todo : x \in h => h = Turn
      BY <2>1, <2>2, <2>6 DEF Shared
    <3>2. \A c \in M : x \notin Parents(c)
      BY <2>1, <2>2, <2>6 DEF Shared
    <3>3. \A g \in todo' : x \notin g
      BY <2>2, <2>6, <3>1
    <3>4. \A c \in M \cup {made} : x \in Parents(c)' <=> c = made
      BY <1>6, <2>4, <2>6, <3>2
    <3>5. QED
      BY <2>5, <3>3, <3>4 DEF Shared, InOne
  <2>7. CASE x \notin S
    <3>1. \A c \in M \cup {made} : x \in Parents(c)' <=> c \in M /\ x \in Parents(c)
      BY <1>6, <2>4, <2>7
    <3>2. CASE \A g \in todo : x \notin g
      <4>1. InOne(x, M)
        BY <2>1, <3>2 DEF Shared
      <4>2. \A g \in todo' : x \notin g
        BY <2>2, <3>2
      <4>3. QED
        BY <2>5, <3>1, <4>1, <4>2 DEF Shared, InOne
    <3>3. CASE \E g \in todo : x \in g
      <4>1. \A c \in M : x \notin Parents(c)
        BY <2>1, <3>3 DEF Shared
      <4>2. PICK g \in todo : x \in g /\ \A h \in todo : x \in h => h = g
        BY <2>1, <3>3 DEF Shared
      <4>3. \E k \in todo' : x \in k /\ \A h \in todo' : x \in h => h = k
        <5>1. CASE g = Turn
          <6>1. x \in Turn \ S /\ Turn \ S \in todo'
            BY <2>2, <2>7, <4>2, <5>1
          <6>2. \A h \in todo' : x \in h => h = Turn \ S
            BY <2>2, <4>2, <5>1
          <6>3. QED
            BY <6>1, <6>2
        <5>2. CASE g # Turn
          BY <2>2, <4>2, <5>2
        <5>3. QED
          BY <5>1, <5>2
      <4>4. QED
        BY <2>5, <3>1, <4>1, <4>3 DEF Shared
    <3>4. QED
      BY <3>2, <3>3
  <2>8. QED
    BY <2>6, <2>7
<1>12. QED
  BY <1>1, <1>3, <1>9, <1>10, <1>11 DEF ShareInv

LEMMA MergeKeepsShare ==
  ASSUME IInv, OriginInv, OrderInv, ShareInv, NEW S, MergeGroup(S), pc' = pc
  PROVE  ShareInv'
<1>1. /\ stage = "merge" /\ S \subseteq Turn /\ First(Turn) \in S
      /\ Turn \in todo /\ Turn \in SUBSET Object
  BY DEF MergeGroup, Turn, IInv, Shape
<1>2. CASE \E c \in S : Merged(c)
  BY <1>2 DEF MergeGroup, Throw, ShareInv
<1>3. CASE ~ \E c \in S : Merged(c)
  <2>1. MakeFrom(MergedOf[First(S).ts], S) /\ todo' = (todo \ {Turn}) \cup ({Turn \ S} \ {{}})
    BY <1>3 DEF MergeGroup
  <2>2. pc \in {4, 5} /\ FilledAt(pc) = {Product(pc)}
    BY <1>1, GroupingStages
  <2>3. \A id \in Turn : id.ts = IF pc = 4 THEN "es" ELSE "hs"
    BY <1>1 DEF OrderInv, FilledInv
  <2>4. First(S) \in S
    BY <1>1, FirstIsInGroup
  <2>5. MergedOf[First(S).ts] = Product(pc)
    BY <1>1, <2>2, <2>3, <2>4, KindsOf DEF MergedOf, Clusters
  <2>6. Product(pc) \in TypeAndSubtype /\ Product(pc) = IF pc = 4 THEN "em" ELSE "hm"
    BY <2>2, KindsOf DEF TypeAndSubtype, Clusters
  <2>7. \A q \in S : /\ Product(pc) = "em" => q.ts = "es"
                     /\ Product(pc) = "hm" => q.ts = "hs"
                     /\ Product(pc) \in {"br", "bs"} => q.ts \in Elements
    BY <1>1, <2>2, <2>3, <2>6
  <2>8. QED
    BY <1>1, <2>1, <2>2, <2>5, <2>6, <2>7, MakeFromKeepsShare
<1>4. QED
  BY <1>2, <1>3

LEMMA MakeBlockKeepsShare ==
  ASSUME IInv, OriginInv, OrderInv, ShareInv, NEW S, MakeBlock(S), pc' = pc
  PROVE  ShareInv'
<1>1. /\ stage \in {"build", "simplify"} /\ S \subseteq Turn /\ S # {} /\ Turn \in todo
      /\ todo' = (todo \ {Turn}) \cup ({Turn \ S} \ {{}})
      /\ MakeFrom(IF stage = "build" THEN "br" ELSE "bs", S)
  BY DEF MakeBlock, Turn
<1>2. pc \in {6, 7} /\ FilledAt(pc) = {Product(pc)} /\ (stage = "build" <=> pc = 6) /\ failed = "no"
  BY <1>1, GroupingStages
<1>3. Product(pc) = IF stage = "build" THEN "br" ELSE "bs"
  BY <1>2, KindsOf
<1>4. \A q \in S : q.ts \in Elements
  BY <1>1, <1>2 DEF ShareInv, KindInv
<1>5. Product(pc) \in TypeAndSubtype /\ Product(pc) \in {"br", "bs"}
  BY <1>3 DEF TypeAndSubtype
<1>6. QED
  BY <1>1, <1>2, <1>3, <1>4, <1>5, MakeFromKeepsShare

LEMMA MakeParticleKeepsShare ==
  ASSUME IInv, OriginInv, OrderInv, ShareInv, NEW others, MakeParticle(others), pc' = pc
  PROVE  ShareInv'
<1>1. stage = "reconstruct" /\ MakeFrom("pr", Turn \cup others)
  BY DEF MakeParticle
<1>2. pc = 8 /\ FilledAt(pc) = {"pr"}
  BY <1>1, GroupingStages
<1>3. "pr" \in TypeAndSubtype
  BY DEF TypeAndSubtype
<1>4. QED
  BY <1>1, <1>2, <1>3, MakeFromKeepsShare

\* What is in the folders and the history stays: so does what went into one object.
LEMMA SameKeepsShare ==
  ASSUME IInv, OrderInv, ShareInv, UNCHANGED <<collections, folder, history, failed, stage, out>>,
         todo' = todo \/ stage = "reconstruct",
         pc' = pc \/ (pc' = 0 /\ stage = "ready")
  PROVE  ShareInv'
<1>1. \A ts : collectionIds(ts)' = collectionIds(ts)
  BY DEF collectionIds, hasCollection
<1>2. \A k \in 4 .. 7 : Given(k)' = Given(k) /\ collectionIds(Product(k))' = collectionIds(Product(k))
  BY <1>1 DEF Given
<1>3. \A x : Parents(x)' = Parents(x)
  BY DEF Parents
<1>4. KindInv => KindInv'
  BY DEF KindInv
<1>5. \A x, made : InOne(x, made) => InOne(x, made)'
  BY <1>3 DEF InOne
<1>6. \A k \in 4 .. 7 : Through(k)' => Through(k)
  BY DEF Through, OrderInv, FilledInv
<1>7. stage # "reconstruct" => \A x, made : Shared(x, made) => Shared(x, made)'
  BY <1>3, <1>5 DEF Shared
<1>8. pc \in 4 .. 7 => stage # "reconstruct"
  BY GroupingStages
<1>9. ASSUME failed = "no", stage # "ready", pc \in 4 .. 7, pc' = pc, NEW x \in Given(pc)
      PROVE  Shared(x, collections[out[1]])'
  <2>1. Shared(x, collections[out[1]])
    BY <1>9 DEF ShareInv
  <2> PICK M : M = collections[out[1]]
    OBVIOUS
  <2>2. collections'[out'[1]] = M
    OBVIOUS
  <2>3. QED
    BY <1>7, <1>8, <1>9, <2>1, <2>2
<1>10. ASSUME failed = "no", NEW k \in 4 .. 7, Through(k), NEW x \in Given(k)
       PROVE  InOne(x, collectionIds(Product(k)))'
  <2>1. InOne(x, collectionIds(Product(k)))
    BY <1>10 DEF ShareInv
  <2>2. QED
    BY <1>2, <1>3, <2>1 DEF InOne
<1>11. QED
  BY <1>2, <1>4, <1>6, <1>9, <1>10 DEF ShareInv

\* The simulation makes nothing of what the later stages make.
LEMMA SimulateKeepsShare ==
  ASSUME IInv, OrderInv, ShareInv, SimulateParticle, pc' = pc
  PROVE  ShareInv'
<1>1. PICK p \in UNION todo :
        simulatePhoton(p) \/ simulateHadron(p) \/ simulateLepton(p) \/ simulateNothing(p)
  BY DEF SimulateParticle
<1>2. PICK made \in SUBSET Made : /\ \A ts \in made : ts \in DOMAIN TrueOf => TrueOf[ts] \in made
                                  /\ Simulated(p, made) \/ NotExtrapolated(p, made)
  BY <1>1, ParticleLeaves
<1>3. /\ stage = "simulate" /\ failed = "no" /\ Deposit(p, made)
      /\ p \in Object /\ Present(p) /\ stage' \in {"simulate", "ready"}
  BY <1>2 DEF Simulated, NotExtrapolated, Throw, IInv, StageInv, Shape, LinkInv, Present
<1>4. pc = 3
  BY <1>3 DEF OrderInv, FilledInv, StageAt
<1>5. /\ \A ts \in Made : New(ts).ts = ts
      /\ history' = history \cup {LinkTo(p, ts) : ts \in made}
  BY <1>2, <1>3, DepositMakes
<1>6. \A link \in history' : link \in history \/ link[2].ts \in Made
  BY <1>5 DEF LinkTo
<1>7. KindInv'
  BY <1>3, <1>6 DEF ShareInv, KindInv, Made
<1>8. QED
  BY <1>4, <1>7 DEF ShareInv, Through

\* The folder of what a stage made has all of it, and the others are left alone.
LEMMA FinishAdds ==
  ASSUME IInv, OrderInv, Finish, stage \notin {"ready", "add", "simulate"}, failed' = "no",
         NEW made, FilledAt(pc) = {made}, ~hasCollection(made)
  PROVE  \A ts \in TypeAndSubtype :
            collectionIds(ts)' = IF ts = made THEN collections[out[1]] ELSE collectionIds(ts)
<1> PICK c : c = collections[out[1]]
  OBVIOUS
<1>1. /\ DOMAIN out = {1} /\ out[1] # 0 /\ AddCollections(out) /\ collections' = collections
      /\ \A id \in c : id.ts = made
  <2>1. out[1] \in DOMAIN collections /\ collections \in Seq(Pool)
    BY GroupingStages DEF IInv, Shape
  <2>2. \A id \in c : id.ts \in FilledAt(pc)
    BY GroupingStages DEF OrderInv, FilledInv
  <2>3. QED
    BY <2>1, <2>2, GroupingStages DEF Finish
<1> PICK stops : stops = {n \in DOMAIN out : Refused(collections[out[n]]) # "no"}
  OBVIOUS
<1>2. stops = {}
  <2> SUFFICES ASSUME stops # {} PROVE FALSE
    OBVIOUS
  <2>1. stops = {1} /\ Refused(c) # "no"
    BY <1>1
  <2> PICK k : k = CHOOSE first \in stops : \A j \in stops : first <= j
    OBVIOUS
  <2>2. k = 1
    BY <2>1
  <2>3. failed' = Refused(collections[out[k]])
    BY <1>1, <2>1 DEF AddCollections
  <2>4. QED
    BY <2>1, <2>2, <2>3
<1> PICK added : added = {n \in DOMAIN out : /\ collections[out[n]] # {}
                                             /\ \A j \in stops : n < j}
  OBVIOUS
<1>3. /\ c # {} => added = {1}
      /\ c = {} => added = {}
  BY <1>1, <1>2
<1>4. ASSUME NEW ts \in TypeAndSubtype
      PROVE  folder'[ts] = IF \E n \in added : ts \in {id.ts : id \in collections[out[n]]}
                           THEN out[CHOOSE n \in added : ts \in {id.ts : id \in collections[out[n]]}]
                           ELSE folder[ts]
  BY <1>1 DEF AddCollections
<1>5. ASSUME NEW ts \in TypeAndSubtype
      PROVE  collectionIds(ts)' = IF ts = made THEN c ELSE collectionIds(ts)
  <2>1. CASE ts = made /\ c # {}
    <3>1. \E id \in c : id.ts = ts
      BY <1>1, <2>1
    <3>2. \E n \in added : ts \in {id.ts : id \in collections[out[n]]}
      BY <1>3, <2>1, <3>1
    <3> PICK k : k = CHOOSE n \in added : ts \in {id.ts : id \in collections[out[n]]}
      OBVIOUS
    <3>3. k \in added
      BY <3>2
    <3>4. folder'[ts] = out[1]
      BY <1>3, <1>4, <2>1, <3>2, <3>3
    <3>5. QED
      BY <1>1, <2>1, <3>4 DEF collectionIds, hasCollection
  <2>2. CASE ts # made \/ c = {}
    <3>1. folder'[ts] = folder[ts]
      BY <1>1, <1>3, <1>4, <2>2
    <3>2. QED
      BY <1>1, <2>2, <3>1 DEF collectionIds, hasCollection
  <2>3. QED
    BY <2>1, <2>2
<1>6. QED
  BY <1>5

LEMMA FinishKeepsShare ==
  ASSUME IInv, OrderInv, ShareInv, Finish, pc' = pc
  PROVE  ShareInv'
<1> SUFFICES ASSUME failed' = "no" PROVE ShareInv'
  BY DEF ShareInv
<1>1. /\ stage # "ready" /\ failed = "no" /\ todo = {} /\ todo' = {} /\ stage' = "ready"
      /\ UNCHANGED <<collections, history>>
  BY DEF Finish, IInv, StageInv
<1>2. KindInv'
  BY <1>1 DEF ShareInv, KindInv
<1>3. CASE stage \in {"add", "simulate"}
  <2>1. pc \in 2 .. 3
    BY <1>3 DEF OrderInv, FilledInv, StageAt
  <2>2. QED
    BY <1>2, <2>1 DEF ShareInv, Through
<1>4. CASE stage \notin {"add", "simulate"}
  <2>1. pc \in 4 .. 8
    BY <1>1, <1>4, GroupingStages
  <2> PICK P : FilledAt(pc) = {P} /\ ~hasCollection(P) /\ P = IF pc = 8 THEN "pr" ELSE Product(pc)
    <3>1. pc = 8 \/ pc \in 4 .. 7
      BY <2>1
    <3>2. QED
      BY <1>1, <1>4, <3>1, GroupingStages
  <2>2. \A ts \in TypeAndSubtype :
            collectionIds(ts)' = IF ts = P THEN collections[out[1]] ELSE collectionIds(ts)
    BY <1>1, <1>4, FinishAdds
  <2>3. ASSUME NEW k \in 4 .. 7, k <= pc
        PROVE  /\ Given(k)' = Given(k)
               /\ Product(k) \in TypeAndSubtype
               /\ k # pc => Product(k) # P
    <3>1. k = 4 \/ k = 5 \/ k = 6 \/ k = 7
      OBVIOUS
    <3>2. pc = 4 \/ pc = 5 \/ pc = 6 \/ pc = 7 \/ pc = 8
      BY <2>1
    <3>3. /\ P \notin Kinds(k) /\ Kinds(k) \subseteq TypeAndSubtype /\ Product(k) \in TypeAndSubtype
          /\ k # pc => Product(k) # P
      BY <2>3, <3>1, <3>2, KindsOf DEF Elements, TypeAndSubtype, Clusters
    <3>4. QED
      BY <2>2, <3>3 DEF Given
  <2>4. ASSUME NEW k \in 4 .. 7, Through(k)', NEW x \in Given(k)'
        PROVE  InOne(x, collectionIds(Product(k)))'
    <3>1. k <= pc
      BY <2>1, <2>4 DEF Through
    <3>2. Given(k)' = Given(k) /\ Product(k) \in TypeAndSubtype /\ (k # pc => Product(k) # P)
      BY <2>3, <3>1
    <3> PICK M : M = collectionIds(Product(k))'
      OBVIOUS
    <3>3. InOne(x, M)
      <4>1. CASE k = pc
        <5>1. M = collections[out[1]]
          BY <2>1, <2>2, <3>2, <4>1
        <5>2. Shared(x, M)
          BY <1>1, <2>4, <3>2, <4>1, <5>1 DEF ShareInv
        <5>3. QED
          BY <1>1, <5>2 DEF Shared
      <4>2. CASE k # pc
        <5>1. Through(k)
          BY <2>1, <3>1, <4>2 DEF Through
        <5>2. M = collectionIds(Product(k))
          BY <2>2, <3>2, <4>2
        <5>3. QED
          BY <1>1, <2>4, <3>2, <5>1, <5>2 DEF ShareInv
      <4>3. QED
        BY <4>1, <4>2
    <3>4. QED
      BY <1>1, <3>3 DEF InOne, Parents
  <2>5. QED
    BY <1>1, <1>2, <2>4 DEF ShareInv
<1>5. QED
  BY <1>3, <1>4

\* A stage begins with groups that share out what it is given.
LEMMA StartKeepsShare ==
  ASSUME IInv, OriginInv, OrderInv, ShareInv, pc # 0, processEvent, pc' = pc + 1
  PROVE  ShareInv'
<1>1. pc \in 1 .. 7
  BY DEF processEvent, OrderInv, FilledInv
<1>2. CASE pc = 1
  <2>1. /\ stage' = "add" /\ UNCHANGED <<history, failed>>
    BY <1>2 DEF processEvent, AddParticles
  <2>2. QED
    BY <1>2, <2>1 DEF ShareInv, KindInv, Through, AddParticles
<1>3. CASE pc \in 2 .. 7
  <2>1. PICK s, n, g : /\ Begin(s, n, g) /\ n \in {1, 6} /\ s # "ready"
                       /\ pc \in 3 .. 5 => g = {Given(pc + 1)}
                       /\ pc = 6 => g = {Parents(b) : b \in collectionIds("br")}
                       /\ s \in {"build", "simplify"} => pc \in {5, 6}
    <3>1. CASE pc = 2
      <4>1. Begin("simulate", 6, {collectionIds("ps")})
        BY <3>1 DEF processEvent, Simulate, Outputs
      <4>2. QED
        BY <3>1, <4>1
    <3>2. CASE pc = 3
      <4>1. Given(4) = collectionIds("es")
        BY KindsOf DEF Given
      <4>2. QED
        BY <3>2, <4>1 DEF processEvent, mergeClusters
    <3>3. CASE pc = 4
      <4>1. Given(5) = collectionIds("hs")
        BY KindsOf DEF Given
      <4>2. QED
        BY <3>3, <4>1 DEF processEvent, mergeClusters
    <3>4. CASE pc = 5
      <4>1. Given(6) = collectionIds("em") \cup collectionIds("hm") \cup collectionIds("ts")
        BY KindsOf DEF Given, Elements
      <4>2. QED
        BY <3>4, <4>1 DEF processEvent, buildBlocks
    <3>5. CASE pc = 6
      BY <3>5 DEF processEvent, simplifyBlocks
    <3>6. CASE pc = 7
      BY <3>6 DEF processEvent, reconstruct
    <3>7. QED
      BY <1>3, <3>1, <3>2, <3>3, <3>4, <3>5, <3>6
  <2>2. /\ Idle /\ stage = "ready" /\ failed = "no"
        /\ stage' = s /\ collections' = collections \o [j \in 1 .. n |-> {}]
        /\ out' = [j \in 1 .. n |-> Len(collections) + j]
        /\ todo' = g \ {{}} /\ UNCHANGED <<folder, history, failed>>
    BY <2>1 DEF Begin, Idle
  <2>3. collections \in Seq(Pool)
    BY DEF IInv, Shape
  <2>4. [j \in 1 .. n |-> {}] \in Seq({{}}) /\ Len([j \in 1 .. n |-> {}]) = n
    BY <2>1
  <2>5. /\ DOMAIN collections \subseteq DOMAIN collections'
        /\ \A a \in DOMAIN collections : collections'[a] = collections[a]
        /\ collections'[out'[1]] = {}
    BY <2>1, <2>2, <2>3, <2>4
  <2>6. \A ts \in TypeAndSubtype : collectionIds(ts)' = collectionIds(ts)
    BY <2>2, <2>5, OthersStay DEF IInv
  <2>7. \A x : Parents(x)' = Parents(x)
    BY <2>2 DEF Parents
  <2>8. \A k \in 4 .. 7 : Kinds(k) \subseteq TypeAndSubtype /\ Product(k) \in TypeAndSubtype
    <3> TAKE k \in 4 .. 7
    <3>1. k = 4 \/ k = 5 \/ k = 6 \/ k = 7
      OBVIOUS
    <3>2. QED
      BY <3>1, KindsOf DEF Elements, TypeAndSubtype, Clusters
  <2>9. \A k \in 4 .. 7 : Given(k)' = Given(k) /\ collectionIds(Product(k))' = collectionIds(Product(k))
    BY <2>6, <2>8 DEF Given
  <2>10. \A k \in 4 .. 7 : Through(k)' => Through(k)
    BY <1>3, <2>1, <2>2 DEF Through
  <2>11. ASSUME NEW k \in 4 .. 7, Through(k)', NEW x \in Given(k)'
         PROVE  InOne(x, collectionIds(Product(k)))'
    <3>1. InOne(x, collectionIds(Product(k)))
      BY <2>2, <2>9, <2>10, <2>11 DEF ShareInv
    <3>2. QED
      BY <2>7, <2>9, <3>1 DEF InOne
  <2>12. KindInv'
    <3>1. ASSUME stage' \in {"build", "simplify"}, NEW h \in todo', NEW x \in h
          PROVE  x.ts \in Elements
      <4>1. CASE pc = 5
        <5>1. x \in Given(6)
          BY <2>1, <2>2, <3>1, <4>1
        <5>2. PICK ts \in Elements : x \in collectionIds(ts)
          BY <5>1, KindsOf DEF Given
        <5>3. ts \in TypeAndSubtype
          BY DEF Elements, TypeAndSubtype, Clusters
        <5>4. QED
          BY <5>2, <5>3, CollectionObjects
      <4>2. CASE pc = 6
        <5>1. PICK b \in collectionIds("br") : x \in Parents(b)
          BY <2>1, <2>2, <3>1, <4>2
        <5>2. b.ts = "br"
          BY CollectionObjects DEF TypeAndSubtype
        <5>3. PICK link \in history : link[1] = x /\ link[2] = b
          BY <5>1 DEF Parents
        <5>4. QED
          BY <2>2, <5>2, <5>3 DEF ShareInv, KindInv
      <4>3. QED
        BY <2>1, <2>2, <3>1, <4>1, <4>2
    <3>2. QED
      BY <2>2, <3>1 DEF ShareInv, KindInv
  <2>13. ASSUME pc' \in 4 .. 7, NEW x \in Given(pc)'
         PROVE  Shared(x, collections[out[1]])'
    <3>1. x \in Given(pc + 1)
      <4>1. Kinds(pc)' = Kinds(pc + 1)
        BY Zenon DEF Kinds
      <4>2. pc + 1 \in 4 .. 7
        BY <2>13
      <4>3. Kinds(pc + 1) \subseteq TypeAndSubtype
        BY <2>8, <4>2
      <4>4. QED
        BY <2>6, <2>13, <4>1, <4>3 DEF Given
    <3>2. \A c \in collections'[out'[1]] : x \notin Parents(c)'
      BY <2>5
    <3>3. \E h \in todo' : x \in h /\ \A m \in todo' : x \in m => m = h
      <4>1. CASE pc \in 3 .. 5
        BY <2>1, <2>2, <3>1, <4>1
      <4>2. CASE pc = 6
        <5>1. Given(6) = Given(7)
          BY KindsOf DEF Given
        <5>2. Through(6)
          BY <2>2, <4>2 DEF Through
        <5>3. InOne(x, collectionIds("br"))
          BY <2>2, <3>1, <4>2, <5>1, <5>2, KindsOf DEF ShareInv
        <5>4. PICK c \in collectionIds("br") :
                x \in Parents(c) /\ \A d \in collectionIds("br") : x \in Parents(d) => d = c
          BY <5>3 DEF InOne
        <5>5. Parents(c) \in todo'
          BY <2>1, <2>2, <4>2, <5>4
        <5>6. \A m \in todo' : x \in m => m = Parents(c)
          BY <2>1, <2>2, <4>2, <5>4
        <5>7. QED
          BY <5>4, <5>5, <5>6
      <4>3. QED
        BY <1>3, <2>13, <4>1, <4>2
    <3>4. QED
      BY <3>2, <3>3 DEF Shared
  <2>14. QED
    BY <2>11, <2>12, <2>13 DEF ShareInv
<1>4. QED
  BY <1>1, <1>2, <1>3

LEMMA HistoryOfIdle ==
  ASSUME IInv, failed = "no", stage = "ready"
  PROVE  \A link \in history : hasObject(link[1]) /\ hasObject(link[2])
BY DEF IInv, StageInv, LinkInv, Present

LEMMA ClearKeepsShare ==
  ASSUME clear, pc' \in {0, 1}
  PROVE  ShareInv'
<1>1. history' = {} /\ stage' = "ready"
  BY DEF clear
<1>2. QED
  BY <1>1 DEF ShareInv, KindInv, Through

LEMMA ProcessKeepsShare == ASSUME IInv, OriginInv, OrderInv, ShareInv, process PROVE ShareInv'
<1>1. CASE pc # 0 /\ processEvent /\ pc' = pc + 1
  BY <1>1, StartKeepsShare
<1>2. CASE StageStep /\ UNCHANGED pc
  <2>1. CASE MakeNothing
    BY <1>2, <2>1, SameKeepsShare DEF MakeNothing, eventVars
  <2>2. QED
    BY <1>2, <2>1, SimulateKeepsShare, MergeKeepsShare, MakeBlockKeepsShare,
       MakeParticleKeepsShare, FinishKeepsShare DEF StageStep
<1>3. CASE EndEvent
  <2>1. stage = "ready"
    BY <1>3 DEF EndEvent, Idle, IInv, StageInv
  <2>2. QED
    BY <1>3, <2>1, SameKeepsShare DEF EndEvent, vars, eventVars
<1>4. QED
  BY <1>1, <1>2, <1>3 DEF process, ContinueEvent

LEMMA StepKeepsShare ==
  IInv /\ OriginInv /\ NumberInv /\ OrderInv /\ ShareInv /\ [ProgStep]_allVars => ShareInv'
<1> SUFFICES ASSUME IInv, OriginInv, NumberInv, OrderInv, ShareInv, [ProgStep]_allVars
             PROVE  ShareInv'
  OBVIOUS
<1> USE DEF vars, eventVars
<1>1. ASSUME NEW found \in BOOLEAN, readEvent(found) PROVE ShareInv'
  <2>1. CASE found
    BY <1>1, <2>1, ClearKeepsShare DEF readEvent, StartEvent, processEvent
  <2>2. CASE ~found
    BY <1>1, <2>2, SameKeepsShare DEF readEvent, loopVars
  <2>3. QED
    BY <2>1, <2>2
<1>2. CASE process
  BY <1>2, ProcessKeepsShare
<1>3. CASE processed \/ writeParticlesROOT \/ displayEvent
  BY <1>3, SameKeepsShare DEF processed, writeParticlesROOT, displayEvent, loopVars
<1>4. CASE clearManager
  <2>1. clear /\ pc' = 0
    BY <1>4 DEF clearManager, NumberInv
  <2>2. QED
    BY <2>1, ClearKeepsShare
<1>5. CASE UNCHANGED allVars
  BY <1>5, SameKeepsShare DEF allVars, loopVars
<1>6. QED
  BY <1>1, <1>2, <1>3, <1>4, <1>5 DEF ProgStep

\* What is above a block: its elements, the clusters that they were merged from,
\* and what there was before the detector was smeared.
LEMMA AboveABlock ==
  ASSUME IInv, OriginInv, OrderInv, ShareInv, failed = "no",
         NEW b \in collectionIds("bs"), NEW id \in Object, id.ts \in {"es", "hs", "ts"}
  PROVE  id \in linkedIds(b) <=> \/ id.ts = "ts" /\ id \in Parents(b)
                                 \/ id.ts # "ts" /\ \E c \in Parents(b) : id \in Parents(c)
<1>1. b.ts = "bs" /\ b \in Object
  BY CollectionObjects DEF TypeAndSubtype
<1>2. KindInv /\ RanksRise
  BY NoneIsDoomed DEF ShareInv, OriginInv
<1>3. ASSUME NEW x \in Object, NEW q \in Parents(x)
      PROVE  /\ q \in Object /\ Rank[q.ts] < Rank[x.ts]
             /\ x.ts = "em" => q.ts = "es"
             /\ x.ts = "hm" => q.ts = "hs"
             /\ x.ts \in {"br", "bs"} => q.ts \in Elements
             /\ x.ts = "ts" => q.ts = "tt"
  <2>1. PICK link \in history : link[1] = q /\ link[2] = x
    BY DEF Parents
  <2>2. q \in Object
    BY ParentsArePresent
  <2>3. QED
    BY <1>2, <2>1, <2>2 DEF KindInv, RanksRise
<1>4. \A x \in Object : Rank[x.ts] \in 0 .. 5
  BY Ranks DEF Object
<1>5. \A c \in Parents(b) : c \in Object /\ c.ts \in Elements
  BY <1>1, <1>3
<1>6. \A c \in Parents(b) : \A d \in Parents(c) :
        /\ d \in Object /\ d.ts \in {"es", "hs", "tt"}
        /\ c.ts = "ts" => d.ts = "tt"
  BY <1>3, <1>5 DEF Elements
<1> DEFINE Low == {x \in Object : Rank[x.ts] < 2}
           C == {b} \cup Parents(b) \cup (UNION {Parents(c) : c \in Parents(b)}) \cup Low
<1>7. \A x \in C : Parents(x) \subseteq C
  <2> SUFFICES ASSUME NEW x \in C, NEW q \in Parents(x) PROVE q \in C
    OBVIOUS
  <2>1. CASE x = b \/ x \in Parents(b)
    BY <2>1
  <2>2. CASE x \in UNION {Parents(c) : c \in Parents(b)} \/ x \in Low
    <3>1. x \in Object /\ Rank[x.ts] <= 2
      BY <1>4, <1>6, <2>2, Ranks
    <3>2. q \in Object /\ Rank[q.ts] < Rank[x.ts]
      BY <1>3, <3>1
    <3>3. Rank[q.ts] < 2
      BY <1>4, <3>1, <3>2
    <3>4. QED
      BY <3>2, <3>3
  <2>3. QED
    BY <2>1, <2>2
<1>8. linkedIds(b) \subseteq C
  <2> HIDE DEF C
  <2>1. b \in C
    BY DEF C
  <2>2. QED
    BY <1>7, <2>1, LinkedWithin
<1>9. ASSUME id \in linkedIds(b)
      PROVE  \/ id.ts = "ts" /\ id \in Parents(b)
             \/ id.ts # "ts" /\ \E c \in Parents(b) : id \in Parents(c)
  <2>1. id \notin Low /\ id # b
    BY <1>1, Ranks
  <2>2. id \in Parents(b) \/ \E c \in Parents(b) : id \in Parents(c)
    BY <1>8, <1>9, <2>1
  <2>3. QED
    BY <1>5, <1>6, <2>2 DEF Elements
<1>10. QED
  BY <1>9, LinkedHolds

\* A smeared track or cluster goes into one and only one simplified block.
THEOREM DepositsAreShared == ProgSpec => []EachDepositInOneBlock
<1> DEFINE I == SoundInv /\ OriginInv /\ ShareInv
<1>1. ProgInit => I
  <2>1. ProgInit => Init /\ pc = 0
    BY DEF ProgInit, LoopInit
  <2>2. Init /\ pc = 0 => ShareInv
    BY DEF Init, EventInit, ShareInv, KindInv, Through
  <2>3. ProgInit => SoundInv
    BY InitHolds, InitNumberInv, InitOrderInv DEF SoundInv, ProgInit, LoopInit
  <2>4. QED
    BY <2>1, <2>2, <2>3, InitOrigin
<1>2. I /\ [ProgStep]_allVars => I'
  BY StepIsOfManager, NextKeeps, NextKeepsOrigin, StepKeeps, StepKeepsOrder, StepKeepsShare
     DEF SoundInv
<1>3. I => EachDepositInOneBlock
  <2> SUFFICES ASSUME I, pc = 8, Idle, NEW ts \in {"es", "hs", "ts"}, NEW id \in collectionIds(ts)
               PROVE  Cardinality(BlocksOf(id)) = 1
    BY DEF EachDepositInOneBlock
  <2>1. IInv /\ OriginInv /\ OrderInv /\ ShareInv /\ failed = "no" /\ stage = "ready"
    BY DEF SoundInv, Idle
  <2>2. id \in Object /\ id.ts = ts
    BY <2>1, CollectionObjects DEF TypeAndSubtype, Clusters
  <2>3. \A b \in collectionIds("bs") :
          id \in linkedIds(b) <=> \/ id.ts = "ts" /\ id \in Parents(b)
                                  \/ id.ts # "ts" /\ \E c \in Parents(b) : id \in Parents(c)
    BY <2>1, <2>2, AboveABlock
  <2>4. \A k \in 4 .. 7 : \A x \in Given(k) : InOne(x, collectionIds(Product(k)))
    BY <2>1 DEF ShareInv, Through
  <2>5. \A t \in Elements : \A x \in collectionIds(t) : InOne(x, collectionIds("bs"))
    <3>1. \A t \in Elements : collectionIds(t) \subseteq Given(7)
      BY KindsOf DEF Given
    <3>2. QED
      BY <2>4, <3>1, KindsOf
  <2>6. \E b : BlocksOf(id) = {b}
    <3>1. CASE ts = "ts"
      <4>1. InOne(id, collectionIds("bs"))
        BY <2>5, <3>1 DEF Elements
      <4>2. QED
        BY <2>2, <2>3, <3>1, <4>1 DEF InOne, BlocksOf
    <3>2. CASE ts \in {"es", "hs"}
      <4> PICK m \in {"em", "hm"} : m = IF ts = "es" THEN "em" ELSE "hm"
        OBVIOUS
      <4>1. InOne(id, collectionIds(m))
        <5>1. CASE ts = "es"
          <6>1. id \in Given(4)
            BY <5>1, KindsOf DEF Given
          <6>2. QED
            BY <2>4, <5>1, <6>1, KindsOf
        <5>2. CASE ts = "hs"
          <6>1. id \in Given(5)
            BY <5>2, KindsOf DEF Given
          <6>2. QED
            BY <2>4, <5>2, <6>1, KindsOf
        <5>3. QED
          BY <3>2, <5>1, <5>2
      <4>2. PICK c \in collectionIds(m) :
              id \in Parents(c) /\ \A d \in collectionIds(m) : id \in Parents(d) => d = c
        BY <4>1 DEF InOne
      <4>3. InOne(c, collectionIds("bs"))
        BY <2>5 DEF Elements
      <4>4. PICK b \in collectionIds("bs") :
              c \in Parents(b) /\ \A e \in collectionIds("bs") : c \in Parents(e) => e = b
        BY <4>3 DEF InOne
      <4>5. ASSUME NEW e \in collectionIds("bs"), NEW d \in Parents(e), id \in Parents(d)
            PROVE  d = c
        <5>1. e.ts = "bs"
          BY <2>1, CollectionObjects DEF TypeAndSubtype
        <5>2. PICK up \in history : up[1] = d /\ up[2] = e
          BY DEF Parents
        <5>3. PICK link \in history : link[1] = id /\ link[2] = d
          BY <4>5 DEF Parents
        <5>4. d.ts \in Elements
          BY <2>1, <5>1, <5>2 DEF ShareInv, KindInv
        <5>5. d.ts = "ts" => id.ts = "tt"
          BY <2>1, <5>3, NoneIsDoomed DEF OriginInv, RanksRise
        <5>6. d.ts = m
          BY <2>1, <2>2, <3>2, <5>3, <5>4, <5>5 DEF ShareInv, KindInv, Elements
        <5>7. d \in collectionIds(m)
          <6>1. hasObject(d)
            BY <2>1, <5>3, HistoryOfIdle
          <6>2. QED
            BY <5>6, <6>1 DEF hasObject
        <5>8. QED
          BY <4>2, <4>5, <5>7
      <4>6. BlocksOf(id) = {b}
        <5>1. \A e \in collectionIds("bs") : id \in linkedIds(e) <=> e = b
          BY <2>2, <2>3, <3>2, <4>2, <4>4, <4>5
        <5>2. QED
          BY <5>1 DEF BlocksOf
      <4>7. QED
        BY <4>6
    <3>3. QED
      BY <3>1, <3>2
  <2>7. QED
    BY <2>6, FS_Singleton
<1> HIDE DEF I
<1>4. QED
  BY <1>1, <1>2, <1>3, PTL DEF ProgSpec
-----------------------------------------------------------------------------
\* The projections in which the detector is drawn, those of PFApp among them.
SideViews == {"xy", "yz", "xz"}

LEMMA OneAndTwo == Cardinality({0}) = 1 /\ Cardinality({0} \cup {2}) = 2
<1>1. IsFiniteSet({0}) /\ Cardinality({0}) = 1
  BY FS_Singleton
<1>2. Cardinality({0} \cup {2}) = Cardinality({0}) + 1
  BY <1>1, FS_AddElement
<1>3. QED
  BY <1>1, <1>2

\* A window shows the detector first, and the event over it.
LEMMA DisplayPaints ==
  ASSUME Views \subseteq SideViews, NEW particles, NEW clusters, display(particles, clusters)
  PROVE  \A v \in Views : /\ v \in DOMAIN canvas' /\ canvas'[v] # <<>>
                          /\ Head(canvas'[v]) = {Detector}
                          /\ Shown(v)' = {Detector} \cup particles \cup clusters
<1> PICK ids : ids = particles \cup clusters
  OBVIOUS
<1> SUFFICES ASSUME NEW v \in Views
             PROVE  /\ v \in DOMAIN canvas' /\ canvas'[v] # <<>>
                    /\ Head(canvas'[v]) = {Detector}
                    /\ Shown(v)' = {Detector} \cup ids
  OBVIOUS
<1>1. /\ DOMAIN register' = Views /\ canvas' = Drawn(NewCanvas, register')
      /\ register'[v] = ({Detector} \X {0}) \cup (ids \X {2})
  BY DEF display, drawEvent, addToRegister, NewRegister
<1> PICK reg : reg = register'[v]
  OBVIOUS
<1> DEFINE layers == {pair[2] : pair \in reg}
           rank(l) == Cardinality({k \in layers : k <= l})
           f == [n \in DOMAIN ByLayer(reg) |-> DrawnIn(ByLayer(reg)[n], v)]
<1>2. v \in DOMAIN canvas' /\ canvas'[v] = <<>> \o f
  BY <1>1 DEF Drawn, NewCanvas
<1>3. \A pair : pair \in reg <=> \/ pair = <<Detector, 0>>
                                 \/ \E id \in ids : pair = <<id, 2>>
  BY <1>1
<1>4. layers = IF ids = {} THEN {0} ELSE {0, 2}
  <2>1. <<Detector, 0>> \in reg /\ \A id \in ids : <<id, 2>> \in reg
    BY <1>3
  <2>2. 0 \in layers
    <3>1. <<Detector, 0>>[2] = 0
      OBVIOUS
    <3>2. QED
      BY <2>1, <3>1
  <2>3. ids # {} => 2 \in layers
    <3> SUFFICES ASSUME NEW id \in ids PROVE 2 \in layers
      OBVIOUS
    <3>1. <<id, 2>>[2] = 2
      OBVIOUS
    <3>2. QED
      BY <2>1, <3>1
  <2>4. \A l \in layers : l = 0 \/ (l = 2 /\ ids # {})
    BY <1>3
  <2> HIDE DEF layers
  <2>5. QED
    BY <2>2, <2>3, <2>4
<1> HIDE DEF layers
<1>5. rank(0) = 1 /\ (ids # {} => rank(2) = 2)
  <2>1. {k \in layers : k <= 0} = {0}
    BY <1>4
  <2>2. ids # {} => {k \in layers : k <= 2} = {0} \cup {2}
    BY <1>4
  <2>3. Cardinality({0}) = 1 /\ Cardinality({0} \cup {2}) = 2
    BY OneAndTwo
  <2>4. QED
    BY <2>1, <2>2, <2>3
<1>6. Cardinality(layers) = IF ids = {} THEN 1 ELSE 2
  <2>1. layers = IF ids = {} THEN {0} ELSE {0} \cup {2}
    BY <1>4
  <2>2. Cardinality({0}) = 1 /\ Cardinality({0} \cup {2}) = 2
    BY OneAndTwo
  <2>3. QED
    BY <2>1, <2>2
<1>7. ByLayer(reg) = [n \in 1 .. Cardinality(layers) |-> {pair[1] : pair \in {q \in reg : rank(q[2]) = n}}]
  BY DEF ByLayer, layers
<1> HIDE DEF rank
<1>8. /\ DOMAIN ByLayer(reg) = 1 .. Cardinality(layers)
      /\ ByLayer(reg)[1] = {Detector}
      /\ ids # {} => ByLayer(reg)[2] = ids
  <2>1. {q \in reg : rank(q[2]) = 1} = {<<Detector, 0>>}
    <3>1. \A q \in reg : rank(q[2]) = 1 <=> q = <<Detector, 0>>
      BY <1>3, <1>5
    <3>2. QED
      BY <1>3, <3>1
  <2>2. ids # {} => \A q \in reg : rank(q[2]) = 2 <=> \E id \in ids : q = <<id, 2>>
    BY <1>3, <1>5
  <2>3. ids # {} => {pair[1] : pair \in {q \in reg : rank(q[2]) = 2}} = ids
    <3> SUFFICES ASSUME ids # {} PROVE {pair[1] : pair \in {q \in reg : rank(q[2]) = 2}} = ids
      OBVIOUS
    <3>1. \A id \in ids : <<id, 2>> \in {q \in reg : rank(q[2]) = 2} /\ <<id, 2>>[1] = id
      BY <1>3, <2>2
    <3>2. \A q \in reg : rank(q[2]) = 2 => q[1] \in ids
      BY <2>2
    <3>3. QED
      BY <3>1, <3>2
  <2>4. {pair[1] : pair \in {<<Detector, 0>>}} = {Detector}
    OBVIOUS
  <2>5. 1 \in 1 .. Cardinality(layers) /\ (ids # {} => 2 \in 1 .. Cardinality(layers))
    BY <1>6
  <2>6. QED
    BY <1>7, <2>1, <2>3, <2>4, <2>5
<1>9. \A drawables : DrawnIn(drawables, v) = drawables
  BY DEF DrawnIn, SideViews
<1>10. CASE ids = {}
  <2>1. f = <<{Detector}>>
    <3>1. DOMAIN f = 1 .. 1 /\ f[1] = {Detector}
      BY <1>6, <1>8, <1>9, <1>10
    <3>2. f = [n \in 1 .. 1 |-> f[n]]
      BY <3>1
    <3> HIDE DEF f
    <3>3. QED
      BY <3>1, <3>2
  <2> HIDE DEF f
  <2>2. canvas'[v] = <<{Detector}>>
    BY <1>2, <2>1
  <2>3. QED
    BY <1>2, <1>10, <2>2 DEF Shown
<1>11. CASE ids # {}
  <2>1. f = <<{Detector}, ids>>
    <3>1. DOMAIN f = 1 .. 2 /\ f[1] = {Detector} /\ f[2] = ids
      BY <1>6, <1>8, <1>9, <1>11
    <3>2. f = [n \in 1 .. 2 |-> f[n]]
      BY <3>1
    <3> HIDE DEF f
    <3>3. QED
      BY <3>1, <3>2
  <2> HIDE DEF f
  <2>2. canvas'[v] = <<{Detector}, ids>>
    BY <1>2, <2>1
  <2>3. DOMAIN canvas'[v] = {1, 2} /\ canvas'[v][1] = {Detector} /\ canvas'[v][2] = ids
    BY <2>2
  <2>4. Shown(v)' = {Detector} \cup ids
    BY <2>3 DEF Shown
  <2>5. QED
    BY <1>2, <2>2, <2>4
<1>12. QED
  BY <1>10, <1>11

\* What is in the windows when the display is through.
Pictured == {Detector} \cup UNION {collectionIds(ts) : ts \in {"ps", "es", "hs"}}

PictureInv ==
  program # "loop" /\ at \in {"clear", "end"} =>
    /\ program = "simple" => at = "end"
    /\ \A v \in Views : /\ v \in DOMAIN canvas /\ canvas[v] # <<>> /\ Head(canvas[v]) = {Detector}
                        /\ program = "simple" => Shown(v) = Pictured

LEMMA StepKeepsPicture ==
  ASSUME Views \subseteq SideViews
  PROVE  SoundInv /\ PictureInv /\ [ProgStep]_allVars => PictureInv'
<1> SUFFICES ASSUME SoundInv, PictureInv, [ProgStep]_allVars PROVE PictureInv'
  OBVIOUS
<1>1. ASSUME NEW found \in BOOLEAN, readEvent(found) PROVE PictureInv'
  BY <1>1 DEF readEvent, PictureInv
<1>2. CASE process
  BY <1>2 DEF process, progVars, PictureInv
<1>3. CASE processed
  <2>1. /\ at = "process" /\ at' = AfterEvent /\ program' = program
        /\ program \in {"simple", "plot", "loop"}
    BY <1>3 DEF processed, SoundInv, NumberInv
  <2>2. program # "loop" => AfterEvent \in {"write", "show"}
    BY <2>1 DEF AfterEvent
  <2>3. QED
    BY <2>1, <2>2 DEF PictureInv
<1>4. CASE writeParticlesROOT
  BY <1>4 DEF writeParticlesROOT, PictureInv
<1>5. CASE displayEvent
  <2>1. /\ display(collectionIds("ps"), collectionIds("es") \cup collectionIds("hs"))
        /\ at' = IF program = "plot" THEN "clear" ELSE "end"
        /\ UNCHANGED <<program, collections, folder>>
    BY <1>5 DEF displayEvent, loopVars, vars, eventVars
  <2>2. Pictured' = {Detector} \cup collectionIds("ps") \cup (collectionIds("es") \cup collectionIds("hs"))
    <3>1. \A ts : collectionIds(ts)' = collectionIds(ts)
      BY <2>1 DEF collectionIds, hasCollection
    <3>2. Pictured' = {Detector} \cup (UNION {collectionIds(ts)' : ts \in {"ps", "es", "hs"}})
      BY DEF Pictured
    <3>3. QED
      BY <3>1, <3>2
  <2>3. \A v \in Views : /\ v \in DOMAIN canvas' /\ canvas'[v] # <<>>
                         /\ Head(canvas'[v]) = {Detector} /\ Shown(v)' = Pictured'
    BY <2>1, <2>2, DisplayPaints
  <2>4. QED
    BY <2>1, <2>3 DEF PictureInv
<1>6. CASE clearManager
  <2>1. /\ at = "clear" /\ at' = IF program = "loop" THEN "read" ELSE "end"
        /\ UNCHANGED <<program, canvas>>
    BY <1>6 DEF clearManager, displayVars
  <2>2. CASE program = "plot"
    BY <2>1, <2>2 DEF PictureInv
  <2>3. CASE program # "plot"
    BY <2>1, <2>3 DEF PictureInv, SoundInv, NumberInv
  <2>4. QED
    BY <2>2, <2>3
<1>7. CASE UNCHANGED allVars
  <2>1. UNCHANGED <<program, at, canvas, collections, folder>>
    BY <1>7 DEF allVars, loopVars, vars, eventVars, displayVars, progVars
  <2>2. \A v : Shown(v)' = Shown(v)
    BY <2>1 DEF Shown
  <2>3. \A ts : collectionIds(ts)' = collectionIds(ts)
    BY <2>1 DEF collectionIds, hasCollection
  <2>4. Pictured' = {Detector} \cup (UNION {collectionIds(ts)' : ts \in {"ps", "es", "hs"}})
    BY DEF Pictured
  <2>5. Pictured' = Pictured
    BY <2>3, <2>4 DEF Pictured
  <2>6. QED
    BY <2>1, <2>2, <2>5 DEF PictureInv
<1>8. QED
  BY <1>1, <1>2, <1>3, <1>4, <1>5, <1>6, <1>7 DEF ProgStep

(***************************************************************************)
(* When example_simple and example_plot end, the windows show the detector *)
(* beneath the event, in the projections from the side, which are those    *)
(* that PFApp asks for: what the drawables show they have copied, and      *)
(* clearing the manager takes nothing away.                                *)
(***************************************************************************)
THEOREM PictureStays ==
  ASSUME Views \subseteq SideViews
  PROVE  ProgSpec => []PictureOutlivesTheEvent
<1>1. ProgInit => PictureInv
  BY DEF ProgInit, PictureInv
<1>2. SoundInv /\ PictureInv /\ [ProgStep]_allVars => PictureInv'
  BY StepKeepsPicture
<1>3. PictureInv => PictureOutlivesTheEvent
  BY DEF PictureInv, PictureOutlivesTheEvent, Pictured
<1>4. QED
  BY <1>1, <1>2, <1>3, ProgramsAreSound, PTL DEF ProgSpec
====
