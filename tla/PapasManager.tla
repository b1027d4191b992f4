----------------------------- MODULE PapasManager -----------------------------
(***************************************************************************)
(* PapasManager (reconstruction/src/PapasManager.cpp) and the stages it    *)
(* runs on the event: simulate, mergeClusters, buildBlocks, simplifyBlocks *)
(* and reconstruct, called in any order.  A stage creates its output       *)
(* collections, fills them object by object while it extends the history,  *)
(* and adds them to the event at the end.  It may be cut short by an       *)
(* exception in between; the caller then drops the event (clear).          *)
(*                                                                         *)
(* What is physics is a choice here: which deposits a particle leaves and  *)
(* which of them are accepted, which clusters and elements are linked,     *)
(* which particles a block gives.                                          *)
(***************************************************************************)
EXTENDS Event

CONSTANT NumParticles      \* bound on the particles generated for an event

ASSUME ManagerAssumption == NumParticles \in Nat

VARIABLES stage,           \* the stage that is running, "ready" between calls
          out,             \* the addresses of the collections it fills
          todo             \* the groups of identifiers it has not dealt with

vars == <<eventVars, stage, out, todo>>

Stages == {"ready", "add", "simulate", "merge", "build", "simplify", "reconstruct"}

TypeOK == /\ EventTypeOK
          /\ stage \in Stages
          /\ out \in Seq(1 .. MaxCollections)
          /\ todo \in SUBSET (SUBSET Id)

Init == EventInit /\ stage = "ready" /\ out = <<>> /\ todo = {}

Idle == stage = "ready" /\ failed = "no"

\* A call: n empty collections are created (createClusters and the like) and
\* passed to the stage s, which has the groups g to deal with.
Begin(s, n, g) ==
  /\ Idle
  /\ Len(collections) + n <= MaxCollections
  /\ stage' = s
  /\ collections' = collections \o [i \in 1 .. n |-> {}]
  /\ out' = [i \in 1 .. n |-> Len(collections) + i]
  /\ todo' = g \ {{}}
  /\ UNCHANGED <<folder, history, failed>>

\* The stage is through: its collections are added to the event.
Finish ==
  /\ stage # "ready" /\ todo = {}
  /\ AddCollections(out)
  /\ stage' = "ready" /\ out' = <<>>
  /\ UNCHANGED <<collections, history, todo>>

\* Mutant of Throw: the collections of the simulation were added beforehand.
ThrowAdded(reason) ==
  /\ failed' = reason
  /\ stage' = "ready" /\ out' = <<>> /\ todo' = {}
  /\ folder' = IF Len(out) # 6 THEN folder
               ELSE [folder EXCEPT !["et"] = out[1], !["es"] = out[3]]

\* An exception leaves the stage: nothing is added, but what was linked stays.
Throw(reason) ==
  /\ failed' = reason
  /\ stage' = "ready" /\ out' = <<>> /\ todo' = {}
  /\ UNCHANGED folder

First(g) == CHOOSE x \in g : \A y \in g : x.index <= y.index

\* Mutant of NewId: the index of a second object is that of the first.
SameId(ts, a) == [ts |-> ts, index |-> 0]

\* An object takes the size of its collection so far as index.
NewId(ts, a) == [ts |-> ts, index |-> Cardinality(collections[a])]

\* addParticles: the caller has filled a collection it got from createParticles.
AddParticles(n) ==
  /\ Idle
  /\ Len(collections) < MaxCollections
  /\ collections' = Append(collections, [ts : {"ps"}, index : 0 .. n - 1])
  /\ stage' = "add" /\ out' = <<Len(collections) + 1>>
  /\ UNCHANGED <<folder, history, failed, todo>>

-----------------------------------------------------------------------------
(***************************************************************************)
(* simulate: the particles one by one, in the order of their energy.       *)
(***************************************************************************)
Outputs == <<"et", "ht", "es", "hs", "tt", "ts">>
Address(ts) == out[CHOOSE i \in DOMAIN Outputs : Outputs[i] = ts]
New(ts) == NewId(ts, Address(ts))

Smeared == [et |-> "es", ht |-> "hs", tt |-> "ts"]
TrueOf == [es |-> "et", hs |-> "ht", ts |-> "tt"]

Simulate == Begin("simulate", Len(Outputs), {collectionIds("ps")})

\* Mutant of Deposit: the smeared object is linked to the particle's track or
\* cluster before it is known to be accepted.
DepositLinkingRejected(p, made) ==
  /\ collections' = [a \in DOMAIN collections |->
                       collections[a] \cup {New(ts) : ts \in {t \in made : Address(t) = a}}]
  /\ history' = history
       \cup {<<p, New(ts)>> : ts \in made \cap DOMAIN Smeared}
       \cup {<<New(ts), New(Smeared[ts])>> : ts \in made \cap DOMAIN Smeared}

\* What particle p leaves behind: a true track or cluster comes from the
\* particle, a smeared one from the true one.  A rejected one leaves no trace.
Deposit(p, made) ==
  /\ collections' = [a \in DOMAIN collections |->
                       collections[a] \cup {New(ts) : ts \in {t \in made : Address(t) = a}}]
  /\ history' = history \cup
       {<<IF ts \in DOMAIN TrueOf THEN New(TrueOf[ts]) ELSE p, New(ts)>> : ts \in made}

Stored(ts) == {{ts}, {ts, Smeared[ts]}}

Simulated(p, made) ==
  /\ stage = "simulate"
  /\ \E g \in todo : p = First(g) /\ todo' = {g \ {p}} \ {{}}
  /\ Deposit(p, made)
  /\ UNCHANGED <<folder, failed, stage, out>>

\* The particle cannot be extrapolated to a calorimeter.
NotExtrapolated(p, made) ==
  /\ stage = "simulate"
  /\ \E g \in todo : p = First(g)
  /\ Deposit(p, made)
  /\ Throw("simulation")

simulatePhoton(p) == \/ \E ecal \in Stored("et") : Simulated(p, ecal)
                     \/ NotExtrapolated(p, {})

\* A track if it is charged; a cluster in the ecal unless it flies through;
\* and always one in the hcal.
simulateHadron(p) ==
  \E track \in {{}} \cup Stored("tt"), ecal \in {{}} \cup Stored("et") :
     \/ \E hcal \in Stored("ht") : Simulated(p, track \cup ecal \cup hcal)
     \/ NotExtrapolated(p, track \cup ecal)

\* Electrons and muons.
simulateLepton(p) == \E track \in Stored("tt") : Simulated(p, track)

\* Neutrinos, charged hadrons of low pt, and what papas does not know.
simulateNothing(p) == Simulated(p, {})

-----------------------------------------------------------------------------
(***************************************************************************)
(* The stages that group objects.  They fill one collection, each new      *)
(* object with links from what it is made of.                              *)
(***************************************************************************)
\* The group whose turn it is.  Which one comes first is left to CHOOSE.
Turn == CHOOSE g \in todo : TRUE

MakeFrom(ts, parents) ==
  LET id == NewId(ts, out[1]) IN
  /\ collections' = [collections EXCEPT ![out[1]] = @ \cup {id}]
  /\ history' = history \cup (parents \X {id})
  /\ UNCHANGED <<folder, failed, stage, out>>

MergedOf == [c \in Clusters |-> IF c \in {"et", "es", "em"} THEN "em" ELSE "hm"]

mergeClusters(ts) == Begin("merge", 1, {collectionIds(ts)})

Merged(c) == Cardinality({p \in Parents(c) : p.ts \in Clusters}) > 1

\* The clusters of S overlap: they become one, unless one of them is a merged
\* cluster already.
MergeGroup(S) ==
  /\ stage = "merge" /\ todo # {}
  /\ S \subseteq Turn /\ First(Turn) \in S
  /\ IF \E c \in S : Merged(c)
     THEN Throw("merge") /\ UNCHANGED <<collections, history>>
     ELSE /\ MakeFrom(MergedOf[First(S).ts], S)
          /\ todo' = (todo \ {Turn}) \cup ({Turn \ S} \ {{}})

buildBlocks(e, h, t) ==
  Begin("build", 1, {collectionIds(e) \cup collectionIds(h) \cup collectionIds(t)})

\* Each block is cut into smaller ones, or copied.
simplifyBlocks(ts) == Begin("simplify", 1, {Parents(b) : b \in collectionIds(ts)})

\* A block of linked elements; links always have a track at one end.
MakeBlock(S) ==
  /\ stage \in {"build", "simplify"} /\ todo # {}
  /\ S \subseteq Turn /\ First(Turn) \in S
  /\ Cardinality(S) = 1 \/ \E id \in S : id.ts \in {"tt", "ts"}
  /\ MakeFrom(IF stage = "build" THEN "br" ELSE "bs", S)
  /\ todo' = (todo \ {Turn}) \cup ({Turn \ S} \ {{}})

reconstruct(ts) ==
  Begin("reconstruct", 1, UNION {{{b, e} : e \in Parents(b)} : b \in collectionIds(ts)})

\* An element of a block gives a particle, alone or with others of the block.
MakeParticle(others) ==
  /\ stage = "reconstruct" /\ todo # {}
  /\ \E b \in Turn : Turn \ {b} \subseteq Parents(b) /\ others \subseteq Parents(b)
  /\ MakeFrom("pr", Turn \cup others)
  /\ todo' = todo \ {Turn}

MakeNothing ==
  /\ stage = "reconstruct" /\ todo # {}
  /\ todo' = todo \ {Turn}
  /\ UNCHANGED <<eventVars, stage, out>>

-----------------------------------------------------------------------------
\* Mutant of clear: the folders keep the addresses of the collections freed.
clearLists ==
  /\ stage = "ready"
  /\ collections' = <<>> /\ history' = {} /\ failed' = "no"
  /\ UNCHANGED <<folder, stage, out, todo>>

\* The caller clears the event before the next, or after an exception.
clear ==
  /\ stage = "ready"
  /\ collections' = <<>> /\ folder' = NoFolder /\ history' = {} /\ failed' = "no"
  /\ UNCHANGED <<stage, out, todo>>

SimulateParticle == \E p \in UNION todo :
  simulatePhoton(p) \/ simulateHadron(p) \/ simulateLepton(p) \/ simulateNothing(p)

StageStep == \/ SimulateParticle
             \/ \E S \in SUBSET UNION todo : MergeGroup(S) \/ MakeBlock(S)
             \/ \E others \in SUBSET UNION {Parents(b) : b \in UNION todo} : MakeParticle(others)
             \/ MakeNothing
             \/ Finish

Call == \/ \E n \in 0 .. NumParticles : AddParticles(n)
        \/ Simulate
        \/ \E ts \in Clusters : mergeClusters(ts)
        \/ \E e \in {"et", "es", "em"}, h \in {"ht", "hs", "hm"}, t \in {"tt", "ts"} :
              buildBlocks(e, h, t)
        \/ \E ts \in {"br", "bs"} : simplifyBlocks(ts) \/ reconstruct(ts)
        \/ clear

Next == Call \/ StageStep

Spec == Init /\ [][Next]_vars
-----------------------------------------------------------------------------
(***************************************************************************)
(* A pointer in a folder leads to a collection that is still owned, is not *)
(* empty, and holds objects of the folder's type and subtype only: Event   *)
(* keeps bare pointers into lists that PapasManager frees.                 *)
(***************************************************************************)
FoldersLeadToCollections ==
  \A ts \in TypeAndSubtype : hasCollection(ts) =>
     /\ folder[ts] \in DOMAIN collections
     /\ collections[folder[ts]] # {}
     /\ \A id \in collections[folder[ts]] : id.ts = ts

(***************************************************************************)
(* Between two calls, and unless a stage was cut short, both ends of each  *)
(* link of the history are objects of the event.  HistoryHelper's users    *)
(* (isFromParticle, the display) look up in the event what they find in    *)
(* the history, and at() throws when it is not there.                      *)
(***************************************************************************)
HistoryIsOfTheEvent ==
  Idle => \A link \in history : hasObject(link[1]) /\ hasObject(link[2])

\* HistoryHelper::linkedIds in the direction of the parents.  There are six links
\* from a reconstructed particle up to the generated one.
linkedIds(id) ==
  LET up[n \in 0 .. 6] == IF n = 0 THEN {id}
                          ELSE LET nearer == up[n - 1]
                               IN nearer \cup UNION {Parents(a) : a \in nearer}
  IN up[6]

filteredIds(ids, ts) == {id \in ids : id.ts = ts}

\* What PFReconstructor::isFromParticle looks at.
Origins(id) == filteredIds(linkedIds(id), "ps")

(***************************************************************************)
(* Each object of the event comes from a generated particle, and a track   *)
(* from exactly one: isFromParticle tells a muon or electron track by the  *)
(* 'ps' particles above it.                                                *)
(***************************************************************************)
EachObjectHasAnOrigin ==
  Idle => \A ts \in TypeAndSubtype : \A id \in collectionIds(ts) :
     /\ Origins(id) # {}
     /\ ts \in {"tt", "ts"} => Cardinality(Origins(id)) = 1

(***************************************************************************)
(* What is in a folder stays there and does not change, whatever stages    *)
(* are run again, until the event is cleared: references to the objects    *)
(* are held by merged clusters, the display and the callers.               *)
(***************************************************************************)
RegisteredStays ==
  [][\/ clear
     \/ \A ts \in TypeAndSubtype : hasCollection(ts) =>
          folder'[ts] = folder[ts] /\ collections'[folder[ts]] = collections[folder[ts]]]_vars
=============================================================================
