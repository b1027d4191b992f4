-------------------------- MODULE PapasManagerProofs --------------------------
(***************************************************************************)
(* What PapasManager and its stages keep true of an event, for every       *)
(* number of particles, collections and calls: its folders can be          *)
(* followed, what they hold stays, its history names objects it has, and   *)
(* each object comes from a generated particle.                            *)
(***************************************************************************)
EXTENDS PapasManager, FiniteSetTheorems, WellFoundedInduction, Functions, TLAPS

\* Identifiers without the bound on their index, and what a collection may hold.
Object == [ts : TypeAndSubtype, index : Nat]
Pool == {S \in SUBSET Object : IsFiniteSet(S)}

Shape == /\ collections \in Seq(Pool)
         /\ folder \in [TypeAndSubtype -> Nat]
         /\ history \in SUBSET (Object \X Object)
         /\ stage \in Stages
         /\ out \in Seq(Nat)
         /\ todo \in SUBSET (SUBSET Object)

\* The collections that a stage fills are its own, and it does not run in an
\* event that is to be dropped.
StageInv ==
  /\ \A i \in DOMAIN out : out[i] \in DOMAIN collections
  /\ \A i, j \in DOMAIN out : out[i] = out[j] => i = j
  /\ stage = "ready" => out = <<>> /\ todo = {}
  /\ stage # "ready" => failed = "no"
  /\ stage = "simulate" =>
       /\ Len(out) = 6
       /\ \A i \in 1 .. 6 : \A id \in collections[out[i]] : id.ts = Outputs[i]
  /\ stage \notin {"ready", "simulate"} => Len(out) = 1
  /\ stage = "merge" => \A g \in todo : \A id \in g : id.ts \in Clusters

\* Nor does it fill a collection that is in a folder already.
FolderInv ==
  /\ FoldersLeadToCollections
  /\ \A ts \in TypeAndSubtype : hasCollection(ts) => \A i \in DOMAIN out : folder[ts] # out[i]

\* Both ends of a link are in the event, or in a collection that is about to be
\* added to it; the groups of a stage are of objects of the event.
Present(id) == hasObject(id) \/ \E i \in DOMAIN out : id \in collections[out[i]]

LinkInv == failed = "no" => /\ \A link \in history : Present(link[1]) /\ Present(link[2])
                            /\ \A g \in todo : \A id \in g : hasObject(id)

IInv == Shape /\ StageInv /\ FolderInv /\ LinkInv

\* What RegisteredStays says of a step other than clear.
Held == \A ts \in TypeAndSubtype : hasCollection(ts) =>
          folder'[ts] = folder[ts] /\ collections'[folder[ts]] = collections[folder[ts]]
-----------------------------------------------------------------------------
\* Every set of numbers that is not empty has a least one.
LEMMA LeastNat ==
  ASSUME NEW T \in SUBSET Nat, T # {}
  PROVE  \E n \in T : \A m \in T : n <= m
<1> DEFINE R == OpToRel(<, Nat)
<1>1. IsWellFoundedOn(R, Nat)
  BY NatLessThanWellFounded, Zenon
<1>2. PICK n \in T : \A m \in T : ~(<<m, n>> \in R)
  <2> HIDE DEF R
  <2> QED BY <1>1, WFMin
<1>3. \A m \in T : n <= m
  <2> SUFFICES ASSUME NEW m \in T, m < n PROVE FALSE
    OBVIOUS
  <2>1. <<m, n>> \in R
    BY DEF OpToRel
  <2> QED BY <2>1, <1>2, Zenon
<1> QED BY <1>3

\* So does a group of objects, and First finds it.
LEMMA FirstIsInGroup ==
  ASSUME NEW g \in SUBSET Object, g # {}
  PROVE  First(g) \in g
<1> DEFINE T == {x.index : x \in g}
<1>1. T \in SUBSET Nat /\ T # {}
  BY DEF Object
<1>2. PICK n \in T : \A m \in T : n <= m
  <2> HIDE DEF T
  <2> QED BY <1>1, LeastNat
<1>3. \E x \in g : \A y \in g : x.index <= y.index
  BY <1>2
<1> QED BY <1>3 DEF First

\* The image of a finite set is finite.
LEMMA FiniteImage ==
  ASSUME NEW S, IsFiniteSet(S), NEW T, NEW f \in [S -> T], \A t \in T : \E s \in S : f[s] = t
  PROVE  IsFiniteSet(T)
BY FS_Surjection DEF Surjection

\* How collections grow.
LEMMA Sizes ==
  ASSUME NEW c \in Pool, NEW d \in Pool, c \subseteq d
  PROVE  /\ Cardinality(c) \in Nat /\ Cardinality(d) \in Nat
         /\ Cardinality(c) <= Cardinality(d)
         /\ \A id \in d : d = c \cup {id} /\ id \notin c => Cardinality(d) = Cardinality(c) + 1
BY FS_Subset, FS_CardinalityType, FS_AddElement DEF Pool

\* What a sequence is after Append.
LEMMA Appended ==
  ASSUME NEW S, NEW seq \in Seq(S), NEW elt
  PROVE  /\ DOMAIN Append(seq, elt) = 1 .. Len(seq) + 1
         /\ \A a \in DOMAIN seq : Append(seq, elt)[a] = seq[a]
         /\ Append(seq, elt)[Len(seq) + 1] = elt
<1>1. seq \in Seq(S \cup {elt}) /\ elt \in S \cup {elt}
  OBVIOUS
<1>2. QED
  BY <1>1

\* A collection whose objects are of two types is refused.
LEMMA MixedIsRefused ==
  ASSUME NEW c \in Pool, NEW a \in c, NEW b \in c, a.ts # b.ts
  PROVE  Refused(c) # "no"
<1> DEFINE T == {id.ts : id \in c}
           f == [id \in c |-> id.ts]
<1>1. IsFiniteSet(T)
  <2>1. f \in [c -> T] /\ \A t \in T : \E s \in c : f[s] = t
    OBVIOUS
  <2>2. IsFiniteSet(c)
    BY DEF Pool
  <2> HIDE DEF T, f
  <2> QED BY <2>1, <2>2, FiniteImage
<1>2. IsFiniteSet({a.ts}) /\ Cardinality({a.ts}) = 1
  BY FS_Singleton
<1>3. Cardinality({a.ts} \cup {b.ts}) = 2
  BY <1>2, FS_AddElement
<1>4. {a.ts} \cup {b.ts} \in SUBSET T
  OBVIOUS
<1>5. Cardinality({a.ts} \cup {b.ts}) <= Cardinality(T) /\ Cardinality(T) \in Nat
  <2> HIDE DEF T
  <2> QED BY <1>1, <1>4, FS_Subset, FS_CardinalityType
<1>6. Cardinality(T) > 1
  <2> HIDE DEF T
  <2> QED BY <1>3, <1>5
<1> QED BY <1>6 DEF Refused

\* What addCollectionToFolder does not throw at is of one type that has no folder.
LEMMA AcceptedIsOfOneType ==
  ASSUME NEW c \in Pool, Refused(c) = "no"
  PROVE  /\ \A a, b \in c : a.ts = b.ts
         /\ \A id \in c : ~hasCollection(id.ts)
BY MixedIsRefused DEF Refused
-----------------------------------------------------------------------------
\* A stage that fills its own collections leaves those in the folders alone.
LEMMA OthersStay ==
  ASSUME Shape, FolderInv, folder' = folder,
         DOMAIN collections \subseteq DOMAIN collections',
         \A a \in DOMAIN collections :
            (\A i \in DOMAIN out : out[i] # a) => collections'[a] = collections[a]
  PROVE  /\ FoldersLeadToCollections'
         /\ \A ts \in TypeAndSubtype : collectionIds(ts)' = collectionIds(ts)
         /\ Held
<1>1. \A ts \in TypeAndSubtype : hasCollection(ts) =>
         /\ folder[ts] \in DOMAIN collections
         /\ collections'[folder[ts]] = collections[folder[ts]]
  BY DEF FolderInv, FoldersLeadToCollections
<1>2. \A ts \in TypeAndSubtype : hasCollection(ts)' = hasCollection(ts)
  BY DEF hasCollection
<1>3. FoldersLeadToCollections'
  BY <1>1, <1>2 DEF FolderInv, FoldersLeadToCollections
<1>4. \A ts \in TypeAndSubtype : collectionIds(ts)' = collectionIds(ts)
  BY <1>1, <1>2 DEF collectionIds
<1> QED BY <1>1, <1>3, <1>4 DEF Held

\* The object that is stored next in a collection.
LEMMA NewIdType ==
  ASSUME Shape, NEW ts \in TypeAndSubtype, NEW a \in DOMAIN collections
  PROVE  NewId(ts, a) \in Object /\ NewId(ts, a).ts = ts
<1>1. collections[a] \in Pool
  BY DEF Shape
<1>2. Cardinality(collections[a]) \in Nat
  BY <1>1, FS_CardinalityType DEF Pool
<1> QED BY <1>2 DEF NewId, Object

LEMMA PoolGrows ==
  ASSUME NEW c \in Pool, NEW id \in Object
  PROVE  c \cup {id} \in Pool
BY FS_AddElement DEF Pool

\* What one object adds to the event: MakeFrom, in the stages with one collection.
LEMMA MakeFromKeeps ==
  ASSUME IInv, stage \notin {"ready", "simulate"},
         NEW ts \in TypeAndSubtype, NEW parents \in SUBSET Object,
         \A q \in parents : Present(q),
         MakeFrom(ts, parents),
         todo' \in SUBSET (SUBSET Object),
         \A g \in todo' : \A id \in g : \E h \in todo : id \in h
  PROVE  IInv' /\ Held
<1> PICK made : made = NewId(ts, out[1])
  OBVIOUS
<1>1. /\ Len(out) = 1 /\ DOMAIN out = {1} /\ out[1] \in DOMAIN collections
      /\ DOMAIN collections = 1 .. Len(collections)
  BY DEF IInv, Shape, StageInv
<1>2. made \in Object
  BY <1>1, NewIdType DEF IInv
<1>3. /\ collections' = [collections EXCEPT ![out[1]] = @ \cup {made}]
      /\ history' = history \cup (parents \X {made})
      /\ UNCHANGED <<folder, failed, stage, out>>
  BY DEF MakeFrom
<1>4. collections[out[1]] \cup {made} \in Pool
  BY <1>1, <1>2, PoolGrows DEF IInv, Shape
<1>5. collections' \in Seq(Pool) /\ DOMAIN collections' = DOMAIN collections
  BY <1>1, <1>3, <1>4 DEF IInv, Shape
<1>6. /\ collections'[out[1]] = collections[out[1]] \cup {made}
      /\ \A a \in DOMAIN collections : a # out[1] => collections'[a] = collections[a]
  BY <1>1, <1>3 DEF IInv, Shape
<1>7. Shape'
  BY <1>2, <1>3, <1>5 DEF IInv, Shape
<1>8. StageInv'
  BY <1>1, <1>3, <1>5 DEF IInv, StageInv
<1>9. /\ FoldersLeadToCollections'
      /\ \A t \in TypeAndSubtype : collectionIds(t)' = collectionIds(t)
      /\ Held
  BY <1>1, <1>3, <1>5, <1>6, OthersStay DEF IInv
<1>10. FolderInv'
  BY <1>3, <1>9 DEF IInv, FolderInv, hasCollection
<1>11. \A x \in Object : hasObject(x)' = hasObject(x)
  BY <1>9 DEF hasObject, Object
<1>12. \A x \in Object : Present(x) => Present(x)'
  BY <1>1, <1>3, <1>6, <1>11 DEF Present
<1>13. Present(made)'
  BY <1>1, <1>3, <1>6 DEF Present
<1>14. LinkInv'
  <2> SUFFICES ASSUME failed = "no"
               PROVE  /\ \A link \in history' : Present(link[1])' /\ Present(link[2])'
                      /\ \A g \in todo' : \A x \in g : hasObject(x)'
    BY <1>3 DEF LinkInv
  <2>1. \A link \in history' : Present(link[1])' /\ Present(link[2])'
    <3> SUFFICES ASSUME NEW link \in history' PROVE Present(link[1])' /\ Present(link[2])'
      OBVIOUS
    <3>1. CASE link \in history
      <4>1. link[1] \in Object /\ link[2] \in Object
        BY <3>1 DEF IInv, Shape
      <4>2. Present(link[1]) /\ Present(link[2])
        BY <3>1 DEF IInv, LinkInv
      <4> QED BY <4>1, <4>2, <1>12
    <3>2. CASE link \in parents \X {made}
      <4>1. link[1] \in parents /\ link[2] = made
        BY <3>2
      <4>2. link[1] \in Object /\ Present(link[1])
        BY <4>1
      <4>3. Present(link[1])'
        BY <4>2, <1>12
      <4>4. Present(link[2])'
        BY <4>1, <1>13
      <4> QED BY <4>3, <4>4
    <3> QED BY <3>1, <3>2, <1>3
  <2>2. \A g \in todo' : \A x \in g : hasObject(x)'
    <3> SUFFICES ASSUME NEW g \in todo', NEW x \in g PROVE hasObject(x)'
      OBVIOUS
    <3>1. PICK k \in todo : x \in k
      OBVIOUS
    <3>2. x \in Object /\ hasObject(x)
      BY <3>1 DEF IInv, LinkInv, Shape
    <3> QED BY <3>2, <1>11
  <2> QED BY <2>1, <2>2
<1> QED BY <1>7, <1>8, <1>9, <1>10, <1>14 DEF IInv

\* A call: its collections are new and empty, its groups are of objects of the event.
LEMMA BeginKeeps ==
  ASSUME IInv, NEW s \in Stages \ {"ready", "add"}, NEW n \in {1, 6}, s = "simulate" <=> n = 6,
         NEW g \in SUBSET (SUBSET Object), \A S \in g : \A id \in S : hasObject(id),
         s = "merge" => \A S \in g : \A id \in S : id.ts \in Clusters,
         Begin(s, n, g)
  PROVE  IInv' /\ Held
<1>1. /\ stage = "ready" /\ failed = "no" /\ out = <<>>
      /\ collections' = collections \o [i \in 1 .. n |-> {}]
      /\ out' = [i \in 1 .. n |-> Len(collections) + i]
      /\ stage' = s /\ todo' = g \ {{}} /\ UNCHANGED <<folder, history, failed>>
      /\ collections \in Seq(Pool) /\ Len(collections) \in Nat
  BY DEF Begin, Idle, IInv, Shape, StageInv
<1>2. [i \in 1 .. n |-> {}] \in Seq(Pool) /\ Len([i \in 1 .. n |-> {}]) = n
  BY FS_EmptySet DEF Pool
<1>3. /\ collections' \in Seq(Pool)
      /\ DOMAIN collections' = 1 .. Len(collections) + n /\ DOMAIN collections = 1 .. Len(collections)
      /\ \A a \in DOMAIN collections : collections'[a] = collections[a]
      /\ \A i \in 1 .. n : collections'[Len(collections) + i] = {}
  BY <1>1, <1>2
<1>4. out' \in Seq(Nat) /\ Len(out') = n /\ DOMAIN out' = 1 .. n
  BY <1>1
<1>5. Shape'
  BY <1>1, <1>3, <1>4 DEF IInv, Shape, Stages
<1>6. StageInv'
  <2>1. \A i \in DOMAIN out' : out'[i] \in DOMAIN collections' /\ collections'[out'[i]] = {}
    BY <1>1, <1>3, <1>4
  <2>2. \A i, j \in DOMAIN out' : out'[i] = out'[j] => i = j
    BY <1>1, <1>4
  <2> QED BY <1>1, <1>4, <2>1, <2>2 DEF StageInv
<1>7. /\ FoldersLeadToCollections'
      /\ \A t \in TypeAndSubtype : collectionIds(t)' = collectionIds(t)
      /\ Held
  BY <1>1, <1>3, OthersStay DEF IInv
<1>8. FolderInv'
  BY <1>1, <1>3, <1>4, <1>7 DEF IInv, FolderInv, FoldersLeadToCollections, hasCollection
<1>9. \A x \in Object : hasObject(x)' = hasObject(x)
  BY <1>7 DEF hasObject, Object
<1>10. LinkInv'
  <2>1. \A link \in history : /\ link[1] \in Object /\ link[2] \in Object
                              /\ hasObject(link[1]) /\ hasObject(link[2])
    BY <1>1 DEF IInv, Shape, LinkInv, Present
  <2>2. \A link \in history' : Present(link[1])' /\ Present(link[2])'
    BY <2>1, <1>1, <1>9 DEF Present
  <2>3. \A S \in todo' : \A x \in S : hasObject(x)'
    BY <1>1, <1>9
  <2> QED BY <2>2, <2>3 DEF LinkInv
<1> QED BY <1>5, <1>6, <1>7, <1>8, <1>10 DEF IInv

\* The objects of a collection are of the event.
LEMMA CollectionObjects ==
  ASSUME IInv, NEW ts \in TypeAndSubtype
  PROVE  /\ collectionIds(ts) \in SUBSET Object
         /\ \A id \in collectionIds(ts) : hasObject(id) /\ id.ts = ts
<1>1. CASE hasCollection(ts)
  <2>1. collections[folder[ts]] \in Pool /\ \A id \in collections[folder[ts]] : id.ts = ts
    BY <1>1 DEF IInv, Shape, FolderInv, FoldersLeadToCollections
  <2> QED BY <1>1, <2>1 DEF collectionIds, hasObject, Pool
<1>2. CASE ~hasCollection(ts)
  BY <1>2 DEF collectionIds
<1> QED BY <1>1, <1>2

\* So are the parents of an object, between calls.
LEMMA ParentsArePresent ==
  ASSUME IInv, failed = "no", NEW id
  PROVE  /\ Parents(id) \in SUBSET Object
         /\ \A p \in Parents(id) : Present(p)
BY DEF IInv, Shape, LinkInv, Parents

\* addParticles: the caller's collection of n particles.
LEMMA AddParticlesKeeps ==
  ASSUME IInv, NEW n \in Nat, AddParticles(n)
  PROVE  IInv' /\ Held
<1> PICK c : c = [ts : {"ps"}, index : 0 .. n - 1]
  OBVIOUS
<1>1. /\ stage = "ready" /\ failed = "no" /\ out = <<>> /\ todo = {}
      /\ collections' = Append(collections, c)
      /\ out' = <<Len(collections) + 1>> /\ stage' = "add"
      /\ UNCHANGED <<folder, history, failed, todo>>
      /\ collections \in Seq(Pool) /\ Len(collections) \in Nat
  BY DEF AddParticles, Idle, IInv, Shape, StageInv
<1>2. c \in Pool
  <2> PICK D : D = 0 .. n - 1
    OBVIOUS
  <2>1. IsFiniteSet(D)
    BY FS_Interval
  <2>2. PICK f : f = [i \in D |-> [ts |-> "ps", index |-> i]]
    OBVIOUS
  <2>3. f \in [D -> c]
    BY <2>2
  <2>4. \A t \in c : \E i \in D : f[i] = t
    BY <2>2
  <2>5. IsFiniteSet(c)
    BY ONLY <2>1, <2>3, <2>4, FiniteImage
  <2> QED BY <2>5 DEF Pool, Object, TypeAndSubtype
<1>3. /\ collections' \in Seq(Pool)
      /\ DOMAIN collections' = 1 .. Len(collections) + 1 /\ DOMAIN collections = 1 .. Len(collections)
      /\ \A a \in DOMAIN collections : collections'[a] = collections[a]
  BY <1>1, <1>2
<1>4. out' \in Seq(Nat) /\ Len(out') = 1 /\ DOMAIN out' = {1} /\ out'[1] = Len(collections) + 1
  BY <1>1
<1>5. Shape'
  BY <1>1, <1>3, <1>4 DEF IInv, Shape, Stages
<1>6. StageInv'
  BY <1>1, <1>3, <1>4 DEF IInv, StageInv
<1>7. /\ FoldersLeadToCollections'
      /\ \A t \in TypeAndSubtype : collectionIds(t)' = collectionIds(t)
      /\ Held
  BY <1>1, <1>3, OthersStay DEF IInv
<1>8. FolderInv'
  BY <1>1, <1>3, <1>4, <1>7 DEF IInv, FolderInv, FoldersLeadToCollections, hasCollection
<1>9. LinkInv'
  <2>1. \A link \in history : /\ link[1] \in Object /\ link[2] \in Object
                              /\ hasObject(link[1]) /\ hasObject(link[2])
    BY <1>1 DEF IInv, Shape, LinkInv, Present
  <2>2. \A x \in Object : hasObject(x)' = hasObject(x)
    BY <1>7 DEF hasObject, Object
  <2>3. \A link \in history' : Present(link[1])' /\ Present(link[2])'
    BY <2>1, <2>2, <1>1 DEF Present
  <2> QED BY <2>3, <1>1 DEF LinkInv
<1> QED BY <1>5, <1>6, <1>7, <1>8, <1>9 DEF IInv
-----------------------------------------------------------------------------
\* Each kind of object that the simulation makes has a collection of its own.
Made == {"et", "ht", "es", "hs", "tt", "ts"}

LEMMA AddressOf ==
  ASSUME Shape, StageInv, stage = "simulate", NEW ts \in Made
  PROVE  \E i \in 1 .. 6 : /\ i \in DOMAIN out /\ Outputs[i] = ts
                           /\ Address(ts) = out[i] /\ out[i] \in DOMAIN collections
<1>1. DOMAIN Outputs = 1 .. 6 /\ \E i \in DOMAIN Outputs : Outputs[i] = ts
  BY DEF Made, Outputs
<1>2. PICK i \in 1 .. 6 : Outputs[i] = ts /\ Address(ts) = out[i]
  BY <1>1 DEF Address
<1>3. i \in DOMAIN out
  BY DEF Shape, StageInv
<1> QED BY <1>2, <1>3 DEF StageInv

\* The set of the kinds is finite, and so is what a particle leaves behind.
LEMMA MadeIsFinite ==
  ASSUME NEW made \in SUBSET Made
  PROVE  IsFiniteSet(made)
<1> PICK D : D = 1 .. 6
  OBVIOUS
<1>1. IsFiniteSet(D)
  <2>1. 1 \in Int /\ 6 \in Int
    OBVIOUS
  <2> QED BY <2>1, FS_Interval, Zenon
<1>2. Outputs \in [D -> Made] /\ \A t \in Made : \E i \in D : Outputs[i] = t
  BY DEF Outputs, Made
<1>3. IsFiniteSet(Made)
  BY ONLY <1>1, <1>2, FiniteImage
<1> QED BY <1>3, FS_Subset

LEMMA PoolUnion ==
  ASSUME NEW c \in Pool, NEW d \in Pool
  PROVE  c \cup d \in Pool
BY FS_Union DEF Pool

\* What deposits change: the collections of the stage, with objects of their
\* kind, and the history, which links them to the particle and to each other.
LEMMA DepositKeeps ==
  ASSUME IInv, stage = "simulate", NEW p \in Object, Present(p), NEW made \in SUBSET Made,
         \A ts \in made : ts \in DOMAIN TrueOf => TrueOf[ts] \in made,
         Deposit(p, made)
  PROVE  /\ collections' \in Seq(Pool) /\ DOMAIN collections' = DOMAIN collections
         /\ \A a \in DOMAIN collections :
              /\ collections[a] \subseteq collections'[a]
              /\ (\A i \in DOMAIN out : out[i] # a) => collections'[a] = collections[a]
         /\ \A i \in 1 .. 6 : \A id \in collections'[out[i]] : id.ts = Outputs[i]
         /\ history' \in SUBSET (Object \X Object)
         /\ \A link \in history' : \A id \in {link[1], link[2]} :
              Present(id) \/ \E i \in DOMAIN out : id \in collections'[out[i]]
<1>1. /\ DOMAIN out = 1 .. 6 /\ \A i \in 1 .. 6 : out[i] \in DOMAIN collections
      /\ \A i, j \in 1 .. 6 : out[i] = out[j] => i = j
      /\ failed = "no" /\ collections \in Seq(Pool)
      /\ \A i \in 1 .. 6 : \A id \in collections[out[i]] : id.ts = Outputs[i]
  BY DEF IInv, Shape, StageInv
<1>2. \A ts \in Made : /\ New(ts) \in Object /\ New(ts).ts = ts
                       /\ \E i \in 1 .. 6 : Outputs[i] = ts /\ Address(ts) = out[i]
  <2> TAKE ts \in Made
  <2>1. PICK i \in 1 .. 6 : /\ Outputs[i] = ts /\ Address(ts) = out[i]
                            /\ out[i] \in DOMAIN collections
    BY AddressOf DEF IInv
  <2>2. ts \in TypeAndSubtype
    BY DEF Made, TypeAndSubtype, Clusters
  <2>3. NewId(ts, out[i]) \in Object /\ NewId(ts, out[i]).ts = ts
    BY <2>1, <2>2, NewIdType DEF IInv
  <2> QED BY <2>1, <2>3 DEF New
<1> PICK N : N = [a \in DOMAIN collections |-> {New(ts) : ts \in {t \in made : Address(t) = a}}]
  OBVIOUS
<1>3. \A a \in DOMAIN collections : N[a] \in Pool
  <2> TAKE a \in DOMAIN collections
  <2> PICK D : D = {t \in made : Address(t) = a}
    OBVIOUS
  <2> PICK T : T = N[a]
    OBVIOUS
  <2> PICK f : f = [t \in D |-> New(t)]
    OBVIOUS
  <2>1. IsFiniteSet(D)
    BY MadeIsFinite
  <2>2. f \in [D -> T] /\ \A t \in T : \E d \in D : f[d] = t
    OBVIOUS
  <2>3. IsFiniteSet(T)
    BY ONLY <2>1, <2>2, FiniteImage
  <2>4. T \subseteq Object
    BY <1>2
  <2> QED BY <2>3, <2>4 DEF Pool
<1>4. collections' = [a \in DOMAIN collections |-> collections[a] \cup N[a]]
  BY DEF Deposit
<1>5. \A a \in DOMAIN collections : collections[a] \cup N[a] \in Pool
  <2> TAKE a \in DOMAIN collections
  <2>1. collections[a] \in Pool /\ N[a] \in Pool
    BY <1>1, <1>3
  <2> QED BY <2>1, PoolUnion
<1>6. /\ collections' \in Seq(Pool) /\ DOMAIN collections' = DOMAIN collections
      /\ \A a \in DOMAIN collections : collections'[a] = collections[a] \cup N[a]
  BY <1>1, <1>4, <1>5
<1>7. \A a \in DOMAIN collections : (\A i \in DOMAIN out : out[i] # a) => N[a] = {}
  BY <1>1, <1>2
<1>8. \A i \in 1 .. 6 : \A id \in N[out[i]] : id.ts = Outputs[i]
  BY <1>1, <1>2
<1>9. \A i \in 1 .. 6 : \A id \in collections'[out[i]] : id.ts = Outputs[i]
  BY <1>1, <1>6, <1>8
<1>10. \A ts \in made : \E i \in DOMAIN out : New(ts) \in collections'[out[i]]
  BY <1>1, <1>2, <1>6
<1>11. \A link \in history' : \/ link \in history
                              \/ \E ts \in made : /\ link[2] = New(ts)
                                                  /\ \/ link[1] = p
                                                     \/ \E t \in made : link[1] = New(t)
  BY DEF Deposit
<1>12. history' \in SUBSET (Object \X Object)
  <2>1. \A ts \in made : <<IF ts \in DOMAIN TrueOf THEN New(TrueOf[ts]) ELSE p, New(ts)>>
                            \in Object \X Object
    BY <1>2
  <2>2. {<<IF ts \in DOMAIN TrueOf THEN New(TrueOf[ts]) ELSE p, New(ts)>> : ts \in made}
          \subseteq Object \X Object
    BY <2>1
  <2>3. history \subseteq Object \X Object
    BY DEF IInv, Shape
  <2> QED BY <2>2, <2>3 DEF Deposit
<1>13. \A link \in history' : \A id \in {link[1], link[2]} :
          Present(id) \/ \E i \in DOMAIN out : id \in collections'[out[i]]
  BY <1>1, <1>10, <1>11 DEF IInv, LinkInv
<1>14. \A a \in DOMAIN collections :
         /\ collections[a] \subseteq collections'[a]
         /\ (\A i \in DOMAIN out : out[i] # a) => collections'[a] = collections[a]
  BY <1>6, <1>7
<1> QED BY <1>6, <1>9, <1>12, <1>13, <1>14

\* The particle is done, or the exception leaves the stage: whatever it left behind.
LEMMA SimulatedKeeps ==
  ASSUME IInv, NEW p, NEW made \in SUBSET Made,
         \A ts \in made : ts \in DOMAIN TrueOf => TrueOf[ts] \in made,
         p \in UNION todo, Simulated(p, made) \/ NotExtrapolated(p, made)
  PROVE  IInv' /\ Held
<1>1. stage = "simulate" /\ failed = "no" /\ Deposit(p, made) /\ folder' = folder
  BY DEF Simulated, NotExtrapolated, Throw, IInv, StageInv
<1>2. p \in Object /\ hasObject(p) /\ Present(p)
  BY <1>1 DEF IInv, Shape, LinkInv, Present
<1>3. /\ collections' \in Seq(Pool) /\ DOMAIN collections' = DOMAIN collections
      /\ \A a \in DOMAIN collections :
           /\ collections[a] \subseteq collections'[a]
           /\ (\A i \in DOMAIN out : out[i] # a) => collections'[a] = collections[a]
      /\ \A i \in 1 .. 6 : \A id \in collections'[out[i]] : id.ts = Outputs[i]
      /\ history' \in SUBSET (Object \X Object)
      /\ \A link \in history' : \A id \in {link[1], link[2]} :
           Present(id) \/ \E i \in DOMAIN out : id \in collections'[out[i]]
  BY <1>1, <1>2, DepositKeeps
<1>4. /\ FoldersLeadToCollections'
      /\ \A ts \in TypeAndSubtype : collectionIds(ts)' = collectionIds(ts)
      /\ Held
  BY <1>1, <1>3, OthersStay DEF IInv
<1>5. \A x \in Object : hasObject(x)' = hasObject(x)
  BY <1>4 DEF hasObject, Object
<1>6. CASE Simulated(p, made)
  <2>1. UNCHANGED <<folder, failed, stage, out>>
    BY <1>6 DEF Simulated
  <2>2. todo' \in SUBSET (SUBSET Object) /\ \A g \in todo' : \A id \in g : hasObject(id)
    <3>1. PICK g \in todo : todo' = {g \ {p}} \ {{}}
      BY <1>6 DEF Simulated
    <3> QED BY <3>1, <1>1 DEF IInv, Shape, LinkInv
  <2>3. Shape'
    BY <1>3, <2>1, <2>2 DEF IInv, Shape
  <2>4. StageInv'
    BY <1>1, <1>3, <2>1 DEF IInv, StageInv
  <2>5. FolderInv'
    BY <2>1, <1>4 DEF IInv, FolderInv, hasCollection
  <2>6. LinkInv'
    <3>1. \A link \in history' : \A id \in {link[1], link[2]} : id \in Object
      BY <1>3
    <3>2. \A id \in Object : Present(id) => Present(id)'
      BY <1>3, <1>5, <2>1 DEF Present, IInv, StageInv
    <3>3. \A id \in Object : (\E i \in DOMAIN out : id \in collections'[out[i]]) => Present(id)'
      BY <2>1 DEF Present
    <3>4. \A link \in history' : Present(link[1])' /\ Present(link[2])'
      BY <3>1, <3>2, <3>3, <1>3
    <3>5. \A g \in todo' : \A x \in g : hasObject(x)'
      BY <2>2, <1>5
    <3> QED BY <3>4, <3>5 DEF LinkInv
  <2> QED BY <2>3, <2>4, <2>5, <2>6, <1>4 DEF IInv
<1>7. CASE NotExtrapolated(p, made)
  <2>1. failed' = "simulation" /\ stage' = "ready" /\ out' = <<>> /\ todo' = {} /\ folder' = folder
    BY <1>7 DEF NotExtrapolated, Throw
  <2>2. Shape'
    BY <1>3, <2>1 DEF IInv, Shape, Stages
  <2> QED BY <2>1, <2>2, <1>4 DEF IInv, StageInv, FolderInv, LinkInv
<1> QED BY <1>6, <1>7
-----------------------------------------------------------------------------
\* Overlapping clusters become one, or the stage is cut short.
LEMMA MergeGroupKeeps ==
  ASSUME IInv, NEW S, MergeGroup(S)
  PROVE  IInv' /\ Held
<1>1. /\ stage = "merge" /\ todo # {} /\ S \subseteq Turn /\ First(Turn) \in S
      /\ Turn \in todo /\ Turn \in SUBSET Object /\ failed = "no"
      /\ \A id \in Turn : id.ts \in Clusters /\ hasObject(id)
  BY DEF MergeGroup, Turn, IInv, Shape, StageInv, LinkInv
<1>2. CASE \E c \in S : Merged(c)
  <2>1. /\ failed' = "merge" /\ stage' = "ready" /\ out' = <<>> /\ todo' = {}
        /\ UNCHANGED <<folder, collections, history>>
    BY <1>2 DEF MergeGroup, Throw
  <2>2. Shape'
    BY <2>1 DEF IInv, Shape, Stages
  <2>3. FoldersLeadToCollections' /\ Held
    BY <2>1, OthersStay DEF IInv
  <2> QED BY <2>1, <2>2, <2>3 DEF IInv, StageInv, FolderInv, LinkInv
<1>3. CASE ~ \E c \in S : Merged(c)
  <2>1. PICK ts : ts = MergedOf[First(S).ts]
    OBVIOUS
  <2>2. First(S) \in S
    BY <1>1, FirstIsInGroup
  <2>3. ts \in TypeAndSubtype
    BY <1>1, <2>1, <2>2 DEF MergedOf, TypeAndSubtype, Clusters
  <2>4. MakeFrom(ts, S) /\ todo' = (todo \ {Turn}) \cup ({Turn \ S} \ {{}})
    BY <1>3, <2>1 DEF MergeGroup
  <2>5. /\ todo' \in SUBSET (SUBSET Object)
        /\ \A g \in todo' : \A id \in g : \E k \in todo : id \in k
    BY <1>1, <2>4 DEF IInv, Shape
  <2>6. S \in SUBSET Object /\ \A q \in S : Present(q)
    BY <1>1 DEF Present
  <2> QED BY <1>1, <2>3, <2>4, <2>5, <2>6, MakeFromKeeps
<1> QED BY <1>2, <1>3

\* Linked elements become a block.
LEMMA MakeBlockKeeps ==
  ASSUME IInv, NEW S, MakeBlock(S)
  PROVE  IInv' /\ Held
<1>1. /\ stage \in {"build", "simplify"} /\ S \subseteq Turn
      /\ Turn \in todo /\ Turn \in SUBSET Object /\ failed = "no"
      /\ \A id \in Turn : hasObject(id)
      /\ todo' = (todo \ {Turn}) \cup ({Turn \ S} \ {{}})
  BY DEF MakeBlock, Turn, IInv, Shape, StageInv, LinkInv
<1>2. PICK ts \in {"br", "bs"} : MakeFrom(ts, S)
  BY DEF MakeBlock
<1>3. /\ todo' \in SUBSET (SUBSET Object)
      /\ \A g \in todo' : \A id \in g : \E k \in todo : id \in k
  BY <1>1 DEF IInv, Shape
<1>4. S \in SUBSET Object /\ (\A q \in S : Present(q)) /\ ts \in TypeAndSubtype
  BY <1>1 DEF Present, TypeAndSubtype
<1> QED BY <1>1, <1>2, <1>3, <1>4, MakeFromKeeps

\* Elements of a block become a particle.
LEMMA MakeParticleKeeps ==
  ASSUME IInv, NEW others, MakeParticle(others)
  PROVE  IInv' /\ Held
<1>1. /\ stage = "reconstruct" /\ Turn \in todo /\ Turn \in SUBSET Object /\ failed = "no"
      /\ \A id \in Turn : hasObject(id)
      /\ todo' = todo \ {Turn}
      /\ MakeFrom("pr", Turn \cup others)
  BY DEF MakeParticle, Turn, IInv, Shape, StageInv, LinkInv
<1>2. PICK b \in Turn : others \subseteq Parents(b)
  BY DEF MakeParticle
<1>3. others \in SUBSET Object /\ \A q \in others : Present(q)
  BY <1>1, <1>2, ParentsArePresent
<1>4. /\ Turn \cup others \in SUBSET Object
      /\ \A q \in Turn \cup others : Present(q)
  BY <1>1, <1>3 DEF Present
<1>5. /\ todo' \in SUBSET (SUBSET Object)
      /\ \A g \in todo' : \A id \in g : \E k \in todo : id \in k
  BY <1>1 DEF IInv, Shape
<1>6. "pr" \in TypeAndSubtype
  BY DEF TypeAndSubtype
<1> QED BY <1>1, <1>4, <1>5, <1>6, MakeFromKeeps

LEMMA MakeNothingKeeps ==
  ASSUME IInv, MakeNothing
  PROVE  IInv' /\ Held
<1>1. /\ UNCHANGED <<collections, folder, history, failed, stage, out>>
      /\ todo' = todo \ {Turn} /\ stage = "reconstruct"
  BY DEF MakeNothing, eventVars
<1>2. Shape'
  BY <1>1 DEF IInv, Shape
<1>3. StageInv'
  BY <1>1 DEF IInv, StageInv
<1>4. FoldersLeadToCollections' /\ Held
  BY <1>1, OthersStay DEF IInv
<1>5. FolderInv'
  BY <1>1, <1>4 DEF IInv, FolderInv, hasCollection
<1>6. \A id : (hasObject(id)' <=> hasObject(id)) /\ (Present(id)' <=> Present(id))
  BY <1>1 DEF hasObject, collectionIds, hasCollection, Present
<1>7. LinkInv'
  BY <1>1, <1>6 DEF IInv, LinkInv
<1> QED BY <1>2, <1>3, <1>4, <1>5, <1>7 DEF IInv

\* The collections of the stage are added one after another: each that is
\* accepted gets a folder that was free, and all that they link is in the event.
LEMMA FinishKeeps ==
  ASSUME IInv, Finish
  PROVE  IInv' /\ Held
<1> DEFINE Kinds(i) == {id.ts : id \in collections[out[i]]}
           Throws(i) == Refused(collections[out[i]]) # "no"
<1> PICK stops : stops = {i \in DOMAIN out : Throws(i)}
  OBVIOUS
<1> PICK added : added = {i \in DOMAIN out : /\ collections[out[i]] # {}
                                             /\ \A j \in stops : i < j}
  OBVIOUS
<1>1. /\ stage # "ready" /\ failed = "no" /\ todo = {}
      /\ stage' = "ready" /\ out' = <<>> /\ todo' = {}
      /\ UNCHANGED <<collections, history>>
      /\ out \in Seq(Nat) /\ \A i \in DOMAIN out : out[i] \in DOMAIN collections
      /\ collections \in Seq(Pool) /\ folder \in [TypeAndSubtype -> Nat]
  BY DEF Finish, IInv, Shape, StageInv
<1>2. \A ts \in TypeAndSubtype :
        folder'[ts] = IF \E i \in added : ts \in Kinds(i)
                      THEN out[CHOOSE i \in added : ts \in Kinds(i)]
                      ELSE folder[ts]
  BY DEF Finish, AddCollections
<1>3. DOMAIN folder' = TypeAndSubtype /\ folder' = [ts \in TypeAndSubtype |-> folder'[ts]]
  BY DEF Finish, AddCollections
<1>4. failed' = "no" => stops = {}
  <2> SUFFICES ASSUME stops # {} PROVE failed' # "no"
    OBVIOUS
  <2>1. stops \in SUBSET Nat
    BY <1>1
  <2>2. PICK i \in stops : \A j \in stops : i <= j
    BY <2>1, LeastNat
  <2>3. PICK k : k = CHOOSE first \in stops : \A j \in stops : first <= j
    OBVIOUS
  <2>4. k \in stops
    BY <2>2, <2>3
  <2>5. failed' = Refused(collections[out[k]])
    BY <2>3 DEF Finish, AddCollections
  <2> QED BY <2>4, <2>5
<1>5. \A i \in added : /\ i \in DOMAIN out /\ collections[out[i]] \in Pool
                       /\ \A a, b \in collections[out[i]] : a.ts = b.ts
                       /\ \A id \in collections[out[i]] : ~hasCollection(id.ts)
  <2> TAKE i \in added
  <2>1. i \in DOMAIN out /\ collections[out[i]] \in Pool /\ i \in Nat
    BY <1>1
  <2>2. Refused(collections[out[i]]) = "no"
    BY <2>1
  <2> QED BY <2>1, <2>2, AcceptedIsOfOneType
<1> HIDE DEF Throws
<1>6. \A ts \in TypeAndSubtype :
        \/ folder'[ts] = folder[ts] /\ \A i \in added : ts \notin Kinds(i)
        \/ /\ ~hasCollection(ts)
           /\ \E i \in added : /\ folder'[ts] = out[i] /\ ts \in Kinds(i)
                               /\ \A id \in collections[out[i]] : id.ts = ts
  <2> TAKE ts \in TypeAndSubtype
  <2>1. CASE \E i \in added : ts \in Kinds(i)
    <3>1. PICK k : k = CHOOSE i \in added : ts \in Kinds(i)
      OBVIOUS
    <3>2. k \in added /\ ts \in Kinds(k) /\ folder'[ts] = out[k]
      BY <2>1, <3>1, <1>2
    <3> QED BY <3>2, <1>5
  <2>2. CASE ~ \E i \in added : ts \in Kinds(i)
    BY <2>2, <1>2
  <2> QED BY <2>1, <2>2
<1>7. Shape'
  <2>1. \A ts \in TypeAndSubtype : folder'[ts] \in Nat
    BY <1>1, <1>5, <1>6
  <2>2. folder' \in [TypeAndSubtype -> Nat]
    BY <2>1, <1>3
  <2> QED BY <2>2, <1>1 DEF IInv, Shape, Stages
<1>8. Held
  BY <1>1, <1>6 DEF Held
<1>9. FoldersLeadToCollections'
  <2> SUFFICES ASSUME NEW ts \in TypeAndSubtype, folder'[ts] # 0
               PROVE  /\ folder'[ts] \in DOMAIN collections
                      /\ collections[folder'[ts]] # {}
                      /\ \A id \in collections[folder'[ts]] : id.ts = ts
    BY <1>1 DEF FoldersLeadToCollections, hasCollection
  <2>1. CASE folder'[ts] = folder[ts]
    BY <2>1 DEF IInv, FolderInv, FoldersLeadToCollections, hasCollection
  <2>2. CASE \E i \in added : /\ folder'[ts] = out[i] /\ ts \in Kinds(i)
                              /\ \A id \in collections[out[i]] : id.ts = ts
    BY <2>2, <1>1, <1>5
  <2> QED BY <2>1, <2>2, <1>6
<1>10. LinkInv'
  <2> SUFFICES ASSUME failed' = "no"
               PROVE  \A link \in history : hasObject(link[1])' /\ hasObject(link[2])'
    BY <1>1 DEF LinkInv, Present
  <2>1. added = {i \in DOMAIN out : collections[out[i]] # {}}
    BY <1>4
  <2>2. ASSUME NEW x \in Object, hasObject(x)
        PROVE  hasObject(x)'
    <3>1. x.ts \in TypeAndSubtype /\ hasCollection(x.ts) /\ x \in collections[folder[x.ts]]
      BY <2>2 DEF Object, hasObject, collectionIds
    <3>2. folder'[x.ts] = folder[x.ts]
      BY <3>1, <1>8 DEF Held
    <3> QED BY <3>1, <3>2, <1>1 DEF hasObject, collectionIds, hasCollection
  <2>3. ASSUME NEW x \in Object, NEW i \in DOMAIN out, x \in collections[out[i]]
        PROVE  hasObject(x)'
    <3>1. i \in added /\ x.ts \in Kinds(i) /\ x.ts \in TypeAndSubtype
      BY <2>1, <2>3 DEF Object
    <3>2. PICK k \in added : /\ folder'[x.ts] = out[k] /\ x.ts \in Kinds(k)
                             /\ \A id \in collections[out[k]] : id.ts = x.ts
      BY <3>1, <1>6
    <3>3. k = i
      <4>1. CASE stage = "simulate"
        <5>1. DOMAIN out = 1 .. 6 /\ \A j \in 1 .. 6 : \A id \in collections[out[j]] : id.ts = Outputs[j]
          BY <4>1, <1>1 DEF IInv, StageInv
        <5>2. k \in 1 .. 6 /\ i \in 1 .. 6 /\ Outputs[k] = Outputs[i]
          BY <5>1, <3>1, <3>2, <1>5
        <5> QED BY <5>2 DEF Outputs
      <4>2. CASE stage # "simulate"
        <5>1. DOMAIN out = {1}
          BY <4>2, <1>1 DEF IInv, StageInv
        <5> QED BY <5>1, <3>1, <3>2, <1>5
      <4> QED BY <4>1, <4>2
    <3>4. folder'[x.ts] # 0
      BY <3>2, <1>1, <1>5
    <3> QED BY <3>2, <3>3, <3>4, <2>3, <1>1 DEF hasObject, collectionIds, hasCollection
  <2>4. \A x \in Object : Present(x) => hasObject(x)'
    BY <2>2, <2>3 DEF Present
  <2> QED BY <2>4, <1>1 DEF IInv, Shape, LinkInv
<1>11. StageInv' /\ FolderInv'
  BY <1>1, <1>9 DEF StageInv, FolderInv
<1> QED BY <1>7, <1>8, <1>10, <1>11 DEF IInv
-----------------------------------------------------------------------------
\* The steps of the simulation of one particle.
LEMMA ParticleLeaves ==
  ASSUME NEW p,
         simulatePhoton(p) \/ simulateHadron(p) \/ simulateLepton(p) \/ simulateNothing(p)
  PROVE  \E made \in SUBSET Made :
           /\ \A ts \in made : ts \in DOMAIN TrueOf => TrueOf[ts] \in made
           /\ Simulated(p, made) \/ NotExtrapolated(p, made)
<1>1. DOMAIN TrueOf = {"es", "hs", "ts"} /\ TrueOf["es"] = "et" /\ TrueOf["hs"] = "ht" /\ TrueOf["ts"] = "tt"
  BY DEF TrueOf
<1>2. /\ Stored("et") = {{"et"}, {"et", "es"}}
      /\ Stored("ht") = {{"ht"}, {"ht", "hs"}}
      /\ Stored("tt") = {{"tt"}, {"tt", "ts"}}
  BY DEF Stored, Smeared
<1>3. CASE simulatePhoton(p)
  BY <1>1, <1>2, <1>3 DEF simulatePhoton, Made
<1>4. CASE simulateHadron(p)
  <2>1. PICK track \in {{}} \cup Stored("tt"), ecal \in {{}} \cup Stored("et") :
               \/ \E hcal \in Stored("ht") : Simulated(p, track \cup ecal \cup hcal)
               \/ NotExtrapolated(p, track \cup ecal)
    BY <1>4 DEF simulateHadron
  <2>2. CASE NotExtrapolated(p, track \cup ecal)
    <3>1. track \cup ecal \in SUBSET Made
      BY <1>2 DEF Made
    <3>2. \A ts \in track \cup ecal : ts \in DOMAIN TrueOf => TrueOf[ts] \in track \cup ecal
      BY <1>1, <1>2
    <3> QED BY <3>1, <3>2, <2>2
  <2>3. ASSUME NEW hcal \in Stored("ht"), Simulated(p, track \cup ecal \cup hcal)
        PROVE  \E made \in SUBSET Made :
                 /\ \A ts \in made : ts \in DOMAIN TrueOf => TrueOf[ts] \in made
                 /\ Simulated(p, made)
    <3>1. track \cup ecal \cup hcal \in SUBSET Made
      BY <1>2 DEF Made
    <3>2. \A ts \in track \cup ecal \cup hcal :
            ts \in DOMAIN TrueOf => TrueOf[ts] \in track \cup ecal \cup hcal
      BY <1>1, <1>2
    <3> QED BY <3>1, <3>2, <2>3
  <2> QED BY <2>1, <2>2, <2>3
<1>5. CASE simulateLepton(p)
  BY <1>1, <1>2, <1>5 DEF simulateLepton, Made
<1>6. CASE simulateNothing(p)
  BY <1>6 DEF simulateNothing
<1> QED BY <1>3, <1>4, <1>5, <1>6

LEMMA SimulateParticleKeeps ==
  ASSUME IInv, SimulateParticle
  PROVE  IInv' /\ Held
<1>1. PICK p \in UNION todo :
        simulatePhoton(p) \/ simulateHadron(p) \/ simulateLepton(p) \/ simulateNothing(p)
  BY DEF SimulateParticle
<1>2. PICK made \in SUBSET Made :
        /\ \A ts \in made : ts \in DOMAIN TrueOf => TrueOf[ts] \in made
        /\ Simulated(p, made) \/ NotExtrapolated(p, made)
  BY <1>1, ParticleLeaves
<1>3. QED
  BY <1>2, SimulatedKeeps

\* The calls that start a stage.
LEMMA CallKeeps ==
  ASSUME IInv, Call, ~clear
  PROVE  IInv' /\ Held
<1>1. \A ts \in TypeAndSubtype : /\ collectionIds(ts) \in SUBSET Object
                                 /\ \A id \in collectionIds(ts) : hasObject(id) /\ id.ts = ts
  BY CollectionObjects
<1>2. Idle => \A b : /\ Parents(b) \in SUBSET Object
                     /\ \A p \in Parents(b) : hasObject(p)
  <2> SUFFICES ASSUME Idle, NEW b
               PROVE  Parents(b) \in SUBSET Object /\ \A p \in Parents(b) : hasObject(p)
    OBVIOUS
  <2>1. failed = "no" /\ DOMAIN out = {}
    BY DEF Idle, IInv, StageInv
  <2> QED BY <2>1, ParentsArePresent DEF Present
<1>3. ASSUME NEW n \in 0 .. NumParticles, AddParticles(n) PROVE IInv' /\ Held
  BY <1>3, AddParticlesKeeps
<1>4. CASE Simulate
  <2>1. Begin("simulate", 6, {collectionIds("ps")})
    BY <1>4 DEF Simulate, Outputs
  <2>2. "ps" \in TypeAndSubtype
    BY DEF TypeAndSubtype
  <2>3. /\ {collectionIds("ps")} \in SUBSET (SUBSET Object)
        /\ \A S \in {collectionIds("ps")} : \A id \in S : hasObject(id)
    BY <1>1, <2>2
  <2> QED BY <2>1, <2>3, BeginKeeps DEF Stages
<1>5. ASSUME NEW ts \in Clusters, mergeClusters(ts) PROVE IInv' /\ Held
  <2>1. Begin("merge", 1, {collectionIds(ts)})
    BY <1>5 DEF mergeClusters
  <2>2. ts \in TypeAndSubtype
    BY DEF TypeAndSubtype
  <2>3. /\ {collectionIds(ts)} \in SUBSET (SUBSET Object)
        /\ \A S \in {collectionIds(ts)} : \A id \in S : hasObject(id) /\ id.ts \in Clusters
    BY <1>1, <2>2
  <2> QED BY <2>1, <2>3, BeginKeeps DEF Stages
<1>6. ASSUME NEW e \in {"et", "es", "em"}, NEW h \in {"ht", "hs", "hm"}, NEW t \in {"tt", "ts"},
             buildBlocks(e, h, t)
      PROVE  IInv' /\ Held
  <2>1. PICK g : g = collectionIds(e) \cup collectionIds(h) \cup collectionIds(t)
    OBVIOUS
  <2>2. Begin("build", 1, {g})
    BY <1>6, <2>1 DEF buildBlocks
  <2>3. {e, h, t} \subseteq TypeAndSubtype
    BY DEF TypeAndSubtype, Clusters
  <2>4. {g} \in SUBSET (SUBSET Object) /\ \A S \in {g} : \A id \in S : hasObject(id)
    BY <1>1, <2>1, <2>3
  <2> QED BY <2>2, <2>4, BeginKeeps DEF Stages
<1>7. ASSUME NEW ts \in {"br", "bs"}, simplifyBlocks(ts) PROVE IInv' /\ Held
  <2>1. PICK g : g = {Parents(b) : b \in collectionIds(ts)}
    OBVIOUS
  <2>2. Begin("simplify", 1, g) /\ Idle
    BY <1>7, <2>1 DEF simplifyBlocks, Begin
  <2>3. g \in SUBSET (SUBSET Object) /\ \A S \in g : \A id \in S : hasObject(id)
    BY <1>2, <2>1, <2>2
  <2> QED BY <2>2, <2>3, BeginKeeps DEF Stages
<1>8. ASSUME NEW ts \in {"br", "bs"}, reconstruct(ts) PROVE IInv' /\ Held
  <2>1. PICK g : g = UNION {{{b, e} : e \in Parents(b)} : b \in collectionIds(ts)}
    OBVIOUS
  <2>2. Begin("reconstruct", 1, g) /\ Idle
    BY <1>8, <2>1 DEF reconstruct, Begin
  <2>3. ts \in TypeAndSubtype
    BY DEF TypeAndSubtype
  <2>4. \A S \in g : \E b \in collectionIds(ts) : \E e \in Parents(b) : S = {b, e}
    BY <2>1
  <2>5. g \in SUBSET (SUBSET Object) /\ \A S \in g : \A id \in S : hasObject(id)
    BY <1>1, <1>2, <2>2, <2>3, <2>4
  <2> QED BY <2>2, <2>5, BeginKeeps DEF Stages
<1> QED BY <1>3, <1>4, <1>5, <1>6, <1>7, <1>8 DEF Call

\* The event is cleared: nothing is left of it.
LEMMA ClearKeeps ==
  ASSUME IInv, clear
  PROVE  IInv'
<1>1. /\ stage = "ready" /\ out = <<>> /\ todo = {}
      /\ collections' = <<>> /\ folder' = NoFolder /\ history' = {} /\ failed' = "no"
      /\ UNCHANGED <<stage, out, todo>>
  BY DEF clear, IInv, StageInv
<1>2. \A ts \in TypeAndSubtype : folder'[ts] = 0
  BY <1>1 DEF NoFolder
<1>3. Shape'
  BY <1>1 DEF IInv, Shape, NoFolder
<1> QED BY <1>1, <1>2, <1>3
        DEF IInv, StageInv, FolderInv, FoldersLeadToCollections, hasCollection, LinkInv

\* An event starts empty.
LEMMA InitHolds == Init => IInv
<1> SUFFICES ASSUME Init PROVE IInv
  OBVIOUS
<1>1. /\ collections = <<>> /\ folder = NoFolder /\ history = {} /\ failed = "no"
      /\ stage = "ready" /\ out = <<>> /\ todo = {}
  BY DEF Init, EventInit
<1>2. \A ts \in TypeAndSubtype : folder[ts] = 0
  BY <1>1 DEF NoFolder
<1>3. Shape
  BY <1>1 DEF Shape, NoFolder, Stages
<1> QED BY <1>1, <1>2, <1>3
        DEF IInv, StageInv, FolderInv, FoldersLeadToCollections, hasCollection, LinkInv

\* Every call and every step of a stage keeps the invariant, and all but clear
\* leave what is registered as it is.
LEMMA NextKeeps == IInv /\ [Next]_vars => IInv' /\ (clear \/ vars' = vars \/ Held)
<1> SUFFICES ASSUME IInv, [Next]_vars PROVE IInv' /\ (clear \/ vars' = vars \/ Held)
  OBVIOUS
<1>1. CASE vars' = vars
  BY <1>1 DEF vars, eventVars, IInv, Shape, StageInv, FolderInv, LinkInv,
              FoldersLeadToCollections, hasCollection, hasObject, collectionIds, Present
<1>2. CASE clear
  BY <1>2, ClearKeeps
<1>3. CASE Call /\ ~clear
  BY <1>3, CallKeeps
<1>4. CASE StageStep
  BY <1>4, SimulateParticleKeeps, MergeGroupKeeps, MakeBlockKeeps, MakeParticleKeeps,
     MakeNothingKeeps, FinishKeeps DEF StageStep
<1> QED BY <1>1, <1>2, <1>3, <1>4 DEF Next

\* The folders of the event lead to collections that are still owned, hold
\* something, and hold objects of the folder's type and subtype only.
THEOREM FoldersAreSafe == Spec => []FoldersLeadToCollections
<1>1. IInv => FoldersLeadToCollections
  BY DEF IInv, FolderInv
<1> QED BY <1>1, InitHolds, NextKeeps, PTL DEF Spec

\* Between calls, both ends of each link of the history are objects of the
\* event, so that a look-up of what the history names finds it.
THEOREM HistoryIsSafe == Spec => []HistoryIsOfTheEvent
<1>1. IInv => HistoryIsOfTheEvent
  <2> SUFFICES ASSUME IInv, Idle, NEW link \in history
               PROVE  hasObject(link[1]) /\ hasObject(link[2])
    BY DEF HistoryIsOfTheEvent
  <2>1. DOMAIN out = {} /\ failed = "no"
    BY DEF Idle, IInv, StageInv
  <2> QED BY <2>1 DEF IInv, LinkInv, Present
<1> QED BY <1>1, InitHolds, NextKeeps, PTL DEF Spec

\* What a stage has put into a folder stays there, unchanged, until the event
\* is cleared.
THEOREM RegisteredIsKept == Spec => RegisteredStays
<1>1. IInv /\ [Next]_vars => [clear \/ Held]_vars
  BY NextKeeps
<1>2. [clear \/ Held]_vars =>
        [\/ clear
         \/ \A ts \in TypeAndSubtype : hasCollection(ts) =>
              folder'[ts] = folder[ts] /\ collections'[folder[ts]] = collections[folder[ts]]]_vars
  BY DEF Held
<1> QED BY <1>1, <1>2, InitHolds, NextKeeps, PTL DEF Spec, RegisteredStays
-----------------------------------------------------------------------------
(***************************************************************************)
(* Where the objects come from.  Each kind of object has a rank, which     *)
(* rises along every link.                                                 *)
(***************************************************************************)
Rank == [ts \in TypeAndSubtype |->
           CASE ts = "ps" -> 0
             [] ts \in {"et", "ht", "tt"} -> 1
             [] ts \in {"es", "hs", "ts"} -> 2
             [] ts \in {"em", "hm"} -> 3
             [] ts \in {"br", "bs"} -> 4
             [] ts = "pr" -> 5]

\* The next object of a collection is a new one.
IndexInv ==
  \A a \in DOMAIN collections : \A id \in collections[a] : id.index < Cardinality(collections[a])

\* The stage has made an object for a folder that is taken: it has given that
\* one the identifier of another, and will throw.
Doomed == \E i \in DOMAIN out : \E id \in collections[out[i]] : hasCollection(id.ts)

RanksRise == \A link \in history : /\ Rank[link[1].ts] < Rank[link[2].ts]
                                   /\ link[2].ts = "ts" => link[1].ts = "tt"

TracksHaveOneParent ==
  \A l, m \in history : l[2] = m[2] /\ l[2].ts \in {"tt", "ts"} => l[1] = m[1]

AllButGeneratedHaveParents ==
  \A id \in Object : Present(id) /\ id.ts # "ps" => Parents(id) # {}

\* What a stage is given ranks below what it makes of it; but clusters may be
\* merged again, all of one kind.
GroupsRankBelow ==
  \A g \in todo : \A x \in g :
    /\ stage = "simulate" => x.ts = "ps"
    /\ stage = "merge" => \A y \in g : x.ts = y.ts
    /\ stage \in {"build", "simplify"} => Rank[x.ts] < 4
    /\ stage = "reconstruct" => Rank[x.ts] < 5

OriginInv == /\ IndexInv
             /\ failed = "no" /\ ~Doomed =>
                  /\ RanksRise /\ TracksHaveOneParent
                  /\ AllButGeneratedHaveParents /\ GroupsRankBelow
-----------------------------------------------------------------------------
LEMMA Ranks ==
  /\ \A ts \in TypeAndSubtype : Rank[ts] \in 0 .. 5 /\ (Rank[ts] = 0 => ts = "ps")
  /\ Rank["ps"] = 0
  /\ Rank["et"] = 1 /\ Rank["ht"] = 1 /\ Rank["tt"] = 1
  /\ Rank["es"] = 2 /\ Rank["hs"] = 2 /\ Rank["ts"] = 2
  /\ Rank["em"] = 3 /\ Rank["hm"] = 3
  /\ Rank["br"] = 4 /\ Rank["bs"] = 4 /\ Rank["pr"] = 5
<1>1. /\ Rank["ps"] = 0
      /\ Rank["et"] = 1 /\ Rank["ht"] = 1 /\ Rank["tt"] = 1
      /\ Rank["es"] = 2 /\ Rank["hs"] = 2 /\ Rank["ts"] = 2
      /\ Rank["em"] = 3 /\ Rank["hm"] = 3
      /\ Rank["br"] = 4 /\ Rank["bs"] = 4 /\ Rank["pr"] = 5
  BY DEF Rank, TypeAndSubtype, Clusters
<1>2. \A ts \in TypeAndSubtype : Rank[ts] \in 0 .. 5 /\ (Rank[ts] = 0 => ts = "ps")
  BY <1>1 DEF TypeAndSubtype, Clusters
<1> QED BY <1>1, <1>2

\* An object that is about to be made, of a kind that no folder and no other
\* collection of the stage has, is not in the event yet, nor is it linked.
LEMMA NewIsUnknown ==
  ASSUME IInv, IndexInv, failed = "no", NEW i \in DOMAIN out, NEW ts \in TypeAndSubtype,
         ~hasCollection(ts),
         \A j \in DOMAIN out \ {i} : \A id \in collections[out[j]] : id.ts # ts
  PROVE  /\ ~Present(NewId(ts, out[i]))
         /\ \A link \in history : link[1] # NewId(ts, out[i]) /\ link[2] # NewId(ts, out[i])
<1> PICK made : made = NewId(ts, out[i])
  OBVIOUS
<1>1. out[i] \in DOMAIN collections /\ collections[out[i]] \in Pool
  BY DEF IInv, Shape, StageInv
<1>2. made.ts = ts /\ made.index = Cardinality(collections[out[i]])
  BY DEF NewId
<1>3. Cardinality(collections[out[i]]) \in Nat
  BY <1>1, FS_CardinalityType DEF Pool
<1>4. ~hasObject(made)
  BY <1>2 DEF hasObject, collectionIds
<1>5. made \notin collections[out[i]]
  BY <1>1, <1>2, <1>3 DEF IndexInv
<1>6. ~Present(made)
  BY <1>2, <1>4, <1>5 DEF Present
<1> QED BY <1>6 DEF IInv, LinkInv

\* One object more in a collection.
LEMMA IndexGrows ==
  ASSUME NEW c \in Pool, NEW d \in Pool, NEW id \in Object,
         d = c \cup {id}, id.index = Cardinality(c),
         \A x \in c : x.index < Cardinality(c)
  PROVE  \A x \in d : x.index < Cardinality(d)
<1>1. Cardinality(c) \in Nat
  BY Sizes
<1>2. id \notin c
  BY <1>1
<1>3. Cardinality(d) = Cardinality(c) + 1
  BY <1>2, Sizes
<1>4. \A x \in c : x.index \in Nat
  BY DEF Pool, Object
<1> QED BY <1>1, <1>3, <1>4

\* What a new object with parents of lower rank leaves true.
LEMMA LinkedKeepsOrigin ==
  ASSUME IInv, OriginInv, stage \notin {"ready", "simulate"},
         NEW ts \in {"em", "hm", "br", "bs", "pr"},
         NEW parents \in SUBSET Object, parents # {},
         ~Doomed => hasCollection(ts) \/ \A q \in parents : Rank[q.ts] < Rank[ts],
         MakeFrom(ts, parents),
         \A g \in todo' : \E h \in todo : g \subseteq h
  PROVE  OriginInv'
<1> PICK made : made = NewId(ts, out[1])
  OBVIOUS
<1>1. /\ Len(out) = 1 /\ DOMAIN out = {1} /\ out[1] \in DOMAIN collections
      /\ collections \in Seq(Pool) /\ failed = "no"
  BY DEF IInv, Shape, StageInv
<1>2. ts \in TypeAndSubtype
  BY DEF TypeAndSubtype, Clusters
<1>3. made \in Object /\ made.ts = ts /\ made.index = Cardinality(collections[out[1]])
  BY <1>1, <1>2, NewIdType DEF IInv, NewId
<1>4. /\ collections' = [collections EXCEPT ![out[1]] = @ \cup {made}]
      /\ history' = history \cup (parents \X {made})
      /\ UNCHANGED <<folder, failed, stage, out>>
  BY DEF MakeFrom
<1>5. /\ DOMAIN collections' = DOMAIN collections
      /\ collections'[out[1]] = collections[out[1]] \cup {made}
      /\ \A a \in DOMAIN collections : a # out[1] => collections'[a] = collections[a]
      /\ collections[out[1]] \in Pool
  BY <1>1, <1>4
<1>6. IndexInv'
  <2>1. \A x \in collections[out[1]] \cup {made} :
           x.index < Cardinality(collections[out[1]] \cup {made})
    <3>1. collections[out[1]] \cup {made} \in Pool
      BY <1>3, <1>5, PoolGrows
    <3> QED BY <1>1, <1>3, <1>5, <3>1, IndexGrows DEF OriginInv, IndexInv
  <2> QED BY <1>5, <2>1 DEF OriginInv, IndexInv
<1>7. \A t : hasCollection(t)' = hasCollection(t)
  BY <1>4 DEF hasCollection
<1>8. Doomed' <=> Doomed \/ hasCollection(ts)
  BY <1>1, <1>3, <1>4, <1>5, <1>7 DEF Doomed
<1>9. ASSUME ~Doomed'
      PROVE  RanksRise' /\ TracksHaveOneParent' /\ AllButGeneratedHaveParents' /\ GroupsRankBelow'
  <2>1. /\ RanksRise /\ TracksHaveOneParent /\ AllButGeneratedHaveParents /\ GroupsRankBelow
        /\ ~hasCollection(ts) /\ \A q \in parents : Rank[q.ts] < Rank[ts]
    BY <1>1, <1>8, <1>9 DEF OriginInv
  <2>2. RanksRise'
    BY <1>3, <1>4, <2>1 DEF RanksRise
  <2>3. \A l \in history' : l[2].ts \in {"tt", "ts"} => l \in history
    BY <1>3, <1>4
  <2>4. TracksHaveOneParent'
    BY <2>1, <2>3 DEF TracksHaveOneParent
  <2>5. AllButGeneratedHaveParents'
    <3> SUFFICES ASSUME NEW id \in Object, Present(id)', id.ts # "ps"
                 PROVE  \E link \in history' : link[2] = id
      BY DEF AllButGeneratedHaveParents, Parents
    <3>1. CASE id = made
      <4>1. PICK q \in parents : TRUE
        OBVIOUS
      <4>2. <<q, made>> \in history'
        BY <1>4, <4>1
      <4> QED BY <3>1, <4>2
    <3>2. CASE id # made
      <4>1. hasObject(id)' => hasObject(id)
        <5> SUFFICES ASSUME hasObject(id)' PROVE hasObject(id)
          OBVIOUS
        <5>1. id.ts \in TypeAndSubtype
          BY DEF Object
        <5>2. collectionIds(id.ts)' = collectionIds(id.ts)
          BY <1>1, <1>4, <1>5, <5>1, OthersStay DEF IInv
        <5> QED BY <5>2 DEF hasObject
      <4>2. Present(id)
        BY <1>1, <1>4, <1>5, <3>2, <4>1 DEF Present
      <4>3. PICK link \in history : link[2] = id
        BY <2>1, <4>2 DEF AllButGeneratedHaveParents, Parents
      <4> QED BY <1>4, <4>3
    <3> QED BY <3>1, <3>2
  <2>6. GroupsRankBelow'
    <3> SUFFICES ASSUME NEW g \in todo', NEW x \in g
                 PROVE  /\ stage = "simulate" => x.ts = "ps"
                        /\ stage = "merge" => \A y \in g : x.ts = y.ts
                        /\ stage \in {"build", "simplify"} => Rank[x.ts] < 4
                        /\ stage = "reconstruct" => Rank[x.ts] < 5
      BY <1>4 DEF GroupsRankBelow
    <3>1. PICK h \in todo : g \subseteq h
      OBVIOUS
    <3> QED BY <2>1, <3>1 DEF GroupsRankBelow
  <2> QED BY <2>2, <2>4, <2>5, <2>6
<1> QED BY <1>6, <1>9 DEF OriginInv

\* Clusters that are merged again are doomed: the folder of merged ones is taken.
LEMMA MergeKeepsOrigin ==
  ASSUME IInv, OriginInv, NEW S, MergeGroup(S)
  PROVE  OriginInv'
<1>1. /\ stage = "merge" /\ todo # {} /\ S \subseteq Turn /\ First(Turn) \in S
      /\ Turn \in todo /\ Turn \in SUBSET Object /\ failed = "no"
      /\ \A id \in Turn : id.ts \in Clusters /\ hasObject(id)
  BY DEF MergeGroup, Turn, IInv, Shape, StageInv, LinkInv
<1>2. CASE \E c \in S : Merged(c)
  <2>1. failed' = "merge" /\ collections' = collections
    BY <1>2 DEF MergeGroup, Throw
  <2> QED BY <2>1 DEF OriginInv, IndexInv
<1>3. CASE ~ \E c \in S : Merged(c)
  <2>1. PICK ts : ts = MergedOf[First(S).ts]
    OBVIOUS
  <2>2. First(S) \in S
    BY <1>1, FirstIsInGroup
  <2>3. /\ ts \in {"em", "hm"} /\ First(S).ts \in Clusters /\ hasObject(First(S))
        /\ (First(S).ts = ts \/ Rank[First(S).ts] < Rank[ts])
    BY <1>1, <2>1, <2>2, Ranks DEF MergedOf, Clusters
  <2>4. MakeFrom(ts, S) /\ todo' = (todo \ {Turn}) \cup ({Turn \ S} \ {{}})
    BY <1>3, <2>1 DEF MergeGroup
  <2>5. \A g \in todo' : \E h \in todo : g \subseteq h
    BY <1>1, <2>4
  <2>6. ~Doomed => hasCollection(ts) \/ \A q \in S : Rank[q.ts] < Rank[ts]
    <3> SUFFICES ASSUME ~Doomed, NEW q \in S PROVE hasCollection(ts) \/ Rank[q.ts] < Rank[ts]
      OBVIOUS
    <3>1. q.ts = First(S).ts
      BY <1>1, <2>2 DEF OriginInv, GroupsRankBelow
    <3>2. First(S).ts = ts => hasCollection(ts)
      BY <2>3 DEF hasObject, collectionIds
    <3> QED BY <2>3, <3>1, <3>2
  <2>7. S \in SUBSET Object /\ S # {}
    BY <1>1
  <2> QED BY <1>1, <2>3, <2>4, <2>5, <2>6, <2>7, LinkedKeepsOrigin
<1> QED BY <1>2, <1>3

LEMMA BlockKeepsOrigin ==
  ASSUME IInv, OriginInv, NEW S, MakeBlock(S)
  PROVE  OriginInv'
<1>1. /\ stage \in {"build", "simplify"} /\ S \subseteq Turn /\ S # {}
      /\ Turn \in todo /\ Turn \in SUBSET Object /\ failed = "no"
      /\ todo' = (todo \ {Turn}) \cup ({Turn \ S} \ {{}})
  BY DEF MakeBlock, Turn, IInv, Shape, StageInv
<1>2. PICK ts \in {"br", "bs"} : MakeFrom(ts, S)
  BY DEF MakeBlock
<1>3. \A g \in todo' : \E h \in todo : g \subseteq h
  BY <1>1
<1>4. ~Doomed => hasCollection(ts) \/ \A q \in S : Rank[q.ts] < Rank[ts]
  BY <1>1, Ranks DEF OriginInv, GroupsRankBelow
<1> QED BY <1>1, <1>2, <1>3, <1>4, LinkedKeepsOrigin

LEMMA ParticleKeepsOrigin ==
  ASSUME IInv, OriginInv, NEW others, MakeParticle(others)
  PROVE  OriginInv'
<1>1. /\ stage = "reconstruct" /\ Turn \in todo /\ Turn \in SUBSET Object /\ failed = "no"
      /\ todo' = todo \ {Turn}
      /\ MakeFrom("pr", Turn \cup others)
  BY DEF MakeParticle, Turn, IInv, Shape, StageInv
<1>2. PICK b \in Turn : others \subseteq Parents(b)
  BY DEF MakeParticle
<1>3. others \in SUBSET Object
  BY <1>1, <1>2, ParentsArePresent
<1>4. ~Doomed => \A q \in Turn \cup others : Rank[q.ts] < Rank["pr"]
  <2> SUFFICES ASSUME ~Doomed, NEW q \in Turn \cup others PROVE Rank[q.ts] < Rank["pr"]
    OBVIOUS
  <2>1. CASE q \in Turn
    BY <1>1, <2>1, Ranks DEF OriginInv, GroupsRankBelow
  <2>2. CASE q \in others
    <3>1. PICK link \in history : link[1] = q /\ link[2] = b
      BY <1>2, <2>2 DEF Parents
    <3>2. Rank[q.ts] < Rank[b.ts]
      BY <1>1, <3>1 DEF OriginInv, RanksRise
    <3>3. b.ts \in TypeAndSubtype /\ q.ts \in TypeAndSubtype
      BY <1>1, <1>3, <2>2 DEF Object
    <3> QED BY <3>2, <3>3, Ranks
  <2> QED BY <2>1, <2>2
<1>5. Turn \cup others \in SUBSET Object /\ Turn \cup others # {}
  BY <1>1, <1>2, <1>3
<1>6. \A g \in todo' : \E h \in todo : g \subseteq h
  BY <1>1
<1> QED BY <1>1, <1>4, <1>5, <1>6, LinkedKeepsOrigin
-----------------------------------------------------------------------------
\* What deposits do to the collections and to the history: each kind of object
\* at most once.
LinkTo(p, ts) == <<IF ts \in DOMAIN TrueOf THEN New(TrueOf[ts]) ELSE p, New(ts)>>

LEMMA DepositMakes ==
  ASSUME IInv, stage = "simulate", NEW p \in Object, Present(p), NEW made \in SUBSET Made,
         \A ts \in made : ts \in DOMAIN TrueOf => TrueOf[ts] \in made,
         Deposit(p, made)
  PROVE  /\ collections \in Seq(Pool) /\ collections' \in Seq(Pool)
         /\ DOMAIN collections' = DOMAIN collections /\ DOMAIN out = 1 .. 6
         /\ \A ts \in Made : New(ts) \in Object /\ New(ts).ts = ts
         /\ \A ts \in Made : \E i \in DOMAIN out :
              /\ Outputs[i] = ts /\ New(ts) = NewId(ts, out[i])
              /\ \A j \in DOMAIN out \ {i} : \A id \in collections[out[j]] : id.ts # ts
         /\ \A a \in DOMAIN collections :
              \/ collections'[a] = collections[a]
              \/ \E ts \in made : /\ collections'[a] = collections[a] \cup {New(ts)}
                                  /\ New(ts).index = Cardinality(collections[a])
         /\ history' = history \cup {LinkTo(p, ts) : ts \in made}
<1>1. /\ collections \in Seq(Pool) /\ collections' \in Seq(Pool)
      /\ DOMAIN collections' = DOMAIN collections /\ DOMAIN out = 1 .. 6
      /\ \A i, j \in 1 .. 6 : out[i] = out[j] => i = j
      /\ \A i \in 1 .. 6 : out[i] \in DOMAIN collections
      /\ \A i \in 1 .. 6 : \A id \in collections[out[i]] : id.ts = Outputs[i]
  <2>1. collections' \in Seq(Pool) /\ DOMAIN collections' = DOMAIN collections
    BY DepositKeeps
  <2> QED BY <2>1 DEF IInv, Shape, StageInv
<1>2. \A i, j \in 1 .. 6 : Outputs[i] = Outputs[j] => i = j
  BY DEF Outputs
<1>3. ASSUME NEW ts \in Made
      PROVE  \E i \in 1 .. 6 : /\ Outputs[i] = ts /\ Address(ts) = out[i]
                               /\ New(ts) \in Object /\ New(ts).ts = ts
                               /\ New(ts) = NewId(ts, out[i])
                               /\ New(ts).index = Cardinality(collections[out[i]])
  <2>1. PICK i \in 1 .. 6 : Outputs[i] = ts /\ Address(ts) = out[i] /\ out[i] \in DOMAIN collections
    BY AddressOf DEF IInv
  <2>2. ts \in TypeAndSubtype
    BY DEF Made, TypeAndSubtype, Clusters
  <2>3. NewId(ts, out[i]) \in Object /\ NewId(ts, out[i]).ts = ts
    BY <2>1, <2>2, NewIdType DEF IInv
  <2>4. NewId(ts, out[i]).index = Cardinality(collections[out[i]])
    BY DEF NewId
  <2> QED BY <2>1, <2>3, <2>4 DEF New
<1>4. \A ts \in Made : \E i \in DOMAIN out :
        /\ Outputs[i] = ts /\ New(ts) = NewId(ts, out[i])
        /\ \A j \in DOMAIN out \ {i} : \A id \in collections[out[j]] : id.ts # ts
  <2> TAKE ts \in Made
  <2>1. PICK i \in 1 .. 6 : Outputs[i] = ts /\ New(ts) = NewId(ts, out[i])
    BY <1>3
  <2>2. \A j \in DOMAIN out \ {i} : \A id \in collections[out[j]] : id.ts # ts
    BY <1>1, <1>2, <2>1
  <2> QED BY <1>1, <2>1, <2>2
<1>5. ASSUME NEW a \in DOMAIN collections
      PROVE  \/ collections'[a] = collections[a]
             \/ \E ts \in made : /\ collections'[a] = collections[a] \cup {New(ts)}
                                 /\ New(ts).index = Cardinality(collections[a])
  <2>1. collections'[a] = collections[a] \cup {New(ts) : ts \in {t \in made : Address(t) = a}}
    BY DEF Deposit
  <2>2. CASE \A t \in made : Address(t) # a
    BY <2>1, <2>2
  <2>3. ASSUME NEW ts \in made, Address(ts) = a
        PROVE  /\ collections'[a] = collections[a] \cup {New(ts)}
               /\ New(ts).index = Cardinality(collections[a])
    <3>1. \A t \in made : Address(t) = a => t = ts
      BY <1>1, <1>3, <2>3
    <3>2. {t \in made : Address(t) = a} = {ts}
      BY <2>3, <3>1
    <3>3. New(ts).index = Cardinality(collections[a])
      BY <1>3, <2>3
    <3> QED BY <2>1, <3>2, <3>3
  <2> QED BY <2>2, <2>3
<1>6. history' = history \cup {LinkTo(p, ts) : ts \in made}
  BY DEF Deposit, LinkTo
<1>7. \A ts \in Made : New(ts) \in Object /\ New(ts).ts = ts
  BY <1>3
<1> QED BY <1>1, <1>4, <1>5, <1>6, <1>7

\* What a particle leaves behind has it, or what was made of it, as parent.
LEMMA SimulatedKeepsOrigin ==
  ASSUME IInv, OriginInv, NEW p, NEW made \in SUBSET Made,
         \A ts \in made : ts \in DOMAIN TrueOf => TrueOf[ts] \in made,
         p \in UNION todo, Simulated(p, made) \/ NotExtrapolated(p, made)
  PROVE  OriginInv'
<1>1. /\ stage = "simulate" /\ failed = "no" /\ Deposit(p, made) /\ folder' = folder
      /\ p \in Object /\ Present(p)
  BY DEF Simulated, NotExtrapolated, Throw, IInv, StageInv, Shape, LinkInv, Present
<1>2. /\ collections \in Seq(Pool) /\ collections' \in Seq(Pool)
      /\ DOMAIN collections' = DOMAIN collections /\ DOMAIN out = 1 .. 6
      /\ \A ts \in Made : New(ts) \in Object /\ New(ts).ts = ts
      /\ \A ts \in Made : \E i \in DOMAIN out :
           /\ Outputs[i] = ts /\ New(ts) = NewId(ts, out[i])
           /\ \A j \in DOMAIN out \ {i} : \A id \in collections[out[j]] : id.ts # ts
      /\ \A a \in DOMAIN collections :
           \/ collections'[a] = collections[a]
           \/ \E ts \in made : /\ collections'[a] = collections[a] \cup {New(ts)}
                               /\ New(ts).index = Cardinality(collections[a])
      /\ history' = history \cup {LinkTo(p, ts) : ts \in made}
  BY <1>1, DepositMakes
<1>3. IndexInv'
  <2> SUFFICES ASSUME NEW a \in DOMAIN collections
               PROVE  \A id \in collections'[a] : id.index < Cardinality(collections'[a])
    BY <1>2 DEF IndexInv
  <2>1. \A id \in collections[a] : id.index < Cardinality(collections[a])
    BY DEF OriginInv, IndexInv
  <2>2. ASSUME NEW ts \in made, collections'[a] = collections[a] \cup {New(ts)},
               New(ts).index = Cardinality(collections[a])
        PROVE  \A id \in collections'[a] : id.index < Cardinality(collections'[a])
    <3>1. collections[a] \in Pool /\ collections'[a] \in Pool /\ New(ts) \in Object
      BY <1>2
    <3> QED BY <2>1, <2>2, <3>1, IndexGrows
  <2> QED BY <1>2, <2>1, <2>2
<1>4. CASE NotExtrapolated(p, made)
  <2>1. failed' = "simulation"
    BY <1>4 DEF NotExtrapolated, Throw
  <2> QED BY <1>3, <2>1 DEF OriginInv
<1>5. CASE Simulated(p, made)
  <2>1. UNCHANGED <<folder, failed, stage, out>> /\ \E g \in todo : todo' = {g \ {p}} \ {{}}
    BY <1>5 DEF Simulated
  <2>2. \A t : hasCollection(t)' = hasCollection(t)
    BY <2>1 DEF hasCollection
  <2>3. \A ts \in made : \E i \in DOMAIN out : New(ts) \in collections'[out[i]]
    <3> TAKE ts \in made
    <3>1. PICK i \in 1 .. 6 : Address(ts) = out[i] /\ out[i] \in DOMAIN collections
      BY <1>1, AddressOf DEF IInv
    <3>2. collections'[out[i]] =
            collections[out[i]] \cup {New(t) : t \in {u \in made : Address(u) = out[i]}}
      BY <1>1, <3>1 DEF Deposit
    <3> QED BY <1>2, <3>1, <3>2
  <2>4. \A i \in DOMAIN out : collections[out[i]] \subseteq collections'[out[i]]
    <3> TAKE i \in DOMAIN out
    <3>1. out[i] \in DOMAIN collections
      BY DEF IInv, StageInv
    <3> QED BY <1>2, <3>1
  <2>5. Doomed \/ (\E ts \in made : hasCollection(ts)) => Doomed'
    <3>1. Doomed => Doomed'
      BY <2>1, <2>2, <2>4 DEF Doomed
    <3>2. (\E ts \in made : hasCollection(ts)) => Doomed'
      BY <1>2, <2>1, <2>2, <2>3 DEF Doomed
    <3> QED BY <3>1, <3>2
  <2>6. ASSUME ~Doomed'
        PROVE  RanksRise' /\ TracksHaveOneParent' /\ AllButGeneratedHaveParents' /\ GroupsRankBelow'
    <3>1. /\ RanksRise /\ TracksHaveOneParent /\ AllButGeneratedHaveParents /\ GroupsRankBelow
          /\ \A ts \in made : ~hasCollection(ts)
          /\ p.ts = "ps"
      BY <1>1, <2>5, <2>6 DEF OriginInv, GroupsRankBelow
    <3>2. \A ts \in made : \A link \in history : link[2] # New(ts)
      <4> SUFFICES ASSUME NEW ts \in made PROVE \A link \in history : link[2] # New(ts)
        OBVIOUS
      <4>1. PICK i \in DOMAIN out :
              /\ New(ts) = NewId(ts, out[i])
              /\ \A j \in DOMAIN out \ {i} : \A id \in collections[out[j]] : id.ts # ts
        BY <1>2
      <4>2. ts \in TypeAndSubtype /\ ~hasCollection(ts)
        BY <3>1 DEF Made, TypeAndSubtype, Clusters
      <4> QED BY <1>1, <4>1, <4>2, NewIsUnknown DEF OriginInv
    <3>3. \A ts \in made : /\ LinkTo(p, ts)[2] = New(ts) /\ New(ts).ts = ts
                           /\ Rank[LinkTo(p, ts)[1].ts] < Rank[ts]
                           /\ ts = "ts" => LinkTo(p, ts)[1].ts = "tt"
      <4> TAKE ts \in made
      <4>1. LinkTo(p, ts)[2] = New(ts) /\ New(ts).ts = ts
        BY <1>2 DEF LinkTo
      <4>2. CASE ts \in DOMAIN TrueOf
        <5>1. TrueOf[ts] \in Made /\ LinkTo(p, ts)[1] = New(TrueOf[ts])
          BY <4>2 DEF LinkTo
        <5>2. LinkTo(p, ts)[1].ts = TrueOf[ts]
          BY <1>2, <5>1
        <5>3. Rank[TrueOf[ts]] < Rank[ts] /\ (ts = "ts" => TrueOf[ts] = "tt")
          BY <4>2, Ranks DEF TrueOf
        <5> QED BY <4>1, <5>2, <5>3
      <4>3. CASE ts \notin DOMAIN TrueOf
        <5>1. LinkTo(p, ts)[1] = p
          BY <4>3 DEF LinkTo
        <5>2. ts \in {"et", "ht", "tt"}
          BY <4>3 DEF TrueOf, Made
        <5> QED BY <3>1, <4>1, <5>1, <5>2, Ranks
      <4> QED BY <4>2, <4>3
    <3>4. \A l \in history' : l \in history \/ \E ts \in made : l = LinkTo(p, ts)
      BY <1>2
    <3>5. RanksRise'
      BY <3>1, <3>3, <3>4 DEF RanksRise
    <3>6. TracksHaveOneParent'
      <4> SUFFICES ASSUME NEW l \in history', NEW m \in history', l[2] = m[2],
                          l[2].ts \in {"tt", "ts"}
                   PROVE  l[1] = m[1]
        BY DEF TracksHaveOneParent
      <4>1. CASE l \in history /\ m \in history
        BY <3>1, <4>1 DEF TracksHaveOneParent
      <4>2. CASE \E t \in made : l = LinkTo(p, t)
        BY <3>2, <3>3, <3>4, <4>2
      <4>3. CASE \E t \in made : m = LinkTo(p, t)
        BY <3>2, <3>3, <3>4, <4>3
      <4> QED BY <3>4, <4>1, <4>2, <4>3
    <3>7. AllButGeneratedHaveParents'
      <4> SUFFICES ASSUME NEW id \in Object, Present(id)', id.ts # "ps"
                   PROVE  \E link \in history' : link[2] = id
        BY DEF AllButGeneratedHaveParents, Parents
      <4>1. CASE \E ts \in made : id = New(ts)
        BY <1>2, <3>3, <4>1
      <4>2. CASE ~ \E ts \in made : id = New(ts)
        <5>1. hasObject(id)' => hasObject(id)
          <6>1. id.ts \in TypeAndSubtype
            BY DEF Object
          <6>2. \A a \in DOMAIN collections :
                  (\A i \in DOMAIN out : out[i] # a) => collections'[a] = collections[a]
            BY <1>1, DepositKeeps
          <6>3. collectionIds(id.ts)' = collectionIds(id.ts)
            BY <1>2, <2>1, <6>1, <6>2, OthersStay DEF IInv
          <6> QED BY <6>3 DEF hasObject
        <5>2. \A i \in DOMAIN out : id \in collections'[out[i]] => id \in collections[out[i]]
          <6> TAKE i \in DOMAIN out
          <6>1. out[i] \in DOMAIN collections
            BY DEF IInv, StageInv
          <6> QED BY <1>2, <4>2, <6>1
        <5>3. Present(id)
          BY <2>1, <5>1, <5>2 DEF Present
        <5>4. PICK link \in history : link[2] = id
          BY <3>1, <5>3 DEF AllButGeneratedHaveParents, Parents
        <5> QED BY <1>2, <5>4
      <4> QED BY <4>1, <4>2
    <3>8. GroupsRankBelow'
      BY <1>1, <2>1, <3>1 DEF GroupsRankBelow
    <3> QED BY <3>5, <3>6, <3>7, <3>8
  <2> QED BY <1>3, <2>6 DEF OriginInv
<1> QED BY <1>4, <1>5

LEMMA NothingKeepsOrigin ==
  ASSUME IInv, OriginInv, MakeNothing
  PROVE  OriginInv'
<1>1. UNCHANGED <<collections, folder, history, failed, stage, out>> /\ todo' \subseteq todo
  BY DEF MakeNothing, eventVars
<1>2. IndexInv' /\ (Doomed' <=> Doomed)
  BY <1>1 DEF OriginInv, IndexInv, Doomed, hasCollection
<1>3. RanksRise /\ TracksHaveOneParent => RanksRise' /\ TracksHaveOneParent'
  BY <1>1 DEF RanksRise, TracksHaveOneParent
<1>4. AllButGeneratedHaveParents => AllButGeneratedHaveParents'
  BY <1>1 DEF AllButGeneratedHaveParents, Present, hasObject, collectionIds, hasCollection, Parents
<1>5. GroupsRankBelow => GroupsRankBelow'
  BY <1>1 DEF GroupsRankBelow
<1> QED BY <1>1, <1>2, <1>3, <1>4, <1>5 DEF OriginInv

\* If an object was made for a folder that is taken, the stage throws.
LEMMA DoomedThrows ==
  ASSUME IInv, Finish, Doomed
  PROVE  failed' # "no"
<1> PICK stops : stops = {i \in DOMAIN out : Refused(collections[out[i]]) # "no"}
  OBVIOUS
<1>1. PICK i \in DOMAIN out : \E id \in collections[out[i]] : hasCollection(id.ts)
  BY DEF Doomed
<1>2. Refused(collections[out[i]]) # "no"
  BY <1>1 DEF Refused
<1>3. stops # {} /\ stops \in SUBSET Nat
  <2>1. DOMAIN out \subseteq Nat
    BY DEF IInv, Shape
  <2> QED BY <1>2, <2>1
<1>4. PICK least \in stops : \A j \in stops : least <= j
  BY <1>3, LeastNat
<1>5. PICK k : k = CHOOSE first \in stops : \A j \in stops : first <= j
  OBVIOUS
<1>6. k \in stops
  BY <1>4, <1>5
<1>7. failed' = Refused(collections[out[k]])
  BY <1>3, <1>5 DEF Finish, AddCollections
<1> QED BY <1>6, <1>7

LEMMA FinishKeepsOrigin ==
  ASSUME IInv, OriginInv, Finish
  PROVE  OriginInv'
<1>1. /\ UNCHANGED <<collections, history>> /\ todo = {} /\ todo' = {} /\ out' = <<>>
      /\ failed = "no"
  BY DEF Finish, IInv, StageInv
<1>2. IndexInv'
  BY <1>1 DEF OriginInv, IndexInv
<1>3. ASSUME failed' = "no"
      PROVE  RanksRise' /\ TracksHaveOneParent' /\ AllButGeneratedHaveParents' /\ GroupsRankBelow'
  <2>1. RanksRise /\ TracksHaveOneParent /\ AllButGeneratedHaveParents
    BY <1>1, <1>3, DoomedThrows DEF OriginInv
  <2>2. RanksRise' /\ TracksHaveOneParent' /\ GroupsRankBelow'
    BY <1>1, <2>1 DEF RanksRise, TracksHaveOneParent, GroupsRankBelow
  <2>3. ASSUME NEW id \in Object, Present(id)' PROVE Present(id)
    <3>1. id.ts \in TypeAndSubtype /\ hasObject(id)'
      BY <1>1, <2>3 DEF Object, Present
    <3>2. folder'[id.ts] # 0 /\ id \in collections[folder'[id.ts]]
      BY <1>1, <3>1 DEF hasObject, collectionIds, hasCollection
    <3>3. folder'[id.ts] = folder[id.ts] \/ \E i \in DOMAIN out : folder'[id.ts] = out[i]
      <4> PICK added : added = {i \in DOMAIN out :
                /\ collections[out[i]] # {}
                /\ \A j \in {n \in DOMAIN out : Refused(collections[out[n]]) # "no"} : i < j}
        OBVIOUS
      <4>1. folder'[id.ts] = IF \E i \in added : id.ts \in {x.ts : x \in collections[out[i]]}
              THEN out[CHOOSE i \in added : id.ts \in {x.ts : x \in collections[out[i]]}]
              ELSE folder[id.ts]
        BY <3>1 DEF Finish, AddCollections
      <4> QED BY <4>1
    <3>4. folder'[id.ts] = folder[id.ts] => hasObject(id)
      BY <3>2 DEF hasObject, collectionIds, hasCollection
    <3> QED BY <3>2, <3>3, <3>4 DEF Present
  <2>4. AllButGeneratedHaveParents'
    BY <1>1, <2>1, <2>3 DEF AllButGeneratedHaveParents, Parents
  <2> QED BY <2>2, <2>4
<1> QED BY <1>2, <1>3 DEF OriginInv

\* The new collections are empty.
LEMMA BeginKeepsIndex ==
  ASSUME IInv, IndexInv, NEW s \in Stages, NEW n \in {1, 6}, NEW g, Begin(s, n, g)
  PROVE  IndexInv'
<1>1. /\ stage = "ready" /\ failed = "no" /\ out = <<>>
      /\ collections' = collections \o [i \in 1 .. n |-> {}]
      /\ out' = [i \in 1 .. n |-> Len(collections) + i]
      /\ stage' = s /\ todo' = g \ {{}} /\ UNCHANGED <<folder, history, failed>>
      /\ collections \in Seq(Pool) /\ Len(collections) \in Nat
  BY DEF Begin, Idle, IInv, Shape, StageInv
<1>2. [i \in 1 .. n |-> {}] \in Seq(Pool) /\ Len([i \in 1 .. n |-> {}]) = n
  BY FS_EmptySet DEF Pool
<1>3. /\ DOMAIN collections' = 1 .. Len(collections) + n /\ DOMAIN collections = 1 .. Len(collections)
      /\ \A a \in DOMAIN collections : collections'[a] = collections[a]
      /\ \A a \in DOMAIN collections' \ DOMAIN collections : collections'[a] = {}
      /\ \A i \in DOMAIN out' : collections'[out'[i]] = {}
  <2>1. /\ DOMAIN collections' = 1 .. Len(collections) + n /\ DOMAIN collections = 1 .. Len(collections)
        /\ \A a \in DOMAIN collections : collections'[a] = collections[a]
        /\ \A i \in 1 .. n : collections'[Len(collections) + i] = {}
    BY <1>1, <1>2
  <2>2. \A a \in DOMAIN collections' \ DOMAIN collections : a - Len(collections) \in 1 .. n
    BY <1>1, <2>1
  <2>3. \A a \in DOMAIN collections' \ DOMAIN collections : collections'[a] = {}
    <3> TAKE a \in DOMAIN collections' \ DOMAIN collections
    <3>1. a = Len(collections) + (a - Len(collections))
      BY <1>1, <2>1
    <3> QED BY <2>1, <2>2, <3>1
  <2> QED BY <1>1, <2>1, <2>3
<1>4. QED
  <2> SUFFICES ASSUME NEW a \in DOMAIN collections', NEW id \in collections'[a]
               PROVE  id.index < Cardinality(collections'[a])
    BY DEF IndexInv
  <2>1. a \in DOMAIN collections /\ id \in collections[a] /\ collections'[a] = collections[a]
    BY <1>3
  <2> QED BY <2>1 DEF IndexInv

\* A stage begins with groups of objects of the right ranks.
LEMMA BeginKeepsOrigin ==
  ASSUME IInv, OriginInv, NEW s \in Stages, NEW n \in {1, 6}, NEW g, Begin(s, n, g),
         \A S \in g : \A x \in S :
           /\ s = "simulate" => x.ts = "ps"
           /\ s = "merge" => \A y \in S : x.ts = y.ts
           /\ s \in {"build", "simplify"} => Rank[x.ts] < 4
           /\ s = "reconstruct" => Rank[x.ts] < 5
  PROVE  OriginInv'
<1>1. /\ stage = "ready" /\ failed = "no" /\ out = <<>>
      /\ collections' = collections \o [i \in 1 .. n |-> {}]
      /\ out' = [i \in 1 .. n |-> Len(collections) + i]
      /\ stage' = s /\ todo' = g \ {{}} /\ UNCHANGED <<folder, history, failed>>
      /\ collections \in Seq(Pool) /\ Len(collections) \in Nat
  BY DEF Begin, Idle, IInv, Shape, StageInv
<1>2. [i \in 1 .. n |-> {}] \in Seq(Pool) /\ Len([i \in 1 .. n |-> {}]) = n
  BY FS_EmptySet DEF Pool
<1>3. /\ DOMAIN collections' = 1 .. Len(collections) + n /\ DOMAIN collections = 1 .. Len(collections)
      /\ \A a \in DOMAIN collections : collections'[a] = collections[a]
      /\ \A a \in DOMAIN collections' \ DOMAIN collections : collections'[a] = {}
      /\ \A i \in DOMAIN out' : collections'[out'[i]] = {}
  <2>1. /\ DOMAIN collections' = 1 .. Len(collections) + n /\ DOMAIN collections = 1 .. Len(collections)
        /\ \A a \in DOMAIN collections : collections'[a] = collections[a]
        /\ \A i \in 1 .. n : collections'[Len(collections) + i] = {}
    BY <1>1, <1>2
  <2>2. \A a \in DOMAIN collections' \ DOMAIN collections : a - Len(collections) \in 1 .. n
    BY <1>1, <2>1
  <2>3. \A a \in DOMAIN collections' \ DOMAIN collections : collections'[a] = {}
    <3> TAKE a \in DOMAIN collections' \ DOMAIN collections
    <3>1. a = Len(collections) + (a - Len(collections))
      BY <1>1, <2>1
    <3> QED BY <2>1, <2>2, <3>1
  <2> QED BY <1>1, <2>1, <2>3
<1>4. IndexInv'
  BY BeginKeepsIndex DEF OriginInv
<1>5. RanksRise /\ TracksHaveOneParent /\ AllButGeneratedHaveParents
  BY <1>1 DEF OriginInv, Doomed
<1>6. RanksRise' /\ TracksHaveOneParent'
  BY <1>1, <1>5 DEF RanksRise, TracksHaveOneParent
<1>7. ASSUME NEW id \in Object, Present(id)' PROVE Present(id)
  <2>1. collectionIds(id.ts)' = collectionIds(id.ts)
    <3>1. id.ts \in TypeAndSubtype
      BY DEF Object
    <3> QED BY <1>1, <1>3, <3>1, OthersStay DEF IInv
  <2> QED BY <1>3, <1>7, <2>1 DEF Present, hasObject
<1>8. AllButGeneratedHaveParents'
  BY <1>1, <1>5, <1>7 DEF AllButGeneratedHaveParents, Parents
<1>9. GroupsRankBelow'
  BY <1>1 DEF GroupsRankBelow
<1> QED BY <1>4, <1>6, <1>8, <1>9 DEF OriginInv

\* The particles of an event are numbered from zero.
LEMMA AddKeepsIndex ==
  ASSUME IInv, IndexInv, NEW n \in Nat, AddParticles(n)
  PROVE  IndexInv'
<1> PICK c : c = [ts : {"ps"}, index : 0 .. n - 1]
  OBVIOUS
<1>1. /\ stage = "ready" /\ failed = "no" /\ out = <<>> /\ todo = {}
      /\ collections' = Append(collections, c)
      /\ out' = <<Len(collections) + 1>> /\ stage' = "add"
      /\ UNCHANGED <<folder, history, failed, todo>>
      /\ collections \in Seq(Pool) /\ Len(collections) \in Nat
  BY DEF AddParticles, Idle, IInv, Shape, StageInv
<1>2. Cardinality(c) = n
  <2> PICK D : D = 0 .. n - 1
    OBVIOUS
  <2>1. IsFiniteSet(D) /\ Cardinality(D) = n
    BY FS_Interval
  <2> PICK f : f = [k \in D |-> [ts |-> "ps", index |-> k]]
    OBVIOUS
  <2>2. f \in [D -> c]
    OBVIOUS
  <2>3. f \in Bijection(D, c)
    BY <2>2 DEF Bijection, Injection, Surjection, IsInjective
  <2>4. ExistsBijection(D, c)
    BY <2>3 DEF ExistsBijection
  <2>5. Cardinality(c) = Cardinality(D)
    BY ONLY <2>1, <2>4, FS_Bijection
  <2> QED BY <2>1, <2>5
<1>3. /\ DOMAIN collections' = 1 .. Len(collections) + 1 /\ DOMAIN collections = 1 .. Len(collections)
      /\ \A a \in DOMAIN collections : collections'[a] = collections[a]
      /\ collections'[Len(collections) + 1] = c
  <2>1. collections \in Seq(Pool) /\ collections' = Append(collections, c)
    BY <1>1
  <2>2. DOMAIN collections = 1 .. Len(collections)
    BY <1>1
  <2>3. /\ DOMAIN Append(collections, c) = 1 .. Len(collections) + 1
        /\ \A a \in DOMAIN collections : Append(collections, c)[a] = collections[a]
        /\ Append(collections, c)[Len(collections) + 1] = c
    BY ONLY <2>1, Appended
  <2> QED BY ONLY <2>1, <2>2, <2>3
<1>4. QED
  <2> SUFFICES ASSUME NEW a \in DOMAIN collections', NEW id \in collections'[a]
               PROVE  id.index < Cardinality(collections'[a])
    BY DEF IndexInv
  <2>1. CASE a \in DOMAIN collections
    BY <1>3, <2>1 DEF IndexInv
  <2>2. CASE a = Len(collections) + 1
    <3>1. id \in c /\ collections'[a] = c
      BY <1>3, <2>2
    <3>2. id.index \in 0 .. n - 1
      BY <3>1
    <3> QED BY <1>2, <3>1, <3>2
  <2>3. a \in 1 .. Len(collections) + 1 /\ Len(collections) \in Nat
    BY <1>1, <1>3
  <2>4. a \in 1 .. Len(collections) \/ a = Len(collections) + 1
    BY <2>3
  <2> QED BY <1>3, <2>1, <2>2, <2>4

LEMMA AddKeepsOrigin ==
  ASSUME IInv, OriginInv, NEW n \in Nat, AddParticles(n)
  PROVE  OriginInv'
<1> PICK c : c = [ts : {"ps"}, index : 0 .. n - 1]
  OBVIOUS
<1>1. /\ stage = "ready" /\ failed = "no" /\ out = <<>> /\ todo = {}
      /\ collections' = Append(collections, c)
      /\ out' = <<Len(collections) + 1>> /\ stage' = "add"
      /\ UNCHANGED <<folder, history, failed, todo>>
      /\ collections \in Seq(Pool) /\ Len(collections) \in Nat
  BY DEF AddParticles, Idle, IInv, Shape, StageInv
<1>3. /\ DOMAIN collections' = 1 .. Len(collections) + 1 /\ DOMAIN collections = 1 .. Len(collections)
      /\ \A a \in DOMAIN collections : collections'[a] = collections[a]
      /\ collections'[Len(collections) + 1] = c
  <2>1. collections \in Seq(Pool) /\ collections' = Append(collections, c)
    BY <1>1
  <2>2. DOMAIN collections = 1 .. Len(collections)
    BY <1>1
  <2>3. /\ DOMAIN Append(collections, c) = 1 .. Len(collections) + 1
        /\ \A a \in DOMAIN collections : Append(collections, c)[a] = collections[a]
        /\ Append(collections, c)[Len(collections) + 1] = c
    BY ONLY <2>1, Appended
  <2> QED BY ONLY <2>1, <2>2, <2>3
<1>4. IndexInv'
  BY AddKeepsIndex DEF OriginInv
<1>5. RanksRise /\ TracksHaveOneParent /\ AllButGeneratedHaveParents
  BY <1>1 DEF OriginInv, Doomed
<1>6. RanksRise' /\ TracksHaveOneParent' /\ GroupsRankBelow'
  BY <1>1, <1>5 DEF RanksRise, TracksHaveOneParent, GroupsRankBelow
<1>7. ASSUME NEW id \in Object, Present(id)', id.ts # "ps" PROVE Present(id)
  <2>1. collectionIds(id.ts)' = collectionIds(id.ts)
    <3>1. id.ts \in TypeAndSubtype
      BY DEF Object
    <3> QED BY <1>1, <1>3, <3>1, OthersStay DEF IInv
  <2>2. \A i \in DOMAIN out' : id \notin collections'[out'[i]]
    BY <1>1, <1>3, <1>7
  <2> QED BY <1>7, <2>1, <2>2 DEF Present, hasObject
<1>8. AllButGeneratedHaveParents'
  BY <1>1, <1>5, <1>7 DEF AllButGeneratedHaveParents, Parents
<1> QED BY <1>4, <1>6, <1>8 DEF OriginInv

\* The calls: what the stages are given.
LEMMA CallKeepsOrigin ==
  ASSUME IInv, OriginInv, Call
  PROVE  OriginInv'
<1>1. \A ts \in TypeAndSubtype : /\ collectionIds(ts) \in SUBSET Object
                                 /\ \A id \in collectionIds(ts) : id.ts = ts
  BY CollectionObjects
<1>2. Idle => \A ts \in {"br", "bs"} : \A b \in collectionIds(ts) : \A e \in Parents(b) : Rank[e.ts] < 4
  <2> SUFFICES ASSUME Idle, NEW ts \in {"br", "bs"}, NEW b \in collectionIds(ts), NEW e \in Parents(b)
               PROVE  Rank[e.ts] < 4
    OBVIOUS
  <2>1. failed = "no" /\ ~Doomed
    BY DEF Idle, IInv, StageInv, Doomed
  <2>2. PICK link \in history : link[1] = e /\ link[2] = b
    BY DEF Parents
  <2>3. Rank[e.ts] < Rank[b.ts]
    BY <2>1, <2>2 DEF OriginInv, RanksRise
  <2>4. b.ts = ts
    BY <1>1 DEF TypeAndSubtype
  <2> QED BY <2>3, <2>4, Ranks
<1>3. ASSUME NEW n \in 0 .. NumParticles, AddParticles(n) PROVE OriginInv'
  BY <1>3, AddKeepsOrigin
<1>4. CASE Simulate
  <2>1. Begin("simulate", 6, {collectionIds("ps")})
    BY <1>4 DEF Simulate, Outputs
  <2>2. \A x \in collectionIds("ps") : x.ts = "ps"
    BY <1>1 DEF TypeAndSubtype
  <2> QED BY <2>1, <2>2, BeginKeepsOrigin DEF Stages
<1>5. ASSUME NEW ts \in Clusters, mergeClusters(ts) PROVE OriginInv'
  <2>1. Begin("merge", 1, {collectionIds(ts)})
    BY <1>5 DEF mergeClusters
  <2>2. \A x \in collectionIds(ts) : x.ts = ts
    BY <1>1 DEF TypeAndSubtype
  <2> QED BY <2>1, <2>2, BeginKeepsOrigin DEF Stages
<1>6. ASSUME NEW e \in {"et", "es", "em"}, NEW h \in {"ht", "hs", "hm"}, NEW t \in {"tt", "ts"},
             buildBlocks(e, h, t)
      PROVE  OriginInv'
  <2>1. PICK g : g = collectionIds(e) \cup collectionIds(h) \cup collectionIds(t)
    OBVIOUS
  <2>2. Begin("build", 1, {g})
    BY <1>6, <2>1 DEF buildBlocks
  <2>3. {e, h, t} \subseteq TypeAndSubtype /\ Rank[e] < 4 /\ Rank[h] < 4 /\ Rank[t] < 4
    BY Ranks DEF TypeAndSubtype, Clusters
  <2>4. \A x \in g : Rank[x.ts] < 4
    BY <1>1, <2>1, <2>3
  <2> QED BY <2>2, <2>4, BeginKeepsOrigin DEF Stages
<1>7. ASSUME NEW ts \in {"br", "bs"}, simplifyBlocks(ts) PROVE OriginInv'
  <2>1. PICK g : g = {Parents(b) : b \in collectionIds(ts)}
    OBVIOUS
  <2>2. Begin("simplify", 1, g) /\ Idle
    BY <1>7, <2>1 DEF simplifyBlocks, Begin
  <2>3. \A S \in g : \A x \in S : Rank[x.ts] < 4
    BY <1>2, <2>1, <2>2
  <2> QED BY <2>2, <2>3, BeginKeepsOrigin DEF Stages
<1>8. ASSUME NEW ts \in {"br", "bs"}, reconstruct(ts) PROVE OriginInv'
  <2>1. PICK g : g = UNION {{{b, e} : e \in Parents(b)} : b \in collectionIds(ts)}
    OBVIOUS
  <2>2. Begin("reconstruct", 1, g) /\ Idle
    BY <1>8, <2>1 DEF reconstruct, Begin
  <2>3. \A S \in g : \E b \in collectionIds(ts) : \E e \in Parents(b) : S = {b, e}
    BY <2>1
  <2>4. ASSUME NEW S \in g, NEW x \in S PROVE Rank[x.ts] < 5
    <3>1. PICK b \in collectionIds(ts) : \E e \in Parents(b) : S = {b, e}
      BY <2>3
    <3> PICK e \in Parents(b) : S = {b, e}
      BY <3>1
    <3>2. CASE x = b
      BY <1>1, <3>2, Ranks DEF TypeAndSubtype
    <3>3. CASE x = e
      <4>1. Rank[e.ts] < 4
        BY <1>2, <2>2
      <4>2. Idle => Parents(b) \subseteq Object
        BY ParentsArePresent DEF Idle
      <4>3. Rank[e.ts] \in 0 .. 5
        BY <2>2, <4>2, Ranks DEF Object
      <4> QED BY <3>3, <4>1, <4>3
    <3> QED BY <3>1, <3>2, <3>3
  <2> QED BY <2>2, <2>4, BeginKeepsOrigin DEF Stages
<1>9. CASE clear
  <2>1. /\ collections' = <<>> /\ history' = {} /\ folder' = NoFolder /\ todo' = {} /\ out' = <<>>
    BY <1>9 DEF clear, IInv, StageInv
  <2>2. IndexInv' /\ RanksRise' /\ TracksHaveOneParent' /\ GroupsRankBelow'
    BY <2>1 DEF IndexInv, RanksRise, TracksHaveOneParent, GroupsRankBelow
  <2>3. \A id \in Object : ~Present(id)'
    BY <2>1 DEF Present, hasObject, collectionIds, hasCollection, NoFolder, Object
  <2>4. AllButGeneratedHaveParents'
    BY <2>3 DEF AllButGeneratedHaveParents
  <2> QED BY <2>2, <2>4 DEF OriginInv
<1> QED BY <1>3, <1>4, <1>5, <1>6, <1>7, <1>8, <1>9 DEF Call

LEMMA InitOrigin == Init => OriginInv
<1> SUFFICES ASSUME Init PROVE OriginInv
  OBVIOUS
<1>1. collections = <<>> /\ history = {} /\ folder = NoFolder /\ todo = {} /\ out = <<>>
  BY DEF Init, EventInit
<1>2. IndexInv /\ RanksRise /\ TracksHaveOneParent /\ GroupsRankBelow
  BY <1>1 DEF IndexInv, RanksRise, TracksHaveOneParent, GroupsRankBelow
<1>3. \A id \in Object : ~Present(id)
  BY <1>1 DEF Present, hasObject, collectionIds, hasCollection, NoFolder, Object
<1>4. AllButGeneratedHaveParents
  BY <1>3 DEF AllButGeneratedHaveParents
<1> QED BY <1>2, <1>4 DEF OriginInv

LEMMA NextKeepsOrigin == IInv /\ OriginInv /\ [Next]_vars => OriginInv'
<1> SUFFICES ASSUME IInv, OriginInv, [Next]_vars PROVE OriginInv'
  OBVIOUS
<1>1. CASE vars' = vars
  BY <1>1 DEF vars, eventVars, OriginInv, IndexInv, Doomed, hasCollection, RanksRise,
              TracksHaveOneParent, AllButGeneratedHaveParents, GroupsRankBelow, Present,
              hasObject, collectionIds, Parents
<1>2. CASE SimulateParticle
  <2>1. PICK p \in UNION todo :
          simulatePhoton(p) \/ simulateHadron(p) \/ simulateLepton(p) \/ simulateNothing(p)
    BY <1>2 DEF SimulateParticle
  <2>2. PICK made \in SUBSET Made :
          /\ \A ts \in made : ts \in DOMAIN TrueOf => TrueOf[ts] \in made
          /\ Simulated(p, made) \/ NotExtrapolated(p, made)
    BY <2>1, ParticleLeaves
  <2> QED BY <2>2, SimulatedKeepsOrigin
<1>3. CASE StageStep /\ ~SimulateParticle
  BY <1>3, MergeKeepsOrigin, BlockKeepsOrigin, ParticleKeepsOrigin, NothingKeepsOrigin,
     FinishKeepsOrigin DEF StageStep
<1> QED BY <1>1, <1>2, <1>3, CallKeepsOrigin DEF Next
-----------------------------------------------------------------------------
\* What linkedIds goes up, link by link.
LEMMA LinkedUp ==
  ASSUME NEW id
  PROVE  \E U : /\ U[0] = {id} /\ linkedIds(id) = U[6]
                /\ \A n \in 0 .. 5 : U[n + 1] = U[n] \cup UNION {Parents(a) : a \in U[n]}
<1> DEFINE up(S) == S \cup UNION {Parents(a) : a \in S}
           U0 == {id}
           U1 == up(U0)
           U2 == up(U1)
           U3 == up(U2)
           U4 == up(U3)
           U5 == up(U4)
           U6 == up(U5)
           Step(f) == [n \in 0 .. 6 |->
                         IF n = 0 THEN {id}
                         ELSE LET nearer == f[n - 1]
                              IN nearer \cup UNION {Parents(a) : a \in nearer}]
           W == [n \in 0 .. 6 |-> CASE n = 0 -> U0 [] n = 1 -> U1 [] n = 2 -> U2 [] n = 3 -> U3
                                    [] n = 4 -> U4 [] n = 5 -> U5 [] n = 6 -> U6]
<1>1. W = Step(W)
  <2> HIDE DEF U1, U2, U3, U4, U5, U6
  <2>1. /\ W[0] = U0 /\ W[1] = U1 /\ W[2] = U2 /\ W[3] = U3 /\ W[4] = U4 /\ W[5] = U5 /\ W[6] = U6
    OBVIOUS
  <2> HIDE DEF W
  <2>2. /\ Step(W)[0] = U0 /\ Step(W)[1] = up(U0) /\ Step(W)[2] = up(U1) /\ Step(W)[3] = up(U2)
        /\ Step(W)[4] = up(U3) /\ Step(W)[5] = up(U4) /\ Step(W)[6] = up(U5)
    BY <2>1
  <2> USE DEF U1, U2, U3, U4, U5, U6
  <2> HIDE DEF up, Step
  <2>3. \A n \in 0 .. 6 : W[n] = Step(W)[n]
    <3> TAKE n \in 0 .. 6
    <3>1. n = 0 \/ n = 1 \/ n = 2 \/ n = 3 \/ n = 4 \/ n = 5 \/ n = 6
      OBVIOUS
    <3> QED BY <2>1, <2>2, <3>1
  <2>4. DOMAIN W = 0 .. 6 /\ DOMAIN Step(W) = 0 .. 6
    BY DEF W, Step
  <2>5. W = [n \in 0 .. 6 |-> W[n]] /\ Step(W) = [n \in 0 .. 6 |-> Step(W)[n]]
    BY DEF W, Step
  <2> QED BY <2>3, <2>5
<1> PICK U : U = CHOOSE f : f = Step(f)
  OBVIOUS
<1>2. U = Step(U)
  <2> HIDE DEF Step, W
  <2> QED BY <1>1
<1>3. linkedIds(id) = U[6]
  BY DEF linkedIds
<1>4. U[0] = {id}
  BY <1>2
<1>5. \A n \in 0 .. 5 : U[n + 1] = U[n] \cup UNION {Parents(a) : a \in U[n]}
  <2> TAKE n \in 0 .. 5
  <2>1. n + 1 \in 0 .. 6 /\ n + 1 # 0 /\ (n + 1) - 1 = n
    OBVIOUS
  <2> QED BY <1>2, <2>1
<1> QED BY <1>3, <1>4, <1>5

\* They are within any set that holds the parents of what it holds.
LEMMA LinkedWithin ==
  ASSUME NEW id, NEW C, id \in C, \A a \in C : Parents(a) \subseteq C
  PROVE  linkedIds(id) \subseteq C
<1> PICK U : /\ U[0] = {id} /\ linkedIds(id) = U[6]
             /\ \A n \in 0 .. 5 : U[n + 1] = U[n] \cup UNION {Parents(a) : a \in U[n]}
  BY LinkedUp
<1> DEFINE Within(n) == U[n] \subseteq C
<1>1. Within(0)
  OBVIOUS
<1>2. ASSUME NEW n \in 0 .. 5, Within(n) PROVE Within(n + 1)
  BY <1>2
<1> HIDE DEF Within
<1>3. Within(0 + 1)
  BY <1>1, <1>2
<1>4. Within(1 + 1)
  BY <1>3, <1>2
<1>5. Within(2 + 1)
  BY <1>4, <1>2
<1>6. Within(3 + 1)
  BY <1>5, <1>2
<1>7. Within(4 + 1)
  BY <1>6, <1>2
<1>8. Within(5 + 1)
  BY <1>7, <1>2
<1> QED BY <1>8 DEF Within

\* Parents and grandparents are among them.
LEMMA LinkedHolds ==
  ASSUME NEW id
  PROVE  /\ Parents(id) \subseteq linkedIds(id)
         /\ \A a \in Parents(id) : Parents(a) \subseteq linkedIds(id)
<1> PICK U : /\ U[0] = {id} /\ linkedIds(id) = U[6]
             /\ \A n \in 0 .. 5 : U[n + 1] = U[n] \cup UNION {Parents(a) : a \in U[n]}
  BY LinkedUp
<1>1. Parents(id) \subseteq U[1]
  <2>1. U[0 + 1] = U[0] \cup UNION {Parents(a) : a \in U[0]}
    OBVIOUS
  <2> QED BY <2>1
<1>2. U[1] \subseteq U[2] /\ \A a \in U[1] : Parents(a) \subseteq U[2]
  <2>1. U[1 + 1] = U[1] \cup UNION {Parents(a) : a \in U[1]}
    OBVIOUS
  <2> QED BY <2>1
<1>3. U[2] \subseteq U[3] /\ U[3] \subseteq U[4] /\ U[4] \subseteq U[5] /\ U[5] \subseteq U[6]
  <2>1. \A n \in 0 .. 5 : U[n] \subseteq U[n + 1]
    OBVIOUS
  <2>2. U[2] \subseteq U[2 + 1] /\ U[3] \subseteq U[3 + 1] /\ U[4] \subseteq U[4 + 1] /\ U[5] \subseteq U[5 + 1]
    BY <2>1
  <2> QED BY <2>2
<1> QED BY <1>1, <1>2, <1>3

\* A generated particle is above each object; above a track there is but one.
LEMMA OriginsFound ==
  ASSUME IInv, OriginInv, failed = "no", ~Doomed, NEW id \in Object, Present(id)
  PROVE  /\ Origins(id) # {}
         /\ id.ts \in {"tt", "ts"} => \E p : Origins(id) = {p}
<1> PICK U : /\ U[0] = {id} /\ linkedIds(id) = U[6]
             /\ \A n \in 0 .. 5 : U[n + 1] = U[n] \cup UNION {Parents(a) : a \in U[n]}
  BY LinkedUp
<1>1. RanksRise /\ TracksHaveOneParent /\ AllButGeneratedHaveParents
  BY DEF OriginInv
<1>2. \A x \in Object : Rank[x.ts] \in 0 .. 5 /\ (Rank[x.ts] = 0 => x.ts = "ps")
  BY Ranks DEF Object
<1>3. ASSUME NEW x \in Object, NEW q \in Parents(x)
      PROVE  /\ q \in Object /\ Present(q) /\ Rank[q.ts] < Rank[x.ts]
             /\ x.ts = "ts" => q.ts = "tt"
  <2>1. PICK link \in history : link[1] = q /\ link[2] = x
    BY DEF Parents
  <2>2. q \in Object /\ Present(q)
    BY ParentsArePresent
  <2> QED BY <1>1, <2>1, <2>2 DEF RanksRise
<1>4. \A x, p, q : x.ts \in {"tt", "ts"} /\ p \in Parents(x) /\ q \in Parents(x) => p = q
  BY <1>1 DEF TracksHaveOneParent, Parents
<1>5. Origins(id) # {}
  <2> DEFINE Near(n) == \E a \in U[n] : /\ a \in Object /\ Present(a)
                                        /\ a.ts = "ps" \/ Rank[a.ts] <= 5 - n
  <2>1. Near(0)
    BY <1>2
  <2>2. ASSUME NEW n \in 0 .. 4, Near(n) PROVE Near(n + 1)
    <3>1. PICK a \in U[n] : a \in Object /\ Present(a) /\ (a.ts = "ps" \/ Rank[a.ts] <= 5 - n)
      BY <2>2
    <3>2. U[n + 1] = U[n] \cup UNION {Parents(b) : b \in U[n]}
      OBVIOUS
    <3>3. CASE a.ts = "ps"
      BY <3>1, <3>2, <3>3
    <3>4. CASE a.ts # "ps"
      <4>1. PICK q \in Parents(a) : TRUE
        BY <1>1, <3>1, <3>4 DEF AllButGeneratedHaveParents
      <4>2. q \in Object /\ Present(q) /\ Rank[q.ts] < Rank[a.ts]
        BY <1>3, <3>1
      <4>3. Rank[q.ts] <= 5 - (n + 1)
        BY <1>2, <3>1, <3>4, <4>2
      <4>4. q \in U[n + 1]
        BY <3>1, <3>2, <4>1
      <4> QED BY <4>2, <4>3, <4>4
    <3> QED BY <3>3, <3>4
  <2> HIDE DEF Near
  <2>3. Near(1) /\ Near(2) /\ Near(3) /\ Near(4) /\ Near(5)
    <3>1. Near(0 + 1)
      BY <2>1, <2>2
    <3>2. Near(1 + 1)
      BY <3>1, <2>2
    <3>3. Near(2 + 1)
      BY <3>2, <2>2
    <3>4. Near(3 + 1)
      BY <3>3, <2>2
    <3>5. Near(4 + 1)
      BY <3>4, <2>2
    <3> QED BY <3>1, <3>2, <3>3, <3>4, <3>5
  <2>4. PICK a \in U[5] : a \in Object /\ (a.ts = "ps" \/ Rank[a.ts] <= 5 - 5)
    BY <2>3 DEF Near
  <2>5. a.ts = "ps"
    BY <1>2, <2>4
  <2>6. U[5 + 1] = U[5] \cup UNION {Parents(b) : b \in U[5]}
    OBVIOUS
  <2>7. a \in U[6]
    BY <2>4, <2>6
  <2> QED BY <2>5, <2>7 DEF Origins, filteredIds
<1>6. ASSUME NEW C, id \in C, \A a \in C : Parents(a) \subseteq C
      PROVE  linkedIds(id) \subseteq C
  BY <1>6, LinkedWithin
<1>7. \A x \in Object : x.ts = "ps" => Parents(x) = {}
  BY <1>2, <1>3, Ranks
\* A true track comes from a particle.
<1>8. ASSUME NEW t \in Object, t.ts = "tt", Present(t)
      PROVE  \E p \in Object : p.ts = "ps" /\ Parents(t) = {p}
  <2>1. PICK p \in Parents(t) : TRUE
    BY <1>1, <1>8 DEF AllButGeneratedHaveParents
  <2>2. p \in Object /\ Rank[p.ts] < 1
    BY <1>3, <1>8, <2>1, Ranks
  <2>3. p.ts = "ps"
    BY <1>2, <2>2
  <2> QED BY <1>4, <1>8, <2>1, <2>2, <2>3
<1>9. CASE id.ts = "tt"
  <2>1. PICK p \in Object : p.ts = "ps" /\ Parents(id) = {p}
    BY <1>8, <1>9
  <2>2. linkedIds(id) \subseteq {id, p}
    BY <1>6, <1>7, <2>1
  <2>3. Origins(id) = {p}
    BY <1>5, <1>9, <2>2 DEF Origins, filteredIds
  <2> QED BY <1>5, <2>3
<1>10. CASE id.ts = "ts"
  <2>1. PICK t \in Parents(id) : TRUE
    BY <1>1, <1>10 DEF AllButGeneratedHaveParents
  <2>2. Parents(id) = {t} /\ t \in Object /\ t.ts = "tt" /\ Present(t)
    BY <1>3, <1>4, <1>10, <2>1
  <2>3. PICK p \in Object : p.ts = "ps" /\ Parents(t) = {p}
    BY <1>8, <2>2
  <2>4. linkedIds(id) \subseteq {id, t, p}
    BY <1>6, <1>7, <2>2, <2>3
  <2>5. Origins(id) = {p}
    BY <1>5, <1>10, <2>2, <2>4 DEF Origins, filteredIds
  <2> QED BY <1>5, <2>5
<1> QED BY <1>5, <1>9, <1>10

\* Whatever the order of the calls, each object of the event comes from a
\* generated particle, and a track from exactly one: isFromParticle does not
\* mistake one track for another.
THEOREM ObjectsHaveOrigins == Spec => []EachObjectHasAnOrigin
<1>1. IInv /\ OriginInv => EachObjectHasAnOrigin
  <2> SUFFICES ASSUME IInv, OriginInv, Idle, NEW ts \in TypeAndSubtype, NEW id \in collectionIds(ts)
               PROVE  /\ Origins(id) # {}
                      /\ ts \in {"tt", "ts"} => Cardinality(Origins(id)) = 1
    BY DEF EachObjectHasAnOrigin
  <2>1. failed = "no" /\ ~Doomed
    BY DEF Idle, IInv, StageInv, Doomed
  <2>2. id \in Object /\ id.ts = ts /\ Present(id)
    BY CollectionObjects DEF Present
  <2>3. Origins(id) # {} /\ (ts \in {"tt", "ts"} => \E p : Origins(id) = {p})
    BY <2>1, <2>2, OriginsFound
  <2> QED BY <2>3, FS_Singleton
<1> QED BY <1>1, InitHolds, InitOrigin, NextKeeps, NextKeepsOrigin, PTL DEF Spec
=============================================================================
