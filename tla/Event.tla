-------------------------------- MODULE Event --------------------------------
(***************************************************************************)
(* The event that the stages of papas work on (datatypes/Event.h): folders *)
(* of pointers to collections that live elsewhere, one per type and        *)
(* subtype, and one history shared by all stages.  The collections live in *)
(* the lists of PapasManager; a collection's address is its position in    *)
(* `collections'.                                                          *)
(*                                                                         *)
(* Of an identifier, the type with the subtype and the index are kept.     *)
(* The energy bits are left out: within a collection the index alone tells *)
(* objects apart.                                                          *)
(***************************************************************************)
EXTENDS Naturals, Sequences, FiniteSets

CONSTANTS MaxCollections,  \* bound on the collections owned at one time
          MaxIndex         \* bound on the index of an identifier

ASSUME EventAssumption == MaxCollections \in Nat /\ MaxIndex \in Nat

VARIABLES collections,     \* address |-> the identifiers of its objects
          folder,          \* type and subtype |-> address, 0 if there is none
          history,         \* links <<parent, child>> between identifiers
          failed           \* what was thrown while the event was processed

eventVars == <<collections, folder, history, failed>>

\* Particle, ecal and hcal cluster, track, block; generated or smeared (s),
\* true (t), merged (m), reconstructed (r), simplified (s).
Clusters == {"et", "es", "em", "ht", "hs", "hm"}
TypeAndSubtype == Clusters \cup {"ps", "pr", "tt", "ts", "br", "bs"}

Id == [ts : TypeAndSubtype, index : 0 .. MaxIndex]

EventTypeOK ==
  /\ collections \in Seq(SUBSET Id) /\ Len(collections) <= MaxCollections
  /\ folder \in [TypeAndSubtype -> 0 .. MaxCollections]
  /\ history \in SUBSET (Id \X Id)
  /\ failed \in {"no", "collection exists", "mixed collection", "simulation", "merge"}

NoFolder == [ts \in TypeAndSubtype |-> 0]

EventInit == /\ collections = <<>>
             /\ folder = NoFolder
             /\ history = {}
             /\ failed = "no"

hasCollection(ts) == folder[ts] # 0

\* The identifiers in the collection, empty when there is none.
collectionIds(ts) == IF hasCollection(ts) THEN collections[folder[ts]] ELSE {}

hasObject(id) == id \in collectionIds(id.ts)

Parents(id) == {link[1] : link \in {l \in history : l[2] = id}}

\* Mutant of Refused: emplace is trusted to replace a collection.
AcceptAgain(c) ==
  IF Cardinality({id.ts : id \in c}) > 1 THEN "mixed collection" ELSE "no"

\* What addCollectionToFolder throws for the collection c.
Refused(c) ==
  CASE \E id \in c : hasCollection(id.ts) -> "collection exists"
    [] Cardinality({id.ts : id \in c}) > 1 -> "mixed collection"
    [] OTHER -> "no"

\* addCollectionToFolder on one collection after another, until one throws.
\* An empty collection is passed over.  No two collections that one stage adds
\* are for the same folder.
AddCollections(addresses) ==
  LET Throws(i) == Refused(collections[addresses[i]]) # "no"
      stops == {i \in DOMAIN addresses : Throws(i)}
      added == {i \in DOMAIN addresses :
                  /\ collections[addresses[i]] # {}
                  /\ \A j \in stops : i < j}
      first == CHOOSE i \in stops : \A j \in stops : i <= j
  IN /\ folder' = [ts \in TypeAndSubtype |->
          IF \E i \in added : ts \in {id.ts : id \in collections[addresses[i]]}
          THEN addresses[CHOOSE i \in added : ts \in {id.ts : id \in collections[addresses[i]]}]
          ELSE folder[ts]]
     /\ failed' = IF stops = {} THEN "no" ELSE Refused(collections[addresses[first]])
=============================================================================
