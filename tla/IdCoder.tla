------------------------------- MODULE IdCoder -------------------------------
(***************************************************************************)
(* Identifiers (datatypes/src/IdCoder.cpp) and the keys of edges made from *)
(* them (graphtools/src/Edge.cpp).  An identifier packs the type, subtype, *)
(* value and index of an object into one word; sets of identifiers are     *)
(* sorted by that word, and the particle flow and the simulation rely on   *)
(* the order.  The sizes of the fields are parameters, given as the number *)
(* of codes each has: in the program an index has 21 bits, a value 32, a   *)
(* subtype 8 and a type 3, and its sizes are these powers of two.          *)
(*                                                                         *)
(* A float is its sign and the rest of its bits, which grow with its       *)
(* magnitude; minus zero, which no energy or momentum takes, is left out.  *)
(***************************************************************************)
EXTENDS Integers

CONSTANTS Indices, Subtypes, Types,
          Magnitudes,      \* half of the values: the others are negative
          Upper,           \* the codes of upper case letters
          CaseShift        \* from an upper to a lower case letter

ASSUME SizeAssumption ==
  /\ Indices \in Nat \ {0} /\ Subtypes \in Nat \ {0} /\ Magnitudes \in Nat \ {0}
  /\ Types \in Nat /\ Types > 6
ASSUME CaseAssumption ==
  /\ CaseShift \in Nat
  /\ \A c \in Upper : c + CaseShift \in (0 .. Subtypes - 1) \ Upper

VARIABLES latest, before   \* the last two calls that gave an identifier

vars == <<latest, before>>

Values == 2 * Magnitudes

\* To shift by a number of bits is to multiply by a power of two, given here.
m_bitshift == Indices
m_bitshift2 == Indices * Values
m_bitshift1 == m_bitshift2 * Subtypes
Words == m_bitshift1 * Types
UniqueIds == Indices * Subtypes * Types

\* The types from kNone to kBlock; there are unused codes above them.
kNone == 0
kBlock == 5

Magnitude == 0 .. Magnitudes - 1
Float == [negative : {FALSE}, magnitude : Magnitude]
           \cup [negative : {TRUE}, magnitude : Magnitude \ {0}]

\* The arguments of makeId; the index may be just beyond its field.
Arguments == [type : kNone .. kBlock, subt : 0 .. Subtypes - 1,
              val : Float, index : 0 .. Indices]

tolower(c) == IF c \in Upper THEN c + CaseShift ELSE c

\* The bits of an int, extended with its sign to the width of a word.
floatToBits(v) ==
  IF v.negative THEN Words - Magnitudes + v.magnitude ELSE v.magnitude

bitsToFloat(bits) == [negative  |-> bits >= Magnitudes, magnitude |-> bits % Magnitudes]

Field(id, shift, size) == (id \div shift) % size

type(id) == Field(id, m_bitshift1, Types)
subtype(id) == Field(id, m_bitshift2, Subtypes)
value(id) == bitsToFloat(Field(id, m_bitshift, Values))
index(id) == id % Indices

\* The fields joined together.  The bits of a negative value run on to the end
\* of the word and hide type and subtype; other fields do not overlap.
uid(a) ==
  LET valueShift == (floatToBits(a.val) * m_bitshift) % Words
  IN IF a.val.negative THEN valueShift + a.index
     ELSE a.type * m_bitshift1 + tolower(a.subt) * m_bitshift2 + valueShift + a.index

Zero == [negative |-> FALSE, magnitude |-> 0]

\* Mutant of checkValid: only the index is looked at.
checkIndexOnly(id, a) == index(id) = a.index

\* The rest is looked at only if the value is not zero.
checkValid(id, a) ==
  /\ index(id) = a.index
  /\ a.val # Zero => value(id) = a.val /\ type(id) = a.type /\ subtype(id) = a.subt

\* makeId throws unless all of these hold.
Accepted(a) == /\ a.type # kNone
               /\ a.index < Indices - 1
               /\ checkValid(uid(a), a)

\* uniqueId: the identifier without the value.
uniqueId(id) == type(id) * (Indices * Subtypes) + tolower(subtype(id)) * Indices + index(id)

\* Mutant of makeKey: the ends are taken in the order given.
makeKeyAsGiven(id1, id2) == uniqueId(id1) * UniqueIds + uniqueId(id2)

\* Edge::makeKey, the same for both orders of the ends.
makeKey(id1, id2) ==
  IF id1 < id2 THEN uniqueId(id2) * UniqueIds + uniqueId(id1)
  ELSE uniqueId(id1) * UniqueIds + uniqueId(id2)

NoCall == [made |-> FALSE]

Init == latest = NoCall /\ before = NoCall

\* A call of makeId that throws leaves nothing behind.
makeId(a) ==
  /\ Accepted(a)
  /\ latest' = [made |-> TRUE, args |-> a, id |-> uid(a)]
  /\ before' = latest

Next == \E a \in Arguments : makeId(a)

Spec == Init /\ [][Next]_vars
-----------------------------------------------------------------------------
Both == latest # NoCall /\ before # NoCall

(***************************************************************************)
(* "sorting on id will result in sorting by: type, subtype, value (small   *)
(* to large), index" (IdCoder.h).  The simulation and PFReconstructor      *)
(* take objects in this order, the highest energy first.                   *)
(***************************************************************************)
SortsByFields ==
  Both =>
     LET a == latest.args
         b == before.args
         Fields(c) == <<c.type, tolower(c.subt), c.val.magnitude, c.index>>
     IN latest.id < before.id <=>
          \E i \in 1 .. 4 : /\ Fields(a)[i] < Fields(b)[i]
                            /\ \A j \in 1 .. i - 1 : Fields(a)[j] = Fields(b)[j]

(***************************************************************************)
(* The key of an edge is the same for both orders of its ends, and tells   *)
(* which two objects they are: PFBlock finds an edge by the key of two     *)
(* identifiers, and all edges of an event are in one map.                  *)
(***************************************************************************)
KeyNamesBothEnds ==
  Both =>
     LET key == makeKey(latest.id, before.id) IN
     /\ key = makeKey(before.id, latest.id)
     /\ {key \div UniqueIds, key % UniqueIds} = {uniqueId(latest.id), uniqueId(before.id)}
     /\ uniqueId(latest.id) = uniqueId(before.id) <=>
          /\ latest.args.type = before.args.type
          /\ tolower(latest.args.subt) = tolower(before.args.subt)
          /\ latest.args.index = before.args.index
=============================================================================
