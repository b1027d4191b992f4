----------------------------- MODULE ElementsProofs ---------------------------
(***************************************************************************)
(* Identifiers sort by their fields and the keys of edges name both ends,  *)
(* for fields of every size.  What makeId accepts is a number written with *)
(* four digits, each in a base of its own: division by the bases takes it  *)
(* apart, and two such numbers compare as their digits do.  makeId refuses *)
(* negative values, as their sign hides the type.  A block, which looks up *)
(* its edges by these keys and lists its elements in descending order,     *)
(* therefore shows of each pair what was measured of it.                   *)
(***************************************************************************)
EXTENDS PFBlock, FiniteSetTheorems, WellFoundedInduction, TLAPS

-----------------------------------------------------------------------------
(***************************************************************************)
(* Numbers with two digits.                                                *)
(***************************************************************************)
LEMMA TimesMonotone ==
  ASSUME NEW a \in Nat, NEW b \in Nat, NEW d \in Nat, a <= b
  PROVE  a * d <= b * d
<1>1. PICK c \in Nat : b = a + c
  <2>1. b - a \in Nat /\ b = a + (b - a)
    OBVIOUS
  <2> QED BY <2>1
<1>2. (a + c) * d = a * d + c * d /\ c * d \in Nat /\ a * d \in Nat
  OBVIOUS
<1> QED BY <1>1, <1>2

LEMMA Product ==
  ASSUME NEW a \in Nat, NEW d \in Nat
  PROVE  a * d \in Nat
OBVIOUS

\* A number is its digit times the base plus the rest.
LEMMA RadixOrder ==
  ASSUME NEW d \in Nat, d > 0, NEW p \in Nat, NEW q \in Nat, NEW r \in 0 .. d - 1, NEW s \in 0 .. d - 1
  PROVE  p * d + r < q * d + s <=> p < q \/ (p = q /\ r < s)
<1>1. p * d \in Nat /\ q * d \in Nat
  BY Product
<1>2. ASSUME p < q
      PROVE  p * d + r < q * d + s
  <2>1. (p + 1) * d <= q * d
    BY <1>2, TimesMonotone
  <2>2. (p + 1) * d = p * d + d
    OBVIOUS
  <2> QED BY <2>1, <2>2, <1>1
<1>3. ASSUME q < p
      PROVE  q * d + s < p * d + r
  <2>1. (q + 1) * d <= p * d
    BY <1>3, TimesMonotone
  <2>2. (q + 1) * d = q * d + d
    OBVIOUS
  <2> QED BY <2>1, <2>2, <1>1
<1>4. CASE p = q
  BY <1>4, <1>1
<1> QED BY <1>1, <1>2, <1>3, <1>4

LEMMA RadixBound ==
  ASSUME NEW d \in Nat, d > 0, NEW e \in Nat, NEW p \in 0 .. e - 1, NEW r \in 0 .. d - 1
  PROVE  p * d + r \in 0 .. e * d - 1
<1>1. p * d \in Nat /\ e * d \in Nat
  BY Product
<1>2. (p + 1) * d <= e * d
  BY TimesMonotone
<1>3. (p + 1) * d = p * d + d
  OBVIOUS
<1> QED BY <1>1, <1>2, <1>3

\* Division takes such a number apart again.
LEMMA Parts ==
  ASSUME NEW d \in Nat, d > 0, NEW p \in Nat, NEW r \in 0 .. d - 1
  PROVE  (p * d + r) \div d = p /\ (p * d + r) % d = r
<1> DEFINE n == p * d + r
<1>1. n \in Nat
  BY Product
<1>2. n \div d \in Nat /\ n % d \in 0 .. d - 1 /\ n = (n \div d) * d + (n % d)
  <2> HIDE DEF n
  <2>1. n % d \in 0 .. d - 1
    BY <1>1
  <2>2. n \div d \in Nat
    BY <1>1
  <2>3. n = d * (n \div d) + (n % d)
    BY <1>1
  <2> QED BY <2>1, <2>2, <2>3
<1>3. ~(n < n)
  BY <1>1
<1>4. ~(n \div d < p) /\ ~(p < n \div d)
  <2>1. p * d + r < (n \div d) * d + (n % d) <=> p < n \div d \/ (p = n \div d /\ r < n % d)
    <3> HIDE DEF n
    <3> QED BY <1>2, RadixOrder
  <2>2. (n \div d) * d + (n % d) < p * d + r <=> n \div d < p \/ (n \div d = p /\ n % d < r)
    <3> HIDE DEF n
    <3> QED BY <1>2, RadixOrder
  <2> QED BY <1>2, <1>3, <2>1, <2>2
<1>5. n \div d = p
  BY <1>2, <1>4
<1>6. n % d = r
  BY <1>2, <1>5, <1>1, Product
<1> QED BY <1>5, <1>6

LEMMA SmallRest ==
  ASSUME NEW d \in Nat, NEW r \in 0 .. d - 1
  PROVE  r % d = r
<1>1. 0 \in Nat /\ d > 0
  OBVIOUS
<1>2. (0 * d + r) % d = r
  BY <1>1, Parts
<1>3. 0 * d + r = r
  OBVIOUS
<1> QED BY <1>2, <1>3

\* The comparison of two such numbers, by their digits.
Join(d, p, r) == p * d + r

LEMMA JoinLess ==
  ASSUME NEW d \in Nat, d > 0, NEW p \in Nat, NEW q \in Nat, NEW r \in 0 .. d - 1, NEW s \in 0 .. d - 1
  PROVE  Join(d, p, r) < Join(d, q, s) <=> p < q \/ (p = q /\ r < s)
BY RadixOrder DEF Join

LEMMA JoinSame ==
  ASSUME NEW d \in Nat, d > 0, NEW p \in Nat, NEW q \in Nat, NEW r \in 0 .. d - 1, NEW s \in 0 .. d - 1
  PROVE  Join(d, p, r) = Join(d, q, s) <=> p = q /\ r = s
<1>1. /\ (p * d + r) \div d = p /\ (p * d + r) % d = r
      /\ (q * d + s) \div d = q /\ (q * d + s) % d = s
  BY Parts
<1> QED BY <1>1 DEF Join

-----------------------------------------------------------------------------
(***************************************************************************)
(* Identifiers.                                                            *)
(***************************************************************************)
\* An identifier that was given out was accepted.
Given(c) ==
  c # NoCall => /\ c.args \in Arguments
                /\ Accepted(c.args)
                /\ c.id = uid(c.args)

IInv == Given(latest) /\ Given(before)

LEMMA Invariance == Spec => []IInv
<1>1. Init => IInv
  BY DEF Init, IInv, Given
<1>2. IInv /\ [Next]_vars => IInv'
  <2> SUFFICES ASSUME IInv, [Next]_vars PROVE IInv'
    OBVIOUS
  <2>1. ASSUME NEW a \in Arguments, makeId(a) PROVE IInv'
    <3>1. latest'.args = a /\ latest'.id = uid(a) /\ before' = latest /\ Accepted(a)
      BY <2>1 DEF makeId
    <3> QED BY <3>1 DEF IInv, Given
  <2>2. CASE UNCHANGED vars
    BY <2>2 DEF vars, IInv, Given
  <2> QED BY <2>1, <2>2 DEF Next
<1> QED BY <1>1, <1>2, PTL DEF Spec

LEMMA Sizes ==
  /\ Indices \in Nat /\ Indices > 0 /\ Subtypes \in Nat /\ Subtypes > 0
  /\ Magnitudes \in Nat /\ Magnitudes > 0 /\ Types \in Nat /\ Types > 6
  /\ Values \in Nat /\ Values > 0 /\ Values > Magnitudes
  /\ m_bitshift2 \in Nat /\ m_bitshift2 > 0 /\ m_bitshift1 \in Nat /\ m_bitshift1 > 0
  /\ Words \in Nat /\ Words > 0
<1>1. /\ Indices \in Nat /\ Indices > 0 /\ Subtypes \in Nat /\ Subtypes > 0
      /\ Magnitudes \in Nat /\ Magnitudes > 0 /\ Types \in Nat /\ Types > 6
  BY SizeAssumption
<1>2. Values \in Nat /\ Values > 0 /\ Values > Magnitudes
  BY <1>1 DEF Values
<1>3. \A a, b \in Nat : a > 0 /\ b > 0 => a * b \in Nat /\ a * b > 0
  OBVIOUS
<1>4. m_bitshift2 \in Nat /\ m_bitshift2 > 0
  BY <1>1, <1>2, <1>3 DEF m_bitshift2
<1>5. m_bitshift1 \in Nat /\ m_bitshift1 > 0
  BY <1>1, <1>3, <1>4 DEF m_bitshift1
<1>6. Words \in Nat /\ Words > 0
  BY <1>1, <1>3, <1>5 DEF Words
<1> QED BY <1>1, <1>2, <1>4, <1>5, <1>6

LEMMA ArgumentFields ==
  ASSUME NEW a \in Arguments
  PROVE  /\ a.type \in 0 .. 5 /\ a.subt \in 0 .. Subtypes - 1 /\ a.index \in Nat
         /\ a.val \in Float /\ a.val.negative \in BOOLEAN /\ a.val.magnitude \in 0 .. Magnitudes - 1
         /\ a.val.negative => a.val.magnitude # 0
         /\ tolower(a.subt) \in 0 .. Subtypes - 1 /\ tolower(tolower(a.subt)) = tolower(a.subt)
<1>1. /\ a.type \in 0 .. 5 /\ a.subt \in 0 .. Subtypes - 1 /\ a.val \in Float /\ a.index \in 0 .. Indices
  BY DEF Arguments, kNone, kBlock
<1>2. a.index \in Nat
  BY <1>1, Sizes
<1>3. /\ a.val.negative \in BOOLEAN /\ a.val.magnitude \in 0 .. Magnitudes - 1
      /\ a.val.negative => a.val.magnitude # 0
  BY <1>1 DEF Float, Magnitude
<1>4. tolower(a.subt) \in 0 .. Subtypes - 1 /\ tolower(tolower(a.subt)) = tolower(a.subt)
  BY <1>1, CaseAssumption DEF tolower
<1> QED BY <1>1, <1>2, <1>3, <1>4

\* The bits of a negative value fill the type, which then is none that is used.
LEMMA NegativeHidesType ==
  ASSUME NEW a \in Arguments, a.val.negative, a.index < Indices - 1
  PROVE  type(uid(a)) = Types - 1
<1> DEFINE I == Indices
           m == a.val.magnitude
           back == (Magnitudes - m) * I
           rest == m_bitshift1 - back + a.index
<1>1. /\ I \in Nat /\ I > 0 /\ m \in 0 .. Magnitudes - 1 /\ a.index \in 0 .. I - 1
      /\ Magnitudes - m \in Nat /\ 1 <= Magnitudes - m /\ Magnitudes - m <= Magnitudes
  BY Sizes, ArgumentFields
<1>2. back \in Nat /\ I <= back /\ back <= Magnitudes * I
  <2>1. 1 * I <= (Magnitudes - m) * I /\ (Magnitudes - m) * I <= Magnitudes * I
    BY <1>1, Sizes, TimesMonotone
  <2>2. (Magnitudes - m) * I \in Nat
    BY <1>1, Product
  <2> QED BY <2>1, <2>2, <1>1
<1>3. Magnitudes * I <= m_bitshift1
  <2>1. Magnitudes * I <= Values * I
    BY <1>1, Sizes, TimesMonotone
  <2>2. 1 * m_bitshift2 <= Subtypes * m_bitshift2
    BY Sizes, TimesMonotone
  <2>3. m_bitshift2 = Values * I /\ m_bitshift1 = Subtypes * m_bitshift2
    BY Sizes DEF m_bitshift2, m_bitshift1
  <2>4. Magnitudes * I \in Nat
    BY <1>1, Sizes, Product
  <2> QED BY <2>1, <2>2, <2>3, <2>4, Sizes
<1>4. rest \in 0 .. m_bitshift1 - 1
  <2> HIDE DEF back
  <2>1. Magnitudes * I \in Nat
    BY <1>1, Sizes, Product
  <2> QED BY <1>1, <1>2, <1>3, <2>1, Sizes
<1>5. m_bitshift1 <= Words /\ Words = (Types - 1) * m_bitshift1 + m_bitshift1
  <2>1. 1 * m_bitshift1 <= Types * m_bitshift1
    BY Sizes, TimesMonotone
  <2>2. Words = Types * m_bitshift1
    BY Sizes DEF Words
  <2>3. Types * m_bitshift1 = (Types - 1) * m_bitshift1 + m_bitshift1
    BY Sizes
  <2> QED BY <2>1, <2>2, <2>3, Sizes
<1>6. (floatToBits(a.val) * m_bitshift) % Words = Words - back
  <2>1. floatToBits(a.val) * m_bitshift = (I - 1) * Words + (Words - back)
    <3>1. floatToBits(a.val) = Words - (Magnitudes - m)
      BY Sizes, <1>1 DEF floatToBits
    <3>2. (Words - (Magnitudes - m)) * I = Words * I - (Magnitudes - m) * I
      BY Sizes, <1>1
    <3>3. Words * I = (I - 1) * Words + Words
      BY Sizes, <1>1
    <3>4. (I - 1) * Words \in Nat
      BY Sizes, <1>1, Product
    <3>5. floatToBits(a.val) * m_bitshift = Words * I - back
      BY <3>1, <3>2 DEF m_bitshift
    <3> HIDE DEF back
    <3> QED BY <3>3, <3>4, <3>5, <1>2, Sizes
  <2>2. Words - back \in 0 .. Words - 1
    <3> HIDE DEF back
    <3>1. Magnitudes * I \in Nat
      BY <1>1, Sizes, Product
    <3> QED BY <1>1, <1>2, <1>3, <1>5, <3>1, Sizes
  <2>3. I - 1 \in Nat
    BY <1>1
  <2> HIDE DEF back
  <2> QED BY <2>1, <2>2, <2>3, Sizes, Parts
<1>7. uid(a) = (Types - 1) * m_bitshift1 + rest
  <2>1. uid(a) = (Words - back) + a.index
    BY <1>6 DEF uid
  <2>2. (Types - 1) * m_bitshift1 \in Nat
    BY Sizes, Product
  <2> HIDE DEF back
  <2> QED BY <2>1, <2>2, <1>1, <1>2, <1>5, Sizes
<1>8. uid(a) \div m_bitshift1 = Types - 1
  <2> HIDE DEF rest
  <2>1. Types - 1 \in Nat
    BY Sizes
  <2> QED BY <1>4, <1>7, <2>1, Sizes, Parts
<1>9. (Types - 1) % Types = Types - 1
  <2>1. Types - 1 \in 0 .. Types - 1
    BY Sizes
  <2> QED BY <2>1, SmallRest, Sizes
<1> QED BY <1>8, <1>9 DEF type, Field

\* The two fields above the value, and the three above the index.
Kind(a) == a.type * Subtypes + tolower(a.subt)
Above(a) == Kind(a) * Values + a.val.magnitude

\* An identifier that is given out is its four fields, one after another.
LEMMA AcceptedUid ==
  ASSUME NEW a \in Arguments, Accepted(a)
  PROVE  /\ ~a.val.negative
         /\ a.index \in 0 .. Indices - 1 /\ a.val.magnitude \in 0 .. Values - 1
         /\ Kind(a) \in Nat /\ Above(a) \in Nat
         /\ uid(a) = Above(a) * Indices + a.index
<1>1. a.index < Indices - 1 /\ checkValid(uid(a), a)
  BY DEF Accepted
<1>2. ~a.val.negative
  <2> SUFFICES ASSUME a.val.negative PROVE FALSE
    OBVIOUS
  <2>1. a.val # Zero
    BY DEF Zero
  <2>2. type(uid(a)) = a.type
    BY <1>1, <2>1 DEF checkValid
  <2>3. type(uid(a)) = Types - 1
    BY <1>1, NegativeHidesType
  <2>4. a.type \in 0 .. 5 /\ Types \in Nat /\ Types > 6
    BY ArgumentFields, Sizes
  <2> QED BY <2>2, <2>3, <2>4
<1>3. a.index \in 0 .. Indices - 1 /\ a.val.magnitude \in 0 .. Values - 1
  BY <1>1, ArgumentFields, Sizes
<1>4. Kind(a) \in Nat
  BY ArgumentFields, Sizes, Product DEF Kind
<1>5. Above(a) \in Nat
  BY <1>3, <1>4, Sizes, Product DEF Above
<1>6. (floatToBits(a.val) * m_bitshift) % Words = a.val.magnitude * Indices
  <2>1. a.val.magnitude * Indices \in 0 .. Words - 1
    <3>1. (a.val.magnitude + 1) * Indices <= Values * Indices
      BY <1>3, Sizes, TimesMonotone
    <3>2. (a.val.magnitude + 1) * Indices = a.val.magnitude * Indices + Indices
      BY <1>3, Sizes
    <3>3. 1 * m_bitshift2 <= Subtypes * m_bitshift2 /\ 1 * m_bitshift1 <= Types * m_bitshift1
      BY Sizes, TimesMonotone
    <3>4. m_bitshift2 = Values * Indices /\ m_bitshift1 = Subtypes * m_bitshift2 /\ Words = Types * m_bitshift1
      BY Sizes DEF m_bitshift2, m_bitshift1, Words
    <3>5. a.val.magnitude * Indices \in Nat
      BY <1>3, Sizes, Product
    <3> QED BY <3>1, <3>2, <3>3, <3>4, <3>5, Sizes
  <2>2. floatToBits(a.val) * m_bitshift = a.val.magnitude * Indices
    BY <1>2 DEF floatToBits, m_bitshift
  <2>3. (0 * Words + a.val.magnitude * Indices) % Words = a.val.magnitude * Indices
    BY <2>1, Sizes, Parts
  <2> QED BY <2>1, <2>2, <2>3, Sizes
<1>7. uid(a) = a.type * m_bitshift1 + tolower(a.subt) * m_bitshift2 + a.val.magnitude * Indices + a.index
  BY <1>2, <1>6 DEF uid
<1>8. Above(a) * Indices = a.type * m_bitshift1 + tolower(a.subt) * m_bitshift2 + a.val.magnitude * Indices
  <2>1. \A t, s, v, i, x, y \in Nat :
           ((t * x + s) * v + y) * i = t * ((i * v) * x) + s * (i * v) + y * i
    OBVIOUS
  <2>2. a.type \in Nat /\ tolower(a.subt) \in Nat /\ a.val.magnitude \in Nat
    BY ArgumentFields
  <2> QED BY <2>1, <2>2, Sizes DEF Above, Kind, m_bitshift1, m_bitshift2
<1> QED BY <1>2, <1>3, <1>4, <1>5, <1>7, <1>8

\* The fields are read back, the subtype in lower case.
LEMMA FieldsOfUid ==
  ASSUME NEW a \in Arguments, Accepted(a)
  PROVE  /\ type(uid(a)) = a.type
         /\ subtype(uid(a)) = tolower(a.subt)
         /\ index(uid(a)) = a.index
<1> DEFINE t == tolower(a.subt)
           low == a.val.magnitude * Indices + a.index
<1>1. /\ a.type \in 0 .. Types - 1 /\ a.type \in Nat /\ t \in 0 .. Subtypes - 1
      /\ a.index \in 0 .. Indices - 1 /\ a.val.magnitude \in 0 .. Values - 1
      /\ Above(a) \in Nat /\ Kind(a) \in Nat /\ uid(a) = Above(a) * Indices + a.index
  BY AcceptedUid, ArgumentFields, Sizes
<1>2. index(uid(a)) = a.index
  <2>1. (Above(a) * Indices + a.index) % Indices = a.index
    BY <1>1, Parts, Sizes
  <2> QED BY <1>1, <2>1 DEF index
<1>3. low \in 0 .. m_bitshift2 - 1
  <2>1. a.val.magnitude * Indices + a.index \in 0 .. Values * Indices - 1
    BY <1>1, RadixBound, Sizes
  <2> QED BY <2>1, Sizes DEF m_bitshift2
<1>4. uid(a) = Kind(a) * m_bitshift2 + low
  <2>1. \A k, v, i, y, z \in Nat : (k * v + y) * i + z = k * (i * v) + (y * i + z)
    OBVIOUS
  <2> QED BY <1>1, <2>1, Sizes DEF Above, m_bitshift2
<1>5. subtype(uid(a)) = t
  <2>1. uid(a) \div m_bitshift2 = Kind(a)
    <3> HIDE DEF low
    <3> QED BY <1>1, <1>3, <1>4, Parts, Sizes
  <2>2. Kind(a) % Subtypes = t
    BY <1>1, Parts, Sizes DEF Kind
  <2> QED BY <2>1, <2>2 DEF subtype, Field
<1>6. t * m_bitshift2 + low \in 0 .. Subtypes * m_bitshift2 - 1
  <2> HIDE DEF low, t
  <2> QED BY <1>1, <1>3, RadixBound, Sizes
<1>7. uid(a) = a.type * m_bitshift1 + (t * m_bitshift2 + low)
  <2>1. \A p, s, q, m, l \in Nat : (p * s + q) * m + l = p * (m * s) + (q * m + l)
    OBVIOUS
  <2>2. t \in Nat /\ low \in Nat
    BY <1>1, <1>3
  <2> HIDE DEF low
  <2> QED BY <1>1, <1>4, <2>1, <2>2, Sizes DEF Kind, m_bitshift1
<1>8. type(uid(a)) = a.type
  <2>1. m_bitshift1 = Subtypes * m_bitshift2
    BY Sizes DEF m_bitshift1
  <2>2. uid(a) \div m_bitshift1 = a.type
    <3> DEFINE r == t * m_bitshift2 + low
    <3>1. r \in 0 .. m_bitshift1 - 1 /\ uid(a) = a.type * m_bitshift1 + r
      BY <1>6, <1>7, <2>1
    <3> HIDE DEF r
    <3> QED BY <1>1, <3>1, Parts, Sizes
  <2>3. a.type % Types = a.type
    BY <1>1, SmallRest, Sizes
  <2> QED BY <2>2, <2>3 DEF type, Field
<1> QED BY <1>2, <1>5, <1>8

-----------------------------------------------------------------------------
\* The order of two identifiers, field by field.
LEMMA UidOrder ==
  ASSUME NEW a \in Arguments, Accepted(a), NEW b \in Arguments, Accepted(b)
  PROVE  uid(a) < uid(b) <=>
           \/ a.type < b.type
           \/ a.type = b.type /\ tolower(a.subt) < tolower(b.subt)
           \/ a.type = b.type /\ tolower(a.subt) = tolower(b.subt) /\ a.val.magnitude < b.val.magnitude
           \/ a.type = b.type /\ tolower(a.subt) = tolower(b.subt) /\ a.val.magnitude = b.val.magnitude
                /\ a.index < b.index
<1>1. /\ a.type \in Nat /\ tolower(a.subt) \in 0 .. Subtypes - 1
      /\ a.index \in 0 .. Indices - 1 /\ a.val.magnitude \in 0 .. Values - 1
      /\ Above(a) \in Nat /\ Kind(a) \in Nat /\ uid(a) = Above(a) * Indices + a.index
  BY AcceptedUid, ArgumentFields
<1>2. /\ b.type \in Nat /\ tolower(b.subt) \in 0 .. Subtypes - 1
      /\ b.index \in 0 .. Indices - 1 /\ b.val.magnitude \in 0 .. Values - 1
      /\ Above(b) \in Nat /\ Kind(b) \in Nat /\ uid(b) = Above(b) * Indices + b.index
  BY AcceptedUid, ArgumentFields
<1>3. /\ a.type \in Nat /\ tolower(a.subt) \in 0 .. Subtypes - 1 /\ Kind(a) \in Nat
      /\ a.val.magnitude \in 0 .. Values - 1 /\ Above(a) \in Nat /\ a.index \in 0 .. Indices - 1
      /\ b.type \in Nat /\ tolower(b.subt) \in 0 .. Subtypes - 1 /\ Kind(b) \in Nat
      /\ b.val.magnitude \in 0 .. Values - 1 /\ Above(b) \in Nat /\ b.index \in 0 .. Indices - 1
  BY <1>1, <1>2
<1>4. /\ Indices \in Nat /\ Indices > 0 /\ Values \in Nat /\ Values > 0
      /\ Subtypes \in Nat /\ Subtypes > 0
  BY Sizes
<1>5. uid(a) < uid(b) <=> Above(a) < Above(b) \/ (Above(a) = Above(b) /\ a.index < b.index)
  <2>1. uid(a) = Join(Indices, Above(a), a.index) /\ uid(b) = Join(Indices, Above(b), b.index)
    BY <1>1, <1>2 DEF Join
  <2>2. Join(Indices, Above(a), a.index) < Join(Indices, Above(b), b.index) <=>
           Above(a) < Above(b) \/ (Above(a) = Above(b) /\ a.index < b.index)
    BY <1>3, <1>4, JoinLess
  <2> QED BY <2>1, <2>2, Zenon
<1>6. /\ Above(a) < Above(b) <=>
           Kind(a) < Kind(b) \/ (Kind(a) = Kind(b) /\ a.val.magnitude < b.val.magnitude)
      /\ Above(a) = Above(b) <=> Kind(a) = Kind(b) /\ a.val.magnitude = b.val.magnitude
  <2>1. /\ Above(a) = Join(Values, Kind(a), a.val.magnitude)
        /\ Above(b) = Join(Values, Kind(b), b.val.magnitude)
    BY DEF Above, Join
  <2>2. Join(Values, Kind(a), a.val.magnitude) < Join(Values, Kind(b), b.val.magnitude) <=>
           Kind(a) < Kind(b) \/ (Kind(a) = Kind(b) /\ a.val.magnitude < b.val.magnitude)
    <3>1. /\ Values \in Nat /\ Values > 0 /\ Kind(a) \in Nat /\ Kind(b) \in Nat
          /\ a.val.magnitude \in 0 .. Values - 1 /\ b.val.magnitude \in 0 .. Values - 1
      BY <1>3, <1>4
    <3> QED BY <3>1, JoinLess
  <2>3. Join(Values, Kind(a), a.val.magnitude) = Join(Values, Kind(b), b.val.magnitude) <=>
           Kind(a) = Kind(b) /\ a.val.magnitude = b.val.magnitude
    BY <1>3, <1>4, JoinSame
  <2> QED BY <2>1, <2>2, <2>3, Zenon
<1>7. /\ Kind(a) < Kind(b) <=>
           a.type < b.type \/ (a.type = b.type /\ tolower(a.subt) < tolower(b.subt))
      /\ Kind(a) = Kind(b) <=> a.type = b.type /\ tolower(a.subt) = tolower(b.subt)
  <2>1. /\ Kind(a) = Join(Subtypes, a.type, tolower(a.subt))
        /\ Kind(b) = Join(Subtypes, b.type, tolower(b.subt))
    BY DEF Kind, Join
  <2>2. Join(Subtypes, a.type, tolower(a.subt)) < Join(Subtypes, b.type, tolower(b.subt)) <=>
           a.type < b.type \/ (a.type = b.type /\ tolower(a.subt) < tolower(b.subt))
    BY <1>3, <1>4, JoinLess
  <2>3. Join(Subtypes, a.type, tolower(a.subt)) = Join(Subtypes, b.type, tolower(b.subt)) <=>
           a.type = b.type /\ tolower(a.subt) = tolower(b.subt)
    BY <1>3, <1>4, JoinSame
  <2> QED BY <2>1, <2>2, <2>3, Zenon
<1> QED BY <1>5, <1>6, <1>7

(***************************************************************************)
(* "sorting on id will result in sorting by: type, subtype, value (small   *)
(* to large), index" (IdCoder.h): the order in which the simulation and    *)
(* the particle flow take their objects is that of the fields.             *)
(***************************************************************************)
THEOREM SortedByFields == Spec => []SortsByFields
<1>1. IInv => SortsByFields
  <2> SUFFICES ASSUME IInv, Both PROVE SortsByFields
    BY DEF SortsByFields
  <2> DEFINE a == latest.args
             b == before.args
             Fields(c) == <<c.type, tolower(c.subt), c.val.magnitude, c.index>>
  <2>1. /\ a \in Arguments /\ Accepted(a) /\ latest.id = uid(a)
        /\ b \in Arguments /\ Accepted(b) /\ before.id = uid(b)
    BY DEF IInv, Given, Both
  <2>2. uid(a) < uid(b) <=>
           \/ a.type < b.type
           \/ a.type = b.type /\ tolower(a.subt) < tolower(b.subt)
           \/ a.type = b.type /\ tolower(a.subt) = tolower(b.subt) /\ a.val.magnitude < b.val.magnitude
           \/ a.type = b.type /\ tolower(a.subt) = tolower(b.subt) /\ a.val.magnitude = b.val.magnitude
                /\ a.index < b.index
    <3> HIDE DEF a, b
    <3> QED BY <2>1, UidOrder
  <2>3. (\E i \in 1 .. 4 : /\ Fields(a)[i] < Fields(b)[i]
                           /\ \A j \in 1 .. i - 1 : Fields(a)[j] = Fields(b)[j]) <=>
           \/ a.type < b.type
           \/ a.type = b.type /\ tolower(a.subt) < tolower(b.subt)
           \/ a.type = b.type /\ tolower(a.subt) = tolower(b.subt) /\ a.val.magnitude < b.val.magnitude
           \/ a.type = b.type /\ tolower(a.subt) = tolower(b.subt) /\ a.val.magnitude = b.val.magnitude
                /\ a.index < b.index
    <3> DEFINE P(i) == /\ Fields(a)[i] < Fields(b)[i]
                       /\ \A j \in 1 .. i - 1 : Fields(a)[j] = Fields(b)[j]
    <3>1. (\E i \in 1 .. 4 : P(i)) <=> P(1) \/ P(2) \/ P(3) \/ P(4)
      <4> HIDE DEF P
      <4> QED BY SMT
    <3>2. /\ Fields(a)[1] = a.type /\ Fields(a)[2] = tolower(a.subt)
          /\ Fields(a)[3] = a.val.magnitude /\ Fields(a)[4] = a.index
          /\ Fields(b)[1] = b.type /\ Fields(b)[2] = tolower(b.subt)
          /\ Fields(b)[3] = b.val.magnitude /\ Fields(b)[4] = b.index
      OBVIOUS
    <3> HIDE DEF Fields
    <3>3. /\ 1 .. 1 - 1 = {} /\ 1 .. 2 - 1 = {1} /\ 1 .. 3 - 1 = {1, 2} /\ 1 .. 4 - 1 = {1, 2, 3}
      OBVIOUS
    <3>4. /\ P(1) <=> a.type < b.type
          /\ P(2) <=> a.type = b.type /\ tolower(a.subt) < tolower(b.subt)
          /\ P(3) <=> a.type = b.type /\ tolower(a.subt) = tolower(b.subt) /\ a.val.magnitude < b.val.magnitude
          /\ P(4) <=> a.type = b.type /\ tolower(a.subt) = tolower(b.subt) /\ a.val.magnitude = b.val.magnitude
                /\ a.index < b.index
      BY <3>2, <3>3
    <3> QED BY <3>1, <3>4
  <2> QED BY <2>1, <2>2, <2>3 DEF SortsByFields
<1> QED BY <1>1, Invariance, PTL

-----------------------------------------------------------------------------
\* An identifier without its value fits the word of one.
LEMMA UniqueIdParts ==
  ASSUME NEW a \in Arguments, Accepted(a)
  PROVE  /\ uniqueId(uid(a)) = Kind(a) * Indices + a.index
         /\ uniqueId(uid(a)) \in 0 .. UniqueIds - 1
<1>1. /\ a.type \in 0 .. Types - 1 /\ tolower(a.subt) \in 0 .. Subtypes - 1
      /\ tolower(tolower(a.subt)) = tolower(a.subt) /\ a.index \in 0 .. Indices - 1
  BY AcceptedUid, ArgumentFields, Sizes
<1>2. uniqueId(uid(a)) = a.type * (Indices * Subtypes) + tolower(a.subt) * Indices + a.index
  BY <1>1, FieldsOfUid DEF uniqueId
<1>3. \A p, s, q, i, l \in Nat : p * (i * s) + q * i + l = (p * s + q) * i + l
  OBVIOUS
<1>4. uniqueId(uid(a)) = Kind(a) * Indices + a.index
  BY <1>1, <1>2, <1>3, Sizes DEF Kind
<1>5. Kind(a) \in 0 .. Types * Subtypes - 1
  BY <1>1, RadixBound, Sizes DEF Kind
<1>6. Types * Subtypes \in Nat /\ (Types * Subtypes) * Indices = UniqueIds
  BY Sizes, Product DEF UniqueIds
<1>7. Kind(a) * Indices + a.index \in 0 .. (Types * Subtypes) * Indices - 1
  BY <1>1, <1>5, <1>6, RadixBound, Sizes
<1> QED BY <1>4, <1>6, <1>7

(***************************************************************************)
(* The key that Edge::makeKey gives two ends does not depend on their      *)
(* order and tells which two objects they are, so that edges of different  *)
(* pairs never share an entry of the map in which an event holds them.     *)
(***************************************************************************)
THEOREM KeysNameBothEnds == Spec => []KeyNamesBothEnds
<1>1. IInv => KeyNamesBothEnds
  <2> SUFFICES ASSUME IInv, Both PROVE KeyNamesBothEnds
    BY DEF KeyNamesBothEnds
  <2> DEFINE a == latest.args
             b == before.args
             u == uniqueId(latest.id)
             v == uniqueId(before.id)
             key == makeKey(latest.id, before.id)
  <2>1. /\ a \in Arguments /\ Accepted(a) /\ latest.id = uid(a)
        /\ b \in Arguments /\ Accepted(b) /\ before.id = uid(b)
    BY DEF IInv, Given, Both
  <2>2. /\ u = Kind(a) * Indices + a.index /\ u \in 0 .. UniqueIds - 1
        /\ v = Kind(b) * Indices + b.index /\ v \in 0 .. UniqueIds - 1
    BY <2>1, UniqueIdParts
  <2>3. /\ a.type \in Nat /\ tolower(a.subt) \in 0 .. Subtypes - 1 /\ a.index \in 0 .. Indices - 1
        /\ b.type \in Nat /\ tolower(b.subt) \in 0 .. Subtypes - 1 /\ b.index \in 0 .. Indices - 1
        /\ Kind(a) \in Nat /\ Kind(b) \in Nat
        /\ latest.id \in Nat /\ before.id \in Nat
    <3>1. Above(a) * Indices \in Nat /\ Above(b) * Indices \in Nat
      BY <2>1, AcceptedUid, Product, Sizes
    <3> QED BY <2>1, <3>1, AcceptedUid, ArgumentFields
  <2>4. u = v <=> a.type = b.type /\ tolower(a.subt) = tolower(b.subt) /\ a.index = b.index
    <3>1. u = v <=> Kind(a) = Kind(b) /\ a.index = b.index
      <4>1. u = Join(Indices, Kind(a), a.index) /\ v = Join(Indices, Kind(b), b.index)
        BY <2>2 DEF Join
      <4> HIDE DEF u, v, a, b
      <4> QED BY <4>1, <2>3, JoinSame, Sizes, SMT
    <3>2. Kind(a) = Kind(b) <=> a.type = b.type /\ tolower(a.subt) = tolower(b.subt)
      <4>1. /\ Kind(a) = Join(Subtypes, a.type, tolower(a.subt))
            /\ Kind(b) = Join(Subtypes, b.type, tolower(b.subt))
        BY DEF Kind, Join
      <4> HIDE DEF a, b
      <4> QED BY <4>1, <2>3, JoinSame, Sizes, SMT
    <3> QED BY <3>1, <3>2
  <2>5. UniqueIds \in Nat /\ UniqueIds > 0
    <3>1. Indices * Subtypes \in Nat
      BY Sizes, Product
    <3>2. UniqueIds \in Nat
      BY <3>1, Sizes, Product DEF UniqueIds
    <3> HIDE DEF u, v
    <3> QED BY <3>2, <2>2
  <2>6. key = makeKey(before.id, latest.id)
    BY <2>3 DEF makeKey
  <2>7. key = u * UniqueIds + v \/ key = v * UniqueIds + u
    BY DEF makeKey
  <2>8. {key \div UniqueIds, key % UniqueIds} = {u, v}
    <3>1. /\ (u * UniqueIds + v) \div UniqueIds = u /\ (u * UniqueIds + v) % UniqueIds = v
          /\ (v * UniqueIds + u) \div UniqueIds = v /\ (v * UniqueIds + u) % UniqueIds = u
      <4> HIDE DEF u, v
      <4>1. u \in Nat /\ v \in Nat /\ u \in 0 .. UniqueIds - 1 /\ v \in 0 .. UniqueIds - 1
        BY <2>2
      <4>2. (u * UniqueIds + v) \div UniqueIds = u /\ (u * UniqueIds + v) % UniqueIds = v
        BY <4>1, <2>5, Parts
      <4>3. (v * UniqueIds + u) \div UniqueIds = v /\ (v * UniqueIds + u) % UniqueIds = u
        BY <4>1, <2>5, Parts
      <4> QED BY <4>2, <4>3
    <3> HIDE DEF u, v, key
    <3> QED BY <2>7, <3>1
  <2> QED BY <2>4, <2>6, <2>8 DEF KeyNamesBothEnds
<1> QED BY <1>1, Invariance, PTL
-----------------------------------------------------------------------------
(***************************************************************************)
(* Blocks.  An element is found by its identifier, a pair by its key, and  *)
(* a line of the list by its position: each of these tells apart what it   *)
(* names.                                                                  *)
(***************************************************************************)
LEMMA Element ==
  ASSUME NEW id \in ElementIds
  PROVE  /\ id \in Nat /\ id > 0
         /\ type(id) \in 1 .. 3
         /\ typeLetter(id) \in {"e", "h", "t"}
         /\ uniqueId(id) \in 0 .. UniqueIds - 1 /\ uniqueId(id) \in Nat
<1>1. PICK a \in Arguments : Accepted(a) /\ a.type \in 1 .. 3 /\ id = uid(a)
  BY ElementAssumption
<1>2. type(id) \in 1 .. 3
  BY <1>1, FieldsOfUid
<1>3. id \in Nat
  <2>1. Above(a) * Indices \in Nat
    BY <1>1, AcceptedUid, Product, Sizes
  <2> QED BY <2>1, <1>1, AcceptedUid
<1>4. id # 0
  <2>1. (0 * m_bitshift1 + 0) \div m_bitshift1 = 0
    BY Sizes, Parts
  <2>2. 0 \div m_bitshift1 = 0
    BY <2>1, Sizes
  <2>3. 0 % Types = 0
    BY Sizes, SmallRest
  <2>4. type(0) = 0
    BY <2>2, <2>3 DEF type, Field
  <2> QED BY <1>2, <2>4
<1>5. typeLetter(id) \in {"e", "h", "t"}
  BY <1>2 DEF typeLetter, typelist
<1>6. uniqueId(id) \in 0 .. UniqueIds - 1
  BY <1>1, UniqueIdParts
<1>7. uniqueId(id) \in Nat
  BY <1>6
<1> QED BY <1>2, <1>3, <1>4, <1>5, <1>6, <1>7

LEMMA ManyUniqueIds == UniqueIds \in Nat
<1>1. Indices * Subtypes \in Nat
  BY Sizes, Product
<1> QED BY <1>1, Sizes, Product DEF UniqueIds

LEMMA KeyOfPair ==
  ASSUME NEW a \in ElementIds, NEW b \in ElementIds, NEW c \in ElementIds, NEW d \in ElementIds,
         a < b, c < d, makeKey(a, b) = makeKey(c, d)
  PROVE  a = c /\ b = d
<1>1. /\ makeKey(a, b) = Join(UniqueIds, uniqueId(b), uniqueId(a))
      /\ makeKey(c, d) = Join(UniqueIds, uniqueId(d), uniqueId(c))
  BY DEF makeKey, Join
<1>2. /\ uniqueId(a) \in 0 .. UniqueIds - 1 /\ uniqueId(c) \in 0 .. UniqueIds - 1
      /\ uniqueId(b) \in Nat /\ uniqueId(d) \in Nat /\ UniqueIds \in Nat /\ UniqueIds > 0
  <2>1. uniqueId(a) \in 0 .. UniqueIds - 1 /\ UniqueIds \in Nat
    BY Element, ManyUniqueIds
  <2>2. UniqueIds > 0
    BY <2>1
  <2> QED BY <2>1, <2>2, Element
<1>3. uniqueId(b) = uniqueId(d) /\ uniqueId(a) = uniqueId(c)
  <2>1. \A p, q \in Nat : \A r, s \in 0 .. UniqueIds - 1 :
           Join(UniqueIds, p, r) = Join(UniqueIds, q, s) <=> p = q /\ r = s
    BY <1>2, JoinSame
  <2>2. Join(UniqueIds, uniqueId(b), uniqueId(a)) = Join(UniqueIds, uniqueId(d), uniqueId(c))
    BY <1>1
  <2> QED BY <1>2, <2>1, <2>2
<1> QED BY <1>3, ElementAssumption

\* Both orders of the ends give the same key.
LEMMA KeyOfBoth ==
  ASSUME NEW a \in ElementIds, NEW b \in ElementIds
  PROVE  makeKey(a, b) = makeKey(b, a)
BY Element DEF makeKey

LEMMA BlockOrder ==
  /\ \A a, b \in ElementIds : a # b => greater(a, b) \/ greater(b, a)
  /\ \A a, b, c \in ElementIds : greater(a, b) /\ greater(b, c) => greater(a, c)
  /\ \A a, b \in ElementIds : greater(a, b) => a # b
<1>1. \A a \in ElementIds : a \in Int
  BY Element
<1> QED BY <1>1 DEF greater

\* Of some numbers one is the least: it has the least set of numbers up to it.
LEMMA LeastNumber ==
  ASSUME NEW B \in SUBSET Nat, B # {}
  PROVE  \E n \in B : \A m \in B : n <= m
<1> DEFINE UpTo == {0 .. n : n \in B}
<1>1. IsWellFoundedOn(StrictSubsetOrdering(Nat), FiniteSubsetsOf(Nat))
  BY FS_StrictSubsetOrderingWellFounded
<1>2. UpTo \subseteq FiniteSubsetsOf(Nat) /\ UpTo # {}
  <2>1. \A n \in B : IsFiniteSet(0 .. n) /\ 0 .. n \in SUBSET Nat
    BY FS_Interval
  <2> QED BY <2>1 DEF FiniteSubsetsOf
<1>3. PICK T \in UpTo : \A U \in UpTo : ~(<<U, T>> \in StrictSubsetOrdering(Nat))
  <2> HIDE DEF UpTo
  <2> QED BY <1>1, <1>2, WFMin
<1>4. PICK n \in B : T = 0 .. n
  BY <1>3
<1>5. ASSUME NEW m \in B, m < n
      PROVE  FALSE
  <2>1. 0 .. m \in UpTo /\ 0 .. m \subseteq T /\ 0 .. m # T
    <3>1. n \in 0 .. n /\ n \notin 0 .. m /\ 0 .. m \subseteq 0 .. n
      BY <1>5
    <3> QED BY <3>1, <1>4
  <2>2. 0 .. m \in SUBSET Nat /\ T \in SUBSET Nat
    BY <1>4
  <2>3. <<0 .. m, T>> \in StrictSubsetOrdering(Nat)
    BY <2>1, <2>2 DEF StrictSubsetOrdering
  <2> QED BY <2>1, <2>3, <1>3
<1> QED BY <1>5

Ascending(s) == \A i, j \in DOMAIN s : i < j => greater(s[i], s[j])

\* One more element goes in front of the first one that is not before it.
LEMMA Inserted ==
  ASSUME NEW S \in SUBSET ElementIds, NEW x \in ElementIds \ S, NEW n \in Nat,
         NEW s \in [1 .. n -> S], Ascending(s)
  PROVE  \E t \in [1 .. n + 1 -> S \cup {x}] : Ascending(t)
<1> DEFINE After == {i \in 1 .. n + 1 : i = n + 1 \/ (i <= n /\ greater(x, s[i]))}
<1>1. PICK k \in After : \A m \in After : k <= m
  <2>1. After \in SUBSET Nat /\ After # {}
    OBVIOUS
  <2> HIDE DEF After
  <2> QED BY <2>1, LeastNumber
<1>2. k \in 1 .. n + 1
  OBVIOUS
<1>3. \A i \in 1 .. n : i < k => greater(s[i], x)
  <2> SUFFICES ASSUME NEW i \in 1 .. n, i < k PROVE greater(s[i], x)
    OBVIOUS
  <2>1. i \notin After
    BY <1>1, <1>2
  <2>2. ~greater(x, s[i]) /\ s[i] \in S
    BY <2>1
  <2> QED BY <2>2, BlockOrder
<1>4. \A i \in 1 .. n : i >= k => greater(x, s[i])
  <2> SUFFICES ASSUME NEW i \in 1 .. n, i >= k PROVE greater(x, s[i])
    OBVIOUS
  <2>1. k <= n /\ greater(x, s[k])
    BY <1>2
  <2>2. CASE i = k
    BY <2>1, <2>2
  <2>3. CASE i > k
    <3>1. greater(s[k], s[i])
      BY <2>1, <2>3, <1>2 DEF Ascending
    <3>2. s[k] \in ElementIds /\ s[i] \in ElementIds
      BY <2>1, <1>2
    <3> QED BY <2>1, <3>1, <3>2, BlockOrder
  <2> QED BY <2>2, <2>3, <1>2
<1> HIDE DEF After
<1> DEFINE t == [i \in 1 .. n + 1 |-> IF i < k THEN s[i] ELSE IF i = k THEN x ELSE s[i - 1]]
<1>5. t \in [1 .. n + 1 -> S \cup {x}]
  <2> SUFFICES ASSUME NEW i \in 1 .. n + 1
               PROVE  (IF i < k THEN s[i] ELSE IF i = k THEN x ELSE s[i - 1]) \in S \cup {x}
    OBVIOUS
  <2>1. i < k => i \in 1 .. n
    BY <1>2
  <2>2. i > k => i - 1 \in 1 .. n
    BY <1>2
  <2> QED BY <2>1, <2>2, <1>2
<1>6. Ascending(t)
  <2> SUFFICES ASSUME NEW i \in 1 .. n + 1, NEW j \in 1 .. n + 1, i < j
               PROVE  greater(t[i], t[j])
    BY DEF Ascending
  <2>1. CASE j < k
    <3>1. i \in 1 .. n /\ j \in 1 .. n /\ i < k
      BY <2>1, <1>2
    <3>2. t[i] = s[i] /\ t[j] = s[j]
      BY <2>1, <3>1
    <3> QED BY <3>1, <3>2 DEF Ascending
  <2>2. CASE j = k
    <3>1. i \in 1 .. n /\ i < k
      BY <2>2, <1>2
    <3>2. t[i] = s[i] /\ t[j] = x
      BY <2>2, <3>1
    <3> QED BY <3>1, <3>2, <1>3
  <2>3. CASE j > k
    <3>1. j - 1 \in 1 .. n /\ j - 1 >= k /\ t[j] = s[j - 1]
      BY <2>3, <1>2
    <3>2. CASE i < k
      <4>1. i \in 1 .. n /\ i < j - 1 /\ t[i] = s[i]
        BY <2>3, <3>2, <1>2
      <4> QED BY <3>1, <4>1 DEF Ascending
    <3>3. CASE i = k
      <4>1. t[i] = x
        BY <3>3
      <4> QED BY <3>1, <4>1, <1>4
    <3>4. CASE i > k
      <4>1. i - 1 \in 1 .. n /\ i - 1 < j - 1 /\ t[i] = s[i - 1]
        BY <3>4, <1>2
      <4> QED BY <3>1, <4>1 DEF Ascending
    <3> QED BY <3>2, <3>3, <3>4, <1>2
  <2> QED BY <2>1, <2>2, <2>3, <1>2
<1> QED BY <1>5, <1>6

\* Any number of elements can be put in the order of a block.
LEMMA SortedExists ==
  ASSUME NEW S \in SUBSET ElementIds
  PROVE  \E s \in [1 .. Cardinality(S) -> S] : Ascending(s)
<1> DEFINE Sortable(T) == \E s \in [1 .. Cardinality(T) -> T] : Ascending(s)
           Bad == {n \in Nat : \E T \in SUBSET ElementIds : Cardinality(T) = n /\ ~Sortable(T)}
<1>1. \A T \in SUBSET ElementIds : IsFiniteSet(T) /\ Cardinality(T) \in Nat
  BY FS_Subset, FS_CardinalityType, ElementAssumption
<1>2. Bad = {}
  <2> SUFFICES ASSUME Bad # {} PROVE FALSE
    OBVIOUS
  <2>1. PICK n \in Bad : \A m \in Bad : n <= m
    <3>1. Bad \in SUBSET Nat
      OBVIOUS
    <3> HIDE DEF Bad
    <3> QED BY <3>1, LeastNumber
  <2>2. PICK T \in SUBSET ElementIds : Cardinality(T) = n /\ ~Sortable(T)
    OBVIOUS
  <2>3. T # {}
    <3> SUFFICES ASSUME T = {} PROVE FALSE
      OBVIOUS
    <3> DEFINE s == [i \in 1 .. 0 |-> 0]
    <3>1. Cardinality(T) = 0
      BY FS_EmptySet
    <3>2. s \in [1 .. 0 -> T] /\ Ascending(s)
      BY DEF Ascending
    <3> QED BY <3>1, <3>2, <2>2
  <2>4. PICK x \in T : TRUE
    BY <2>3
  <2> DEFINE U == T \ {x}
  <2>5. /\ U \in SUBSET ElementIds /\ x \in ElementIds \ U /\ U \cup {x} = T
        /\ n \in Nat /\ Cardinality(U) = n - 1
    <3>1. Cardinality(U) = Cardinality(T) - 1
      BY <1>1, FS_RemoveElement
    <3> QED BY <3>1, <2>2
  <2>6. n - 1 \in Nat /\ n - 1 + 1 = n
    BY <2>5, <1>1
  <2>7. n - 1 \notin Bad
    BY <2>1, <2>6
  <2>8. Sortable(U)
    <3> HIDE DEF Sortable, U
    <3> QED BY <2>5, <2>6, <2>7
  <2>9. PICK s \in [1 .. n - 1 -> U] : Ascending(s)
    BY <2>5, <2>8
  <2>10. \E t \in [1 .. n - 1 + 1 -> U \cup {x}] : Ascending(t)
    <3> HIDE DEF U
    <3> QED BY <2>5, <2>6, <2>9, Inserted
  <2> QED BY <2>2, <2>5, <2>6, <2>10
<1>3. Cardinality(S) \notin Bad
  BY <1>2
<1>4. Sortable(S)
  <2> HIDE DEF Sortable
  <2> QED BY <1>1, <1>3
<1> QED BY <1>4

\* The list of a block has each of its elements at one position.
LEMMA SortedLists ==
  ASSUME NEW S \in SUBSET ElementIds
  PROVE  /\ Sorted(S) \in [1 .. Cardinality(S) -> S] /\ Ascending(Sorted(S))
         /\ Cardinality(S) \in Nat /\ Len(Sorted(S)) = Cardinality(S)
         /\ \A i, j \in 1 .. Cardinality(S) : i # j => Sorted(S)[i] # Sorted(S)[j]
         /\ \A id \in S : \E i \in 1 .. Cardinality(S) : Sorted(S)[i] = id
<1> DEFINE n == Cardinality(S)
           s == Sorted(S)
<1>1. IsFiniteSet(S) /\ n \in Nat
  BY FS_Subset, FS_CardinalityType, ElementAssumption
<1>2. s \in [1 .. n -> S] /\ Ascending(s)
  BY SortedExists DEF Sorted, Ascending
<1> HIDE DEF n, s
<1>3. \A i, j \in 1 .. n : i # j => s[i] # s[j]
  <2> SUFFICES ASSUME NEW i \in 1 .. n, NEW j \in 1 .. n, i < j PROVE s[i] # s[j]
    BY <1>1
  <2>1. greater(s[i], s[j]) /\ s[i] \in ElementIds /\ s[j] \in ElementIds
    BY <1>2 DEF Ascending
  <2> QED BY <2>1, BlockOrder
<1>4. s \in Injection(1 .. n, S)
  BY <1>2, <1>3 DEF Injection, IsInjective
<1>5. Cardinality(1 .. n) = n
  BY <1>1, FS_Interval
<1>6. s \in Surjection(1 .. n, S)
  <2>1. Cardinality(1 .. n) = Cardinality(S)
    BY <1>5 DEF n
  <2> QED BY <1>1, <1>4, <2>1, FS_Injection
<1>7. \A id \in S : \E i \in 1 .. n : s[i] = id
  BY <1>6 DEF Surjection
<1>8. Len(s) = n
  <2>1. s \in Seq(S) /\ DOMAIN s = 1 .. n
    BY <1>1, <1>2
  <2> QED BY <1>1, <2>1
<1> QED BY <1>1, <1>2, <1>3, <1>7, <1>8 DEF n, s
-----------------------------------------------------------------------------
(***************************************************************************)
(* A block holds the edges of its own pairs, each under its key.           *)
(***************************************************************************)
PairsOf(S) == {p \in S \X S : p[1] < p[2]}

Measured == [isLinked : {TRUE}, distance : Distances] \cup {[isLinked |-> FALSE, distance |-> -1]}

BlockInv ==
  /\ \E present \in SUBSET PairsOf(ElementIds) : given \in [present -> Measured]
  /\ block # NoBlock => \E ids \in SUBSET ElementIds : block = NewBlock(ids, AllEdges)

LEMMA BlockInvariance == BlockSpec => []BlockInv
<1>1. BlockInit => BlockInv
  BY DEF BlockInit, BlockInv, PairsOf, Measured
<1>2. BlockInv /\ [BlockNext]_blockVars => BlockInv'
  <2> SUFFICES ASSUME BlockInv, [BlockNext]_blockVars PROVE BlockInv'
    OBVIOUS
  <2>1. given' = given
    BY DEF BlockNext, Construct, blockVars
  <2>2. AllEdges' = AllEdges
    BY <2>1 DEF AllEdges
  <2>3. \/ block' = block
        \/ \E ids \in SUBSET ElementIds : block' = NewBlock(ids, AllEdges)
    BY DEF BlockNext, Construct, blockVars
  <2>4. block' # NoBlock => \E ids \in SUBSET ElementIds : block' = NewBlock(ids, AllEdges)
    BY <2>3 DEF BlockInv
  <2>5. block' # NoBlock => \E ids \in SUBSET ElementIds : block' = NewBlock(ids, AllEdges)'
    BY <2>2, <2>4 DEF NewBlock
  <2> QED BY <2>1, <2>5 DEF BlockInv, NoBlock
<1> QED BY <1>1, <1>2, PTL DEF BlockSpec

\* The two ends in the order in which a pair has them.
Pair(a, b) == IF a < b THEN <<a, b>> ELSE <<b, a>>

LEMMA PairIsPair ==
  ASSUME NEW S \in SUBSET ElementIds, NEW a \in S, NEW b \in S, a # b
  PROVE  /\ Pair(a, b) \in PairsOf(S) /\ Pair(a, b) = Pair(b, a)
         /\ makeKey(Pair(a, b)[1], Pair(a, b)[2]) = makeKey(a, b)
<1>1. a \in Nat /\ b \in Nat /\ makeKey(a, b) = makeKey(b, a)
  BY Element, KeyOfBoth
<1>2. CASE a < b
  BY <1>1, <1>2 DEF Pair, PairsOf
<1>3. CASE b < a
  BY <1>1, <1>3 DEF Pair, PairsOf
<1> QED BY <1>1, <1>2, <1>3

LEMMA KeysOfPairs ==
  ASSUME NEW p \in PairsOf(ElementIds), NEW q \in PairsOf(ElementIds),
         makeKey(p[1], p[2]) = makeKey(q[1], q[2])
  PROVE  p = q
<1>1. /\ p[1] \in ElementIds /\ p[2] \in ElementIds /\ p[1] < p[2] /\ p = <<p[1], p[2]>>
      /\ q[1] \in ElementIds /\ q[2] \in ElementIds /\ q[1] < q[2] /\ q = <<q[1], q[2]>>
  BY DEF PairsOf
<1>2. p[1] = q[1] /\ p[2] = q[2]
  BY <1>1, KeyOfPair
<1> QED BY <1>1, <1>2

EdgeOf(p) == Edge(p[1], p[2], given[p].isLinked, given[p].distance)

\* What a block finds under a key is the edge of the pair that the key is of.
LEMMA EdgesOfBlock ==
  ASSUME BlockInv, NEW ids \in SUBSET ElementIds, block = NewBlock(ids, AllEdges)
  PROVE  /\ block.elementIds = ids
         /\ \A k \in DOMAIN block.edges :
              \E p \in PairsOf(ids) \cap DOMAIN given :
                 k = makeKey(p[1], p[2]) /\ block.edges[k] = EdgeOf(p)
         /\ \A p \in PairsOf(ids) :
              /\ makeKey(p[1], p[2]) \in DOMAIN block.edges <=> p \in DOMAIN given
              /\ p \in DOMAIN given => block.edges[makeKey(p[1], p[2])] = EdgeOf(p)
<1> DEFINE keys == {makeKey(p[1], p[2]) : p \in {q \in ids \X ids : q[1] < q[2]}}
           K(p) == makeKey(p[1], p[2])
<1>1. DOMAIN given \subseteq PairsOf(ElementIds) /\ PairsOf(ids) \subseteq PairsOf(ElementIds)
  BY DEF BlockInv, PairsOf
<1>2. /\ DOMAIN AllEdges = {K(p) : p \in DOMAIN given}
      /\ \A k \in DOMAIN AllEdges :
           AllEdges[k] = EdgeOf(CHOOSE p \in DOMAIN given : K(p) = k)
  BY DEF AllEdges, EdgeOf
<1>3. \A p \in DOMAIN given : AllEdges[K(p)] = EdgeOf(p)
  <2> SUFFICES ASSUME NEW p \in DOMAIN given PROVE AllEdges[K(p)] = EdgeOf(p)
    OBVIOUS
  <2> DEFINE c == CHOOSE q \in DOMAIN given : K(q) = K(p)
  <2>1. c \in DOMAIN given /\ K(c) = K(p)
    OBVIOUS
  <2>2. c = p
    <3> HIDE DEF c
    <3> QED BY <2>1, <1>1, KeysOfPairs
  <2>3. K(p) \in DOMAIN AllEdges
    BY <1>2
  <2>4. AllEdges[K(p)] = EdgeOf(c)
    <3> HIDE DEF K
    <3> QED BY <1>2, <2>3
  <2> QED BY <2>2, <2>4
<1>4. /\ block.elementIds = ids
      /\ block.edges = [k \in keys \cap DOMAIN AllEdges |-> AllEdges[k]]
  BY DEF NewBlock
<1>5. keys = {K(p) : p \in PairsOf(ids)}
  BY DEF PairsOf
<1>6. DOMAIN block.edges = keys \cap DOMAIN AllEdges
  BY <1>4
<1>7. \A k \in DOMAIN block.edges : block.edges[k] = AllEdges[k]
  BY <1>4
<1>8. ASSUME NEW p \in PairsOf(ids), K(p) \in DOMAIN AllEdges
      PROVE  p \in DOMAIN given
  <2>1. PICK q \in DOMAIN given : K(q) = K(p)
    <3> HIDE DEF K
    <3> QED BY <1>2, <1>8
  <2>2. q = p
    BY <2>1, <1>1, KeysOfPairs
  <2> QED BY <2>2
<1> HIDE DEF keys, K
<1>9. ASSUME NEW k \in DOMAIN block.edges
      PROVE  \E p \in PairsOf(ids) \cap DOMAIN given : k = K(p) /\ block.edges[k] = EdgeOf(p)
  <2>1. PICK p \in PairsOf(ids) : k = K(p)
    BY <1>5, <1>6
  <2>2. p \in DOMAIN given
    BY <1>6, <1>8, <2>1
  <2> QED BY <1>3, <1>7, <2>1, <2>2
<1>10. ASSUME NEW p \in PairsOf(ids)
       PROVE  /\ K(p) \in DOMAIN block.edges <=> p \in DOMAIN given
              /\ p \in DOMAIN given => block.edges[K(p)] = EdgeOf(p)
  <2>1. K(p) \in keys
    BY <1>5
  <2>2. p \in DOMAIN given => K(p) \in DOMAIN AllEdges
    BY <1>2
  <2>3. K(p) \in DOMAIN block.edges <=> p \in DOMAIN given
    BY <2>1, <2>2, <1>6, <1>8
  <2> QED BY <2>3, <1>3, <1>7
<1> QED BY <1>4, <1>9, <1>10 DEF K

\* What the calorimeters and the tracker measured of two elements.
LinkBetween(a, b) == IF Pair(a, b) \in DOMAIN given THEN given[Pair(a, b)] ELSE [isLinked |-> FALSE]

LEMMA LinksAreMeasured ==
  ASSUME BlockInv, NEW p \in DOMAIN given
  PROVE  /\ p \in PairsOf(ElementIds) /\ given[p].isLinked \in BOOLEAN
         /\ given[p].isLinked = TRUE => given[p].distance \in Nat
<1>1. given[p] \in Measured /\ p \in PairsOf(ElementIds)
  BY DEF BlockInv
<1>2. given[p].isLinked \in BOOLEAN /\ (given[p].isLinked = TRUE => given[p].distance \in Distances)
  <2> DEFINE g == given[p]
  <2>1. \/ g \in [isLinked : {TRUE}, distance : Distances]
        \/ g = [isLinked |-> FALSE, distance |-> -1]
    BY <1>1 DEF Measured
  <2> HIDE DEF g
  <2>2. \/ g.isLinked = TRUE /\ g.distance \in Distances
        \/ g.isLinked = FALSE
    <3>1. CASE g \in [isLinked : {TRUE}, distance : Distances]
      <4>1. g.isLinked \in {TRUE} /\ g.distance \in Distances
        BY <3>1
      <4> QED BY <4>1, Zenon
    <3>2. CASE g = [isLinked |-> FALSE, distance |-> -1]
      <4>1. g.isLinked = FALSE
        BY <3>2, Zenon
      <4> QED BY <4>1, Zenon
    <3> QED BY <2>1, <3>1, <3>2, Zenon
  <2> QED BY <2>2, Zenon DEF g
<1> QED BY <1>1, <1>2, DistancesAssumption

\* The matrix shows of a pair its own distance, if it is linked.
LEMMA ShownIsMeasured ==
  ASSUME BlockInv, NEW ids \in SUBSET ElementIds, block = NewBlock(ids, AllEdges),
         NEW a \in ids, NEW b \in ids, a # b
  PROVE  IF LinkBetween(a, b).isLinked THEN Shown(block, a, b) = LinkBetween(a, b).distance
                                       ELSE Shown(block, a, b) = Dashes
<1> DEFINE p == Pair(a, b)
<1>1. p \in PairsOf(ids) /\ makeKey(p[1], p[2]) = makeKey(a, b)
  BY PairIsPair
<1> HIDE DEF p
<1>2. /\ hasEdge(block, a, b) <=> p \in DOMAIN given
      /\ p \in DOMAIN given => edge(block, a, b) = EdgeOf(p)
  BY <1>1, EdgesOfBlock DEF hasEdge, edge
<1>3. CASE p \notin DOMAIN given
  <2>1. LinkBetween(a, b).isLinked = FALSE
    BY <1>3 DEF LinkBetween, p
  <2>2. ~hasEdge(block, a, b)
    BY <1>2, <1>3
  <2>3. Shown(block, a, b) = Dashes
    BY <2>2 DEF Shown
  <2> QED BY <2>1, <2>3
<1>4. CASE p \in DOMAIN given
  <2>1. LinkBetween(a, b) = given[p]
    BY <1>4 DEF LinkBetween, p
  <2>2. /\ hasEdge(block, a, b)
        /\ edge(block, a, b).isLinked = given[p].isLinked
        /\ edge(block, a, b).distance = given[p].distance
    BY <1>2, <1>4 DEF EdgeOf, Edge
  <2>3. given[p].isLinked \in BOOLEAN /\ (given[p].isLinked = TRUE => given[p].distance \in Nat)
    BY <1>4, LinksAreMeasured
  <2>4. CASE given[p].isLinked = TRUE
    <3>1. Shown(block, a, b) = given[p].distance
      BY <2>2, <2>3, <2>4 DEF Shown
    <3> QED BY <2>1, <2>4, <3>1
  <2>5. CASE given[p].isLinked = FALSE
    <3>1. Shown(block, a, b) = Dashes
      BY <2>2, <2>5 DEF Shown
    <3> QED BY <2>1, <2>5, <3>1
  <2> QED BY <2>3, <2>4, <2>5
<1> QED BY <1>3, <1>4

\* The end of a pair opposite to one of its elements is the other one.
LEMMA OtherEnd ==
  ASSUME NEW p \in PairsOf(ElementIds), NEW a \in ElementIds, NEW b \in ElementIds
  PROVE  /\ a # b /\ p = Pair(a, b) => otherId(EdgeOf(p), a) = b
         /\ otherId(EdgeOf(p), a) = b => a # b /\ p = Pair(a, b)
<1>1. /\ p[1] \in Nat /\ p[2] \in Nat /\ p[1] < p[2] /\ p = <<p[1], p[2]>>
      /\ a \in Nat /\ b \in Nat /\ b > 0
  BY Element DEF PairsOf
<1>2. EdgeOf(p).endIds[1] = p[1] /\ EdgeOf(p).endIds[2] = p[2]
  BY DEF EdgeOf, Edge
<1>3. /\ p[1] = a => otherId(EdgeOf(p), a) = p[2]
      /\ p[2] = a => otherId(EdgeOf(p), a) = p[1]
      /\ p[1] # a /\ p[2] # a => otherId(EdgeOf(p), a) = 0
  BY <1>1, <1>2 DEF otherId
<1>4. ASSUME a # b, p = Pair(a, b)
      PROVE  otherId(EdgeOf(p), a) = b
  BY <1>1, <1>3, <1>4 DEF Pair
<1>5. ASSUME otherId(EdgeOf(p), a) = b
      PROVE  a # b /\ p = Pair(a, b)
  BY <1>1, <1>3, <1>5 DEF Pair
<1> QED BY <1>4, <1>5

\* An element finds another one, by their types or by any, if they are linked.
LEMMA LinkedIdsAreLinked ==
  ASSUME BlockInv, NEW ids \in SUBSET ElementIds, block = NewBlock(ids, AllEdges),
         NEW a \in ids, NEW b \in ids, a # b,
         NEW matchtype \in {kUnknown, {typeLetter(a), typeLetter(b)}}
  PROVE  b \in linkedIds(block, a, matchtype) <=> LinkBetween(a, b).isLinked
<1> DEFINE p == Pair(a, b)
           k == makeKey(p[1], p[2])
<1>1. p \in PairsOf(ids) /\ p \in PairsOf(ElementIds)
  BY PairIsPair DEF PairsOf
<1>2. ASSUME p \in DOMAIN given, given[p].isLinked = TRUE
      PROVE  b \in linkedIds(block, a, matchtype)
  <2>1. k \in DOMAIN block.edges /\ block.edges[k] = EdgeOf(p)
    BY <1>1, <1>2, EdgesOfBlock
  <2>2. otherId(EdgeOf(p), a) = b /\ b > 0
    BY <1>1, OtherEnd, Element
  <2>3. EdgeOf(p).isLinked
    BY <1>2 DEF EdgeOf, Edge
  <2>4. edgeType(EdgeOf(p)) = {typeLetter(a), typeLetter(b)}
    <3>1. {typeLetter(p[1]), typeLetter(p[2])} = {typeLetter(a), typeLetter(b)}
      BY DEF Pair
    <3>2. {typeLetter(p[1]), typeLetter(p[2])} \subseteq {"e", "h", "t"}
      BY <3>1, Element
    <3>3. EdgeOf(p).endIds[1] = p[1] /\ EdgeOf(p).endIds[2] = p[2]
      BY DEF EdgeOf, Edge
    <3> HIDE DEF p
    <3> QED BY <3>1, <3>2, <3>3 DEF edgeType
  <2> HIDE DEF k, p
  <2>5. k \in linkedEdgeKeys(block, a, matchtype)
    BY <2>1, <2>2, <2>3, <2>4 DEF linkedEdgeKeys
  <2> QED BY <2>1, <2>2, <2>5 DEF linkedIds
<1>3. ASSUME b \in linkedIds(block, a, matchtype)
      PROVE  p \in DOMAIN given /\ given[p].isLinked
  <2>1. PICK i \in DOMAIN block.edges : block.edges[i].isLinked /\ otherId(block.edges[i], a) = b
    BY <1>3 DEF linkedIds, linkedEdgeKeys
  <2>2. PICK q \in PairsOf(ids) \cap DOMAIN given : block.edges[i] = EdgeOf(q)
    BY <2>1, EdgesOfBlock
  <2>3. q = p
    <3>1. q \in PairsOf(ElementIds) /\ a \in ElementIds /\ b \in ElementIds
      BY <2>2 DEF PairsOf
    <3> QED BY <2>1, <2>2, <3>1, OtherEnd
  <2>4. EdgeOf(q).isLinked = given[q].isLinked
    BY DEF EdgeOf, Edge
  <2> QED BY <2>1, <2>2, <2>3, <2>4
<1>4. p \in DOMAIN given => given[p].isLinked \in BOOLEAN
  BY LinksAreMeasured
<1>5. LinkBetween(a, b).isLinked <=> p \in DOMAIN given /\ given[p].isLinked
  BY DEF LinkBetween
<1> QED BY <1>2, <1>3, <1>4, <1>5

\* As many elements of a kind as there are positions in the list that hold one.
LEMMA SortedCounts ==
  ASSUME NEW ids \in SUBSET ElementIds, NEW letter
  PROVE  Cardinality({id \in ids : typeLetter(id) = letter}) =
           Cardinality({i \in 1 .. Cardinality(ids) : typeLetter(Sorted(ids)[i]) = letter})
<1> DEFINE n == Cardinality(ids)
           s == Sorted(ids)
           A == {i \in 1 .. n : typeLetter(s[i]) = letter}
           B == {id \in ids : typeLetter(id) = letter}
           f == [i \in A |-> s[i]]
<1>1. /\ s \in [1 .. n -> ids] /\ n \in Nat
      /\ \A i, j \in 1 .. n : i # j => s[i] # s[j]
      /\ \A id \in ids : \E i \in 1 .. n : s[i] = id
  BY SortedLists
<1>2. IsFiniteSet(A)
  <2>1. IsFiniteSet(1 .. n) /\ A \in SUBSET (1 .. n)
    BY <1>1, FS_Interval
  <2> QED BY <2>1, FS_Subset
<1> HIDE DEF n, s
<1>3. f \in [A -> B]
  BY <1>1
<1>4. \A i, j \in A : f[i] = f[j] => i = j
  BY <1>1
<1>5. \A id \in B : \E i \in A : f[i] = id
  BY <1>1
<1>6. f \in Bijection(A, B)
  <2> HIDE DEF f, A, B
  <2>1. f \in Injection(A, B)
    BY <1>3, <1>4 DEF Injection, IsInjective
  <2>2. f \in Surjection(A, B)
    BY <1>3, <1>5 DEF Surjection
  <2> QED BY <2>1, <2>2 DEF Bijection
<1>7. Cardinality(B) = Cardinality(A)
  <2> HIDE DEF f, A, B
  <2> QED BY <1>2, <1>6, FS_Bijection DEF ExistsBijection
<1> QED BY <1>7 DEF n, s

(***************************************************************************)
(* What a block says of its elements is what was measured of them, for any *)
(* number of elements and any edges: the matrix that it prints shows each  *)
(* linked pair at its own cell, its name counts its list, and each end of  *)
(* a link finds the other.                                                 *)
(***************************************************************************)
THEOREM BlocksShowTheirLinks == BlockSpec => []BlockShowsItsLinks
<1>1. BlockInv => BlockShowsItsLinks
  <2> SUFFICES ASSUME BlockInv, block # NoBlock
               PROVE  BlockShowsItsLinks
    BY DEF BlockShowsItsLinks
  <2> PICK S \in SUBSET ElementIds : block = NewBlock(S, AllEdges)
    BY DEF BlockInv
  <2>1. block.elementIds = S
    BY EdgesOfBlock
  <2> DEFINE ids == Sorted(block.elementIds)
             n == Cardinality(S)
             names == elementsString(block)
             rows == edgeMatrixString(block)
             LinkOf(a, b) == LET p == IF a < b THEN <<a, b>> ELSE <<b, a>>
                             IN IF p \in DOMAIN given THEN given[p] ELSE [isLinked |-> FALSE]
  <2>2. /\ ids \in [1 .. n -> S] /\ n \in Nat /\ Len(ids) = n /\ DOMAIN ids = 1 .. n
        /\ \A i, j \in 1 .. n : i < j => greater(ids[i], ids[j])
        /\ \A i, j \in 1 .. n : i # j => ids[i] # ids[j]
    <3>1. ids \in [1 .. n -> S] /\ Ascending(ids) /\ n \in Nat /\ Len(ids) = n
      BY <2>1, SortedLists
    <3>2. \A i, j \in 1 .. n : i # j => ids[i] # ids[j]
      BY <2>1, SortedLists
    <3> HIDE DEF ids, n
    <3> QED BY <3>1, <3>2 DEF Ascending
  <2>3. \A a, b : LinkOf(a, b) = LinkBetween(a, b)
    BY DEF LinkBetween, Pair
  <2>4. /\ DOMAIN names = 1 .. n
        /\ \A i \in 1 .. n : names[i].name = <<typeLetter(ids[i]), i - 1>>
    BY <2>1, <2>2 DEF elementsString
  <2>5. ASSUME NEW i \in 1 .. n, NEW j \in 1 .. n, i < j
        PROVE  /\ IF LinkOf(ids[i], ids[j]).isLinked
                  THEN Cell(rows, i, j) = LinkOf(ids[i], ids[j]).distance
                  ELSE Cell(rows, i, j) = Dashes
               /\ names[i] # names[j]
    <3>1. ids[i] \in S /\ ids[j] \in S /\ ids[i] # ids[j] /\ ids[i] \in ElementIds /\ ids[j] \in ElementIds
      <4> HIDE DEF ids, n
      <4> QED BY <2>2, <2>5
    <3>2. Cell(rows, i, j) = Shown(block, ids[j], ids[i])
      <4>1. ~(Len(ids) < 2) /\ j \in 1 .. Len(ids) /\ i \in 1 .. j
        <5> HIDE DEF ids, n
        <5> QED BY <2>2, <2>5
      <4>2. rows = [row \in 1 .. Len(ids) |-> [column \in 1 .. row |-> Shown(block, ids[row], ids[column])]]
        BY <2>1, <4>1 DEF edgeMatrixString
      <4> HIDE DEF ids, n, rows
      <4>3. rows[j][i] = Shown(block, ids[j], ids[i])
        BY <4>1, <4>2
      <4> QED BY <4>3, <2>5 DEF Cell
    <3>3. LinkBetween(ids[j], ids[i]) = LinkBetween(ids[i], ids[j])
      <4> HIDE DEF ids
      <4> QED BY <3>1, PairIsPair DEF LinkBetween
    <3>4. IF LinkBetween(ids[i], ids[j]).isLinked
          THEN Shown(block, ids[j], ids[i]) = LinkBetween(ids[i], ids[j]).distance
          ELSE Shown(block, ids[j], ids[i]) = Dashes
      <4> HIDE DEF ids
      <4> QED BY <3>1, <3>3, ShownIsMeasured
    <3>5. names[i] # names[j]
      <4> HIDE DEF names, n, ids
      <4>1. names[i].name[2] = i - 1 /\ names[j].name[2] = j - 1
        BY <2>4
      <4> QED BY <4>1, <2>5, <2>2
    <3> HIDE DEF ids, names, rows, n, LinkOf
    <3> QED BY <2>3, <3>2, <3>4, <3>5, Zenon
  <2>6. ASSUME NEW part \in shortName(block)
        PROVE  part[2] = Cardinality({i \in DOMAIN names :
                 <<part[1], names[i].name[1]>> \in {<<"E", "e">>, <<"H", "h">>, <<"T", "t">>}})
    <3> DEFINE Count(letter) == Cardinality({id \in S : typeLetter(id) = letter})
               Listed(letter) == {i \in 1 .. n : typeLetter(ids[i]) = letter}
    <3>1. \E letter \in {"e", "h", "t"} :
            part[2] = Count(letter) /\ <<part[1], letter>> \in {<<"E", "e">>, <<"H", "h">>, <<"T", "t">>}
      BY <2>1 DEF shortName, countEcal, countHcal, countTracks, isEcal, isHcal, isTrack
    <3>2. PICK letter \in {"e", "h", "t"} :
            part[2] = Count(letter) /\ <<part[1], letter>> \in {<<"E", "e">>, <<"H", "h">>, <<"T", "t">>}
      BY <3>1
    <3>3. \A l : <<part[1], l>> \in {<<"E", "e">>, <<"H", "h">>, <<"T", "t">>} <=> l = letter
      BY <3>2
    <3>4. {i \in DOMAIN names :
             <<part[1], names[i].name[1]>> \in {<<"E", "e">>, <<"H", "h">>, <<"T", "t">>}} = Listed(letter)
      <4>1. \A i \in 1 .. n : names[i].name[1] = typeLetter(ids[i])
        <5> HIDE DEF names, ids, n
        <5> QED BY <2>4
      <4> HIDE DEF names, ids, n
      <4> QED BY <2>4, <3>3, <4>1
    <3>5. Count(letter) = Cardinality(Listed(letter))
      <4>1. Count(letter) = Cardinality({i \in 1 .. n : typeLetter(Sorted(S)[i]) = letter})
        BY SortedCounts
      <4>2. Sorted(S) = ids
        BY <2>1
      <4> HIDE DEF Count, ids, n
      <4> QED BY <4>1, <4>2
    <3> HIDE DEF Count, Listed, names, ids, n
    <3> QED BY <3>2, <3>4, <3>5
  <2>7. ASSUME NEW a \in S, NEW b \in S, a # b
        PROVE  /\ b \in linkedIds(block, a, {typeLetter(a), typeLetter(b)}) <=> LinkOf(a, b).isLinked
               /\ linkedIds(block, a, {typeLetter(a), typeLetter(b)}) \subseteq linkedIds(block, a, kUnknown)
               /\ b \in linkedIds(block, a, kUnknown) => a \in linkedIds(block, b, kUnknown)
    <3>1. b \in linkedIds(block, a, {typeLetter(a), typeLetter(b)}) <=> LinkBetween(a, b).isLinked
      BY <2>7, LinkedIdsAreLinked
    <3>2. linkedIds(block, a, {typeLetter(a), typeLetter(b)}) \subseteq linkedIds(block, a, kUnknown)
      BY DEF linkedIds, linkedEdgeKeys
    <3>3. b \in linkedIds(block, a, kUnknown) <=> LinkBetween(a, b).isLinked
      BY <2>7, LinkedIdsAreLinked
    <3>4. a \in linkedIds(block, b, kUnknown) <=> LinkBetween(b, a).isLinked
      BY <2>7, LinkedIdsAreLinked
    <3>5. LinkBetween(a, b) = LinkBetween(b, a)
      BY <2>7, PairIsPair DEF LinkBetween
    <3> HIDE DEF LinkOf
    <3> QED BY <2>3, <3>1, <3>2, <3>3, <3>4, <3>5
  <2>8. DOMAIN ids = 1 .. n
    BY <2>2
  <2> HIDE DEF names, rows, LinkOf, ids, n
  <2>9. /\ \A i, j \in DOMAIN ids : i < j =>
             /\ IF LinkOf(ids[i], ids[j]).isLinked
                THEN Cell(rows, i, j) = LinkOf(ids[i], ids[j]).distance
                ELSE Cell(rows, i, j) = Dashes
             /\ names[i] # names[j]
        /\ \A part \in shortName(block) :
             part[2] = Cardinality({i \in DOMAIN names :
                 <<part[1], names[i].name[1]>> \in {<<"E", "e">>, <<"H", "h">>, <<"T", "t">>}})
        /\ \A a, b \in block.elementIds : a # b =>
             /\ b \in linkedIds(block, a, {typeLetter(a), typeLetter(b)}) <=> LinkOf(a, b).isLinked
             /\ linkedIds(block, a, {typeLetter(a), typeLetter(b)}) \subseteq linkedIds(block, a, kUnknown)
             /\ b \in linkedIds(block, a, kUnknown) => a \in linkedIds(block, b, kUnknown)
    BY <2>1, <2>5, <2>6, <2>7, <2>8, Zenon
  <2> QED BY <2>9, Zenon DEF BlockShowsItsLinks, names, rows, LinkOf, ids
<1> QED BY <1>1, BlockInvariance, PTL
=============================================================================
