---------------------------- MODULE GraphProofs ----------------------------
(***************************************************************************)
(* Both breadth first searches return exactly the nodes that the contract  *)
(* of Visitor promises, in every graph, for every depth and however often  *)
(* a visitor is used.  Without a limit: what is marked can be reached, and *)
(* a marked node waits or has only marked neighbours, so that when nothing *)
(* waits the marks are closed.  With a limit: the marks lie between two    *)
(* balls around the start node, the depths that wait are those of the two, *)
(* and what waits at the larger depth is new.  At the end: buildSubGraphs, *)
(* which cuts a graph into groups with such searches.                      *)
(***************************************************************************)
EXTENDS BFSVisitor, BuildSubGraphs, FiniteSetTheorems, WellFoundedInduction, TLAPS

Elements(s) == {s[i] : i \in DOMAIN s}

Queued == Elements(nodeQueue)

Unlimited == call.depth < 0

\* The search of a running call.
SearchInv ==
  running => /\ m_visited = Visited
             /\ call.start \in m_visited
             /\ m_visited \subseteq Reachable(call.type, call.start)
             /\ Queued \subseteq m_visited
             /\ Unlimited => \A n \in m_visited \ Queued :
                                Followed(call.type, n) \subseteq m_visited

\* Between calls nothing is marked or queued, and the result is complete.
RestInv ==
  ~running => /\ m_visited = {}
              /\ nodeQueue = <<>>
              /\ call # NoCall /\ Unlimited =>
                    Visited = Reachable(call.type, call.start)

IInv == TypeOK /\ SearchInv /\ RestInv

\* A caller that sets no limit gets every node it can reach, and no other.
UnlimitedCallsAreComplete ==
  Returned /\ Unlimited => Visited = Reachable(call.type, call.start)

-----------------------------------------------------------------------------
\* Following a link from a node that should be found leads to another one.
LEMMA ReachableIsClosed ==
  ASSUME NEW type, NEW start \in Node, GraphTypeOK
  PROVE  Closed(type, Reachable(type, start))
<1> SUFFICES ASSUME NEW n \in Reachable(type, start), NEW m \in Followed(type, n)
             PROVE  m \in Reachable(type, start)
  BY DEF Closed
<1>1. m \in Node
  BY DEF Reachable, Followed, FollowedChildren, FollowedParents, GraphTypeOK
<1>2. ASSUME NEW S \in SUBSET Node, start \in S, Closed(type, S)
      PROVE  m \in S
  <2>1. n \in S
    BY <1>2 DEF Reachable
  <2>2. QED
    BY <1>2, <2>1 DEF Closed
<1>3. QED
  BY <1>1, <1>2 DEF Reachable

\* A call has a start node, a direction and a depth; NoCall has none.
LEMMA CallFields ==
  ASSUME NEW c \in Call
  PROVE  /\ c.start \in Node
         /\ c.type \in VisitType
         /\ c.depth \in Depth
         /\ c # NoCall
<1>1. c.asked = TRUE /\ NoCall.asked = FALSE
  BY DEF Call, NoCall
<1>2. QED
  BY <1>1 DEF Call

\* Appending to a sequence adds one element to those it lists.
LEMMA AppendAdds ==
  ASSUME NEW T, NEW s \in Seq(T), NEW x \in T
  PROVE  Elements(Append(s, x)) = Elements(s) \cup {x}
<1> DEFINE L == Len(s)
<1>1. /\ L \in Nat
      /\ DOMAIN s = 1 .. L
      /\ DOMAIN Append(s, x) = 1 .. L + 1
      /\ Append(s, x)[L + 1] = x
      /\ \A i \in 1 .. L : Append(s, x)[i] = s[i]
  OBVIOUS
<1> HIDE DEF L
<1>2. QED
  BY <1>1 DEF Elements

\* The head of a queue is one of its elements.
LEMMA HeadIsElement ==
  ASSUME NEW T, NEW s \in Seq(T), s # <<>>
  PROVE  Head(s) \in Elements(s) /\ Head(s) \in T
<1>1. 1 \in DOMAIN s /\ Head(s) = s[1] /\ s[1] \in T
  OBVIOUS
<1>2. QED
  BY <1>1 DEF Elements

\* Popping a queue leaves its elements, except perhaps the one at its head.
LEMMA TailKeeps ==
  ASSUME NEW T, NEW s \in Seq(T), s # <<>>
  PROVE  /\ Elements(Tail(s)) \subseteq Elements(s)
         /\ Elements(s) \subseteq Elements(Tail(s)) \cup {Head(s)}
<1> DEFINE L == Len(s)
<1>1. /\ L \in Nat /\ L > 0
      /\ DOMAIN s = 1 .. L
      /\ DOMAIN Tail(s) = 1 .. L - 1
      /\ Head(s) = s[1]
      /\ \A i \in 1 .. L - 1 : Tail(s)[i] = s[i + 1]
  OBVIOUS
<1> HIDE DEF L
<1>2. \A i \in 1 .. L - 1 : i + 1 \in 1 .. L
  BY <1>1
<1>3. \A i \in 2 .. L : i - 1 \in 1 .. L - 1 /\ s[i] = Tail(s)[i - 1]
  BY <1>1
<1>4. Elements(Tail(s)) \subseteq Elements(s)
  BY <1>1, <1>2 DEF Elements
<1>5. ASSUME NEW i \in 1 .. L
      PROVE  s[i] \in Elements(Tail(s)) \cup {Head(s)}
  <2>1. CASE i = 1
    <3>1. s[i] = Head(s)
      BY <1>1, <2>1
    <3>2. QED
      BY <3>1
  <2>2. CASE i # 1
    <3>1. i - 1 \in DOMAIN Tail(s) /\ s[i] = Tail(s)[i - 1]
      BY <1>1, <1>3, <1>5, <2>2
    <3>2. QED
      BY <3>1 DEF Elements
  <2>3. QED
    BY <2>1, <2>2
<1>6. QED
  BY <1>1, <1>4, <1>5 DEF Elements

-----------------------------------------------------------------------------
LEMMA InitIInv == Init => IInv
<1> SUFFICES ASSUME Init PROVE IInv
  OBVIOUS
<1>1. TypeOK
  <2>1. GraphTypeOK
    BY DEF Init, GraphInit, GraphTypeOK
  <2>2. /\ m_result \in Seq(Node) /\ nodeQueue \in Seq(Node)
        /\ nodeDepth \in Seq(Nat) /\ Len(nodeDepth) = Len(nodeQueue)
    BY DEF Init
  <2>3. running \in BOOLEAN /\ ~running /\ call = NoCall /\ m_visited = {}
    BY DEF Init
  <2>4. QED
    BY <2>1, <2>2, <2>3 DEF TypeOK
<1>2. SearchInv /\ RestInv
  BY DEF Init, SearchInv, RestInv
<1>3. QED
  BY <1>1, <1>2 DEF IInv

LEMMA LinkKeepsIInv ==
  ASSUME IInv, NEW a \in Node, NEW b \in Node, Link(a, b)
  PROVE  IInv'
<1> USE DEF IInv, Link, AddChild, search
<1>1. GraphTypeOK'
  BY DEF TypeOK, GraphTypeOK
<1>2. ~running
  BY CallFields DEF TypeOK
<1>3. QED
  BY <1>1, <1>2 DEF TypeOK, SearchInv, RestInv

\* A call starts with the start node marked and alone in the queue.
LEMMA TraverseKeepsIInv ==
  ASSUME IInv, NEW c \in Call, Traverse(c)
  PROVE  IInv'
<1> USE DEF IInv, Traverse
<1>1. c.start \in Node /\ c.start \notin m_visited /\ nodeQueue = <<>> /\ nodeDepth = <<>>
  <2>1. Len(nodeDepth) = 0 /\ nodeDepth \in Seq(Nat)
    BY DEF RestInv, TypeOK
  <2>2. QED
    BY <2>1, CallFields DEF RestInv
<1>2. /\ m_result' = <<c.start>>
      /\ m_visited' = {c.start}
      /\ nodeQueue' = <<c.start>>
      /\ nodeDepth' = <<0>>
  BY <1>1 DEF RestInv
<1>3. TypeOK'
  BY <1>1, <1>2 DEF TypeOK, GraphTypeOK, graph
<1>4. SearchInv'
  <2>1. Visited' = {c.start} /\ Queued' = {c.start}
    BY <1>2 DEF Visited, Queued, Elements
  <2>2. c.start \in Reachable(c.type, c.start)
    BY <1>1 DEF Reachable
  <2>3. Reachable(call.type, call.start)' = Reachable(c.type, c.start)
    BY DEF Reachable, Closed, Followed, FollowedChildren, FollowedParents, graph
  <2>4. QED
    BY <1>2, <2>1, <2>2, <2>3 DEF SearchInv
<1>5. RestInv'
  BY DEF RestInv
<1>6. QED
  BY <1>3, <1>4, <1>5

\* Visiting a neighbour of the node at the front marks and queues it.
LEMMA VisitKeepsIInv ==
  ASSUME IInv, running, nodeQueue # <<>>, NEW n \in Followed(call.type, Head(nodeQueue)),
         Visit(n)
  PROVE  IInv'
<1> USE DEF IInv, Visit
<1>1. Head(nodeQueue) \in Queued /\ Head(nodeQueue) \in Node
  BY HeadIsElement DEF TypeOK, Queued
<1>2. n \in Node
  BY <1>1 DEF TypeOK, GraphTypeOK, Followed, FollowedChildren, FollowedParents
<1>3. TypeOK'
  <2>1. Head(nodeDepth) \in Nat
    BY DEF TypeOK
  <2>2. nodeQueue' \in Seq(Node) /\ nodeDepth' \in Seq(Nat) /\ Len(nodeDepth') = Len(nodeQueue')
    BY <1>2, <2>1 DEF TypeOK
  <2>3. QED
    BY <1>2, <2>2 DEF TypeOK, GraphTypeOK
<1>4. SearchInv'
  <2> m_result \in Seq(Node) /\ nodeQueue \in Seq(Node)
    BY DEF TypeOK
  <2>1. Visited' = Visited \cup {n}
    <3>1. Elements(Append(m_result, n)) = Elements(m_result) \cup {n}
      BY <1>2, AppendAdds
    <3>2. QED
      BY <3>1 DEF Visited, Elements
  <2>2. Queued' = Queued \cup {n}
    BY <1>2, AppendAdds DEF Queued
  <2>3. n \in Reachable(call.type, call.start)
    <3>1. call.start \in Node
      BY CallFields DEF TypeOK
    <3>2. Closed(call.type, Reachable(call.type, call.start))
      BY <3>1, ReachableIsClosed DEF TypeOK
    <3>3. QED
      BY <1>1, <3>2 DEF SearchInv, Closed
  <2>4. /\ Reachable(call.type, call.start)' = Reachable(call.type, call.start)
        /\ \A m : Followed(call.type, m)' = Followed(call.type, m)
    BY DEF Reachable, Closed, Followed, FollowedChildren, FollowedParents
  <2>5. QED
    BY <2>1, <2>2, <2>3, <2>4 DEF SearchInv, Unlimited
<1>5. RestInv'
  BY DEF RestInv
<1>6. QED
  BY <1>3, <1>4, <1>5

\* A node leaves the queue only when all its neighbours are marked.
LEMMA PopKeepsIInv ==
  ASSUME IInv, Pop
  PROVE  IInv'
<1> USE DEF IInv, Pop
<1>1. TypeOK'
  BY DEF TypeOK, GraphTypeOK
<1>2. SearchInv'
  <2>1. Queued' \subseteq Queued /\ Queued \subseteq Queued' \cup {Head(nodeQueue)}
    BY TailKeeps DEF TypeOK, Queued
  <2>2. Unlimited => Followed(call.type, Head(nodeQueue)) \subseteq m_visited
    BY DEF Unlimited, DepthAllows, UnvisitedChildren, UnvisitedParents, Followed
  <2>3. /\ Reachable(call.type, call.start)' = Reachable(call.type, call.start)
        /\ \A m : Followed(call.type, m)' = Followed(call.type, m)
        /\ Visited' = Visited
    BY DEF Reachable, Closed, Followed, FollowedChildren, FollowedParents, Visited
  <2>4. QED
    BY <2>1, <2>2, <2>3 DEF SearchInv, Unlimited
<1>3. RestInv'
  BY DEF RestInv
<1>4. QED
  BY <1>1, <1>2, <1>3

\* With an empty queue the marks are closed, and so hold all that can be reached.
LEMMA SearchedAll ==
  ASSUME IInv, running, nodeQueue = <<>>, Unlimited
  PROVE  Visited = Reachable(call.type, call.start)
<1> USE DEF IInv
<1>1. Queued = {}
  BY DEF Queued, Elements
<1>2. Closed(call.type, m_visited) /\ call.start \in m_visited
  BY <1>1 DEF SearchInv, Closed
<1>3. call.start \in Node /\ m_visited \in SUBSET Node
  BY CallFields DEF TypeOK
<1>4. Reachable(call.type, call.start) \subseteq m_visited
  BY <1>2, <1>3 DEF Reachable
<1>5. QED
  BY <1>4 DEF SearchInv

LEMMA ReturnKeepsIInv ==
  ASSUME IInv, Return
  PROVE  IInv'
<1> USE DEF IInv, Return
<1>1. TypeOK'
  BY DEF TypeOK, GraphTypeOK
<1>2. SearchInv'
  BY DEF SearchInv
<1>3. RestInv'
  <2>1. /\ Reachable(call.type, call.start)' = Reachable(call.type, call.start)
        /\ Visited' = Visited
        /\ Unlimited' <=> Unlimited
    BY DEF Reachable, Closed, Followed, FollowedChildren, FollowedParents, Visited, Unlimited
  <2>2. QED
    BY <2>1, SearchedAll DEF RestInv
<1>4. QED
  BY <1>1, <1>2, <1>3

LEMMA StutterKeepsIInv ==
  ASSUME IInv, UNCHANGED vars
  PROVE  IInv'
BY DEF vars, IInv, TypeOK, GraphTypeOK, SearchInv, RestInv, Visited, Queued, Unlimited,
       Reachable, Closed, Followed, FollowedChildren, FollowedParents

LEMMA NextKeepsIInv == IInv /\ [Next]_vars => IInv'
<1> SUFFICES ASSUME IInv, [Next]_vars PROVE IInv'
  OBVIOUS
<1>1. ASSUME NEW a \in Node, NEW b \in Node, Link(a, b) PROVE IInv'
  BY <1>1, LinkKeepsIInv
<1>2. ASSUME NEW c \in Call, Traverse(c) PROVE IInv'
  BY <1>2, TraverseKeepsIInv
<1>3. ASSUME NEW n \in Node, VisitChild(n) \/ VisitParent(n) PROVE IInv'
  <2>1. n \in Followed(call.type, Head(nodeQueue))
    BY <1>3 DEF VisitChild, VisitParent, UnvisitedChildren, UnvisitedParents, Followed
  <2>2. QED
    BY <1>3, <2>1, VisitKeepsIInv DEF VisitChild, VisitParent
<1>4. CASE Pop
  BY <1>4, PopKeepsIInv
<1>5. CASE Return
  BY <1>5, ReturnKeepsIInv
<1>6. CASE UNCHANGED vars
  BY <1>6, StutterKeepsIInv
<1>7. QED
  BY <1>1, <1>2, <1>3, <1>4, <1>5, <1>6 DEF Next, Step

THEOREM Invariance == Spec => []IInv
BY InitIInv, NextKeepsIInv, PTL DEF Spec

(***************************************************************************)
(* Type correctness of the search, among it that the queue of nodes and    *)
(* the queue of depths that BFSVisitor::traverse keeps stay equally long.  *)
(***************************************************************************)
THEOREM TypeCorrect == Spec => []TypeOK
<1>1. IInv => TypeOK
  BY DEF IInv
<1>2. QED
  BY <1>1, Invariance, PTL

(***************************************************************************)
(* Every traversal without a limit returns exactly the nodes that can be   *)
(* reached in its direction.  FloodFill, which sets no limit, rests on     *)
(* this.                                                                   *)
(***************************************************************************)
THEOREM CompleteWithoutLimit == Spec => []UnlimitedCallsAreComplete
<1>1. IInv => UnlimitedCallsAreComplete
  BY DEF IInv, RestInv, UnlimitedCallsAreComplete, Returned
<1>2. QED
  BY <1>1, Invariance, PTL

-----------------------------------------------------------------------------
(***************************************************************************)
(* The nodes within a number of links, by induction: a set of numbers has  *)
(* a least one, and the recursive function that Within applies is the same *)
(* for every bound it is defined up to.                                    *)
(***************************************************************************)
\* Of some numbers one is the least: it has the least set of numbers up to it.
LEMMA LeastNumber ==
  ASSUME NEW B \in SUBSET Nat, B # {}
  PROVE  \E n \in B : \A m \in B : n <= m
<1> DEFINE UpTo == {0 .. n : n \in B}
<1>1. IsWellFoundedOn(StrictSubsetOrdering(Nat), FiniteSubsetsOf(Nat))
  BY FS_StrictSubsetOrderingWellFounded
<1>2. UpTo \subseteq FiniteSubsetsOf(Nat) /\ UpTo # {}
  <2>1. \A n \in B : IsFiniteSet(0 .. n) /\ 0 .. n \in SUBSET Nat
    BY FS_Interval
  <2> QED BY <2>1 DEF FiniteSubsetsOf
<1>3. PICK T \in UpTo : \A U \in UpTo : ~(<<U, T>> \in StrictSubsetOrdering(Nat))
  <2> HIDE DEF UpTo
  <2> QED BY <1>1, <1>2, WFMin
<1>4. PICK n \in B : T = 0 .. n
  BY <1>3
<1>5. ASSUME NEW m \in B, m < n
      PROVE  FALSE
  <2>1. 0 .. m \in UpTo /\ 0 .. m \subseteq T /\ 0 .. m # T
    <3>1. n \in 0 .. n /\ n \notin 0 .. m /\ 0 .. m \subseteq 0 .. n
      BY <1>5
    <3> QED BY <3>1, <1>4
  <2>2. 0 .. m \in SUBSET Nat /\ T \in SUBSET Nat
    BY <1>4
  <2>3. <<0 .. m, T>> \in StrictSubsetOrdering(Nat)
    BY <2>1, <2>2 DEF StrictSubsetOrdering
  <2> QED BY <2>1, <2>3, <1>3
<1> QED BY <1>5

\* What the links from S lead to, and S.
Around(type, S) == S \cup UNION {Followed(type, n) : n \in S}

\* The equation of the recursive function that Within applies.
Grows(ball, type, start, d) ==
  ball = [k \in 0 .. d |-> IF k = 0 THEN {start} ELSE Around(type, ball[k - 1])]

LEMMA WithinApplies ==
  ASSUME NEW type, NEW start, NEW d
  PROVE  Within(type, start, d) = (CHOOSE ball : Grows(ball, type, start, d))[d]
BY DEF Within, Grows, Around

LEMMA GrowsFromOne ==
  ASSUME NEW type, NEW start, NEW d \in Nat, NEW ball, Grows(ball, type, start, d)
  PROVE  ball[0] = {start}
<1>1. ball = [j \in 0 .. d |-> IF j = 0 THEN {start} ELSE Around(type, ball[j - 1])]
  BY DEF Grows
<1>2. 0 \in 0 .. d
  OBVIOUS
<1> QED BY <1>1, <1>2

LEMMA GrowsByOne ==
  ASSUME NEW type, NEW start, NEW d \in Nat, NEW ball, Grows(ball, type, start, d),
         NEW k \in Nat, k + 1 <= d
  PROVE  ball[k + 1] = Around(type, ball[k])
<1>1. ball = [j \in 0 .. d |-> IF j = 0 THEN {start} ELSE Around(type, ball[j - 1])]
  BY DEF Grows
<1>2. k + 1 \in 0 .. d /\ k + 1 # 0 /\ (k + 1) - 1 = k
  OBVIOUS
<1>3. ball[k + 1] = Around(type, ball[(k + 1) - 1])
  BY <1>1, <1>2
<1> QED BY <1>2, <1>3

LEMMA GrowsAgree ==
  ASSUME NEW type, NEW start, NEW d \in Nat, NEW e \in Nat, NEW b, NEW c,
         Grows(b, type, start, d), Grows(c, type, start, e), NEW k \in 0 .. d, k <= e
  PROVE  b[k] = c[k]
<1> DEFINE Bad == {j \in 0 .. d : j <= e /\ b[j] # c[j]}
<1> SUFFICES ASSUME Bad # {} PROVE FALSE
  OBVIOUS
<1>1. PICK j \in Bad : \A m \in Bad : j <= m
  <2>1. Bad \in SUBSET Nat
    OBVIOUS
  <2> HIDE DEF Bad
  <2> QED BY <2>1, LeastNumber
<1>2. j \in 0 .. d /\ j \in 0 .. e
  BY <1>1
<1>3. j # 0
  <2>1. b[0] = {start}
    BY GrowsFromOne
  <2>2. c[0] = {start}
    BY GrowsFromOne
  <2> QED BY <1>1, <2>1, <2>2
<1>4. PICK i \in Nat : i + 1 = j
  BY <1>2, <1>3
<1>5. i \notin Bad /\ i \in 0 .. d /\ i <= e
  BY <1>1, <1>2, <1>4
<1>6. b[i] = c[i]
  BY <1>5
<1>7. b[i + 1] = Around(type, b[i]) /\ c[i + 1] = Around(type, c[i])
  <2>1. i + 1 <= d /\ i + 1 <= e
    BY <1>2, <1>4
  <2>2. b[i + 1] = Around(type, b[i])
    BY <2>1, GrowsByOne
  <2>3. c[i + 1] = Around(type, c[i])
    BY <2>1, GrowsByOne
  <2> QED BY <2>2, <2>3
<1> QED BY <1>1, <1>4, <1>6, <1>7

LEMMA GrowsExists ==
  ASSUME NEW type, NEW start, NEW d \in Nat
  PROVE  \E ball : Grows(ball, type, start, d)
<1> DEFINE Bad == {e \in Nat : ~ \E ball : Grows(ball, type, start, e)}
<1> SUFFICES ASSUME Bad # {} PROVE FALSE
  OBVIOUS
<1>1. PICK e \in Bad : \A m \in Bad : e <= m
  <2>1. Bad \in SUBSET Nat
    OBVIOUS
  <2> HIDE DEF Bad
  <2> QED BY <2>1, LeastNumber
<1>2. e \in Nat /\ ~ \E ball : Grows(ball, type, start, e)
  BY <1>1
<1>3. e # 0
  <2>1. Grows([k \in 0 .. 0 |-> {start}], type, start, 0)
    BY DEF Grows
  <2> QED BY <1>2, <2>1
<1>4. PICK c : Grows(c, type, start, e - 1)
  <2>1. e - 1 \in Nat /\ e - 1 \notin Bad
    BY <1>1, <1>2, <1>3
  <2> QED BY <2>1
<1> DEFINE b == [k \in 0 .. e |-> IF k = 0 THEN {start} ELSE Around(type, c[k - 1])]
<1>5. \A k \in 0 .. e - 1 : b[k] = c[k]
  <2> SUFFICES ASSUME NEW k \in 0 .. e - 1 PROVE b[k] = c[k]
    OBVIOUS
  <2>1. c[k] = IF k = 0 THEN {start} ELSE Around(type, c[k - 1])
    <3>1. e - 1 \in Nat
      BY <1>2, <1>3
    <3>2. c = [j \in 0 .. e - 1 |-> IF j = 0 THEN {start} ELSE Around(type, c[j - 1])]
      BY <1>4 DEF Grows
    <3> QED BY <3>2
  <2>2. k \in 0 .. e
    BY <1>2
  <2> QED BY <2>1, <2>2
<1>6. Grows(b, type, start, e)
  <2>1. \A k \in 0 .. e : k # 0 => c[k - 1] = b[k - 1]
    <3> HIDE DEF b
    <3> QED BY <1>2, <1>5
  <2>2. b = [k \in 0 .. e |-> IF k = 0 THEN {start} ELSE Around(type, c[k - 1])]
    OBVIOUS
  <2> HIDE DEF b
  <2>3. b = [k \in 0 .. e |-> IF k = 0 THEN {start} ELSE Around(type, b[k - 1])]
    BY <2>1, <2>2
  <2> QED BY <2>3 DEF Grows
<1> QED BY <1>2, <1>6

LEMMA WithinZero ==
  ASSUME NEW type, NEW start
  PROVE  Within(type, start, 0) = {start}
<1> DEFINE b == CHOOSE ball : Grows(ball, type, start, 0)
<1>1. Grows(b, type, start, 0)
  BY GrowsExists
<1>2. b[0] = {start}
  <2> HIDE DEF b
  <2> QED BY <1>1, GrowsFromOne
<1> QED BY <1>2, WithinApplies

LEMMA GrowsLast ==
  ASSUME NEW type, NEW start, NEW d \in Nat, NEW b, NEW c,
         Grows(b, type, start, d + 1), Grows(c, type, start, d)
  PROVE  b[d + 1] = Around(type, c[d])
<1>1. b = [j \in 0 .. d + 1 |-> IF j = 0 THEN {start} ELSE Around(type, b[j - 1])]
  BY DEF Grows
<1>2. d + 1 \in 0 .. d + 1 /\ d + 1 # 0 /\ (d + 1) - 1 = d
  OBVIOUS
<1>3. b[d + 1] = Around(type, b[(d + 1) - 1])
  BY <1>1, <1>2
<1>4. b[d] = c[d]
  <2>1. d + 1 \in Nat /\ d \in 0 .. d + 1 /\ d \in 0 .. d /\ d <= d
    OBVIOUS
  <2> QED BY <2>1, GrowsAgree
<1> QED BY <1>2, <1>3, <1>4

LEMMA WithinNext ==
  ASSUME NEW type, NEW start, NEW d \in Nat
  PROVE  Within(type, start, d + 1) = Around(type, Within(type, start, d))
<1>1. PICK b : b = (CHOOSE ball : Grows(ball, type, start, d + 1)) /\ Grows(b, type, start, d + 1)
  <2>1. \E ball : Grows(ball, type, start, d + 1)
    BY GrowsExists
  <2> QED BY <2>1
<1>2. PICK c : c = (CHOOSE ball : Grows(ball, type, start, d)) /\ Grows(c, type, start, d)
  <2>1. \E ball : Grows(ball, type, start, d)
    BY GrowsExists
  <2> QED BY <2>1
<1>3. b[d + 1] = Around(type, c[d])
  BY <1>1, <1>2, GrowsLast
<1> QED BY <1>1, <1>2, <1>3, WithinApplies

\* Balls grow, and stay within any closed set around their centre.
LEMMA WithinGrows ==
  ASSUME NEW type, NEW start, NEW d \in Nat, NEW e \in Nat, d <= e
  PROVE  Within(type, start, d) \subseteq Within(type, start, e)
<1> DEFINE Bad == {n \in Nat : d <= n /\ ~(Within(type, start, d) \subseteq Within(type, start, n))}
<1> SUFFICES ASSUME Bad # {} PROVE FALSE
  OBVIOUS
<1>1. PICK n \in Bad : \A m \in Bad : n <= m
  <2>1. Bad \in SUBSET Nat
    OBVIOUS
  <2> HIDE DEF Bad
  <2> QED BY <2>1, LeastNumber
<1>2. n \in Nat /\ d <= n /\ d # n
  BY <1>1
<1>3. n - 1 \in Nat /\ d <= n - 1 /\ n - 1 \notin Bad
  BY <1>1, <1>2
<1>4. Within(type, start, d) \subseteq Within(type, start, n - 1)
  BY <1>3
<1>5. Within(type, start, (n - 1) + 1) = Around(type, Within(type, start, n - 1))
  BY <1>3, WithinNext
<1>6. (n - 1) + 1 = n
  BY <1>2
<1>7. Within(type, start, n - 1) \subseteq Within(type, start, n)
  BY <1>5, <1>6 DEF Around
<1> QED BY <1>1, <1>4, <1>7

LEMMA WithinStays ==
  ASSUME NEW type, NEW start, NEW S, start \in S, Closed(type, S), NEW d \in Nat
  PROVE  Within(type, start, d) \subseteq S
<1> DEFINE Bad == {n \in Nat : ~(Within(type, start, n) \subseteq S)}
<1> SUFFICES ASSUME Bad # {} PROVE FALSE
  OBVIOUS
<1>1. PICK n \in Bad : \A m \in Bad : n <= m
  <2>1. Bad \in SUBSET Nat
    OBVIOUS
  <2> HIDE DEF Bad
  <2> QED BY <2>1, LeastNumber
<1>2. n \in Nat /\ n # 0
  BY <1>1, WithinZero
<1>3. n - 1 \in Nat /\ n - 1 \notin Bad /\ (n - 1) + 1 = n
  BY <1>1, <1>2
<1>4. Within(type, start, n - 1) \subseteq S
  BY <1>3
<1>5. Within(type, start, n) = Around(type, Within(type, start, n - 1))
  BY <1>3, WithinNext
<1>6. Within(type, start, n) \subseteq S
  BY <1>4, <1>5 DEF Around, Closed
<1> QED BY <1>1, <1>6

-----------------------------------------------------------------------------
(***************************************************************************)
(* The queue of a call that sets a depth limit.                            *)
(***************************************************************************)
DepthsAreIntegers == Depth \subseteq Int

\* What can be reached depends on the links only.
LEMMA SameReach ==
  ASSUME UNCHANGED <<children, parents>>
  PROVE  /\ \A type, n : Followed(type, n)' = Followed(type, n)
         /\ \A type, n : Reachable(type, n)' = Reachable(type, n)
BY DEF Reachable, Closed, Followed, FollowedChildren, FollowedParents

\* The nodes at most k links away from where the call started.
Ball(k) == Within(call.type, call.start, k)

Front == nodeDepth[1]

FrontInv ==
  /\ Ball(Front) \subseteq m_visited /\ m_visited \subseteq Ball(Front + 1)
  /\ \A i \in DOMAIN nodeDepth : \/ nodeDepth[i] = Front /\ nodeQueue[i] \in Ball(Front)
                                 \/ nodeDepth[i] = Front + 1 /\ nodeQueue[i] \notin Ball(Front)
  /\ \A i, j \in DOMAIN nodeDepth : i <= j => nodeDepth[i] <= nodeDepth[j]
  /\ Front < call.depth =>
       \A n \in m_visited \ Queued : Followed(call.type, n) \subseteq m_visited

QueueInv ==
  /\ running /\ ~Unlimited =>
       /\ m_visited \subseteq Ball(call.depth)
       /\ \A i \in DOMAIN nodeDepth : nodeDepth[i] <= call.depth
       /\ IF nodeQueue = <<>> THEN m_visited = Ball(call.depth) ELSE FrontInv
  /\ (call # NoCall /\ ~running /\ ~Unlimited) => Visited = Ball(call.depth)

LEMMA DepthIsNat ==
  ASSUME DepthsAreIntegers, NEW c \in Call, ~(c.depth < 0)
  PROVE  c.depth \in Nat
<1>1. c.depth \in Int
  BY CallFields DEF DepthsAreIntegers
<1> QED BY <1>1

LEMMA SameWithin ==
  ASSUME UNCHANGED <<children, parents>>
  PROVE  \A type, start, k : Within(type, start, k)' = Within(type, start, k)
BY DEF Within, Followed, FollowedChildren, FollowedParents

LEMMA SameBall ==
  ASSUME UNCHANGED <<children, parents, call>>
  PROVE  \A k : Ball(k)' = Ball(k)
BY SameWithin DEF Ball

\* The queue of depths has a first entry while the queue of nodes has.
LEMMA FrontIsThere ==
  ASSUME TypeOK, nodeQueue # <<>>
  PROVE  /\ DOMAIN nodeDepth = DOMAIN nodeQueue /\ DOMAIN nodeQueue = 1 .. Len(nodeQueue)
         /\ Len(nodeQueue) \in Nat /\ Len(nodeQueue) > 0 /\ 1 \in DOMAIN nodeDepth
         /\ Front \in Nat /\ Head(nodeDepth) = Front /\ Head(nodeQueue) = nodeQueue[1]
         /\ \A i \in DOMAIN nodeDepth : nodeDepth[i] \in Nat
<1>1. nodeDepth \in Seq(Nat) /\ Len(nodeDepth) = Len(nodeQueue) /\ nodeQueue \in Seq(Node)
  BY DEF TypeOK
<1> QED BY <1>1 DEF Front

LEMMA QueueInit == Init => QueueInv
BY DEF Init, QueueInv

LEMMA QueueLink ==
  ASSUME IInv, QueueInv, NEW a \in Node, NEW b \in Node, Link(a, b)
  PROVE  QueueInv'
<1>1. ~running /\ ~running' /\ call' = NoCall
  BY CallFields DEF Link, IInv, TypeOK
<1> QED BY <1>1 DEF QueueInv

LEMMA QueueTraverse ==
  ASSUME DepthsAreIntegers, IInv, QueueInv, NEW c \in Call, Traverse(c)
  PROVE  QueueInv'
<1> SUFFICES ASSUME ~(c.depth < 0) PROVE QueueInv'
  BY DEF QueueInv, Unlimited, Traverse
<1>1. c.depth \in Nat
  BY DepthIsNat
<1>2. ~running /\ m_visited = {} /\ nodeQueue = <<>> /\ nodeDepth = <<>>
  <2>1. ~running /\ m_visited = {} /\ nodeQueue = <<>>
    BY DEF IInv, RestInv, Traverse
  <2>2. nodeDepth \in Seq(Nat) /\ Len(nodeDepth) = Len(nodeQueue)
    BY DEF IInv, TypeOK
  <2> QED BY <2>1, <2>2
<1>3. /\ running' /\ call' = c /\ m_visited' = {c.start} /\ nodeQueue' = <<c.start>> /\ nodeDepth' = <<0>>
      /\ UNCHANGED <<children, parents>>
  BY <1>2 DEF Traverse, graph
<1>4. \A k : Ball(k)' = Within(c.type, c.start, k)
  BY <1>3, SameWithin DEF Ball
<1>5. Within(c.type, c.start, 0) = {c.start} /\ {c.start} \subseteq Within(c.type, c.start, 1)
  BY WithinZero, WithinGrows
<1>6. Front' = 0 /\ Queued' = {c.start} /\ DOMAIN nodeDepth' = {1} /\ nodeQueue'[1] = c.start
  BY <1>3 DEF Front, Queued, Elements
<1>7. FrontInv'
  BY <1>3, <1>4, <1>5, <1>6 DEF FrontInv
<1>8. nodeQueue' # <<>> /\ \A i \in DOMAIN nodeDepth' : nodeDepth'[i] <= call'.depth
  BY <1>1, <1>3, <1>6
<1>9. m_visited' \subseteq Ball(call.depth)'
  <2>1. Within(c.type, c.start, 0) \subseteq Within(c.type, c.start, c.depth)
    BY <1>1, WithinGrows
  <2>2. Ball(call.depth)' = Within(c.type, c.start, c.depth)
    BY <1>3, SameWithin DEF Ball
  <2> QED BY <1>3, <1>5, <2>1, <2>2
<1> QED BY <1>3, <1>7, <1>8, <1>9 DEF QueueInv

LEMMA QueueVisit ==
  ASSUME DepthsAreIntegers, IInv, QueueInv, running, nodeQueue # <<>>, DepthAllows,
         NEW n \in Followed(call.type, Head(nodeQueue)) \ m_visited, Visit(n)
  PROVE  QueueInv'
<1> SUFFICES ASSUME ~Unlimited PROVE QueueInv'
  BY DEF QueueInv, Unlimited, Visit
<1> DEFINE h == Front
           L == Len(nodeQueue)
<1>1. call \in Call /\ call.depth \in Nat
  BY DepthIsNat DEF IInv, TypeOK, Unlimited
<1>2. /\ h \in Nat /\ L \in Nat /\ L > 0 /\ Head(nodeQueue) = nodeQueue[1] /\ Head(nodeDepth) = h
      /\ DOMAIN nodeQueue = 1 .. L /\ DOMAIN nodeDepth = 1 .. L /\ h < call.depth
      /\ \A i \in 1 .. L : nodeDepth[i] \in Nat
  BY FrontIsThere DEF IInv, DepthAllows, Unlimited
<1>3. FrontInv /\ \A i \in DOMAIN nodeDepth : nodeDepth[i] <= call.depth
  BY DEF QueueInv
<1>4. /\ DOMAIN nodeQueue' = 1 .. L + 1 /\ DOMAIN nodeDepth' = 1 .. L + 1
      /\ \A i \in 1 .. L : nodeQueue'[i] = nodeQueue[i] /\ nodeDepth'[i] = nodeDepth[i]
      /\ nodeQueue'[L + 1] = n /\ nodeDepth'[L + 1] = h + 1 /\ nodeQueue' # <<>>
      /\ m_visited' = m_visited \cup {n} /\ UNCHANGED <<children, parents, call, running>>
  <2>1. nodeQueue \in Seq(Node) /\ nodeDepth \in Seq(Nat) /\ Len(nodeDepth) = L
    BY DEF IInv, TypeOK
  <2> HIDE DEF h
  <2> QED BY <2>1, <1>2 DEF Visit
<1>5. Queued' = Queued \cup {n}
  BY <1>2, <1>4 DEF Queued, Elements
<1>6. n \in Ball(h + 1) /\ n \notin Ball(h)
  <2>1. nodeQueue[1] \in Ball(h)
    BY <1>2, <1>3 DEF FrontInv, Front
  <2>2. Ball(h + 1) = Around(call.type, Ball(h))
    BY <1>2, WithinNext DEF Ball
  <2> QED BY <1>2, <1>3, <2>1, <2>2 DEF FrontInv, Around
<1>7. Front' = h /\ \A k : Ball(k)' = Ball(k)
  BY <1>2, <1>4, SameBall DEF Front
<1>8. FrontInv'
  <2>1. Ball(h) \subseteq m_visited' /\ m_visited' \subseteq Ball(h + 1)
    BY <1>3, <1>4, <1>6 DEF FrontInv
  <2>2. \A i \in 1 .. L + 1 : \/ nodeDepth'[i] = h /\ nodeQueue'[i] \in Ball(h)
                              \/ nodeDepth'[i] = h + 1 /\ nodeQueue'[i] \notin Ball(h)
    BY <1>2, <1>3, <1>4, <1>6 DEF FrontInv
  <2>3. \A i, j \in 1 .. L + 1 : i <= j => nodeDepth'[i] <= nodeDepth'[j]
    <3> SUFFICES ASSUME NEW i \in 1 .. L + 1, NEW j \in 1 .. L + 1, i <= j
                 PROVE  nodeDepth'[i] <= nodeDepth'[j]
      OBVIOUS
    <3>1. CASE j = L + 1
      BY <3>1, <1>2, <1>4, <2>2
    <3>2. CASE j # L + 1
      <4>1. i \in 1 .. L /\ j \in 1 .. L
        BY <3>2, <1>2
      <4> QED BY <4>1, <1>2, <1>3, <1>4 DEF FrontInv
    <3> QED BY <3>1, <3>2
  <2>4. \A m \in m_visited' \ Queued' : Followed(call.type, m)' \subseteq m_visited'
    <3>1. \A m : Followed(call.type, m)' = Followed(call.type, m)
      BY <1>4, SameReach
    <3> QED BY <1>2, <1>3, <1>4, <1>5, <3>1 DEF FrontInv
  <2> HIDE DEF h, L
  <2> QED BY <1>4, <1>7, <2>1, <2>2, <2>3, <2>4 DEF FrontInv
<1>9. \A i \in DOMAIN nodeDepth' : nodeDepth'[i] <= call'.depth
  BY <1>1, <1>2, <1>3, <1>4
<1>10. m_visited' \subseteq Ball(call.depth)'
  <2>1. h + 1 \in Nat /\ h + 1 <= call.depth
    BY <1>1, <1>2
  <2>2. Ball(h + 1) \subseteq Ball(call.depth)
    BY <1>1, <2>1, WithinGrows DEF Ball
  <2>3. Ball(call.depth)' = Ball(call.depth)
    BY <1>4, SameWithin DEF Ball
  <2> QED BY <1>4, <1>6, <2>2, <2>3 DEF QueueInv
<1> QED BY <1>4, <1>8, <1>9, <1>10 DEF QueueInv

LEMMA QueuePop ==
  ASSUME DepthsAreIntegers, IInv, QueueInv, Pop
  PROVE  QueueInv'
<1> SUFFICES ASSUME ~Unlimited PROVE QueueInv'
  BY DEF QueueInv, Unlimited, Pop
<1> DEFINE h == Front
           D == call.depth
           L == Len(nodeQueue)
<1>1. call \in Call /\ D \in Nat /\ running /\ nodeQueue # <<>> /\ call.start \in Node
  BY DepthIsNat, CallFields DEF IInv, TypeOK, Unlimited, Pop
<1>2. /\ h \in Nat /\ L \in Nat /\ L > 0 /\ Head(nodeQueue) = nodeQueue[1] /\ Head(nodeDepth) = h
      /\ DOMAIN nodeQueue = 1 .. L /\ DOMAIN nodeDepth = 1 .. L
      /\ \A i \in 1 .. L : nodeDepth[i] \in Nat
  BY <1>1, FrontIsThere DEF IInv
<1>3. FrontInv /\ \A i \in DOMAIN nodeDepth : nodeDepth[i] <= D
  BY <1>1 DEF QueueInv
<1>4. /\ DOMAIN nodeQueue' = 1 .. L - 1 /\ DOMAIN nodeDepth' = 1 .. L - 1
      /\ \A i \in 1 .. L - 1 : nodeQueue'[i] = nodeQueue[i + 1] /\ nodeDepth'[i] = nodeDepth[i + 1]
      /\ (nodeQueue' = <<>> <=> L = 1)
      /\ UNCHANGED <<children, parents, call, running, m_visited>>
  <2>1. nodeQueue \in Seq(Node) /\ nodeDepth \in Seq(Nat) /\ Len(nodeDepth) = L
    BY DEF IInv, TypeOK
  <2>2. Len(Tail(nodeQueue)) = L - 1 /\ Tail(nodeQueue) \in Seq(Node) /\ Tail(nodeDepth) \in Seq(Nat)
    BY <2>1, <1>1
  <2>3. /\ DOMAIN Tail(nodeQueue) = 1 .. L - 1 /\ DOMAIN Tail(nodeDepth) = 1 .. L - 1
        /\ \A i \in 1 .. L - 1 : Tail(nodeQueue)[i] = nodeQueue[i + 1]
        /\ \A i \in 1 .. L - 1 : Tail(nodeDepth)[i] = nodeDepth[i + 1]
    BY <2>1, <1>1, <1>2
  <2>4. Tail(nodeQueue) = <<>> <=> L = 1
    BY <2>2, <1>2
  <2> HIDE DEF L
  <2> QED BY <2>3, <2>4 DEF Pop
<1>5. Queued' \subseteq Queued /\ Queued \subseteq Queued' \cup {Head(nodeQueue)}
  BY <1>1, TailKeeps DEF IInv, TypeOK, Queued, Pop
<1>6. \A k : Ball(k)' = Ball(k)
  BY <1>4, SameBall
<1>7. h < D => \A n \in m_visited \ Queued' : Followed(call.type, n) \subseteq m_visited
  <2>1. h < D => Followed(call.type, Head(nodeQueue)) \subseteq m_visited
    BY <1>2 DEF Pop, DepthAllows, UnvisitedChildren, UnvisitedParents, Followed
  <2> QED BY <2>1, <1>3, <1>5 DEF FrontInv
<1>8. h <= D /\ Ball(D)' = Ball(D) /\ m_visited \subseteq Ball(D)
  BY <1>1, <1>2, <1>3, <1>4, SameWithin DEF Front, Ball, QueueInv
<1>9. \A i \in DOMAIN nodeDepth' : nodeDepth'[i] <= D
  <2> SUFFICES ASSUME NEW i \in 1 .. L - 1 PROVE nodeDepth'[i] <= D
    BY <1>4
  <2>1. i + 1 \in DOMAIN nodeDepth
    BY <1>2
  <2> QED BY <2>1, <1>3, <1>4
<1>10. CASE L = 1
  <2>1. Queued' = {}
    BY <1>4, <1>10 DEF Queued, Elements
  <2>2. Ball(D) \subseteq m_visited
    <3>1. CASE h = D
      BY <3>1, <1>3 DEF FrontInv
    <3>2. CASE h # D
      <4>1. Closed(call.type, m_visited) /\ call.start \in m_visited
        BY <3>2, <1>1, <1>2, <1>7, <1>8, <2>1 DEF Closed, IInv, SearchInv
      <4> QED BY <4>1, <1>1, WithinStays DEF Ball
    <3> QED BY <3>1, <3>2
  <2>3. nodeQueue' = <<>> /\ m_visited' = Ball(D)' /\ running' /\ (Unlimited' <=> Unlimited)
    BY <1>1, <1>4, <1>8, <1>10, <2>2 DEF Unlimited
  <2> QED BY <1>4, <1>8, <1>9, <2>3 DEF QueueInv
<1>11. CASE L # 1
  <2>1. 1 \in 1 .. L - 1 /\ 2 \in 1 .. L /\ Front' = nodeDepth[2] /\ nodeQueue' # <<>>
    BY <1>2, <1>4, <1>11 DEF Front
  <2>2. \A i \in 1 .. L - 1 : i \in 1 .. L /\ i + 1 \in 1 .. L
    BY <1>2
  <2>3. \A i, j \in DOMAIN nodeDepth' : i <= j => nodeDepth'[i] <= nodeDepth'[j]
    <3> SUFFICES ASSUME NEW i \in 1 .. L - 1, NEW j \in 1 .. L - 1, i <= j
                 PROVE  nodeDepth'[i] <= nodeDepth'[j]
      BY <1>4
    <3>1. i + 1 \in DOMAIN nodeDepth /\ j + 1 \in DOMAIN nodeDepth /\ i + 1 <= j + 1
      BY <1>2, <2>2
    <3> QED BY <3>1, <1>3, <1>4 DEF FrontInv
  <2>4. CASE Front' = h
    <3>1. \A i \in 1 .. L - 1 : \/ nodeDepth'[i] = h /\ nodeQueue'[i] \in Ball(h)
                                \/ nodeDepth'[i] = h + 1 /\ nodeQueue'[i] \notin Ball(h)
      BY <1>2, <1>3, <1>4, <2>2 DEF FrontInv
    <3>2. FrontInv'
      <4>1. \A m : Followed(call.type, m)' = Followed(call.type, m)
        BY <1>4, SameReach
      <4>2. Ball(h) \subseteq m_visited /\ m_visited \subseteq Ball(h + 1)
        BY <1>3 DEF FrontInv
      <4> HIDE DEF h, L, D
      <4>3. h < call.depth => \A n \in m_visited \ Queued' : Followed(call.type, n) \subseteq m_visited
        BY <1>7 DEF D
      <4> QED BY <1>4, <1>6, <2>3, <2>4, <3>1, <4>1, <4>2, <4>3 DEF FrontInv
    <3> QED BY <1>1, <1>4, <1>8, <1>9, <2>1, <3>2 DEF QueueInv
  <2>5. CASE Front' # h
    <3>1. Front' = h + 1 /\ h < D
      BY <1>1, <1>2, <1>3, <2>1, <2>5 DEF FrontInv
    <3>2. \A i \in 1 .. L - 1 : nodeDepth'[i] = h + 1 /\ nodeQueue'[i] \notin Ball(h)
      <4> SUFFICES ASSUME NEW i \in 1 .. L - 1
                   PROVE  nodeDepth'[i] = h + 1 /\ nodeQueue'[i] \notin Ball(h)
        OBVIOUS
      <4>1. i + 1 \in 1 .. L /\ 2 <= i + 1
        BY <1>2, <2>2
      <4>2. nodeDepth[2] <= nodeDepth[i + 1] /\ nodeDepth[2] = h + 1
        BY <1>2, <1>3, <2>1, <3>1, <4>1 DEF FrontInv
      <4>3. nodeDepth[i + 1] # h
        BY <1>2, <4>1, <4>2
      <4> QED BY <1>2, <1>3, <1>4, <4>1, <4>3 DEF FrontInv
    <3>3. \A i \in 1 .. L - 1 : nodeQueue'[i] \in Ball(h + 1)
      <4>1. Queued \subseteq m_visited /\ m_visited \subseteq Ball(h + 1)
        BY <1>1, <1>3 DEF IInv, SearchInv, FrontInv
      <4> QED BY <4>1, <1>2, <1>4, <2>2 DEF Queued, Elements
    <3>4. Ball(h + 1) \subseteq m_visited
      <4>1. Ball(h) \subseteq m_visited /\ Ball(h) \cap Queued' = {}
        BY <1>3, <1>4, <3>2 DEF FrontInv, Queued, Elements
      <4>2. Ball(h + 1) = Around(call.type, Ball(h))
        BY <1>2, WithinNext DEF Ball
      <4> QED BY <4>1, <4>2, <1>7, <3>1 DEF Around
    <3>5. m_visited \subseteq Ball(h + 2)
      <4>1. Ball(h + 1) \subseteq Ball(h + 2)
        BY <1>2, WithinGrows DEF Ball
      <4> QED BY <4>1, <1>3 DEF FrontInv
    <3>6. \A n \in m_visited \ Queued' : Followed(call.type, n)' \subseteq m_visited
      BY <1>4, <1>7, <3>1, SameReach
    <3>7. FrontInv'
      <4>1. (h + 1) + 1 = h + 2
        BY <1>2
      <4> HIDE DEF h, L, D
      <4> QED BY <1>4, <1>6, <2>3, <3>1, <3>2, <3>3, <3>4, <3>5, <3>6, <4>1 DEF FrontInv
    <3> QED BY <1>1, <1>4, <1>8, <1>9, <2>1, <3>7 DEF QueueInv
  <2> QED BY <2>4, <2>5
<1> QED BY <1>10, <1>11

LEMMA QueueReturn ==
  ASSUME IInv, QueueInv, Return
  PROVE  QueueInv'
<1>1. /\ running /\ ~running' /\ nodeQueue = <<>> /\ m_visited = Visited /\ Visited' = Visited
      /\ UNCHANGED <<children, parents, call>>
  BY DEF Return, IInv, SearchInv, Visited
<1>2. Ball(call.depth)' = Ball(call.depth)
  BY <1>1, SameWithin DEF Ball
<1> QED BY <1>1, <1>2 DEF QueueInv, Unlimited

LEMMA QueueNext ==
  ASSUME DepthsAreIntegers, IInv, QueueInv, [Next]_vars
  PROVE  QueueInv'
<1>1. ASSUME NEW n \in Node, VisitChild(n) \/ VisitParent(n)
      PROVE  QueueInv'
  <2>1. /\ running /\ nodeQueue # <<>> /\ DepthAllows /\ Visit(n)
        /\ n \in Followed(call.type, Head(nodeQueue)) \ m_visited
    BY <1>1 DEF VisitChild, VisitParent, UnvisitedChildren, UnvisitedParents, Followed
  <2> QED BY <2>1, QueueVisit
<1>2. CASE UNCHANGED vars
  <2>1. /\ \A k : Ball(k)' = Ball(k)
        /\ \A n : Followed(call.type, n)' = Followed(call.type, n)
        /\ Queued' = Queued /\ Visited' = Visited /\ Front' = Front
    BY <1>2, SameBall, SameReach DEF vars, Queued, Elements, Visited, Front
  <2>2. Ball(call.depth)' = Ball(call.depth)
    BY <1>2, SameWithin DEF Ball, vars
  <2> QED BY <1>2, <2>1, <2>2 DEF vars, QueueInv, FrontInv, Unlimited
<1> QED BY <1>1, <1>2, QueueLink, QueueTraverse, QueuePop, QueueReturn DEF Next, Step

(***************************************************************************)
(* A call with a depth limit is correct while it runs and when it returns: *)
(* the two queues of BFSVisitor::traverse keep the levels in order, and a  *)
(* node is found at its own distance.                                      *)
(***************************************************************************)
THEOREM LevelsStayInOrder ==
  ASSUME DepthsAreIntegers
  PROVE  Spec => []QueueInv
<1>1. IInv /\ QueueInv /\ [Next]_vars => QueueInv'
  BY QueueNext
<1> QED BY <1>1, QueueInit, Invariance, PTL DEF Spec

-----------------------------------------------------------------------------
(***************************************************************************)
(* The refinement: every behaviour of the queue is one of the contract in  *)
(* Traversal.                                                              *)
(***************************************************************************)

\* The answer stays open until a call returns.
LEMMA RunningHasNoAnswer ==
  /\ ~Returned => answer = Contract!NoAnswer
  /\ Returned => answer # Contract!NoAnswer
BY DEF answer, Contract!NoAnswer

LEMMA InitRefines == Init => Contract!Init
BY DEF Init, Contract!Init, GraphInit, Contract!GraphInit, answer, Returned,
       Contract!NoCall, Contract!NoAnswer, NoCall

LEMMA LinkRefines ==
  ASSUME IInv, NEW a \in Node, NEW b \in Node, Link(a, b)
  PROVE  Contract!Link(a, b)
<1>1. call = Contract!NoCall
  BY DEF Link, NoCall, Contract!NoCall
<1>2. answer' = answer
  BY DEF Link, answer, Returned
<1>3. QED
  BY <1>1, <1>2 DEF Link, Contract!Link, AddChild, Contract!AddChild

LEMMA TraverseRefines ==
  ASSUME IInv, NEW c \in Call, Traverse(c)
  PROVE  Contract!Ask(c)
<1>1. ~Contract!Busy
  <2>1. CASE call = NoCall
    BY <2>1 DEF Contract!Busy, Contract!NoCall, NoCall
  <2>2. CASE call # NoCall
    BY <2>2, RunningHasNoAnswer DEF Contract!Busy, Returned, Traverse
  <2>3. QED
    BY <2>1, <2>2
<1>2. answer' = Contract!NoAnswer
  BY DEF Traverse, answer, Returned, Contract!NoAnswer
<1>3. QED
  BY <1>1, <1>2 DEF Traverse, Contract!Ask, graph, Contract!graph

\* Visiting and popping are internal to the call.
LEMMA SearchStutters ==
  ASSUME running, running', UNCHANGED <<children, parents, call>>
  PROVE  UNCHANGED Contract!vars
<1>1. answer = Contract!NoAnswer /\ answer' = Contract!NoAnswer
  BY DEF answer, Returned, Contract!NoAnswer
<1>2. QED
  BY <1>1 DEF Contract!vars

\* The contract speaks of the same graph.
LEMMA SamePromise ==
  /\ \A type, start, d : d < 0 => Contract!Promised(type, start, d) = Reachable(type, start)
  /\ \A type, start, d : ~(d < 0) => Contract!Promised(type, start, d) = Within(type, start, d)
<1>1. \A type, n : Contract!Followed(type, n) = Followed(type, n)
  BY DEF Contract!Followed, Followed,
       Contract!FollowedChildren, FollowedChildren, Contract!FollowedParents, FollowedParents
<1>2. \A type, start : Contract!Reachable(type, start) = Reachable(type, start)
  BY <1>1 DEF Contract!Reachable, Reachable, Contract!Closed, Closed
<1>3. \A type, start, d : Contract!Within(type, start, d) = Within(type, start, d)
  BY DEF Contract!Within, Within, Contract!Followed, Followed,
       Contract!FollowedChildren, FollowedChildren, Contract!FollowedParents, FollowedParents
<1> QED BY <1>2, <1>3 DEF Contract!Promised

LEMMA ReturnRefines ==
  ASSUME IInv, QueueInv, Return
  PROVE  Contract!Answer
<1>1. running /\ call \in Call /\ call # NoCall /\ nodeQueue = <<>>
  BY CallFields DEF IInv, TypeOK, Return
<1>2. Contract!Busy
  BY <1>1 DEF Contract!Busy, answer, Returned, Contract!NoCall, NoCall, Contract!NoAnswer
<1>3. answer' = [returned |-> TRUE, nodes |-> Visited]
  BY <1>1 DEF Return, answer, Returned, Visited
<1>4. Unlimited => Visited = Reachable(call.type, call.start)
  BY <1>1, SearchedAll
<1>5. ~Unlimited => Visited = Within(call.type, call.start, call.depth)
  BY <1>1 DEF IInv, SearchInv, QueueInv, Ball
<1>6. Contract!Promised(call.type, call.start, call.depth) = Visited
  BY <1>4, <1>5, SamePromise DEF Unlimited
<1>7. QED
  BY <1>2, <1>3, <1>6 DEF Return, Contract!Answer

(***************************************************************************)
(* BFSVisitor implements the contract of Visitor, as far as safety goes,   *)
(* for every set of nodes, any depths and any number of calls.             *)
(***************************************************************************)
THEOREM Refinement ==
  ASSUME DepthsAreIntegers
  PROVE  Spec => Contract!Init /\ [][Contract!Next]_(Contract!vars)
<1>1. IInv /\ QueueInv /\ [Next]_vars => [Contract!Next]_(Contract!vars)
  <2> SUFFICES ASSUME IInv, QueueInv, [Next]_vars
               PROVE  Contract!Next \/ UNCHANGED Contract!vars
    OBVIOUS
  <2>1. ASSUME NEW a \in Node, NEW b \in Node, Link(a, b)
        PROVE  Contract!Next
    BY <2>1, LinkRefines DEF Contract!Next
  <2>2. ASSUME NEW c \in Call, Traverse(c)
        PROVE  Contract!Next
    <3>1. c \in Contract!Call
      BY DEF Call, Contract!Call, VisitType, Contract!VisitType
    <3>2. QED
      BY <2>2, <3>1, TraverseRefines DEF Contract!Next
  <2>3. ASSUME NEW n \in Node, VisitChild(n) \/ VisitParent(n)
        PROVE  UNCHANGED Contract!vars
    BY <2>3, SearchStutters DEF VisitChild, VisitParent, Visit
  <2>4. CASE Pop
    BY <2>4, SearchStutters DEF Pop
  <2>5. CASE Return
    BY <2>5, ReturnRefines DEF Contract!Next
  <2>6. CASE UNCHANGED vars
    BY <2>6 DEF vars, Contract!vars, answer, Returned, Visited
  <2>7. QED
    BY <2>1, <2>2, <2>3, <2>4, <2>5, <2>6 DEF Next, Step
<1>2. QED
  BY InitRefines, Invariance, LevelsStayInOrder, <1>1, PTL DEF Spec
-----------------------------------------------------------------------------
(***************************************************************************)
(* BFSRecurseVisitor, which has no queue.  The neighbours of what is       *)
(* marked are marked, or are in this level, or are gathered for the next;  *)
(* a call without limit starts below zero and counts down, so that it      *)
(* never comes to the zero that ends the search.  With a limit the levels  *)
(* done are counted by how far depth came down: what is marked and what    *)
(* this level has left make the ball of that size.                         *)
(***************************************************************************)
VARIABLES nodes, visitnextnodes, depth

Recursion == INSTANCE BFSRecurseVisitor

Waiting == nodes \cup visitnextnodes

LevelInv ==
  /\ GraphTypeOK /\ call \in Call \cup {NoCall} /\ (running => call \in Call)
  /\ m_visited \in SUBSET Node /\ m_result \in Seq(Node)
  /\ nodes \in SUBSET Node /\ visitnextnodes \in SUBSET Node /\ depth \in Int
  /\ running => /\ m_visited = Visited
                /\ call.start \in m_visited \cup nodes
                /\ m_visited \cup Waiting \subseteq Reachable(call.type, call.start)
                /\ Unlimited => /\ depth < 0
                                /\ \A n \in m_visited :
                                     Followed(call.type, n) \subseteq m_visited \cup Waiting
  /\ ~running => /\ m_visited = {}
                 /\ (call # NoCall /\ Unlimited) => Visited = Reachable(call.type, call.start)

\* The recursion follows the same links of the same graph.
LEMMA SameGraph ==
  /\ \A type, n : Recursion!Followed(type, n) = Followed(type, n)
  /\ Recursion!Call = Call /\ Recursion!NoCall = NoCall
BY DEF Recursion!Followed, Recursion!FollowedChildren, Recursion!FollowedParents,
       Followed, FollowedChildren, FollowedParents, Recursion!Call, Call,
       Recursion!VisitType, VisitType, Recursion!NoCall, NoCall

LEMMA LevelInit == Recursion!Init => LevelInv
BY SameGraph DEF Recursion!Init, Recursion!GraphInit, LevelInv, GraphTypeOK

LEMMA LevelLink ==
  ASSUME LevelInv, NEW a \in Node, NEW b \in Node, Recursion!Link(a, b)
  PROVE  LevelInv'
<1> USE DEF LevelInv, Recursion!Link, Recursion!AddChild, Recursion!level
<1>1. GraphTypeOK'
  BY DEF GraphTypeOK
<1>2. call = NoCall /\ ~running
  BY SameGraph, CallFields
<1> QED BY <1>1, <1>2

LEMMA LevelTraverse ==
  ASSUME DepthsAreIntegers, LevelInv, NEW c \in Call, Recursion!Traverse(c)
  PROVE  LevelInv'
<1> USE DEF Recursion!Traverse
<1>1. /\ ~running /\ m_visited = {} /\ running' /\ call' = c /\ m_result' = <<>> /\ m_visited' = {}
      /\ nodes' = {c.start} /\ visitnextnodes' = {} /\ depth' = c.depth
  BY DEF LevelInv
<1>2. c.start \in Node /\ c.type \in VisitType /\ c.depth \in Depth
  BY CallFields
<1>3. GraphTypeOK'
  BY DEF LevelInv, GraphTypeOK
<1>4. c.start \in Reachable(c.type, c.start)' /\ Visited' = {}
  BY <1>1, <1>2, SameReach DEF Reachable, Visited
<1>5. depth' \in Int
  BY <1>1, <1>2 DEF DepthsAreIntegers
<1> QED BY <1>1, <1>2, <1>3, <1>4, <1>5 DEF LevelInv, Waiting, Unlimited

LEMMA LevelProcess ==
  ASSUME LevelInv, NEW n \in Node, Recursion!Process(n)
  PROVE  LevelInv'
<1>1. /\ running /\ running' /\ n \in nodes /\ nodes' = nodes \ {n}
      /\ UNCHANGED <<children, parents, call, depth>>
  BY DEF Recursion!Process
<1>2. GraphTypeOK' /\ call.start \in Node
  BY <1>1, CallFields DEF LevelInv, GraphTypeOK
<1>3. CASE n \in m_visited
  <2>1. UNCHANGED <<m_visited, m_result, visitnextnodes>>
    BY <1>3 DEF Recursion!Process
  <2>2. Visited' = Visited /\ Waiting' \subseteq Waiting /\ Waiting \subseteq Waiting' \cup {n}
    BY <1>1, <2>1 DEF Visited, Waiting
  <2> QED BY <1>1, <1>2, <1>3, <2>1, <2>2, SameReach DEF LevelInv, Unlimited
<1>4. CASE n \notin m_visited
  <2>1. /\ m_visited' = m_visited \cup {n} /\ m_result' = Append(m_result, n)
        /\ visitnextnodes' = visitnextnodes \cup Recursion!Gathered(n)
    BY <1>4 DEF Recursion!Process
  <2>2. Visited' = Visited \cup {n}
    <3>1. m_result \in Seq(Node)
      BY DEF LevelInv
    <3>2. Elements(Append(m_result, n)) = Elements(m_result) \cup {n}
      BY <3>1, AppendAdds
    <3> QED BY <2>1, <3>2 DEF Visited, Elements
  <2>3. /\ Recursion!Gathered(n) \subseteq Followed(call.type, n)
        /\ Unlimited => Followed(call.type, n) \subseteq Recursion!Gathered(n) \cup m_visited \cup {n}
    BY <1>1, SameGraph DEF Recursion!Gathered, LevelInv
  <2>4. Followed(call.type, n) \subseteq Reachable(call.type, call.start)
    <3>1. n \in Reachable(call.type, call.start)
      BY <1>1 DEF LevelInv, Waiting
    <3>2. Closed(call.type, Reachable(call.type, call.start))
      BY <1>2, ReachableIsClosed DEF LevelInv
    <3> QED BY <3>1, <3>2 DEF Closed
  <2>5. m_result' \in Seq(Node) /\ Followed(call.type, n) \subseteq Node
    BY <2>1, <2>4 DEF LevelInv, Reachable
  <2>6. Waiting' = (nodes \ {n}) \cup visitnextnodes \cup Recursion!Gathered(n)
    BY <1>1, <2>1 DEF Waiting
  <2>7. m_visited' \cup Waiting' \subseteq Reachable(call.type, call.start)
    BY <1>1, <2>1, <2>3, <2>4, <2>6 DEF LevelInv, Waiting
  <2>8. Unlimited => \A m \in m_visited' : Followed(call.type,
  m) \subseteq m_visited' \cup Waiting'
    BY <1>1, <2>1, <2>3, <2>6 DEF LevelInv, Waiting
  <2> QED BY <1>1, <1>2, <2>1, <2>2, <2>3, <2>5, <2>7, <2>8, SameReach DEF LevelInv, Unlimited
<1> QED BY <1>3, <1>4

LEMMA LevelRecurse ==
  ASSUME LevelInv, Recursion!Recurse
  PROVE  LevelInv'
<1>1. /\ running /\ running' /\ nodes = {} /\ nodes' = visitnextnodes /\ visitnextnodes' = {}
      /\ depth' = depth - 1 /\ UNCHANGED <<children, parents, call, m_visited, m_result>>
  BY DEF Recursion!Recurse
<1>2. GraphTypeOK' /\ Visited' = Visited /\ Waiting' = Waiting
  BY <1>1 DEF LevelInv, GraphTypeOK, Visited, Waiting
<1> QED BY <1>1, <1>2, SameReach DEF LevelInv, Unlimited

\* With no node left the marks are closed.
LEMMA LevelsAreSearched ==
  ASSUME LevelInv, running, nodes = {}, visitnextnodes = {}, Unlimited
  PROVE  Visited = Reachable(call.type, call.start)
<1>1. Closed(call.type, m_visited) /\ call.start \in m_visited
  BY DEF LevelInv, Waiting, Closed
<1>2. Reachable(call.type, call.start) \subseteq m_visited
  BY <1>1 DEF LevelInv, Reachable
<1> QED BY <1>2 DEF LevelInv

LEMMA LevelReturn ==
  ASSUME LevelInv, Recursion!Return
  PROVE  LevelInv'
<1>1. /\ running /\ ~running' /\ nodes = {} /\ visitnextnodes = {} /\ m_visited' = {} /\ depth' = 0
      /\ UNCHANGED <<children, parents, call, m_result, nodes, visitnextnodes>>
  BY DEF Recursion!Return, LevelInv
<1>2. GraphTypeOK' /\ Visited' = Visited /\ (Unlimited' <=> Unlimited)
  BY <1>1 DEF LevelInv, GraphTypeOK, Visited, Unlimited
<1> QED BY <1>1, <1>2, SameReach, LevelsAreSearched DEF LevelInv

LEMMA LevelNext ==
  ASSUME DepthsAreIntegers, LevelInv, [Recursion!Next]_(Recursion!vars)
  PROVE  LevelInv'
<1>1. CASE UNCHANGED Recursion!vars
  BY <1>1, SameReach DEF Recursion!vars, LevelInv, GraphTypeOK, Visited, Waiting, Unlimited
<1> QED BY <1>1, SameGraph, LevelLink, LevelTraverse, LevelProcess, LevelRecurse, LevelReturn
        DEF Recursion!Next, Recursion!Step

Done == call.depth - depth

DepthInv ==
  /\ running /\ ~Unlimited =>
       /\ 0 <= depth /\ depth <= call.depth
       /\ m_visited \cup nodes = Ball(Done)
       /\ visitnextnodes \subseteq Ball(Done + 1)
       /\ IF depth = 0 THEN visitnextnodes = {}
          ELSE \A n \in m_visited : Followed(call.type, n) \subseteq m_visited \cup Waiting
  /\ (call # NoCall /\ ~running /\ ~Unlimited) => Visited = Ball(call.depth)

LEMMA DepthInit == Recursion!Init => DepthInv
BY SameGraph DEF Recursion!Init, DepthInv

LEMMA DepthTraverse ==
  ASSUME DepthsAreIntegers, LevelInv, NEW c \in Call, Recursion!Traverse(c)
  PROVE  DepthInv'
<1> SUFFICES ASSUME ~(c.depth < 0) PROVE DepthInv'
  BY DEF Recursion!Traverse, DepthInv, Unlimited
<1>1. /\ m_visited' = {} /\ running' /\ call' = c /\ nodes' = {c.start} /\ visitnextnodes' = {}
      /\ depth' = c.depth /\ UNCHANGED <<children, parents>>
  BY DEF LevelInv, Recursion!Traverse
<1>2. c.depth \in Nat
  BY DepthIsNat
<1>3. Done' = 0 /\ Within(c.type, c.start, 0) = {c.start}
  BY <1>1, <1>2, WithinZero DEF Done
<1>4. Ball(Done)' = {c.start}
  BY <1>1, <1>3, SameWithin DEF Ball
<1> QED BY <1>1, <1>2, <1>4 DEF DepthInv

LEMMA DepthProcess ==
  ASSUME DepthsAreIntegers, LevelInv, DepthInv, NEW n \in Node, Recursion!Process(n)
  PROVE  DepthInv'
<1>1. /\ running /\ running' /\ n \in nodes /\ nodes' = nodes \ {n} /\ call \in Call
      /\ UNCHANGED <<children, parents, call, depth>>
  BY DEF Recursion!Process, LevelInv
<1> SUFFICES ASSUME ~Unlimited PROVE DepthInv'
  BY <1>1 DEF DepthInv, Unlimited
<1>2. call.depth \in Nat /\ depth \in Int /\ Done \in Nat
  BY <1>1, DepthIsNat DEF Unlimited, LevelInv, DepthInv, Done
<1>3. Done' = Done /\ Ball(Done)' = Ball(Done) /\ Ball(Done + 1)' = Ball(Done + 1)
  BY <1>1, SameWithin DEF Ball, Done
<1>4. CASE n \in m_visited
  <2>1. UNCHANGED <<m_visited, m_result, visitnextnodes>>
    BY <1>4 DEF Recursion!Process
  <2>2. Waiting \subseteq Waiting' \cup {n} /\ m_visited' \cup nodes' = m_visited \cup nodes
    BY <1>1, <1>4, <2>1 DEF Waiting
  <2> QED BY <1>1, <1>3, <1>4, <2>1, <2>2, SameReach DEF DepthInv, Unlimited
<1>5. CASE n \notin m_visited
  <2>1. /\ m_visited' = m_visited \cup {n}
        /\ visitnextnodes' = visitnextnodes \cup Recursion!Gathered(n)
    BY <1>5 DEF Recursion!Process
  <2>2. m_visited' \cup nodes' = m_visited \cup nodes
    BY <1>1, <2>1
  <2>3. /\ Recursion!Gathered(n) \subseteq Followed(call.type, n)
        /\ depth = 0 => Recursion!Gathered(n) = {}
        /\ depth # 0 => Followed(call.type, n) \subseteq Recursion!Gathered(n) \cup m_visited \cup {n}
    BY SameGraph DEF Recursion!Gathered
  <2>4. Followed(call.type, n) \subseteq Ball(Done + 1)
    <3>1. n \in Ball(Done)
      BY <1>1 DEF DepthInv
    <3>2. Ball(Done + 1) = Around(call.type, Ball(Done))
      BY <1>2, WithinNext DEF Ball
    <3> QED BY <3>1, <3>2 DEF Around
  <2>5. visitnextnodes' \subseteq Ball(Done + 1)
    BY <1>1, <2>1, <2>3, <2>4 DEF DepthInv
  <2>6. depth = 0 => visitnextnodes' = {}
    BY <1>1, <2>1, <2>3 DEF DepthInv
  <2>7. depth # 0 => \A m \in m_visited' : Followed(call.type,
  m) \subseteq m_visited' \cup Waiting'
    BY <1>1, <2>1, <2>3 DEF DepthInv, Waiting
  <2> QED BY <1>1, <1>3, <2>2, <2>5, <2>6, <2>7, SameReach DEF DepthInv, Unlimited
<1> QED BY <1>4, <1>5

LEMMA DepthRecurse ==
  ASSUME DepthsAreIntegers, LevelInv, DepthInv, Recursion!Recurse
  PROVE  DepthInv'
<1>1. /\ running /\ running' /\ nodes = {} /\ nodes' = visitnextnodes /\ visitnextnodes # {}
      /\ visitnextnodes' = {} /\ depth' = depth - 1 /\ call \in Call
      /\ UNCHANGED <<children, parents, call, m_visited, m_result>>
  BY DEF Recursion!Recurse, LevelInv
<1> SUFFICES ASSUME ~Unlimited PROVE DepthInv'
  BY <1>1 DEF DepthInv, Unlimited
<1>2. /\ call.depth \in Nat /\ depth \in Int /\ depth # 0 /\ 0 <= depth /\ depth <= call.depth
      /\ Done \in Nat /\ Done' = Done + 1
  BY <1>1, DepthIsNat DEF Unlimited, LevelInv, DepthInv, Done
<1>3. Ball(Done)' = Ball(Done + 1)
  BY <1>1, <1>2, SameWithin DEF Ball
<1>4. Ball(Done + 1) = m_visited \cup visitnextnodes
  <2>1. Ball(Done + 1) = Around(call.type, Ball(Done)) /\ Ball(Done) = m_visited
    BY <1>1, <1>2, WithinNext DEF Ball, DepthInv
  <2>2. \A n \in m_visited : Followed(call.type, n) \subseteq m_visited \cup visitnextnodes
    BY <1>1, <1>2 DEF DepthInv, Waiting
  <2>3. visitnextnodes \subseteq Ball(Done + 1)
    BY <1>1 DEF DepthInv
  <2> QED BY <2>1, <2>2, <2>3 DEF Around
<1>5. \A n \in m_visited' : Followed(call.type, n)' \subseteq m_visited' \cup Waiting'
  BY <1>1, <1>2, SameReach DEF DepthInv, Waiting
<1>6. m_visited' \cup nodes' = Ball(Done)'
  BY <1>1, <1>3, <1>4
<1> QED BY <1>1, <1>2, <1>5, <1>6 DEF DepthInv

\* The last level ends at the limit, or the marks are closed before it.
LEMMA LevelsReachTheLimit ==
  ASSUME DepthsAreIntegers, LevelInv, DepthInv, running, ~Unlimited, nodes = {}, visitnextnodes = {}
  PROVE  Visited = Ball(call.depth)
<1>1. /\ call \in Call /\ call.start \in Node /\ call.depth \in Nat /\ depth \in Int
      /\ 0 <= depth /\ depth <= call.depth /\ Done \in Nat /\ Done <= call.depth
      /\ Visited = Ball(Done)
  BY DepthIsNat, CallFields DEF Unlimited, LevelInv, DepthInv, Done
<1>2. CASE depth = 0
  <2>1. Done = call.depth
    BY <1>1, <1>2 DEF Done
  <2> QED BY <1>1, <2>1
<1>3. CASE depth # 0
  <2>1. Closed(call.type, m_visited) /\ call.start \in m_visited /\ m_visited = Visited
    BY <1>3 DEF Closed, LevelInv, DepthInv, Waiting
  <2>2. Ball(call.depth) \subseteq Visited
    BY <1>1, <2>1, WithinStays DEF Ball
  <2>3. Ball(Done) \subseteq Ball(call.depth)
    BY <1>1, WithinGrows DEF Ball
  <2> QED BY <1>1, <2>2, <2>3
<1> QED BY <1>2, <1>3

LEMMA DepthNext ==
  ASSUME DepthsAreIntegers, LevelInv, DepthInv, [Recursion!Next]_(Recursion!vars)
  PROVE  DepthInv'
<1>1. ASSUME NEW a \in Node, NEW b \in Node, Recursion!Link(a, b)
      PROVE  DepthInv'
  <2>1. call' = NoCall /\ ~running'
    BY <1>1, SameGraph, CallFields DEF Recursion!Link, LevelInv
  <2> QED BY <2>1 DEF DepthInv
<1>2. CASE Recursion!Return
  <2>1. /\ running /\ ~running' /\ nodes = {} /\ visitnextnodes = {} /\ Visited' = Visited
        /\ UNCHANGED <<children, parents, call>>
    BY <1>2 DEF Recursion!Return, Visited
  <2>2. Ball(call.depth)' = Ball(call.depth)
    BY <2>1, SameWithin DEF Ball
  <2> QED BY <2>1, <2>2, LevelsReachTheLimit DEF DepthInv, Unlimited
<1>3. CASE UNCHANGED Recursion!vars
  <2>1. /\ Ball(call.depth)' = Ball(call.depth) /\ Ball(Done)' = Ball(Done)
        /\ Ball(Done + 1)' = Ball(Done + 1) /\ Visited' = Visited /\ Waiting' = Waiting
        /\ \A n : Followed(call.type, n)' = Followed(call.type, n)
    BY <1>3, SameWithin, SameReach DEF Ball, Done, Visited, Waiting, Recursion!vars
  <2> QED BY <1>3, <2>1 DEF DepthInv, Unlimited, Recursion!vars
<1> QED BY <1>1, <1>2, <1>3, SameGraph, DepthTraverse, DepthProcess, DepthRecurse
        DEF Recursion!Next, Recursion!Step

LEMMA RecursionStep ==
  ASSUME DepthsAreIntegers, LevelInv, DepthInv, [Recursion!Next]_(Recursion!vars)
  PROVE  Contract!Next \/ UNCHANGED Contract!vars
<1>1. ASSUME NEW a \in Node, NEW b \in Node, Recursion!Link(a, b)
      PROVE  Contract!Next
  <2>1. call = Contract!NoCall /\ answer' = answer
    BY <1>1 DEF Recursion!Link, Recursion!NoCall, Contract!NoCall, answer, Returned, NoCall
  <2>2. Contract!Link(a, b)
    BY <1>1, <2>1 DEF Recursion!Link, Contract!Link, Recursion!AddChild, Contract!AddChild
  <2> QED BY <2>2 DEF Contract!Next
<1>2. ASSUME NEW c \in Call, Recursion!Traverse(c)
      PROVE  Contract!Next
  <2>1. c \in Contract!Call
    BY DEF Call, Contract!Call, VisitType, Contract!VisitType
  <2>2. ~Contract!Busy /\ answer' = Contract!NoAnswer
    BY <1>2, RunningHasNoAnswer
       DEF Recursion!Traverse, Contract!Busy, answer, Returned, Contract!NoCall, NoCall,
           Contract!NoAnswer
  <2>3. Contract!Ask(c)
    BY <1>2, <2>2 DEF Recursion!Traverse, Contract!Ask, Contract!graph
  <2> QED BY <2>1, <2>3 DEF Contract!Next
<1>3. ASSUME Recursion!Recurse \/ \E n \in Node : Recursion!Process(n)
      PROVE  UNCHANGED Contract!vars
  BY <1>3, SearchStutters DEF Recursion!Recurse, Recursion!Process
<1>4. ASSUME Recursion!Return
      PROVE  Contract!Next
  <2>1. running /\ call \in Call /\ call # NoCall /\ nodes = {} /\ visitnextnodes = {}
    BY <1>4, CallFields DEF Recursion!Return, LevelInv
  <2>2. Contract!Busy
    BY <2>1 DEF Contract!Busy, answer, Returned, Contract!NoCall, NoCall, Contract!NoAnswer
  <2>3. answer' = [returned |-> TRUE, nodes |-> Visited]
    BY <1>4, <2>1 DEF Recursion!Return, answer, Returned, Visited
  <2>4. /\ Unlimited => Visited = Reachable(call.type, call.start)
        /\ ~Unlimited => Visited = Within(call.type, call.start, call.depth)
    BY <2>1, LevelsAreSearched, LevelsReachTheLimit DEF Ball
  <2>5. Contract!Promised(call.type, call.start, call.depth) = Visited
    BY <2>4, SamePromise DEF Unlimited
  <2>6. Contract!Answer
    BY <1>4, <2>2, <2>3, <2>5 DEF Recursion!Return, Contract!Answer
  <2> QED BY <2>6 DEF Contract!Next
<1>5. CASE UNCHANGED Recursion!vars
  BY <1>5 DEF Recursion!vars, Contract!vars, answer, Returned, Visited
<1> QED BY <1>1, <1>2, <1>3, <1>4, <1>5, SameGraph DEF Recursion!Next, Recursion!Step

(***************************************************************************)
(* The recursion of BFSRecurseVisitor implements the same contract, as far *)
(* as safety goes, for every set of nodes, any depths and any number of    *)
(* calls: where one visitor is used the other may be.                      *)
(***************************************************************************)
THEOREM RecursionRefinement ==
  ASSUME DepthsAreIntegers
  PROVE  Recursion!Spec => Contract!Init /\ [][Contract!Next]_(Contract!vars)
<1>1. Recursion!Init => Contract!Init
  BY DEF Recursion!Init, Contract!Init, Recursion!GraphInit, Contract!GraphInit, answer,
         Returned,
         Contract!NoCall, Contract!NoAnswer, Recursion!NoCall, NoCall
<1>2. LevelInv /\ DepthInv /\ [Recursion!Next]_(Recursion!vars) => [Contract!Next]_(Contract!vars)
  BY RecursionStep
<1>3. LevelInv /\ DepthInv /\ [Recursion!Next]_(Recursion!vars) => LevelInv' /\ DepthInv'
  BY LevelNext, DepthNext
<1> QED BY <1>1, <1>2, <1>3, LevelInit, DepthInit, PTL DEF Recursion!Spec
-----------------------------------------------------------------------------
(***************************************************************************)
(* buildSubGraphs and the flood fill, which takes a whole traversal at a   *)
(* step.  It partitions its identifiers, whatever their number and         *)
(* whatever edges join them: a group is closed under links followed both   *)
(* ways, so what lies outside the groups found so far is closed too, and   *)
(* the next traversal, started there, stays there.                         *)
(***************************************************************************)

\* The start of a traversal is among the nodes it should find.
LEMMA GroupHoldsStart ==
  ASSUME NEW type, NEW start \in Node
  PROVE  start \in Reachable(type, start)
BY DEF Reachable

\* Nothing else should be found: any closed set around the start holds it all.
LEMMA GroupIsLeast ==
  ASSUME NEW type, NEW start \in Node, NEW S \in SUBSET Node,
         start \in S, Closed(type, S)
  PROVE  Reachable(type, start) \subseteq S
BY DEF Reachable

\* addChild keeps the two ends of every link in step, so a link that an
\* undirected search follows can be followed back.
Symmetric == \A a, b \in Node : b \in children[a] <=> a \in parents[b]

LEMMA UndirectedIsSymmetric ==
  ASSUME Symmetric, NEW a \in Node, NEW b \in Node, b \in Followed("UNDIRECTED", a)
  PROVE  a \in Followed("UNDIRECTED", b)
BY DEF Symmetric, Followed, FollowedChildren, FollowedParents

\* What lies outside a set closed under undirected links is closed as well.
LEMMA ComplementIsClosed ==
  ASSUME GraphTypeOK, Symmetric,
         NEW S \in SUBSET Node, Closed("UNDIRECTED", S)
  PROVE  Closed("UNDIRECTED", Node \ S)
<1> SUFFICES ASSUME NEW n \in Node \ S, NEW m \in Followed("UNDIRECTED", n)
             PROVE  m \in Node \ S
  BY DEF Closed
<1>1. m \in Node
  BY DEF Followed, FollowedChildren, FollowedParents, GraphTypeOK
<1>2. n \in Followed("UNDIRECTED", m)
  BY <1>1, UndirectedIsSymmetric
<1>3. QED
  BY <1>1, <1>2 DEF Closed
-----------------------------------------------------------------------------
\* The nodes already given to a group.
Grouped == UNION {resultsVector[i] : i \in DOMAIN resultsVector}

\* What each subgraph is, once the call has returned.
ReturnedGroups ==
  [i \in 1 .. Len(resultsVector) |-> {Value(k) : k \in resultsVector[i]}]

\* The local nodes: one for each identifier, and more only for foreign edges.
NodesInv ==
  /\ Symmetric
  /\ Closed("UNDIRECTED", localNodes)
  /\ ids \subseteq localNodes
  /\ ~ForeignEdges => localNodes = ids /\ \A e \in edges : Ends(e) \subseteq ids

\* The groups found so far are disjoint, closed, and what has been visited.
GroupsInv ==
  /\ pc = "link" => filled = {} /\ resultsVector = <<>>
  /\ filled = Grouped
  /\ Closed("UNDIRECTED", filled)
  /\ GroupsDisjoint

\* Between calls every node has been visited and the list holds the groups.
ResultInv ==
  pc = "idle" => localNodes \subseteq filled /\ subGraphs = ReturnedGroups

PartitionInv == SubGraphsTypeOK /\ NodesInv /\ GroupsInv /\ ResultInv

-----------------------------------------------------------------------------
LEMMA PartitionInit == SubGraphsInit => PartitionInv
<1> SUFFICES ASSUME SubGraphsInit PROVE PartitionInv
  OBVIOUS
<1> USE DEF SubGraphsInit, GraphInit
<1>1. SubGraphsTypeOK
  BY DEF SubGraphsTypeOK, GraphTypeOK
<1>2. NodesInv
  BY DEF NodesInv, Symmetric, Closed, Ends
<1>3. GroupsInv
  BY DEF GroupsInv, Grouped, GroupsDisjoint, Closed
<1>4. ResultInv
  BY DEF ResultInv, ReturnedGroups
<1>5. QED
  BY <1>1, <1>2, <1>3, <1>4 DEF PartitionInv

\* A new call forgets everything about the one before.
LEMMA CallKeepsPartition ==
  ASSUME PartitionInv, NEW i \in SUBSET Node, NEW es \in SUBSET Edge, buildSubGraphs(i, es)
  PROVE  PartitionInv'
<1> USE DEF PartitionInv, buildSubGraphs
<1>1. SubGraphsTypeOK'
  BY DEF SubGraphsTypeOK, GraphTypeOK
<1>2. NodesInv'
  BY DEF NodesInv, Symmetric, Closed, Followed, FollowedChildren,
         FollowedParents, Ends
<1>3. GroupsInv'
  BY DEF GroupsInv, Grouped, GroupsDisjoint, Closed
<1>4. ResultInv'
  BY DEF ResultInv
<1>5. QED
  BY <1>1, <1>2, <1>3, <1>4

\* The links made are those of the linked edges, each stored at both ends.
LEMMA LinkNodesKeepsPartition ==
  ASSUME PartitionInv, LinkNodes
  PROVE  PartitionInv'
<1> USE DEF PartitionInv, LinkNodes
<1>1. \A e \in Linked : e \in Edge /\ e.id1 \in Node /\ e.id2 \in Node
  BY DEF SubGraphsTypeOK, Linked, Edge
<1>2. SubGraphsTypeOK'
  <2>1. GraphTypeOK'
    BY <1>1 DEF GraphTypeOK
  <2>2. localNodes' \in SUBSET Node
    BY <1>1 DEF SubGraphsTypeOK, Ends
  <2>3. QED
    BY <2>1, <2>2 DEF SubGraphsTypeOK
<1>3. NodesInv'
  <2>1. Symmetric'
    BY <1>1 DEF Symmetric
  <2>2. Closed("UNDIRECTED", localNodes)'
    <3> SUFFICES ASSUME NEW n \in localNodes', NEW m \in Followed("UNDIRECTED", n)'
                 PROVE  m \in localNodes'
      BY DEF Closed
    <3>1. n \in Node
      BY <1>2 DEF SubGraphsTypeOK
    <3>2. \E e \in Linked : m \in Ends(e)
      BY <3>1 DEF Followed, FollowedChildren, FollowedParents, Ends
    <3>3. QED
      BY <3>2
  <2>3. ids' \subseteq localNodes'
    BY DEF NodesInv
  <2>4. ~ForeignEdges =>
          localNodes' = ids' /\ \A e \in edges' : Ends(e) \subseteq ids'
    BY DEF NodesInv, Linked
  <2>5. QED
    BY <2>1, <2>2, <2>3, <2>4 DEF NodesInv, Ends
<1>4. GroupsInv'
  BY DEF GroupsInv, Grouped, GroupsDisjoint, Closed
<1>5. ResultInv'
  BY DEF ResultInv
<1>6. QED
  BY <1>2, <1>3, <1>4, <1>5

\* A group found at a node that is not marked holds local nodes only, none of
\* them marked.
LEMMA GroupIsNew ==
  ASSUME PartitionInv, NEW n \in localNodes, n \notin filled
  PROVE  /\ Group(n) \subseteq localNodes
         /\ Group(n) \cap filled = {}
         /\ n \in Group(n)
         /\ Closed("UNDIRECTED", Group(n))
<1> USE DEF PartitionInv, Group
<1>1. n \in Node /\ GraphTypeOK
  BY DEF SubGraphsTypeOK
<1>2. Group(n) \subseteq localNodes
  BY <1>1, GroupIsLeast DEF NodesInv, SubGraphsTypeOK
<1>3. Group(n) \subseteq Node \ filled
  <2>1. filled \in SUBSET Node
    BY DEF SubGraphsTypeOK
  <2>2. Closed("UNDIRECTED", Node \ filled)
    BY <1>1, <2>1, ComplementIsClosed DEF NodesInv, GroupsInv
  <2>3. QED
    BY <1>1, <2>2, GroupIsLeast
<1>4. QED
  BY <1>1, <1>2, <1>3, GroupHoldsStart, ReachableIsClosed

LEMMA FillKeepsPartition ==
  ASSUME PartitionInv, NEW n \in Node, Fill(n)
  PROVE  PartitionInv'
<1> USE DEF PartitionInv, Fill
<1>1. n \in localNodes /\ n \notin filled
  BY DEF NextRoot
<1>2. /\ Group(n) \subseteq localNodes
      /\ Group(n) \cap filled = {}
      /\ Closed("UNDIRECTED", Group(n))
  BY <1>1, GroupIsNew
<1>3. resultsVector \in Seq(SUBSET Node) /\ Group(n) \in SUBSET Node
  BY <1>2 DEF SubGraphsTypeOK
<1>4. SubGraphsTypeOK'
  <2>1. resultsVector' \in Seq(SUBSET Node)
    BY <1>3
  <2>2. filled' \in SUBSET localNodes'
    BY <1>2 DEF SubGraphsTypeOK
  <2>3. QED
    BY <2>1, <2>2 DEF SubGraphsTypeOK, GraphTypeOK
<1>5. NodesInv'
  BY DEF NodesInv, Symmetric, Closed, Followed, FollowedChildren,
         FollowedParents
<1>6. GroupsInv'
  <2> DEFINE L == Len(resultsVector)
  <2>1. /\ L \in Nat
        /\ DOMAIN resultsVector = 1 .. L
        /\ DOMAIN resultsVector' = 1 .. L + 1
        /\ resultsVector'[L + 1] = Group(n)
        /\ \A i \in 1 .. L : resultsVector'[i] = resultsVector[i]
    BY <1>3
  <2>2. Grouped' = Grouped \cup Group(n)
    BY <2>1 DEF Grouped
  <2>3. filled' = Grouped'
    BY <2>2 DEF GroupsInv
  <2>4. Closed("UNDIRECTED", filled)'
    BY <1>2 DEF GroupsInv, Closed, Followed, FollowedChildren, FollowedParents
  <2>5. GroupsDisjoint'
    <3>1. \A i \in 1 .. L : resultsVector[i] \cap Group(n) = {}
      BY <1>2, <2>1 DEF GroupsInv, Grouped
    <3>2. QED
      BY <2>1, <3>1 DEF GroupsInv, GroupsDisjoint
  <2>6. QED
    BY <2>3, <2>4, <2>5 DEF GroupsInv
<1>7. ResultInv'
  BY DEF ResultInv
<1>8. QED
  BY <1>4, <1>5, <1>6, <1>7

LEMMA ReturnKeepsPartition ==
  ASSUME PartitionInv, ReturnSubGraphs
  PROVE  PartitionInv'
<1> USE DEF PartitionInv, ReturnSubGraphs
<1>1. SubGraphsTypeOK'
  <2>1. \A i \in 1 .. Len(resultsVector) : resultsVector[i] \in SUBSET Node
    BY DEF SubGraphsTypeOK
  <2>2. subGraphs' \in Seq(SUBSET (Node \cup {0}))
    <3>1. Len(resultsVector) \in Nat
      BY DEF SubGraphsTypeOK
    <3>2. \A i \in 1 .. Len(resultsVector) :
             {Value(k) : k \in resultsVector[i]} \in SUBSET (Node \cup {0})
      BY <2>1 DEF Value
    <3>3. QED
      BY <3>1, <3>2
  <2>3. QED
    BY <2>2 DEF SubGraphsTypeOK, GraphTypeOK
<1>2. NodesInv'
  BY DEF NodesInv, Symmetric, Closed, Followed, FollowedChildren,
         FollowedParents
<1>3. GroupsInv'
  BY DEF GroupsInv, Grouped, GroupsDisjoint, Closed, Followed,
         FollowedChildren, FollowedParents
<1>4. ResultInv'
  BY DEF ResultInv, ReturnedGroups, Value
<1>5. QED
  BY <1>1, <1>2, <1>3, <1>4

LEMMA StutterKeepsPartition ==
  ASSUME PartitionInv, UNCHANGED subGraphVars
  PROVE  PartitionInv'
BY DEF PartitionInv, subGraphVars, SubGraphsTypeOK, GraphTypeOK, NodesInv, GroupsInv, ResultInv,
       Symmetric, Closed,
       Followed, FollowedChildren, FollowedParents, Grouped, GroupsDisjoint,
       ReturnedGroups, Value, Ends

\* The inductive invariant of buildSubGraphs.
THEOREM PartitionInvariance == SubGraphsSpec => []PartitionInv
<1>1. PartitionInv /\ [SubGraphsNext]_subGraphVars => PartitionInv'
  BY CallKeepsPartition, LinkNodesKeepsPartition, FillKeepsPartition, ReturnKeepsPartition,
     StutterKeepsPartition
     DEF SubGraphsNext
<1>2. QED
  BY PartitionInit, <1>1, PTL DEF SubGraphsSpec

-----------------------------------------------------------------------------
(***************************************************************************)
(* Type correctness of buildSubGraphs, among it that the flood fill never  *)
(* marks a node outside the map it was given.                              *)
(***************************************************************************)
THEOREM SubGraphsTypeCorrect == SubGraphsSpec => []SubGraphsTypeOK
<1>1. PartitionInv => SubGraphsTypeOK
  BY DEF PartitionInv
<1>2. QED
  BY <1>1, PartitionInvariance, PTL

(***************************************************************************)
(* The groups of FloodFill::traverse are disjoint, for every set of nodes  *)
(* and edges, those that end outside the identifiers included.             *)
(***************************************************************************)
THEOREM DisjointGroups == SubGraphsSpec => []GroupsDisjoint
<1>1. PartitionInv => GroupsDisjoint
  BY DEF PartitionInv, GroupsInv
<1>2. QED
  BY <1>1, PartitionInvariance, PTL

\* Without foreign edges the subgraphs are the groups themselves.
LEMMA SubGraphsAreGroups ==
  ASSUME PartitionInv, ~ForeignEdges, pc = "idle"
  PROVE  /\ DOMAIN subGraphs = DOMAIN resultsVector
         /\ \A i \in DOMAIN subGraphs : subGraphs[i] = resultsVector[i]
         /\ ids = Grouped
<1> USE DEF PartitionInv
<1>1. DOMAIN subGraphs = DOMAIN resultsVector
  BY DEF ResultInv, ReturnedGroups, SubGraphsTypeOK
<1>2. ids = Grouped
  BY DEF ResultInv, NodesInv, GroupsInv, SubGraphsTypeOK
<1>3. ASSUME NEW i \in DOMAIN subGraphs
      PROVE  subGraphs[i] = resultsVector[i]
  <2>1. subGraphs[i] = {Value(k) : k \in resultsVector[i]}
    BY <1>3 DEF ResultInv, ReturnedGroups
  <2>2. \A k \in resultsVector[i] : Value(k) = k
    BY <1>1, <1>2 DEF Grouped, Value
  <2>3. QED
    BY <2>1, <2>2
<1>4. QED
  BY <1>1, <1>2, <1>3

(***************************************************************************)
(* What BuildSubGraphs.h promises: each identifier ends up in one and only *)
(* one subgraph.  It takes the precondition every caller of buildSubGraphs *)
(* meets, that the linked edges join identifiers it was given.             *)
(***************************************************************************)
THEOREM Partition ==
  ASSUME ~ForeignEdges
  PROVE  SubGraphsSpec => []EachIdInOneSubGraph
<1>1. PartitionInv => EachIdInOneSubGraph
  <2> SUFFICES ASSUME PartitionInv, pc = "idle"
               PROVE  /\ \A id \in ids : \E i \in DOMAIN subGraphs : id \in subGraphs[i]
                      /\ \A i, j \in DOMAIN subGraphs :
                            i # j => subGraphs[i] \cap subGraphs[j] = {}
                      /\ \A i \in DOMAIN subGraphs : subGraphs[i] \subseteq ids
    BY DEF EachIdInOneSubGraph
  <2>1. GroupsDisjoint
    BY DEF PartitionInv, GroupsInv
  <2>2. QED
    BY <2>1, SubGraphsAreGroups DEF Grouped, GroupsDisjoint
<1>2. QED
  BY <1>1, PartitionInvariance, PTL
-----------------------------------------------------------------------------
\* Once the nodes are linked, their links are the linked edges; each group is all
\* that can be reached from one of its nodes.
ConnectedInv ==
  /\ pc # "link" => \A n \in Node :
       /\ children[n] = {e.id2 : e \in {f \in Linked : f.id1 = n}}
       /\ parents[n] = {e.id1 : e \in {f \in Linked : f.id2 = n}}
  /\ \A i \in DOMAIN resultsVector : \E n \in Node : resultsVector[i] = Group(n)

LEMMA ConnectedInvInit == SubGraphsInit => ConnectedInv
BY DEF SubGraphsInit, GraphInit, ConnectedInv, Linked

LEMMA ConnectedInvKeeps ==
  ASSUME PartitionInv, ConnectedInv, [SubGraphsNext]_subGraphVars
  PROVE  ConnectedInv'
<1>1. ASSUME UNCHANGED <<children, parents>>
      PROVE  \A n \in Node : Group(n)' = Group(n)
  BY <1>1 DEF Group, Reachable, Closed, Followed, FollowedChildren,
              FollowedParents
<1>2. ASSUME NEW i \in SUBSET Node, NEW es \in SUBSET Edge, buildSubGraphs(i, es)
      PROVE  ConnectedInv'
  BY <1>2 DEF buildSubGraphs, ConnectedInv
<1>3. CASE LinkNodes
  <2>1. resultsVector' = <<>>
    BY <1>3 DEF LinkNodes, PartitionInv, GroupsInv
  <2>2. \A n \in Node :
          /\ children'[n] = {e.id2 : e \in {f \in Linked : f.id1 = n}}
          /\ parents'[n] = {e.id1 : e \in {f \in Linked : f.id2 = n}}
    BY <1>3 DEF LinkNodes
  <2>3. Linked' = Linked
    BY <1>3 DEF LinkNodes, Linked
  <2> QED BY <2>1, <2>2, <2>3 DEF ConnectedInv
<1>4. ASSUME NEW n \in Node, Fill(n)
      PROVE  ConnectedInv'
  <2>1. /\ \A i \in DOMAIN resultsVector : resultsVector'[i] = resultsVector[i]
        /\ \A i \in DOMAIN resultsVector' :
             i \in DOMAIN resultsVector \/ resultsVector'[i] = Group(n)
    <3> PICK L \in Nat : L = Len(resultsVector)
      BY DEF PartitionInv, SubGraphsTypeOK
    <3>1. resultsVector \in Seq(SUBSET Node)
      BY DEF PartitionInv, SubGraphsTypeOK
    <3>2. resultsVector' = Append(resultsVector, Group(n))
      BY <1>4 DEF Fill
    <3>3. DOMAIN resultsVector = 1 .. L /\ DOMAIN resultsVector' = 1 .. L + 1
      BY <3>1, <3>2
    <3> QED BY <3>1, <3>2, <3>3
  <2>2. Linked' = Linked /\ UNCHANGED <<children, parents, pc>>
    BY <1>4 DEF Fill, Linked
  <2>3. \A i \in DOMAIN resultsVector' : \E k \in Node : resultsVector'[i] = Group(k)
    BY <2>1 DEF ConnectedInv
  <2> QED BY <1>1, <2>2, <2>3 DEF ConnectedInv
<1>5. CASE ReturnSubGraphs \/ UNCHANGED subGraphVars
  <2>1. /\ UNCHANGED <<children, parents, resultsVector, edges>>
        /\ pc' = "link" => pc = "link"
        /\ pc' # "link" => pc # "link"
    BY <1>5 DEF ReturnSubGraphs, subGraphVars
  <2>2. Linked' = Linked
    BY <2>1 DEF Linked
  <2> QED BY <1>1, <2>1, <2>2 DEF ConnectedInv
<1> QED BY <1>2, <1>3, <1>4, <1>5 DEF SubGraphsNext

\* A part of a group that holds the node the group was found from is all of it,
\* unless a linked edge leads out of that part.
LEMMA PartIsAll ==
  ASSUME PartitionInv, ConnectedInv, pc = "idle",
         NEW n \in Node, NEW T \in SUBSET Group(n), n \in T,
         \A e \in Linked :
           Ends(e) \cap T # {} => Ends(e) \cap (Group(n) \ T) = {}
  PROVE  T = Group(n)
<1>1. GraphTypeOK /\ Group(n) \subseteq Node
  BY DEF PartitionInv, SubGraphsTypeOK, Group, Reachable
<1>2. Closed("UNDIRECTED", Group(n))
  BY <1>1, ReachableIsClosed DEF Group
<1>3. Closed("UNDIRECTED", T)
  <2> SUFFICES ASSUME NEW x \in T, NEW y \in Followed("UNDIRECTED", x), y \notin T PROVE FALSE
    BY DEF Closed
  <2>1. x \in Node /\ x \in Group(n) /\ y \in Group(n)
    BY <1>1, <1>2 DEF Closed
  <2>2. PICK e \in Linked : x \in Ends(e) /\ y \in Ends(e)
    BY <2>1 DEF ConnectedInv, Followed, FollowedChildren, FollowedParents, Ends
  <2> QED BY <2>1, <2>2
<1>4. T \in SUBSET Node
  BY <1>1
<1> QED BY <1>3, <1>4, GroupIsLeast DEF Group

(***************************************************************************)
(* The subgraphs are the connected components of the linked edges: what    *)
(* BuildSubGraphs.h promises to the callers that look for blocks and for   *)
(* clusters to merge.                                                      *)
(***************************************************************************)
THEOREM SubGraphsAreComponents ==
  ASSUME ~ForeignEdges
  PROVE  SubGraphsSpec => []SubGraphsAreConnected
<1>1. PartitionInv /\ ConnectedInv => SubGraphsAreConnected
  <2> SUFFICES ASSUME PartitionInv, ConnectedInv, pc = "idle", NEW i \in DOMAIN subGraphs
               PROVE  /\ \A e \in Linked :
                           Ends(e) \cap subGraphs[i] # {} => Ends(e) \subseteq subGraphs[i]
                      /\ \A S \in (SUBSET subGraphs[i]) \ {{}, subGraphs[i]} :
                           \E e \in Linked : /\ Ends(e) \cap S # {}
                                             /\ Ends(e) \cap (subGraphs[i] \ S) # {}
    BY DEF SubGraphsAreConnected
  <2>1. PICK n \in Node : subGraphs[i] = Group(n)
    BY SubGraphsAreGroups DEF ConnectedInv
  <2>2. GraphTypeOK /\ n \in Group(n) /\ Group(n) \subseteq Node
    BY GroupHoldsStart DEF PartitionInv, SubGraphsTypeOK, Group, Reachable
  <2>3. ASSUME NEW e \in Linked, Ends(e) \cap Group(n) # {}
        PROVE  Ends(e) \subseteq Group(n)
    <3>1. Closed("UNDIRECTED", Group(n))
      BY <2>2, ReachableIsClosed DEF Group
    <3>2. e.id1 \in Node /\ e.id2 \in Node
      BY DEF Linked, Edge, PartitionInv, SubGraphsTypeOK
    <3>3. e.id2 \in Followed("UNDIRECTED",
    e.id1) /\ e.id1 \in Followed("UNDIRECTED", e.id2)
      BY <3>2 DEF ConnectedInv, Followed, FollowedChildren, FollowedParents
    <3> QED BY <2>3, <3>1, <3>3 DEF Closed, Ends
  <2>4. ASSUME NEW S \in (SUBSET Group(n)) \ {{}, Group(n)},
               \A e \in Linked :
                 Ends(e) \cap S # {} => Ends(e) \cap (Group(n) \ S) = {}
        PROVE  FALSE
    <3>1. CASE n \in S
      BY <2>4, <3>1, PartIsAll
    <3>2. CASE n \notin S
      <4>1. Group(n) \ (Group(n) \ S) = S
        OBVIOUS
      <4>2. \A e \in Linked :
              Ends(e) \cap (Group(n) \ S) # {} =>
                Ends(e) \cap (Group(n) \ (Group(n) \ S)) = {}
        BY <2>4, <4>1
      <4>3. Group(n) \ S = Group(n)
        BY <2>2, <3>2, <4>2, PartIsAll
      <4> QED BY <4>3
    <3> QED BY <3>1, <3>2
  <2> QED BY <2>1, <2>3, <2>4
<1> QED BY <1>1, PartitionInit, ConnectedInvInit, PartitionInvariance, ConnectedInvKeeps,
     PTL DEF SubGraphsSpec
=============================================================================
