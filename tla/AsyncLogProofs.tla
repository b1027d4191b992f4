---------------------------- MODULE AsyncLogProofs ----------------------------
(***************************************************************************)
(* What the lock free queue of an asynchronous logger keeps true, for any  *)
(* number of clients, of calls and of cells: a cell is never in the hands  *)
(* of two threads, and together the cells are a first in, first out queue. *)
(* And for any number of sinks, what each of them gets: the messages that  *)
(* were accepted, in their order, and all of them before the worker ends.  *)
(***************************************************************************)
EXTENDS AsyncLog, SequenceTheorems, TLAPS

LEMMA SizeType == Size \in Nat /\ Size > 1
BY QueueAssumption

\* Two multiples of the size of the queue that are nearer than that are the same.
LEMMA MultiplesApart ==
  ASSUME NEW a \in Int, NEW b \in Int, Size * (a - b) < Size, Size * (b - a) < Size
  PROVE  a = b
<1>1. a - b < 1
  <2> SUFFICES ASSUME a - b >= 1 PROVE FALSE
    OBVIOUS
  <2>1. Size * (a - b) >= Size
    BY SizeType
  <2> QED BY <2>1, SizeType
<1>2. b - a < 1
  <2> SUFFICES ASSUME b - a >= 1 PROVE FALSE
    OBVIOUS
  <2>1. Size * (b - a) >= Size
    BY SizeType
  <2> QED BY <2>1, SizeType
<1> QED BY <1>1, <1>2

LEMMA DivisionIsUnique ==
  ASSUME NEW a \in Int, NEW b \in Int, NEW r \in Cell, NEW s \in Cell, Size * a + r = Size * b + s
  PROVE  a = b /\ r = s
<1>1. r \in Int /\ s \in Int /\ r - s < Size /\ s - r < Size
  BY SizeType DEF Cell
<1>2. Size * (a - b) = s - r
  BY <1>1, SizeType
<1>3. Size * (b - a) = r - s
  BY <1>1, SizeType
<1>4. a = b
  BY <1>1, <1>2, <1>3, MultiplesApart
<1>5. PICK n \in Int : n = Size * a /\ n = Size * b
  BY <1>4, SizeType
<1>6. n + r = n + s
  BY <1>5
<1>7. r = s
  BY <1>6, <1>1
<1> QED BY <1>4, <1>7

LEMMA MaskType ==
  ASSUME NEW p \in Nat
  PROVE  Mask(p) \in Cell /\ \E a \in Int : p = Size * a + Mask(p)
<1>1. p % Size \in 0 .. Size - 1 /\ p \div Size \in Int
  BY SizeType
<1>2. p = Size * (p \div Size) + (p % Size)
  BY SizeType
<1> QED BY <1>1, <1>2 DEF Mask, Cell

\* Positions that share a cell are at least the size of the queue apart.
LEMMA MaskInjective ==
  ASSUME NEW p \in Nat, NEW q \in Nat, p < q + Size, q < p + Size, Mask(p) = Mask(q)
  PROVE  p = q
<1>1. PICK a \in Int : p = Size * a + Mask(p)
  BY MaskType
<1>2. PICK b \in Int : q = Size * b + Mask(q)
  BY MaskType
<1>3. Mask(p) \in Int
  BY MaskType, SizeType DEF Cell
<1>4. Size * (a - b) = p - q /\ Size * (b - a) = q - p
  BY <1>1, <1>2, <1>3, SizeType
<1>5. a = b
  BY <1>4, MultiplesApart, SizeType
<1> QED BY <1>1, <1>2, <1>5

\* A cell comes round again after as many positions as there are cells.
LEMMA MaskWraps ==
  ASSUME NEW p \in Nat
  PROVE  Mask(p + Size) = Mask(p)
<1>1. PICK a \in Int : p = Size * a + Mask(p)
  BY MaskType
<1>2. p + Size \in Nat
  BY SizeType
<1>3. PICK b \in Int : p + Size = Size * b + Mask(p + Size)
  BY <1>2, MaskType
<1>4. PICK c \in Int : c = a + 1
  OBVIOUS
<1>5. Mask(p) \in Cell /\ Mask(p + Size) \in Cell
  BY <1>2, MaskType
<1>6. Size * a + Size = Size * c
  BY <1>4, SizeType
<1>7. PICK m \in Int, n \in Int : m = Size * a /\ n = Size * c
  BY SizeType
<1>8. p = m + Mask(p) /\ n = m + Size /\ Mask(p) \in Int
  BY <1>1, <1>5, <1>6, <1>7, SizeType DEF Cell
<1>9. p + Size = n + Mask(p)
  BY <1>8, SizeType
<1>10. Size * c + Mask(p) = Size * b + Mask(p + Size)
  BY <1>3, <1>7, <1>9
<1> QED BY <1>5, <1>10, DivisionIsUnique
-----------------------------------------------------------------------------
Calling == {"throw_if_bad_worker", "throw", "enqueue", "enqueue_seq", "enqueue_cas",
            "enqueue_store", "full"}
ClientLabel == Calling \cup {"enqueued", "join", "idle", "gone", "aborted"}
WorkerLabel == {"start", "dequeue", "dequeue_seq", "dequeue_cas", "dequeue_take", "dequeued",
                "empty", "teardown", "ended", "failed"}
Label == ClientLabel \cup WorkerLabel

\* Where a thread is between two accesses to the queue.
Inside == {"enqueue_seq", "enqueue_cas", "enqueue_store", "dequeue_seq", "dequeue_cas", "dequeue_take"}

Shape ==
  /\ sequence \in [Cell -> Int]
  /\ data \in [Cell -> Item \cup {NoItem}]
  /\ enqueue_pos \in Nat /\ dequeue_pos \in Nat
  /\ pos \in [Thread -> Nat]
  /\ item \in [Thread -> Item \cup {NoItem}]
  /\ pc \in [Thread -> Label]
  /\ calls \in [Client -> Nat]
  /\ pc[Worker] \in WorkerLabel
  /\ \A c \in Client : pc[c] \in ClientLabel /\ (pc[c] \in Calling => item[c] \in Item)

\* The first position whose cell the worker has not handed on to the next round.
Oldest == IF At(Worker, "dequeue_take") THEN dequeue_pos - 1 ELSE dequeue_pos

\* A client has won position p and not filled its cell.
Won(p) == \E c \in Client : At(c, "enqueue_store") /\ pos[c] = p

Filled(p) == p < enqueue_pos /\ ~Won(p)

\* From the oldest position on, each cell is meant for one position, and its
\* sequence tells whether that position is filled.
CellInv ==
  /\ Oldest \in Nat /\ Oldest <= enqueue_pos /\ enqueue_pos <= Oldest + Size
  /\ \A p \in Nat : Oldest <= p /\ p < Oldest + Size =>
       sequence[Mask(p)] = IF Filled(p) THEN p + 1 ELSE p

\* A client never looks beyond the position that is next, nor goes for one whose
\* cell is in use; no two clients win the same.
ClientInv ==
  \A c \in Client :
    /\ pc[c] \in {"enqueue_seq", "enqueue_cas"} => pos[c] <= enqueue_pos
    /\ At(c, "enqueue_cas") => pos[c] < Oldest + Size
    /\ At(c, "enqueue_store") =>
         /\ Oldest <= pos[c] /\ pos[c] < enqueue_pos
         /\ \A d \in Client : At(d, "enqueue_store") /\ pos[d] = pos[c] => d = c

WorkerInv ==
  /\ At(Worker, "dequeue_seq") => pos[Worker] = dequeue_pos
  /\ At(Worker, "dequeue_cas") => pos[Worker] = dequeue_pos /\ Filled(dequeue_pos)
  /\ At(Worker, "dequeue_take") => pos[Worker] = Oldest /\ Filled(Oldest)

IInv == Shape /\ CellInv /\ ClientInv /\ WorkerInv

LEMMA ThreadType == Worker \in Thread /\ Client \subseteq Thread /\ Worker \notin Client
BY QueueAssumption DEF Thread

LEMMA InitHolds == Init => IInv
<1> SUFFICES ASSUME Init PROVE IInv
  OBVIOUS
<1> USE DEF Init, QueueInit
<1>1. Shape
  BY ThreadType DEF Shape, Label, ClientLabel, WorkerLabel, Calling, Cell
<1>2. Oldest = 0 /\ \A p \in Nat : ~Filled(p)
  <2>1. pc[Worker] = "start" /\ enqueue_pos = 0 /\ \A c \in Client : pc[c] = "idle"
    BY ThreadType
  <2> QED BY <2>1 DEF Oldest, At, Filled, Won
<1>3. \A p \in Nat : p < Size => sequence[Mask(p)] = p
  <2> SUFFICES ASSUME NEW p \in Nat, p < Size PROVE sequence[Mask(p)] = p
    OBVIOUS
  <2>1. p \in Cell
    BY SizeType DEF Cell
  <2>2. Mask(p) = p
    BY SizeType DEF Mask
  <2> QED BY <2>1, <2>2
<1>4. CellInv
  <2>1. \A p \in Nat : Oldest <= p /\ p < Oldest + Size => p < Size
    BY <1>2, SizeType
  <2>2. enqueue_pos = 0 /\ 0 <= 0 + Size
    BY SizeType
  <2>3. \A p \in Nat : Oldest <= p /\ p < Oldest + Size =>
          sequence[Mask(p)] = IF Filled(p) THEN p + 1 ELSE p
    BY <1>2, <1>3, <2>1
  <2>4. Oldest \in Nat /\ Oldest <= enqueue_pos /\ enqueue_pos <= Oldest + Size
    BY <1>2, <2>2
  <2> QED BY <2>3, <2>4 DEF CellInv
<1>5. ClientInv /\ WorkerInv
  BY ThreadType DEF ClientInv, WorkerInv, At
<1> QED BY <1>1, <1>4, <1>5 DEF IInv
-----------------------------------------------------------------------------
\* What happens outside the queue does not concern it.
LEMMA OutsideKeeps ==
  ASSUME IInv, Shape', UNCHANGED <<sequence, data, enqueue_pos, dequeue_pos>>,
         \A t \in Thread : \/ pc'[t] = pc[t] /\ pos'[t] = pos[t]
                           \/ pc[t] \notin Inside /\ pc'[t] \notin Inside
  PROVE  IInv'
<1> USE ThreadType DEF At, Inside
<1>1. Oldest' = Oldest
  BY DEF Oldest
<1>2. \A p : Won(p)' = Won(p)
  BY DEF Won
<1>3. \A p : Filled(p)' = Filled(p)
  BY <1>2 DEF Filled
<1>4. CellInv'
  BY <1>1, <1>3 DEF CellInv, IInv
<1>5. ClientInv'
  BY <1>1 DEF ClientInv, IInv
<1>6. WorkerInv'
  BY <1>1, <1>3 DEF WorkerInv, IInv
<1> QED BY <1>4, <1>5, <1>6 DEF IInv

\* What of a client's step stays outside the queue.
LEMMA ClientOutsideKeeps ==
  ASSUME IInv, NEW c \in Client,
         LogOrFlush(c) \/ Release(c) \/ ThrowIfBadWorker(c) \/ Throw(c) \/ Full(c) \/ Enqueued(c) \/ Join(c)
  PROVE  IInv'
<1> USE ThreadType
<1>1. c \in Thread /\ pc \in [Thread -> Label]
  BY DEF IInv, Shape
<1>2. {Flush, Terminate} \subseteq Item /\ Message \subseteq Item
  BY AsyncAssumption
<1>3. CASE LogOrFlush(c)
  <2>1. calls[c] \in Nat /\ calls[c] < MaxCalls[c] /\ MaxCalls[c] \in Nat
    BY <1>3, AsyncAssumption DEF LogOrFlush, IInv, Shape
  <2>2. <<c, calls[c] + 1>> \in Message
    BY <2>1 DEF Message
  <2>3. PICK i \in Item : Call(c, i)
    BY <1>2, <1>3, <2>2 DEF LogOrFlush
  <2>4. /\ pc' = [pc EXCEPT ![c] = "throw_if_bad_worker"] /\ item' = [item EXCEPT ![c] = i]
        /\ calls' = [calls EXCEPT ![c] = @ + 1] /\ pc[c] = "idle"
        /\ UNCHANGED <<sequence, data, enqueue_pos, dequeue_pos, pos>>
    BY <1>3, <2>3 DEF Call, Goto, LogOrFlush, At
  <2>5. Shape'
    BY <2>1, <2>4 DEF IInv, Shape, Label, ClientLabel, WorkerLabel, Calling
  <2> QED BY <1>1, <2>4, <2>5, OutsideKeeps DEF Inside
<1>4. CASE Release(c)
  <2>1. CASE Call(c, Terminate) /\ UNCHANGED calls
    <3>1. /\ pc' = [pc EXCEPT ![c] = "throw_if_bad_worker"] /\ item' = [item EXCEPT ![c] = Terminate]
          /\ UNCHANGED <<sequence, data, enqueue_pos, dequeue_pos, pos, calls>> /\ pc[c] = "idle"
      BY <1>4, <2>1 DEF Call, Goto, Release, At
    <3>2. Shape'
      BY <1>2, <3>1 DEF IInv, Shape, Label, ClientLabel, WorkerLabel, Calling
    <3> QED BY <1>1, <3>1, <3>2, OutsideKeeps DEF Inside
  <2>2. CASE Goto(c, "gone") /\ UNCHANGED <<queueVars, logVars>>
    <3>1. /\ pc' = [pc EXCEPT ![c] = "gone"] /\ pc[c] = "idle"
          /\ UNCHANGED <<sequence, data, enqueue_pos, dequeue_pos, pos, item, calls>>
      BY <1>4, <2>2 DEF Goto, Release, At, queueVars, logVars
    <3>2. Shape'
      BY <3>1 DEF IInv, Shape, Label, ClientLabel, WorkerLabel, Calling
    <3> QED BY <1>1, <3>1, <3>2, OutsideKeeps DEF Inside
  <2> QED BY <1>4, <2>1, <2>2 DEF Release
<1>5. CASE ThrowIfBadWorker(c) \/ Throw(c) \/ Join(c)
  <2>1. /\ pc[c] \in {"throw_if_bad_worker", "throw", "join"}
        /\ UNCHANGED <<sequence, data, enqueue_pos, dequeue_pos, pos, item, calls>>
    BY <1>5 DEF ThrowIfBadWorker, Throw, Join, At, queueVars, logVars
  <2>2. PICK l \in {"throw", "enqueue", "idle", "aborted", "gone"} :
          /\ pc' = [pc EXCEPT ![c] = l]
          /\ l \in Calling => pc[c] \in Calling
    BY <1>5 DEF ThrowIfBadWorker, Throw, Join, At, Goto, Calling
  <2>3. Shape'
    BY <2>1, <2>2 DEF IInv, Shape, Label, ClientLabel, WorkerLabel, Calling
  <2> QED BY <1>1, <2>1, <2>2, <2>3, OutsideKeeps DEF Inside
<1>6. CASE Full(c) \/ Enqueued(c)
  <2>1. /\ pc[c] \in {"full", "enqueued"}
        /\ UNCHANGED <<sequence, data, enqueue_pos, dequeue_pos, calls>>
    BY <1>6 DEF Full, Enqueued, Return, At, queueVars, logVars
  <2>2. CASE Return(c)
    <3>1. PICK l \in {"join", "idle"} :
            /\ pc' = [pc EXCEPT ![c] = l]
            /\ item' = [item EXCEPT ![c] = NoItem] /\ pos' = [pos EXCEPT ![c] = 0]
      BY <2>2 DEF Return, Goto
    <3>2. Shape'
      BY <2>1, <3>1 DEF IInv, Shape, Label, ClientLabel, WorkerLabel, Calling
    <3> QED BY <1>1, <2>1, <3>1, <3>2, OutsideKeeps DEF Inside, IInv, Shape
  <2>3. CASE Full(c) /\ Goto(c, "enqueue") /\ UNCHANGED queueVars
    <3>1. pc' = [pc EXCEPT ![c] = "enqueue"] /\ pc[c] = "full" /\ UNCHANGED <<pos, item>>
      BY <2>3 DEF Full, Goto, At, queueVars
    <3>2. Shape'
      BY <2>1, <3>1 DEF IInv, Shape, Label, ClientLabel, WorkerLabel, Calling
    <3> QED BY <1>1, <2>1, <3>1, <3>2, OutsideKeeps DEF Inside
  <2> QED BY <1>6, <2>2, <2>3 DEF Full, Enqueued
<1> QED BY <1>3, <1>4, <1>5, <1>6

\* What of the worker's step stays outside the queue.
LEMMA WorkerOutsideKeeps ==
  ASSUME IInv, Warmup \/ ProcessMessage \/ EmptyQueue \/ Teardown
  PROVE  IInv'
<1> USE ThreadType
<1>1. /\ pc[Worker] \in {"start", "dequeued", "empty", "teardown"}
      /\ UNCHANGED <<sequence, data, enqueue_pos, dequeue_pos, pos, item, calls>>
  BY DEF Warmup, Teardown, Callback, ProcessMessage, EmptyQueue, At, queueVars
<1>2. PICK l \in {"dequeue", "teardown", "ended", "failed"} : pc' = [pc EXCEPT ![Worker] = l]
  BY DEF Warmup, Teardown, Callback, Fail, ProcessMessage, EmptyQueue, Goto
<1>3. Shape'
  BY <1>1, <1>2 DEF IInv, Shape, Label, ClientLabel, WorkerLabel, Calling
<1> QED BY <1>1, <1>2, <1>3, OutsideKeeps DEF Inside, IInv, Shape
-----------------------------------------------------------------------------
\* A client that looks at the queue without filling a cell, now or before.
LEMMA LookKeeps ==
  ASSUME IInv, NEW c \in Client, Shape', UNCHANGED <<sequence, data, enqueue_pos, dequeue_pos>>,
         \A t \in Thread \ {c} : pc'[t] = pc[t] /\ pos'[t] = pos[t],
         pc[c] # "enqueue_store", pc'[c] # "enqueue_store",
         pc'[c] \in {"enqueue_seq", "enqueue_cas"} => pos'[c] <= enqueue_pos,
         pc'[c] = "enqueue_cas" => pos'[c] < Oldest + Size
  PROVE  IInv'
<1> USE ThreadType DEF At
<1>1. Oldest' = Oldest
  BY DEF Oldest
<1>2. \A p : Won(p)' = Won(p)
  BY DEF Won
<1>3. \A p : Filled(p)' = Filled(p)
  BY <1>2 DEF Filled
<1>4. CellInv'
  BY <1>1, <1>3 DEF CellInv, IInv
<1>5. ClientInv'
  BY <1>1 DEF ClientInv, IInv
<1>6. WorkerInv'
  BY <1>1, <1>3 DEF WorkerInv, IInv
<1> QED BY <1>4, <1>5, <1>6 DEF IInv

\* The oldest position shares its cell with none of the positions in use but
\* with the one after them.
LEMMA CellsInUse ==
  ASSUME CellInv, NEW p \in Nat, NEW q \in Nat, Oldest <= p, p < Oldest + Size,
         Oldest <= q, q < Oldest + Size, Mask(p) = Mask(q)
  PROVE  p = q
BY MaskInjective, SizeType DEF CellInv

LEMMA EnqueueLoadKeeps ==
  ASSUME IInv, NEW c \in Client, EnqueueLoad(c), UNCHANGED calls
  PROVE  IInv'
<1> USE ThreadType
<1>1. /\ pc[c] = "enqueue" /\ pc' = [pc EXCEPT ![c] = "enqueue_seq"]
      /\ pos' = [pos EXCEPT ![c] = enqueue_pos] /\ enqueue_pos \in Nat
      /\ UNCHANGED <<sequence, data, enqueue_pos, dequeue_pos, item>>
  BY DEF EnqueueLoad, At, Goto, IInv, Shape
<1>2. Shape'
  BY <1>1 DEF IInv, Shape, Label, ClientLabel, WorkerLabel, Calling
<1> QED BY <1>1, <1>2, LookKeeps DEF IInv, Shape

\* The cell is free if its sequence is the position: it cannot be that of the
\* round before.
LEMMA EnqueueSeqKeeps ==
  ASSUME IInv, NEW c \in Client, EnqueueSeq(c), UNCHANGED calls
  PROVE  IInv'
<1> USE ThreadType
<1>1. /\ pc[c] = "enqueue_seq"
      /\ UNCHANGED <<sequence, data, enqueue_pos, dequeue_pos, pos, item>>
      /\ pos[c] \in Nat /\ pos[c] <= enqueue_pos
  BY DEF EnqueueSeq, At, queueVars, IInv, Shape, ClientInv
<1>2. PICK l \in {"enqueue_cas", "full", "enqueue"} :
        /\ pc' = [pc EXCEPT ![c] = l]
        /\ l = "enqueue_cas" => sequence[Mask(pos[c])] - pos[c] = 0
  BY DEF EnqueueSeq, Goto, Dif
<1>3. Shape'
  BY <1>1, <1>2 DEF IInv, Shape, Label, ClientLabel, WorkerLabel, Calling
<1>4. l = "enqueue_cas" => pos[c] < Oldest + Size
  <2> SUFFICES ASSUME l = "enqueue_cas", ~(pos[c] < Oldest + Size) PROVE FALSE
    OBVIOUS
  <2>1. Oldest \in Nat /\ pos[c] = Oldest + Size
    BY <1>1, SizeType DEF IInv, Shape, CellInv
  <2>2. sequence[Mask(Oldest)] \in {Oldest, Oldest + 1}
    BY <2>1, SizeType DEF IInv, CellInv
  <2>3. sequence[Mask(pos[c])] = sequence[Mask(Oldest)]
    BY <2>1, MaskWraps
  <2> QED BY <1>2, <2>1, <2>2, <2>3, SizeType
<1> QED BY <1>1, <1>2, <1>3, <1>4, LookKeeps DEF IInv, Shape

\* The position is won, but not filled yet; or another client was faster.
LEMMA EnqueueCasKeeps ==
  ASSUME IInv, NEW c \in Client, EnqueueCas(c), UNCHANGED calls
  PROVE  IInv'
<1> USE ThreadType
<1>1. /\ pc[c] = "enqueue_cas" /\ enqueue_pos \in Nat /\ pos[c] \in Nat
      /\ UNCHANGED <<sequence, data, dequeue_pos, item>>
  BY DEF EnqueueCas, At, IInv, Shape
<1>2. CASE enqueue_pos # pos[c]
  <2>1. /\ pc' = [pc EXCEPT ![c] = "enqueue_seq"] /\ pos' = [pos EXCEPT ![c] = enqueue_pos]
        /\ UNCHANGED enqueue_pos
    BY <1>2 DEF EnqueueCas, Goto
  <2>2. Shape'
    BY <1>1, <2>1 DEF IInv, Shape, Label, ClientLabel, WorkerLabel, Calling
  <2> QED BY <1>1, <2>1, <2>2, LookKeeps DEF IInv, Shape
<1>3. CASE enqueue_pos = pos[c]
  <2>1. /\ pc' = [pc EXCEPT ![c] = "enqueue_store"] /\ UNCHANGED pos
        /\ enqueue_pos' = enqueue_pos + 1
    BY <1>3 DEF EnqueueCas, Goto
  <2>2. Shape'
    BY <1>1, <2>1 DEF IInv, Shape, Label, ClientLabel, WorkerLabel, Calling
  <2>3. pc'[c] = "enqueue_store" /\ \A t \in Thread \ {c} : pc'[t] = pc[t]
    BY <2>1 DEF IInv, Shape
  <2>4. Oldest' = Oldest /\ Oldest \in Nat
    BY <1>1, <2>3 DEF Oldest, At, IInv, CellInv
  <2>5. \A p \in Nat : Won(p)' <=> Won(p) \/ p = enqueue_pos
    BY <1>1, <1>3, <2>1, <2>3 DEF Won, At
  <2>6. \A p \in Nat : Filled(p)' = Filled(p)
    BY <1>1, <2>1, <2>5 DEF Filled
  <2>7. enqueue_pos < Oldest + Size /\ Oldest <= enqueue_pos
    BY <1>1, <1>3 DEF IInv, ClientInv, CellInv, At
  <2>8. CellInv'
    BY <1>1, <2>1, <2>4, <2>6, <2>7, SizeType DEF IInv, CellInv
  <2>9. ClientInv'
    <3>1. \A d \in Client : pc[d] = "enqueue_store" => pos[d] \in Nat /\ pos[d] < enqueue_pos
      BY DEF IInv, Shape, ClientInv, At
    <3>2. \A d \in Client \ {c} :
            /\ pc[d] \in {"enqueue_seq", "enqueue_cas"} => pos[d] \in Nat /\ pos[d] <= enqueue_pos
            /\ pc[d] = "enqueue_cas" => pos[d] < Oldest + Size
            /\ pc[d] = "enqueue_store" =>
                 /\ Oldest <= pos[d]
                 /\ \A e \in Client : pc[e] = "enqueue_store" /\ pos[e] = pos[d] => e = d
      BY DEF IInv, Shape, ClientInv, At
    <3> QED BY <1>1, <1>3, <2>1, <2>3, <2>4, <2>7, <3>1, <3>2 DEF ClientInv, At
  <2>10. WorkerInv'
    BY <1>1, <2>1, <2>3, <2>4, <2>6 DEF IInv, Shape, WorkerInv, At
  <2> QED BY <2>2, <2>8, <2>9, <2>10 DEF IInv
<1> QED BY <1>2, <1>3

\* The position is filled; the cells of all other positions in use are others.
LEMMA EnqueueStoreKeeps ==
  ASSUME IInv, NEW c \in Client, EnqueueStore(c), UNCHANGED calls
  PROVE  IInv'
<1> USE ThreadType
<1>1. /\ pc[c] = "enqueue_store" /\ pc' = [pc EXCEPT ![c] = "enqueued"]
      /\ data' = [data EXCEPT ![Mask(pos[c])] = item[c]]
      /\ sequence' = [sequence EXCEPT ![Mask(pos[c])] = pos[c] + 1]
      /\ UNCHANGED <<enqueue_pos, dequeue_pos, pos, item>>
      /\ pos[c] \in Nat /\ enqueue_pos \in Nat
      /\ Oldest \in Nat /\ Oldest <= pos[c] /\ pos[c] < enqueue_pos /\ enqueue_pos <= Oldest + Size
  BY DEF EnqueueStore, At, Goto, IInv, Shape, ClientInv, CellInv
<1>2. Mask(pos[c]) \in Cell
  BY <1>1, MaskType
<1>3. Shape'
  BY <1>1, <1>2 DEF IInv, Shape, Label, ClientLabel, WorkerLabel, Calling
<1>4. pc'[c] = "enqueued" /\ \A t \in Thread \ {c} : pc'[t] = pc[t]
  BY <1>1 DEF IInv, Shape
<1>5. Oldest' = Oldest
  BY <1>1, <1>4 DEF Oldest, At
<1>6. \A p \in Nat : Won(p)' <=> Won(p) /\ p # pos[c]
  BY <1>1, <1>4 DEF Won, At, IInv, ClientInv
<1>7. \A p \in Nat : Filled(p)' <=> Filled(p) \/ p = pos[c]
  BY <1>1, <1>6 DEF Filled
<1>8. CellInv'
  <2> SUFFICES ASSUME NEW p \in Nat, Oldest <= p, p < Oldest + Size
               PROVE  sequence'[Mask(p)] = IF Filled(p)' THEN p + 1 ELSE p
    BY <1>1, <1>5 DEF CellInv
  <2>1. CASE p = pos[c]
    BY <2>1, <1>1, <1>2, <1>7 DEF IInv, Shape
  <2>2. CASE p # pos[c]
    <3>1. pos[c] < Oldest + Size
      BY <1>1, SizeType
    <3>2. Mask(p) # Mask(pos[c])
      BY <1>1, <2>2, <3>1, CellsInUse DEF IInv
    <3>3. sequence'[Mask(p)] = sequence[Mask(p)]
      BY <1>1, <3>2, MaskType DEF IInv, Shape
    <3> QED BY <2>2, <3>3, <1>7 DEF IInv, CellInv
  <2> QED BY <2>1, <2>2
<1>9. ClientInv'
  BY <1>1, <1>4, <1>5 DEF IInv, ClientInv, At
<1>10. WorkerInv'
  BY <1>1, <1>4, <1>5, <1>7 DEF IInv, Shape, WorkerInv, At
<1> QED BY <1>3, <1>8, <1>9, <1>10 DEF IInv

\* The worker looks at the oldest position, and goes for it if it is filled.
LEMMA DequeueLookKeeps ==
  ASSUME IInv, DequeueLoad \/ DequeueSeq, UNCHANGED calls
  PROVE  IInv'
<1> USE ThreadType
<1>1. /\ pc[Worker] \in {"dequeue", "dequeue_seq"}
      /\ UNCHANGED <<sequence, data, enqueue_pos, dequeue_pos, item>>
      /\ dequeue_pos \in Nat /\ pos'[Worker] = dequeue_pos /\ pos' \in [Thread -> Nat]
      /\ \A t \in Thread \ {Worker} : pos'[t] = pos[t]
  BY DEF DequeueLoad, DequeueSeq, At, queueVars, IInv, Shape, WorkerInv
<1>2. PICK l \in {"dequeue_seq", "dequeue_cas", "empty"} :
        /\ pc' = [pc EXCEPT ![Worker] = l]
        /\ l = "dequeue_cas" => pos[Worker] = dequeue_pos /\ sequence[Mask(pos[Worker])] - (pos[Worker] + 1) = 0
  BY DEF DequeueLoad, DequeueSeq, Goto, At, Dif, IInv, WorkerInv
<1>3. Shape'
  BY <1>1, <1>2 DEF IInv, Shape, Label, ClientLabel, WorkerLabel, Calling
<1>4. pc'[Worker] = l /\ \A t \in Thread \ {Worker} : pc'[t] = pc[t]
  BY <1>2 DEF IInv, Shape
<1>5. Oldest' = Oldest /\ Oldest = dequeue_pos
  BY <1>1, <1>4 DEF Oldest, At
<1>6. \A p : Won(p)' = Won(p)
  BY <1>1, <1>4 DEF Won, At
<1>7. \A p : Filled(p)' = Filled(p)
  BY <1>1, <1>6 DEF Filled
<1>8. CellInv'
  BY <1>1, <1>5, <1>7 DEF CellInv, IInv
<1>9. ClientInv'
  BY <1>1, <1>4, <1>5 DEF ClientInv, IInv, At
<1>10. l = "dequeue_cas" => Filled(dequeue_pos)
  <2> SUFFICES ASSUME l = "dequeue_cas", ~Filled(dequeue_pos) PROVE FALSE
    OBVIOUS
  <2>1. sequence[Mask(dequeue_pos)] = dequeue_pos
    BY <1>1, <1>5, SizeType DEF IInv, CellInv
  <2> QED BY <2>1, <1>1, <1>2
<1>11. WorkerInv'
  BY <1>1, <1>4, <1>7, <1>10 DEF WorkerInv, At
<1> QED BY <1>3, <1>8, <1>9, <1>11 DEF IInv

LEMMA DequeueCasKeeps ==
  ASSUME IInv, DequeueCas, UNCHANGED calls
  PROVE  IInv'
<1> USE ThreadType
<1>1. /\ pc[Worker] = "dequeue_cas" /\ pc' = [pc EXCEPT ![Worker] = "dequeue_take"]
      /\ UNCHANGED <<sequence, data, enqueue_pos, pos, item>>
      /\ dequeue_pos \in Nat /\ pos[Worker] = dequeue_pos /\ dequeue_pos' = dequeue_pos + 1
      /\ Filled(dequeue_pos)
  BY DEF DequeueCas, At, Goto, IInv, Shape, WorkerInv
<1>2. Shape'
  BY <1>1 DEF IInv, Shape, Label, ClientLabel, WorkerLabel, Calling
<1>3. pc'[Worker] = "dequeue_take" /\ \A t \in Thread \ {Worker} : pc'[t] = pc[t]
  BY <1>1 DEF IInv, Shape
<1>4. Oldest' = Oldest /\ Oldest = dequeue_pos
  BY <1>1, <1>3 DEF Oldest, At
<1>5. \A p : Won(p)' = Won(p)
  BY <1>1, <1>3 DEF Won, At
<1>6. \A p : Filled(p)' = Filled(p)
  BY <1>1, <1>5 DEF Filled
<1>7. CellInv'
  BY <1>1, <1>4, <1>6 DEF CellInv, IInv
<1>8. ClientInv'
  BY <1>1, <1>3, <1>4 DEF ClientInv, IInv, At
<1>9. WorkerInv'
  BY <1>1, <1>3, <1>4, <1>6 DEF WorkerInv, At
<1> QED BY <1>2, <1>7, <1>8, <1>9 DEF IInv

\* The oldest position makes way for one that is as many positions farther as
\* there are cells.
LEMMA DequeueTakeKeeps ==
  ASSUME IInv, DequeueTake, UNCHANGED calls
  PROVE  IInv'
<1> USE ThreadType
<1> PICK o : o = Oldest
  OBVIOUS
<1>1. /\ pc[Worker] = "dequeue_take" /\ pc' = [pc EXCEPT ![Worker] = "dequeued"]
      /\ pos[Worker] = o /\ Filled(o) /\ o \in Nat /\ o = dequeue_pos - 1
      /\ item' = [item EXCEPT ![Worker] = data[Mask(o)]]
      /\ data' = [data EXCEPT ![Mask(o)] = NoItem]
      /\ sequence' = [sequence EXCEPT ![Mask(o)] = o + Size]
      /\ UNCHANGED <<enqueue_pos, dequeue_pos, pos>>
      /\ enqueue_pos \in Nat /\ dequeue_pos \in Nat
  BY DEF DequeueTake, At, Goto, IInv, Shape, WorkerInv, CellInv, Oldest
<1>2. Mask(o) \in Cell /\ o + Size \in Nat
  BY <1>1, MaskType, SizeType
<1>3. Shape'
  BY <1>1, <1>2 DEF IInv, Shape, Label, ClientLabel, WorkerLabel, Calling
<1>4. pc'[Worker] = "dequeued" /\ \A t \in Thread \ {Worker} : pc'[t] = pc[t]
  BY <1>1 DEF IInv, Shape
<1>5. Oldest' = o + 1
  BY <1>1, <1>4 DEF Oldest, At
<1>6. \A p : Won(p)' = Won(p)
  BY <1>1, <1>4 DEF Won, At
<1>7. \A p : Filled(p)' = Filled(p)
  BY <1>1, <1>6 DEF Filled
<1>8. enqueue_pos <= o + Size /\ o < enqueue_pos
  BY <1>1 DEF IInv, CellInv, Filled
<1>9. CellInv'
  <2>1. Oldest' \in Nat /\ Oldest' <= enqueue_pos' /\ enqueue_pos' <= Oldest' + Size
    BY <1>1, <1>5, <1>8, SizeType
  <2> SUFFICES ASSUME NEW p \in Nat, o + 1 <= p, p < (o + 1) + Size
               PROVE  sequence'[Mask(p)] = IF Filled(p) THEN p + 1 ELSE p
    BY <2>1, <1>5, <1>7 DEF CellInv
  <2>2. CASE p = o + Size
    <3>1. Mask(p) = Mask(o) /\ sequence'[Mask(p)] = p
      BY <2>2, <1>1, <1>2, MaskWraps DEF IInv, Shape
    <3>2. ~Filled(p)
      BY <2>2, <1>1, <1>8, SizeType DEF Filled
    <3> QED BY <3>1, <3>2
  <2>3. CASE p # o + Size
    <3>1. o <= p /\ p < o + Size /\ p # o /\ o <= o /\ o < o + Size
      BY <2>3, <1>1, SizeType
    <3>2. Mask(p) # Mask(o)
      BY <1>1, <3>1, CellsInUse DEF IInv
    <3>3. sequence'[Mask(p)] = sequence[Mask(p)]
      BY <1>1, <3>2, MaskType DEF IInv, Shape
    <3> QED BY <3>1, <3>3 DEF IInv, CellInv
  <2> QED BY <2>2, <2>3
<1>10. ClientInv'
  <2>1. ~Won(o)
    BY <1>1 DEF Filled
  <2>2. \A c \in Client : pc[c] = "enqueue_store" => pos[c] \in Nat /\ o <= pos[c] /\ pos[c] # o
    BY <2>1 DEF Won, IInv, Shape, ClientInv, At
  <2>3. \A c \in Client : pc[c] = "enqueue_cas" => pos[c] \in Nat /\ pos[c] < (o + 1) + Size
    BY <1>1, SizeType DEF IInv, Shape, ClientInv, At
  <2> QED BY <1>1, <1>4, <1>5, <2>2, <2>3 DEF IInv, ClientInv, At
<1>11. WorkerInv'
  BY <1>4 DEF WorkerInv, At
<1> QED BY <1>3, <1>9, <1>10, <1>11 DEF IInv
-----------------------------------------------------------------------------
\* Each step of a client or of the worker keeps the invariant.
LEMMA NextKeeps == IInv /\ [Next]_vars => IInv'
<1> SUFFICES ASSUME IInv, [Next]_vars PROVE IInv'
  OBVIOUS
<1>1. CASE UNCHANGED vars
  <2>1. UNCHANGED <<sequence, data, enqueue_pos, dequeue_pos, pos, item, pc, calls>>
    BY <1>1 DEF vars, queueVars, logVars
  <2> QED BY <2>1, OutsideKeeps DEF IInv, Shape
<1>2. ASSUME NEW c \in Client, LogOrFlush(c) \/ Release(c) \/ ClientStep(c) PROVE IInv'
  <2>1. CASE Try(c)
    <3>1. UNCHANGED calls
      BY <2>1 DEF Try
    <3> QED BY <2>1, <3>1, EnqueueLoadKeeps, EnqueueSeqKeeps, EnqueueCasKeeps, EnqueueStoreKeeps
            DEF Try, Enqueue
  <2> QED BY <1>2, <2>1, ClientOutsideKeeps DEF ClientStep
<1>3. CASE WorkerStep
  <2>1. CASE Pop
    <3>1. UNCHANGED calls
      BY <2>1 DEF Pop
    <3> QED BY <2>1, <3>1, DequeueLookKeeps, DequeueCasKeeps, DequeueTakeKeeps DEF Pop, Dequeue
  <2> QED BY <1>3, <2>1, WorkerOutsideKeeps DEF WorkerStep
<1> QED BY <1>1, <1>2, <1>3 DEF Next

LEMMA WhereThreadsAre ==
  ASSUME Shape
  PROVE  /\ Worker \in Thread /\ Client \subseteq Thread /\ Thread = Client \cup {Worker}
         /\ pc[Worker] # "enqueue_store"
         /\ \A c \in Client : pc[c] # "dequeue_take"
BY ThreadType DEF Thread, Shape, ClientLabel, WorkerLabel, Calling

\* A thread that has won a cell has it alone until it has stored the sequence.
THEOREM CellsAreExclusive == Spec => []OneThreadPerCell
<1>1. IInv => OneThreadPerCell
  <2> SUFFICES ASSUME IInv, NEW t \in Thread, NEW u \in Thread, t # u,
                      pc[t] \in {"enqueue_store", "dequeue_take"},
                      pc[u] \in {"enqueue_store", "dequeue_take"},
                      Mask(pos[t]) = Mask(pos[u])
               PROVE  FALSE
    BY DEF OneThreadPerCell
  <2>1. ASSUME NEW v \in Thread, pc[v] \in {"enqueue_store", "dequeue_take"}
        PROVE  pos[v] \in Nat /\ Oldest <= pos[v] /\ pos[v] < Oldest + Size
    <3>1. pos[v] \in Nat /\ Oldest \in Nat /\ enqueue_pos \in Nat /\ enqueue_pos <= Oldest + Size
      BY DEF IInv, Shape, CellInv
    <3>2. CASE pc[v] = "enqueue_store" /\ v \in Client
      BY <3>1, <3>2, SizeType DEF IInv, ClientInv, At
    <3>3. CASE v = Worker /\ pc[v] = "dequeue_take"
      BY <3>1, <3>3, SizeType DEF IInv, WorkerInv, At
    <3> QED BY <2>1, <3>2, <3>3, WhereThreadsAre DEF IInv
  <2>2. pos[t] = pos[u]
    BY <2>1, CellsInUse DEF IInv
  <2>3. CASE t \in Client /\ u \in Client
    BY <2>2, <2>3, WhereThreadsAre DEF IInv, ClientInv, At
  <2>4. CASE t = Worker \/ u = Worker
    <3>1. ~Won(Oldest)
      BY <2>4, WhereThreadsAre DEF IInv, WorkerInv, Filled, At
    <3> QED BY <2>2, <2>4, <3>1, WhereThreadsAre DEF IInv, WorkerInv, Won, At
  <2> QED BY <2>3, <2>4, WhereThreadsAre DEF IInv
<1> QED BY <1>1, InitHolds, NextKeeps, PTL DEF Spec
-----------------------------------------------------------------------------
(***************************************************************************)
(* The cells as a queue: each step is a Put, a Take or neither.            *)
(***************************************************************************)
Datum == Item \cup {NoItem}

PoppedInv == popped \in Seq(Datum)

\* What LogQueue sees of what was taken out.
Out == popped \o IF At(Worker, "dequeue_take") THEN <<data[Mask(pos[Worker])]>> ELSE <<>>

\* What is at a position: what its client is about to store, or what is in its cell.
Holds(p, i) ==
  \/ \E c \in Client : At(c, "enqueue_store") /\ pos[c] = p /\ item[c] = i
  \/ ~Won(p) /\ data[Mask(p)] = i

ItemInv == \A p \in Nat : \A i : Holds(p, i) => ItemAt(p) = i

LEMMA HoldsItem == IInv => ItemInv
<1> SUFFICES ASSUME IInv, NEW p \in Nat, NEW i, Holds(p, i) PROVE ItemAt(p) = i
  BY DEF ItemInv
<1>1. CASE Won(p)
  <2>1. PICK c \in Client : At(c, "enqueue_store") /\ pos[c] = p /\ item[c] = i
    BY <1>1 DEF Holds
  <2>2. \A d \in Client : At(d, "enqueue_store") /\ pos[d] = p => d = c
    BY <2>1 DEF IInv, ClientInv
  <2>3. (CHOOSE d \in Client : At(d, "enqueue_store") /\ pos[d] = p) = c
    BY <2>1, <2>2
  <2> QED BY <2>1, <2>3 DEF ItemAt
<1>2. CASE ~Won(p)
  BY <1>2 DEF Holds, Won, ItemAt
<1> QED BY <1>1, <1>2

LEMMA SomethingIsHeld ==
  ASSUME NEW p \in Nat
  PROVE  \E i : Holds(p, i)
BY DEF Holds, Won

LEMMA HoldsItemNext == IInv' => ItemInv'
BY HoldsItem, PTL

\* Two states with the same items at the same positions.
LEMMA SameItems ==
  ASSUME IInv, IInv', NEW p \in Nat, \A i : Holds(p, i) => Holds(p, i)'
  PROVE  ItemAt(p)' = ItemAt(p)
<1>1. PICK i : Holds(p, i)
  BY SomethingIsHeld
<1>2. ItemAt(p) = i
  BY <1>1, HoldsItem DEF ItemInv
<1>3. ItemAt(p)' = i
  BY <1>1, HoldsItemNext DEF ItemInv
<1> QED BY <1>2, <1>3

\* A step of a thread that neither wins a position nor has won one.
Quiet(t) ==
  /\ UNCHANGED <<data, enqueue_pos, dequeue_pos, popped>>
  /\ \A u \in Thread \ {t} : pc'[u] = pc[u] /\ pos'[u] = pos[u] /\ item'[u] = item[u]
  /\ pc[t] \notin {"enqueue_store", "dequeue_take"}
  /\ pc'[t] \notin {"enqueue_store", "dequeue_take"}

LEMMA QuietHolds ==
  ASSUME NEW t \in Thread, Quiet(t), NEW p, NEW i, Holds(p, i)
  PROVE  Holds(p, i)'
<1> USE ThreadType DEF At, Quiet
<1>1. Won(p)' = Won(p)
  BY DEF Won
<1> QED BY <1>1 DEF Holds

LEMMA QuietStep ==
  ASSUME IInv, IInv', NEW t \in Thread, Quiet(t)
  PROVE  UNCHANGED <<Waiting, Out>>
<1> USE ThreadType DEF At, Quiet
<1>2. \A p \in Nat : \A i : Holds(p, i) => Holds(p, i)'
  BY QuietHolds
<1>3. \A p \in Nat : ItemAt(p)' = ItemAt(p)
  BY <1>2, SameItems
<1>4. \A k \in 1 .. enqueue_pos - dequeue_pos : dequeue_pos + k - 1 \in Nat
  BY DEF IInv, Shape
<1>5. Waiting' = Waiting
  BY <1>3, <1>4 DEF Waiting
<1>6. Out' = Out
  BY DEF Out
<1> QED BY <1>5, <1>6

\* What waits is a sequence of as many items as there are positions not taken.
WaitInv == /\ Waiting \in Seq(Datum)
           /\ Len(Waiting) = enqueue_pos - dequeue_pos /\ Len(Waiting) <= Size
           /\ \A k \in 1 .. Len(Waiting) : Waiting[k] = ItemAt(dequeue_pos + k - 1)

LEMMA WaitingType == IInv => WaitInv
<1> SUFFICES ASSUME IInv PROVE WaitInv
  OBVIOUS
<1>1. enqueue_pos - dequeue_pos \in 0 .. Size /\ dequeue_pos \in Nat
  BY SizeType DEF IInv, Shape, CellInv, WorkerInv, Filled, Oldest
<1>2. PICK n \in Nat : n = enqueue_pos - dequeue_pos
  BY <1>1, SizeType
<1>3. \A p \in Nat : ItemAt(p) \in Datum
  <2> TAKE p \in Nat
  <2>1. PICK i : Holds(p, i)
    BY SomethingIsHeld
  <2>2. Mask(p) \in Cell
    BY MaskType
  <2>3. i \in Datum
    BY <2>1, <2>2, ThreadType DEF Holds, Datum, IInv, Shape
  <2> QED BY <2>1, <2>3, HoldsItem DEF ItemInv
<1>4. \A k \in 1 .. n : dequeue_pos + k - 1 \in Nat
  BY <1>1
<1>5. Waiting = [k \in 1 .. n |-> ItemAt(dequeue_pos + k - 1)]
  BY <1>2 DEF Waiting
<1>6. \A k \in 1 .. n : ItemAt(dequeue_pos + k - 1) \in Datum
  BY <1>3, <1>4
<1>7. Waiting \in Seq(Datum) /\ Len(Waiting) = n
  BY <1>5, <1>6
<1> QED BY <1>1, <1>2, <1>5, <1>7 DEF WaitInv

LEMMA WaitingTypeNext == IInv' => WaitInv'
BY WaitingType, PTL

\* The position that a client wins is at the end of the queue.
LEMMA CasIsPut ==
  ASSUME IInv, IInv', NEW c \in Client, EnqueueCas(c), UNCHANGED popped
  PROVE  Queue!Put \/ UNCHANGED <<Waiting, Out>>
<1> USE ThreadType
<1>1. /\ pc[c] = "enqueue_cas" /\ pos[c] \in Nat /\ item[c] \in Item
      /\ enqueue_pos \in Nat /\ dequeue_pos \in Nat
      /\ UNCHANGED <<sequence, data, dequeue_pos, item, popped>>
  BY DEF EnqueueCas, At, IInv, Shape, Calling
<1>2. CASE enqueue_pos # pos[c]
  <2>1. /\ pc' = [pc EXCEPT ![c] = "enqueue_seq"] /\ pos' = [pos EXCEPT ![c] = enqueue_pos]
        /\ UNCHANGED enqueue_pos
    BY <1>2 DEF EnqueueCas, Goto
  <2> QED BY <1>1, <2>1, QuietStep DEF IInv, Shape, Quiet
<1>3. CASE enqueue_pos = pos[c]
  <2> PICK e \in Nat : e = enqueue_pos
    BY <1>1
  <2> PICK i \in Item : i = item[c]
    BY <1>1
  <2> PICK d \in Nat : d = dequeue_pos
    BY <1>1
  <2>1. /\ pc' = [pc EXCEPT ![c] = "enqueue_store"] /\ UNCHANGED pos
        /\ enqueue_pos' = e + 1 /\ pos[c] = e /\ item[c] = i
    BY <1>3 DEF EnqueueCas, Goto
  <2>2. pc'[c] = "enqueue_store" /\ \A t \in Thread \ {c} : pc'[t] = pc[t]
    BY <2>1 DEF IInv, Shape
  <2>3. \A p \in Nat : Won(p)' <=> Won(p) \/ p = e
    BY <1>1, <2>1, <2>2 DEF Won, At
  <2>4. \A p \in Nat : p # e => \A j : Holds(p, j) => Holds(p, j)'
    BY <1>1, <2>1, <2>2, <2>3 DEF Holds, At
  <2>5. \A p \in Nat : p # e => ItemAt(p)' = ItemAt(p)
    BY <2>4, SameItems
  <2>6. Holds(e, i)'
    BY <1>1, <2>1, <2>2 DEF Holds, At
  <2>7. ItemAt(e)' = i
    BY <2>6, HoldsItemNext DEF ItemInv
  <2>8. e - d \in 0 .. Size /\ e < d + Size /\ (e + 1) - d = (e - d) + 1
    BY <1>1, <2>1, SizeType DEF IInv, Shape, CellInv, ClientInv, WorkerInv, Filled, Oldest, At
  <2>9. /\ Waiting \in Seq(Datum) /\ Len(Waiting) = e - d
        /\ \A k \in 1 .. Len(Waiting) : Waiting[k] = ItemAt(d + k - 1)
    BY WaitingType DEF WaitInv
  <2>10. /\ Waiting' \in Seq(Datum) /\ Len(Waiting') = (e - d) + 1
         /\ \A k \in 1 .. Len(Waiting') : Waiting'[k] = ItemAt(d + k - 1)'
    BY <1>1, <2>1, <2>8, WaitingTypeNext DEF WaitInv
  <2>11. i \in Datum
    BY DEF Datum
  <2>12. ASSUME NEW k \in 1 .. Len(Waiting')
         PROVE  Waiting'[k] = Append(Waiting, i)[k]
    <3>1. CASE k = (e - d) + 1
      <4>1. d + k - 1 = e
        BY <3>1, <2>8
      <4>2. Waiting'[k] = i
        BY <4>1, <2>7, <2>10
      <4> QED BY <3>1, <4>2, <2>9, <2>11, AppendProperties
    <3>2. CASE k # (e - d) + 1
      <4>1. k \in 1 .. e - d /\ d + k - 1 \in Nat /\ d + k - 1 # e
        BY <3>2, <2>8, <2>10
      <4>2. Waiting'[k] = Waiting[k]
        BY <4>1, <2>5, <2>9, <2>10
      <4> QED BY <4>1, <4>2, <2>9, <2>11, AppendProperties
    <3> QED BY <3>1, <3>2
  <2>13. Waiting' = Append(Waiting, i) /\ Len(Waiting) = e - d
    <3>1. Append(Waiting, i) \in Seq(Datum) /\ Len(Append(Waiting, i)) = (e - d) + 1
      BY <2>9, <2>11, AppendProperties
    <3> QED BY <3>1, <2>9, <2>10, <2>12, SeqEqual
  <2>14. Out' = Out
    BY <1>1, <2>1, <2>2 DEF Out, At, WhereThreadsAre
  <2> QED BY <2>8, <2>13, <2>14, SizeType DEF Queue!Put, Out
<1> QED BY <1>2, <1>3

\* The same items at the same positions are the same queue.
LEMMA SameQueue ==
  ASSUME IInv, IInv', UNCHANGED <<enqueue_pos, dequeue_pos>>,
         \A p \in Nat : dequeue_pos <= p /\ p < enqueue_pos => \A i : Holds(p, i) => Holds(p, i)'
  PROVE  Waiting' = Waiting
<1> PICK e \in Nat : e = enqueue_pos /\ e = enqueue_pos'
  BY DEF IInv, Shape
<1> PICK d \in Nat : d = dequeue_pos /\ d = dequeue_pos'
  BY DEF IInv, Shape
<1>1. /\ Waiting \in Seq(Datum) /\ Len(Waiting) = e - d
      /\ \A k \in 1 .. Len(Waiting) : Waiting[k] = ItemAt(d + k - 1)
  BY WaitingType DEF WaitInv
<1>2. /\ Waiting' \in Seq(Datum) /\ Len(Waiting') = e - d
      /\ \A k \in 1 .. Len(Waiting') : Waiting'[k] = ItemAt(d + k - 1)'
  BY WaitingTypeNext DEF WaitInv
<1>3. \A p \in Nat : d <= p /\ p < e => ItemAt(p)' = ItemAt(p)
  BY SameItems
<1>4. \A k \in 1 .. e - d : d + k - 1 \in Nat /\ d <= d + k - 1 /\ d + k - 1 < e
  OBVIOUS
<1>5. \A k \in 1 .. Len(Waiting') : Waiting'[k] = Waiting[k]
  BY <1>1, <1>2, <1>3, <1>4
<1> QED BY <1>1, <1>2, <1>5, SeqEqual

\* Filling the cell of a position leaves what is at each position.
LEMMA StoreHolds ==
  ASSUME IInv, NEW c \in Client, EnqueueStore(c),
         NEW p \in Nat, Oldest <= p, p < enqueue_pos, NEW i, Holds(p, i)
  PROVE  Holds(p, i)'
<1> USE ThreadType
<1> PICK w \in Nat : w = pos[c]
  BY DEF IInv, Shape
<1>1. /\ pc[c] = "enqueue_store" /\ pc' = [pc EXCEPT ![c] = "enqueued"]
      /\ data' = [data EXCEPT ![Mask(w)] = item[c]]
      /\ UNCHANGED <<enqueue_pos, dequeue_pos, pos, item>>
      /\ Oldest \in Nat /\ Oldest <= w /\ w < enqueue_pos /\ enqueue_pos <= Oldest + Size
      /\ enqueue_pos \in Nat
  BY DEF EnqueueStore, At, Goto, IInv, Shape, ClientInv, CellInv
<1>2. pc'[c] = "enqueued" /\ \A t \in Thread \ {c} : pc'[t] = pc[t]
  BY <1>1 DEF IInv, Shape
<1>3. Won(p)' <=> Won(p) /\ p # w
  BY <1>1, <1>2 DEF Won, At, IInv, ClientInv
<1>4. w < Oldest + Size /\ p < Oldest + Size
  BY <1>1, SizeType
<1>5. CASE p = w
  <2>1. i = item[c]
    BY <1>1, <1>5 DEF Holds, Won, At, IInv, ClientInv
  <2>2. data'[Mask(w)] = item[c]
    BY <1>1, MaskType DEF IInv, Shape
  <2> QED BY <2>1, <2>2, <1>3, <1>5 DEF Holds
<1>6. CASE p # w
  <2>1. Mask(p) # Mask(w)
    BY <1>1, <1>4, <1>6, CellsInUse DEF IInv
  <2>2. data'[Mask(p)] = data[Mask(p)]
    BY <2>1, <1>1, MaskType DEF IInv, Shape
  <2> QED BY <1>1, <1>2, <1>3, <1>6, <2>2 DEF Holds, At
<1> QED BY <1>5, <1>6

LEMMA StoreIsQuiet ==
  ASSUME IInv, IInv', NEW c \in Client, EnqueueStore(c), UNCHANGED popped
  PROVE  UNCHANGED <<Waiting, Out>>
<1> USE ThreadType
<1>1. /\ UNCHANGED <<enqueue_pos, dequeue_pos, pos>>
      /\ pc[c] = "enqueue_store" /\ pc' = [pc EXCEPT ![c] = "enqueued"]
      /\ enqueue_pos \in Nat /\ dequeue_pos \in Nat /\ Oldest \in Nat /\ Oldest <= dequeue_pos
  BY DEF EnqueueStore, At, Goto, IInv, Shape, CellInv, Oldest
<1>2. pc'[Worker] = pc[Worker]
  BY <1>1 DEF IInv, Shape
<1>3. \A p \in Nat : Oldest <= p /\ p < enqueue_pos => \A i : Holds(p, i) => Holds(p, i)'
  BY StoreHolds
<1>4. \A p \in Nat : dequeue_pos <= p => Oldest <= p
  BY <1>1
<1>5. Waiting' = Waiting
  BY <1>1, <1>3, <1>4, SameQueue
<1>6. Out' = Out
  <2>1. CASE pc[Worker] = "dequeue_take"
    <3> PICK o \in Nat : o = Oldest
      BY <1>1
    <3> PICK i : i = data[Mask(o)]
      OBVIOUS
    <3>1. pos[Worker] = o /\ ~Won(o) /\ o < enqueue_pos
      BY <2>1 DEF IInv, WorkerInv, Filled, At
    <3>2. Holds(o, i)'
      BY <1>3, <3>1 DEF Holds
    <3>3. ~Won(o)'
      BY <1>1, <3>1 DEF Won, At, IInv, Shape
    <3>4. data'[Mask(o)] = i
      BY <3>2, <3>3 DEF Holds, Won
    <3> QED BY <3>1, <3>4, <1>1, <1>2 DEF Out, At
  <2>2. CASE pc[Worker] # "dequeue_take"
    BY <2>2, <1>1, <1>2 DEF Out, At
  <2> QED BY <2>1, <2>2
<1> QED BY <1>5, <1>6

\* The position that the worker claims is at the head of the queue.
LEMMA ClaimIsTake ==
  ASSUME IInv, IInv', PoppedInv, DequeueCas, UNCHANGED popped
  PROVE  Queue!Take
<1> USE ThreadType
<1> PICK d \in Nat : d = dequeue_pos
  BY DEF IInv, Shape
<1>1. /\ pc[Worker] = "dequeue_cas" /\ pc' = [pc EXCEPT ![Worker] = "dequeue_take"]
      /\ UNCHANGED <<sequence, data, enqueue_pos, pos, item>>
      /\ enqueue_pos \in Nat /\ pos[Worker] = d /\ dequeue_pos' = d + 1
      /\ d < enqueue_pos /\ ~Won(d)
  BY DEF DequeueCas, At, Goto, IInv, Shape, WorkerInv, Filled
<1>2. pc'[Worker] = "dequeue_take" /\ \A t \in Thread \ {Worker} : pc'[t] = pc[t]
  BY <1>1 DEF IInv, Shape
<1>3. \A p \in Nat : \A i : Holds(p, i) => Holds(p, i)'
  BY <1>1, <1>2 DEF Holds, Won, At
<1>4. \A p \in Nat : ItemAt(p)' = ItemAt(p)
  BY <1>3, SameItems
<1>5. /\ Waiting \in Seq(Datum) /\ Len(Waiting) = enqueue_pos - d
      /\ \A k \in 1 .. Len(Waiting) : Waiting[k] = ItemAt(d + k - 1)
  BY WaitingType DEF WaitInv
<1>6. /\ Waiting' \in Seq(Datum) /\ Len(Waiting') = enqueue_pos - (d + 1)
      /\ \A k \in 1 .. Len(Waiting') : Waiting'[k] = ItemAt((d + 1) + k - 1)'
  BY <1>1, WaitingTypeNext DEF WaitInv
<1>7. Waiting # <<>> /\ Len(Waiting) >= 1
  BY <1>1, <1>5
<1>8. /\ Tail(Waiting) \in Seq(Datum) /\ Len(Tail(Waiting)) = Len(Waiting) - 1
      /\ \A k \in 1 .. Len(Tail(Waiting)) : Tail(Waiting)[k] = Waiting[k + 1]
  BY <1>5, <1>7, HeadTailProperties
<1>9. Waiting' = Tail(Waiting)
  <2>1. Len(Waiting') = Len(Tail(Waiting))
    BY <1>1, <1>5, <1>6, <1>8
  <2>2. \A k \in 1 .. Len(Waiting') : Waiting'[k] = Tail(Waiting)[k]
    <3> TAKE k \in 1 .. Len(Waiting')
    <3>1. (d + 1) + k - 1 \in Nat /\ (d + 1) + k - 1 = d + (k + 1) - 1 /\ k + 1 \in 1 .. Len(Waiting)
      BY <1>5, <1>6, <1>1
    <3> QED BY <3>1, <2>1, <1>4, <1>5, <1>6, <1>8
  <2> QED BY <2>1, <2>2, <1>6, <1>8, SeqEqual
<1>10. Head(Waiting) = data[Mask(d)]
  <2>1. Holds(d, data[Mask(d)])
    BY <1>1 DEF Holds
  <2>2. ItemAt(d) = data[Mask(d)]
    BY <2>1, HoldsItem DEF ItemInv
  <2>3. Head(Waiting) = Waiting[1] /\ d + 1 - 1 = d
    BY <1>5, <1>7
  <2> QED BY <2>2, <2>3, <1>5, <1>7
<1>11. Out = popped /\ Out' = Append(popped, Head(Waiting))
  <2>1. data[Mask(d)] \in Datum
    BY MaskType DEF IInv, Shape, Datum
  <2>2. popped \o <<data[Mask(d)]>> = Append(popped, data[Mask(d)]) /\ popped \o <<>> = popped
    BY <2>1, AppendIsConcat, ConcatEmptySeq DEF PoppedInv
  <2>3. Out = popped \o <<>> /\ Out' = popped \o <<data[Mask(d)]>>
    BY <1>1, <1>2 DEF Out, At
  <2> QED BY <2>2, <2>3, <1>10
<1> QED BY <1>7, <1>9, <1>11 DEF Queue!Take, Out

\* Emptying the cell of a position that was claimed changes nothing that can be seen.
LEMMA TakeIsQuiet ==
  ASSUME IInv, IInv', PoppedInv, DequeueTake, popped' = Append(popped, item'[Worker])
  PROVE  UNCHANGED <<Waiting, Out>>
<1> USE ThreadType
<1> PICK o : o = Oldest
  OBVIOUS
<1>1. /\ pc[Worker] = "dequeue_take" /\ pc' = [pc EXCEPT ![Worker] = "dequeued"]
      /\ pos[Worker] = o /\ o \in Nat /\ o = dequeue_pos - 1
      /\ item' = [item EXCEPT ![Worker] = data[Mask(o)]]
      /\ data' = [data EXCEPT ![Mask(o)] = NoItem]
      /\ UNCHANGED <<enqueue_pos, dequeue_pos, pos>>
      /\ enqueue_pos \in Nat /\ dequeue_pos \in Nat /\ enqueue_pos <= o + Size
      /\ item \in [Thread -> Datum] /\ data[Mask(o)] \in Datum
  BY MaskType DEF DequeueTake, At, Goto, IInv, Shape, WorkerInv, CellInv, Oldest, Datum
<1>2. pc'[Worker] = "dequeued" /\ \A t \in Thread \ {Worker} : pc'[t] = pc[t]
  BY <1>1 DEF IInv, Shape
<1>3. item'[Worker] = data[Mask(o)] /\ \A c \in Client : item'[c] = item[c]
  BY <1>1
<1>4. \A p \in Nat : dequeue_pos <= p /\ p < enqueue_pos => data'[Mask(p)] = data[Mask(p)]
  <2> SUFFICES ASSUME NEW p \in Nat, dequeue_pos <= p, p < enqueue_pos
               PROVE  data'[Mask(p)] = data[Mask(p)]
    OBVIOUS
  <2>1. o <= p /\ p < o + Size /\ p # o /\ o <= o /\ o < o + Size
    BY <1>1, SizeType
  <2>2. Mask(p) # Mask(o)
    BY <1>1, <2>1, CellsInUse DEF IInv
  <2> QED BY <2>2, <1>1, MaskType DEF IInv, Shape
<1>5. \A p \in Nat : dequeue_pos <= p /\ p < enqueue_pos => \A i : Holds(p, i) => Holds(p, i)'
  BY <1>1, <1>2, <1>3, <1>4 DEF Holds, Won, At
<1>6. Waiting' = Waiting
  BY <1>1, <1>5, SameQueue
<1>7. Out' = Out
  <2>1. Out = popped \o <<data[Mask(o)]>> /\ Out' = popped' \o <<>>
    BY <1>1, <1>2 DEF Out, At
  <2>2. popped' = popped \o <<data[Mask(o)]>> /\ popped' \in Seq(Datum)
    BY <1>1, <1>3, AppendIsConcat, AppendProperties DEF PoppedInv
  <2>3. popped' \o <<>> = popped'
    BY <2>2, ConcatEmptySeq
  <2> QED BY <2>1, <2>2, <2>3
<1> QED BY <1>6, <1>7

\* The steps of a client that are not steps of the queue.
LEMMA ClientIsQuiet ==
  ASSUME IInv, NEW c \in Client,
         \/ LogOrFlush(c) \/ Release(c) \/ ThrowIfBadWorker(c) \/ Throw(c) \/ Full(c)
         \/ Enqueued(c) \/ Join(c)
         \/ (EnqueueLoad(c) \/ EnqueueSeq(c)) /\ UNCHANGED popped
  PROVE  Quiet(c)
<1> USE ThreadType
<1>1. /\ UNCHANGED <<data, enqueue_pos, dequeue_pos, popped>>
      /\ pc[c] \notin {"enqueue_store", "dequeue_take"}
  BY DEF LogOrFlush, Call, Release, ThrowIfBadWorker, Throw, Full, Enqueued, Return, Join,
         EnqueueLoad, EnqueueSeq, At, queueVars, logVars
<1>2. \E l \in Label \ {"enqueue_store", "dequeue_take"} : pc' = [pc EXCEPT ![c] = l]
  BY DEF LogOrFlush, Call, Release, ThrowIfBadWorker, Throw, Full, Enqueued, Return, Join,
         EnqueueLoad, EnqueueSeq, Goto, Label, ClientLabel, Calling
<1>3. \/ UNCHANGED pos
      \/ \E p : pos' = [pos EXCEPT ![c] = p]
  BY DEF LogOrFlush, Call, Release, ThrowIfBadWorker, Throw, Full, Enqueued, Return, Join,
         EnqueueLoad, EnqueueSeq, queueVars
<1>4. \/ UNCHANGED item
      \/ \E i : item' = [item EXCEPT ![c] = i]
  BY DEF LogOrFlush, Call, Release, ThrowIfBadWorker, Throw, Full, Enqueued, Return, Join,
         EnqueueLoad, EnqueueSeq, queueVars
<1>5. /\ pc'[c] \notin {"enqueue_store", "dequeue_take"}
      /\ \A u \in Thread \ {c} : pc'[u] = pc[u] /\ pos'[u] = pos[u] /\ item'[u] = item[u]
  BY <1>2, <1>3, <1>4 DEF IInv, Shape
<1> QED BY <1>1, <1>5 DEF Quiet

\* The steps of the worker that are not.
LEMMA WorkerIsQuiet ==
  ASSUME IInv, \/ Warmup \/ ProcessMessage \/ EmptyQueue \/ Teardown
               \/ (DequeueLoad \/ DequeueSeq) /\ UNCHANGED popped
  PROVE  Quiet(Worker)
<1> USE ThreadType
<1>1. /\ UNCHANGED <<data, enqueue_pos, dequeue_pos, popped, item>>
      /\ pc[Worker] \notin {"enqueue_store", "dequeue_take"}
      /\ UNCHANGED pos \/ pos' = [pos EXCEPT ![Worker] = dequeue_pos]
  BY DEF Warmup, Teardown, Callback, ProcessMessage, EmptyQueue, DequeueLoad, DequeueSeq, At, queueVars
<1>2. \E l \in {"dequeue", "teardown", "ended", "failed", "dequeue_seq", "dequeue_cas", "empty"} :
        pc' = [pc EXCEPT ![Worker] = l]
  BY DEF Warmup, Teardown, Callback, Fail, ProcessMessage, EmptyQueue, DequeueLoad, DequeueSeq, Goto
<1>3. /\ pc'[Worker] \notin {"enqueue_store", "dequeue_take"}
      /\ \A u \in Thread \ {Worker} : pc'[u] = pc[u] /\ pos'[u] = pos[u] /\ item'[u] = item[u]
  BY <1>1, <1>2 DEF IInv, Shape
<1> QED BY <1>1, <1>3 DEF Quiet

\* Only DequeueTake adds to what was taken out.
LEMMA PoppedBy ==
  ASSUME IInv, [Next]_vars
  PROVE  popped' = popped \/ (DequeueTake /\ popped' = Append(popped, item'[Worker]))
<1> USE ThreadType
<1>1. CASE UNCHANGED vars
  BY <1>1 DEF vars, logVars
<1>2. ASSUME NEW c \in Client, LogOrFlush(c) \/ Release(c) \/ ClientStep(c) PROVE popped' = popped
  BY <1>2 DEF LogOrFlush, Release, Call, ClientStep, ThrowIfBadWorker, Throw, Try, Full, Enqueued,
              Join, logVars
<1>3. CASE WorkerStep
  <2>1. CASE Pop
    <3>1. CASE DequeueTake
      BY <2>1, <3>1 DEF Pop, DequeueTake, Goto, IInv, Shape
    <3>2. CASE DequeueLoad \/ DequeueSeq \/ DequeueCas
      <4>1. \E l \in {"dequeue_seq", "dequeue_cas", "dequeue_take", "empty"} : pc' = [pc EXCEPT ![Worker] = l]
        BY <3>2 DEF DequeueLoad, DequeueSeq, DequeueCas, Goto
      <4>2. pc'[Worker] # "dequeued"
        BY <4>1 DEF IInv, Shape
      <4> QED BY <2>1, <4>2 DEF Pop
    <3> QED BY <2>1, <3>1, <3>2 DEF Pop, Dequeue
  <2>2. CASE Warmup \/ ProcessMessage \/ EmptyQueue \/ Teardown
    BY <2>2 DEF Warmup, Teardown, Callback, ProcessMessage, EmptyQueue
  <2> QED BY <1>3, <2>1, <2>2 DEF WorkerStep
<1> QED BY <1>1, <1>2, <1>3 DEF Next

LEMMA PoppedKeeps == IInv /\ PoppedInv /\ [Next]_vars => PoppedInv'
<1> SUFFICES ASSUME IInv, PoppedInv, [Next]_vars PROVE PoppedInv'
  OBVIOUS
<1>1. CASE popped' = popped
  BY <1>1 DEF PoppedInv
<1>2. CASE DequeueTake /\ popped' = Append(popped, item'[Worker])
  <2>1. pos[Worker] \in Nat /\ item \in [Thread -> Datum] /\ data \in [Cell -> Datum]
    BY ThreadType DEF IInv, Shape, Datum
  <2>2. item'[Worker] = data[Mask(pos[Worker])]
    BY <1>2, <2>1, ThreadType DEF DequeueTake
  <2>3. item'[Worker] \in Datum
    BY <2>1, <2>2, MaskType
  <2> QED BY <1>2, <2>3, AppendProperties DEF PoppedInv
<1> QED BY <1>1, <1>2, PoppedBy

LEMMA StepIsOfTheQueue ==
  IInv /\ PoppedInv /\ IInv' /\ [Next]_vars => [Queue!Put \/ Queue!Take]_<<Waiting, Out>>
<1> SUFFICES ASSUME IInv, PoppedInv, IInv', [Next]_vars
             PROVE  Queue!Put \/ Queue!Take \/ UNCHANGED <<Waiting, Out>>
  OBVIOUS
<1>1. CASE UNCHANGED vars
  <2>1. UNCHANGED <<data, enqueue_pos, dequeue_pos, pos, item, pc, popped>>
    BY <1>1 DEF vars, queueVars, logVars
  <2>2. Out' = Out
    BY <2>1 DEF Out, At
  <2>3. \A p : \A i : Holds(p, i) => Holds(p, i)'
    BY <2>1 DEF Holds, Won, At
  <2> QED BY <2>1, <2>2, <2>3, SameQueue
<1>2. ASSUME NEW c \in Client, LogOrFlush(c) \/ Release(c) \/ ClientStep(c)
      PROVE  Queue!Put \/ UNCHANGED <<Waiting, Out>>
  <2>1. Quiet(c) => UNCHANGED <<Waiting, Out>>
    BY QuietStep, ThreadType
  <2>2. CASE Try(c)
    <3>1. UNCHANGED popped
      BY <2>2 DEF Try
    <3> QED BY <2>1, <2>2, <3>1, ClientIsQuiet, CasIsPut, StoreIsQuiet DEF Try, Enqueue
  <2> QED BY <1>2, <2>1, <2>2, ClientIsQuiet DEF ClientStep
<1>3. CASE WorkerStep
  <2>1. Quiet(Worker) => UNCHANGED <<Waiting, Out>>
    BY QuietStep, ThreadType
  <2>2. CASE Pop
    <3>1. CASE DequeueTake
      <4>1. popped' = Append(popped, item'[Worker])
        BY <2>2, <3>1 DEF Pop, DequeueTake, Goto, IInv, Shape
      <4> QED BY <3>1, <4>1, TakeIsQuiet
    <3>2. CASE ~DequeueTake
      <4>1. popped' = popped
        BY <3>2, PoppedBy
      <4> QED BY <2>1, <2>2, <3>2, <4>1, WorkerIsQuiet, ClaimIsTake DEF Pop, Dequeue
    <3> QED BY <3>1, <3>2
  <2>3. CASE Warmup \/ ProcessMessage \/ EmptyQueue \/ Teardown
    <3>1. Quiet(Worker)
      BY <2>3, WorkerIsQuiet
    <3> QED BY <2>1, <3>1
  <2> QED BY <1>3, <2>2, <2>3 DEF WorkerStep
<1> QED BY <1>1, <1>2, <1>3 DEF Next

LEMMA StartIsOfTheQueue == Init => PoppedInv /\ Queue!Init
<1> SUFFICES ASSUME Init PROVE PoppedInv /\ Queue!Init
  OBVIOUS
<1>1. IInv /\ popped = <<>> /\ pc[Worker] = "start" /\ enqueue_pos = 0 /\ dequeue_pos = 0
  BY InitHolds, ThreadType DEF Init, QueueInit
<1>2. popped \in Seq(Datum) /\ popped \o <<>> = popped
  BY <1>1
<1>3. Waiting \in Seq(Datum) /\ Len(Waiting) = 0
  BY <1>1, WaitingType DEF WaitInv
<1>4. Waiting = <<>>
  BY <1>3
<1> QED BY <1>1, <1>2, <1>4 DEF PoppedInv, Queue!Init, At

\* Through all interleavings of the accesses to its cells, the queue is first in,
\* first out, and holds no more than its size: what the clients put in is what
\* the worker takes out.
THEOREM QueueIsFIFO == Spec => ImplementsQueue
<1>1. IInv /\ PoppedInv /\ IInv' /\ [Next]_vars => [Queue!Put \/ Queue!Take]_<<Waiting, Out>>
  BY StepIsOfTheQueue
<1>2. IInv /\ PoppedInv /\ IInv' /\ [Next]_vars =>
        [Queue!Put \/ Queue!Take]_<<Waiting, popped \o IF At(Worker, "dequeue_take")
                                             THEN <<data[Mask(pos[Worker])]>> ELSE <<>> >>
  BY <1>1 DEF Out
<1> QED BY <1>2, InitHolds, StartIsOfTheQueue, NextKeeps, PoppedKeeps, PTL
        DEF Spec, ImplementsQueue, Queue!Spec
-----------------------------------------------------------------------------
(***************************************************************************)
(* What was accepted, and what of it the sinks were given.                 *)
(***************************************************************************)
\* What was taken out is the beginning of what was accepted, and the rest is at
\* the positions in use.
HistoryInv ==
  /\ accepted \in Seq(Item) /\ Len(accepted) = enqueue_pos
  /\ popped \in Seq(Item) /\ Len(popped) = Oldest
  /\ \A k \in 1 .. Len(popped) : popped[k] = accepted[k]
  /\ \A p \in Nat : Oldest <= p /\ p < enqueue_pos => Holds(p, accepted[p + 1])
  /\ At(Worker, "dequeued") => Len(popped) > 0 /\ item[Worker] = popped[Len(popped)]

\* Each sink was given what was taken out, the worker's item in hand excepted;
\* when the worker has failed some sinks were given that, too.
SinkInv ==
  \A s \in Sink :
    /\ logged[s] \in Seq(Message)
    /\ At(Worker, "dequeued") => AreMessages(logged[s], Len(popped) - 1, accepted)
    /\ pc[Worker] \notin {"dequeued", "failed"} => AreMessages(logged[s], Len(popped), accepted)
    /\ \E n \in 0 .. Len(popped) : AreMessages(logged[s], n, accepted)

\* A client has made, or makes, the last request.
Ending(c) ==
  \/ pc[c] \in {"gone", "join"}
  \/ pc[c] \in {"enqueue_store", "enqueued"} /\ item[c] = Terminate

\* The request to end is made when no other client can add an item.
RequestInv ==
  /\ \A c \in Client : item[c] = Terminate \/ pc[c] = "join" => \A d \in Client \ {c} : pc[d] = "gone"
  /\ \A k \in 1 .. Len(accepted) :
       accepted[k] = Terminate => k = Len(accepted) /\ \A c \in Client : Ending(c)

\* The worker flushes before it follows the request.
BeforeTheEnd == {"start", "dequeue", "dequeue_seq", "dequeue_cas", "dequeue_take", "dequeued", "empty"}

EndInv ==
  /\ terminate_requested => \E k \in 1 .. Len(popped) : popped[k] = Terminate
  /\ pc[Worker] \in BeforeTheEnd /\ terminate_requested => flush_requested
  /\ pc[Worker] \in {"teardown", "ended"} =>
       terminate_requested /\ \A s \in Sink : flushed[s] = Len(logged[s])

LEMMA HistoryInit == Init => HistoryInv
<1> SUFFICES ASSUME Init PROVE HistoryInv
  OBVIOUS
<1>1. accepted = <<>> /\ popped = <<>> /\ enqueue_pos = 0 /\ dequeue_pos = 0 /\ pc[Worker] = "start"
  BY ThreadType DEF Init, QueueInit
<1> QED BY <1>1 DEF HistoryInv, Oldest, At

\* What a step is to the history.
LEMMA StepKinds ==
  ASSUME IInv, [Next]_vars
  PROVE  \/ UNCHANGED vars
         \/ \E t \in Thread : /\ Quiet(t) /\ UNCHANGED accepted
                              /\ pc'[Worker] = "dequeued" => t # Worker
         \/ \E c \in Client : /\ EnqueueCas(c) /\ UNCHANGED popped
                              /\ accepted' = IF pc'[c] = "enqueue_store"
                                             THEN Append(accepted, item[c]) ELSE accepted
         \/ \E c \in Client : EnqueueStore(c) /\ UNCHANGED <<popped, accepted>>
         \/ DequeueCas /\ UNCHANGED <<popped, accepted>>
         \/ DequeueTake /\ popped' = Append(popped, item'[Worker]) /\ UNCHANGED accepted
<1> USE ThreadType
<1>1. ASSUME NEW c \in Client, LogOrFlush(c) \/ Release(c) \/ ClientStep(c), ~Try(c)
      PROVE  Quiet(c) /\ UNCHANGED accepted
  <2>1. UNCHANGED accepted
    BY <1>1 DEF LogOrFlush, Call, Release, ClientStep, ThrowIfBadWorker, Throw, Full, Enqueued,
                Join, logVars
  <2> QED BY <1>1, <2>1, ClientIsQuiet DEF ClientStep
<1>2. ASSUME NEW c \in Client, Try(c), EnqueueLoad(c) \/ EnqueueSeq(c)
      PROVE  Quiet(c) /\ UNCHANGED accepted
  BY <1>2, ClientIsQuiet DEF Try, Quiet
<1>3. ASSUME NEW c \in Client, Try(c), EnqueueStore(c)
      PROVE  UNCHANGED <<popped, accepted>>
  <2>1. pc'[c] = "enqueued"
    BY <1>3 DEF EnqueueStore, Goto, IInv, Shape
  <2> QED BY <1>3, <2>1 DEF Try
<1>4. ASSUME WorkerStep, ~DequeueTake, ~DequeueCas
      PROVE  Quiet(Worker) /\ UNCHANGED accepted /\ pc'[Worker] # "dequeued"
  <2>1. UNCHANGED <<popped, accepted>>
    BY <1>4, PoppedBy DEF WorkerStep, Warmup, Teardown, Callback, Pop, ProcessMessage, EmptyQueue, Next
  <2>2. \E l \in {"dequeue", "teardown", "ended", "failed", "dequeue_seq", "dequeue_cas", "empty"} :
          pc' = [pc EXCEPT ![Worker] = l]
    BY <1>4 DEF WorkerStep, Warmup, Teardown, Callback, Fail, Pop, Dequeue, ProcessMessage, EmptyQueue,
                DequeueLoad, DequeueSeq, Goto
  <2>3. pc'[Worker] # "dequeued"
    BY <2>2 DEF IInv, Shape
  <2> QED BY <1>4, <2>1, <2>3, WorkerIsQuiet DEF WorkerStep, Pop, Dequeue
<1>5. ASSUME WorkerStep, DequeueTake
      PROVE  popped' = Append(popped, item'[Worker]) /\ UNCHANGED accepted
  <2>1. pc[Worker] = "dequeue_take" /\ pc'[Worker] = "dequeued"
    BY <1>5 DEF DequeueTake, At, Goto, IInv, Shape
  <2> QED BY <1>5, <2>1 DEF WorkerStep, Warmup, Teardown, Callback, Pop, ProcessMessage, EmptyQueue, At
<1>6. ASSUME WorkerStep, DequeueCas
      PROVE  UNCHANGED <<popped, accepted>>
  <2>1. pc[Worker] = "dequeue_cas" /\ pc'[Worker] = "dequeue_take"
    BY <1>6 DEF DequeueCas, At, Goto, IInv, Shape
  <2> QED BY <1>6, <2>1 DEF WorkerStep, Warmup, Teardown, Callback, Pop, ProcessMessage, EmptyQueue, At
<1>7. ASSUME NEW c \in Client, LogOrFlush(c) \/ Release(c) \/ ClientStep(c)
      PROVE  \/ Quiet(c) /\ UNCHANGED accepted
             \/ /\ EnqueueCas(c) /\ UNCHANGED popped
                /\ accepted' = IF pc'[c] = "enqueue_store" THEN Append(accepted, item[c]) ELSE accepted
             \/ EnqueueStore(c) /\ UNCHANGED <<popped, accepted>>
  BY <1>1, <1>2, <1>3, <1>7 DEF Try, Enqueue
<1> QED BY <1>4, <1>5, <1>6, <1>7 DEF Next

\* A position that is won is that of the item its client is about to store.
LEMMA CasHistory ==
  ASSUME IInv, HistoryInv, NEW c \in Client, EnqueueCas(c), UNCHANGED popped,
         accepted' = IF pc'[c] = "enqueue_store" THEN Append(accepted, item[c]) ELSE accepted
  PROVE  HistoryInv'
<1> USE ThreadType
<1>1. /\ pc[c] = "enqueue_cas" /\ pos[c] \in Nat /\ item[c] \in Item
      /\ enqueue_pos \in Nat /\ dequeue_pos \in Nat /\ Oldest \in Nat /\ Oldest <= enqueue_pos
      /\ UNCHANGED <<sequence, data, dequeue_pos, item, popped>>
  BY DEF EnqueueCas, At, IInv, Shape, Calling, CellInv
<1>2. PICK l \in {"enqueue_seq", "enqueue_store"} : pc' = [pc EXCEPT ![c] = l]
  BY DEF EnqueueCas, Goto
<1>3. pc'[c] = l /\ \A t \in Thread \ {c} : pc'[t] = pc[t]
  BY <1>2 DEF IInv, Shape
<1>4. Oldest' = Oldest
  BY <1>1, <1>3 DEF Oldest, At
<1>5. CASE enqueue_pos # pos[c]
  <2>1. /\ l = "enqueue_seq" /\ pos' = [pos EXCEPT ![c] = enqueue_pos] /\ UNCHANGED enqueue_pos
    BY <1>2, <1>3, <1>5 DEF EnqueueCas, Goto, IInv, Shape
  <2>2. \A t \in Thread \ {c} : pos'[t] = pos[t]
    BY <2>1 DEF IInv, Shape
  <2>3. Quiet(c) /\ UNCHANGED accepted
    BY <1>1, <1>3, <2>1, <2>2 DEF Quiet
  <2>4. \A p \in Nat : \A i : Holds(p, i) => Holds(p, i)'
    BY <2>3, QuietHolds
  <2> QED BY <1>1, <1>3, <1>4, <2>1, <2>3, <2>4 DEF HistoryInv, At
<1>6. CASE enqueue_pos = pos[c]
  <2>1. l = "enqueue_store" /\ UNCHANGED pos /\ enqueue_pos' = enqueue_pos + 1
    BY <1>2, <1>3, <1>6 DEF EnqueueCas, Goto, IInv, Shape
  <2>2. PICK e \in Nat : e = enqueue_pos /\ enqueue_pos' = e + 1
    BY <1>1, <2>1
  <2>3. accepted' = Append(accepted, item[c])
    BY <1>3, <2>1
  <2>4. /\ accepted' \in Seq(Item) /\ Len(accepted') = e + 1
        /\ \A k \in 1 .. e : accepted'[k] = accepted[k]
        /\ accepted'[e + 1] = item[c]
    <3>1. accepted \in Seq(Item) /\ Len(accepted) = e
      BY <2>2 DEF HistoryInv
    <3>2. PICK i \in Item : i = item[c]
      BY <1>1
    <3>3. /\ Append(accepted, i) \in Seq(Item) /\ Len(Append(accepted, i)) = e + 1
          /\ \A k \in 1 .. e : Append(accepted, i)[k] = accepted[k]
          /\ Append(accepted, i)[e + 1] = i
      BY <3>1, AppendProperties
    <3> QED BY <2>3, <3>2, <3>3
  <2>5. \A p \in Nat : Won(p)' <=> Won(p) \/ p = e
    BY <1>1, <1>3, <1>6, <2>1, <2>2 DEF Won, At
  <2>6. \A p \in Nat : p # e => \A j : Holds(p, j) => Holds(p, j)'
    BY <1>1, <1>3, <2>1, <2>5 DEF Holds, At
  <2>7. \A i : i = item[c] => Holds(e, i)'
    BY <1>1, <1>3, <1>6, <2>1, <2>2 DEF Holds, At
  <2>8. ASSUME NEW p \in Nat, Oldest <= p, p < e + 1
        PROVE  Holds(p, accepted[p + 1])'
    <3>1. CASE p = e
      <4>1. PICK i : i = accepted'[p + 1] /\ i = item[c]
        BY <3>1, <2>4
      <4>2. Holds(e, i)'
        BY <4>1, <2>7
      <4> QED BY <3>1, <4>1, <4>2 DEF Holds
    <3>2. CASE p # e
      <4>1. p < enqueue_pos /\ p + 1 \in 1 .. e
        BY <3>2, <2>2, <2>8
      <4>2. PICK i : i = accepted[p + 1]
        OBVIOUS
      <4>3. Holds(p, i) /\ accepted'[p + 1] = i
        BY <4>1, <4>2, <2>4, <2>8 DEF HistoryInv
      <4>4. Holds(p, i)'
        BY <3>2, <4>3, <2>6
      <4> QED BY <4>3, <4>4 DEF Holds
    <3> QED BY <3>1, <3>2
  <2>9. Len(popped) \in Nat /\ Len(popped) <= e
    BY <1>1, <2>2 DEF HistoryInv
  <2> QED BY <1>1, <1>3, <1>4, <2>2, <2>4, <2>8, <2>9 DEF HistoryInv, At
<1> QED BY <1>5, <1>6

\* What the worker takes is what was accepted at that position.
LEMMA TakeHistory ==
  ASSUME IInv, HistoryInv, DequeueTake, popped' = Append(popped, item'[Worker]), UNCHANGED accepted
  PROVE  HistoryInv'
<1> USE ThreadType
<1> PICK o \in Nat : o = Oldest
  BY DEF IInv, CellInv
<1>1. /\ pc[Worker] = "dequeue_take" /\ pc' = [pc EXCEPT ![Worker] = "dequeued"]
      /\ pos[Worker] = o /\ o + 1 = dequeue_pos /\ dequeue_pos \in Nat /\ enqueue_pos \in Nat
      /\ item' = [item EXCEPT ![Worker] = data[Mask(o)]]
      /\ data' = [data EXCEPT ![Mask(o)] = NoItem]
      /\ UNCHANGED <<enqueue_pos, dequeue_pos, pos>>
      /\ ~Won(o) /\ o < enqueue_pos /\ enqueue_pos <= o + Size
  BY DEF DequeueTake, At, Goto, IInv, Shape, WorkerInv, CellInv, Oldest, Filled
<1>2. pc'[Worker] = "dequeued" /\ \A t \in Thread \ {Worker} : pc'[t] = pc[t]
  BY <1>1 DEF IInv, Shape
<1>3. item'[Worker] = data[Mask(o)] /\ \A c \in Client : item'[c] = item[c]
  BY <1>1 DEF IInv, Shape
<1>4. data[Mask(o)] = accepted[o + 1]
  BY <1>1 DEF HistoryInv, Holds, Won
<1>5. accepted[o + 1] \in Item
  BY <1>1, ElementOfSeq DEF HistoryInv
<1>6. /\ popped' \in Seq(Item) /\ Len(popped') = o + 1
      /\ \A k \in 1 .. o : popped'[k] = popped[k]
      /\ popped'[o + 1] = accepted[o + 1]
  BY <1>3, <1>4, <1>5, AppendProperties DEF HistoryInv
<1>7. Oldest' = o + 1
  BY <1>1, <1>2 DEF Oldest, At
<1>8. ASSUME NEW p \in Nat, o + 1 <= p, p < enqueue_pos, NEW i, Holds(p, i)
      PROVE  Holds(p, i)'
  <2>1. Mask(p) # Mask(o)
    BY <1>1, <1>8, SizeType, CellsInUse DEF IInv
  <2>2. data'[Mask(p)] = data[Mask(p)]
    BY <1>1, <2>1, MaskType DEF IInv, Shape
  <2> QED BY <1>1, <1>2, <1>3, <1>8, <2>2 DEF Holds, Won, At
<1>9. \A p \in Nat : Oldest' <= p /\ p < enqueue_pos => Holds(p, accepted[p + 1])'
  <2> SUFFICES ASSUME NEW p \in Nat, o + 1 <= p, p < enqueue_pos PROVE Holds(p, accepted[p + 1])'
    BY <1>7
  <2>1. Holds(p, accepted[p + 1])
    BY DEF HistoryInv
  <2> QED BY <2>1, <1>8
<1>10. \A k \in 1 .. o + 1 : popped'[k] = accepted[k]
  BY <1>6 DEF HistoryInv
<1> QED BY <1>1, <1>2, <1>3, <1>4, <1>6, <1>7, <1>9, <1>10 DEF HistoryInv, At

LEMMA HistoryKeeps ==
  ASSUME IInv, HistoryInv, [Next]_vars
  PROVE  HistoryInv'
<1> USE ThreadType
<1>1. CASE UNCHANGED vars
  BY <1>1 DEF vars, queueVars, logVars, HistoryInv, Oldest, Holds, Won, At
<1>2. ASSUME NEW t \in Thread, Quiet(t), UNCHANGED accepted, pc'[Worker] = "dequeued" => t # Worker
      PROVE  HistoryInv'
  <2>1. Oldest' = Oldest
    BY <1>2 DEF Quiet, Oldest, At
  <2>2. \A p \in Nat : \A i : Holds(p, i) => Holds(p, i)'
    BY <1>2, QuietHolds
  <2>3. pc'[Worker] = "dequeued" => pc[Worker] = "dequeued" /\ item'[Worker] = item[Worker]
    BY <1>2 DEF Quiet
  <2> QED BY <1>2, <2>1, <2>2, <2>3 DEF HistoryInv, Quiet, At
<1>3. ASSUME NEW c \in Client, EnqueueStore(c), UNCHANGED <<popped, accepted>>
      PROVE  HistoryInv'
  <2>1. /\ pc' = [pc EXCEPT ![c] = "enqueued"] /\ pc[c] = "enqueue_store"
        /\ UNCHANGED <<enqueue_pos, dequeue_pos, item>>
    BY <1>3 DEF EnqueueStore, At, Goto
  <2>2. pc'[Worker] = pc[Worker]
    BY <2>1 DEF IInv, Shape
  <2>3. Oldest' = Oldest
    BY <2>1, <2>2 DEF Oldest, At
  <2>4. \A p \in Nat : Oldest <= p /\ p < enqueue_pos => Holds(p, accepted[p + 1])'
    BY <1>3, StoreHolds DEF HistoryInv
  <2> QED BY <1>3, <2>1, <2>2, <2>3, <2>4 DEF HistoryInv, At
<1>4. ASSUME DequeueCas, UNCHANGED <<popped, accepted>>
      PROVE  HistoryInv'
  <2>1. /\ pc[Worker] = "dequeue_cas" /\ pc' = [pc EXCEPT ![Worker] = "dequeue_take"]
        /\ UNCHANGED <<sequence, data, enqueue_pos, pos, item>>
        /\ pos[Worker] = dequeue_pos /\ dequeue_pos \in Nat /\ dequeue_pos' = dequeue_pos + 1
    BY <1>4 DEF DequeueCas, At, Goto, IInv, Shape, WorkerInv
  <2>2. pc'[Worker] = "dequeue_take" /\ \A t \in Thread \ {Worker} : pc'[t] = pc[t]
    BY <2>1 DEF IInv, Shape
  <2>3. Oldest' = Oldest
    BY <2>1, <2>2 DEF Oldest, At
  <2>4. \A p \in Nat : \A i : Holds(p, i) => Holds(p, i)'
    BY <2>1, <2>2 DEF Holds, Won, At
  <2> QED BY <1>4, <2>1, <2>2, <2>3, <2>4 DEF HistoryInv, At
<1> QED BY <1>1, <1>2, <1>3, <1>4, CasHistory, TakeHistory, StepKinds
-----------------------------------------------------------------------------
LEMMA NoMessages ==
  ASSUME NEW q
  PROVE  AreMessages(<<>>, 0, q)
<1> DEFINE place == [k \in 1 .. 0 |-> k]
<1>1. place \in [1 .. Len(<<>>) -> 1 .. 0] /\ {place[k] : k \in 1 .. Len(<<>>)} = {}
  OBVIOUS
<1>2. {p \in 1 .. 0 : q[p] \in Message} = {}
  OBVIOUS
<1> QED BY <1>1, <1>2 DEF AreMessages

LEMMA SameMessages ==
  ASSUME NEW t \in Seq(Message), NEW n \in Nat, NEW q, NEW r, \A k \in 1 .. n : r[k] = q[k],
         AreMessages(t, n, q)
  PROVE  AreMessages(t, n, r)
<1>1. PICK place \in [1 .. Len(t) -> 1 .. n] :
        /\ \A j, k \in 1 .. Len(t) : j < k => place[j] < place[k]
        /\ \A k \in 1 .. Len(t) : t[k] = q[place[k]]
        /\ {place[k] : k \in 1 .. Len(t)} = {p \in 1 .. n : q[p] \in Message}
  BY DEF AreMessages
<1>2. {p \in 1 .. n : q[p] \in Message} = {p \in 1 .. n : r[p] \in Message}
  OBVIOUS
<1>3. \A k \in 1 .. Len(t) : t[k] = r[place[k]]
  BY <1>1
<1>4. {place[k] : k \in 1 .. Len(t)} = {p \in 1 .. n : r[p] \in Message}
  BY <1>1, <1>2
<1> QED BY <1>1, <1>3, <1>4 DEF AreMessages

\* An item that is no message is not given to the sinks.
LEMMA NotAMessage ==
  ASSUME NEW t \in Seq(Message), NEW n \in Nat, NEW q, AreMessages(t, n, q), q[n + 1] \notin Message
  PROVE  AreMessages(t, n + 1, q)
<1>1. PICK place \in [1 .. Len(t) -> 1 .. n] :
        /\ \A j, k \in 1 .. Len(t) : j < k => place[j] < place[k]
        /\ \A k \in 1 .. Len(t) : t[k] = q[place[k]]
        /\ {place[k] : k \in 1 .. Len(t)} = {p \in 1 .. n : q[p] \in Message}
  BY DEF AreMessages
<1>2. {p \in 1 .. n : q[p] \in Message} = {p \in 1 .. n + 1 : q[p] \in Message}
  <2>1. \A p \in 1 .. n + 1 : q[p] \in Message => p \in 1 .. n
    <3> SUFFICES ASSUME NEW p \in 1 .. n + 1, q[p] \in Message, p \notin 1 .. n PROVE FALSE
      OBVIOUS
    <3>1. p = n + 1
      OBVIOUS
    <3> QED BY <3>1
  <2> QED BY <2>1
<1>3. place \in [1 .. Len(t) -> 1 .. n + 1]
  OBVIOUS
<1>4. {place[k] : k \in 1 .. Len(t)} = {p \in 1 .. n + 1 : q[p] \in Message}
  BY <1>1, <1>2
<1> QED BY <1>1, <1>3, <1>4 DEF AreMessages

\* A message is added where the others end.
LEMMA NextMessage ==
  ASSUME NEW t \in Seq(Message), NEW n \in Nat, NEW q, AreMessages(t, n, q), q[n + 1] \in Message
  PROVE  AreMessages(Append(t, q[n + 1]), n + 1, q)
<1>1. PICK place \in [1 .. Len(t) -> 1 .. n] :
        /\ \A j, k \in 1 .. Len(t) : j < k => place[j] < place[k]
        /\ \A k \in 1 .. Len(t) : t[k] = q[place[k]]
        /\ {place[k] : k \in 1 .. Len(t)} = {p \in 1 .. n : q[p] \in Message}
  BY DEF AreMessages
<1>2. PICK l \in Nat : l = Len(t)
  OBVIOUS
<1>3. PICK m \in Message : m = q[n + 1]
  OBVIOUS
<1>4. PICK u \in Seq(Message) : /\ u = Append(t, m) /\ Len(u) = l + 1 /\ u[l + 1] = m
                                /\ \A k \in 1 .. l : u[k] = t[k]
  <2>1. /\ Append(t, m) \in Seq(Message) /\ Len(Append(t, m)) = l + 1 /\ Append(t, m)[l + 1] = m
        /\ \A k \in 1 .. l : Append(t, m)[k] = t[k]
    BY <1>2, AppendProperties
  <2> QED BY <2>1
<1> DEFINE next == [k \in 1 .. l + 1 |-> IF k = l + 1 THEN n + 1 ELSE place[k]]
<1>5. \A k \in 1 .. l + 1 : k = l + 1 \/ k \in 1 .. l
  OBVIOUS
<1>6. next[l + 1] = n + 1 /\ \A k \in 1 .. l : next[k] = place[k] /\ place[k] \in 1 .. n
  BY <1>1, <1>2
<1>7. next \in [1 .. l + 1 -> 1 .. n + 1]
  <2>1. ASSUME NEW k \in 1 .. l + 1
        PROVE  next[k] \in 1 .. n + 1
    <3> HIDE DEF next
    <3>1. CASE k = l + 1
      BY <3>1, <1>6
    <3>2. CASE k \in 1 .. l
      <4>1. next[k] \in 1 .. n
        BY <3>2, <1>6
      <4> QED BY <4>1
    <3> QED BY <3>1, <3>2, <1>5
  <2> QED BY <2>1
<1>8. \A j, k \in 1 .. l + 1 : j < k => next[j] < next[k]
  <2> SUFFICES ASSUME NEW j \in 1 .. l + 1, NEW k \in 1 .. l + 1, j < k PROVE next[j] < next[k]
    OBVIOUS
  <2>1. j \in 1 .. l
    OBVIOUS
  <2>2. next[j] = place[j] /\ place[j] \in 1 .. n
    BY <2>1, <1>6
  <2>3. CASE k = l + 1
    BY <2>2, <2>3, <1>6
  <2>4. CASE k \in 1 .. l
    BY <2>1, <2>2, <2>4, <1>1, <1>2, <1>6
  <2> QED BY <2>3, <2>4, <1>5
<1>9. \A k \in 1 .. l + 1 : u[k] = q[next[k]]
  <2> SUFFICES ASSUME NEW k \in 1 .. l + 1 PROVE u[k] = q[next[k]]
    OBVIOUS
  <2>1. CASE k = l + 1
    BY <2>1, <1>3, <1>4, <1>6
  <2>2. CASE k \in 1 .. l
    BY <2>2, <1>1, <1>2, <1>4, <1>6
  <2> QED BY <2>1, <2>2, <1>5
<1>10. {next[k] : k \in 1 .. l + 1} = {p \in 1 .. n + 1 : q[p] \in Message}
  <2>1. ASSUME NEW k \in 1 .. l + 1
        PROVE  next[k] \in 1 .. n + 1 /\ q[next[k]] \in Message
    <3>1. u[k] \in Message
      BY <1>4, ElementOfSeq
    <3> QED BY <3>1, <1>7, <1>9
  <2>2. ASSUME NEW p \in 1 .. n + 1, q[p] \in Message
        PROVE  \E k \in 1 .. l + 1 : next[k] = p
    <3>1. CASE p = n + 1
      BY <3>1, <1>6
    <3>2. CASE p # n + 1
      <4>1. p \in {x \in 1 .. n : q[x] \in Message}
        BY <2>2, <3>2
      <4>2. PICK k \in 1 .. l : place[k] = p
        BY <4>1, <1>1, <1>2
      <4> QED BY <4>2, <1>6
    <3> QED BY <3>1, <3>2
  <2> HIDE DEF next
  <2> QED BY <2>1, <2>2
<1> HIDE DEF next
<1>11. AreMessages(u, n + 1, q)
  <2>1. Len(u) = l + 1
    BY <1>4
  <2>2. next \in [1 .. Len(u) -> 1 .. n + 1]
    BY <2>1, <1>7
  <2>3. {next[k] : k \in 1 .. Len(u)} = {p \in 1 .. n + 1 : q[p] \in Message}
    BY <2>1, <1>10
  <2>4. /\ \A j, k \in 1 .. Len(u) : j < k => next[j] < next[k]
        /\ \A k \in 1 .. Len(u) : u[k] = q[next[k]]
    BY <2>1, <1>8, <1>9
  <2> QED BY <2>2, <2>3, <2>4 DEF AreMessages
<1> QED BY <1>3, <1>4, <1>11
-----------------------------------------------------------------------------
LEMMA SinkInit == Init => SinkInv
<1> SUFFICES ASSUME Init PROVE SinkInv
  OBVIOUS
<1>1. popped = <<>> /\ Len(popped) = 0 /\ pc[Worker] = "start"
  BY ThreadType DEF Init
<1>2. ASSUME NEW s \in Sink
      PROVE  /\ logged[s] \in Seq(Message)
             /\ pc[Worker] # "dequeued" /\ AreMessages(logged[s], Len(popped), accepted)
             /\ Len(popped) \in 0 .. Len(popped)
  <2>1. logged[s] = <<>> /\ AreMessages(logged[s], 0, accepted)
    BY NoMessages DEF Init
  <2> QED BY <1>1, <2>1
<1> QED BY <1>2 DEF SinkInv, At

\* What has been taken out stays what it was.
LEMMA AcceptedGrows ==
  ASSUME IInv, HistoryInv, NEW i \in Item, accepted' = accepted \/ accepted' = Append(accepted, i)
  PROVE  \A k \in 1 .. Len(popped) : accepted'[k] = accepted[k]
<1>1. Len(popped) <= Len(accepted) /\ Len(popped) \in Nat /\ Len(accepted) \in Nat
  BY DEF IInv, CellInv, HistoryInv
<1>2. accepted \in Seq(Item)
  BY DEF HistoryInv
<1>3. \A k \in 1 .. Len(accepted) : Append(accepted, i)[k] = accepted[k]
  BY <1>2, AppendProperties
<1> QED BY <1>1, <1>3

LEMMA ProcessSinks ==
  ASSUME IInv, HistoryInv, SinkInv, ProcessMessage
  PROVE  SinkInv'
<1> USE ThreadType
<1>1. PICK n \in Nat : n + 1 = Len(popped)
  <2>1. Len(popped) \in Nat /\ Len(popped) > 0
    BY DEF ProcessMessage, HistoryInv
  <2>2. Len(popped) - 1 \in Nat /\ (Len(popped) - 1) + 1 = Len(popped)
    BY <2>1
  <2> QED BY <2>2
<1>2. /\ pc[Worker] = "dequeued" /\ UNCHANGED <<popped, accepted>>
      /\ popped[n + 1] = item[Worker] /\ n + 1 \in 1 .. Len(popped)
  BY <1>1 DEF ProcessMessage, At, HistoryInv
<1>3. accepted[n + 1] = item[Worker]
  BY <1>2 DEF HistoryInv
<1> SUFFICES ASSUME NEW s \in Sink
             PROVE  /\ logged'[s] \in Seq(Message)
                    /\ pc'[Worker] # "dequeued"
                    /\ pc'[Worker] # "failed" => AreMessages(logged'[s], n + 1, accepted)
                    /\ AreMessages(logged'[s], n, accepted) \/ AreMessages(logged'[s], n + 1, accepted)
  <2>1. ASSUME NEW s \in Sink, NEW k \in Nat
        PROVE  AreMessages(logged'[s], k, accepted) => AreMessages(logged[s], k, accepted)'
    BY <1>2 DEF AreMessages
  <2>2. Len(popped)' = n + 1 /\ n \in 0 .. n + 1 /\ n + 1 \in 0 .. n + 1 /\ n + 1 \in Nat
    BY <1>1, <1>2
  <2> QED BY <2>1, <2>2 DEF SinkInv, At
<1>4. logged[s] \in Seq(Message) /\ AreMessages(logged[s], n, accepted)
  BY <1>1, <1>2 DEF SinkInv, At
<1>5. CASE item[Worker] \in Message
  <2>1. PICK m \in Message : m = item[Worker]
    BY <1>5
  <2>2. /\ Append(logged[s], m) \in Seq(Message)
        /\ AreMessages(Append(logged[s], m), n + 1, accepted)
    BY <1>3, <1>4, <2>1, NextMessage, AppendProperties
  <2>3. CASE ToSinks(m, NumSinks) /\ Goto(Worker, "dequeue")
    <3>1. pc'[Worker] = "dequeue"
      BY <2>3 DEF Goto, IInv, Shape
    <3>2. logged'[s] = Append(logged[s], m)
      BY <2>3, AsyncAssumption DEF ToSinks, Sink
    <3> QED BY <2>2, <3>1, <3>2
  <2>4. CASE Fail /\ \E k \in 0 .. NumSinks - 1 : ToSinks(m, k)
    <3>1. pc'[Worker] = "failed"
      BY <2>4 DEF Fail, Goto, IInv, Shape
    <3>2. logged'[s] = Append(logged[s], m) \/ logged'[s] = logged[s]
      BY <2>4 DEF ToSinks
    <3> QED BY <1>4, <2>2, <3>1, <3>2
  <2> QED BY <2>1, <2>3, <2>4, <1>5 DEF ProcessMessage
<1>6. CASE item[Worker] \notin Message
  <2>1. logged' = logged /\ Goto(Worker, "dequeue")
    BY <1>6 DEF ProcessMessage
  <2>2. pc'[Worker] = "dequeue"
    BY <2>1 DEF Goto, IInv, Shape
  <2>3. AreMessages(logged[s], n + 1, accepted)
    BY <1>3, <1>4, <1>6, NotAMessage
  <2> QED BY <1>4, <2>1, <2>2, <2>3
<1> QED BY <1>5, <1>6

\* What a step of the worker is to the sinks, if it does not give them anything.
LEMMA OtherWorkerSteps ==
  ASSUME IInv, WorkerStep, ~ProcessMessage
  PROVE  /\ UNCHANGED <<logged, accepted>>
         /\ pc[Worker] \notin {"dequeued", "ended", "failed"}
         /\ \/ popped' = popped /\ pc'[Worker] # "dequeued"
            \/ popped' = Append(popped, item'[Worker]) /\ pc'[Worker] = "dequeued"
<1> USE ThreadType
<1>1. UNCHANGED <<logged, accepted>>
  BY DEF WorkerStep, Warmup, Teardown, Callback, Pop, EmptyQueue
<1>2. pc[Worker] \notin {"dequeued", "ended", "failed"}
  BY DEF WorkerStep, Warmup, Teardown, Callback, Pop, EmptyQueue, At, Dequeue, DequeueLoad,
         DequeueSeq, DequeueCas, DequeueTake
<1>3. CASE Pop
  BY <1>1, <1>2, <1>3 DEF Pop
<1>4. CASE Warmup \/ Teardown \/ EmptyQueue
  <2>1. popped' = popped
    BY <1>4 DEF Warmup, Teardown, Callback, EmptyQueue
  <2>2. \E l \in {"dequeue", "teardown", "ended", "failed"} : pc' = [pc EXCEPT ![Worker] = l]
    BY <1>4 DEF Warmup, Teardown, Callback, EmptyQueue, Fail, Goto
  <2>3. pc'[Worker] # "dequeued"
    BY <2>2 DEF IInv, Shape
  <2> QED BY <1>1, <1>2, <2>1, <2>3
<1> QED BY <1>3, <1>4 DEF WorkerStep

\* What a step of a client is to the others, and to the request to end.
LEMMA ClientMoves ==
  ASSUME IInv, NEW c \in Client, LogOrFlush(c) \/ Release(c) \/ ClientStep(c)
  PROVE  /\ \A t \in Thread \ {c} : pc'[t] = pc[t] /\ item'[t] = item[t]
         /\ UNCHANGED <<popped, logged, flushed, flush_requested, terminate_requested>>
         /\ \/ UNCHANGED accepted
            \/ /\ accepted' = Append(accepted, item[c])
               /\ pc[c] = "enqueue_cas" /\ pc'[c] = "enqueue_store" /\ item[c] \in Item
         /\ pc[c] = "enqueue_cas" => item'[c] = item[c]
         /\ pc[c] # "gone"
         /\ pc[c] = "join" => pc'[c] = "gone"
         /\ pc[c] = "enqueue_store" => pc'[c] = "enqueued" /\ item'[c] = item[c]
         /\ pc[c] = "enqueued" /\ item[c] = Terminate => pc'[c] = "join"
         /\ item'[c] = Terminate \/ pc'[c] = "join" =>
              item[c] = Terminate \/ \A d \in Client \ {c} : pc[d] = "gone"
<1> USE ThreadType
<1>1. /\ pc \in [Thread -> Label] /\ item \in [Thread -> Item \cup {NoItem}]
      /\ Terminate \in Item /\ NoItem \notin Item /\ c \in Thread
      /\ calls \in [Client -> Nat]
      /\ pc[c] \in Calling => item[c] \in Item
  BY QueueAssumption, AsyncAssumption DEF IInv, Shape
<1>2. CASE LogOrFlush(c)
  <2>1. PICK i \in {<<c, calls[c] + 1>>, Flush} : Call(c, i)
    BY <1>2 DEF LogOrFlush
  <2>2. i # Terminate
    <3>1. calls[c] + 1 \in 1 .. MaxCalls[c]
      <4>1. calls[c] < MaxCalls[c] /\ calls[c] \in Nat /\ MaxCalls[c] \in Nat
        BY <1>1, <1>2, AsyncAssumption DEF LogOrFlush
      <4> QED BY <4>1
    <3>2. <<c, calls[c] + 1>> \in Message
      BY <3>1 DEF Message
    <3> QED BY <3>2, AsyncAssumption
  <2> QED BY <1>1, <1>2, <2>1, <2>2 DEF LogOrFlush, Call, Goto, At
<1>3. CASE Release(c)
  BY <1>1, <1>3 DEF Release, Call, Goto, At, queueVars, logVars
<1>4. CASE ThrowIfBadWorker(c) \/ Join(c)
  BY <1>1, <1>4 DEF ThrowIfBadWorker, Join, Goto, At, queueVars, logVars
<1>5. CASE Throw(c)
  BY <1>1, <1>5 DEF Throw, Goto, At, queueVars, logVars
<1>6. CASE Full(c)
  BY <1>1, <1>6 DEF Full, Return, Goto, At, queueVars, logVars
<1>7. CASE Enqueued(c)
  BY <1>1, <1>7 DEF Enqueued, Return, Goto, At, queueVars, logVars
<1>8. CASE Try(c)
  <2>1. CASE EnqueueCas(c)
    BY <1>1, <1>8, <2>1 DEF Try, EnqueueCas, Goto, At, queueVars, logVars, Calling
  <2>2. CASE EnqueueLoad(c) \/ EnqueueSeq(c)
    BY <1>1, <1>8, <2>2 DEF Try, EnqueueLoad, EnqueueSeq, Goto, At, queueVars, logVars
  <2>3. CASE EnqueueStore(c)
    BY <1>1, <1>8, <2>3 DEF Try, EnqueueStore, Goto, At, queueVars, logVars
  <2> QED BY <1>8, <2>1, <2>2, <2>3 DEF Try, Enqueue
<1> QED BY <1>2, <1>3, <1>4, <1>5, <1>6, <1>7, <1>8 DEF ClientStep

LEMMA SinkKeeps ==
  ASSUME IInv, HistoryInv, SinkInv, [Next]_vars
  PROVE  SinkInv'
<1> USE ThreadType
<1>1. Len(popped) \in Nat
  BY DEF HistoryInv
<1>2. ASSUME UNCHANGED <<logged, popped>>, \A k \in 1 .. Len(popped) : accepted'[k] = accepted[k],
             \/ pc'[Worker] = pc[Worker]
             \/ pc[Worker] \notin {"dequeued", "failed"} /\ pc'[Worker] # "dequeued"
      PROVE  SinkInv'
  <2> SUFFICES ASSUME NEW s \in Sink, NEW n \in 0 .. Len(popped), AreMessages(logged[s], n, accepted),
                      logged[s] \in Seq(Message)
               PROVE  AreMessages(logged[s], n, accepted)'
    <3>1. At(Worker, "dequeued") => Len(popped) - 1 \in 0 .. Len(popped)
      BY <1>1 DEF HistoryInv
    <3>2. Len(popped) \in 0 .. Len(popped) /\ Len(popped)' = Len(popped)
      BY <1>1, <1>2
    <3> QED BY <1>2, <3>1, <3>2 DEF SinkInv, At
  <2>1. \A k \in 1 .. n : accepted'[k] = accepted[k]
    BY <1>1, <1>2
  <2>2. AreMessages(logged[s], n, accepted')
    BY <2>1, <1>1, SameMessages
  <2> QED BY <2>2, <1>2 DEF AreMessages
<1>3. CASE UNCHANGED vars
  BY <1>2, <1>3 DEF vars, queueVars, logVars
<1>4. ASSUME NEW c \in Client, LogOrFlush(c) \/ Release(c) \/ ClientStep(c)
      PROVE  SinkInv'
  <2>1. UNCHANGED <<logged, popped>> /\ pc'[Worker] = pc[Worker]
    BY <1>4, ClientMoves
  <2>2. \E i \in Item : accepted' = accepted \/ accepted' = Append(accepted, i)
    BY <1>4, ClientMoves, AsyncAssumption
  <2>3. \A k \in 1 .. Len(popped) : accepted'[k] = accepted[k]
    BY <2>2, AcceptedGrows
  <2> QED BY <1>2, <2>1, <2>3
<1>5. CASE WorkerStep /\ ~ProcessMessage
  <2>1. /\ UNCHANGED <<logged, accepted>>
        /\ pc[Worker] \notin {"dequeued", "ended", "failed"}
        /\ \/ popped' = popped /\ pc'[Worker] # "dequeued"
           \/ popped' = Append(popped, item'[Worker]) /\ pc'[Worker] = "dequeued"
    BY <1>5, OtherWorkerSteps
  <2>2. CASE popped' = popped /\ pc'[Worker] # "dequeued"
    BY <1>2, <2>1, <2>2
  <2>3. CASE popped' = Append(popped, item'[Worker]) /\ pc'[Worker] = "dequeued"
    <3>1. Len(popped') = Len(popped) + 1
      BY <2>3, AppendProperties DEF HistoryInv
    <3> SUFFICES ASSUME NEW s \in Sink
                 PROVE  /\ logged[s] \in Seq(Message)
                        /\ AreMessages(logged[s], Len(popped), accepted)
      <4>1. PICK n \in Nat : n = Len(popped)
        BY <1>1
      <4>2. Len(popped') - 1 = n /\ n \in 0 .. Len(popped') /\ Len(popped)' - 1 = n
        BY <3>1, <4>1
      <4>3. ASSUME NEW s \in Sink
            PROVE  AreMessages(logged[s], n, accepted) => AreMessages(logged[s], n, accepted)'
        <5>1. logged' = logged /\ accepted' = accepted
          BY <2>1
        <5> QED BY <5>1 DEF AreMessages
      <4> QED BY <2>1, <2>3, <4>1, <4>2, <4>3 DEF SinkInv, At
    <3> QED BY <2>1 DEF SinkInv
  <2> QED BY <2>1, <2>2, <2>3
<1>6. CASE ProcessMessage
  BY <1>6, ProcessSinks
<1> QED BY <1>3, <1>4, <1>5, <1>6 DEF Next

LEMMA RequestKeeps ==
  ASSUME IInv, HistoryInv, RequestInv, [Next]_vars
  PROVE  RequestInv'
<1> USE ThreadType
<1>1. CASE UNCHANGED vars
  BY <1>1 DEF vars, queueVars, logVars, RequestInv, Ending
<1>2. CASE WorkerStep
  <2>1. UNCHANGED accepted /\ \A c \in Client : pc'[c] = pc[c] /\ item'[c] = item[c]
    <3>1. UNCHANGED accepted
      BY <1>2 DEF WorkerStep, Warmup, Teardown, Callback, Pop, EmptyQueue, ProcessMessage
    <3>2. \E l : pc' = [pc EXCEPT ![Worker] = l]
      BY <1>2 DEF WorkerStep, Warmup, Teardown, Callback, Pop, EmptyQueue, ProcessMessage, Fail, Goto,
                  Dequeue, DequeueLoad, DequeueSeq, DequeueCas, DequeueTake
    <3>3. item' = item \/ \E i : item' = [item EXCEPT ![Worker] = i]
      BY <1>2 DEF WorkerStep, Warmup, Teardown, Callback, Pop, EmptyQueue, ProcessMessage, queueVars,
                  Dequeue, DequeueLoad, DequeueSeq, DequeueCas, DequeueTake
    <3> QED BY <3>1, <3>2, <3>3 DEF IInv, Shape
  <2> QED BY <2>1 DEF RequestInv, Ending
<1>3. ASSUME NEW c \in Client, LogOrFlush(c) \/ Release(c) \/ ClientStep(c)
      PROVE  RequestInv'
  <2>1. /\ \A d \in Client \ {c} : pc'[d] = pc[d] /\ item'[d] = item[d]
        /\ pc[c] # "gone"
        /\ item'[c] = Terminate \/ pc'[c] = "join" =>
             item[c] = Terminate \/ \A d \in Client \ {c} : pc[d] = "gone"
    BY <1>3, ClientMoves
  <2>7. /\ pc[c] = "join" => pc'[c] = "gone"
        /\ pc[c] = "enqueue_store" => pc'[c] = "enqueued" /\ item'[c] = item[c]
        /\ pc[c] = "enqueued" /\ item[c] = Terminate => pc'[c] = "join"
    BY <1>3, ClientMoves
  <2>8. ASSUME NEW d \in Client, d # c
        PROVE  pc'[d] = pc[d] /\ item'[d] = item[d]
    BY <2>1, <2>8
  <2>2. \A d \in Client : item'[d] = Terminate \/ pc'[d] = "join" =>
          \A e \in Client \ {d} : pc'[e] = "gone"
    <3> SUFFICES ASSUME NEW d \in Client, item'[d] = Terminate \/ pc'[d] = "join", NEW e \in Client \ {d}
                 PROVE  pc'[e] = "gone"
      OBVIOUS
    <3>1. pc[e] = "gone"
      BY <2>1 DEF RequestInv
    <3> QED BY <2>1, <3>1
  <2>3. ASSUME NEW d \in Client, Ending(d)
        PROVE  Ending(d)'
    <3>1. CASE d = c
      <4>1. Ending(c)
        BY <2>3, <3>1 DEF Ending
      <4>2. pc'[c] \in {"gone", "join"} \/ (pc'[c] = "enqueued" /\ item'[c] = Terminate)
        <5>1. pc[c] = "join" \/ (pc[c] \in {"enqueue_store", "enqueued"} /\ item[c] = Terminate)
          BY <2>1, <4>1 DEF Ending
        <5> QED BY <2>7, <5>1
      <4> QED BY <3>1, <4>2 DEF Ending
    <3>2. CASE d # c
      BY <2>3, <2>8, <3>2 DEF Ending
    <3> QED BY <3>1, <3>2
  <2>4. CASE UNCHANGED accepted
    BY <2>2, <2>3, <2>4 DEF RequestInv
  <2>5. CASE /\ accepted' = Append(accepted, item[c])
             /\ pc[c] = "enqueue_cas" /\ pc'[c] = "enqueue_store" /\ item[c] \in Item
    <3>1. ~Ending(c)
      BY <2>5 DEF Ending
    <3>2. \A k \in 1 .. Len(accepted) : accepted[k] # Terminate
      BY <3>1 DEF RequestInv
    <3>3. PICK i \in Item : i = item[c]
      BY <2>5
    <3>4. /\ Len(accepted) \in Nat /\ Len(Append(accepted, i)) = Len(accepted) + 1
          /\ \A k \in 1 .. Len(accepted) : Append(accepted, i)[k] = accepted[k]
          /\ Append(accepted, i)[Len(accepted) + 1] = i
      BY AppendProperties DEF HistoryInv
    <3>5. ASSUME NEW k \in 1 .. Len(accepted'), accepted'[k] = Terminate
          PROVE  k = Len(accepted') /\ \A d \in Client : Ending(d)'
      <4>1. k = Len(accepted) + 1 /\ i = Terminate
        BY <2>5, <3>2, <3>3, <3>4, <3>5
      <4>2. item[c] = Terminate
        BY <3>3, <4>1
      <4>3. \A d \in Client \ {c} : pc[d] = "gone"
        BY <4>2 DEF RequestInv
      <4>4. item'[c] = item[c]
        BY <1>3, <2>5, ClientMoves
      <4>5. Ending(c)'
        BY <2>5, <4>2, <4>4 DEF Ending
      <4>6. ASSUME NEW d \in Client, d # c
            PROVE  Ending(d)'
        <5>1. pc[d] = "gone" /\ pc'[d] = pc[d]
          BY <2>8, <4>3, <4>6
        <5> QED BY <5>1 DEF Ending
      <4>7. k = Len(accepted')
        BY <2>5, <3>3, <3>4, <4>1
      <4> QED BY <4>5, <4>6, <4>7
    <3> QED BY <2>2, <3>5 DEF RequestInv
  <2>6. \/ UNCHANGED accepted
        \/ /\ accepted' = Append(accepted, item[c])
           /\ pc[c] = "enqueue_cas" /\ pc'[c] = "enqueue_store" /\ item[c] \in Item
    BY <1>3, ClientMoves
  <2> QED BY <2>4, <2>5, <2>6
<1> QED BY <1>1, <1>2, <1>3 DEF Next

LEMMA TakenIsItem ==
  ASSUME IInv, HistoryInv, Pop
  PROVE  popped' = popped \/ \E i \in Item : popped' = Append(popped, i)
<1> USE ThreadType
<1>1. CASE DequeueTake
  <2>1. popped' = Append(popped, item'[Worker])
    BY <1>1 DEF Pop, DequeueTake, Goto, IInv, Shape
  <2>2. UNCHANGED accepted
    BY DEF Pop
  <2>3. HistoryInv'
    BY <1>1, <2>1, <2>2, TakeHistory
  <2>4. pc'[Worker] = "dequeued"
    BY <1>1 DEF DequeueTake, Goto, IInv, Shape
  <2>5. Len(popped)' > 0 /\ item'[Worker] = popped'[Len(popped')] /\ popped' \in Seq(Item)
    BY <2>3, <2>4 DEF HistoryInv, At
  <2>6. item'[Worker] \in Item
    BY <2>5, ElementOfSeq
  <2> QED BY <2>1, <2>6
<1>2. CASE ~DequeueTake
  <2>1. pc'[Worker] # "dequeued"
    BY <1>2 DEF Pop, Dequeue, DequeueLoad, DequeueSeq, DequeueCas, Goto, IInv, Shape
  <2> QED BY <2>1 DEF Pop
<1> QED BY <1>1, <1>2

LEMMA EndKeeps ==
  ASSUME IInv, HistoryInv, EndInv, [Next]_vars
  PROVE  EndInv'
<1> USE ThreadType
<1>1. ASSUME popped' = popped \/ \E i \in Item : popped' = Append(popped, i),
             \E k \in 1 .. Len(popped) : popped[k] = Terminate
      PROVE  \E k \in 1 .. Len(popped') : popped'[k] = Terminate
  <2>1. ASSUME NEW i \in Item
        PROVE  /\ Len(Append(popped, i)) = Len(popped) + 1 /\ Len(popped) \in Nat
               /\ \A k \in 1 .. Len(popped) : Append(popped, i)[k] = popped[k]
    BY AppendProperties DEF HistoryInv
  <2> QED BY <1>1, <2>1
<1>2. CASE UNCHANGED vars
  BY <1>2 DEF vars, queueVars, logVars, EndInv
<1>3. ASSUME NEW c \in Client, LogOrFlush(c) \/ Release(c) \/ ClientStep(c)
      PROVE  EndInv'
  <2>1. /\ UNCHANGED <<popped, logged, flushed, flush_requested, terminate_requested>>
        /\ pc'[Worker] = pc[Worker]
    BY <1>3, ClientMoves
  <2> QED BY <2>1 DEF EndInv
<1>4. CASE Warmup
  <2>1. /\ pc[Worker] = "start" /\ pc'[Worker] \in {"dequeue", "failed"}
        /\ UNCHANGED <<popped, logged, flushed, flush_requested, terminate_requested>>
    BY <1>4 DEF Warmup, Callback, At, Goto, Fail, IInv, Shape
  <2> QED BY <2>1 DEF EndInv, BeforeTheEnd
<1>5. CASE Teardown
  <2>1. /\ pc[Worker] = "teardown" /\ pc'[Worker] \in {"ended", "failed"}
        /\ UNCHANGED <<popped, logged, flushed, flush_requested, terminate_requested>>
    BY <1>5 DEF Teardown, Callback, At, Goto, Fail, IInv, Shape
  <2> QED BY <2>1 DEF EndInv, BeforeTheEnd
<1>6. CASE Pop
  <2>1. /\ pc[Worker] \in BeforeTheEnd /\ pc'[Worker] \in BeforeTheEnd
        /\ UNCHANGED <<logged, flushed, flush_requested, terminate_requested>>
    BY <1>6 DEF Pop, Dequeue, DequeueLoad, DequeueSeq, DequeueCas, DequeueTake, At, Goto, IInv, Shape,
                BeforeTheEnd
  <2>2. popped' = popped \/ \E i \in Item : popped' = Append(popped, i)
    BY <1>6, TakenIsItem
  <2>3. pc'[Worker] \notin {"teardown", "ended"}
    BY <2>1 DEF BeforeTheEnd
  <2> QED BY <1>1, <2>1, <2>2, <2>3 DEF EndInv
<1>7. CASE ProcessMessage
  <2>1. /\ pc[Worker] = "dequeued" /\ pc'[Worker] \in {"dequeue", "failed"}
        /\ UNCHANGED <<popped, flushed>>
    BY <1>7 DEF ProcessMessage, At, Goto, Fail, IInv, Shape
  <2>2. CASE UNCHANGED <<flush_requested, terminate_requested>>
    BY <2>1, <2>2 DEF EndInv, BeforeTheEnd
  <2>3. CASE flush_requested' = TRUE /\ terminate_requested' = (terminate_requested \/ item[Worker] = Terminate)
    <3>1. item[Worker] = Terminate => \E k \in 1 .. Len(popped) : popped[k] = Terminate
      BY <2>1 DEF HistoryInv, At
    <3> QED BY <2>1, <2>3, <3>1 DEF EndInv
  <2> QED BY <1>7, <2>2, <2>3 DEF ProcessMessage
<1>8. CASE EmptyQueue
  <2>1. /\ pc[Worker] = "empty" /\ UNCHANGED <<logged, popped, terminate_requested>>
        /\ \/ pc'[Worker] = "failed"
           \/ /\ pc'[Worker] = IF terminate_requested THEN "teardown" ELSE "dequeue"
              /\ FlushSinks(IF flush_requested THEN NumSinks ELSE 0)
    BY <1>8 DEF EmptyQueue, Fail, At, Goto, IInv, Shape
  <2>4. CASE pc'[Worker] = "failed"
    BY <2>1, <2>4 DEF EndInv, BeforeTheEnd
  <2>2. CASE terminate_requested /\ pc'[Worker] # "failed"
    <3>1. flushed' = [s \in Sink |-> Len(logged[s])]
      <4>1. flush_requested
        BY <2>1, <2>2 DEF EndInv, BeforeTheEnd
      <4> QED BY <2>1, <2>2, <4>1, AsyncAssumption DEF FlushSinks, Sink
    <3> QED BY <2>1, <2>2, <3>1 DEF EndInv, BeforeTheEnd
  <2>3. CASE ~terminate_requested /\ pc'[Worker] # "failed"
    BY <2>1, <2>3 DEF EndInv
  <2> QED BY <2>2, <2>3, <2>4
<1> QED BY <1>2, <1>3, <1>4, <1>5, <1>6, <1>7, <1>8 DEF Next, WorkerStep

Log == IInv /\ HistoryInv /\ SinkInv /\ RequestInv /\ EndInv

LEMMA LogInit == Init => Log
<1> SUFFICES ASSUME Init PROVE RequestInv /\ EndInv
  BY InitHolds, HistoryInit, SinkInit DEF Log
<1>1. pc[Worker] = "start" /\ terminate_requested = FALSE /\ accepted = <<>>
  BY ThreadType DEF Init
<1>2. \A c \in Client : pc[c] = "idle" /\ item[c] # Terminate
  BY ThreadType, QueueAssumption, AsyncAssumption DEF Init, QueueInit
<1> QED BY <1>1, <1>2 DEF RequestInv, EndInv

LEMMA LogKeeps == Log /\ [Next]_vars => Log'
BY NextKeeps, HistoryKeeps, SinkKeeps, RequestKeeps, EndKeeps DEF Log

\* Each sink is given the messages that were accepted, in their order, none twice
\* and none left out but the last ones: also when a sink fails in between.
THEOREM SinksAreBehind == Spec => []SinksFollow
<1>1. Log => SinksFollow
  <2> SUFFICES ASSUME Log, NEW s \in Sink
               PROVE  \E n \in 0 .. Len(accepted) : AreMessages(logged[s], n, accepted)
    BY DEF SinksFollow
  <2>1. PICK n \in 0 .. Len(popped) : AreMessages(logged[s], n, accepted)
    BY DEF Log, SinkInv
  <2>2. Len(popped) <= Len(accepted) /\ Len(popped) \in Nat /\ Len(accepted) \in Nat
    BY DEF Log, IInv, CellInv, HistoryInv
  <2> QED BY <2>1, <2>2
<1> QED BY <1>1, LogInit, LogKeeps, PTL DEF Spec

\* A worker that has ended has given every accepted message to every sink, and
\* flushed it.
THEOREM WorkerLeavesNothing == Spec => []NothingLeftBehind
<1>1. Log => NothingLeftBehind
  <2> SUFFICES ASSUME Log, At(Worker, "ended"), NEW s \in Sink
               PROVE  AreMessages(logged[s], Len(accepted), accepted) /\ flushed[s] = Len(logged[s])
    BY DEF NothingLeftBehind
  <2>1. terminate_requested /\ flushed[s] = Len(logged[s])
    BY DEF Log, EndInv, At
  <2>2. PICK k \in 1 .. Len(popped) : popped[k] = Terminate
    BY <2>1 DEF Log, EndInv
  <2>3. Len(popped) <= Len(accepted) /\ Len(popped) \in Nat /\ Len(accepted) \in Nat
    BY DEF Log, IInv, CellInv, HistoryInv
  <2>4. k \in 1 .. Len(accepted) /\ accepted[k] = Terminate
    BY <2>2, <2>3 DEF Log, HistoryInv
  <2>5. k = Len(accepted)
    BY <2>4 DEF Log, RequestInv
  <2>6. Len(popped) = Len(accepted)
    BY <2>3, <2>5
  <2> QED BY <2>1, <2>6 DEF Log, SinkInv, At
<1> QED BY <1>1, LogInit, LogKeeps, PTL DEF Spec
=============================================================================
