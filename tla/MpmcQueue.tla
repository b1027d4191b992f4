----------------------------- MODULE MpmcQueue ------------------------------
(***************************************************************************)
(* The lock free queue of spdlog (details/mpmc_bounded_q.h), between any   *)
(* number of clients, which enqueue, and one worker, which dequeues.       *)
(*                                                                         *)
(* Each action is one access to a variable that threads share, except that *)
(* a cell is filled or emptied, and its sequence stored, in one step: in   *)
(* between only the thread that won the cell may touch it                  *)
(* (OneThreadPerCell).  A load that returns an old value is a load that    *)
(* happened earlier.  Positions are 64 bits wide and do not wrap.          *)
(***************************************************************************)
EXTENDS Integers, Sequences

CONSTANTS Client, Worker, Item, Size, NoItem

ASSUME QueueAssumption ==
  /\ Worker \notin Client
  /\ NoItem \notin Item
  /\ Size \in Nat /\ Size >= 2          \* or the constructor throws
  /\ \E k \in 1..63 : Size = 2 ^ k

Thread == Client \cup {Worker}
Cell == 0..Size - 1

VARIABLES sequence,      \* of each cell: the position it is ready for
          data,          \* of each cell
          enqueue_pos, dequeue_pos,
          pos,           \* of each thread: the position it tries to win
          item,          \* of each thread: what it enqueues, or has dequeued
          pc             \* of each thread: where it is

queueVars == <<sequence, data, enqueue_pos, dequeue_pos, pos, item>>

At(t, l) == pc[t] = l
Goto(t, l) == pc' = [pc EXCEPT ![t] = l]

Mask(p) == p % Size

Dif(p, expected) == sequence[Mask(p)] - expected

QueueInit ==
  /\ sequence = [i \in Cell |-> i]
  /\ data = [i \in Cell |-> NoItem]
  /\ enqueue_pos = 0 /\ dequeue_pos = 0
  /\ pos = [t \in Thread |-> 0]
  /\ item = [t \in Thread |-> NoItem]

(***************************************************************************)
(* enqueue: ends at "enqueued" or at "full".                               *)
(***************************************************************************)
EnqueueLoad(c) ==
  /\ At(c, "enqueue") /\ Goto(c, "enqueue_seq")
  /\ pos' = [pos EXCEPT ![c] = enqueue_pos]
  /\ UNCHANGED <<sequence, data, enqueue_pos, dequeue_pos, item>>

\* Mutant: a cell that is still in use is not told from a free one.
EnqueueSeqNeverFull(c) ==
  /\ At(c, "enqueue_seq")
  /\ \/ Dif(pos[c], pos[c]) <= 0 /\ Goto(c, "enqueue_cas")
     \/ Dif(pos[c], pos[c]) > 0 /\ Goto(c, "enqueue")
  /\ UNCHANGED queueVars

\* The position is loaded again if another client was faster.
EnqueueSeq(c) ==
  LET dif == Dif(pos[c], pos[c]) IN
  /\ At(c, "enqueue_seq")
  /\ \/ dif = 0 /\ Goto(c, "enqueue_cas")
     \/ dif < 0 /\ Goto(c, "full")
     \/ dif > 0 /\ Goto(c, "enqueue")
  /\ UNCHANGED queueVars

\* Mutant: the position is not compared with what was loaded.
EnqueueCasBlind(c) ==
  /\ At(c, "enqueue_cas") /\ Goto(c, "enqueue_store")
  /\ enqueue_pos' = pos[c] + 1
  /\ UNCHANGED <<sequence, data, dequeue_pos, pos, item>>

\* A compare_exchange_weak that fails loads the position.  One that fails for no
\* reason, which it may not do for ever, leaves things as they were.
EnqueueCas(c) ==
  /\ At(c, "enqueue_cas")
  /\ IF enqueue_pos = pos[c]
     THEN /\ enqueue_pos' = pos[c] + 1 /\ UNCHANGED pos
          /\ Goto(c, "enqueue_store")
     ELSE /\ pos' = [pos EXCEPT ![c] = enqueue_pos] /\ UNCHANGED enqueue_pos
          /\ Goto(c, "enqueue_seq")
  /\ UNCHANGED <<sequence, data, dequeue_pos, item>>

EnqueueStore(c) ==
  /\ At(c, "enqueue_store") /\ Goto(c, "enqueued")
  /\ data' = [data EXCEPT ![Mask(pos[c])] = item[c]]
  /\ sequence' = [sequence EXCEPT ![Mask(pos[c])] = pos[c] + 1]
  /\ UNCHANGED <<enqueue_pos, dequeue_pos, pos, item>>

Enqueue(c) == EnqueueLoad(c) \/ EnqueueSeq(c) \/ EnqueueCas(c) \/ EnqueueStore(c)

(***************************************************************************)
(* dequeue: ends at "dequeued" or at "empty".                              *)
(***************************************************************************)
DequeueLoad ==
  /\ At(Worker, "dequeue") /\ Goto(Worker, "dequeue_seq")
  /\ pos' = [pos EXCEPT ![Worker] = dequeue_pos]
  /\ UNCHANGED <<sequence, data, enqueue_pos, dequeue_pos, item>>

\* Mutant: the cell is taken as soon as its position is claimed.
DequeueSeqTooEarly ==
  /\ At(Worker, "dequeue_seq")
  /\ \/ pos[Worker] < enqueue_pos /\ Goto(Worker, "dequeue_cas")
     \/ pos[Worker] = enqueue_pos /\ Goto(Worker, "empty")
  /\ UNCHANGED queueVars

\* The worker is alone, so its position is never behind and dif never positive.
DequeueSeq ==
  LET dif == Dif(pos[Worker], pos[Worker] + 1) IN
  /\ At(Worker, "dequeue_seq")
  /\ \/ dif = 0 /\ Goto(Worker, "dequeue_cas")
     \/ dif < 0 /\ Goto(Worker, "empty")
  /\ UNCHANGED queueVars

DequeueCas ==
  /\ At(Worker, "dequeue_cas") /\ Goto(Worker, "dequeue_take")
  /\ dequeue_pos' = pos[Worker] + 1
  /\ UNCHANGED <<sequence, data, enqueue_pos, pos, item>>

DequeueTake ==
  LET i == Mask(pos[Worker]) IN
  /\ At(Worker, "dequeue_take") /\ Goto(Worker, "dequeued")
  /\ item' = [item EXCEPT ![Worker] = data[i]]
  /\ data' = [data EXCEPT ![i] = NoItem]    \* moved from
  /\ sequence' = [sequence EXCEPT ![i] = pos[Worker] + Size]
  /\ UNCHANGED <<enqueue_pos, dequeue_pos, pos>>

Dequeue == DequeueLoad \/ DequeueSeq \/ DequeueCas \/ DequeueTake

(***************************************************************************)
(* The queue as its users see it: the positions that are won and not yet   *)
(* taken, filled or about to be.                                           *)
(***************************************************************************)
ItemAt(p) ==
  IF \E c \in Client : At(c, "enqueue_store") /\ pos[c] = p
  THEN item[CHOOSE c \in Client : At(c, "enqueue_store") /\ pos[c] = p]
  ELSE data[Mask(p)]

Waiting == [k \in 1..enqueue_pos - dequeue_pos |-> ItemAt(dequeue_pos + k - 1)]
=============================================================================
