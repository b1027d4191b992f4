------------------------------ MODULE AsyncLog ------------------------------
(***************************************************************************)
(* An asynchronous logger of spdlog (details/async_log_helper.h): clients  *)
(* push messages into a bounded queue, a worker thread takes them out and  *)
(* gives them to the sinks.  The client that lets go of the logger last    *)
(* runs its destructor, which asks the worker to end and waits for it.     *)
(*                                                                         *)
(* A message of a client is the pair of the client and the number of the   *)
(* call.  MaxCalls bounds the calls of each client.                        *)
(***************************************************************************)
EXTENDS MpmcQueue

CONSTANTS MaxCalls, NumSinks, Policies, SinksFail, Flush, Terminate

Message == UNION {{c} \X (1..MaxCalls[c]) : c \in Client}

ASSUME AsyncAssumption ==
  /\ MaxCalls \in [Client -> Nat] /\ NumSinks \in Nat \ {0}
  /\ Policies \subseteq {"block_retry", "discard_log_msg"}
  /\ SinksFail \in BOOLEAN
  /\ Flush # Terminate /\ Message \cap {Flush, Terminate} = {}
  /\ Item = Message \cup {Flush, Terminate}

VARIABLES policy,                 \* what a full queue means for a caller
          flush_requested, terminate_requested,
          worker_ex,              \* an exception of the worker waits to be thrown
          calls,                  \* of each client: its calls so far
          logged,                 \* of each sink: what it was given
          flushed,                \* of each sink: how much of it was flushed
          popped,                 \* all that was dequeued
          accepted,               \* what was enqueued, in the order of the positions
          discarded               \* what was not

logVars == <<policy, flush_requested, terminate_requested, worker_ex, calls,
             logged, flushed, popped, accepted, discarded>>
vars == <<queueVars, pc, logVars>>

Sink == 1..NumSinks

TypeOK ==
  /\ policy \in Policies
  /\ {flush_requested, terminate_requested, worker_ex} \subseteq BOOLEAN
  /\ \A c \in Client : calls[c] \in 0..MaxCalls[c]
  /\ logged \in [Sink -> Seq(Message)]
  /\ flushed \in [Sink -> Nat]
  /\ {popped, accepted} \subseteq Seq(Item)
  /\ discarded \subseteq Item
  /\ sequence \in [Cell -> Nat]
  /\ data \in [Cell -> Item \cup {NoItem}]
  /\ {enqueue_pos, dequeue_pos} \subseteq Nat
  /\ pos \in [Thread -> Nat]
  /\ item \in [Thread -> Item \cup {NoItem}]

Init ==
  /\ QueueInit
  /\ policy \in Policies
  /\ flush_requested = FALSE /\ terminate_requested = FALSE /\ worker_ex = FALSE
  /\ calls = [c \in Client |-> 0]
  /\ logged = [s \in Sink |-> <<>>]
  /\ flushed = [s \in Sink |-> 0]
  /\ popped = <<>> /\ accepted = <<>> /\ discarded = {}
  /\ pc = [t \in Thread |-> IF t = Worker THEN "start" ELSE "idle"]

(***************************************************************************)
(* The clients.                                                            *)
(***************************************************************************)
Call(c, i) ==
  /\ Goto(c, "throw_if_bad_worker")
  /\ item' = [item EXCEPT ![c] = i]
  /\ UNCHANGED <<sequence, data, enqueue_pos, dequeue_pos, pos, policy, flush_requested,
                 terminate_requested, worker_ex, logged, flushed, popped, accepted, discarded>>

\* log() and flush().
LogOrFlush(c) ==
  /\ At(c, "idle") /\ calls[c] < MaxCalls[c]
  /\ calls' = [calls EXCEPT ![c] = @ + 1]
  /\ \E i \in {<<c, calls[c] + 1>>, Flush} : Call(c, i)

\* A shared_ptr to the logger is released: the last one runs the destructor.
Release(c) ==
  /\ At(c, "idle")
  /\ IF \A d \in Client \ {c} : At(d, "gone")
     THEN Call(c, Terminate) /\ UNCHANGED calls
     ELSE Goto(c, "gone") /\ UNCHANGED <<queueVars, logVars>>

\* The pointer to the exception is read without a lock, and read again to be moved.
ThrowIfBadWorker(c) ==
  /\ At(c, "throw_if_bad_worker")
  /\ Goto(c, IF worker_ex THEN "throw" ELSE "enqueue")
  /\ UNCHANGED <<queueVars, logVars>>

(***************************************************************************)
(* The exception of the worker in the thread of a client.  It gets out of  *)
(* flush() only: log() is called by the destructor of line_logger, which   *)
(* may not throw, so std::terminate ends the program.  The destructor of   *)
(* the logger catches it, does not join, and ~thread calls std::terminate. *)
(* If another client took the exception meanwhile, null is followed.       *)
(***************************************************************************)
Throw(c) ==
  /\ At(c, "throw")
  /\ Goto(c, IF worker_ex /\ item[c] = Flush THEN "idle" ELSE "aborted")
  /\ worker_ex' = FALSE
  /\ UNCHANGED <<queueVars, policy, flush_requested, terminate_requested, calls, logged,
                 flushed, popped, accepted, discarded>>

Try(c) ==
  /\ Enqueue(c)
  /\ accepted' = IF pc'[c] = "enqueue_store" THEN Append(accepted, item[c]) ELSE accepted
  /\ UNCHANGED <<policy, flush_requested, terminate_requested, worker_ex, calls, logged,
                 flushed, popped, discarded>>

\* push_msg returns to its caller, which for the request to end is the destructor.
Return(c) ==
  /\ Goto(c, IF item[c] = Terminate THEN "join" ELSE "idle")
  /\ item' = [item EXCEPT ![c] = NoItem] /\ pos' = [pos EXCEPT ![c] = 0]
  /\ UNCHANGED <<sequence, data, enqueue_pos, dequeue_pos>>

\* A full queue: wait and try again, or give up, whatever the item is.
Full(c) ==
  /\ At(c, "full")
  /\ IF policy = "discard_log_msg"
     THEN Return(c) /\ discarded' = discarded \cup {item[c]}
     ELSE Goto(c, "enqueue") /\ UNCHANGED <<queueVars, discarded>>
  /\ UNCHANGED <<policy, flush_requested, terminate_requested, worker_ex, calls,
                 logged, flushed, popped, accepted>>

Enqueued(c) ==
  /\ At(c, "enqueued") /\ Return(c)
  /\ UNCHANGED logVars

Join(c) ==
  /\ At(c, "join") /\ pc[Worker] \in {"ended", "failed"} /\ Goto(c, "gone")
  /\ UNCHANGED <<queueVars, logVars>>

ClientStep(c) ==
  ThrowIfBadWorker(c) \/ Throw(c) \/ Try(c) \/ Full(c) \/ Enqueued(c) \/ Join(c)

(***************************************************************************)
(* The worker.                                                             *)
(***************************************************************************)
\* An exception leaves the loop: it is kept for the next call of a client.
Fail == Goto(Worker, "failed") /\ worker_ex' = TRUE

\* The callbacks before and after the loop may throw.
Callback(from, to) ==
  /\ At(Worker, from)
  /\ \/ Goto(Worker, to) /\ UNCHANGED worker_ex
     \/ SinksFail /\ Fail
  /\ UNCHANGED <<queueVars, policy, flush_requested, terminate_requested, calls, logged,
                 flushed, popped, accepted, discarded>>

Warmup == Callback("start", "dequeue")
Teardown == Callback("teardown", "ended")

Pop ==
  /\ Dequeue
  /\ popped' = IF pc'[Worker] = "dequeued" THEN Append(popped, item'[Worker]) ELSE popped
  /\ UNCHANGED <<policy, flush_requested, terminate_requested, worker_ex, calls, logged,
                 flushed, accepted, discarded>>

\* One sink after the other is given the message, until one throws.
ToSinks(m, k) ==
  logged' = [s \in Sink |-> IF s <= k THEN Append(logged[s], m) ELSE logged[s]]

\* Mutant: the request to end is followed before the queue is empty.
ProcessMessageEager ==
  LET i == item[Worker] IN
  /\ At(Worker, "dequeued")
  /\ IF i \in Message
     THEN /\ ToSinks(i, NumSinks) /\ Goto(Worker, "dequeue")
          /\ UNCHANGED <<flush_requested, terminate_requested>>
     ELSE /\ flush_requested' = TRUE
          /\ terminate_requested' = (terminate_requested \/ i = Terminate)
          /\ Goto(Worker, IF i = Terminate THEN "teardown" ELSE "dequeue")
          /\ UNCHANGED logged
  /\ UNCHANGED <<queueVars, policy, worker_ex, calls, flushed, popped, accepted, discarded>>

ProcessMessage ==
  LET i == item[Worker] IN
  /\ At(Worker, "dequeued")
  /\ IF i \in Message
     THEN /\ \/ ToSinks(i, NumSinks) /\ Goto(Worker, "dequeue") /\ UNCHANGED worker_ex
             \/ SinksFail /\ Fail /\ \E k \in 0..NumSinks - 1 : ToSinks(i, k)
          /\ UNCHANGED <<flush_requested, terminate_requested>>
     ELSE /\ flush_requested' = TRUE
          /\ terminate_requested' = (terminate_requested \/ i = Terminate)
          /\ Goto(Worker, "dequeue")
          /\ UNCHANGED <<logged, worker_ex>>
  /\ UNCHANGED <<queueVars, policy, calls, flushed, popped, accepted, discarded>>

\* Mutant: a request to flush makes the worker forget the one to end.
EmptyQueueForgets ==
  /\ At(Worker, "empty")
  /\ flushed' = IF flush_requested THEN [s \in Sink |-> Len(logged[s])] ELSE flushed
  /\ flush_requested' = FALSE
  /\ terminate_requested' = (terminate_requested /\ ~flush_requested)
  /\ Goto(Worker, IF terminate_requested' THEN "teardown" ELSE "dequeue")
  /\ UNCHANGED <<queueVars, policy, worker_ex, calls, logged, popped, accepted, discarded>>

\* One sink after the other is flushed, until one throws.
FlushSinks(k) ==
  flushed' = [s \in Sink |-> IF s <= k THEN Len(logged[s]) ELSE flushed[s]]

\* The only place where the sinks are flushed and where the loop ends.
EmptyQueue ==
  /\ At(Worker, "empty")
  /\ \/ /\ FlushSinks(IF flush_requested THEN NumSinks ELSE 0) /\ flush_requested' = FALSE
        /\ Goto(Worker, IF terminate_requested THEN "teardown" ELSE "dequeue")
        /\ UNCHANGED worker_ex
     \/ /\ SinksFail /\ flush_requested /\ Fail /\ \E k \in 0..NumSinks - 1 : FlushSinks(k)
        /\ UNCHANGED flush_requested
  /\ UNCHANGED <<queueVars, policy, terminate_requested, calls, logged, popped, accepted,
                 discarded>>

WorkerStep == Warmup \/ Pop \/ ProcessMessage \/ EmptyQueue \/ Teardown

\* std::terminate or a null pointer ends the program.
Aborted == \E c \in Client : At(c, "aborted")

Next ==
  /\ ~Aborted
  /\ \/ \E c \in Client : LogOrFlush(c) \/ Release(c) \/ ClientStep(c)
     \/ WorkerStep

\* A thread in the middle of a call goes on; nobody has to make a call.
Spec == /\ Init /\ [][Next]_vars
        /\ \A c \in Client : WF_vars(~Aborted /\ ClientStep(c))
        /\ WF_vars(~Aborted /\ WorkerStep)

(***************************************************************************)
(* What is expected.                                                       *)
(***************************************************************************)
\* The queue is first in, first out and holds at most Size items, through
\* all interleavings of the accesses to its cells.
Queue == INSTANCE LogQueue WITH queue <- Waiting,
           popped <- popped \o IF At(Worker, "dequeue_take")
                               THEN <<data[Mask(pos[Worker])]>> ELSE <<>>
ImplementsQueue == Queue!Spec

\* Between winning a cell and storing its sequence a thread has it alone: no
\* client fills a cell that another one fills or the worker empties.
OneThreadPerCell ==
  \A t, u \in Thread :
    t # u /\ pc[t] \in {"enqueue_store", "dequeue_take"}
          /\ pc[u] \in {"enqueue_store", "dequeue_take"} => Mask(pos[t]) # Mask(pos[u])

\* Sequence t holds the messages among the first n of q, each once and in order.
AreMessages(t, n, q) ==
  \E place \in [1..Len(t) -> 1..n] :
    /\ \A j, k \in 1..Len(t) : j < k => place[j] < place[k]
    /\ \A k \in 1..Len(t) : t[k] = q[place[k]]
    /\ {place[k] : k \in 1..Len(t)} = {p \in 1..n : q[p] \in Message}

\* Each sink gets the messages in the order in which they were accepted, none
\* twice and none left out: a sink is behind, never different.
SinksFollow ==
  \A s \in Sink : \E n \in 0..Len(accepted) : AreMessages(logged[s], n, accepted)

\* A worker that was asked to end has first given every accepted message to
\* every sink and flushed it.
NothingLeftBehind ==
  At(Worker, "ended") =>
    \A s \in Sink : /\ AreMessages(logged[s], Len(accepted), accepted)
                    /\ flushed[s] = Len(logged[s])

\* The destructor returns and does not end the program, unless its request to
\* end was discarded by a full queue, or the worker had failed before.
DestructorReturns ==
  \A c \in Client :
    item[c] = Terminate ~> At(c, "gone") \/ Terminate \in discarded \/ At(Worker, "failed")

=============================================================================
