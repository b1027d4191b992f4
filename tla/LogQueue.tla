------------------------------ MODULE LogQueue ------------------------------
(***************************************************************************)
(* What the queue between the callers of an asynchronous logger and its    *)
(* worker promises: first in, first out, never more than Size items.       *)
(* Nothing is said of how it is done or of when a call gives up.           *)
(***************************************************************************)
EXTENDS Naturals, Sequences

CONSTANTS Item, Size

VARIABLES queue,    \* what waits, the oldest first
          popped    \* all that was taken out, in order

Init == queue = <<>> /\ popped = <<>>

Put == \E i \in Item : /\ Len(queue) < Size
                       /\ queue' = Append(queue, i)
                       /\ UNCHANGED popped

Take == /\ queue # <<>>
        /\ queue' = Tail(queue)
        /\ popped' = Append(popped, Head(queue))

Spec == Init /\ [][Put \/ Take]_<<queue, popped>>
=============================================================================
