-------------------------------- MODULE Fifo --------------------------------
(***************************************************************************)
(* What queue.h promises of a queue: messages leave it in the order in     *)
(* which they joined it, and the first one can be read where it is.        *)
(* Module LinkedQueue implements it with a list of cells.                  *)
(***************************************************************************)
EXTENDS Sequences

CONSTANTS Messages, NoMessage

VARIABLES items,    \* the messages, the oldest first
          buf       \* what the last dequeue or first gave the caller

fifoVars == << items, buf >>

Init == items = << >> /\ buf = NoMessage

Enqueue(m) == items' = Append(items, m) /\ UNCHANGED buf

First == items # << >> /\ buf' = Head(items) /\ UNCHANGED items

Dequeue == items # << >> /\ buf' = Head(items) /\ items' = Tail(items)

\* The queue is deleted, and a new one created in its place.
Renew == items' = << >> /\ UNCHANGED buf

Next == (\E m \in Messages : Enqueue(m)) \/ First \/ Dequeue \/ Renew

Spec == Init /\ [][Next]_fifoVars

=============================================================================
