----------------------------- MODULE RoundRobin -----------------------------
(***************************************************************************)
(* What the server promises the clients of its queues, whatever its        *)
(* threads do: a message joins the back of its queue, a consumer joins the *)
(* back of the queue's ring, and a delivery hands the oldest message to    *)
(* the consumer at the front, who then goes to the back.  Module Broker    *)
(* implements it with one thread per client and a mutex.                   *)
(***************************************************************************)
EXTENDS Naturals, Sequences, SequencesExt

CONSTANTS Slots,       \* the queues
          Consumers,   \* the clients that may subscribe
          Messages     \* the messages that may be published

VARIABLES queued,      \* queued[q]: the messages waiting in q, oldest first
          ring,        \* ring[q]: the consumers of q, the next to be served first
          log          \* log[q]: the deliveries made from q, in order

rrVars == << queued, ring, log >>

Delivery == [msg : Messages, to : Consumers]

Init ==
  /\ queued = [q \in Slots |-> << >>]
  /\ ring   = [q \in Slots |-> << >>]
  /\ log    = [q \in Slots |-> << >>]

Publish(q, m) ==
  /\ queued' = [queued EXCEPT ![q] = Append(@, m)]
  /\ UNCHANGED << ring, log >>

\* A consumer subscribes at most once, to one queue.
Subscribe(q, c) ==
  /\ \A p \in Slots : c \notin ToSet(ring[p])
  /\ ring' = [ring EXCEPT ![q] = Append(@, c)]
  /\ UNCHANGED << queued, log >>

Deliver(q) ==
  /\ queued[q] # << >>
  /\ ring[q] # << >>
  /\ log' = [log EXCEPT ![q] = Append(@, [msg |-> Head(queued[q]), to |-> Head(ring[q])])]
  /\ queued' = [queued EXCEPT ![q] = Tail(@)]
  /\ ring' = [ring EXCEPT ![q] = Append(Tail(@), Head(@))]

Next ==
  \E q \in Slots :
    \/ \E m \in Messages : Publish(q, m)
    \/ \E c \in Consumers : Subscribe(q, c)
    \/ Deliver(q)

Spec == Init /\ [][Next]_rrVars

=============================================================================
