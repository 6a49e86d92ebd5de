--------------------------- MODULE BrokerInvariant ---------------------------
(***************************************************************************)
(* The inductive invariant of Broker: what the safety properties need to   *)
(* be preserved by every step.  BrokerSafetyProofs and                     *)
(* BrokerDeliveryProofs prove it, for every set of clients and every       *)
(* behaviour of theirs.                                                    *)
(***************************************************************************)
EXTENDS Broker

\* The points of a thread at which it holds the mutex.
Critical == {"insert", "create", "enlist", "write", "rotate"}

\* A thread that has chosen the ring to join, or has joined it.
Bound(c) == Enlisted(c) \/ step[c] \in {"create", "enlist"}

\* The point a thread has reached agrees with the state whose function it runs.
Agree(s, p) ==
  /\ p = "insert" => s = "RCVD_QUEUE_DECLARE"
  /\ p \in {"create", "enlist"} => s = "RCVD_BASIC_CONSUME"
  /\ p = "reply" => s \in {"RCVD_QUEUE_DECLARE", "RCVD_BASIC_CONSUME"}
  /\ p \in {"write", "rotate"} => s = "CLIENT_TURN"
  /\ p = "eof" => s \in Answer \union {"WAIT_COMMAND"}
  /\ p = "ended" => s = "FINAL"

\* What the function that a thread runs reads has been set.
Ready(c) ==
  /\ step[c] = "write" => msg[c] \in Conns
  /\ state[c] # "WAIT_COMMAND" => request[c] \in Request
  /\ Bound(c) => my_queue[c] \in 1..(Len(queue_list) + 1)
  /\ Bound(c) /\ server = "up" => my_queue[c] \in Slots

Control == \A c \in Conns : Agree(state[c], step[c]) /\ Ready(c)

TypeInv == TypeOK /\ Control

\* Only the holder of the mutex is inside a critical section.
Mutex == \A c \in Conns : step[c] \in Critical => holder = c

\* What a thread that holds the mutex has found out stays true.
StillAbsent ==
  \A c \in Conns : step[c] = "insert" => request[c].queue \notin ToSet(queue_list)
StillEmpty ==
  \A c \in Conns : step[c] = "create" => client_queue[my_queue[c]] = << >>

\* A ring once chosen is never that of a queue declared after the one asked for.
BoundAsAsked ==
  \A c \in Conns : Bound(c) =>
    \A i \in 1..Len(queue_list) :
      queue_list[i] = request[c].queue => my_queue[c] <= i

\* And until the thread has joined it, nobody can have declared a queue.
ChosenAsAsked ==
  \A c \in Conns : step[c] \in {"create", "enlist"} => JoinsAsAsked(c)

\* Names and indexes: one queue per name, within the arrays, and every consumer
\* at an index it may have.
Naming == StillAbsent /\ OneQueuePerName /\ NoOverrun /\ BoundAsAsked /\ ChosenAsAsked

\* Rings: who is in them, whose turn it is, and what a null pointer can mean.
Rings == StillEmpty /\ RingMatches /\ TurnStable /\ CrashOnlyForUndeclared

\* d comes before e in a ring.
Before(ring, d, e) ==
  \E i, k \in DOMAIN ring : i < k /\ ring[i] = d /\ ring[k] = e

\* Once e has been served, everyone who had subscribed by then has been served
\* since, or comes before e in the ring.
TurnsComing ==
  \A q \in Slots : \A j \in DOMAIN delivered[q] :
    LET e == delivered[q][j].to IN
    \A d \in ToSet(Ring[q]) :
      since[d] < j /\ d # e =>
        \/ \E i \in (j + 1)..Len(delivered[q]) : delivered[q][i].to = d
        \/ Before(Ring[q], d, e)

\* What the critical sections keep true.
Guarded == TypeInv /\ Mutex /\ Naming /\ Rings

\* And what follows for the clients, a delivery after another.
Deliveries == FifoExactlyOnce /\ Fair /\ TurnsComing

IInv == Guarded /\ Deliveries

=============================================================================
