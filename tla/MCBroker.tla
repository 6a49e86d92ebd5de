------------------------------ MODULE MCBroker ------------------------------
(***************************************************************************)
(* Small instances of Broker: which client may send which command.         *)
(***************************************************************************)
EXTENDS BrokerInvariant

CONSTANTS c1, c2, c3, c4, c5, qa, qb

Declare(n) == [kind |-> "declare", queue |-> n, closing |-> FALSE]
PublishTo(n, b) == [kind |-> "publish", queue |-> n, closing |-> b]
Consume(n) == [kind |-> "consume", queue |-> n, closing |-> FALSE]
Unknown == [kind |-> "other", queue |-> qa, closing |-> FALSE]

\* Five clients whose commands overlap: two may declare the same queue and one another,
\* two may publish to the first and two consume from it, before or after it is declared.
SafetyRequests ==
  c1 :> {Declare(qa), Unknown} @@
  c2 :> {Declare(qa), PublishTo(qa, TRUE)} @@
  c3 :> {PublishTo(qa, FALSE), Declare(qb)} @@
  c4 :> {Consume(qa)} @@
  c5 :> {Consume(qa)}

\* One client per role, and a second publisher and a second consumer.
LiveRequests ==
  c1 :> {Declare(qa)} @@
  c2 :> {PublishTo(qa, TRUE)} @@
  c3 :> {PublishTo(qa, FALSE)} @@
  c4 :> {Consume(qa)} @@
  c5 :> {Consume(qa)}

\* Two clients that declare the same queue.
RaceRequests == c1 :> {Declare(qa)} @@ c2 :> {Declare(qa)}

\* A declared queue, a message, and a consumer that may close.
CloseRequests ==
  c1 :> {Declare(qa)} @@ c2 :> {PublishTo(qa, FALSE)} @@ c4 :> {Consume(qa)}
=============================================================================
