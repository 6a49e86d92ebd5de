------------------------ MODULE BrokerDeliveryProofs ------------------------
(***************************************************************************)
(* What the clients of a server that takes its mutex are promised, for     *)
(* every set of clients and of names: the threads implement the round      *)
(* robin of module RoundRobin, every message is delivered once and in      *)
(* order, and every consumer gets its turn before another gets a second.   *)
(*                                                                         *)
(* The threads change the queues and rings in several steps, so the first  *)
(* part shows what each step is to somebody who sees Queued and Ring only: *)
(* a publication, a subscription, a delivery or nothing at all.            *)
(***************************************************************************)
EXTENDS BrokerSafetyProofs

-----------------------------------------------------------------------------
\* What a thread inside a delivery holds.

\* No thread is at the point p.
Nobody(p) == \A d \in Conns : step[d] # p

\* The message in a thread's hand belongs to the thread that is writing it.
LEMMA TakenIs ==
  ASSUME TypeInv, Mutex, NEW q \in Slots
  PROVE  /\ Nobody("write") => Taken(q) = << >>
         /\ \A d \in Conns : step[d] = "write" =>
              Taken(q) = IF my_queue[d] = q THEN << msg[d] >> ELSE << >>
<1>1. holder \in Conns \union {NoConn}
  BY DEF TypeInv, TypeOK
<1>2. \A d \in Conns : step[d] = "write" => holder = d /\ holder # NoConn
  BY BrokerAssumption DEF Mutex, Critical
<1> QED BY <1>1, <1>2 DEF Taken, Nobody

\* The consumer a ring is missing is the thread that is rotating it.
LEMMA RotatingIs ==
  ASSUME TypeInv, Mutex, NEW q \in Slots
  PROVE  /\ Nobody("rotate") => Rotating(q) = << >>
         /\ \A d \in Conns : step[d] = "rotate" =>
              Rotating(q) = IF my_queue[d] = q THEN << d >> ELSE << >>
<1>1. holder \in Conns \union {NoConn}
  BY DEF TypeInv, TypeOK
<1>2. \A d \in Conns : step[d] = "rotate" => holder = d /\ holder # NoConn
  BY BrokerAssumption DEF Mutex, Critical
<1> QED BY <1>1, <1>2 DEF Rotating, Nobody

\* Both, after a step.
LEMMA HeldAfter ==
  ASSUME TypeInv', Mutex', NEW q \in Slots
  PROVE  /\ Nobody("write")' => Taken(q)' = << >>
         /\ \A d \in Conns : step'[d] = "write" =>
              Taken(q)' = IF my_queue'[d] = q THEN << msg'[d] >> ELSE << >>
         /\ Nobody("rotate")' => Rotating(q)' = << >>
         /\ \A d \in Conns : step'[d] = "rotate" =>
              Rotating(q)' = IF my_queue'[d] = q THEN << d >> ELSE << >>
<1>1. holder' \in Conns \union {NoConn}
  BY DEF TypeInv, TypeOK
<1>2. \A d \in Conns : step'[d] \in {"write", "rotate"} => holder' = d /\ holder' # NoConn
  BY BrokerAssumption DEF Mutex, Critical
<1> QED BY <1>1, <1>2 DEF Taken, Rotating, Nobody

\* A thread that neither writes nor rotates, before or after its step, changes
\* nothing of what another one holds.
LEMMA HeldSame ==
  ASSUME TypeInv, Mutex, TypeInv', Mutex', NEW c \in Conns, ThreadStep(c),
         step[c] \notin {"write", "rotate"}, step'[c] \notin {"write", "rotate"},
         NEW q \in Slots
  PROVE  Taken(q)' = Taken(q) /\ Rotating(q)' = Rotating(q)
<1>1. \A d \in Conns : d # c => Entries(d)' = Entries(d)
  BY OwnEntries DEF ThreadStep, TypeInv
<1>2. \A d \in Conns : /\ step'[d] = "write" <=> step[d] = "write"
                       /\ step'[d] = "rotate" <=> step[d] = "rotate"
                       /\ step[d] \in {"write", "rotate"} =>
                            my_queue'[d] = my_queue[d] /\ msg'[d] = msg[d]
  BY <1>1 DEF Entries
<1>3. Taken(q)' = Taken(q)
  <2>1. CASE Nobody("write")
    BY <1>2, <2>1, TakenIs, HeldAfter DEF Nobody
  <2>2. ASSUME NEW d \in Conns, step[d] = "write" PROVE Taken(q)' = Taken(q)
    BY <1>2, <2>2, TakenIs, HeldAfter
  <2> QED BY <2>1, <2>2 DEF Nobody
<1>4. Rotating(q)' = Rotating(q)
  <2>1. CASE Nobody("rotate")
    BY <1>2, <2>1, RotatingIs, HeldAfter DEF Nobody
  <2>2. ASSUME NEW d \in Conns, step[d] = "rotate" PROVE Rotating(q)' = Rotating(q)
    BY <1>2, <2>2, RotatingIs, HeldAfter
  <2> QED BY <2>1, <2>2 DEF Nobody
<1> QED BY <1>3, <1>4

\* The messages that wait and the consumers of a queue, whoever holds one of them.
LEMMA Parts ==
  ASSUME TypeInv, Mutex
  PROVE  /\ Queued \in [Slots -> Seq(Conns)]
         /\ Ring \in [Slots -> Seq(Conns)]
         /\ \A q \in Slots : /\ Taken(q) \in Seq(Conns)
                             /\ Rotating(q) \in Seq(Conns)
                             /\ content[q] \in Seq(Conns)
                             /\ client_queue[q] \in Seq(Conns)
                             /\ Queued[q] = Taken(q) \o content[q]
                             /\ Ring[q] = client_queue[q] \o Rotating(q)
<1>1. ASSUME NEW q \in Slots
      PROVE  /\ Taken(q) \in Seq(Conns) /\ Rotating(q) \in Seq(Conns)
             /\ content[q] \in Seq(Conns) /\ client_queue[q] \in Seq(Conns)
  <2>0. << >> \in Seq(Conns) /\ \A d \in Conns : << d >> \in Seq(Conns)
    OBVIOUS
  <2>1. \A d \in Conns : step[d] = "write" => msg[d] \in Conns
    BY DEF TypeInv, Control, Ready
  <2>2. Taken(q) \in Seq(Conns)
    <3>1. CASE Nobody("write")
      BY <2>0, <3>1, TakenIs
    <3>2. ASSUME NEW d \in Conns, step[d] = "write" PROVE Taken(q) \in Seq(Conns)
      BY <2>0, <2>1, <3>2, TakenIs
    <3> QED BY <3>1, <3>2 DEF Nobody
  <2>3. Rotating(q) \in Seq(Conns)
    <3>1. CASE Nobody("rotate")
      BY <2>0, <3>1, RotatingIs
    <3>2. ASSUME NEW d \in Conns, step[d] = "rotate" PROVE Rotating(q) \in Seq(Conns)
      BY <2>0, <3>2, RotatingIs
    <3> QED BY <3>1, <3>2 DEF Nobody
  <2> QED BY <2>2, <2>3 DEF TypeInv, TypeOK
<1>2. \A q \in Slots : /\ Taken(q) \o content[q] \in Seq(Conns)
                       /\ client_queue[q] \o Rotating(q) \in Seq(Conns)
  BY <1>1, ConcatProperties
<1> QED BY <1>1, <1>2 DEF Queued, Ring

\* Who is in the ring of a queue: the consumers of the queue, each of them once.
LEMMA RingIs ==
  ASSUME TypeInv, Mutex, Rings, NEW q \in Slots
  PROVE  /\ ToSet(Ring[q]) = {d \in Conns : Enlisted(d) /\ my_queue[d] = q}
         /\ IsInjective(Ring[q])
<1> DEFINE R == client_queue[q]
<1>1. R \in Seq(Conns) /\ Ring[q] = R \o Rotating(q) /\ IsInjective(R)
  BY Parts DEF Rings, RingMatches
<1>2. ToSet(R) = {d \in Conns : Enlisted(d) /\ my_queue[d] = q /\ step[d] # "rotate"}
  BY DEF Rings, RingMatches
<1>3. CASE \A d \in Conns : step[d] = "rotate" => my_queue[d] # q
  <2>1. Rotating(q) = << >>
    <3>1. CASE Nobody("rotate")
      BY <3>1, RotatingIs
    <3>2. ASSUME NEW d \in Conns, step[d] = "rotate" PROVE Rotating(q) = << >>
      BY <1>3, <3>2, RotatingIs
    <3> QED BY <3>1, <3>2 DEF Nobody
  <2>2. Ring[q] = R
    BY <1>1, <2>1, ConcatEmptySeq
  <2> QED BY <1>1, <1>2, <1>3, <2>2
<1>4. ASSUME NEW e \in Conns, step[e] = "rotate", my_queue[e] = q
      PROVE  /\ ToSet(Ring[q]) = {d \in Conns : Enlisted(d) /\ my_queue[d] = q}
             /\ IsInjective(Ring[q])
  <2>1. Rotating(q) = << e >>
    BY <1>4, RotatingIs
  <2>2. Ring[q] = Append(R, e)
    BY <1>1, <2>1, AppendIsConcat
  <2>3. ToSet(Ring[q]) = ToSet(R) \union {e} /\ IsInjective(Ring[q])
    BY <1>1, <1>2, <1>4, <2>2, AppendDistinct
  <2>4. Enlisted(e)
    BY <1>4 DEF TypeInv, Control, Agree, Enlisted
  <2>5. \A d \in Conns : d # e => step[d] # "rotate"
    BY <1>4, Exclusive DEF Critical
  <2> QED BY <1>2, <1>4, <2>3, <2>4, <2>5
<1> QED BY <1>3, <1>4

-----------------------------------------------------------------------------
\* What each step is to the clients.

\* No change that a client could tell.
Unseen == UNCHANGED << Queued, Ring, delivered, published, since >>

\* c puts a message in a queue, joins a ring, is served.
Publishes(c) ==
  \E q \in Slots : /\ RR!Publish(q, c)
                  /\ published' = [published EXCEPT ![q] = Append(@, c)]
                  /\ UNCHANGED since
Joins(c) ==
  \E q \in Slots : /\ RR!Subscribe(q, c)
                  /\ since' = [since EXCEPT ![c] = Len(delivered[q])]
                  /\ UNCHANGED published
IsServed(c) ==
  \E q \in Slots : RR!Deliver(q) /\ UNCHANGED << published, since >>

\* A step of c between two states in which only one thread is in a critical section.
StepOf(c) ==
  /\ TypeInv /\ Mutex /\ Rings
  /\ TypeInv' /\ Mutex' /\ Rings'
  /\ ThreadStep(c)

\* The steps between two points of the code that touch no queue and no ring.
IdleStep(c) ==
  \/ do_WAIT_COMMAND(c) \/ DeclareSearch(c) \/ DeclareInsert(c) \/ Reply(c)
  \/ ConsumeSearch(c) \/ do_SUBSCRIBED(c) \/ NothingToDeliver(c) \/ Finish(c)
  \/ CloseOk(c) \/ Read(c) \/ ReadEof(c)

\* Where such a step starts and ends.
LEMMA IdlePoints ==
  ASSUME TypeInv, NEW c \in Conns, IdleStep(c)
  PROVE  /\ step[c] \notin {"write", "rotate"}
         /\ step'[c] \notin {"write", "rotate"}
         /\ UNCHANGED << content, client_queue, historyVars >>
<1>1. UNCHANGED step => step'[c] = step[c]
  OBVIOUS
<1>2. CASE do_WAIT_COMMAND(c)
  <2>1. step'[c] = "out"
    BY <1>2, Moves, Lands
  <2> QED BY <1>2, <2>1 DEF do_WAIT_COMMAND, At, sharedVars
<1>3. CASE DeclareSearch(c)
  <2>1. step'[c] \in {"reply", "insert"}
    BY <1>3, Moves, Lands
  <2> QED BY <1>3, <2>1 DEF DeclareSearch, At, sharedVars
<1>4. CASE DeclareInsert(c)
  <2>1. step'[c] = "reply"
    BY <1>4, Moves, Lands
  <2> QED BY <1>4, <2>1 DEF DeclareInsert, In
<1>5. CASE Reply(c)
  <2>1. step'[c] = "out"
    BY <1>5, Moves, Lands
  <2> QED BY <1>5, <2>1 DEF Reply, In, sharedVars
<1>6. CASE ConsumeSearch(c)
  <2>1. step'[c] \in {"create", "enlist"}
    BY <1>6, Moves, Lands
  <2> QED BY <1>6, <2>1 DEF ConsumeSearch, At, sharedVars
<1>7. CASE do_SUBSCRIBED(c)
  <2>1. step'[c] \in {"out", step[c]}
    BY <1>1, <1>7, Moves, Lands
  <2> QED BY <1>7, <2>1 DEF do_SUBSCRIBED, At, sharedVars
<1>8. CASE NothingToDeliver(c)
  <2>1. step'[c] \in {"out", step[c]}
    BY <1>1, <1>8, Moves, Lands
  <2> QED BY <1>8, <2>1 DEF NothingToDeliver, At, sharedVars
<1>9. CASE Finish(c)
  <2>1. step'[c] = "ended"
    BY <1>9, Moves, Lands
  <2> QED BY <1>9, <2>1 DEF Finish, At, sharedVars
<1>10. CASE CloseOk(c)
  <2>1. step'[c] = "out"
    BY <1>10, Moves, Lands
  <2> QED BY <1>10, <2>1 DEF CloseOk, At, sharedVars
<1>11. CASE Read(c)
  <2>1. step'[c] = "out"
    BY <1>11, Moves, Lands
  <2> QED BY <1>11, <2>1 DEF Read, At, sharedVars
<1>12. CASE ReadEof(c)
  <2>1. step'[c] = "eof"
    BY <1>12, Moves, Lands
  <2> QED BY <1>12, <2>1 DEF ReadEof, At, sharedVars
<1> QED BY <1>2, <1>3, <1>4, <1>5, <1>6, <1>7, <1>8, <1>9, <1>10, <1>11, <1>12 DEF IdleStep

\* So the clients see nothing of it.
LEMMA IdleUnseen ==
  ASSUME NEW c \in Conns, StepOf(c), IdleStep(c)
  PROVE  Unseen
<1>1. /\ step[c] \notin {"write", "rotate"} /\ step'[c] \notin {"write", "rotate"}
      /\ UNCHANGED << content, client_queue, published, delivered, since >>
  BY IdlePoints DEF StepOf, historyVars
<1>2. \A q \in Slots : Taken(q)' = Taken(q) /\ Rotating(q)' = Rotating(q)
  BY <1>1, HeldSame DEF StepOf
<1> QED BY <1>1, <1>2 DEF Unseen, Queued, Ring

\* Nor of the end of the process or of a client.
LEMMA EndUnseen ==
  ASSUME NEW c \in Conns, SigPipe(c) \/ ClientCloses(c)
  PROVE  Unseen
BY DEF SigPipe, ClientCloses, threadVars, sharedVars, historyVars, Unseen, Queued, Ring,
       Taken, Rotating

\* A publish is one step, whether or not a delivery from that queue is under way.
LEMMA PublishIs ==
  ASSUME NEW c \in Conns, StepOf(c), do_RCVD_BASIC_PUBLISH(c)
  PROVE  Unseen \/ Publishes(c)
<1> DEFINE n == Position(request[c].queue)
<1> USE DEF StepOf
<1>1. /\ step[c] = "out"
      /\ UNCHANGED << client_queue, delivered, since >>
  BY DEF do_RCVD_BASIC_PUBLISH, At
<1>2. step'[c] \in {"out", step[c]}
  <2>1. UNCHANGED step => step'[c] = step[c]
    OBVIOUS
  <2> QED BY <2>1, Moves, Lands
<1>3. \A q \in Slots : Taken(q)' = Taken(q) /\ Rotating(q)' = Rotating(q)
  BY <1>1, <1>2, HeldSame
<1>4. Ring' = Ring
  BY <1>1, <1>3 DEF Ring
<1>5. CASE n <= Len(queue_list)
  <2>1. /\ content' = [content EXCEPT ![n] = Append(@, c)]
        /\ published' = [published EXCEPT ![n] = Append(@, c)]
    BY <1>5 DEF do_RCVD_BASIC_PUBLISH, enqueue_queue
  <2>2. n \in Slots
    <3>1. queue_list \in Seq(Names) /\ Len(queue_list) <= MAX_NUM_QUEUE
      BY DEF TypeInv, TypeOK
    <3>2. n \in 1..(Len(queue_list) + 1)
      BY <3>1, PositionIs
    <3> HIDE DEF n
    <3> QED BY <1>5, <3>1, <3>2, BrokerAssumption DEF Slots
  <2> HIDE DEF n
  <2>3. content \in [Slots -> Seq(Conns)]
    BY DEF TypeInv, TypeOK
  <2>4. Queued[n] = Taken(n) \o content[n] /\ Queued'[n] = Taken(n) \o Append(content[n], c)
    BY <1>3, <2>1, <2>2, <2>3 DEF Queued
  <2>5. Queued'[n] = Append(Queued[n], c)
    BY <2>2, <2>4, Parts, ConcatAppend
  <2>6. \A p \in Slots : p # n => Queued'[p] = Queued[p]
    BY <1>3, <2>1, <2>3 DEF Queued
  <2>7. Queued' = [Queued EXCEPT ![n] = Append(@, c)]
    BY <2>2, <2>5, <2>6 DEF Queued
  <2> QED BY <1>1, <1>4, <2>1, <2>2, <2>7 DEF Publishes, RR!Publish
<1>6. CASE ~ (n <= Len(queue_list))
  <2>1. UNCHANGED << content, published >>
    BY <1>6 DEF do_RCVD_BASIC_PUBLISH
  <2> QED BY <1>1, <1>3, <1>4, <2>1 DEF Unseen, Queued
<1> QED BY <1>5, <1>6

\* A consumer joins the ring when its thread puts it there: no consumer of that
\* ring is being rotated, for that needs the mutex.
LEMMA EnlistIs ==
  ASSUME NEW c \in Conns, StepOf(c), ConsumeEnlist(c)
  PROVE  Joins(c)
<1> DEFINE n == my_queue[c]
<1> USE DEF StepOf
<1>1. /\ step[c] \in {"create", "enlist"} /\ server = "up"
      /\ UNCHANGED << content, published, delivered >>
      /\ since' = [since EXCEPT ![c] = Len(delivered[n])]
  BY DEF ConsumeEnlist, In
<1>2. step'[c] = "reply"
  BY Moves, Lands
<1>3. \A q \in Slots : Taken(q)' = Taken(q) /\ Rotating(q)' = Rotating(q)
  BY <1>1, <1>2, HeldSame
<1>4. \A q \in Slots : Rotating(q) = << >>
  <2>1. Nobody("rotate")
    BY <1>1, Exclusive DEF Nobody, Critical
  <2> QED BY <2>1, RotatingIs
<1>5. Queued' = Queued
  BY <1>1, <1>3 DEF Queued
<1>6. n \in Slots /\ state[c] = "RCVD_BASIC_CONSUME"
  BY <1>1 DEF TypeInv, Control, Agree, Ready, Bound
<1>7. client_queue' = [client_queue EXCEPT ![n] = Append(@, c)]
  <2>1. step[c] = "create" => client_queue[n] = << >>
    BY DEF Rings, StillEmpty
  <2> QED BY <2>1 DEF ConsumeEnlist, enqueue_queue
<1>8. client_queue \in [Slots -> Seq(Conns)]
  BY DEF TypeInv, TypeOK
<1>9. \A q \in Slots : Ring[q] = client_queue[q] /\ Ring'[q] = client_queue'[q]
  <2>1. ASSUME NEW q \in Slots
        PROVE  client_queue[q] \in Seq(Conns) /\ client_queue'[q] \in Seq(Conns)
    BY <2>1 DEF TypeInv, TypeOK
  <2>2. ASSUME NEW q \in Slots
        PROVE  /\ client_queue[q] \o Rotating(q) = client_queue[q]
               /\ client_queue'[q] \o Rotating(q)' = client_queue'[q]
    BY <1>3, <1>4, <2>1, <2>2, ConcatEmptySeq
  <2> QED BY <2>2 DEF Ring
<1>10. Ring' = [Ring EXCEPT ![n] = Append(@, c)]
  <2>1. Ring \in [Slots -> Seq(Conns)] /\ DOMAIN Ring' = Slots /\ DOMAIN Ring = Slots
    BY Parts DEF Ring
  <2>2. \A q \in Slots : Ring'[q] = IF q = n THEN Append(Ring[q], c) ELSE Ring[q]
    BY <1>6, <1>7, <1>8, <1>9
  <2>3. Ring' = [q \in Slots |-> Ring'[q]]
    BY DEF Ring
  <2> QED BY <2>1, <2>2, <2>3
<1>11. \A p \in Slots : c \notin ToSet(Ring[p])
  <2>1. ~ Enlisted(c)
    BY <1>1, <1>6 DEF Enlisted
  <2> QED BY <2>1, RingIs
<1> HIDE DEF n, StepOf
<1>12. RR!Subscribe(n, c)
  BY <1>1, <1>5, <1>10, <1>11 DEF RR!Subscribe, RR!ToSet, ToSet
<1> QED BY <1>1, <1>6, <1>12 DEF Joins

\* A message taken off its queue still counts as waiting: the mutex was free, so
\* no other message of the queue is in a thread's hand.
LEMMA TakeIs ==
  ASSUME Locking, NEW c \in Conns, StepOf(c), Take(c)
  PROVE  Unseen
<1> DEFINE n == my_queue[c]
<1> USE DEF StepOf
<1>1. /\ server = "up" /\ state[c] = "CLIENT_TURN" /\ step[c] = "out" /\ holder = NoConn
      /\ UNCHANGED << client_queue, published, delivered, since, my_queue >>
      /\ content[n] # << >>
      /\ msg' = [msg EXCEPT ![c] = Head(content[n])]
      /\ content' = [content EXCEPT ![n] = Tail(@)]
  BY DEF Take, At, Lock, Free, historyVars, first_queue, dequeue_queue
<1>2. step'[c] = "write"
  BY Moves, Lands
<1>3. n \in Slots /\ content \in [Slots -> Seq(Conns)] /\ msg'[c] = Head(content[n])
  BY <1>1 DEF TypeInv, TypeOK, Control, Ready, Bound, Enlisted
<1>4. \A d \in Conns : step[d] \notin Critical
  BY <1>1, BrokerAssumption DEF Mutex
<1>5. \A q \in Slots : Taken(q) = << >> /\ Rotating(q) = << >>
  <2>1. Nobody("write") /\ Nobody("rotate")
    BY <1>4 DEF Nobody, Critical
  <2> QED BY <2>1, TakenIs, RotatingIs
<1>6. \A d \in Conns : d # c => step'[d] = step[d]
  BY OwnEntries DEF ThreadStep, TypeInv, Entries
<1>7. \A q \in Slots : /\ Taken(q)' = IF q = n THEN << Head(content[n]) >> ELSE << >>
                      /\ Rotating(q)' = << >>
  <2>1. Nobody("rotate")'
    BY <1>2, <1>4, <1>6 DEF Nobody, Critical
  <2> QED BY <1>1, <1>2, <1>3, <2>1, HeldAfter
<1>8. Ring' = Ring
  BY <1>1, <1>5, <1>7 DEF Ring
<1>9. \A q \in Slots : Taken(q)' \o content'[q] = Taken(q) \o content[q]
  <2> SUFFICES ASSUME NEW q \in Slots
               PROVE  Taken(q)' \o content'[q] = Taken(q) \o content[q]
    OBVIOUS
  <2>1. content[q] \in Seq(Conns)
    BY <1>3
  <2>2. Taken(q) \o content[q] = content[q]
    BY <1>5, <2>1, ConcatEmptySeq
  <2>3. CASE q = n
    <3>1. Taken(q)' \o content'[q] = << Head(content[n]) >> \o Tail(content[n])
      BY <1>1, <1>3, <1>7, <2>3
    <3> QED BY <1>1, <2>1, <2>2, <2>3, <3>1, HeadThenTail
  <2>4. CASE q # n
    BY <1>1, <1>3, <1>5, <1>7, <2>4
  <2> QED BY <2>3, <2>4
<1>10. Queued' = Queued
  BY <1>9 DEF Queued
<1> QED BY <1>1, <1>8, <1>10 DEF Unseen

\* The delivery is of the oldest message, to the consumer at the front: the one
\* whose turn do_SUBSCRIBED saw.
LEMMA DeliverIs ==
  ASSUME NEW c \in Conns, StepOf(c), Deliver(c)
  PROVE  IsServed(c)
<1> DEFINE n == my_queue[c]
           m == msg[c]
<1> USE DEF StepOf
<1>1. /\ server = "up" /\ step[c] = "write"
      /\ UNCHANGED << content, published, since, my_queue, msg >>
      /\ delivered' = [delivered EXCEPT ![n] = Append(@, [msg |-> m, to |-> c])]
      /\ client_queue' = [client_queue EXCEPT ![n] = dequeue_queue(@)]
  BY DEF Deliver, In
<1>2. step'[c] = "rotate"
  BY Moves, Lands
<1>3. /\ state[c] = "CLIENT_TURN" /\ n \in Slots /\ m \in Conns
      /\ content \in [Slots -> Seq(Conns)] /\ client_queue \in [Slots -> Seq(Conns)]
  BY <1>1 DEF TypeInv, TypeOK, Control, Agree, Ready, Bound, Enlisted
<1>4. client_queue[n] # << >> /\ Head(client_queue[n]) = c
  BY <1>1, <1>3 DEF Rings, TurnStable
<1>5. client_queue'[n] = Tail(client_queue[n]) /\ \A q \in Slots : q # n => client_queue'[q] = client_queue[q]
  BY <1>1, <1>3, <1>4 DEF dequeue_queue
<1>6. \A d \in Conns : d # c => step[d] \notin Critical /\ step'[d] = step[d]
  <2>1. \A d \in Conns : d # c => step[d] \notin Critical
    BY <1>1, Exclusive DEF Critical
  <2> QED BY <2>1, OwnEntries DEF ThreadStep, TypeInv, Entries
<1>7. \A q \in Slots : /\ Taken(q) = IF q = n THEN << m >> ELSE << >>
                      /\ Rotating(q) = << >>
  <2>1. Nobody("rotate")
    BY <1>1, <1>6 DEF Nobody, Critical
  <2> QED BY <1>1, <2>1, TakenIs, RotatingIs
<1>8. \A q \in Slots : /\ Taken(q)' = << >>
                      /\ Rotating(q)' = IF q = n THEN << c >> ELSE << >>
  <2>1. Nobody("write")'
    BY <1>2, <1>6 DEF Nobody, Critical
  <2> QED BY <1>1, <1>2, <2>1, HeldAfter
<1>9. /\ Queued[n] # << >> /\ Head(Queued[n]) = m
      /\ Queued' = [Queued EXCEPT ![n] = Tail(@)]
  <2>1. Queued[n] = << m >> \o content[n] /\ content[n] \in Seq(Conns)
    BY <1>3, <1>7 DEF Queued
  <2>2. Queued[n] # << >> /\ Head(Queued[n]) = m /\ Tail(Queued[n]) = content[n]
    BY <1>3, <2>1, ConcatFront
  <2>3. Queued'[n] = Tail(Queued[n])
    <3>1. Queued'[n] = << >> \o content[n]
      BY <1>1, <1>3, <1>8 DEF Queued
    <3> QED BY <2>1, <2>2, <3>1, ConcatEmptySeq
  <2>4. \A q \in Slots : q # n => Queued'[q] = Queued[q]
    BY <1>1, <1>7, <1>8 DEF Queued
  <2> QED BY <1>3, <2>2, <2>3, <2>4 DEF Queued
<1>10. /\ Ring[n] # << >> /\ Head(Ring[n]) = c
       /\ Ring' = [Ring EXCEPT ![n] = Append(Tail(@), Head(@))]
  <2>1. Ring[n] = client_queue[n]
    <3>1. Ring[n] = client_queue[n] \o << >> /\ client_queue[n] \in Seq(Conns)
      BY <1>3, <1>7 DEF Ring
    <3> QED BY <3>1, ConcatEmptySeq
  <2>2. Ring'[n] = Append(Tail(Ring[n]), c)
    <3>1. Ring'[n] = Tail(client_queue[n]) \o << c >>
      BY <1>3, <1>5, <1>8 DEF Ring
    <3>2. Tail(client_queue[n]) \in Seq(Conns)
      BY <1>3, <1>4, HeadTailProperties
    <3> QED BY <2>1, <3>1, <3>2, AppendIsConcat
  <2>3. \A q \in Slots : q # n => Ring'[q] = Ring[q]
    BY <1>5, <1>7, <1>8 DEF Ring
  <2> QED BY <1>3, <1>4, <2>1, <2>2, <2>3 DEF Ring
<1> QED BY <1>1, <1>3, <1>9, <1>10 DEF IsServed, RR!Deliver

\* Its consumer, taken off the front, counted as at the back already.
LEMMA RotateIs ==
  ASSUME NEW c \in Conns, StepOf(c), Rotate(c)
  PROVE  Unseen
<1> DEFINE n == my_queue[c]
<1> USE DEF StepOf
<1>1. /\ server = "up" /\ step[c] = "rotate"
      /\ UNCHANGED << content, published, delivered, since, my_queue >>
      /\ client_queue' = [client_queue EXCEPT ![n] = Append(@, c)]
  BY DEF Rotate, In, historyVars, enqueue_queue
<1>2. step'[c] = "out"
  BY Moves, Lands
<1>3. n \in Slots /\ client_queue \in [Slots -> Seq(Conns)]
  BY <1>1 DEF TypeInv, TypeOK, Control, Agree, Ready, Bound, Enlisted
<1>4. \A d \in Conns : d # c => step[d] \notin Critical /\ step'[d] = step[d]
  <2>1. \A d \in Conns : d # c => step[d] \notin Critical
    BY <1>1, Exclusive DEF Critical
  <2> QED BY <2>1, OwnEntries DEF ThreadStep, TypeInv, Entries
<1>5. \A q \in Slots : /\ Taken(q) = << >>
                      /\ Rotating(q) = IF q = n THEN << c >> ELSE << >>
  <2>1. Nobody("write")
    BY <1>1, <1>4 DEF Nobody, Critical
  <2> QED BY <1>1, <2>1, TakenIs, RotatingIs
<1>6. \A q \in Slots : Taken(q)' = << >> /\ Rotating(q)' = << >>
  <2>1. Nobody("write")' /\ Nobody("rotate")'
    BY <1>2, <1>4 DEF Nobody, Critical
  <2> QED BY <2>1, HeldAfter
<1>7. \A q \in Slots : client_queue'[q] \o Rotating(q)' = client_queue[q] \o Rotating(q)
  <2> SUFFICES ASSUME NEW q \in Slots
               PROVE  client_queue'[q] \o Rotating(q)' = client_queue[q] \o Rotating(q)
    OBVIOUS
  <2>1. client_queue[q] \in Seq(Conns) /\ client_queue'[q] \in Seq(Conns)
    BY DEF TypeInv, TypeOK
  <2>2. client_queue'[q] \o Rotating(q)' = client_queue'[q]
    BY <1>6, <2>1, ConcatEmptySeq
  <2>3. CASE q = n
    BY <1>1, <1>3, <1>5, <2>1, <2>2, <2>3, AppendIsConcat
  <2>4. CASE q # n
    BY <1>1, <1>3, <1>5, <1>6, <2>4
  <2> QED BY <2>3, <2>4
<1>8. Ring' = Ring /\ Queued' = Queued
  BY <1>1, <1>5, <1>6, <1>7 DEF Ring, Queued
<1> QED BY <1>1, <1>8 DEF Unseen

\* Every step of a thread or a client, seen from outside.
LEMMA StepIs ==
  ASSUME Locking, NEW c \in Conns, StepOf(c)
  PROVE  Unseen \/ Publishes(c) \/ Joins(c) \/ IsServed(c)
<1>1. \/ IdleStep(c) \/ SigPipe(c) \/ ClientCloses(c) \/ do_RCVD_BASIC_PUBLISH(c)
      \/ ConsumeEnlist(c) \/ Take(c) \/ Deliver(c) \/ Rotate(c)
  BY DEF StepOf, ThreadStep, LockingStep, LocalStep, IdleStep
<1> QED BY <1>1, IdleUnseen, EndUnseen, PublishIs, EnlistIs, TakeIs, DeliverIs, RotateIs

-----------------------------------------------------------------------------
\* The properties in terms of what is seen from outside.

Messages(log) == [i \in DOMAIN log |-> log[i].msg]

FifoSeen == \A q \in Slots : published[q] = Messages(delivered[q]) \o Queued[q]

\* The consumers of ring R that subscribed before delivery j of log to e were
\* served between it and delivery k.
ServedBetween(R, log, j, k) ==
  \A d \in ToSet(R) :
    since[d] < j /\ d # log[j].to => \E i \in (j + 1)..(k - 1) : log[i].to = d

FairSeen ==
  \A q \in Slots : \A j, k \in DOMAIN delivered[q] :
    j < k /\ delivered[q][j].to = delivered[q][k].to =>
      ServedBetween(Ring[q], delivered[q], j, k)

Logs == Seq([msg : Conns, to : Conns])

\* The messages of a log are a sequence; a delivery adds its own.
LEMMA MessagesOfLog ==
  ASSUME NEW log \in Logs
  PROVE  /\ Messages(log) \in Seq(Conns)
         /\ \A x \in [msg : Conns, to : Conns] :
              Messages(Append(log, x)) = Append(Messages(log), x.msg)
<1>1. Len(log) \in Nat /\ DOMAIN log = 1..Len(log) /\ \A i \in 1..Len(log) : log[i].msg \in Conns
  <2> DEFINE D == [msg : Conns, to : Conns]
  <2>1. log \in Seq(D)
    BY DEF Logs
  <2>2. Len(log) \in Nat /\ DOMAIN log = 1..Len(log) /\ \A i \in 1..Len(log) : log[i] \in D
    <3> HIDE DEF D
    <3> QED BY <2>1
  <2> QED BY <2>2
<1>2. Messages(log) \in Seq(Conns) /\ Len(Messages(log)) = Len(log)
  BY <1>1 DEF Messages
<1>3. ASSUME NEW x \in [msg : Conns, to : Conns]
      PROVE  Messages(Append(log, x)) = Append(Messages(log), x.msg)
  <2>1. /\ Append(log, x) \in Logs /\ Len(Append(log, x)) = Len(log) + 1
        /\ \A i \in 1..(Len(log) + 1) : Append(log, x)[i] = IF i = Len(log) + 1 THEN x ELSE log[i]
    BY <1>1, <1>3 DEF Logs
  <2>2. /\ Messages(Append(log, x)) \in Seq(Conns)
        /\ Len(Messages(Append(log, x))) = Len(log) + 1
        /\ \A i \in 1..(Len(log) + 1) : Messages(Append(log, x))[i] = Append(log, x)[i].msg
    BY <1>1, <2>1 DEF Messages, Logs
  <2>3. /\ Append(Messages(log), x.msg) \in Seq(Conns)
        /\ Len(Append(Messages(log), x.msg)) = Len(log) + 1
        /\ \A i \in 1..(Len(log) + 1) : Append(Messages(log), x.msg)[i] =
                                          IF i = Len(log) + 1 THEN x.msg ELSE log[i].msg
    BY <1>1, <1>2, <1>3 DEF Messages
  <2>4. \A i \in 1..(Len(log) + 1) : Messages(Append(log, x))[i] = Append(Messages(log), x.msg)[i]
    BY <2>1, <2>2, <2>3
  <2> QED BY <2>2, <2>3, <2>4, SeqEqual
<1> QED BY <1>2, <1>3

\* The shapes of what is seen.
LEMMA SeenTypes ==
  ASSUME TypeInv, Mutex
  PROVE  /\ Queued \in [Slots -> Seq(Conns)] /\ Ring \in [Slots -> Seq(Conns)]
         /\ delivered \in [Slots -> Logs] /\ published \in [Slots -> Seq(Conns)]
         /\ since \in [Conns -> Nat]
BY Parts DEF TypeInv, TypeOK, Logs

\* The two forms agree.
LEMMA FifoForm == TypeInv /\ Mutex => (FifoExactlyOnce <=> FifoSeen)
<1> SUFFICES ASSUME TypeInv, Mutex, NEW q \in Slots
             PROVE  Messages(delivered[q]) \o Taken(q) \o content[q]
                      = Messages(delivered[q]) \o Queued[q]
  BY DEF FifoExactlyOnce, FifoSeen, Messages
<1> DEFINE M == Messages(delivered[q])
           t == Taken(q)
           u == content[q]
<1>1. M \in Seq(Conns)
  BY SeenTypes, MessagesOfLog
<1>2. t \in Seq(Conns) /\ u \in Seq(Conns) /\ Queued[q] = t \o u
  BY Parts
<1> HIDE DEF M, t, u
<1>3. (M \o t) \o u = M \o (t \o u)
  BY <1>1, <1>2, ConcatAssociative
<1> QED BY <1>2, <1>3 DEF M, t, u

LEMMA FairForm == TypeInv /\ Mutex /\ Rings => (Fair <=> FairSeen)
<1> SUFFICES ASSUME TypeInv, Mutex, Rings PROVE Fair <=> FairSeen
  OBVIOUS
<1>1. \A q \in Slots : ToSet(Ring[q]) = {d \in Conns : Enlisted(d) /\ my_queue[d] = q}
  BY RingIs
<1>2. \A q \in Slots : \A j, k \in DOMAIN delivered[q] :
        ServedBetween(Ring[q], delivered[q], j, k) <=>
          \A d \in Conns :
            Enlisted(d) /\ my_queue[d] = q /\ since[d] < j /\ d # delivered[q][j].to =>
              \E i \in (j + 1)..(k - 1) : delivered[q][i].to = d
  BY <1>1 DEF ServedBetween
<1> QED BY <1>2 DEF Fair, FairSeen

-----------------------------------------------------------------------------
\* Exactly once, in order.

LEMMA FifoStep ==
  ASSUME NEW c \in Conns, StepOf(c), FifoSeen,
         Unseen \/ Publishes(c) \/ Joins(c) \/ IsServed(c)
  PROVE  FifoSeen'
<1>1. /\ Queued \in [Slots -> Seq(Conns)] /\ Ring \in [Slots -> Seq(Conns)]
      /\ delivered \in [Slots -> Logs] /\ published \in [Slots -> Seq(Conns)]
  BY SeenTypes DEF StepOf
<1>2. CASE Unseen \/ Joins(c)
  <2>1. UNCHANGED << Queued, delivered, published >>
    BY <1>2 DEF Unseen, Joins, RR!Subscribe
  <2> QED BY <2>1 DEF FifoSeen
<1>3. ASSUME NEW n \in Slots, RR!Publish(n, c),
             published' = [published EXCEPT ![n] = Append(@, c)]
      PROVE  FifoSeen'
  <2>1. delivered' = delivered /\ Queued' = [Queued EXCEPT ![n] = Append(@, c)]
    BY <1>3 DEF RR!Publish
  <2> SUFFICES ASSUME NEW q \in Slots
               PROVE  published'[q] = Messages(delivered[q]) \o Queued'[q]
    BY <2>1 DEF FifoSeen
  <2>2. published[q] = Messages(delivered[q]) \o Queued[q]
    BY DEF FifoSeen
  <2>3. CASE q = n
    <3> DEFINE M == Messages(delivered[n])
               Q == Queued[n]
    <3>1. M \in Seq(Conns) /\ Q \in Seq(Conns)
      BY <1>1, <1>3, MessagesOfLog
    <3>2. published'[n] = Append(published[n], c) /\ Queued'[n] = Append(Q, c)
      BY <1>1, <1>3, <2>1
    <3> HIDE DEF M, Q
    <3>3. M \o Append(Q, c) = Append(M \o Q, c)
      BY <3>1, ConcatAppend
    <3> QED BY <2>2, <2>3, <3>2, <3>3 DEF M, Q
  <2>4. CASE q # n
    BY <1>1, <1>3, <2>1, <2>2, <2>4
  <2> QED BY <2>3, <2>4
<1>4. ASSUME NEW n \in Slots, RR!Deliver(n), UNCHANGED published
      PROVE  FifoSeen'
  <2> DEFINE Q == Queued[n]
             M == Messages(delivered[n])
             x == [msg |-> Head(Q), to |-> Head(Ring[n])]
  <2>1. /\ Q # << >> /\ Ring[n] # << >>
        /\ delivered' = [delivered EXCEPT ![n] = Append(@, x)]
        /\ Queued' = [Queued EXCEPT ![n] = Tail(@)]
    BY <1>4 DEF RR!Deliver
  <2>2. Q \in Seq(Conns) /\ M \in Seq(Conns) /\ x \in [msg : Conns, to : Conns]
    <3>1. Q \in Seq(Conns) /\ Ring[n] \in Seq(Conns)
      BY <1>1, <1>4
    <3>2. Head(Q) \in Conns /\ Head(Ring[n]) \in Conns
      BY <2>1, <3>1, HeadTailProperties
    <3>3. M \in Seq(Conns)
      BY <1>1, <1>4, MessagesOfLog
    <3> QED BY <3>1, <3>2, <3>3
  <2>3. Messages(Append(delivered[n], x)) = Append(M, Head(Q))
    BY <1>1, <1>4, <2>2, MessagesOfLog
  <2>4. Append(M, Head(Q)) \o Tail(Q) = M \o Q
    <3>1. /\ << Head(Q) >> \in Seq(Conns) /\ Tail(Q) \in Seq(Conns) /\ Head(Q) \in Conns
      BY <2>1, <2>2, HeadTailProperties
    <3>2. Append(M, Head(Q)) = M \o << Head(Q) >>
      BY <2>2, <3>1, AppendIsConcat
    <3>3. << Head(Q) >> \o Tail(Q) = Q
      BY <2>1, <2>2, HeadThenTail
    <3> HIDE DEF Q, M
    <3>4. (M \o << Head(Q) >>) \o Tail(Q) = M \o (<< Head(Q) >> \o Tail(Q))
      BY <2>2, <3>1, ConcatAssociative
    <3> QED BY <3>2, <3>3, <3>4
  <2>5. /\ delivered'[n] = Append(delivered[n], x) /\ Queued'[n] = Tail(Q)
        /\ \A q \in Slots : q # n => delivered'[q] = delivered[q] /\ Queued'[q] = Queued[q]
    BY <1>1, <1>4, <2>1
  <2>6. \A q \in Slots : published[q] = Messages(delivered[q]) \o Queued[q]
    BY DEF FifoSeen
  <2>7. published[n] = Messages(delivered'[n]) \o Queued'[n]
    BY <1>4, <2>3, <2>4, <2>5, <2>6
  <2> HIDE DEF Q, M, x
  <2> QED BY <1>4, <2>5, <2>6, <2>7 DEF FifoSeen
<1> QED BY <1>2, <1>3, <1>4 DEF Publishes, IsServed

-----------------------------------------------------------------------------
\* Nobody is served twice while another waits.

\* When the front goes to the back the others keep their order, and come before it;
\* nobody was before it.
LEMMA RotatedOrder ==
  ASSUME NEW S, NEW R \in Seq(S), R # << >>, IsInjective(R)
  PROVE  LET R2 == Append(Tail(R), Head(R)) IN
         /\ ToSet(R2) = ToSet(R)
         /\ \A d, e : d # Head(R) /\ Before(R, d, e) => Before(R2, d, e)
         /\ \A d \in ToSet(R) : d # Head(R) => Before(R2, d, Head(R))
         /\ \A d : ~ Before(R, d, Head(R))
<1> DEFINE n == Len(R)
           R2 == Append(Tail(R), Head(R))
<1>1. /\ n \in Nat \ {0} /\ DOMAIN R = 1..n /\ Head(R) = R[1] /\ Head(R) \in S
      /\ Tail(R) \in Seq(S) /\ Len(Tail(R)) = n - 1
      /\ \A i \in 1..(n - 1) : Tail(R)[i] = R[i + 1]
  BY HeadTailProperties
<1>2. /\ DOMAIN R2 = 1..n
      /\ \A i \in 1..(n - 1) : R2[i] = R[i + 1]
      /\ R2[n] = R[1]
  BY <1>1
<1> HIDE DEF R2
<1>3. \A d : ~ Before(R, d, Head(R))
  BY <1>1 DEF Before, IsInjective
<1>4. ASSUME NEW i \in 2..n PROVE i - 1 \in 1..(n - 1) /\ R2[i - 1] = R[i]
  BY <1>1, <1>2, <1>4
<1>5. ASSUME NEW d, NEW e, d # Head(R), Before(R, d, e)
      PROVE  Before(R2, d, e)
  <2>1. PICK i \in 1..n, k \in 1..n : i < k /\ R[i] = d /\ R[k] = e
    BY <1>1, <1>5 DEF Before
  <2>2. i \in 2..n /\ k \in 2..n
    BY <1>1, <1>5, <2>1
  <2>3. i - 1 \in 1..n /\ k - 1 \in 1..n /\ i - 1 < k - 1 /\ R2[i - 1] = d /\ R2[k - 1] = e
    BY <1>1, <1>4, <2>1, <2>2
  <2> QED BY <1>2, <2>3 DEF Before
<1>6. ASSUME NEW d \in ToSet(R), d # Head(R)
      PROVE  Before(R2, d, Head(R))
  <2>1. PICK i \in 1..n : R[i] = d
    BY <1>1, <1>6 DEF ToSet
  <2>2. i \in 2..n
    BY <1>1, <1>6, <2>1
  <2>3. i - 1 \in 1..n /\ n \in 1..n /\ i - 1 < n /\ R2[i - 1] = d /\ R2[n] = Head(R)
    BY <1>1, <1>2, <1>4, <2>1, <2>2
  <2> QED BY <1>2, <2>3 DEF Before
<1>7. ToSet(R2) = ToSet(R)
  <2>1. Head(R) \in ToSet(R)
    BY EmptyRange
  <2>2. ToSet(Tail(R)) = ToSet(R) \ {Head(R)}
    BY TailDistinct
  <2>3. ToSet(R2) = ToSet(Tail(R)) \union {Head(R)}
    <3> DEFINE t == Tail(R)
               h == Head(R)
    <3>1. t \in Seq(S) /\ h \in S
      BY <1>1
    <3> HIDE DEF t, h
    <3>2. ToSet(Append(t, h)) = ToSet(t) \union {h}
      BY <3>1, AppendDistinct
    <3> QED BY <3>2 DEF R2, t, h
  <2> QED BY <2>1, <2>2, <2>3
<1> QED BY <1>3, <1>5, <1>6, <1>7 DEF R2

\* Who joins the back comes before nobody.
LEMMA JoinedOrder ==
  ASSUME NEW S, NEW R \in Seq(S), NEW x \in S, NEW d, NEW e, Before(R, d, e)
  PROVE  Before(Append(R, x), d, e)
<1>1. PICK i \in DOMAIN R, k \in DOMAIN R : i < k /\ R[i] = d /\ R[k] = e
  BY DEF Before
<1>2. /\ i \in DOMAIN Append(R, x) /\ k \in DOMAIN Append(R, x)
      /\ Append(R, x)[i] = d /\ Append(R, x)[k] = e
  BY <1>1
<1> QED BY <1>1, <1>2 DEF Before

\* A consumer that joins had not subscribed before any delivery made so far.
LEMMA FairJoins ==
  ASSUME NEW c \in Conns, StepOf(c), FairSeen, TurnsComing, Joins(c)
  PROVE  FairSeen' /\ TurnsComing'
<1>1. /\ Ring \in [Slots -> Seq(Conns)] /\ delivered \in [Slots -> Logs]
      /\ since \in [Conns -> Nat]
  BY SeenTypes DEF StepOf
<1>2. PICK n \in Slots : /\ RR!Subscribe(n, c)
                         /\ since' = [since EXCEPT ![c] = Len(delivered[n])]
  BY DEF Joins
<1>3. /\ \A p \in Slots : c \notin ToSet(Ring[p])
      /\ Ring' = [Ring EXCEPT ![n] = Append(@, c)]
      /\ delivered' = delivered
  BY <1>2 DEF RR!Subscribe, RR!ToSet, ToSet
<1>4. ASSUME NEW q \in Slots, NEW d \in ToSet(Ring'[q]), NEW j \in DOMAIN delivered[q],
             since'[d] < j
      PROVE  d \in ToSet(Ring[q]) /\ since[d] = since'[d]
  <2>1. Ring[q] \in Seq(Conns) /\ delivered[q] \in Logs
    BY <1>1, <1>4
  <2>2. j \in 1..Len(delivered[q]) /\ Len(delivered[q]) \in Nat
    BY <1>4, <2>1 DEF Logs
  <2>3. d \in ToSet(Ring[q]) \/ (q = n /\ d = c)
    <3>1. q = n => Ring'[q] = Append(Ring[q], c)
      BY <1>1, <1>3, <1>4
    <3>2. q # n => Ring'[q] = Ring[q]
      BY <1>1, <1>3, <1>4
    <3>3. ToSet(Append(Ring[q], c)) = ToSet(Ring[q]) \union {c}
      BY <2>1, AppendDistinct
    <3>4. CASE q = n
      BY <1>4, <3>1, <3>3, <3>4
    <3>5. CASE q # n
      BY <1>4, <3>2, <3>5
    <3> QED BY <3>4, <3>5
  <2>4. ~ (q = n /\ d = c)
    BY <1>1, <1>2, <1>4, <2>2
  <2>5. d \in ToSet(Ring[q])
    BY <2>3, <2>4
  <2>6. d # c
    BY <1>3, <1>4, <2>5
  <2> QED BY <1>2, <2>5, <2>6, <1>1
<1>5. FairSeen'
  BY <1>3, <1>4 DEF FairSeen, ServedBetween
<1>6. \A q \in Slots : \A d, e : Before(Ring[q], d, e) => Before(Ring'[q], d, e)
  <2> SUFFICES ASSUME NEW q \in Slots, NEW d, NEW e, Before(Ring[q], d, e)
               PROVE  Before(Ring'[q], d, e)
    OBVIOUS
  <2>1. CASE q = n
    BY <1>1, <1>3, <2>1, JoinedOrder
  <2>2. CASE q # n
    BY <1>1, <1>3, <2>2
  <2> QED BY <2>1, <2>2
<1>7. TurnsComing'
  BY <1>3, <1>4, <1>6 DEF TurnsComing
<1> QED BY <1>5, <1>7

\* The front of the ring is served next only when everybody it was waiting for has
\* been; everybody else now comes before it.
LEMMA FairServed ==
  ASSUME NEW c \in Conns, StepOf(c), FairSeen, TurnsComing, IsServed(c)
  PROVE  FairSeen' /\ TurnsComing'
<1>1. /\ Ring \in [Slots -> Seq(Conns)] /\ delivered \in [Slots -> Logs]
      /\ Queued \in [Slots -> Seq(Conns)]
  BY SeenTypes DEF StepOf
<1>2. PICK n \in Slots : RR!Deliver(n) /\ UNCHANGED since
  BY DEF IsServed
<1> DEFINE R == Ring[n]
           h == Head(R)
           L == delivered[n]
           len == Len(L)
           x == [msg |-> Head(Queued[n]), to |-> h]
<1>3. /\ R # << >> /\ Queued[n] # << >>
      /\ Ring' = [Ring EXCEPT ![n] = Append(Tail(R), h)]
      /\ delivered' = [delivered EXCEPT ![n] = Append(L, x)]
  BY <1>2 DEF RR!Deliver
<1>4. R \in Seq(Conns) /\ IsInjective(R) /\ L \in Logs /\ Queued[n] \in Seq(Conns)
  BY <1>1, <1>2, RingIs DEF StepOf
<1>5. /\ ToSet(Ring'[n]) = ToSet(R)
      /\ \A d, e : d # h /\ Before(R, d, e) => Before(Ring'[n], d, e)
      /\ \A d \in ToSet(R) : d # h => Before(Ring'[n], d, h)
      /\ \A d : ~ Before(R, d, h)
  <2> DEFINE R2 == Append(Tail(R), h)
  <2>1. Ring'[n] = R2
    BY <1>1, <1>2, <1>3
  <2>2. /\ ToSet(R2) = ToSet(R)
        /\ \A d, e : d # h /\ Before(R, d, e) => Before(R2, d, e)
        /\ \A d \in ToSet(R) : d # h => Before(R2, d, h)
        /\ \A d : ~ Before(R, d, h)
    <3> HIDE DEF R
    <3> QED BY <1>3, <1>4, RotatedOrder
  <2> HIDE DEF R2, R, h
  <2> QED BY <2>1, <2>2
<1>6. x \in [msg : Conns, to : Conns] /\ x.to = h
  <2>1. h \in Conns /\ Head(Queued[n]) \in Conns
    BY <1>3, <1>4, HeadTailProperties
  <2> QED BY <2>1
<1>7. /\ len \in Nat /\ DOMAIN L = 1..len
      /\ DOMAIN delivered'[n] = 1..(len + 1) /\ Len(delivered'[n]) = len + 1
      /\ \A i \in 1..len : delivered'[n][i] = L[i]
      /\ delivered'[n][len + 1] = x
  <2> DEFINE D == [msg : Conns, to : Conns]
  <2>1. L \in Seq(D) /\ x \in D /\ delivered'[n] = Append(L, x)
    BY <1>1, <1>2, <1>3, <1>4, <1>6 DEF Logs
  <2> HIDE DEF D, L, x
  <2> QED BY <2>1
<1>8. \A q \in Slots : q # n => Ring'[q] = Ring[q] /\ delivered'[q] = delivered[q]
  BY <1>1, <1>3
<1>9. ToSet(Ring'[n]) = ToSet(R)
  BY <1>5
<1>10. ASSUME NEW j \in 1..len, NEW d \in ToSet(R), since[d] < j, d # L[j].to
       PROVE  (\E i \in (j + 1)..len : L[i].to = d) \/ Before(R, d, L[j].to)
  BY <1>2, <1>7, <1>10 DEF TurnsComing
<1> HIDE DEF R, h, L, len, x
<1>11. FairSeen'
  <2> SUFFICES ASSUME NEW q \in Slots, NEW j \in DOMAIN delivered'[q],
                      NEW k \in DOMAIN delivered'[q], j < k,
                      delivered'[q][j].to = delivered'[q][k].to,
                      NEW d \in ToSet(Ring'[q]), since[d] < j, d # delivered'[q][j].to
               PROVE  \E i \in (j + 1)..(k - 1) : delivered'[q][i].to = d
    BY <1>2 DEF FairSeen, ServedBetween
  <2>1. CASE q # n
    BY <1>8, <2>1 DEF FairSeen, ServedBetween
  <2>2. CASE q = n /\ k # len + 1
    <3>1. j \in 1..len /\ k \in 1..len
      BY <1>7, <2>2
    <3>2. L[j].to = L[k].to /\ d \in ToSet(R) /\ d # L[j].to
      BY <1>7, <1>9, <2>2, <3>1
    <3>3. ServedBetween(R, L, j, k)
      BY <1>2, <1>7, <3>1, <3>2 DEF FairSeen, L, R
    <3>4. PICK i \in (j + 1)..(k - 1) : L[i].to = d
      BY <3>2, <3>3 DEF ServedBetween
    <3>5. i \in 1..len
      BY <1>7, <3>1
    <3> QED BY <1>7, <2>2, <3>4, <3>5
  <2>3. CASE q = n /\ k = len + 1
    <3>1. j \in 1..len
      BY <1>7, <2>3
    <3>2. L[j].to = h /\ d \in ToSet(R) /\ d # L[j].to
      BY <1>6, <1>7, <1>9, <2>3, <3>1
    <3>3. PICK i \in (j + 1)..len : L[i].to = d
      BY <1>5, <1>10, <3>1, <3>2
    <3>4. i \in 1..len /\ i \in (j + 1)..(k - 1)
      BY <1>7, <2>3, <3>1
    <3> QED BY <1>7, <2>3, <3>3, <3>4
  <2> QED BY <2>1, <2>2, <2>3
<1>12. TurnsComing'
  <2> SUFFICES ASSUME NEW q \in Slots, NEW j \in DOMAIN delivered'[q],
                      NEW d \in ToSet(Ring'[q]), since[d] < j, d # delivered'[q][j].to
               PROVE  \/ \E i \in (j + 1)..Len(delivered'[q]) : delivered'[q][i].to = d
                      \/ Before(Ring'[q], d, delivered'[q][j].to)
    BY <1>2 DEF TurnsComing
  <2>1. CASE q # n
    BY <1>8, <2>1 DEF TurnsComing
  <2>2. CASE q = n /\ j = len + 1
    BY <1>5, <1>6, <1>7, <1>9, <2>2
  <2>3. CASE q = n /\ j # len + 1
    <3>1. j \in 1..len /\ d \in ToSet(R) /\ d # L[j].to /\ delivered'[n][j] = L[j]
      BY <1>7, <1>9, <2>3
    <3>2. CASE \E i \in (j + 1)..len : L[i].to = d
      BY <1>7, <2>3, <3>1, <3>2
    <3>3. CASE Before(R, d, L[j].to) /\ d # h
      BY <1>5, <2>3, <3>1, <3>3
    <3>4. CASE d = h
      BY <1>6, <1>7, <2>3, <3>1, <3>4
    <3> QED BY <1>10, <3>1, <3>2, <3>3, <3>4
  <2> QED BY <2>1, <2>2, <2>3
<1> QED BY <1>11, <1>12

-----------------------------------------------------------------------------
\* The invariant, and what it implies.

\* Nothing published, nobody served.
LEMMA DeliveriesInit == Init => Deliveries
<1> SUFFICES ASSUME Init PROVE Deliveries
  OBVIOUS
<1>1. /\ published = [q \in Slots |-> << >>] /\ delivered = [q \in Slots |-> << >>]
      /\ content = [q \in Slots |-> << >>] /\ holder = NoConn
  BY DEF Init
<1>2. Fair /\ TurnsComing
  BY <1>1 DEF Fair, TurnsComing
<1>3. FifoExactlyOnce
  <2>1. \A q \in Slots : Taken(q) = << >>
    BY <1>1 DEF Taken
  <2>2. \A q \in Slots : [i \in DOMAIN delivered[q] |-> delivered[q][i].msg] = << >>
    BY <1>1
  <2> QED BY <1>1, <2>1, <2>2 DEF FifoExactlyOnce
<1> QED BY <1>2, <1>3 DEF Deliveries

\* Every step keeps the deliveries right.
LEMMA DeliveriesNext ==
  Locking /\ Guarded /\ Guarded' /\ Deliveries /\ [Next]_vars => Deliveries'
<1> SUFFICES ASSUME Locking, Guarded, Guarded', Deliveries, [Next]_vars
             PROVE  Deliveries'
  OBVIOUS
<1>1. FifoSeen /\ FairSeen /\ TurnsComing
  BY FifoForm, FairForm DEF Guarded, Deliveries
<1>2. FifoSeen' /\ FairSeen' /\ TurnsComing' => Deliveries'
  <2>1. (TypeInv /\ Mutex => (FifoExactlyOnce <=> FifoSeen))'
    BY FifoForm, PTL
  <2>2. (TypeInv /\ Mutex /\ Rings => (Fair <=> FairSeen))'
    BY FairForm, PTL
  <2> QED BY <2>1, <2>2 DEF Guarded, Deliveries
<1>3. ASSUME NEW c \in Conns, ThreadStep(c)
      PROVE  FifoSeen' /\ FairSeen' /\ TurnsComing'
  <2>1. StepOf(c)
    BY <1>3 DEF StepOf, Guarded
  <2>2. Unseen \/ Publishes(c) \/ Joins(c) \/ IsServed(c)
    BY <2>1, StepIs
  <2>3. FifoSeen'
    BY <1>1, <2>1, <2>2, FifoStep
  <2>4. CASE Unseen \/ Publishes(c)
    <3>1. UNCHANGED << Ring, delivered, since >>
      BY <2>4 DEF Unseen, Publishes, RR!Publish
    <3>2. FairSeen' /\ TurnsComing'
      BY <1>1, <3>1 DEF FairSeen, ServedBetween, TurnsComing
    <3> QED BY <2>3, <3>2
  <2>5. CASE Joins(c)
    BY <1>1, <2>1, <2>3, <2>5, FairJoins
  <2>6. CASE IsServed(c)
    BY <1>1, <2>1, <2>3, <2>6, FairServed
  <2> QED BY <2>2, <2>4, <2>5, <2>6
<1>4. CASE UNCHANGED vars
  <2>1. UNCHANGED << Queued, Ring, published, delivered, since >>
    BY <1>4 DEF vars, threadVars, sharedVars, historyVars, Queued, Ring, Taken, Rotating
  <2>2. FifoSeen'
    BY <1>1, <2>1 DEF FifoSeen
  <2>3. FairSeen' /\ TurnsComing'
    BY <1>1, <2>1 DEF FairSeen, ServedBetween, TurnsComing
  <2> QED BY <1>2, <2>2, <2>3
<1> QED BY <1>2, <1>3, <1>4 DEF Next, Idle, ThreadStep

\* The full invariant: what the critical sections keep true, and the history of the
\* deliveries.
THEOREM Delivering == Locking => (Spec => []IInv)
<1> SUFFICES ASSUME Locking PROVE Spec => []IInv
  OBVIOUS
<1>1. Init => IInv
  BY GuardedInit, DeliveriesInit DEF IInv
<1>2. IInv /\ [Next]_vars => IInv'
  BY GuardedNext, DeliveriesNext DEF IInv
<1> QED BY <1>1, <1>2, PTL DEF Spec

\* Every message published is delivered or waits, once, in the order of publication.
THEOREM OnceInOrder == Locking => (Spec => []FifoExactlyOnce)
<1>1. IInv => FifoExactlyOnce
  BY DEF IInv, Deliveries
<1> QED BY Delivering, <1>1, PTL

\* No consumer is served twice while another that had subscribed waits.
THEOREM NobodyStarves == Locking => (Spec => []Fair)
<1>1. IInv => Fair
  BY DEF IInv, Deliveries
<1> QED BY Delivering, <1>1, PTL

\* The threads implement the round robin: whatever the interleaving, each step of one
\* of them is a publication, a subscription, a delivery or nothing to the clients.
THEOREM Implements == Locking => (Spec => ImplementsRoundRobin)
<1> SUFFICES ASSUME Locking PROVE Spec => ImplementsRoundRobin
  OBVIOUS
<1>1. Init => RR!Init
  <2> SUFFICES ASSUME Init PROVE RR!Init
    OBVIOUS
  <2>1. /\ delivered = [q \in Slots |-> << >>] /\ client_queue = [q \in Slots |-> << >>]
        /\ content = [q \in Slots |-> << >>] /\ holder = NoConn
    BY DEF Init
  <2>2. \A q \in Slots : Taken(q) = << >> /\ Rotating(q) = << >>
    BY <2>1 DEF Taken, Rotating
  <2>3. << >> \o << >> = << >>
    OBVIOUS
  <2>4. Queued = [q \in Slots |-> << >>] /\ Ring = [q \in Slots |-> << >>]
    BY <2>1, <2>2, <2>3 DEF Queued, Ring
  <2> QED BY <2>1, <2>4 DEF RR!Init
<1>2. IInv /\ IInv' /\ [Next]_vars => [RR!Next]_(RR!rrVars)
  <2> SUFFICES ASSUME IInv, IInv', [Next]_vars PROVE [RR!Next]_(RR!rrVars)
    OBVIOUS
  <2>1. ASSUME NEW c \in Conns, ThreadStep(c) PROVE [RR!Next]_(RR!rrVars)
    <3>1. StepOf(c)
      BY <2>1 DEF StepOf, IInv, Guarded
    <3>2. Unseen \/ Publishes(c) \/ Joins(c) \/ IsServed(c)
      BY <3>1, StepIs
    <3> QED BY <3>2 DEF Unseen, Publishes, Joins, IsServed, RR!Next, RR!rrVars
  <2>2. CASE UNCHANGED vars
    BY <2>2 DEF vars, threadVars, sharedVars, historyVars, RR!rrVars, Queued, Ring,
                Taken, Rotating
  <2> QED BY <2>1, <2>2 DEF Next, Idle, ThreadStep
<1> QED BY <1>1, <1>2, Delivering, PTL DEF Spec, ImplementsRoundRobin, RR!Spec

=============================================================================
