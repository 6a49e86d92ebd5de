------------------------------- MODULE Broker -------------------------------
(***************************************************************************)
(* The AMQP server from the moment its connections wait for a command: one *)
(* thread per connection runs handle_client's loop over the state          *)
(* functions of state.c, and all of them share _server_data.  A step is    *)
(* what a thread does between two points where another thread can matter:  *)
(* a critical section is one step, or several when it blocks or when the   *)
(* order of its parts is what the mutex protects.                          *)
(*                                                                         *)
(* Every connection carries out one command, so a published message is     *)
(* named by the connection that published it.  Indexes start at 1 where    *)
(* the code's start at 0; a client_queue entry that is NULL is << >>.      *)
(***************************************************************************)
EXTENDS StateMachine, SequencesExt, FiniteSets

CONSTANTS
  Conns,          \* the connections, each with its client and its thread
  NoConn,         \* not a connection
  Names,          \* the queue names that the clients use
  Requests,       \* Requests[c]: the commands that the client of c may send
  MayClose,       \* the clients that may close their socket at any moment
  Orderly,        \* clients only use a queue that has been declared
  Locking,        \* FALSE for the earlier server, which never takes the mutex
  MAX_NUM_QUEUE   \* the length of queue_list and client_queue

\* closing: a Channel.Close was read together with the publish.
Request == [kind : {"declare", "publish", "consume", "other"},
            queue : Names, closing : BOOLEAN]
NoRequest == [kind |-> "none", queue |-> NoConn, closing |-> FALSE]

ASSUME BrokerAssumption ==
  /\ NoConn \notin Conns
  /\ Requests \in [Conns -> SUBSET Request]
  /\ MayClose \subseteq Conns
  /\ Orderly \in BOOLEAN
  /\ Locking \in BOOLEAN
  /\ MAX_NUM_QUEUE \in Nat
  /\ IsFiniteSet(Names)
  /\ Cardinality(Names) <= MAX_NUM_QUEUE

VARIABLES
  \* of a thread (client_thread)
  state,          \* current_state
  step,           \* how far it is inside the function of that state
  request,        \* the command in buf
  my_queue,       \* client_queue: the index of the queue it consumes from
  msg,            \* the message it has taken off that queue
  peer,           \* its client's socket: open, closed, or known to be reset
  \* shared (_server_data and its mutex)
  holder,         \* the thread that holds the mutex
  queue_list,     \* the names of the queues, by index
  content,        \* the messages in each queue
  client_queue,   \* the ring of consumers of each queue
  server,         \* whether the process runs, or what ended it
  \* history
  published,      \* the messages ever put in each queue
  delivered,      \* the deliveries written to sockets from each queue
  since           \* how many deliveries its queue had made when c subscribed

threadVars  == << state, step, request, my_queue, msg >>
sharedVars  == << queue_list, content, client_queue >>
historyVars == << published, delivered, since >>
vars == << threadVars, peer, holder, sharedVars, server, historyVars >>

Slots == 1..MAX_NUM_QUEUE

\* out: between two functions, or waiting for the mutex or for the client;
\* eof: read_frame spins on a socket that has ended; ended: the thread returned.
Step == {"out", "insert", "create", "enlist", "reply", "write", "rotate", "eof", "ended"}

\* The states of an open connection.
Serving == {enum[i] : i \in 10..21}

Init ==
  /\ state = [c \in Conns |-> "WAIT_COMMAND"]
  /\ step = [c \in Conns |-> "out"]
  /\ request = [c \in Conns |-> NoRequest]
  /\ my_queue = [c \in Conns |-> 0]
  /\ msg = [c \in Conns |-> NoConn]
  /\ peer = [c \in Conns |-> "open"]
  /\ holder = NoConn
  /\ queue_list = << >>
  /\ content = [q \in Slots |-> << >>]
  /\ client_queue = [q \in Slots |-> << >>]
  /\ server = "up"
  /\ published = [q \in Slots |-> << >>]
  /\ delivered = [q \in Slots |-> << >>]
  /\ since = [c \in Conns |-> 0]

-----------------------------------------------------------------------------
\* queue.c, which keeps both the messages of a queue and its ring.
enqueue_AtFront(s, x) == << x >> \o s
enqueue_LostIfEmpty(s, x) == IF s = << >> THEN s ELSE Append(s, x)
enqueue_queue(s, x) == Append(s, x)

dequeue_KeepsFirst(s) == s
dequeue_DropsAll(s) == << >>
dequeue_queue(s) == IF s = << >> THEN s ELSE Tail(s)

first_queue(s) == Head(s)

\* Where a thread is.
At(c, s) == server = "up" /\ state[c] = s /\ step[c] = "out"
In(c, s) == server = "up" /\ step[c] = s

\* The function of the current state returns n; or it goes on to the point s.
Return(c, n) ==
  /\ state' = [state EXCEPT ![c] = Goto(@, n)]
  /\ step' = [step EXCEPT ![c] = "out"]
GoOn(c, s) == step' = [step EXCEPT ![c] = s] /\ UNCHANGED state

\* The mutex: taken and kept, released, or taken and released in one step.
Free == Locking => holder = NoConn
Lock_NotKept(c) == Free /\ UNCHANGED holder
Lock(c) == Free /\ holder' = IF Locking THEN c ELSE NoConn
Unlock_Forgotten == UNCHANGED holder
Unlock == holder' = NoConn
LockUnlock == Free /\ UNCHANGED holder

\* The loops that look a queue up by name stop past the end if it is not there.
Position(name) ==
  CHOOSE i \in 1..(Len(queue_list) + 1) :
    /\ i <= Len(queue_list) => queue_list[i] = name
    /\ \A j \in 1..(i - 1) : queue_list[j] # name

\* A write to a socket.  The first one after the client has gone succeeds and
\* makes the client's host answer with a reset; once that has come, the next
\* write raises SIGPIPE, which the server does not handle.
Send(c) ==
  /\ peer[c] # "reset"
  /\ \E p \in (IF peer[c] = "open" THEN {"open"} ELSE {"closed", "reset"}) :
       peer' = [peer EXCEPT ![c] = p]

Writing(c) ==
  \/ step[c] \in {"reply", "write"}
  \/ step[c] = "out" /\ state[c] \in {"RCVD_CHANNEL_CLOSE", "RCVD_CONNECTION_CLOSE"}

SigPipe(c) ==
  /\ server = "up"
  /\ Writing(c)
  /\ peer[c] = "reset"
  /\ server' = "sigpipe"
  /\ UNCHANGED << threadVars, peer, holder, sharedVars, historyVars >>

-----------------------------------------------------------------------------
\* The command: which one the frame holds decides the code returned.

MethodCode_PastTheRow ==
  [declare |-> 0, publish |-> 1, consume |-> 2, other |-> 4]
MethodCode ==
  [declare |-> 0, publish |-> 1, consume |-> 2, other |-> 3]

do_WAIT_COMMAND(c) ==
  /\ At(c, "WAIT_COMMAND")
  /\ \E r \in Requests[c] :
       /\ Orderly => \/ r.kind = "declare"
                     \/ r.kind # "other" /\ r.queue \in ToSet(queue_list)
       /\ request' = [request EXCEPT ![c] = r]
       /\ Return(c, MethodCode[r.kind])
  /\ UNCHANGED << my_queue, msg, peer, holder, sharedVars, server, historyVars >>

\* Queue.Declare: look for the name, append a queue if it is not there, reply.
DeclareSearch(c) ==
  /\ At(c, "RCVD_QUEUE_DECLARE")
  /\ IF request[c].queue \in ToSet(queue_list)
     THEN LockUnlock /\ GoOn(c, "reply")
     ELSE Lock(c) /\ GoOn(c, "insert")
  /\ UNCHANGED << request, my_queue, msg, peer, sharedVars, server, historyVars >>

\* The array has no room check: one queue too many writes past its end.
DeclareInsert(c) ==
  /\ In(c, "insert")
  /\ IF Len(queue_list) < MAX_NUM_QUEUE
     THEN /\ queue_list' = Append(queue_list, request[c].queue)
          /\ UNCHANGED server
     ELSE server' = "overrun" /\ UNCHANGED queue_list
  /\ Unlock
  /\ GoOn(c, "reply")
  /\ UNCHANGED << request, my_queue, msg, peer, content, client_queue, historyVars >>

\* Queue.Declare-Ok or Basic.Consume-Ok, written after the mutex is released.
Reply(c) ==
  /\ In(c, "reply")
  /\ Send(c)
  /\ Return(c, 0)
  /\ UNCHANGED << request, my_queue, msg, holder, sharedVars, server, historyVars >>

\* Basic.Publish: a queue that is not there is a null pointer.
do_RCVD_BASIC_PUBLISH(c) ==
  /\ At(c, "RCVD_BASIC_PUBLISH")
  /\ LockUnlock
  /\ LET q == Position(request[c].queue) IN
     IF q <= Len(queue_list)
     THEN /\ content' = [content EXCEPT ![q] = enqueue_queue(@, c)]
          /\ published' = [published EXCEPT ![q] = Append(@, c)]
          /\ Return(c, IF request[c].closing THEN 1 ELSE 0)
          /\ UNCHANGED server
     ELSE server' = "segv" /\ UNCHANGED << state, step, content, published >>
  /\ UNCHANGED << request, my_queue, msg, peer, queue_list, client_queue, delivered, since >>

\* A client is in its ring, or about to go back into it.
Enlisted(c) ==
  /\ state[c] \in {"RCVD_BASIC_CONSUME", "SUBSCRIBED", "CLIENT_TURN", "WAIT_BASIC_ACK"}
  /\ state[c] = "RCVD_BASIC_CONSUME" => step[c] = "reply"

\* Basic.Consume: find the queue's index, create its ring if there is none,
\* join the ring, reply.  A name that is not there gives the index past the
\* end, and the client joins the ring of the queue declared next.
ConsumeSearch(c) ==
  /\ At(c, "RCVD_BASIC_CONSUME")
  /\ Lock(c)
  /\ LET q == Position(request[c].queue)
         null == \A d \in Conns : Enlisted(d) => my_queue[d] # q
     IN  /\ my_queue' = [my_queue EXCEPT ![c] = q]
         /\ server' = IF q <= MAX_NUM_QUEUE THEN server ELSE "overrun"
         /\ GoOn(c, IF null THEN "create" ELSE "enlist")
  /\ UNCHANGED << request, msg, peer, sharedVars, historyVars >>

ConsumeEnlist(c) ==
  /\ In(c, "create") \/ In(c, "enlist")
  /\ LET q == my_queue[c] IN
     /\ client_queue' = [client_queue EXCEPT ![q] =
                            enqueue_queue(IF step[c] = "create" THEN << >> ELSE @, c)]
     /\ since' = [since EXCEPT ![c] = Len(delivered[q])]
  /\ Unlock
  /\ GoOn(c, "reply")
  /\ UNCHANGED << request, my_queue, msg, peer, queue_list, content, server,
                  published, delivered >>

-----------------------------------------------------------------------------
\* The consumer's loop: wait for the turn, deliver, wait for the ack.

\* One look at the front of the ring; the function loops until it is c.
do_SUBSCRIBED(c) ==
  /\ At(c, "SUBSCRIBED")
  /\ LockUnlock
  /\ LET ring == client_queue[my_queue[c]] IN
     /\ server' = IF ring = << >> THEN "segv" ELSE server
     /\ IF ring # << >> /\ first_queue(ring) = c THEN Return(c, 0)
                                                 ELSE UNCHANGED << state, step >>
  /\ UNCHANGED << request, my_queue, msg, peer, sharedVars, historyVars >>

\* CLIENT_TURN, when there is nothing to deliver.
NothingToDeliver(c) ==
  /\ At(c, "CLIENT_TURN")
  /\ LockUnlock
  /\ IF my_queue[c] <= Len(queue_list)
     THEN content[my_queue[c]] = << >> /\ Return(c, 1) /\ UNCHANGED server
     ELSE server' = "segv" /\ UNCHANGED << state, step >>
  /\ UNCHANGED << request, my_queue, msg, peer, sharedVars, historyVars >>

\* CLIENT_TURN otherwise: take the message, write it with the mutex held, take
\* the front of the ring off, put this client at its back.
Take(c) ==
  /\ At(c, "CLIENT_TURN")
  /\ my_queue[c] <= Len(queue_list)
  /\ content[my_queue[c]] # << >>
  /\ Lock(c)
  /\ msg' = [msg EXCEPT ![c] = first_queue(content[my_queue[c]])]
  /\ content' = [content EXCEPT ![my_queue[c]] = dequeue_queue(@)]
  /\ GoOn(c, "write")
  /\ UNCHANGED << request, my_queue, peer, queue_list, client_queue, server, historyVars >>

Deliver(c) ==
  /\ In(c, "write")
  /\ Send(c)
  /\ LET q == my_queue[c] IN
     /\ delivered' = [delivered EXCEPT ![q] = Append(@, [msg |-> msg[c], to |-> c])]
     /\ client_queue' = [client_queue EXCEPT ![q] = dequeue_queue(@)]
  /\ GoOn(c, "rotate")
  /\ UNCHANGED << request, my_queue, msg, holder, queue_list, content, server,
                  published, since >>

Rotate(c) ==
  /\ In(c, "rotate")
  /\ client_queue' = [client_queue EXCEPT ![my_queue[c]] = enqueue_queue(@, c)]
  /\ msg' = [msg EXCEPT ![c] = NoConn]
  /\ Unlock
  /\ Return(c, 0)
  /\ UNCHANGED << request, my_queue, peer, queue_list, content, server, historyVars >>

-----------------------------------------------------------------------------
\* Reading an answer, closing, the end of the thread; and the client's end.

Answer == {"WAIT_BASIC_ACK", "WAIT_CHANNEL_CLOSE", "WAIT_CONNECTION_CLOSE"}

\* A frame comes: any frame will do, and it may have been sent before a close.
Read(c) ==
  /\ \E s \in Answer : At(c, s)
  /\ Return(c, 0)
  /\ UNCHANGED << request, my_queue, msg, peer, holder, sharedVars, server, historyVars >>

\* The end of the stream comes: read_frame loops for ever on a read of 0 bytes.
ReadEof(c) ==
  /\ \E s \in Answer \union {"WAIT_COMMAND"} : At(c, s)
  /\ peer[c] # "open"
  /\ GoOn(c, "eof")
  /\ UNCHANGED << request, my_queue, msg, peer, holder, sharedVars, server, historyVars >>

CloseOk(c) ==
  /\ At(c, "RCVD_CHANNEL_CLOSE") \/ At(c, "RCVD_CONNECTION_CLOSE")
  /\ Send(c)
  /\ Return(c, 0)
  /\ UNCHANGED << request, my_queue, msg, holder, sharedVars, server, historyVars >>

\* handle_client after its loop: print the queues, close the socket, return.
Finish(c) ==
  /\ At(c, "FINAL")
  /\ LockUnlock
  /\ GoOn(c, "ended")
  /\ UNCHANGED << request, my_queue, msg, peer, sharedVars, server, historyVars >>

ClientCloses(c) ==
  /\ server = "up"
  /\ c \in MayClose
  /\ peer[c] = "open"
  /\ step[c] # "ended"
  /\ peer' = [peer EXCEPT ![c] = "closed"]
  /\ UNCHANGED << threadVars, holder, sharedVars, server, historyVars >>

\* Nothing is left to do: the process has died, or every thread has returned
\* or spins in read_frame.  Any other state without a step is a deadlock.
Idle ==
  /\ server # "up" \/ \A c \in Conns : step[c] \in {"eof", "ended"}
  /\ UNCHANGED vars

\* The steps that begin by taking the mutex, and the others a thread takes
\* without waiting for its client.
LockingStep(c) ==
  \/ DeclareSearch(c)
  \/ do_RCVD_BASIC_PUBLISH(c)
  \/ ConsumeSearch(c)
  \/ do_SUBSCRIBED(c)
  \/ NothingToDeliver(c)
  \/ Take(c)
  \/ Finish(c)

LocalStep(c) ==
  \/ DeclareInsert(c)
  \/ Reply(c)
  \/ ConsumeEnlist(c)
  \/ Deliver(c)
  \/ Rotate(c)
  \/ CloseOk(c)
  \/ SigPipe(c)

Next ==
  \/ \E c \in Conns :
       \/ do_WAIT_COMMAND(c)
       \/ LockingStep(c)
       \/ LocalStep(c)
       \/ Read(c)
       \/ ReadEof(c)
       \/ ClientCloses(c)
  \/ Idle

Spec == Init /\ [][Next]_vars

\* A thread keeps running; a thread that keeps trying gets the mutex; a client
\* that has not gone reads what it is sent and answers what it is asked; the
\* end of a stream is noticed.  A client need not send a command.
Fairness ==
  \A c \in Conns :
    /\ SF_vars(LockingStep(c))
    /\ WF_vars(LocalStep(c))
    /\ WF_vars(Read(c) /\ peer[c] = "open")
    /\ WF_vars(ReadEof(c))

FairSpec == Spec /\ Fairness

-----------------------------------------------------------------------------
\* Every variable has the shape of the structure it stands for, and no connection
\* that has been opened goes back to a state of the handshake.
TypeOK ==
  /\ state \in [Conns -> Serving]
  /\ step \in [Conns -> Step]
  /\ request \in [Conns -> Request \union {NoRequest}]
  /\ my_queue \in [Conns -> 0..(MAX_NUM_QUEUE + 1)]
  /\ msg \in [Conns -> Conns \union {NoConn}]
  /\ peer \in [Conns -> {"open", "closed", "reset"}]
  /\ holder \in Conns \union {NoConn}
  /\ queue_list \in Seq(Names) /\ Len(queue_list) <= MAX_NUM_QUEUE
  /\ content \in [Slots -> Seq(Conns)]
  /\ client_queue \in [Slots -> Seq(Conns)]
  /\ server \in {"up", "segv", "sigpipe", "overrun"}
  /\ published \in [Slots -> Seq(Conns)]
  /\ delivered \in [Slots -> Seq([msg : Conns, to : Conns])]
  /\ since \in [Conns -> Nat]

\* do_SUBSCRIBED reads the front of the ring, releases the mutex, and only then
\* compares: whatever the other threads did in between, a thread in CLIENT_TURN
\* is still at the front, so the client it takes off the ring is its own.
TurnStable ==
  \A c \in Conns :
    state[c] = "CLIENT_TURN" /\ step[c] # "rotate" =>
      /\ client_queue[my_queue[c]] # << >>
      /\ Head(client_queue[my_queue[c]]) = c

\* A ring holds each consumer of its queue once, and nobody else: nobody is
\* lost or doubled by two threads subscribing or rotating at the same time.
RingMatches ==
  \A q \in Slots :
    /\ IsInjective(client_queue[q])
    /\ ToSet(client_queue[q]) =
         {c \in Conns : Enlisted(c) /\ my_queue[c] = q /\ step[c] # "rotate"}

\* "Caso alguma fila com esse nome já exista, o servidor continua" (state.c):
\* however many clients declare a name, there is one queue of that name.
OneQueuePerName == IsInjective(queue_list)

\* So the names, of which there are at most MAX_NUM_QUEUE, never fill the
\* arrays past their end, although no function checks for room.
NoOverrun == Len(queue_list) <= MAX_NUM_QUEUE /\ server # "overrun"

\* What a thread has taken off queue q and not written yet.
Taken(q) ==
  IF holder # NoConn /\ step[holder] = "write" /\ my_queue[holder] = q
  THEN << msg[holder] >> ELSE << >>

\* Every message published is delivered or still queued, once, in the order of
\* publication, whichever threads put it in and took it out.
FifoExactlyOnce ==
  \A q \in Slots :
    published[q] = [i \in DOMAIN delivered[q] |-> delivered[q][i].msg]
                     \o Taken(q) \o content[q]

\* Round robin: between two deliveries to a consumer, every other consumer that
\* had subscribed before the first of them has been served.
Fair ==
  \A q \in Slots : \A j, k \in DOMAIN delivered[q] :
    j < k /\ delivered[q][j].to = delivered[q][k].to =>
      \A d \in Conns :
        Enlisted(d) /\ my_queue[d] = q /\ since[d] < j /\ d # delivered[q][j].to =>
          \E i \in (j + 1)..(k - 1) : delivered[q][i].to = d

\* The consumer that the ring is missing while its thread rotates it.
Rotating(q) ==
  IF holder # NoConn /\ step[holder] = "rotate" /\ my_queue[holder] = q
  THEN << holder >> ELSE << >>

\* What the round robin of module RoundRobin sees of the queues and their rings.  A
\* delivery takes place when it is written: until then the message counts as
\* queued, and from then on its consumer counts as at the back.
Queued == [q \in Slots |-> Taken(q) \o content[q]]
Ring   == [q \in Slots |-> client_queue[q] \o Rotating(q)]

\* The threads implement that round robin.
RR == INSTANCE RoundRobin WITH
        Consumers <- Conns,
        Messages <- Conns,
        queued <- Queued,
        ring <- Ring,
        log <- delivered

ImplementsRoundRobin == RR!Spec

\* A null pointer ends the process only because of a client that published to or
\* consumed from a queue nobody had declared: no interleaving of clients that
\* use declared queues leaves a ring empty or an index without its queue.
CrashOnlyForUndeclared ==
  server = "segv" =>
    \E c \in Conns : /\ state[c] \in {"RCVD_BASIC_PUBLISH", "CLIENT_TURN"}
                     /\ request[c].queue \notin ToSet(queue_list)

\* The index a consumer has when it joins a ring: of the queue it asked for or, if that
\* one is not declared, of the queue declared next.
JoinsAsAsked(c) ==
  IF request[c].queue \in ToSet(queue_list)
  THEN my_queue[c] \in DOMAIN queue_list /\ queue_list[my_queue[c]] = request[c].queue
  ELSE my_queue[c] = Len(queue_list) + 1

\* What a step may do to consumers and their queues.
KeepsSubscribers ==
  /\ \A c \in Conns :
       /\ ~Enlisted(c) /\ Enlisted(c)' => JoinsAsAsked(c)'
       /\ Enlisted(c) /\ Enlisted(c)' => my_queue'[c] = my_queue[c]
  /\ \A i \in DOMAIN queue_list : i \in DOMAIN queue_list' /\ queue_list'[i] = queue_list[i]

\* "inscreve cliente na fila requerida" (state.c:315): a consumer of a declared queue joins
\* the ring of exactly this queue, whatever was declared since its search began, and stays
\* there, the indexes keeping their queues.  A consumer of a queue not declared does not
\* get what the comment says: the code puts it into the ring of whichever queue is
\* declared next, of that name or not, and of no other.
SubscribedAsAsked == [][KeepsSubscribers]_vars

-----------------------------------------------------------------------------
\* Liveness, under FairSpec and with clients that stay.

MaySend(kind) == {c \in Conns : \E r \in Requests[c] : r.kind = kind}

\* A queued message is delivered, once the queue has a consumer.
MessageDelivered ==
  \A q \in Slots : \A m \in MaySend("publish") :
    (m \in ToSet(content[q]) /\ client_queue[q] # << >>)
      ~> (\E i \in DOMAIN delivered[q] : delivered[q][i].msg = m)

\* A client that declared or published is answered to the end.
ServedToTheEnd ==
  \A c \in MaySend("declare") \union MaySend("publish") :
    (state[c] \in {"RCVD_QUEUE_DECLARE", "RCVD_BASIC_PUBLISH"}) ~> (step[c] = "ended")

\* A consumer that has closed while the server waits for its ack: the
\* connection ends, as the protocol notes say (notas.txt).
CloseEndsConsumer ==
  \A c \in MaySend("consume") :
    (state[c] = "WAIT_BASIC_ACK" /\ peer[c] = "closed")
      ~> (step[c] = "ended" \/ server # "up")

=============================================================================
