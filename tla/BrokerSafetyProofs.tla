------------------------- MODULE BrokerSafetyProofs -------------------------
(***************************************************************************)
(* Type correctness of Broker, with the mutex or without it, and the       *)
(* safety of the server that takes it, for every set of clients and of     *)
(* names.  TypeInv is inductive for both servers, Guarded for the one with *)
(* the mutex, so the properties they are made of hold in every reachable   *)
(* state.                                                                  *)
(***************************************************************************)
EXTENDS BrokerInvariant, FiniteSetTheorems, SequenceLemmas, TLAPS

\* The transition table, entry by entry; the last code of WAIT_COMMAND is past the
\* end of its row.
LEMMA GotoValues ==
  /\ Goto("WAIT_COMMAND", 0) = "RCVD_QUEUE_DECLARE"
  /\ Goto("WAIT_COMMAND", 1) = "RCVD_BASIC_PUBLISH"
  /\ Goto("WAIT_COMMAND", 2) = "RCVD_BASIC_CONSUME"
  /\ Goto("WAIT_COMMAND", 3) = "WAIT_CHANNEL_CLOSE"
  /\ Goto("RCVD_QUEUE_DECLARE", 0) = "WAIT_CHANNEL_CLOSE"
  /\ Goto("RCVD_BASIC_PUBLISH", 0) = "WAIT_CHANNEL_CLOSE"
  /\ Goto("RCVD_BASIC_PUBLISH", 1) = "RCVD_CONNECTION_CLOSE"
  /\ Goto("RCVD_BASIC_CONSUME", 0) = "SUBSCRIBED"
  /\ Goto("SUBSCRIBED", 0) = "CLIENT_TURN"
  /\ Goto("CLIENT_TURN", 0) = "WAIT_BASIC_ACK"
  /\ Goto("CLIENT_TURN", 1) = "SUBSCRIBED"
  /\ Goto("WAIT_BASIC_ACK", 0) = "SUBSCRIBED"
  /\ Goto("WAIT_CHANNEL_CLOSE", 0) = "RCVD_CHANNEL_CLOSE"
  /\ Goto("RCVD_CHANNEL_CLOSE", 0) = "WAIT_CONNECTION_CLOSE"
  /\ Goto("WAIT_CONNECTION_CLOSE", 0) = "RCVD_CONNECTION_CLOSE"
  /\ Goto("RCVD_CONNECTION_CLOSE", 0) = "FINAL"
<1>1. RowBelow("WAIT_COMMAND") = "RCVD_QUEUE_DECLARE"
  <2>1. \A i \in 1..20 : enum[i] = "WAIT_COMMAND" <=> i = 10
    BY DEF enum
  <2>2. (CHOOSE i \in 1..20 : enum[i] = "WAIT_COMMAND") = 10
    BY <2>1
  <2> QED BY <2>2 DEF RowBelow, enum
<1> QED BY <1>1 DEF Goto, transitions, Row1, Zero

\* A set of natural numbers that is not empty has a least element.
LEMMA Least ==
  ASSUME NEW T \in SUBSET Nat, T # {}
  PROVE  \E x \in T : \A y \in T : x <= y
<1>1. PICK x \in T : \A y \in T : ~ (<< y, x >> \in OpToRel(<, Nat))
  BY NatLessThanWellFounded, WFMin
<1>2. \A y \in T : ~ (y < x)
  BY <1>1 DEF OpToRel
<1> QED BY <1>2

\* The search for a name stops at its first occurrence, or just past the end.
LEMMA PositionIs ==
  ASSUME queue_list \in Seq(Names), NEW name
  PROVE  /\ Position(name) \in 1..(Len(queue_list) + 1)
         /\ Position(name) <= Len(queue_list) => queue_list[Position(name)] = name
         /\ \A j \in 1..Len(queue_list) : queue_list[j] = name => Position(name) <= j
<1> DEFINE Stops(i) == i <= Len(queue_list) => queue_list[i] = name
           T == {i \in 1..(Len(queue_list) + 1) : Stops(i)}
<1>1. Len(queue_list) \in Nat
  OBVIOUS
<1>2. Len(queue_list) + 1 \in T
  BY <1>1
<1>3. PICK x \in T : \A y \in T : x <= y
  <2> T \in SUBSET Nat
    BY <1>1
  <2> HIDE DEF T
  <2> QED BY <1>2, Least
<1>4. \A j \in 1..(x - 1) : queue_list[j] # name
  BY <1>1, <1>3
<1>5. \E i \in 1..(Len(queue_list) + 1) : Stops(i) /\ \A j \in 1..(i - 1) : queue_list[j] # name
  BY <1>3, <1>4
<1>6. /\ Position(name) \in 1..(Len(queue_list) + 1)
      /\ Stops(Position(name))
      /\ \A j \in 1..(Position(name) - 1) : queue_list[j] # name
  BY <1>5 DEF Position
<1> QED BY <1>1, <1>6

\* A list without repetitions over the names that lacks one of them leaves room.
LEMMA RoomForAName ==
  ASSUME NEW L \in Seq(Names), NEW n \in Names, n \notin ToSet(L),
         IsInjective(L)
  PROVE  Len(L) < MAX_NUM_QUEUE
<1> DEFINE S == Names \ {n}
<1>1. Len(L) \in Nat /\ DOMAIN L = 1..Len(L)
  OBVIOUS
<1>2. IsFiniteSet(S) /\ Cardinality(S) = Cardinality(Names) - 1
  BY FS_RemoveElement, BrokerAssumption
<1>3. L \in Injection(1..Len(L), S)
  BY <1>1 DEF Injection, ToSet, IsInjective
<1>4. Cardinality(1..Len(L)) <= Cardinality(S)
  BY <1>2, <1>3, FS_Injection
<1>5. Cardinality(1..Len(L)) = Len(L)
  BY <1>1, FS_Interval
<1>6. Cardinality(Names) \in Nat
  BY FS_CardinalityType, BrokerAssumption
<1> QED BY <1>1, <1>2, <1>4, <1>5, <1>6, BrokerAssumption

\* The three commands lead to their functions, any other to WAIT_CHANNEL_CLOSE.
LEMMA CommandGoto ==
  ASSUME NEW r \in Request
  PROVE  Goto("WAIT_COMMAND", MethodCode[r.kind]) \in
              {"RCVD_QUEUE_DECLARE", "RCVD_BASIC_PUBLISH",
               "RCVD_BASIC_CONSUME", "WAIT_CHANNEL_CLOSE"}
BY GotoValues DEF MethodCode, Request

\* The states of an open connection, one by one.
LEMMA ServingIs ==
  Serving = {"WAIT_COMMAND", "RCVD_QUEUE_DECLARE", "RCVD_BASIC_PUBLISH",
             "RCVD_BASIC_CONSUME", "SUBSCRIBED", "CLIENT_TURN", "WAIT_BASIC_ACK",
             "WAIT_CHANNEL_CLOSE", "RCVD_CHANNEL_CLOSE", "WAIT_CONNECTION_CLOSE",
             "RCVD_CONNECTION_CLOSE", "FINAL"}
<1>1. \A i \in 10..21 : i \in {10, 11, 12, 13, 14, 15, 16, 17, 18, 19, 20, 21}
  OBVIOUS
<1> QED BY <1>1 DEF Serving, enum

\* Where a step of a thread takes it.
MoveTo(c, s, p) ==
  state' = [state EXCEPT ![c] = s] /\ step' = [step EXCEPT ![c] = p]

Commands == {"RCVD_QUEUE_DECLARE", "RCVD_BASIC_PUBLISH", "RCVD_BASIC_CONSUME",
             "WAIT_CHANNEL_CLOSE"}

\* Each step takes its thread along an edge of the state machine.
LEMMA Moves ==
  ASSUME TypeInv, NEW c \in Conns
  PROVE  /\ do_WAIT_COMMAND(c) => \E s \in Commands : MoveTo(c, s, "out")
         /\ DeclareSearch(c) => \E p \in {"reply", "insert"} :
                                  MoveTo(c, "RCVD_QUEUE_DECLARE", p)
         /\ do_RCVD_BASIC_PUBLISH(c) =>
              \/ server' = "segv" /\ UNCHANGED << state, step >>
              \/ \E s \in {"WAIT_CHANNEL_CLOSE", "RCVD_CONNECTION_CLOSE"} :
                   UNCHANGED server /\ MoveTo(c, s, "out")
         /\ ConsumeSearch(c) => \E p \in {"create", "enlist"} :
                                  MoveTo(c, "RCVD_BASIC_CONSUME", p)
         /\ do_SUBSCRIBED(c) => \/ UNCHANGED << state, step >>
                                \/ MoveTo(c, "CLIENT_TURN", "out")
         /\ NothingToDeliver(c) =>
              \/ server' = "segv" /\ UNCHANGED << state, step >>
              \/ UNCHANGED server /\ MoveTo(c, "SUBSCRIBED", "out")
         /\ Take(c) => MoveTo(c, "CLIENT_TURN", "write")
         /\ Finish(c) => MoveTo(c, "FINAL", "ended")
         /\ DeclareInsert(c) => MoveTo(c, "RCVD_QUEUE_DECLARE", "reply")
         /\ Reply(c) =>
              \/ state[c] = "RCVD_QUEUE_DECLARE" /\ MoveTo(c, "WAIT_CHANNEL_CLOSE", "out")
              \/ state[c] = "RCVD_BASIC_CONSUME" /\ MoveTo(c, "SUBSCRIBED", "out")
         /\ ConsumeEnlist(c) => MoveTo(c, "RCVD_BASIC_CONSUME", "reply")
         /\ Deliver(c) => MoveTo(c, "CLIENT_TURN", "rotate")
         /\ Rotate(c) => MoveTo(c, "WAIT_BASIC_ACK", "out")
         /\ CloseOk(c) => \E s \in {"WAIT_CONNECTION_CLOSE", "FINAL"} : MoveTo(c, s, "out")
         /\ Read(c) => \/ state[c] = "WAIT_BASIC_ACK" /\ MoveTo(c, "SUBSCRIBED", "out")
                       \/ /\ state[c] # "WAIT_BASIC_ACK"
                          /\ \E s \in {"RCVD_CHANNEL_CLOSE", "RCVD_CONNECTION_CLOSE"} :
                               MoveTo(c, s, "out")
         /\ ReadEof(c) => MoveTo(c, state[c], "eof")
<1> USE DEF TypeInv, TypeOK, MoveTo
<1>0. /\ step[c] = "reply" => state[c] \in {"RCVD_QUEUE_DECLARE", "RCVD_BASIC_CONSUME"}
      /\ step[c] = "rotate" => state[c] = "CLIENT_TURN"
  BY DEF Control, Agree
<1>1. do_WAIT_COMMAND(c) => \E s \in Commands : MoveTo(c, s, "out")
  BY CommandGoto, BrokerAssumption DEF do_WAIT_COMMAND, At, Return, Commands
<1>2. DeclareSearch(c) => \E p \in {"reply", "insert"} : MoveTo(c, "RCVD_QUEUE_DECLARE", p)
  BY DEF DeclareSearch, At, GoOn
<1>3. do_RCVD_BASIC_PUBLISH(c) =>
        \/ server' = "segv" /\ UNCHANGED << state, step >>
        \/ \E s \in {"WAIT_CHANNEL_CLOSE", "RCVD_CONNECTION_CLOSE"} :
             UNCHANGED server /\ MoveTo(c, s, "out")
  BY GotoValues DEF do_RCVD_BASIC_PUBLISH, At, Return
<1>4. ConsumeSearch(c) => \E p \in {"create", "enlist"} : MoveTo(c, "RCVD_BASIC_CONSUME", p)
  BY DEF ConsumeSearch, At, GoOn
<1>5. do_SUBSCRIBED(c) => UNCHANGED << state, step >> \/ MoveTo(c, "CLIENT_TURN", "out")
  BY GotoValues DEF do_SUBSCRIBED, At, Return
<1>6. NothingToDeliver(c) => \/ server' = "segv" /\ UNCHANGED << state, step >>
                             \/ UNCHANGED server /\ MoveTo(c, "SUBSCRIBED", "out")
  BY GotoValues DEF NothingToDeliver, At, Return
<1>7. Take(c) => MoveTo(c, "CLIENT_TURN", "write")
  BY DEF Take, At, GoOn
<1>8. Finish(c) => MoveTo(c, "FINAL", "ended")
  BY DEF Finish, At, GoOn
<1>9. DeclareInsert(c) => MoveTo(c, "RCVD_QUEUE_DECLARE", "reply")
  BY DEF DeclareInsert, In, GoOn, Control, Agree
<1>10. Reply(c) =>
         \/ state[c] = "RCVD_QUEUE_DECLARE" /\ MoveTo(c, "WAIT_CHANNEL_CLOSE", "out")
         \/ state[c] = "RCVD_BASIC_CONSUME" /\ MoveTo(c, "SUBSCRIBED", "out")
  <2>1. ASSUME Reply(c), state[c] = "RCVD_QUEUE_DECLARE"
        PROVE  MoveTo(c, "WAIT_CHANNEL_CLOSE", "out")
    BY <2>1, GotoValues DEF Reply, Return
  <2>2. ASSUME Reply(c), state[c] = "RCVD_BASIC_CONSUME"
        PROVE  MoveTo(c, "SUBSCRIBED", "out")
    BY <2>2, GotoValues DEF Reply, Return
  <2> HIDE DEF TypeInv, TypeOK, MoveTo
  <2> QED BY <1>0, <2>1, <2>2 DEF Reply, In
<1>11. ConsumeEnlist(c) => MoveTo(c, "RCVD_BASIC_CONSUME", "reply")
  BY DEF ConsumeEnlist, In, GoOn, Control, Agree
<1>12. Deliver(c) => MoveTo(c, "CLIENT_TURN", "rotate")
  BY DEF Deliver, In, GoOn, Control, Agree
<1>13. Rotate(c) => MoveTo(c, "WAIT_BASIC_ACK", "out")
  <2>1. ASSUME Return(c, 0), state[c] = "CLIENT_TURN"
        PROVE  MoveTo(c, "WAIT_BASIC_ACK", "out")
    BY <2>1, GotoValues DEF Return
  <2> HIDE DEF TypeInv, TypeOK, MoveTo
  <2> QED BY <1>0, <2>1 DEF Rotate, In
<1>14. CloseOk(c) => \E s \in {"WAIT_CONNECTION_CLOSE", "FINAL"} : MoveTo(c, s, "out")
  <2>1. ASSUME CloseOk(c), state[c] = "RCVD_CHANNEL_CLOSE"
        PROVE  MoveTo(c, "WAIT_CONNECTION_CLOSE", "out")
    BY <2>1, GotoValues DEF CloseOk, Return
  <2>2. ASSUME CloseOk(c), state[c] = "RCVD_CONNECTION_CLOSE"
        PROVE  MoveTo(c, "FINAL", "out")
    BY <2>2, GotoValues DEF CloseOk, Return
  <2> HIDE DEF TypeInv, TypeOK, MoveTo
  <2> QED BY <2>1, <2>2 DEF CloseOk, At
<1>15. Read(c) => \/ state[c] = "WAIT_BASIC_ACK" /\ MoveTo(c, "SUBSCRIBED", "out")
                  \/ /\ state[c] # "WAIT_BASIC_ACK"
                     /\ \E s \in {"RCVD_CHANNEL_CLOSE", "RCVD_CONNECTION_CLOSE"} :
                          MoveTo(c, s, "out")
  <2>1. ASSUME Read(c), state[c] = "WAIT_BASIC_ACK"
        PROVE  MoveTo(c, "SUBSCRIBED", "out")
    BY <2>1, GotoValues DEF Read, Return
  <2>2. ASSUME Read(c), state[c] = "WAIT_CHANNEL_CLOSE"
        PROVE  MoveTo(c, "RCVD_CHANNEL_CLOSE", "out")
    BY <2>2, GotoValues DEF Read, Return
  <2>3. ASSUME Read(c), state[c] = "WAIT_CONNECTION_CLOSE"
        PROVE  MoveTo(c, "RCVD_CONNECTION_CLOSE", "out")
    BY <2>3, GotoValues DEF Read, Return
  <2> HIDE DEF TypeInv, TypeOK, MoveTo
  <2> QED BY <2>1, <2>2, <2>3 DEF Read, Answer, At
<1>16. ReadEof(c) => MoveTo(c, state[c], "eof")
  BY DEF ReadEof, At, GoOn
<1> HIDE DEF TypeInv, TypeOK, MoveTo
<1> QED BY <1>1, <1>2, <1>3, <1>4, <1>5, <1>6, <1>7, <1>8, <1>9, <1>10, <1>11, <1>12,
           <1>13, <1>14, <1>15, <1>16

\* The six entries of a thread.
Entries(d) == << state[d], step[d], request[d], my_queue[d], msg[d], peer[d] >>

\* A thread writes no other thread's entries.
LEMMA OwnEntries ==
  ASSUME TypeOK, NEW c \in Conns, NEW d \in Conns, d # c,
         \/ do_WAIT_COMMAND(c) \/ LockingStep(c) \/ LocalStep(c)
         \/ Read(c) \/ ReadEof(c) \/ ClientCloses(c)
  PROVE  Entries(d)' = Entries(d)
<1> USE DEF TypeOK, Entries, threadVars, Return, GoOn, Send
<1>1. CASE do_WAIT_COMMAND(c)
  BY <1>1 DEF do_WAIT_COMMAND
<1>2. CASE DeclareSearch(c)
  BY <1>2 DEF DeclareSearch
<1>3. CASE do_RCVD_BASIC_PUBLISH(c)
  BY <1>3 DEF do_RCVD_BASIC_PUBLISH
<1>4. CASE ConsumeSearch(c)
  BY <1>4 DEF ConsumeSearch
<1>5. CASE do_SUBSCRIBED(c)
  BY <1>5 DEF do_SUBSCRIBED
<1>6. CASE NothingToDeliver(c)
  BY <1>6 DEF NothingToDeliver
<1>7. CASE Take(c)
  BY <1>7 DEF Take
<1>8. CASE Finish(c)
  BY <1>8 DEF Finish
<1>9. CASE DeclareInsert(c)
  BY <1>9 DEF DeclareInsert
<1>10. CASE Reply(c)
  BY <1>10 DEF Reply
<1>11. CASE ConsumeEnlist(c)
  BY <1>11 DEF ConsumeEnlist
<1>12. CASE Deliver(c)
  BY <1>12 DEF Deliver
<1>13. CASE Rotate(c)
  BY <1>13 DEF Rotate
<1>14. CASE CloseOk(c)
  BY <1>14 DEF CloseOk
<1>15. CASE SigPipe(c)
  BY <1>15 DEF SigPipe
<1>16. CASE Read(c)
  BY <1>16 DEF Read
<1>17. CASE ReadEof(c)
  BY <1>17 DEF ReadEof
<1>18. CASE ClientCloses(c)
  BY <1>18 DEF ClientCloses
<1> HIDE DEF TypeOK, Entries
<1> QED BY <1>1, <1>2, <1>3, <1>4, <1>5, <1>6, <1>7, <1>8, <1>9, <1>10, <1>11, <1>12,
           <1>13, <1>14, <1>15, <1>16, <1>17, <1>18 DEF LockingStep, LocalStep

\* A move to a point of the function that runs there.
LEMMA MoveTyped ==
  ASSUME TypeOK, NEW c \in Conns, NEW s \in Serving, NEW p \in Step, MoveTo(c, s, p)
  PROVE  /\ state' \in [Conns -> Serving]
         /\ step' \in [Conns -> Step]
         /\ state'[c] = s
         /\ step'[c] = p
BY DEF TypeOK, MoveTo

\* A server that has just started has no queue and no consumer.
LEMMA TypeInit == Init => TypeInv
<1> SUFFICES ASSUME Init PROVE TypeInv
  OBVIOUS
<1>1. TypeOK
  BY ServingIs, BrokerAssumption DEF Init, TypeOK, Step, Slots, NoRequest
<1>2. Control
  BY DEF Init, Control, Agree, Ready, Bound, Enlisted
<1> QED BY <1>1, <1>2 DEF TypeInv

\* A step is taken by a running server and never removes a queue.
Growing == server = "up" /\ queue_list' \in Seq(Names) /\ Len(queue_list') >= Len(queue_list)

\* Enough to look at the thread that moves: the others keep what was ready.
LEMMA TypeOthers ==
  ASSUME TypeInv, NEW c \in Conns, Growing,
         \/ do_WAIT_COMMAND(c) \/ LockingStep(c) \/ LocalStep(c)
         \/ Read(c) \/ ReadEof(c) \/ ClientCloses(c),
         TypeOK', Agree(state[c], step[c])', Ready(c)'
  PROVE  TypeInv'
<1> SUFFICES ASSUME NEW d \in Conns, d # c
             PROVE  Agree(state[d], step[d])' /\ Ready(d)'
  BY DEF TypeInv, Control
<1>1. Entries(d)' = Entries(d)
  BY OwnEntries DEF TypeInv
<1>2. Agree(state[d], step[d]) /\ Ready(d)
  BY DEF TypeInv, Control
<1>3. Agree(state[d], step[d])'
  BY <1>1, <1>2 DEF Entries
<1>4. Bound(d)' <=> Bound(d)
  BY <1>1 DEF Entries, Bound, Enlisted
<1>5. Len(queue_list) \in Nat /\ Len(queue_list') \in Nat
  BY DEF TypeInv, TypeOK, Growing
<1>6. Ready(d)'
  BY <1>1, <1>2, <1>4, <1>5 DEF Ready, Entries, Growing, Slots
<1> QED BY <1>3, <1>6

\* No step of any thread or client breaks the shapes, one step per action.
LEMMA TypeNext == TypeInv /\ [Next]_vars => TypeInv'
<1> SUFFICES ASSUME TypeInv, [Next]_vars PROVE TypeInv'
  OBVIOUS
<1>1. ASSUME NEW c \in Conns, do_WAIT_COMMAND(c) PROVE TypeInv'
  <2>1. PICK s \in Commands : MoveTo(c, s, "out")
    BY <1>1, Moves
  <2>2. /\ request' \in [Conns -> Request \union {NoRequest}]
        /\ request'[c] \in Request
    <3>1. PICK r \in Request : request' = [request EXCEPT ![c] = r]
      BY <1>1, BrokerAssumption DEF do_WAIT_COMMAND
    <3> QED BY <3>1 DEF TypeInv, TypeOK
  <2>3. /\ state' \in [Conns -> Serving] /\ state'[c] = s
        /\ step' \in [Conns -> Step] /\ step'[c] = "out"
    BY <2>1, MoveTyped, ServingIs DEF Commands, Step, TypeInv, TypeOK
  <2>4. /\ server = "up"
        /\ UNCHANGED << my_queue, msg, peer, holder, queue_list, content, client_queue,
                        server, published, delivered, since >>
    BY <1>1 DEF do_WAIT_COMMAND, At, In, LockUnlock, sharedVars, historyVars
  <2>5. TypeOK'
    BY <2>2, <2>3, <2>4 DEF TypeInv, TypeOK
  <2>6. Growing
    BY <2>2, <2>4 DEF TypeInv, TypeOK, Growing
  <2>7. Agree(state[c], step[c])' /\ Ready(c)'
    BY <1>1, <2>1, <2>2, <2>3, <2>4
    DEF do_WAIT_COMMAND, At, In, Agree, Ready, TypeInv, Control, Commands, Bound, Enlisted
  <2> QED BY <1>1, <2>5, <2>6, <2>7, TypeOthers DEF LockingStep, LocalStep
<1>2. ASSUME NEW c \in Conns, DeclareSearch(c) PROVE TypeInv'
  <2>1. PICK p \in {"reply", "insert"} : MoveTo(c, "RCVD_QUEUE_DECLARE", p)
    BY <1>2, Moves
  <2>2. holder' \in Conns \union {NoConn}
    BY <1>2 DEF DeclareSearch, Lock, LockUnlock, TypeInv, TypeOK
  <2>3. /\ state' \in [Conns -> Serving] /\ state'[c] = "RCVD_QUEUE_DECLARE"
        /\ step' \in [Conns -> Step] /\ step'[c] = p
    BY <2>1, MoveTyped, ServingIs DEF Commands, Step, TypeInv, TypeOK
  <2>4. /\ server = "up"
        /\ UNCHANGED << request, my_queue, msg, peer, queue_list, content,
                        client_queue, server, published, delivered, since >>
    BY <1>2 DEF DeclareSearch, At, In, LockUnlock, sharedVars, historyVars
  <2>5. TypeOK'
    BY <2>2, <2>3, <2>4 DEF TypeInv, TypeOK
  <2>6. Growing
    BY <2>2, <2>4 DEF TypeInv, TypeOK, Growing
  <2>7. Agree(state[c], step[c])' /\ Ready(c)'
    BY <1>2, <2>1, <2>2, <2>3, <2>4
    DEF DeclareSearch, At, In, Agree, Ready, TypeInv, Control, Commands, Bound, Enlisted
  <2> QED BY <1>2, <2>5, <2>6, <2>7, TypeOthers DEF LockingStep, LocalStep
<1>3. ASSUME NEW c \in Conns, ConsumeSearch(c) PROVE TypeInv'
  <2>1. PICK p \in {"create", "enlist"} : MoveTo(c, "RCVD_BASIC_CONSUME", p)
    BY <1>3, Moves
  <2>2. /\ holder' \in Conns \union {NoConn}
        /\ my_queue' \in [Conns -> 0..(MAX_NUM_QUEUE + 1)]
        /\ my_queue'[c] \in 1..(Len(queue_list) + 1)
        /\ server' \in {server, "overrun"}
        /\ server' = "up" => my_queue'[c] \in Slots
    BY <1>3, BrokerAssumption, PositionIs
    DEF ConsumeSearch, At, Lock, Slots, TypeInv, TypeOK
  <2>3. /\ state' \in [Conns -> Serving] /\ state'[c] = "RCVD_BASIC_CONSUME"
        /\ step' \in [Conns -> Step] /\ step'[c] = p
    BY <2>1, MoveTyped, ServingIs DEF Commands, Step, TypeInv, TypeOK
  <2>4. /\ server = "up"
        /\ UNCHANGED << request, msg, peer, queue_list, content, client_queue,
                        published, delivered, since >>
    BY <1>3 DEF ConsumeSearch, At, In, LockUnlock, sharedVars, historyVars
  <2>5. TypeOK'
    BY <2>2, <2>3, <2>4 DEF TypeInv, TypeOK
  <2>6. Growing
    BY <2>2, <2>4 DEF TypeInv, TypeOK, Growing
  <2>7. Agree(state[c], step[c])' /\ Ready(c)'
    BY <1>3, <2>1, <2>2, <2>3, <2>4
    DEF ConsumeSearch, At, In, Agree, Ready, TypeInv, Control, Commands, Bound, Enlisted
  <2> QED BY <1>3, <2>5, <2>6, <2>7, TypeOthers DEF LockingStep, LocalStep
<1>4. ASSUME NEW c \in Conns, Take(c) PROVE TypeInv'
  <2>0. my_queue[c] \in Slots
    BY <1>4 DEF Take, At, TypeInv, Control, Ready, Bound, Enlisted
  <2>1. MoveTo(c, "CLIENT_TURN", "write")
    BY <1>4, Moves
  <2>2. /\ holder' \in Conns \union {NoConn}
        /\ content' \in [Slots -> Seq(Conns)]
        /\ msg' \in [Conns -> Conns \union {NoConn}]
        /\ msg'[c] \in Conns
    BY <1>4, <2>0 DEF Take, Lock, first_queue, dequeue_queue, TypeInv, TypeOK
  <2>3. /\ state' \in [Conns -> Serving] /\ state'[c] = "CLIENT_TURN"
        /\ step' \in [Conns -> Step] /\ step'[c] = "write"
    BY <2>1, MoveTyped, ServingIs DEF Commands, Step, TypeInv, TypeOK
  <2>4. /\ server = "up"
        /\ UNCHANGED << request, my_queue, peer, queue_list, client_queue, server,
                        published, delivered, since >>
    BY <1>4 DEF Take, At, In, LockUnlock, sharedVars, historyVars
  <2>5. TypeOK'
    BY <2>2, <2>3, <2>4 DEF TypeInv, TypeOK
  <2>6. Growing
    BY <2>2, <2>4 DEF TypeInv, TypeOK, Growing
  <2>7. Agree(state[c], step[c])' /\ Ready(c)'
    BY <1>4, <2>1, <2>2, <2>3, <2>4
    DEF Take, At, In, Agree, Ready, TypeInv, Control, Commands, Bound, Enlisted
  <2> QED BY <1>4, <2>5, <2>6, <2>7, TypeOthers DEF LockingStep, LocalStep
<1>5. ASSUME NEW c \in Conns, Finish(c) PROVE TypeInv'
  <2>1. MoveTo(c, "FINAL", "ended")
    BY <1>5, Moves
  <2>3. /\ state' \in [Conns -> Serving] /\ state'[c] = "FINAL"
        /\ step' \in [Conns -> Step] /\ step'[c] = "ended"
    BY <2>1, MoveTyped, ServingIs DEF Commands, Step, TypeInv, TypeOK
  <2>4. /\ server = "up"
        /\ UNCHANGED << request, my_queue, msg, peer, holder, queue_list, content,
                        client_queue, server, published, delivered, since >>
    BY <1>5 DEF Finish, At, In, LockUnlock, sharedVars, historyVars
  <2>5. TypeOK'
    BY <2>3, <2>4 DEF TypeInv, TypeOK
  <2>6. Growing
    BY <2>4 DEF TypeInv, TypeOK, Growing
  <2>7. Agree(state[c], step[c])' /\ Ready(c)'
    BY <1>5, <2>1, <2>3, <2>4
    DEF Finish, At, In, Agree, Ready, TypeInv, Control, Commands, Bound, Enlisted
  <2> QED BY <1>5, <2>5, <2>6, <2>7, TypeOthers DEF LockingStep, LocalStep
<1>6. ASSUME NEW c \in Conns, DeclareInsert(c) PROVE TypeInv'
  <2>0. request[c].queue \in Names
    BY <1>6 DEF DeclareInsert, In, TypeInv, Control, Agree, Ready, Request
  <2>1. MoveTo(c, "RCVD_QUEUE_DECLARE", "reply")
    BY <1>6, Moves
  <2>2. /\ holder' \in Conns \union {NoConn}
        /\ queue_list' \in Seq(Names)
        /\ Len(queue_list') \in Nat
        /\ Len(queue_list) <= Len(queue_list')
        /\ Len(queue_list') <= MAX_NUM_QUEUE
        /\ server' \in {server, "overrun"}
    <3>1. CASE Len(queue_list) < MAX_NUM_QUEUE
      <4>1. queue_list' = Append(queue_list, request[c].queue) /\ UNCHANGED server
        BY <1>6, <3>1 DEF DeclareInsert
      <4> QED BY <1>6, <2>0, <3>1, <4>1, BrokerAssumption DEF DeclareInsert, Unlock, TypeInv, TypeOK
    <3>2. CASE ~ (Len(queue_list) < MAX_NUM_QUEUE)
      BY <1>6, <3>2 DEF DeclareInsert, Unlock, TypeInv, TypeOK
    <3> QED BY <3>1, <3>2
  <2>3. /\ state' \in [Conns -> Serving] /\ state'[c] = "RCVD_QUEUE_DECLARE"
        /\ step' \in [Conns -> Step] /\ step'[c] = "reply"
    BY <2>1, MoveTyped, ServingIs DEF Commands, Step, TypeInv, TypeOK
  <2>4. /\ server = "up"
        /\ UNCHANGED << request, my_queue, msg, peer, content, client_queue, published,
                        delivered, since >>
    BY <1>6 DEF DeclareInsert, At, In, LockUnlock, sharedVars, historyVars
  <2>5. TypeOK'
    BY <2>2, <2>3, <2>4 DEF TypeInv, TypeOK
  <2>6. Growing
    BY <2>2, <2>4 DEF TypeInv, TypeOK, Growing
  <2>7. Agree(state[c], step[c])' /\ Ready(c)'
    BY <1>6, <2>1, <2>2, <2>3, <2>4
    DEF DeclareInsert, At, In, Agree, Ready, TypeInv, Control, Commands, Bound, Enlisted
  <2> QED BY <1>6, <2>5, <2>6, <2>7, TypeOthers DEF LockingStep, LocalStep
<1>7. ASSUME NEW c \in Conns, ConsumeEnlist(c) PROVE TypeInv'
  <2>0. my_queue[c] \in Slots
    BY <1>7 DEF ConsumeEnlist, In, TypeInv, Control, Ready, Bound
  <2>1. MoveTo(c, "RCVD_BASIC_CONSUME", "reply")
    BY <1>7, Moves
  <2>2. /\ holder' \in Conns \union {NoConn}
        /\ client_queue' \in [Slots -> Seq(Conns)]
        /\ since' \in [Conns -> Nat]
    BY <1>7, <2>0 DEF ConsumeEnlist, Unlock, enqueue_queue, TypeInv, TypeOK
  <2>3. /\ state' \in [Conns -> Serving] /\ state'[c] = "RCVD_BASIC_CONSUME"
        /\ step' \in [Conns -> Step] /\ step'[c] = "reply"
    BY <2>1, MoveTyped, ServingIs DEF Commands, Step, TypeInv, TypeOK
  <2>4. /\ server = "up"
        /\ UNCHANGED << request, my_queue, msg, peer, queue_list, content, server,
                        published, delivered >>
    BY <1>7 DEF ConsumeEnlist, At, In, LockUnlock, sharedVars, historyVars
  <2>5. TypeOK'
    BY <2>2, <2>3, <2>4 DEF TypeInv, TypeOK
  <2>6. Growing
    BY <2>2, <2>4 DEF TypeInv, TypeOK, Growing
  <2>7. Agree(state[c], step[c])' /\ Ready(c)'
    BY <1>7, <2>1, <2>2, <2>3, <2>4
    DEF ConsumeEnlist, At, In, Agree, Ready, TypeInv, Control, Commands, Bound, Enlisted
  <2> QED BY <1>7, <2>5, <2>6, <2>7, TypeOthers DEF LockingStep, LocalStep
<1>8. ASSUME NEW c \in Conns, Deliver(c) PROVE TypeInv'
  <2>0. my_queue[c] \in Slots /\ msg[c] \in Conns
    BY <1>8 DEF Deliver, In, TypeInv, Control, Agree, Ready, Bound, Enlisted
  <2>1. MoveTo(c, "CLIENT_TURN", "rotate")
    BY <1>8, Moves
  <2>2. /\ peer' \in [Conns -> {"open", "closed", "reset"}]
        /\ client_queue' \in [Slots -> Seq(Conns)]
        /\ delivered' \in [Slots -> Seq([msg : Conns, to : Conns])]
    BY <1>8, <2>0 DEF Deliver, Send, dequeue_queue, TypeInv, TypeOK
  <2>3. /\ state' \in [Conns -> Serving] /\ state'[c] = "CLIENT_TURN"
        /\ step' \in [Conns -> Step] /\ step'[c] = "rotate"
    BY <2>1, MoveTyped, ServingIs DEF Commands, Step, TypeInv, TypeOK
  <2>4. /\ server = "up"
        /\ UNCHANGED << request, my_queue, msg, holder, queue_list, content, server,
                        published, since >>
    BY <1>8 DEF Deliver, At, In, LockUnlock, sharedVars, historyVars
  <2>5. TypeOK'
    BY <2>2, <2>3, <2>4 DEF TypeInv, TypeOK
  <2>6. Growing
    BY <2>2, <2>4 DEF TypeInv, TypeOK, Growing
  <2>7. Agree(state[c], step[c])' /\ Ready(c)'
    BY <1>8, <2>1, <2>2, <2>3, <2>4
    DEF Deliver, At, In, Agree, Ready, TypeInv, Control, Commands, Bound, Enlisted
  <2> QED BY <1>8, <2>5, <2>6, <2>7, TypeOthers DEF LockingStep, LocalStep
<1>9. ASSUME NEW c \in Conns, Rotate(c) PROVE TypeInv'
  <2>0. my_queue[c] \in Slots
    BY <1>9 DEF Rotate, In, TypeInv, Control, Agree, Ready, Bound, Enlisted
  <2>1. MoveTo(c, "WAIT_BASIC_ACK", "out")
    BY <1>9, Moves
  <2>2. /\ holder' \in Conns \union {NoConn}
        /\ client_queue' \in [Slots -> Seq(Conns)]
        /\ msg' \in [Conns -> Conns \union {NoConn}]
    BY <1>9, <2>0 DEF Rotate, Unlock, enqueue_queue, TypeInv, TypeOK
  <2>3. /\ state' \in [Conns -> Serving] /\ state'[c] = "WAIT_BASIC_ACK"
        /\ step' \in [Conns -> Step] /\ step'[c] = "out"
    BY <2>1, MoveTyped, ServingIs DEF Commands, Step, TypeInv, TypeOK
  <2>4. /\ server = "up"
        /\ UNCHANGED << request, my_queue, peer, queue_list, content, server,
                        published, delivered, since >>
    BY <1>9 DEF Rotate, At, In, LockUnlock, sharedVars, historyVars
  <2>5. TypeOK'
    BY <2>2, <2>3, <2>4 DEF TypeInv, TypeOK
  <2>6. Growing
    BY <2>2, <2>4 DEF TypeInv, TypeOK, Growing
  <2>7. Agree(state[c], step[c])' /\ Ready(c)'
    BY <1>9, <2>1, <2>2, <2>3, <2>4
    DEF Rotate, At, In, Agree, Ready, TypeInv, Control, Commands, Bound, Enlisted
  <2> QED BY <1>9, <2>5, <2>6, <2>7, TypeOthers DEF LockingStep, LocalStep
<1>10. ASSUME NEW c \in Conns, ReadEof(c) PROVE TypeInv'
  <2>1. MoveTo(c, state[c], "eof")
    BY <1>10, Moves
  <2>3. /\ state' \in [Conns -> Serving] /\ state'[c] = state[c]
        /\ step' \in [Conns -> Step] /\ step'[c] = "eof"
    BY <2>1, MoveTyped, ServingIs DEF Commands, Step, TypeInv, TypeOK
  <2>4. /\ server = "up"
        /\ UNCHANGED << request, my_queue, msg, peer, holder, queue_list, content,
                        client_queue, server, published, delivered, since >>
    BY <1>10 DEF ReadEof, At, In, LockUnlock, sharedVars, historyVars
  <2>5. TypeOK'
    BY <2>3, <2>4 DEF TypeInv, TypeOK
  <2>6. Growing
    BY <2>4 DEF TypeInv, TypeOK, Growing
  <2>7. Agree(state[c], step[c])' /\ Ready(c)'
    BY <1>10, <2>1, <2>3, <2>4
    DEF ReadEof, At, In, Agree, Ready, TypeInv, Control, Commands, Bound, Enlisted
  <2> QED BY <1>10, <2>5, <2>6, <2>7, TypeOthers DEF LockingStep, LocalStep
<1>11. ASSUME NEW c \in Conns, do_RCVD_BASIC_PUBLISH(c) PROVE TypeInv'
  <2>1. /\ content' \in [Slots -> Seq(Conns)]
        /\ published' \in [Slots -> Seq(Conns)]
        /\ server' \in {server, "segv"}
    <3> DEFINE q == Position(request[c].queue)
    <3>1. CASE q <= Len(queue_list)
      <4>1. /\ content' = [content EXCEPT ![q] = Append(@, c)]
            /\ published' = [published EXCEPT ![q] = Append(@, c)]
            /\ UNCHANGED server
        BY <1>11, <3>1 DEF do_RCVD_BASIC_PUBLISH, enqueue_queue
      <4>2. q \in Slots
        BY <3>1, PositionIs, BrokerAssumption DEF TypeInv, TypeOK, Slots
      <4> HIDE DEF q
      <4> QED BY <4>1, <4>2 DEF TypeInv, TypeOK
    <3>2. CASE ~ (q <= Len(queue_list))
      BY <1>11, <3>2 DEF do_RCVD_BASIC_PUBLISH, TypeInv, TypeOK
    <3> QED BY <3>1, <3>2
  <2>2. /\ server = "up"
        /\ UNCHANGED << request, my_queue, msg, peer, holder, queue_list, client_queue,
                        delivered, since >>
    BY <1>11 DEF do_RCVD_BASIC_PUBLISH, At, In, LockUnlock, sharedVars, historyVars
  <2>3. Growing
    BY <2>1, <2>2 DEF TypeInv, TypeOK, Growing
  <2>4. CASE UNCHANGED << state, step >>
    <3>1. TypeOK'
      BY <2>1, <2>2, <2>4 DEF TypeInv, TypeOK
    <3>2. Agree(state[c], step[c])' /\ Ready(c)'
      BY <2>1, <2>2, <2>4 DEF Ready, TypeInv, Control, Bound, Enlisted
    <3> QED BY <1>11, <2>3, <3>1, <3>2, TypeOthers DEF LockingStep, LocalStep
  <2>5. CASE \E s \in {"WAIT_CHANNEL_CLOSE", "RCVD_CONNECTION_CLOSE"} : MoveTo(c, s, "out")
    <3>0. PICK s \in {"WAIT_CHANNEL_CLOSE", "RCVD_CONNECTION_CLOSE"} : MoveTo(c, s, "out")
      BY <2>5
    <3>1. /\ state' \in [Conns -> Serving] /\ state'[c] = s
          /\ step' \in [Conns -> Step] /\ step'[c] = "out"
      BY <3>0, MoveTyped, ServingIs DEF Step, TypeInv, TypeOK
    <3>2. TypeOK'
      BY <2>1, <2>2, <3>1 DEF TypeInv, TypeOK
    <3>3. Agree(state[c], step[c])' /\ Ready(c)'
      BY <1>11, <2>1, <2>2, <2>5, <3>0, <3>1
      DEF do_RCVD_BASIC_PUBLISH, At, In, Agree, Ready, TypeInv, Control, Bound, Enlisted
    <3> QED BY <1>11, <2>3, <3>2, <3>3, TypeOthers DEF LockingStep, LocalStep
  <2> QED BY <1>11, <2>4, <2>5, Moves
<1>12. ASSUME NEW c \in Conns, do_SUBSCRIBED(c) PROVE TypeInv'
  <2>1. server' \in {server, "segv"}
    BY <1>12 DEF do_SUBSCRIBED
  <2>2. /\ server = "up"
        /\ UNCHANGED << request, my_queue, msg, peer, holder, queue_list, content,
                        client_queue, published, delivered, since >>
    BY <1>12 DEF do_SUBSCRIBED, At, In, LockUnlock, sharedVars, historyVars
  <2>3. Growing
    BY <2>1, <2>2 DEF TypeInv, TypeOK, Growing
  <2>4. CASE UNCHANGED << state, step >>
    <3>1. TypeOK'
      BY <2>1, <2>2, <2>4 DEF TypeInv, TypeOK
    <3>2. Agree(state[c], step[c])' /\ Ready(c)'
      BY <2>1, <2>2, <2>4 DEF Ready, TypeInv, Control, Bound, Enlisted
    <3> QED BY <1>12, <2>3, <3>1, <3>2, TypeOthers DEF LockingStep, LocalStep
  <2>5. CASE MoveTo(c, "CLIENT_TURN", "out")
    <3>1. /\ state' \in [Conns -> Serving] /\ state'[c] = "CLIENT_TURN"
          /\ step' \in [Conns -> Step] /\ step'[c] = "out"
      BY <2>5, MoveTyped, ServingIs DEF Step, TypeInv, TypeOK
    <3>2. TypeOK'
      BY <2>1, <2>2, <3>1 DEF TypeInv, TypeOK
    <3>3. Agree(state[c], step[c])' /\ Ready(c)'
      BY <1>12, <2>1, <2>2, <2>5, <2>5, <3>1
      DEF do_SUBSCRIBED, At, In, Agree, Ready, TypeInv, Control, Bound, Enlisted
    <3> QED BY <1>12, <2>3, <3>2, <3>3, TypeOthers DEF LockingStep, LocalStep
  <2> QED BY <1>12, <2>4, <2>5, Moves
<1>13. ASSUME NEW c \in Conns, NothingToDeliver(c) PROVE TypeInv'
  <2>1. server' \in {server, "segv"}
    BY <1>13 DEF NothingToDeliver
  <2>2. /\ server = "up"
        /\ UNCHANGED << request, my_queue, msg, peer, holder, queue_list, content,
                        client_queue, published, delivered, since >>
    BY <1>13 DEF NothingToDeliver, At, In, LockUnlock, sharedVars, historyVars
  <2>3. Growing
    BY <2>1, <2>2 DEF TypeInv, TypeOK, Growing
  <2>4. CASE UNCHANGED << state, step >>
    <3>1. TypeOK'
      BY <2>1, <2>2, <2>4 DEF TypeInv, TypeOK
    <3>2. Agree(state[c], step[c])' /\ Ready(c)'
      BY <2>1, <2>2, <2>4 DEF Ready, TypeInv, Control, Bound, Enlisted
    <3> QED BY <1>13, <2>3, <3>1, <3>2, TypeOthers DEF LockingStep, LocalStep
  <2>5. CASE MoveTo(c, "SUBSCRIBED", "out")
    <3>1. /\ state' \in [Conns -> Serving] /\ state'[c] = "SUBSCRIBED"
          /\ step' \in [Conns -> Step] /\ step'[c] = "out"
      BY <2>5, MoveTyped, ServingIs DEF Step, TypeInv, TypeOK
    <3>2. TypeOK'
      BY <2>1, <2>2, <3>1 DEF TypeInv, TypeOK
    <3>3. Agree(state[c], step[c])' /\ Ready(c)'
      BY <1>13, <2>1, <2>2, <2>5, <2>5, <3>1
      DEF NothingToDeliver, At, In, Agree, Ready, TypeInv, Control, Bound, Enlisted
    <3> QED BY <1>13, <2>3, <3>2, <3>3, TypeOthers DEF LockingStep, LocalStep
  <2> QED BY <1>13, <2>4, <2>5, Moves
<1>14. ASSUME NEW c \in Conns, Reply(c) PROVE TypeInv'
  <2>1. peer' \in [Conns -> {"open", "closed", "reset"}]
    BY <1>14 DEF Reply, Send, TypeInv, TypeOK
  <2>2. /\ server = "up"
        /\ UNCHANGED << request, my_queue, msg, holder, queue_list, content,
                        client_queue, server, published, delivered, since >>
    BY <1>14 DEF Reply, At, In, LockUnlock, sharedVars, historyVars
  <2>3. Growing
    BY <2>1, <2>2 DEF TypeInv, TypeOK, Growing
  <2>4. CASE state[c] = "RCVD_QUEUE_DECLARE" /\ MoveTo(c, "WAIT_CHANNEL_CLOSE", "out")
    <3>1. /\ state' \in [Conns -> Serving] /\ state'[c] = "WAIT_CHANNEL_CLOSE"
          /\ step' \in [Conns -> Step] /\ step'[c] = "out"
      BY <2>4, MoveTyped, ServingIs DEF Step, TypeInv, TypeOK
    <3>2. TypeOK'
      BY <2>1, <2>2, <3>1 DEF TypeInv, TypeOK
    <3>3. Agree(state[c], step[c])' /\ Ready(c)'
      BY <1>14, <2>1, <2>2, <2>4, <2>4, <3>1
      DEF Reply, At, In, Agree, Ready, TypeInv, Control, Bound, Enlisted
    <3> QED BY <1>14, <2>3, <3>2, <3>3, TypeOthers DEF LockingStep, LocalStep
  <2>5. CASE state[c] = "RCVD_BASIC_CONSUME" /\ MoveTo(c, "SUBSCRIBED", "out")
    <3>1. /\ state' \in [Conns -> Serving] /\ state'[c] = "SUBSCRIBED"
          /\ step' \in [Conns -> Step] /\ step'[c] = "out"
      BY <2>5, MoveTyped, ServingIs DEF Step, TypeInv, TypeOK
    <3>2. TypeOK'
      BY <2>1, <2>2, <3>1 DEF TypeInv, TypeOK
    <3>3. Agree(state[c], step[c])' /\ Ready(c)'
      BY <1>14, <2>1, <2>2, <2>5, <2>5, <3>1
      DEF Reply, At, In, Agree, Ready, TypeInv, Control, Bound, Enlisted
    <3> QED BY <1>14, <2>3, <3>2, <3>3, TypeOthers DEF LockingStep, LocalStep
  <2> QED BY <1>14, <2>4, <2>5, Moves
<1>15. ASSUME NEW c \in Conns, CloseOk(c) PROVE TypeInv'
  <2>1. peer' \in [Conns -> {"open", "closed", "reset"}]
    BY <1>15 DEF CloseOk, Send, TypeInv, TypeOK
  <2>2. /\ server = "up"
        /\ UNCHANGED << request, my_queue, msg, holder, queue_list, content,
                        client_queue, server, published, delivered, since >>
    BY <1>15 DEF CloseOk, At, In, LockUnlock, sharedVars, historyVars
  <2>3. Growing
    BY <2>1, <2>2 DEF TypeInv, TypeOK, Growing
  <2>4. CASE \E s \in {"WAIT_CONNECTION_CLOSE", "FINAL"} : MoveTo(c, s, "out")
    <3>0. PICK s \in {"WAIT_CONNECTION_CLOSE", "FINAL"} : MoveTo(c, s, "out")
      BY <2>4
    <3>1. /\ state' \in [Conns -> Serving] /\ state'[c] = s
          /\ step' \in [Conns -> Step] /\ step'[c] = "out"
      BY <3>0, MoveTyped, ServingIs DEF Step, TypeInv, TypeOK
    <3>2. TypeOK'
      BY <2>1, <2>2, <3>1 DEF TypeInv, TypeOK
    <3>3. Agree(state[c], step[c])' /\ Ready(c)'
      BY <1>15, <2>1, <2>2, <2>4, <3>0, <3>1
      DEF CloseOk, At, In, Agree, Ready, TypeInv, Control, Bound, Enlisted
    <3> QED BY <1>15, <2>3, <3>2, <3>3, TypeOthers DEF LockingStep, LocalStep
  <2> QED BY <1>15, <2>4, Moves
<1>16. ASSUME NEW c \in Conns, Read(c) PROVE TypeInv'
  <2>2. /\ server = "up"
        /\ UNCHANGED << request, my_queue, msg, peer, holder, queue_list, content,
                        client_queue, server, published, delivered, since >>
    BY <1>16 DEF Read, At, In, LockUnlock, sharedVars, historyVars
  <2>3. Growing
    BY <2>2 DEF TypeInv, TypeOK, Growing
  <2>4. CASE state[c] = "WAIT_BASIC_ACK" /\ MoveTo(c, "SUBSCRIBED", "out")
    <3>1. /\ state' \in [Conns -> Serving] /\ state'[c] = "SUBSCRIBED"
          /\ step' \in [Conns -> Step] /\ step'[c] = "out"
      BY <2>4, MoveTyped, ServingIs DEF Step, TypeInv, TypeOK
    <3>2. TypeOK'
      BY <2>2, <3>1 DEF TypeInv, TypeOK
    <3>3. Agree(state[c], step[c])' /\ Ready(c)'
      BY <1>16, <2>2, <2>4, <2>4, <3>1
      DEF Read, At, In, Agree, Ready, TypeInv, Control, Bound, Enlisted, Answer
    <3> QED BY <1>16, <2>3, <3>2, <3>3, TypeOthers DEF LockingStep, LocalStep
  <2>5. CASE /\ state[c] # "WAIT_BASIC_ACK"
             /\ \E s \in {"RCVD_CHANNEL_CLOSE", "RCVD_CONNECTION_CLOSE"} : MoveTo(c, s, "out")
    <3>0. PICK s \in {"RCVD_CHANNEL_CLOSE", "RCVD_CONNECTION_CLOSE"} : MoveTo(c, s, "out")
      BY <2>5
    <3>1. /\ state' \in [Conns -> Serving] /\ state'[c] = s
          /\ step' \in [Conns -> Step] /\ step'[c] = "out"
      BY <3>0, MoveTyped, ServingIs DEF Step, TypeInv, TypeOK
    <3>2. TypeOK'
      BY <2>2, <3>1 DEF TypeInv, TypeOK
    <3>3. Agree(state[c], step[c])' /\ Ready(c)'
      BY <1>16, <2>2, <2>5, <3>0, <3>1
      DEF Read, At, In, Agree, Ready, TypeInv, Control, Bound, Enlisted, Answer
    <3> QED BY <1>16, <2>3, <3>2, <3>3, TypeOthers DEF LockingStep, LocalStep
  <2> QED BY <1>16, <2>4, <2>5, Moves
<1>17. ASSUME NEW c \in Conns, SigPipe(c) PROVE TypeInv'
  <2>1. server' \in {server, "sigpipe"}
    BY <1>17 DEF SigPipe
  <2>2. /\ server = "up"
        /\ UNCHANGED << request, my_queue, msg, peer, holder, queue_list, content,
                        client_queue, published, delivered, since >>
    BY <1>17 DEF SigPipe, At, In, LockUnlock, sharedVars, historyVars, threadVars
  <2>3. Growing
    BY <2>1, <2>2 DEF TypeInv, TypeOK, Growing
  <2>4. CASE UNCHANGED << state, step >>
    <3>1. TypeOK'
      BY <2>1, <2>2, <2>4 DEF TypeInv, TypeOK
    <3>2. Agree(state[c], step[c])' /\ Ready(c)'
      BY <2>1, <2>2, <2>4 DEF Ready, TypeInv, Control, Bound, Enlisted
    <3> QED BY <1>17, <2>3, <3>1, <3>2, TypeOthers DEF LockingStep, LocalStep
  <2> QED BY <1>17, <2>4 DEF SigPipe, threadVars
<1>18. ASSUME NEW c \in Conns, ClientCloses(c) PROVE TypeInv'
  <2>1. peer' \in [Conns -> {"open", "closed", "reset"}]
    BY <1>18 DEF ClientCloses, TypeInv, TypeOK
  <2>2. /\ server = "up"
        /\ UNCHANGED << request, my_queue, msg, holder, queue_list, content,
                        client_queue, server, published, delivered, since >>
    BY <1>18 DEF ClientCloses, At, In, LockUnlock, sharedVars, historyVars, threadVars
  <2>3. Growing
    BY <2>1, <2>2 DEF TypeInv, TypeOK, Growing
  <2>4. CASE UNCHANGED << state, step >>
    <3>1. TypeOK'
      BY <2>1, <2>2, <2>4 DEF TypeInv, TypeOK
    <3>2. Agree(state[c], step[c])' /\ Ready(c)'
      BY <2>1, <2>2, <2>4 DEF Ready, TypeInv, Control, Bound, Enlisted
    <3> QED BY <1>18, <2>3, <3>1, <3>2, TypeOthers DEF LockingStep, LocalStep
  <2> QED BY <1>18, <2>4 DEF ClientCloses, threadVars
<1>19. CASE UNCHANGED vars
  BY <1>19 DEF vars, threadVars, sharedVars, historyVars, TypeInv, TypeOK, Control,
       Agree, Ready,
              Bound, Enlisted
<1> QED BY <1>1, <1>2, <1>3, <1>4, <1>5, <1>6, <1>7, <1>8, <1>9, <1>10, <1>11, <1>12, <1>13, <1>14, <1>15, <1>16, <1>17, <1>18, <1>19
        DEF Next, LockingStep, LocalStep, Idle

\* Every variable keeps the shape of the structure it stands for, with the mutex
\* or without it.
THEOREM TypeCorrect == Spec => []TypeOK
<1>1. TypeInv => TypeOK
  BY DEF TypeInv
<1> QED BY TypeInit, TypeNext, <1>1, PTL DEF Spec

-----------------------------------------------------------------------------
\* A step of one thread, or of its client.
ThreadStep(c) ==
  \/ do_WAIT_COMMAND(c) \/ LockingStep(c) \/ LocalStep(c)
  \/ Read(c) \/ ReadEof(c) \/ ClientCloses(c)

-----------------------------------------------------------------------------
\* The mutex.

\* Where a thread lands when it moves.
LEMMA Lands ==
  ASSUME TypeInv, NEW c \in Conns
  PROVE  \A s, p : MoveTo(c, s, p) => state'[c] = s /\ step'[c] = p
BY DEF MoveTo, TypeInv, TypeOK

\* A step takes the mutex, releases it, or leaves it and goes into no critical
\* section.
LEMMA MutexStep ==
  ASSUME TypeInv, Locking, NEW c \in Conns, ThreadStep(c)
  PROVE  \/ holder = NoConn /\ holder' = c
         \/ step[c] \in Critical /\ holder' = NoConn /\ step'[c] \notin Critical
         \/ holder' = holder /\ (step'[c] \in Critical => step[c] \in Critical)
<1>1. \A s, p : MoveTo(c, s, p) => step'[c] = p
  BY Lands
<1>2. UNCHANGED step => step'[c] = step[c]
  OBVIOUS
<1>3. Agree(state[c], step[c])
  BY DEF TypeInv, Control
<1> HIDE DEF TypeInv
<1>4. CASE do_WAIT_COMMAND(c)
  <2>1. step'[c] = "out" /\ holder' = holder
    BY <1>4, <1>1, Moves DEF do_WAIT_COMMAND
  <2> QED BY <2>1 DEF Critical
<1>5. CASE DeclareSearch(c)
  <2>1. step'[c] \in {"reply", "insert"}
    BY <1>5, <1>1, Moves
  <2>2. CASE request[c].queue \in ToSet(queue_list)
    BY <1>5, <2>2, <1>1 DEF DeclareSearch, LockUnlock, GoOn, Critical, TypeInv, TypeOK
  <2>3. CASE request[c].queue \notin ToSet(queue_list)
    BY <1>5, <2>3 DEF DeclareSearch, Lock, Free
  <2> QED BY <2>2, <2>3
<1>6. CASE ConsumeSearch(c) \/ Take(c)
  BY <1>6 DEF ConsumeSearch, Take, Lock, Free
<1>7. CASE do_RCVD_BASIC_PUBLISH(c)
  <2>1. step'[c] \in {"out", step[c]}
    BY <1>7, <1>1, <1>2, Moves
  <2> QED BY <1>7, <2>1 DEF do_RCVD_BASIC_PUBLISH, LockUnlock, Critical
<1>8. CASE do_SUBSCRIBED(c)
  <2>1. step'[c] \in {"out", step[c]}
    BY <1>8, <1>1, <1>2, Moves
  <2> QED BY <1>8, <2>1 DEF do_SUBSCRIBED, LockUnlock, Critical
<1>9. CASE NothingToDeliver(c)
  <2>1. step'[c] \in {"out", step[c]}
    BY <1>9, <1>1, <1>2, Moves
  <2> QED BY <1>9, <2>1 DEF NothingToDeliver, LockUnlock, Critical
<1>10. CASE Finish(c)
  <2>1. step'[c] = "ended"
    BY <1>10, <1>1, Moves
  <2> QED BY <1>10, <2>1 DEF Finish, LockUnlock, Critical
<1>11. CASE DeclareInsert(c)
  <2>1. step'[c] = "reply"
    BY <1>11, <1>1, Moves
  <2> QED BY <1>11, <2>1 DEF DeclareInsert, In, Unlock, Critical
<1>12. CASE ConsumeEnlist(c)
  <2>1. step'[c] = "reply"
    BY <1>12, <1>1, Moves
  <2> QED BY <1>12, <2>1 DEF ConsumeEnlist, In, Unlock, Critical
<1>13. CASE Rotate(c)
  <2>1. step'[c] = "out"
    BY <1>13, <1>1, Moves
  <2> QED BY <1>13, <2>1 DEF Rotate, In, Unlock, Critical
<1>14. CASE Deliver(c)
  BY <1>14 DEF Deliver, In, Critical
<1>15. CASE Reply(c)
  <2>1. step'[c] = "out"
    BY <1>15, <1>1, Moves
  <2> QED BY <1>15, <2>1 DEF Reply, Critical
<1>16. CASE CloseOk(c)
  <2>1. step'[c] = "out"
    BY <1>16, <1>1, Moves
  <2> QED BY <1>16, <2>1 DEF CloseOk, Critical
<1>17. CASE Read(c)
  <2>1. step'[c] = "out"
    BY <1>17, <1>1, Moves
  <2> QED BY <1>17, <2>1 DEF Read, Critical
<1>18. CASE ReadEof(c)
  <2>1. step'[c] = "eof"
    BY <1>18, <1>1, Moves
  <2> QED BY <1>18, <2>1 DEF ReadEof, Critical
<1>19. CASE SigPipe(c) \/ ClientCloses(c)
  BY <1>19 DEF SigPipe, ClientCloses, threadVars
<1> QED BY <1>4, <1>5, <1>6, <1>7, <1>8, <1>9, <1>10, <1>11, <1>12, <1>13, <1>14, <1>15,
           <1>16, <1>17, <1>18, <1>19 DEF ThreadStep, LockingStep, LocalStep

\* No two threads are ever inside critical sections.
LEMMA MutexNext ==
  ASSUME TypeInv, Mutex, Locking, NEW c \in Conns, ThreadStep(c)
  PROVE  Mutex'
<1> SUFFICES ASSUME NEW d \in Conns, step'[d] \in Critical
             PROVE  holder' = d
  BY DEF Mutex
<1>1. d # c => step'[d] = step[d]
  BY OwnEntries DEF ThreadStep, Entries, TypeInv
<1>2. d # c => holder = d
  BY <1>1 DEF Mutex
<1>3. step[c] \in Critical => holder = c
  BY DEF Mutex
<1> QED BY <1>1, <1>2, <1>3, MutexStep, BrokerAssumption

\* While a thread is in a critical section no other is.
LEMMA Exclusive ==
  ASSUME Mutex, NEW c \in Conns, NEW d \in Conns, d # c, step[c] \in Critical
  PROVE  step[d] \notin Critical
BY DEF Mutex

-----------------------------------------------------------------------------
\* Names and indexes.

\* No queue, nobody bound to one.
LEMMA NamingInit == Init => Naming
<1> SUFFICES ASSUME Init PROVE Naming
  OBVIOUS
<1>1. queue_list = << >> /\ server = "up" /\ \A c \in Conns : step[c] = "out" /\ state[c] = "WAIT_COMMAND"
  BY DEF Init
<1>2. Len(queue_list) = 0 /\ DOMAIN queue_list = {}
  BY <1>1
<1>3. StillAbsent /\ OneQueuePerName
  BY <1>1, <1>2 DEF StillAbsent, OneQueuePerName, IsInjective
<1>4. NoOverrun
  BY <1>1, <1>2, BrokerAssumption DEF NoOverrun
<1>5. BoundAsAsked
  BY <1>1 DEF BoundAsAsked, Bound, Enlisted
<1>6. ChosenAsAsked
  BY <1>1 DEF ChosenAsAsked
<1> QED BY <1>3, <1>4, <1>5, <1>6 DEF Naming

\* A step that leaves queue_list alone need only keep what concerns its thread.
LEMMA NamingFrame ==
  ASSUME TypeInv, Naming, NEW c \in Conns, ThreadStep(c), UNCHANGED queue_list,
         server' # "overrun",
         step'[c] = "insert" => request'[c].queue \notin ToSet(queue_list),
         Bound(c)' => \A i \in 1..Len(queue_list) :
                        queue_list[i] = request'[c].queue => my_queue'[c] <= i,
         step'[c] \in {"create", "enlist"} => JoinsAsAsked(c)'
  PROVE  Naming'
<1>1. \A d \in Conns : d # c => Entries(d)' = Entries(d)
  BY OwnEntries DEF ThreadStep, TypeInv
<1>2. StillAbsent'
  BY <1>1 DEF StillAbsent, Naming, Entries
<1>3. BoundAsAsked'
  <2> SUFFICES ASSUME NEW d \in Conns, d # c, Bound(d)', NEW i \in 1..Len(queue_list),
                      queue_list[i] = request'[d].queue
               PROVE  my_queue'[d] <= i
    BY DEF BoundAsAsked
  <2>1. Bound(d) /\ request'[d] = request[d] /\ my_queue'[d] = my_queue[d]
    BY <1>1 DEF Entries, Bound, Enlisted
  <2> QED BY <2>1 DEF Naming, BoundAsAsked
<1>4. OneQueuePerName' /\ NoOverrun'
  BY DEF Naming, OneQueuePerName, NoOverrun
<1>5. ChosenAsAsked'
  <2> SUFFICES ASSUME NEW d \in Conns, d # c, step'[d] \in {"create", "enlist"}
               PROVE  JoinsAsAsked(d)'
    BY DEF ChosenAsAsked
  <2>1. step'[d] = step[d] /\ request'[d] = request[d] /\ my_queue'[d] = my_queue[d]
    BY <1>1 DEF Entries
  <2>2. JoinsAsAsked(d)
    BY <2>1 DEF Naming, ChosenAsAsked
  <2> QED BY <2>1, <2>2 DEF JoinsAsAsked
<1> QED BY <1>2, <1>3, <1>4, <1>5 DEF Naming

\* A new command binds its thread to nothing.
LEMMA NamingCommand ==
  ASSUME TypeInv, Naming, NEW c \in Conns, do_WAIT_COMMAND(c)
  PROVE  Naming'
<1>1. step'[c] = "out" /\ state'[c] \in Commands
  BY Moves, Lands
<1>2. ~ Bound(c)'
  BY <1>1 DEF Bound, Enlisted, Commands
<1>3. UNCHANGED queue_list /\ server' # "overrun"
  BY DEF do_WAIT_COMMAND, At, sharedVars
<1> QED BY <1>1, <1>2, <1>3, NamingFrame DEF ThreadStep

\* A thread goes on to insert only a name it has not found.
LEMMA NamingDeclareSearch ==
  ASSUME TypeInv, Naming, NEW c \in Conns, DeclareSearch(c)
  PROVE  Naming'
<1>1. state'[c] = "RCVD_QUEUE_DECLARE" /\ step'[c] \in {"reply", "insert"}
  BY Moves, Lands
<1>2. ~ Bound(c)'
  BY <1>1 DEF Bound, Enlisted
<1>3. UNCHANGED << queue_list, request >> /\ server' # "overrun"
  BY DEF DeclareSearch, At, sharedVars
<1>4. step'[c] = "insert" => request[c].queue \notin ToSet(queue_list)
  BY DEF DeclareSearch, GoOn, TypeInv, TypeOK
<1> QED BY <1>1, <1>2, <1>3, <1>4, NamingFrame DEF ThreadStep, LockingStep

\* Nobody has inserted that name since, so the append keeps names unique; a
\* consumer bound past the end now has the new queue.
LEMMA NamingDeclareInsert ==
  ASSUME TypeInv, Mutex, Naming, NEW c \in Conns, DeclareInsert(c)
  PROVE  Naming'
<1> DEFINE n == request[c].queue
<1>1. step[c] = "insert" /\ server = "up"
  BY DEF DeclareInsert, In
<1>2. n \in Names /\ n \notin ToSet(queue_list)
  BY <1>1 DEF TypeInv, Control, Agree, Ready, Request, Naming, StillAbsent
<1>3. queue_list \in Seq(Names) /\ Len(queue_list) \in Nat /\ DOMAIN queue_list = 1..Len(queue_list)
  BY DEF TypeInv, TypeOK
<1>4. IsInjective(queue_list)
  BY DEF Naming, OneQueuePerName
<1>5. Len(queue_list) < MAX_NUM_QUEUE
  BY <1>2, <1>3, <1>4, RoomForAName
<1>6. queue_list' = Append(queue_list, n) /\ server' = "up" /\ UNCHANGED << request,
                                                                            my_queue >>
  BY <1>1, <1>5 DEF DeclareInsert
<1>7. Len(queue_list') = Len(queue_list) + 1
  BY <1>2, <1>3, <1>6
<1>8. OneQueuePerName'
  BY <1>2, <1>3, <1>4, <1>6, AppendDistinct DEF OneQueuePerName
<1>9. NoOverrun'
  BY <1>3, <1>5, <1>6, <1>7, BrokerAssumption DEF NoOverrun
<1>10. state'[c] = "RCVD_QUEUE_DECLARE" /\ step'[c] = "reply"
  BY Moves, Lands
<1>11. \A d \in Conns : d # c => Entries(d)' = Entries(d)
  BY OwnEntries DEF LocalStep, TypeInv
<1>12. StillAbsent'
  BY <1>1, <1>10, <1>11, Exclusive DEF StillAbsent, Entries, Critical
<1>13. ChosenAsAsked'
  BY <1>1, <1>10, <1>11, Exclusive DEF ChosenAsAsked, Entries, Critical
<1>14. BoundAsAsked'
  <2> SUFFICES ASSUME NEW d \in Conns, Bound(d)', NEW i \in 1..Len(queue_list'),
                      queue_list'[i] = request'[d].queue
               PROVE  my_queue'[d] <= i
    BY DEF BoundAsAsked
  <2>1. d # c
    BY <1>10 DEF Bound, Enlisted
  <2>2. Bound(d) /\ request'[d] = request[d] /\ my_queue'[d] = my_queue[d]
    BY <1>11, <2>1 DEF Entries, Bound, Enlisted
  <2>3. my_queue[d] \in 1..(Len(queue_list) + 1)
    BY <2>2 DEF TypeInv, Control, Ready
  <2>4. CASE i = Len(queue_list) + 1
    BY <1>3, <2>2, <2>3, <2>4
  <2>5. CASE i \in 1..Len(queue_list)
    BY <1>2, <1>3, <1>6, <2>2, <2>5 DEF Naming, BoundAsAsked
  <2> QED BY <1>3, <1>7, <2>4, <2>5
<1> QED BY <1>8, <1>9, <1>12, <1>13, <1>14 DEF Naming

\* The index found is that of the name, or past the end, where there is room.
LEMMA NamingConsumeSearch ==
  ASSUME TypeInv, Naming, NEW c \in Conns, ConsumeSearch(c)
  PROVE  Naming' /\ my_queue'[c] \in Slots
<1> DEFINE q == Position(request[c].queue)
<1>1. /\ server = "up"
      /\ my_queue' = [my_queue EXCEPT ![c] = q]
      /\ server' = IF q <= MAX_NUM_QUEUE THEN server ELSE "overrun"
      /\ UNCHANGED << request, queue_list >>
      /\ state[c] = "RCVD_BASIC_CONSUME"
  BY DEF ConsumeSearch, At, sharedVars
<1>2. queue_list \in Seq(Names) /\ Len(queue_list) \in Nat /\ DOMAIN queue_list = 1..Len(queue_list)
      /\ Len(queue_list) <= MAX_NUM_QUEUE /\ MAX_NUM_QUEUE \in Nat
  BY BrokerAssumption DEF TypeInv, TypeOK
<1>3. /\ q \in 1..(Len(queue_list) + 1)
      /\ q <= Len(queue_list) => queue_list[q] = request[c].queue
      /\ \A j \in 1..Len(queue_list) : queue_list[j] = request[c].queue => q <= j
  BY <1>2, PositionIs
<1>4. request[c].queue \in Names
  BY <1>1 DEF TypeInv, Control, Ready, Request
<1>5. my_queue'[c] = q
  BY <1>1 DEF TypeInv, TypeOK
<1> HIDE DEF q
<1>6. q <= MAX_NUM_QUEUE
  <2>1. CASE request[c].queue \in ToSet(queue_list)
    BY <1>2, <1>3, <2>1 DEF ToSet
  <2>2. CASE request[c].queue \notin ToSet(queue_list)
    BY <1>2, <1>3, <1>4, <2>2, RoomForAName DEF Naming, OneQueuePerName
  <2> QED BY <2>1, <2>2
<1>7. step'[c] \in {"create", "enlist"}
  BY Moves, Lands
<1>8. JoinsAsAsked(c)'
  <2>1. CASE request[c].queue \in ToSet(queue_list)
    <3>1. q \in DOMAIN queue_list
      BY <1>2, <1>3, <2>1 DEF ToSet
    <3> QED BY <1>1, <1>2, <1>3, <1>5, <2>1, <3>1 DEF JoinsAsAsked
  <2>2. CASE request[c].queue \notin ToSet(queue_list)
    <3>1. q \notin DOMAIN queue_list
      BY <1>2, <1>3, <2>2 DEF ToSet
    <3> QED BY <1>1, <1>2, <1>3, <1>5, <2>2, <3>1 DEF JoinsAsAsked
  <2> QED BY <2>1, <2>2
<1>9. Naming'
  BY <1>1, <1>3, <1>5, <1>6, <1>7, <1>8, NamingFrame DEF ThreadStep, LockingStep
<1> QED BY <1>2, <1>3, <1>5, <1>6, <1>9 DEF Slots

\* The other steps change no name and no index, and leave alone what ties their
\* thread to a ring.
QuietStep(c) ==
  \/ ConsumeEnlist(c) \/ do_RCVD_BASIC_PUBLISH(c) \/ do_SUBSCRIBED(c)
  \/ NothingToDeliver(c) \/ Take(c) \/ Finish(c) \/ Reply(c) \/ Deliver(c)
  \/ Rotate(c) \/ CloseOk(c) \/ Read(c) \/ ReadEof(c) \/ SigPipe(c) \/ ClientCloses(c)

\* What those steps leave alone.
LEMMA QuietSteps ==
  ASSUME TypeInv, NEW c \in Conns, QuietStep(c)
  PROVE  /\ UNCHANGED << queue_list, request, my_queue >>
         /\ server' # "overrun"
         /\ \A p \in {"insert", "create", "enlist"} : step'[c] = p => step[c] = p
         /\ Bound(c)' <=> Bound(c)
<1>1. Agree(state[c], step[c])
  BY DEF TypeInv, Control
<1>2. CASE ConsumeEnlist(c)
  <2>1. /\ UNCHANGED << queue_list, request, my_queue >>
        /\ server' # "overrun"
    BY <1>2 DEF ConsumeEnlist, In, sharedVars, historyVars
  <2>2. /\ \A p \in {"insert", "create", "enlist"} : step'[c] = p => step[c] = p
        /\ Bound(c)' <=> Bound(c)
    BY <1>1, <1>2, Moves, Lands DEF ConsumeEnlist, In, sharedVars, historyVars, Agree,
         Bound, Enlisted
  <2> QED BY <2>1, <2>2
<1>3. CASE do_RCVD_BASIC_PUBLISH(c)
  <2>1. /\ UNCHANGED << queue_list, request, my_queue >>
        /\ server' # "overrun"
    BY <1>3 DEF do_RCVD_BASIC_PUBLISH, At
  <2>2. /\ \A p \in {"insert", "create", "enlist"} : step'[c] = p => step[c] = p
        /\ Bound(c)' <=> Bound(c)
    BY <1>1, <1>3, Moves, Lands DEF do_RCVD_BASIC_PUBLISH, At, Agree, Bound, Enlisted
  <2> QED BY <2>1, <2>2
<1>4. CASE do_SUBSCRIBED(c)
  <2>1. /\ UNCHANGED << queue_list, request, my_queue >>
        /\ server' # "overrun"
    BY <1>4 DEF do_SUBSCRIBED, At, sharedVars
  <2>2. /\ \A p \in {"insert", "create", "enlist"} : step'[c] = p => step[c] = p
        /\ Bound(c)' <=> Bound(c)
    BY <1>1, <1>4, Moves, Lands DEF do_SUBSCRIBED, At, sharedVars, Agree, Bound, Enlisted
  <2> QED BY <2>1, <2>2
<1>5. CASE NothingToDeliver(c)
  <2>1. /\ UNCHANGED << queue_list, request, my_queue >>
        /\ server' # "overrun"
    BY <1>5 DEF NothingToDeliver, At, sharedVars
  <2>2. /\ \A p \in {"insert", "create", "enlist"} : step'[c] = p => step[c] = p
        /\ Bound(c)' <=> Bound(c)
    BY <1>1, <1>5, Moves, Lands DEF NothingToDeliver, At, sharedVars, Agree, Bound,
         Enlisted
  <2> QED BY <2>1, <2>2
<1>6. CASE Take(c)
  <2>1. /\ UNCHANGED << queue_list, request, my_queue >>
        /\ server' # "overrun"
    BY <1>6 DEF Take, At
  <2>2. /\ \A p \in {"insert", "create", "enlist"} : step'[c] = p => step[c] = p
        /\ Bound(c)' <=> Bound(c)
    BY <1>1, <1>6, Moves, Lands DEF Take, At, Agree, Bound, Enlisted
  <2> QED BY <2>1, <2>2
<1>7. CASE Finish(c)
  <2>1. /\ UNCHANGED << queue_list, request, my_queue >>
        /\ server' # "overrun"
    BY <1>7 DEF Finish, At, sharedVars
  <2>2. /\ \A p \in {"insert", "create", "enlist"} : step'[c] = p => step[c] = p
        /\ Bound(c)' <=> Bound(c)
    BY <1>1, <1>7, Moves, Lands DEF Finish, At, sharedVars, Agree, Bound, Enlisted
  <2> QED BY <2>1, <2>2
<1>8. CASE Reply(c)
  <2>1. /\ UNCHANGED << queue_list, request, my_queue >>
        /\ server' # "overrun"
    BY <1>8 DEF Reply, In, sharedVars
  <2>2. /\ \A p \in {"insert", "create", "enlist"} : step'[c] = p => step[c] = p
        /\ Bound(c)' <=> Bound(c)
    BY <1>1, <1>8, Moves, Lands DEF Reply, In, sharedVars, Agree, Bound, Enlisted
  <2> QED BY <2>1, <2>2
<1>9. CASE Deliver(c)
  <2>1. /\ UNCHANGED << queue_list, request, my_queue >>
        /\ server' # "overrun"
    BY <1>9 DEF Deliver, In
  <2>2. /\ \A p \in {"insert", "create", "enlist"} : step'[c] = p => step[c] = p
        /\ Bound(c)' <=> Bound(c)
    BY <1>1, <1>9, Moves, Lands DEF Deliver, In, Agree, Bound, Enlisted
  <2> QED BY <2>1, <2>2
<1>10. CASE Rotate(c)
  <2>1. /\ UNCHANGED << queue_list, request, my_queue >>
        /\ server' # "overrun"
    BY <1>10 DEF Rotate, In
  <2>2. /\ \A p \in {"insert", "create", "enlist"} : step'[c] = p => step[c] = p
        /\ Bound(c)' <=> Bound(c)
    BY <1>1, <1>10, Moves, Lands DEF Rotate, In, Agree, Bound, Enlisted
  <2> QED BY <2>1, <2>2
<1>11. CASE CloseOk(c)
  <2>1. /\ UNCHANGED << queue_list, request, my_queue >>
        /\ server' # "overrun"
    BY <1>11 DEF CloseOk, At, sharedVars
  <2>2. /\ \A p \in {"insert", "create", "enlist"} : step'[c] = p => step[c] = p
        /\ Bound(c)' <=> Bound(c)
    BY <1>1, <1>11, Moves, Lands DEF CloseOk, At, sharedVars, Agree, Bound, Enlisted
  <2> QED BY <2>1, <2>2
<1>12. CASE Read(c)
  <2>1. /\ UNCHANGED << queue_list, request, my_queue >>
        /\ server' # "overrun"
    BY <1>12 DEF Read, At, Answer, sharedVars
  <2>2. /\ \A p \in {"insert", "create", "enlist"} : step'[c] = p => step[c] = p
        /\ Bound(c)' <=> Bound(c)
    BY <1>1, <1>12, Moves, Lands DEF Read, At, Answer, sharedVars, Agree, Bound, Enlisted
  <2> QED BY <2>1, <2>2
<1>13. CASE ReadEof(c)
  <2>1. /\ UNCHANGED << queue_list, request, my_queue >>
        /\ server' # "overrun"
    BY <1>13 DEF ReadEof, At, Answer, sharedVars
  <2>2. /\ \A p \in {"insert", "create", "enlist"} : step'[c] = p => step[c] = p
        /\ Bound(c)' <=> Bound(c)
    BY <1>1, <1>13, Moves, Lands DEF ReadEof, At, Answer, sharedVars, Agree, Bound,
         Enlisted
  <2> QED BY <2>1, <2>2
<1>14. CASE SigPipe(c) \/ ClientCloses(c)
  BY <1>14 DEF SigPipe, ClientCloses, threadVars, sharedVars, Bound, Enlisted
<1> QED BY <1>2, <1>3, <1>4, <1>5, <1>6, <1>7, <1>8, <1>9, <1>10, <1>11, <1>12, <1>13, <1>14 DEF QuietStep

\* So they keep the names and indexes right.
LEMMA NamingQuiet ==
  ASSUME TypeInv, Naming, NEW c \in Conns, QuietStep(c)
  PROVE  Naming'
<1>1. /\ UNCHANGED << queue_list, request, my_queue >>
      /\ server' # "overrun"
      /\ \A p \in {"insert", "create", "enlist"} : step'[c] = p => step[c] = p
      /\ Bound(c)' <=> Bound(c)
  BY QuietSteps
<1>2. ThreadStep(c)
  BY DEF QuietStep, ThreadStep, LockingStep, LocalStep
<1>3. step[c] = "insert" => request[c].queue \notin ToSet(queue_list)
  BY DEF Naming, StillAbsent
<1>4. Bound(c) => \A i \in 1..Len(queue_list) :
                    queue_list[i] = request[c].queue => my_queue[c] <= i
  BY DEF Naming, BoundAsAsked
<1>5. step'[c] \in {"create", "enlist"} => JoinsAsAsked(c)'
  BY <1>1 DEF Naming, ChosenAsAsked, JoinsAsAsked
<1> QED BY <1>1, <1>2, <1>3, <1>4, <1>5, NamingFrame

\* Every step keeps the names and indexes right.
LEMMA NamingNext ==
  ASSUME TypeInv, Mutex, Naming, NEW c \in Conns, ThreadStep(c)
  PROVE  Naming'
<1>1. \/ do_WAIT_COMMAND(c) \/ DeclareSearch(c) \/ DeclareInsert(c) \/ ConsumeSearch(c)
      \/ QuietStep(c)
  BY DEF ThreadStep, LockingStep, LocalStep, QuietStep
<1> QED BY <1>1, NamingCommand, NamingDeclareSearch, NamingDeclareInsert,
           NamingConsumeSearch, NamingQuiet

-----------------------------------------------------------------------------
\* Rings.

\* c is in its ring now; it is c's turn.
InRing(c) == Enlisted(c) /\ step[c] # "rotate"
Turn(c) == state[c] = "CLIENT_TURN" /\ step[c] # "rotate"

\* All rings are empty at first.
LEMMA RingsInit == Init => Rings
<1> SUFFICES ASSUME Init PROVE Rings
  OBVIOUS
<1>1. /\ server = "up"
      /\ client_queue = [q \in Slots |-> << >>]
      /\ \A c \in Conns : step[c] = "out" /\ state[c] = "WAIT_COMMAND"
  BY DEF Init
<1>2. StillEmpty /\ TurnStable /\ CrashOnlyForUndeclared
  BY <1>1 DEF StillEmpty, TurnStable, CrashOnlyForUndeclared
<1>3. RingMatches
  BY <1>1 DEF RingMatches, Enlisted, IsInjective, ToSet
<1> QED BY <1>2, <1>3 DEF Rings

\* A consumer in its ring has an index, and the ring has it.
LEMMA Ringed ==
  ASSUME TypeInv, Rings, server = "up", NEW c \in Conns, InRing(c)
  PROVE  /\ my_queue[c] \in Slots
         /\ c \in ToSet(client_queue[my_queue[c]])
         /\ client_queue[my_queue[c]] \in Seq(Conns)
         /\ client_queue[my_queue[c]] # << >>
<1>1. my_queue[c] \in Slots
  BY DEF InRing, Bound, TypeInv, Control, Ready
<1>2. c \in ToSet(client_queue[my_queue[c]])
  BY <1>1 DEF InRing, Rings, RingMatches
<1>3. client_queue[my_queue[c]] \in Seq(Conns)
  BY <1>1 DEF TypeInv, TypeOK
<1> QED BY <1>1, <1>2, <1>3, EmptyRange

\* A step that leaves the rings alone need only keep what concerns its thread.
LEMMA RingsFrame ==
  ASSUME TypeInv, Rings, NEW c \in Conns, ThreadStep(c), UNCHANGED client_queue,
         InRing(c)' <=> InRing(c),
         InRing(c) => my_queue'[c] = my_queue[c],
         step'[c] = "create" => client_queue[my_queue'[c]] = << >>,
         Turn(c)' => /\ client_queue[my_queue'[c]] # << >>
                     /\ Head(client_queue[my_queue'[c]]) = c,
         server' = "segv" => CrashOnlyForUndeclared'
  PROVE  Rings'
<1>1. \A d \in Conns : d # c => Entries(d)' = Entries(d)
  BY OwnEntries DEF ThreadStep, TypeInv
<1>2. StillEmpty'
  BY <1>1 DEF StillEmpty, Rings, Entries
<1>3. TurnStable'
  BY <1>1 DEF TurnStable, Rings, Entries, Turn
<1>4. \A d \in Conns : /\ InRing(d)' <=> InRing(d)
                       /\ InRing(d) => my_queue'[d] = my_queue[d]
  BY <1>1 DEF Entries, InRing, Enlisted
<1>5. RingMatches <=>
        \A q \in Slots : /\ IsInjective(client_queue[q])
                         /\ ToSet(client_queue[q]) = {d \in Conns : InRing(d) /\ my_queue[d] = q}
  BY DEF RingMatches, InRing
<1>6. RingMatches' <=>
        \A q \in Slots : /\ IsInjective(client_queue'[q])
                         /\ ToSet(client_queue'[q]) = {d \in Conns : InRing(d)' /\ my_queue'[d] = q}
  BY DEF RingMatches, InRing
<1>7. \A q \in Slots : {d \in Conns : InRing(d)' /\ my_queue'[d] = q} =
                         {d \in Conns : InRing(d) /\ my_queue[d] = q}
  BY <1>4
<1>8. RingMatches'
  BY <1>5, <1>6, <1>7 DEF Rings
<1>9. CrashOnlyForUndeclared'
  BY DEF CrashOnlyForUndeclared
<1> QED BY <1>2, <1>3, <1>8, <1>9 DEF Rings

\* A step that changes a ring changes its own, inside its critical section.
LEMMA RingsChange ==
  ASSUME TypeInv, Mutex, Rings, NEW c \in Conns, ThreadStep(c), step[c] \in Critical,
         server' = "up", UNCHANGED my_queue, NEW R \in Seq(Conns),
         my_queue[c] \in Slots,
         client_queue' = [client_queue EXCEPT ![my_queue[c]] = R],
         IsInjective(R),
         ToSet(R) = IF InRing(c)' THEN ToSet(client_queue[my_queue[c]]) \union {c}
                                  ELSE ToSet(client_queue[my_queue[c]]) \ {c},
         step'[c] # "create",
         ~ Turn(c)',
         \A d \in Conns : d # c /\ Turn(d) /\ my_queue[d] = my_queue[c] =>
                            R # << >> /\ Head(R) = d
  PROVE  Rings'
<1> DEFINE q == my_queue[c]
<1>1. \A d \in Conns : d # c => Entries(d)' = Entries(d)
  BY OwnEntries DEF ThreadStep, TypeInv
<1>2. /\ client_queue'[q] = R
      /\ \A p \in Slots : p # q => client_queue'[p] = client_queue[p]
  BY DEF TypeInv, TypeOK
<1>3. \A d \in Conns : d # c => /\ InRing(d)' <=> InRing(d)
                                /\ Turn(d)' <=> Turn(d)
                                /\ step'[d] = step[d]
  BY <1>1 DEF Entries, InRing, Enlisted, Turn
<1>4. StillEmpty'
  BY <1>3, Exclusive DEF StillEmpty, Critical
<1>5. TurnStable'
  <2> SUFFICES ASSUME NEW d \in Conns, d # c, Turn(d)'
               PROVE  client_queue'[my_queue[d]] # << >> /\ Head(client_queue'[my_queue[d]]) = d
    BY DEF TurnStable, Turn
  <2>1. Turn(d) /\ client_queue[my_queue[d]] # << >> /\ Head(client_queue[my_queue[d]]) = d
    BY <1>3 DEF Rings, TurnStable, Turn
  <2>2. CASE my_queue[d] = q
    BY <1>2, <2>1, <2>2
  <2>3. CASE my_queue[d] # q
    <3>1. client_queue'[my_queue[d]] = client_queue[my_queue[d]]
      BY <2>3 DEF TypeInv, TypeOK
    <3> QED BY <2>1, <3>1
  <2> QED BY <2>2, <2>3
<1>6. RingMatches'
  <2>1. \A p \in Slots : /\ IsInjective(client_queue[p])
                         /\ ToSet(client_queue[p]) = {d \in Conns : InRing(d) /\ my_queue[d] = p}
    BY DEF Rings, RingMatches, InRing
  <2> SUFFICES ASSUME NEW p \in Slots
               PROVE  /\ IsInjective(client_queue'[p])
                      /\ ToSet(client_queue'[p]) = {d \in Conns : InRing(d)' /\ my_queue[d] = p}
    BY DEF RingMatches, InRing
  <2>2. CASE p = q
    <3>1. ToSet(client_queue[q]) = {d \in Conns : InRing(d) /\ my_queue[d] = q}
      BY <2>1, <2>2
    <3>2. ToSet(R) = {d \in Conns : InRing(d)' /\ my_queue[d] = q}
      BY <1>3, <3>1
    <3> QED BY <1>2, <2>2, <3>2
  <2>3. CASE p # q
    BY <1>2, <1>3, <2>1, <2>3
  <2> QED BY <2>2, <2>3
<1>7. CrashOnlyForUndeclared'
  BY DEF CrashOnlyForUndeclared
<1> QED BY <1>4, <1>5, <1>6, <1>7 DEF Rings

\* Subscribing joins the back of the ring.
LEMMA RingsEnlist ==
  ASSUME TypeInv, Mutex, Rings, NEW c \in Conns, ConsumeEnlist(c)
  PROVE  Rings'
<1> DEFINE q == my_queue[c]
           R == Append(client_queue[q], c)
<1>1. /\ server = "up" /\ server' = "up" /\ UNCHANGED my_queue
      /\ step[c] \in {"create", "enlist"}
  BY DEF ConsumeEnlist, In
<1>2. q \in Slots /\ state[c] = "RCVD_BASIC_CONSUME"
  BY <1>1 DEF TypeInv, Control, Agree, Ready, Bound
<1>3. client_queue[q] \in Seq(Conns) /\ IsInjective(client_queue[q])
  BY <1>2 DEF TypeInv, TypeOK, Rings, RingMatches
<1>4. client_queue' = [client_queue EXCEPT ![q] = R]
  <2>1. step[c] = "create" => client_queue[q] = << >>
    BY DEF Rings, StillEmpty
  <2> QED BY <2>1 DEF ConsumeEnlist, enqueue_queue
<1>5. c \notin ToSet(client_queue[q])
  BY <1>1, <1>2 DEF Rings, RingMatches, Enlisted
<1>6. R \in Seq(Conns) /\ IsInjective(R) /\ ToSet(R) = ToSet(client_queue[q]) \union {c}
  BY <1>3, <1>5, AppendDistinct
<1>7. state'[c] = "RCVD_BASIC_CONSUME" /\ step'[c] = "reply"
  BY Moves, Lands
<1>8. InRing(c)' /\ ~ Turn(c)'
  BY <1>7 DEF InRing, Turn, Enlisted
<1>9. \A d \in Conns : d # c /\ Turn(d) /\ my_queue[d] = q => R # << >> /\ Head(R) = d
  BY <1>3, AppendDistinct DEF Turn, Rings, TurnStable
<1>10. ThreadStep(c) /\ step[c] \in Critical
  BY <1>1 DEF ThreadStep, LocalStep, Critical
<1> HIDE DEF R
<1> QED BY <1>1, <1>2, <1>4, <1>6, <1>7, <1>8, <1>9, <1>10, RingsChange

\* A delivery takes off the ring the consumer that made it.
LEMMA RingsDeliver ==
  ASSUME TypeInv, Mutex, Rings, NEW c \in Conns, Deliver(c)
  PROVE  Rings'
<1> DEFINE q == my_queue[c]
           R == Tail(client_queue[q])
<1>1. /\ server = "up" /\ server' = "up" /\ UNCHANGED my_queue
      /\ step[c] = "write"
  BY DEF Deliver, In
<1>2. state[c] = "CLIENT_TURN" /\ q \in Slots
  BY <1>1 DEF TypeInv, Control, Agree, Ready, Bound, Enlisted
<1>3. client_queue[q] \in Seq(Conns) /\ IsInjective(client_queue[q])
  BY <1>2 DEF TypeInv, TypeOK, Rings, RingMatches
<1>4. client_queue[q] # << >> /\ Head(client_queue[q]) = c
  BY <1>1, <1>2 DEF Rings, TurnStable
<1>5. client_queue' = [client_queue EXCEPT ![q] = R]
  BY <1>4 DEF Deliver, dequeue_queue
<1>6. R \in Seq(Conns) /\ IsInjective(R) /\ ToSet(R) = ToSet(client_queue[q]) \ {c}
  BY <1>3, <1>4, TailDistinct
<1>7. state'[c] = "CLIENT_TURN" /\ step'[c] = "rotate"
  BY Moves, Lands
<1>8. ~ InRing(c)' /\ ~ Turn(c)'
  BY <1>7 DEF InRing, Turn
<1>9. \A d \in Conns : d # c /\ Turn(d) => my_queue[d] # q
  BY <1>4 DEF Turn, Rings, TurnStable
<1>10. ThreadStep(c) /\ step[c] \in Critical
  BY <1>1 DEF ThreadStep, LocalStep, Critical
<1> HIDE DEF R
<1> QED BY <1>1, <1>2, <1>5, <1>6, <1>7, <1>8, <1>9, <1>10, RingsChange

\* The rotation then puts that consumer at the back.
LEMMA RingsRotate ==
  ASSUME TypeInv, Mutex, Rings, NEW c \in Conns, Rotate(c)
  PROVE  Rings'
<1> DEFINE q == my_queue[c]
           R == Append(client_queue[q], c)
<1>1. /\ server = "up" /\ server' = "up" /\ UNCHANGED my_queue
      /\ step[c] = "rotate"
  BY DEF Rotate, In
<1>2. state[c] = "CLIENT_TURN" /\ q \in Slots
  BY <1>1 DEF TypeInv, Control, Agree, Ready, Bound, Enlisted
<1>3. client_queue[q] \in Seq(Conns) /\ IsInjective(client_queue[q])
  BY <1>2 DEF TypeInv, TypeOK, Rings, RingMatches
<1>4. client_queue' = [client_queue EXCEPT ![q] = R]
  BY DEF Rotate, enqueue_queue
<1>5. c \notin ToSet(client_queue[q])
  BY <1>1, <1>2 DEF Rings, RingMatches
<1>6. R \in Seq(Conns) /\ IsInjective(R) /\ ToSet(R) = ToSet(client_queue[q]) \union {c}
  BY <1>3, <1>5, AppendDistinct
<1>7. state'[c] = "WAIT_BASIC_ACK" /\ step'[c] = "out"
  BY Moves, Lands
<1>8. InRing(c)' /\ ~ Turn(c)'
  BY <1>7 DEF InRing, Turn, Enlisted
<1>9. \A d \in Conns : d # c /\ Turn(d) /\ my_queue[d] = q => R # << >> /\ Head(R) = d
  BY <1>3, AppendDistinct DEF Turn, Rings, TurnStable
<1>10. ThreadStep(c) /\ step[c] \in Critical
  BY <1>1 DEF ThreadStep, LocalStep, Critical
<1> HIDE DEF R
<1> QED BY <1>1, <1>2, <1>4, <1>6, <1>7, <1>8, <1>9, <1>10, RingsChange

\* The steps that neither change a ring nor depend on one.
CalmStep(c) ==
  \/ do_WAIT_COMMAND(c) \/ DeclareSearch(c) \/ DeclareInsert(c) \/ Take(c)
  \/ Finish(c) \/ Reply(c) \/ CloseOk(c) \/ Read(c) \/ ReadEof(c)
  \/ SigPipe(c) \/ ClientCloses(c)

\* What those steps leave alone.
LEMMA CalmSteps ==
  ASSUME TypeInv, NEW c \in Conns, CalmStep(c)
  PROVE  /\ UNCHANGED << client_queue, my_queue >>
         /\ server' # "segv"
         /\ InRing(c)' <=> InRing(c)
         /\ Turn(c)' => Turn(c)
         /\ step'[c] = "create" => step[c] = "create"
<1>1. Agree(state[c], step[c])
  BY DEF TypeInv, Control
<1>2. CASE do_WAIT_COMMAND(c)
  <2>1. UNCHANGED << client_queue, my_queue >> /\ server' # "segv"
    BY <1>2 DEF do_WAIT_COMMAND, At, sharedVars, Commands
  <2>2. /\ InRing(c)' <=> InRing(c)
        /\ Turn(c)' => Turn(c)
        /\ step'[c] = "create" => step[c] = "create"
    BY <1>1, <1>2, Moves, Lands DEF do_WAIT_COMMAND, At, sharedVars, Commands, Agree,
         InRing, Turn, Enlisted
  <2> QED BY <2>1, <2>2
<1>3. CASE DeclareSearch(c)
  <2>1. UNCHANGED << client_queue, my_queue >> /\ server' # "segv"
    BY <1>3 DEF DeclareSearch, At, sharedVars
  <2>2. /\ InRing(c)' <=> InRing(c)
        /\ Turn(c)' => Turn(c)
        /\ step'[c] = "create" => step[c] = "create"
    BY <1>1, <1>3, Moves, Lands DEF DeclareSearch, At, sharedVars, Agree, InRing, Turn,
         Enlisted
  <2> QED BY <2>1, <2>2
<1>4. CASE DeclareInsert(c)
  <2>1. UNCHANGED << client_queue, my_queue >> /\ server' # "segv"
    BY <1>4 DEF DeclareInsert, In
  <2>2. /\ InRing(c)' <=> InRing(c)
        /\ Turn(c)' => Turn(c)
        /\ step'[c] = "create" => step[c] = "create"
    BY <1>1, <1>4, Moves, Lands DEF DeclareInsert, In, Agree, InRing, Turn, Enlisted
  <2> QED BY <2>1, <2>2
<1>5. CASE Take(c)
  <2>1. UNCHANGED << client_queue, my_queue >> /\ server' # "segv"
    BY <1>5 DEF Take, At
  <2>2. /\ InRing(c)' <=> InRing(c)
        /\ Turn(c)' => Turn(c)
        /\ step'[c] = "create" => step[c] = "create"
    BY <1>1, <1>5, Moves, Lands DEF Take, At, Agree, InRing, Turn, Enlisted
  <2> QED BY <2>1, <2>2
<1>6. CASE Finish(c)
  <2>1. UNCHANGED << client_queue, my_queue >> /\ server' # "segv"
    BY <1>6 DEF Finish, At, sharedVars
  <2>2. /\ InRing(c)' <=> InRing(c)
        /\ Turn(c)' => Turn(c)
        /\ step'[c] = "create" => step[c] = "create"
    BY <1>1, <1>6, Moves, Lands DEF Finish, At, sharedVars, Agree, InRing, Turn, Enlisted
  <2> QED BY <2>1, <2>2
<1>7. CASE Reply(c)
  <2>1. UNCHANGED << client_queue, my_queue >> /\ server' # "segv"
    BY <1>7 DEF Reply, In, sharedVars
  <2>2. /\ InRing(c)' <=> InRing(c)
        /\ Turn(c)' => Turn(c)
        /\ step'[c] = "create" => step[c] = "create"
    BY <1>1, <1>7, Moves, Lands DEF Reply, In, sharedVars, Agree, InRing, Turn, Enlisted
  <2> QED BY <2>1, <2>2
<1>8. CASE CloseOk(c)
  <2>1. UNCHANGED << client_queue, my_queue >> /\ server' # "segv"
    BY <1>8 DEF CloseOk, At, sharedVars
  <2>2. /\ InRing(c)' <=> InRing(c)
        /\ Turn(c)' => Turn(c)
        /\ step'[c] = "create" => step[c] = "create"
    BY <1>1, <1>8, Moves, Lands DEF CloseOk, At, sharedVars, Agree, InRing, Turn, Enlisted
  <2> QED BY <2>1, <2>2
<1>9. CASE Read(c)
  <2>1. UNCHANGED << client_queue, my_queue >> /\ server' # "segv"
    BY <1>9 DEF Read, At, Answer, sharedVars
  <2>2. /\ InRing(c)' <=> InRing(c)
        /\ Turn(c)' => Turn(c)
        /\ step'[c] = "create" => step[c] = "create"
    BY <1>1, <1>9, Moves, Lands DEF Read, At, Answer, sharedVars, Agree, InRing, Turn,
         Enlisted
  <2> QED BY <2>1, <2>2
<1>10. CASE ReadEof(c)
  <2>1. UNCHANGED << client_queue, my_queue >> /\ server' # "segv"
    BY <1>10 DEF ReadEof, At, Answer, sharedVars
  <2>2. /\ InRing(c)' <=> InRing(c)
        /\ Turn(c)' => Turn(c)
        /\ step'[c] = "create" => step[c] = "create"
    BY <1>1, <1>10, Moves, Lands DEF ReadEof, At, Answer, sharedVars, Agree, InRing,
         Turn, Enlisted
  <2> QED BY <2>1, <2>2
<1>11. CASE SigPipe(c) \/ ClientCloses(c)
  BY <1>11 DEF SigPipe, ClientCloses, threadVars, sharedVars, InRing, Turn, Enlisted
<1> QED BY <1>2, <1>3, <1>4, <1>5, <1>6, <1>7, <1>8, <1>9, <1>10, <1>11 DEF CalmStep

\* So they keep the rings right.
LEMMA RingsCalm ==
  ASSUME TypeInv, Rings, NEW c \in Conns, CalmStep(c)
  PROVE  Rings'
<1>1. /\ UNCHANGED << client_queue, my_queue >>
      /\ server' # "segv"
      /\ InRing(c)' <=> InRing(c)
      /\ Turn(c)' => Turn(c)
      /\ step'[c] = "create" => step[c] = "create"
  BY CalmSteps
<1>2. ThreadStep(c)
  BY DEF CalmStep, ThreadStep, LockingStep, LocalStep
<1>3. step[c] = "create" => client_queue[my_queue[c]] = << >>
  BY DEF Rings, StillEmpty
<1>4. Turn(c) => client_queue[my_queue[c]] # << >> /\ Head(client_queue[my_queue[c]]) = c
  BY DEF Rings, TurnStable, Turn
<1> QED BY <1>1, <1>2, <1>3, <1>4, RingsFrame

\* A ring that no enlisted consumer is in is empty, and stays so: the mutex is held.
LEMMA RingsConsumeSearch ==
  ASSUME TypeInv, Naming, Rings, NEW c \in Conns, ConsumeSearch(c)
  PROVE  Rings'
<1> DEFINE q == my_queue'[c]
<1>1. /\ UNCHANGED client_queue /\ server' # "segv"
      /\ state[c] = "RCVD_BASIC_CONSUME" /\ step[c] = "out"
  BY DEF ConsumeSearch, At, sharedVars
<1>2. q \in Slots
  BY NamingConsumeSearch
<1>3. q = Position(request[c].queue)
  BY DEF ConsumeSearch, TypeInv, TypeOK
<1>4. state'[c] = "RCVD_BASIC_CONSUME" /\ step'[c] \in {"create", "enlist"}
  BY Moves, Lands
<1>5. ~ InRing(c) /\ ~ InRing(c)' /\ ~ Turn(c)'
  BY <1>1, <1>4 DEF InRing, Turn, Enlisted
<1>6. step'[c] = "create" => client_queue[q] = << >>
  <2> SUFFICES ASSUME step'[c] = "create" PROVE client_queue[q] = << >>
    OBVIOUS
  <2>1. \A d \in Conns : Enlisted(d) => my_queue[d] # q
    <3>1. step'[c] = IF \A d \in Conns : Enlisted(d) => my_queue[d] # Position(request[c].queue)
                     THEN "create" ELSE "enlist"
      BY DEF ConsumeSearch, GoOn, TypeInv, TypeOK
    <3> QED BY <1>3, <3>1
  <2>2. ToSet(client_queue[q]) = {}
    BY <1>2, <2>1 DEF Rings, RingMatches
  <2> QED BY <1>2, <2>2, EmptyRange DEF TypeInv, TypeOK
<1>7. ThreadStep(c)
  BY DEF ThreadStep, LockingStep
<1> QED BY <1>1, <1>5, <1>6, <1>7, RingsFrame

\* A consumer waiting for its turn is in its ring, so the ring has a front.
LEMMA RingsSubscribed ==
  ASSUME TypeInv, Rings, NEW c \in Conns, do_SUBSCRIBED(c)
  PROVE  Rings'
<1> DEFINE ring == client_queue[my_queue[c]]
<1>1. /\ server = "up" /\ state[c] = "SUBSCRIBED" /\ step[c] = "out"
      /\ UNCHANGED << client_queue, my_queue >>
  BY DEF do_SUBSCRIBED, At, sharedVars
<1>2. InRing(c) /\ ~ Turn(c)
  BY <1>1 DEF InRing, Turn, Enlisted
<1>3. ring # << >>
  BY <1>1, <1>2, Ringed
<1>4. server' = "up"
  BY <1>1, <1>3 DEF do_SUBSCRIBED
<1>5. \/ state'[c] = state[c] /\ step'[c] = step[c]
      \/ Head(ring) = c /\ state'[c] = "CLIENT_TURN" /\ step'[c] = "out"
  <2>1. CASE Head(ring) = c
    BY <2>1, Moves, Lands
  <2>2. CASE Head(ring) # c
    BY <2>2 DEF do_SUBSCRIBED, first_queue
  <2> QED BY <2>1, <2>2
<1>6. InRing(c)' /\ (Turn(c)' => Head(ring) = c) /\ step'[c] = "out"
  BY <1>1, <1>5 DEF InRing, Turn, Enlisted
<1>7. ThreadStep(c)
  BY DEF ThreadStep, LockingStep
<1> QED BY <1>1, <1>2, <1>3, <1>4, <1>6, <1>7, RingsFrame

\* A null queue in CLIENT_TURN is that of a consumer whose queue is not declared.
LEMMA RingsNothing ==
  ASSUME TypeInv, Naming, Rings, NEW c \in Conns, NothingToDeliver(c)
  PROVE  Rings'
<1>1. /\ server = "up" /\ state[c] = "CLIENT_TURN" /\ step[c] = "out"
      /\ UNCHANGED << client_queue, my_queue, request, queue_list >>
  BY DEF NothingToDeliver, At, sharedVars
<1>2. ThreadStep(c)
  BY DEF ThreadStep, LockingStep
<1>3. InRing(c) /\ Turn(c)
  BY <1>1 DEF InRing, Turn, Enlisted
<1>4. Turn(c) => client_queue[my_queue[c]] # << >> /\ Head(client_queue[my_queue[c]]) = c
  BY DEF Rings, TurnStable, Turn
<1>5. CASE my_queue[c] <= Len(queue_list)
  <2>1. server' = "up"
    BY <1>1, <1>5 DEF NothingToDeliver
  <2>2. state'[c] = "SUBSCRIBED" /\ step'[c] = "out"
    BY <1>1, <2>1, Moves, Lands
  <2>3. InRing(c)' /\ ~ Turn(c)'
    BY <2>2 DEF InRing, Turn, Enlisted
  <2> QED BY <1>1, <1>2, <1>3, <2>1, <2>2, <2>3, RingsFrame
<1>6. CASE ~ (my_queue[c] <= Len(queue_list))
  <2>1. server' = "segv" /\ UNCHANGED << state, step >>
    BY <1>1, <1>6 DEF NothingToDeliver
  <2>2. \A i \in 1..Len(queue_list) : queue_list[i] = request[c].queue => my_queue[c] <= i
    BY <1>1 DEF Naming, BoundAsAsked, Bound, Enlisted
  <2>3. my_queue[c] \in Nat /\ queue_list \in Seq(Names)
    BY DEF TypeInv, TypeOK
  <2>4. request[c].queue \notin ToSet(queue_list)
    BY <1>6, <2>2, <2>3 DEF ToSet
  <2>5. CrashOnlyForUndeclared'
    BY <1>1, <2>1, <2>4 DEF CrashOnlyForUndeclared
  <2>6. (InRing(c)' <=> InRing(c)) /\ step'[c] = "out"
    BY <1>1, <2>1 DEF InRing, Enlisted
  <2> QED BY <1>1, <1>2, <1>3, <1>4, <2>5, <2>6, RingsFrame
<1> QED BY <1>5, <1>6

\* A null queue in a publish is one that is not declared.
LEMMA RingsPublish ==
  ASSUME TypeInv, Rings, NEW c \in Conns, do_RCVD_BASIC_PUBLISH(c)
  PROVE  Rings'
<1> DEFINE q == Position(request[c].queue)
<1>1. /\ server = "up" /\ state[c] = "RCVD_BASIC_PUBLISH" /\ step[c] = "out"
      /\ UNCHANGED << client_queue, my_queue, request, queue_list >>
  BY DEF do_RCVD_BASIC_PUBLISH, At
<1>2. ThreadStep(c)
  BY DEF ThreadStep, LockingStep
<1>3. ~ InRing(c)
  BY <1>1 DEF InRing, Enlisted
<1>4. step'[c] = "out" /\ state'[c] \in {state[c], "WAIT_CHANNEL_CLOSE", "RCVD_CONNECTION_CLOSE"}
  BY <1>1, Moves, Lands
<1>5. ~ InRing(c)' /\ ~ Turn(c)'
  BY <1>1, <1>4 DEF InRing, Turn, Enlisted
<1>6. server' = "segv" => CrashOnlyForUndeclared'
  <2> SUFFICES ASSUME server' = "segv" PROVE CrashOnlyForUndeclared'
    OBVIOUS
  <2>1. ~ (q <= Len(queue_list)) /\ UNCHANGED << state, step >>
    BY <1>1 DEF do_RCVD_BASIC_PUBLISH
  <2>2. queue_list \in Seq(Names)
    BY DEF TypeInv, TypeOK
  <2>3. /\ q \in 1..(Len(queue_list) + 1)
        /\ \A j \in 1..Len(queue_list) : queue_list[j] = request[c].queue => q <= j
    BY <2>2, PositionIs
  <2> HIDE DEF q
  <2>4. request[c].queue \notin ToSet(queue_list)
    BY <2>1, <2>2, <2>3 DEF ToSet
  <2> QED BY <1>1, <2>1, <2>4 DEF CrashOnlyForUndeclared
<1> QED BY <1>1, <1>2, <1>3, <1>4, <1>5, <1>6, RingsFrame

\* Every step keeps the rings right.
LEMMA RingsNext ==
  ASSUME TypeInv, Mutex, Naming, Rings, NEW c \in Conns, ThreadStep(c)
  PROVE  Rings'
<1>1. \/ CalmStep(c) \/ ConsumeSearch(c) \/ do_SUBSCRIBED(c) \/ NothingToDeliver(c)
      \/ do_RCVD_BASIC_PUBLISH(c) \/ ConsumeEnlist(c) \/ Deliver(c) \/ Rotate(c)
  BY DEF ThreadStep, LockingStep, LocalStep, CalmStep
<1> QED BY <1>1, RingsCalm, RingsConsumeSearch, RingsSubscribed, RingsNothing, RingsPublish,
           RingsEnlist, RingsDeliver, RingsRotate

-----------------------------------------------------------------------------
\* The invariant.

\* The invariant holds of a server that has just started.
LEMMA GuardedInit == Init => Guarded
<1>1. Init => Mutex
  BY DEF Init, Mutex, Critical
<1> QED BY <1>1, TypeInit, NamingInit, RingsInit DEF Guarded

\* With the mutex, every step keeps the invariant.
LEMMA GuardedNext == Locking /\ Guarded /\ [Next]_vars => Guarded'
<1> SUFFICES ASSUME Locking, Guarded, [Next]_vars PROVE Guarded'
  OBVIOUS
<1>1. TypeInv'
  BY TypeNext DEF Guarded
<1>2. ASSUME NEW c \in Conns, ThreadStep(c) PROVE Guarded'
  BY <1>1, <1>2, MutexNext, NamingNext, RingsNext DEF Guarded
<1>3. CASE UNCHANGED vars
  <2>1. Mutex'
    BY <1>3 DEF Guarded, Mutex, vars, threadVars
  <2>2. Naming'
    BY <1>3 DEF Guarded, Naming, StillAbsent, OneQueuePerName, NoOverrun, BoundAsAsked,
                ChosenAsAsked, JoinsAsAsked, Bound, Enlisted, vars, threadVars, sharedVars
  <2>3. Rings'
    BY <1>3 DEF Guarded, Rings, StillEmpty, RingMatches, TurnStable, CrashOnlyForUndeclared,
                Enlisted, vars, threadVars, sharedVars
  <2> QED BY <1>1, <2>1, <2>2, <2>3 DEF Guarded
<1> QED BY <1>2, <1>3 DEF Next, Idle, ThreadStep

\* What the mutex is for: the inductive invariant holds in every state.
THEOREM Safe == Locking => (Spec => []Guarded)
<1> SUFFICES ASSUME Locking PROVE Spec => []Guarded
  OBVIOUS
<1>1. Guarded /\ [Next]_vars => Guarded'
  BY GuardedNext
<1> QED BY GuardedInit, <1>1, PTL DEF Spec

\* The turn that do_SUBSCRIBED saw is still the thread's when CLIENT_TURN uses it,
\* although the mutex was released in between.
THEOREM TurnIsStable == Locking => (Spec => []TurnStable)
<1>1. Guarded => TurnStable
  BY DEF Guarded, Rings
<1> QED BY Safe, <1>1, PTL

\* No consumer is lost from a ring or doubled in it.
THEOREM RingsMatch == Locking => (Spec => []RingMatches)
<1>1. Guarded => RingMatches
  BY DEF Guarded, Rings
<1> QED BY Safe, <1>1, PTL

\* However many clients declare a name, one queue has it.
THEOREM UniqueQueues == Locking => (Spec => []OneQueuePerName)
<1>1. Guarded => OneQueuePerName
  BY DEF Guarded, Naming
<1> QED BY Safe, <1>1, PTL

\* With at most MAX_NUM_QUEUE names in use the unchecked arrays are never overrun.
THEOREM ArraysSuffice == Locking => (Spec => []NoOverrun)
<1>1. Guarded => NoOverrun
  BY DEF Guarded, Naming
<1> QED BY Safe, <1>1, PTL

\* A consumer joins only the ring it chose before, and between the two nobody can
\* have declared a queue.
LEMMA SubscribersKept ==
  ASSUME Guarded, NEW c \in Conns, ThreadStep(c)
  PROVE  KeepsSubscribers
<1>1. TypeInv /\ Mutex /\ Naming
  BY DEF Guarded
<1>2. queue_list \in Seq(Names)
  BY <1>1 DEF TypeInv, TypeOK
<1>3. \A d \in Conns : d # c => Entries(d)' = Entries(d)
  BY <1>1, OwnEntries DEF ThreadStep, TypeInv
<1>4. \A d \in Conns : d # c => /\ Enlisted(d)' <=> Enlisted(d)
                              /\ my_queue'[d] = my_queue[d]
  BY <1>3 DEF Entries, Enlisted
<1>5. SUFFICES /\ ~Enlisted(c) /\ Enlisted(c)' => JoinsAsAsked(c)'
               /\ Enlisted(c) /\ Enlisted(c)' => my_queue'[c] = my_queue[c]
               /\ \A i \in DOMAIN queue_list :
                    i \in DOMAIN queue_list' /\ queue_list'[i] = queue_list[i]
  BY <1>4 DEF KeepsSubscribers
<1>6. CASE do_WAIT_COMMAND(c)
  <2>1. step'[c] = "out" /\ state'[c] \in Commands
    BY <1>1, <1>6, Moves, Lands
  <2> QED BY <1>6, <2>1 DEF do_WAIT_COMMAND, sharedVars, Enlisted, Commands
<1>7. CASE DeclareSearch(c)
  <2>1. state'[c] = "RCVD_QUEUE_DECLARE"
    BY <1>1, <1>7, Moves, Lands
  <2> QED BY <1>7, <2>1 DEF DeclareSearch, sharedVars, Enlisted
<1>8. CASE DeclareInsert(c)
  <2>1. state'[c] = "RCVD_QUEUE_DECLARE"
    BY <1>1, <1>8, Moves, Lands
  <2>2. \/ queue_list' = Append(queue_list, request[c].queue)
        \/ queue_list' = queue_list
    BY <1>8 DEF DeclareInsert
  <2> QED BY <1>2, <2>1, <2>2 DEF Enlisted
<1>9. CASE ConsumeSearch(c)
  <2>1. step'[c] \in {"create", "enlist"} /\ state'[c] = "RCVD_BASIC_CONSUME"
    BY <1>1, <1>9, Moves, Lands
  <2> QED BY <1>9, <2>1 DEF ConsumeSearch, sharedVars, Enlisted
<1>10. CASE QuietStep(c)
  <2>1. UNCHANGED << queue_list, request, my_queue >> /\ (Bound(c)' <=> Bound(c))
    BY <1>1, <1>10, QuietSteps
  <2>2. ~Enlisted(c) /\ Enlisted(c)' => JoinsAsAsked(c)
    BY <1>1, <2>1 DEF Bound, Naming, ChosenAsAsked
  <2> QED BY <2>1, <2>2 DEF JoinsAsAsked
<1> QED BY <1>6, <1>7, <1>8, <1>9, <1>10 DEF ThreadStep, LockingStep, LocalStep, QuietStep

\* A consumer of a declared queue joins exactly its ring, any other the ring of the queue
\* declared next, and there it stays.
THEOREM SubscribedRight == Locking => (Spec => SubscribedAsAsked)
<1>1. Guarded /\ [Next]_vars => [KeepsSubscribers]_vars
  BY SubscribersKept DEF Next, Idle, ThreadStep
<1> QED BY Safe, <1>1, PTL DEF Spec, SubscribedAsAsked

\* The null pointers are those of clients that use a queue nobody declared.
THEOREM CrashesExplained == Locking => (Spec => []CrashOnlyForUndeclared)
<1>1. Guarded => CrashOnlyForUndeclared
  BY DEF Guarded, Rings
<1> QED BY Safe, <1>1, PTL

=============================================================================
