----------------------------- MODULE Connection -----------------------------
(***************************************************************************)
(* One connection of the AMQP server, from the protocol header to the      *)
(* close: the client that the protocol notes describe, the stream between  *)
(* them, and the thread of the server.  TCP keeps the order of the bytes   *)
(* and nothing else: what one read returns may hold several of the         *)
(* client's writes, or end in the middle of one.                           *)
(*                                                                         *)
(* A frame is two bytes here, its contents and its end, 0xce; or four, if  *)
(* there is a 0xce inside its contents.  The queues are those of module    *)
(* Broker: a publish stores what it extracts, and a message is there for   *)
(* a consumer at any moment.                                               *)
(***************************************************************************)
EXTENDS StateMachine, FrameBuilders, SequencesExt

CONSTANTS
  Commands,         \* the commands the client may carry out
  MayHold0xce,      \* the frames whose contents may hold a 0xce
  Splits,           \* whether a read may end in the middle of a write
  Sizes,            \* the lengths of a message
  NameLengths,      \* of a queue's name
  TagLengths,       \* of a consumer tag, a thread's number in decimal
  MaxDeliveries     \* a bound on the messages a consumer receives

\* The frames that a client sends.
Frames == {"Protocol.Header", "Connection.Start-Ok", "Connection.Tune-Ok", "Connection.Open",
           "Channel.Open", "Queue.Declare", "Basic.Publish", "Content.Header", "Content.Body",
           "Basic.Consume", "Basic.Ack", "Channel.Close", "Connection.Close"}

ASSUME ConnectionAssumption ==
  /\ Commands \subseteq {"declare", "publish", "consume"}
  /\ MayHold0xce \subseteq Frames \ {"Protocol.Header"}      \* always the same 8 bytes
  /\ Splits \subseteq BOOLEAN
  /\ Sizes \subseteq 1..1023      \* MAX_MSG_SIZE, less the terminator
  /\ NameLengths \subseteq 0..255 /\ TagLengths \subseteq 1..20
  /\ MaxDeliveries \in Nat

VARIABLES
  \* the client
  command,     \* what it is going to do
  inside,      \* which of its frames hold a 0xce
  size,        \* the length of its message
  pos,         \* how far it is in its script
  \* the streams
  splits,      \* whether TCP cuts writes on this connection
  toServer,    \* the bytes written and not read yet
  toClient,    \* the frames written by the server and not read yet
  \* the thread
  state,       \* current_state
  reading,     \* it is inside read_frame or read_protocol_header
  buf,         \* the bytes that its latest read_frame has read
  open,        \* it has not closed the socket
  \* history
  stored,      \* what do_RCVD_BASIC_PUBLISH took for the message, if it did
  sent         \* every frame the server has written

client == << command, inside, size, splits >>
vars == << client, pos, toServer, toClient, state, reading, buf, open, stored, sent >>

-----------------------------------------------------------------------------
\* The client: what it sends and what it waits for, step by step (notas.txt).

Write(frames) == [to |-> "server", frames |-> frames]
Await(frame) == [to |-> "client", frames |-> << frame >>]

Opening ==
  << Write(<< "Protocol.Header" >>),    Await("Connection.Start"),
     Write(<< "Connection.Start-Ok" >>), Await("Connection.Tune"),
     Write(<< "Connection.Tune-Ok" >>),
     Write(<< "Connection.Open" >>),    Await("Connection.Open-Ok"),
     Write(<< "Channel.Open" >>),       Await("Channel.Open-Ok") >>

Closing ==
  << Write(<< "Channel.Close" >>),      Await("Channel.Close-Ok"),
     Write(<< "Connection.Close" >>),   Await("Connection.Close-Ok") >>

Receiving ==
  [i \in 1..(2 * MaxDeliveries) |->
     IF i % 2 = 1 THEN Await("Basic.Deliver") ELSE Write(<< "Basic.Ack" >>)]

\* The three operations.  A publish is written as a whole, its three frames together.
Script(c) ==
  Opening \o
  CASE c = "declare" -> << Write(<< "Queue.Declare" >>), Await("Queue.Declare-Ok") >> \o Closing
    [] c = "publish" -> << Write(<< "Basic.Publish", "Content.Header", "Content.Body" >>) >> \o Closing
    [] c = "consume" -> << Write(<< "Basic.Consume" >>), Await("Basic.Consume-Ok") >> \o Receiving

\* The bytes of a frame, numbered; `push` marks the last byte of a write.
Contents(f) == IF f \in inside THEN << "contents", "0xce", "contents" >> ELSE << "contents" >>
Frame(f) ==
  LET bytes == Contents(f) \o << IF f = "Protocol.Header" THEN "last" ELSE "0xce" >>
  IN  [i \in DOMAIN bytes |->
         [frame |-> f, at |-> i, byte |-> bytes[i], end |-> i = Len(bytes), push |-> FALSE]]

\* One frame, or the three of a publish.
Bytes(frames) ==
  LET all == IF Len(frames) = 1 THEN Frame(frames[1])
             ELSE Frame(frames[1]) \o Frame(frames[2]) \o Frame(frames[3])
  IN  [all EXCEPT ![Len(all)].push = TRUE]

ClientWrites ==
  /\ pos \in DOMAIN Script(command)
  /\ Script(command)[pos].to = "server"
  /\ toServer' = toServer \o Bytes(Script(command)[pos].frames)
  /\ pos' = pos + 1
  /\ UNCHANGED << client, toClient, state, reading, buf, open, stored, sent >>

\* The client gives up (pos = 0) if the frame is not the one it waits for.
ClientReads ==
  /\ pos \in DOMAIN Script(command)
  /\ Script(command)[pos].to = "client"
  /\ toClient # << >>
  /\ pos' = IF Head(toClient) = Script(command)[pos].frames[1] THEN pos + 1 ELSE 0
  /\ toClient' = Tail(toClient)
  /\ UNCHANGED << client, toServer, state, reading, buf, open, stored, sent >>

-----------------------------------------------------------------------------
\* The server's functions that write.

Return(n) == state' = Goto(state, n)
Send(f) == toClient' = Append(toClient, f) /\ sent' = Append(sent, f)

\* The states whose function writes one frame and returns 0, and the frame.
Answer ==
  [ RCVD_HEADER           |-> "Connection.Start",
    RCVD_START_OK         |-> "Connection.Tune",
    RCVD_CONNECTION_OPEN  |-> "Connection.Open-Ok",
    RCVD_CHANNEL_OPEN     |-> "Channel.Open-Ok",
    RCVD_QUEUE_DECLARE    |-> "Queue.Declare-Ok",
    RCVD_BASIC_CONSUME    |-> "Basic.Consume-Ok",
    RCVD_CHANNEL_CLOSE    |-> "Channel.Close-Ok",
    RCVD_CONNECTION_CLOSE |-> "Connection.Close-Ok" ]

ServerAnswers ==
  /\ state \in DOMAIN Answer
  /\ Send(Answer[state])
  /\ Return(0)
  /\ UNCHANGED << client, pos, toServer, reading, buf, open, stored >>

\* The consumer's loop: its turn comes, and there is a message for it or not.
do_SUBSCRIBED ==
  /\ state = "SUBSCRIBED"
  /\ Return(0)
  /\ UNCHANGED << client, pos, toServer, toClient, reading, buf, open, stored, sent >>

do_CLIENT_TURN ==
  /\ state = "CLIENT_TURN"
  /\ \/ Return(1) /\ UNCHANGED << toClient, sent >>
     \/ /\ Cardinality({i \in DOMAIN sent : sent[i] = "Basic.Deliver"}) < MaxDeliveries
        /\ Send("Basic.Deliver")
        /\ Return(0)
  /\ UNCHANGED << client, pos, toServer, reading, buf, open, stored >>

-----------------------------------------------------------------------------
\* The server's functions that read.

\* The positions of the FRAME_ENDs among the bytes b.
Ends(b) == {i \in DOMAIN b : b[i].byte = "0xce"}
Count(b) == Cardinality(Ends(b))

\* The byte of a frame that do_WAIT_COMMAND looks at, the low byte of the method.
DECLARE_ID == 10
PUBLISH_ID == 40
CONSUME_ID == 20
MethodId(f) ==
  CASE f \in {"Queue.Declare", "Channel.Open"} -> DECLARE_ID
    [] f \in {"Basic.Publish", "Connection.Open", "Channel.Close"} -> PUBLISH_ID
    [] f = "Basic.Consume" -> CONSUME_ID
    [] OTHER -> 0

MethodCode(b) ==
  CASE MethodId(b[1].frame) = DECLARE_ID -> 0
    [] MethodId(b[1].frame) = PUBLISH_ID -> 1
    [] MethodId(b[1].frame) = CONSUME_ID -> 2
    [] OTHER -> 3

\* What the function returns once it has read b.  If b starts in the middle of a
\* frame, the byte that stands for the method may be anything.
Codes_AlwaysOneFrame(b) ==
  IF state = "WAIT_COMMAND" /\ b[1].at = 1 THEN {MethodCode(b)} ELSE {0}
Codes(b) ==
  CASE state = "WAIT_TUNE_OK" -> {Count(b) - 1}
    [] state = "WAIT_COMMAND" -> IF b[1].at = 1 THEN {MethodCode(b)} ELSE 0..3
    [] OTHER -> {0}

\* read_protocol_header goes on until it has eight bytes, read_frame until the
\* last byte it has read is a FRAME_END.
Enough_OneRead(b) == TRUE
Enough(b) ==
  IF state = "WAIT_HEADER" THEN Len(b) >= 2 ELSE Last(b).byte = "0xce"

Wait == {"WAIT_HEADER", "WAIT_START_OK", "WAIT_TUNE_OK", "WAIT_CONNECTION_OPEN",
         "WAIT_CHANNEL_OPEN", "WAIT_COMMAND", "WAIT_BASIC_ACK",
         "WAIT_CHANNEL_CLOSE", "WAIT_CONNECTION_CLOSE"}

\* One read(2) of the loop: any number of bytes that have come, whole writes
\* unless TCP cuts them.
ServerReads ==
  /\ state \in Wait
  /\ \E n \in DOMAIN toServer :
       /\ splits \/ toServer[n].push
       /\ LET b == (IF reading THEN buf ELSE << >>) \o SubSeq(toServer, 1, n) IN
          /\ buf' = b
          /\ reading' = ~Enough(b)
          /\ IF Enough(b) THEN \E code \in Codes(b) : Return(code) ELSE UNCHANGED state
       /\ toServer' = SubSeq(toServer, n + 1, Len(toServer))
  /\ UNCHANGED << client, pos, toClient, open, stored, sent >>

\* The four bytes of the length of a message, and how the code puts them together.
LengthBytes(n) == << n \div 2^24, (n \div 2^16) % 256, (n \div 2^8) % 256, n % 256 >>
Length_Signed(n) ==
  LET b == [i \in 1..4 |-> IF LengthBytes(n)[i] < 128 THEN LengthBytes(n)[i]
                                                     ELSE LengthBytes(n)[i] - 256]
  IN  b[1] * 2^6 + b[2] * 2^4 + b[3] * 2^2 + b[4]
Length(n) ==
  LET b == LengthBytes(n) IN b[1] * 2^6 + b[2] * 2^4 + b[3] * 2^2 + b[4]

\* What is stored when the bytes taken for the message are not the message.
Garbage == 0

\* How many FRAME_ENDs come before the Content Body.
Skipped_One == 1
Skipped == 2

\* The message in the bytes b: what follows those FRAME_ENDs.
Extracted(b) ==
  LET k == IF Count(b) < Skipped THEN Len(b) + 1
           ELSE 1 + CHOOSE i \in Ends(b) : Cardinality({j \in Ends(b) : j <= i}) = Skipped
      body == {i \in DOMAIN b : i >= k /\ b[i].frame = "Content.Body"}
  IN IF k \in body /\ b[k].at = 1 /\ \E i \in body : b[i].end
     THEN Length(size) ELSE Garbage

\* Four FRAME_ENDs mean that a Channel.Close has been read with the publish.
CloseRead_Three(b) == Count(b) = 3
CloseRead(b) == Count(b) = 4

do_RCVD_BASIC_PUBLISH ==
  /\ state = "RCVD_BASIC_PUBLISH"
  /\ stored' = Append(stored, Extracted(buf))
  /\ Return(IF CloseRead(buf) THEN 1 ELSE 0)
  /\ UNCHANGED << client, pos, toServer, toClient, reading, buf, open, sent >>

\* handle_client leaves its loop and closes the socket.
Finish ==
  /\ state = "FINAL" /\ open
  /\ open' = FALSE
  /\ UNCHANGED << client, pos, toServer, toClient, state, reading, buf, stored, sent >>

\* Nothing comes any more: the connection is closed, or the thread waits.
Idle ==
  /\ ~open \/ (state \in Wait /\ toServer = << >>)
  /\ UNCHANGED vars

-----------------------------------------------------------------------------
\* A length that has the byte 0xce is written in the header and in the body.
Init ==
  /\ command \in Commands
  /\ size \in Sizes
  /\ inside \in {fs \union (IF \E i \in 1..4 : LengthBytes(size)[i] = 206
                            THEN {"Content.Header", "Content.Body"} ELSE {})
                   : fs \in SUBSET MayHold0xce}
  /\ splits \in Splits
  /\ pos = 1
  /\ toServer = << >> /\ toClient = << >>
  /\ state = "WAIT_HEADER" /\ reading = FALSE /\ buf = << >> /\ open = TRUE
  /\ stored = << >> /\ sent = << >>

Server ==
  \/ ServerReads
  \/ ServerAnswers
  \/ do_SUBSCRIBED
  \/ do_CLIENT_TURN
  \/ do_RCVD_BASIC_PUBLISH
  \/ Finish

Next == ClientWrites \/ ClientReads \/ Server \/ Idle

Spec == Init /\ [][Next]_vars

\* The client and the thread keep going when they can.
FairSpec == Spec /\ WF_vars(Server) /\ WF_vars(ClientWrites) /\ WF_vars(ClientReads)

-----------------------------------------------------------------------------
Byte == [frame : Frames, at : 1..4, byte : {"contents", "0xce", "last"},
         end : BOOLEAN, push : BOOLEAN]

\* Every variable has its shape, and the state stays one of the table's.
TypeOK ==
  /\ command \in Commands /\ inside \subseteq Frames /\ size \in Sizes /\ splits \in BOOLEAN
  /\ pos \in 0..(Len(Script(command)) + 1)
  /\ toServer \in Seq(Byte) /\ buf \in Seq(Byte)
  /\ toClient \in Seq(Range(Answer) \union {"Basic.Deliver"})
  /\ state \in State /\ reading \in BOOLEAN /\ open \in BOOLEAN
  /\ stored \in Seq(Nat)

\* The frame that a function waits for.
Expected ==
  [ WAIT_HEADER           |-> {"Protocol.Header"},
    WAIT_START_OK         |-> {"Connection.Start-Ok"},
    WAIT_TUNE_OK          |-> {"Connection.Tune-Ok"},
    WAIT_CONNECTION_OPEN  |-> {"Connection.Open"},
    WAIT_CHANNEL_OPEN     |-> {"Channel.Open"},
    WAIT_COMMAND          |-> {"Queue.Declare", "Basic.Publish", "Basic.Consume"},
    WAIT_BASIC_ACK        |-> {"Basic.Ack"},
    WAIT_CHANNEL_CLOSE    |-> {"Channel.Close"},
    WAIT_CONNECTION_CLOSE |-> {"Connection.Close"} ]

\* What read_frame relies on: no 0xce inside a frame, and a publish whose three
\* frames are not cut apart.
Whole == inside = {} /\ (command = "publish" => ~splits)

\* Frames may be joined or cut anywhere else, and the server never takes one for
\* another: what comes first is what the function of the state waits for.
NoFrameMistaken ==
  Whole /\ state \in Wait /\ ~reading /\ toServer # << >> =>
    toServer[1].at = 1 /\ toServer[1].frame \in Expected[state]

\* The Channel.Close has been read together with the publish.
ClosedEarly == \E i \in DOMAIN buf : buf[i].frame = "Channel.Close" /\ buf[1].frame = "Basic.Publish"

\* The answers of the server that the protocol notes list for each operation.
Greetings == << "Connection.Start", "Connection.Tune", "Connection.Open-Ok", "Channel.Open-Ok" >>
Farewells == << "Channel.Close-Ok", "Connection.Close-Ok" >>
Awaited ==
  Greetings \o
  CASE command = "declare" -> << "Queue.Declare-Ok" >> \o Farewells
    [] command = "publish" -> Farewells
    [] command = "consume" -> << "Basic.Consume-Ok" >> \o [i \in 1..MaxDeliveries |-> "Basic.Deliver"]

\* The server answers in the order of the protocol notes, leaving out at most the
\* answer to a Channel.Close that it has read together with the publish.
AnswersInOrder ==
  Whole =>
    \/ IsPrefix(sent, Awaited)
    \/ ClosedEarly /\ IsPrefix(sent, Greetings \o << "Connection.Close-Ok" >>)

\* A message whose length fits in one byte, and whose frames come in one piece, is
\* stored as it was sent, even if the byte 0xce is in it, exactly if that byte is
\* in neither of the two frames before it: the code looks for the message after
\* the second 0xce.  Otherwise something else is stored; so it always is for a
\* message of 206 bytes, since 206 is 0xce, and its header holds its length.
MessageIntact ==
  ~splits /\ inside \subseteq {"Basic.Publish", "Content.Header", "Content.Body"} /\ size < 256 =>
    stored \in {<< >>, << IF inside \subseteq {"Content.Body"} THEN size ELSE Garbage >>}

\* The same of every message that fits in a queue's cell (queue.h).
LongMessageIntact == Whole => stored \in {<< >>, << size >>}

\* The client can take apart what the server has built for it, whatever bytes are
\* in the strings: each length that a frame announces is the one it has.
AnswersDecode ==
  LET Sent(f) == f \in ToSet(sent) IN
  \A name \in Strings(NameLengths), tag \in Strings(TagLengths), msg \in Strings({size}) :
    /\ Sent("Queue.Declare-Ok") => ReadsDeclareOk(queue_declare_ok(name), name)
    /\ Sent("Basic.Consume-Ok") => ReadsConsumeOk(basic_consume_ok(tag), tag)
    /\ Sent("Basic.Deliver") => ReadsDeliver(basic_deliver(msg, tag, name), msg, tag, name)

\* A client that declares or publishes is served to the end, however TCP cuts
\* its frames; the client gets there too unless its Channel.Close came early.
ServedToTheEnd ==
  inside = {} /\ command # "consume" ~>
    /\ ~open
    /\ Whole /\ ~ClosedEarly => pos > Len(Script(command))

=============================================================================
