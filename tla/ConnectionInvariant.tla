------------------------- MODULE ConnectionInvariant -------------------------
(***************************************************************************)
(* The inductive invariant behind Connection's order of answers and        *)
(* frames.  The client and the thread go through the same script.  Each    *)
(* is at some step of it, and what one of them is ahead of the other is    *)
(* exactly what the stream between them holds: the bytes of the writes     *)
(* that the thread has not read, or the answers that the client has not.   *)
(***************************************************************************)
EXTENDS Connection

\* What the thread has not taken for a frame yet.
Unread == (IF reading THEN buf ELSE << >>) \o toServer

Step(k) == Script(command)[k]

\* How long the script is, and how many frames the thread has written.
Ending == Len(Script(command))
Answered == Len(sent)

\* The step of the script that the thread is at in its state, and how many frames
\* it has written by then.
OpeningPlace(v) ==
  \/ v = 1 /\ state = "WAIT_HEADER" /\ Answered = 0
  \/ v = 2 /\ state = "RCVD_HEADER" /\ Answered = 0
  \/ v = 3 /\ state = "WAIT_START_OK" /\ Answered = 1
  \/ v = 4 /\ state = "RCVD_START_OK" /\ Answered = 1
  \/ v = 5 /\ state = "WAIT_TUNE_OK" /\ Answered = 2
  \/ v = 6 /\ state = "WAIT_CONNECTION_OPEN" /\ Answered = 2
  \/ v = 7 /\ state = "RCVD_CONNECTION_OPEN" /\ Answered = 2
  \/ v = 8 /\ state = "WAIT_CHANNEL_OPEN" /\ Answered = 3
  \/ v = 9 /\ state = "RCVD_CHANNEL_OPEN" /\ Answered = 3
  \/ v = 10 /\ state = "WAIT_COMMAND" /\ Answered = 4

\* The step c, after which channel and connection are closed, n frames having been
\* written before.
ClosingPlace(c, n, v) ==
  \/ v = c /\ state = "WAIT_CHANNEL_CLOSE" /\ Answered = n
  \/ v = c + 1 /\ state = "RCVD_CHANNEL_CLOSE" /\ Answered = n
  \/ v = c + 2 /\ state = "WAIT_CONNECTION_CLOSE" /\ Answered = n + 1
  \/ v = c + 3 /\ state = "RCVD_CONNECTION_CLOSE" /\ Answered = n + 1
  \/ v = c + 4 /\ state = "FINAL" /\ Answered = n + 2

Publication == Bytes(<< "Basic.Publish", "Content.Header", "Content.Body" >>)
ChannelClose == Bytes(<< "Channel.Close" >>)

DeclarePlace(v) ==
  \/ v = 11 /\ state = "RCVD_QUEUE_DECLARE" /\ Answered = 4
  \/ ClosingPlace(12, 5, v)

PublishPlace(v) ==
  \/ v = 11 /\ state = "RCVD_BASIC_PUBLISH" /\ Answered = 4 /\ buf = Publication
  \/ v = 12 /\ state = "RCVD_BASIC_PUBLISH" /\ Answered = 4 /\ buf = Publication \o ChannelClose
  \/ ClosingPlace(11, 4, v)

ConsumePlace(v) ==
  \/ v = 11 /\ state = "RCVD_BASIC_CONSUME" /\ Answered = 4
  \/ v = 2 * Answered + 2 /\ state \in {"SUBSCRIBED", "CLIENT_TURN"} /\ Answered >= 5
  \/ v = 2 * Answered + 1 /\ state = "WAIT_BASIC_ACK" /\ Answered >= 6

Place(v) ==
  \/ OpeningPlace(v)
  \/ command = "declare" /\ DeclarePlace(v)
  \/ command = "publish" /\ PublishPlace(v)
  \/ command = "consume" /\ ConsumePlace(v)

\* The client is at the same step, or a little behind, or a little ahead.
Answering(k) == k \in DOMAIN Script(command) /\ Step(k).to = "client"
Writing(k) == k \in DOMAIN Script(command) /\ Step(k).to = "server"
Apart(v) ==
  \/ pos = v /\ toClient = << >> /\ Unread = << >>
  \/ /\ pos = v - 1 /\ Answering(v - 1)
     /\ toClient = Step(v - 1).frames /\ Unread = << >>
  \/ /\ pos = v - 2 /\ Answering(v - 2) /\ Answering(v - 1)
     /\ toClient = Step(v - 2).frames \o Step(v - 1).frames /\ Unread = << >>
  \/ /\ pos = v + 1 /\ Writing(v)
     /\ toClient = << >> /\ Unread = Bytes(Step(v).frames)
  \/ /\ pos = v + 2 /\ Writing(v) /\ Writing(v + 1)
     /\ toClient = << >> /\ Unread = Bytes(Step(v).frames) \o Bytes(Step(v + 1).frames)

\* What is taken for the message: it is looked for after the second 0xce, which is
\* too early if there is one inside one of the two frames before it.
PublishFrames == {"Basic.Publish", "Content.Header", "Content.Body"}
MessageTaken == IF inside \subseteq {"Content.Body"} THEN Length(size) ELSE Garbage

\* It has been taken, once the thread is past the publish.
Stored(v) ==
  stored = IF command = "publish" /\ v > 10 /\ state # "RCVD_BASIC_PUBLISH"
           THEN << MessageTaken >> ELSE << >>

Orderly ==
  /\ reading => splits
  /\ IsPrefix(sent, Awaited)
  /\ \E v \in 1..(Ending + 1) : Place(v) /\ Apart(v) /\ Stored(v)

\* The Channel.Close has been read with the publish: the client waits for its
\* answer, and gives up when it reads Connection.Close-Ok.
Early ==
  /\ command = "publish" /\ ~reading /\ toServer = << >>
  /\ buf = Publication \o ChannelClose
  /\ stored = << MessageTaken >>
  /\ \/ /\ state = "RCVD_CONNECTION_CLOSE" /\ sent = Greetings
        /\ pos = 12 /\ toClient = << >>
     \/ /\ state = "FINAL" /\ sent = Greetings \o << "Connection.Close-Ok" >>
        /\ \/ pos = 12 /\ toClient = << "Connection.Close-Ok" >>
           \/ pos = 0 /\ toClient = << >>

\* A 0xce inside one of the three frames of the publish has been counted as the end
\* of a frame: something has been stored, and nothing is said of what follows.
Astray ==
  /\ command = "publish" /\ inside # {}
  /\ stored = << MessageTaken >>
  /\ state \in {"WAIT_CHANNEL_CLOSE", "RCVD_CHANNEL_CLOSE", "WAIT_CONNECTION_CLOSE",
                "RCVD_CONNECTION_CLOSE", "FINAL"}

Tame == inside \subseteq PublishFrames /\ (command = "publish" => ~splits)

Replies == Range(Answer) \union {"Basic.Deliver"}

\* The shapes of the variables, without the bounds on pos and state.
Data ==
  /\ command \in Commands /\ inside \subseteq Frames /\ size \in Sizes /\ splits \in BOOLEAN
  /\ pos \in Nat
  /\ toServer \in Seq(Byte) /\ buf \in Seq(Byte)
  /\ toClient \in Seq(Replies) /\ sent \in Seq(Replies)
  /\ reading \in BOOLEAN /\ open \in BOOLEAN
  /\ stored \in Seq(Nat)

\* Until the server has answered Connection.Open the client goes no further than
\* waiting for it, and has written three frames with two 0xce each at most.
OpeningStates == {"WAIT_HEADER", "RCVD_HEADER", "WAIT_START_OK", "RCVD_START_OK",
                  "WAIT_TUNE_OK", "WAIT_CONNECTION_OPEN", "RCVD_CONNECTION_OPEN"}
Budget(p) == IF p \in 1..3 THEN 0 ELSE IF p \in 4..5 THEN 2 ELSE IF p = 6 THEN 4 ELSE 6

\* The bounds on pos and state: a code past the end of a row stays in the table.
Bounded ==
  /\ "Protocol.Header" \notin inside
  /\ state \in State /\ pos \in 0..(Ending + 1)
  /\ state \in OpeningStates =>
       /\ pos <= 7
       /\ \A i \in DOMAIN toClient : toClient[i] # "Connection.Open-Ok"
       /\ Count(Unread) <= Budget(pos)

IInv == Data /\ (Tame => Orderly \/ Early \/ Astray)

=============================================================================
