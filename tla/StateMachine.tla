---------------------------- MODULE StateMachine ----------------------------
(***************************************************************************)
(* The states of a connection of the AMQP server and the table that says   *)
(* which state follows which: `state` of server_config.h and `transitions` *)
(* of state.c.  A state function returns a code, and handle_client looks   *)
(* the next state up in transitions[current_state][code].                  *)
(***************************************************************************)
EXTENDS Naturals, Sequences

\* The enum, in its order: the rows of the table follow it.
enum == << "WAIT_HEADER", "RCVD_HEADER", "WAIT_START_OK", "RCVD_START_OK",
           "WAIT_TUNE_OK", "WAIT_CONNECTION_OPEN", "RCVD_CONNECTION_OPEN",
           "WAIT_CHANNEL_OPEN", "RCVD_CHANNEL_OPEN", "WAIT_COMMAND",
           "RCVD_QUEUE_DECLARE", "RCVD_BASIC_PUBLISH", "RCVD_BASIC_CONSUME",
           "SUBSCRIBED", "CLIENT_TURN", "WAIT_BASIC_ACK",
           "WAIT_CHANNEL_CLOSE", "RCVD_CHANNEL_CLOSE",
           "WAIT_CONNECTION_CLOSE", "RCVD_CONNECTION_CLOSE", "FINAL" >>

State == { enum[i] : i \in 1..21 }

\* An entry the initialiser leaves out is 0, which is WAIT_HEADER.
Zero == "WAIT_HEADER"
Row1(a) == << a, Zero, Zero >>

transitions ==
  [ WAIT_HEADER           |-> << "RCVD_HEADER", "WAIT_HEADER", Zero >>,
    RCVD_HEADER           |-> Row1("WAIT_START_OK"),
    WAIT_START_OK         |-> Row1("RCVD_START_OK"),
    RCVD_START_OK         |-> Row1("WAIT_TUNE_OK"),
    WAIT_TUNE_OK          |-> << "WAIT_CONNECTION_OPEN",
                                 "RCVD_CONNECTION_OPEN", Zero >>,
    WAIT_CONNECTION_OPEN  |-> Row1("RCVD_CONNECTION_OPEN"),
    RCVD_CONNECTION_OPEN  |-> Row1("WAIT_CHANNEL_OPEN"),
    WAIT_CHANNEL_OPEN     |-> Row1("RCVD_CHANNEL_OPEN"),
    RCVD_CHANNEL_OPEN     |-> Row1("WAIT_COMMAND"),
    WAIT_COMMAND          |-> << "RCVD_QUEUE_DECLARE", "RCVD_BASIC_PUBLISH",
                                 "RCVD_BASIC_CONSUME" >>,
    RCVD_QUEUE_DECLARE    |-> Row1("WAIT_CHANNEL_CLOSE"),
    RCVD_BASIC_PUBLISH    |-> << "WAIT_CHANNEL_CLOSE",
                                 "RCVD_CONNECTION_CLOSE", Zero >>,
    RCVD_BASIC_CONSUME    |-> Row1("SUBSCRIBED"),
    SUBSCRIBED            |-> Row1("CLIENT_TURN"),
    CLIENT_TURN           |-> << "WAIT_BASIC_ACK", "SUBSCRIBED", Zero >>,
    WAIT_BASIC_ACK        |-> Row1("SUBSCRIBED"),
    WAIT_CHANNEL_CLOSE    |-> Row1("RCVD_CHANNEL_CLOSE"),
    RCVD_CHANNEL_CLOSE    |-> Row1("WAIT_CONNECTION_CLOSE"),
    WAIT_CONNECTION_CLOSE |-> Row1("RCVD_CONNECTION_CLOSE"),
    RCVD_CONNECTION_CLOSE |-> Row1("FINAL"),
    FINAL                 |-> Row1("FINAL") ]

\* The row below s in memory, which a code past the end of a row reads.
RowBelow(s) == enum[1 + (CHOOSE i \in 1..20 : enum[i] = s)]

\* transitions[s][n], for a code n of at most 5.
Goto(s, n) ==
  IF n < 3 THEN transitions[s][n + 1] ELSE transitions[RowBelow(s)][n - 2]

=============================================================================
