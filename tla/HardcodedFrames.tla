-------------------------- MODULE HardcodedFrames --------------------------
(***************************************************************************)
(* How the constant answers of the AMQP server came to be: make_hardcoded.c *)
(* builds each with the functions of the first utils.c and prints its size, *)
(* and hardcoded.c has the bytes and the sizes.  The first server also     *)
(* builds the answers that depend on a client with these functions.        *)
(*                                                                         *)
(* A frame is in a frame's payload, a table in an argument and a table in  *)
(* a table, each after its own length: all of them are added up by hand.   *)
(* A constant text is one number per character, of which no two are alike. *)
(***************************************************************************)
EXTENDS FrameBuilders, SequencesExt

CONSTANTS
  Names, Tags, Messages    \* what clients call their queues and send, and how they are called

VARIABLES
  printed,       \* the sizes that make_hardcoded has printed
  answer         \* the last answer built for a client

vars == << printed, answer >>

name_list ==
  << "publisher_confirms", "exchange_exchange_bindings", "basic.nack", "consumer_cancel_notify",
     "connection.blocked", "consumer.priorities", "authentication_failure_close",
     "per_consumer_qos", "direct_reply_to" >>
name_list1 == << "cluster_name", "copyright", "information", "platform", "product", "version" >>
value_list1 == << "servidorAMQP@lauraPalmer", "", "", "", "servidorAMQPsimplificado", "0.0.0.0.0.1" >>

Literals ==
  name_list \o name_list1 \o value_list1 \o << "capabilities", "PLAIN AMQPLAIN", "en_US" >>

Text(s) ==
  LET k == CHOOSE k \in DOMAIN Literals : Literals[k] = s
  IN  [i \in 1..Len(s) |-> 256 * (k + 1) + i]

-----------------------------------------------------------------------------
\* utils.c, the first version.  'S', 't' and 'F' are the types of an attribute.
to_longstr(s) == write_long_int(Len(s)) \o s

atribute_S_size_Short(name, value) == 1 + Len(name) + 1 + 1 + Len(value)
atribute_S_size(name, value) == 1 + Len(name) + 1 + 4 + Len(value)
get_S_atribute(name, value) == to_shortstr(name) \o << 83 >> \o to_longstr(value)

atribute_t_size(name) == 1 + Len(name) + 1 + 1
get_t_atribute(name, value) == to_shortstr(name) \o << 116 >> \o << value >>

\* Of the attribute as many bytes are written as its size says.
write_S_atribute(table, name, value) ==
  table \o SubSeq(get_S_atribute(name, value), 1, atribute_S_size(name, value))
write_t_atribute(table, name, value) ==
  table \o SubSeq(get_t_atribute(name, value), 1, atribute_t_size(name))

\* Here the counters of Queue.Declare-Ok are sent as they should be.
Declare_Ok(name) ==
  mount_general_frame(1, 1,
    mount_method_frame_payload(50, 11, to_shortstr(name) \o write_long_int(0) \o write_long_int(0)))

\* These two have not changed since.
Consume_Ok(tag) == basic_consume_ok(tag)
Deliver(msg, tag, name) == basic_deliver(msg, tag, name)

-----------------------------------------------------------------------------
\* make_hardcoded.c.  A table has its length before it.
Table(entries) == write_long_int(Len(entries)) \o entries

Method(channel, class, method, arguments) ==
  mount_general_frame(1, channel, mount_method_frame_payload(class, method, arguments))

capabilities ==
  Table(FoldLeft(LAMBDA table, name : write_t_atribute(table, Text(name), 1), << >>, name_list))

server_properties ==
  LET first == to_shortstr(Text("capabilities")) \o << 70 >> \o capabilities
      Add(table, i) == write_S_atribute(table, Text(name_list1[i]), Text(value_list1[i]))
  IN  Table(FoldLeft(Add, first, [i \in DOMAIN name_list1 |-> i]))

connection_start ==
  Method(0, 10, 10, << 0, 9 >> \o server_properties
                      \o to_longstr(Text("PLAIN AMQPLAIN")) \o to_longstr(Text("en_US")))

\* channel_max, frame_max and heartbeat.
connection_tune ==
  Method(0, 10, 30, write_short_int(2047) \o write_long_int(131072) \o write_short_int(60))

connection_open_ok == Method(0, 10, 41, << 0 >>)
connection_close_ok == Method(0, 10, 51, << >>)
channel_open_ok == Method(1, 20, 11, write_long_int(0))
channel_close_ok == Method(1, 20, 41, << >>)

list ==
  << connection_start, connection_tune, connection_open_ok, connection_close_ok,
     channel_open_ok, channel_close_ok >>

-----------------------------------------------------------------------------
\* hardcoded.c: the bytes and the sizes.
CONNECTION_START_FRAME == FlattenSeq(
  << << 1, 0, 0, 0, 0, 1, 147, 0, 10, 0, 10, 0, 9, 0, 0, 1, 110, 12 >>,
     Text("capabilities"), << 70, 0, 0, 0, 199, 18 >>, Text("publisher_confirms"),
     << 116, 1, 26 >>, Text("exchange_exchange_bindings"), << 116, 1, 10 >>,
     Text("basic.nack"), << 116, 1, 22 >>, Text("consumer_cancel_notify"),
     << 116, 1, 18 >>, Text("connection.blocked"), << 116, 1, 19 >>,
     Text("consumer.priorities"), << 116, 1, 28 >>, Text("authentication_failure_close"),
     << 116, 1, 16 >>, Text("per_consumer_qos"), << 116, 1, 15 >>, Text("direct_reply_to"),
     << 116, 1, 12 >>, Text("cluster_name"), << 83, 0, 0, 0, 24 >>,
     Text("servidorAMQP@lauraPalmer"), << 9 >>, Text("copyright"),
     << 83, 0, 0, 0, 0, 11 >>, Text("information"), << 83, 0, 0, 0, 0, 8 >>,
     Text("platform"), << 83, 0, 0, 0, 0, 7 >>, Text("product"), << 83, 0, 0, 0, 24 >>,
     Text("servidorAMQPsimplificado"), << 7 >>, Text("version"), << 83, 0, 0, 0, 11 >>,
     Text("0.0.0.0.0.1"), << 0, 0, 0, 14 >>, Text("PLAIN AMQPLAIN"), << 0, 0, 0, 5 >>,
     Text("en_US"), << 206 >> >>)
CONNECTION_TUNE_FRAME == << 1, 0, 0, 0, 0, 0, 12, 0, 10, 0, 30, 7, 255, 0, 2, 0, 0, 0, 60, 206 >>
CONNECTION_OPEN_OK_FRAME == << 1, 0, 0, 0, 0, 0, 5, 0, 10, 0, 41, 0, 206 >>
CONNECTION_CLOSE_OK_FRAME == << 1, 0, 0, 0, 0, 0, 4, 0, 10, 0, 51, 206 >>
CHANNEL_OPEN_OK_FRAME == << 1, 0, 1, 0, 0, 0, 8, 0, 20, 0, 11, 0, 0, 0, 0, 206 >>
CHANNEL_CLOSE_OK_FRAME == << 1, 0, 1, 0, 0, 0, 4, 0, 20, 0, 41, 206 >>

FRAMES ==
  << CONNECTION_START_FRAME, CONNECTION_TUNE_FRAME, CONNECTION_OPEN_OK_FRAME,
     CONNECTION_CLOSE_OK_FRAME, CHANNEL_OPEN_OK_FRAME, CHANNEL_CLOSE_OK_FRAME >>
SIZES == << 411, 20, 13, 12, 16, 12 >>

-----------------------------------------------------------------------------
Init == printed = << >> /\ answer = << >>

\* A turn of the loop of make_hardcoded.
PrintSize ==
  /\ Len(printed) < Len(list)
  /\ printed' = Append(printed, Len(list[Len(printed) + 1]))
  /\ UNCHANGED answer

\* The first server answers a client.
AnswerDeclare ==
  /\ \E name \in Names : answer' = << "Queue.Declare-Ok", Declare_Ok(name), name >>
  /\ UNCHANGED printed

AnswerConsume ==
  /\ \E tag \in Tags : answer' = << "Basic.Consume-Ok", Consume_Ok(tag), tag >>
  /\ UNCHANGED printed

AnswerDelivery ==
  /\ \E msg \in Messages, tag \in Tags, name \in Names :
       answer' = << "Basic.Deliver", Deliver(msg, tag, name), msg, tag, name >>
  /\ UNCHANGED printed

Next == PrintSize \/ AnswerDeclare \/ AnswerConsume \/ AnswerDelivery

Spec == Init /\ [][Next]_vars
-----------------------------------------------------------------------------
\* How a client reads the table in b, as pairs of a name and a value.
LongAt(b, i) ==
  LET n == Number(SubSeq(b, i, i + 3)) IN [string |-> SubSeq(b, i + 4, i + 3 + n), next |-> i + 4 + n]

RECURSIVE Entries(_)
Entries(b) ==
  LET name == ShortAt(b, 1)
      at == name.next + 1
      value == LongAt(b, at)
  IN  IF b = << >> THEN << >>
      ELSE CASE b[name.next] = 116 ->
                  << << name.string, b[at] >> >> \o Entries(SubSeq(b, at + 1, Len(b)))
             [] b[name.next] = 83 ->
                  << << name.string, value.string >> >> \o Entries(SubSeq(b, value.next, Len(b)))
             [] b[name.next] = 70 ->
                  << << name.string, Entries(value.string) >> >> \o Entries(SubSeq(b, value.next, Len(b)))
             [] OTHER -> << "not a table" >>

\* Connection.Start announces the properties and mechanisms it should.
ReadsStart(b) ==
  LET f == FrameAt(b, 1)
      properties == LongAt(f.payload, 7)
      mechanisms == LongAt(f.payload, properties.next)
      locales == LongAt(f.payload, mechanisms.next)
  IN  /\ f.whole /\ f.next = Len(b) + 1 /\ f.channel = 0
      /\ Entries(properties.string) =
           << << Text("capabilities"), [i \in DOMAIN name_list |-> << Text(name_list[i]), 1 >>] >> >>
             \o [i \in DOMAIN name_list1 |-> << Text(name_list1[i]), Text(value_list1[i]) >>]
      /\ mechanisms.string = Text("PLAIN AMQPLAIN") /\ locales.string = Text("en_US")
      /\ locales.next = Len(f.payload) + 1

\* The six frames that make_hardcoded builds are, byte for byte, those in hardcoded.c that
\* the servers send, and of the sizes given there; a client can take apart the first, table
\* in table, and every answer that the first server builds, with its counters.
FramesRight ==
  /\ \A i \in DOMAIN printed : printed[i] = SIZES[i]
  /\ printed # << >> => list = FRAMES /\ ReadsStart(connection_start)
  /\ answer # << >> =>
       CASE answer[1] = "Queue.Declare-Ok" ->
              /\ ReadsDeclareOk(answer[2], answer[3])
              /\ LET payload == FrameAt(answer[2], 1).payload IN
                 \A i \in (Len(payload) - 7)..Len(payload) : payload[i] = 0
         [] answer[1] = "Basic.Consume-Ok" -> ReadsConsumeOk(answer[2], answer[3])
         [] answer[1] = "Basic.Deliver" -> ReadsDeliver(answer[2], answer[3], answer[4], answer[5])
=============================================================================
