--------------------------- MODULE FrameBuilders ---------------------------
(***************************************************************************)
(* The frames that utils.c puts together byte by byte: Queue.Declare-Ok,   *)
(* Basic.Consume-Ok and Basic.Deliver.  A string is its sequence of bytes; *)
(* a byte that is sent without ever having been written is Unset.  Numbers *)
(* are below 2^31.                                                         *)
(***************************************************************************)
EXTENDS Integers, Sequences

Unset == 256
FRAME_END == 206

\* n, the highest byte first.
write_short_int(n) == << (n \div 256) % 256, n % 256 >>
write_long_int(n) == write_short_int(n \div 65536) \o write_short_int(n)
write_long_long_int(n) == << 0, 0, 0, 0 >> \o write_long_int(n)

to_shortstr_Terminated(s) == << (Len(s) + 1) % 256 >> \o s \o << 0 >>
to_shortstr(s) == << Len(s) % 256 >> \o s

mount_method_frame_payload(class, method, arguments) ==
  write_short_int(class) \o write_short_int(method) \o arguments

\* The length that a frame announces.
AnnouncedLength_WithEnd(payload) == Len(payload) + 1
AnnouncedLength(payload) == Len(payload)

mount_general_frame(type, channel, payload) ==
  << type >> \o write_short_int(channel) \o write_long_int(AnnouncedLength(payload))
    \o payload \o << FRAME_END >>

\* The two counters are written to `arguments`, but only the name is copied from
\* there: eight bytes of the payload stay as they were on the stack.
queue_declare_ok(name) ==
  mount_general_frame(1, 1,
    mount_method_frame_payload(50, 11, to_shortstr(name) \o [i \in 1..8 |-> Unset]))

basic_consume_ok(tag) ==
  mount_general_frame(1, 1, mount_method_frame_payload(60, 21, to_shortstr(tag)))

\* delivery_tag is 1, redelivered 0, the exchange the empty string.
basic_deliver(msg, tag, name) ==
  LET arguments == to_shortstr(tag) \o write_long_long_int(1) \o << 0, 0 >> \o to_shortstr(name)
      content == write_short_int(60) \o write_short_int(0)
                   \o write_long_long_int(Len(msg)) \o write_short_int(4096) \o << 1 >>
  IN  mount_general_frame(1, 1, mount_method_frame_payload(60, 60, arguments))
        \o mount_general_frame(2, 1, content)
        \o mount_general_frame(3, 1, msg)

-----------------------------------------------------------------------------
\* How a client takes the bytes apart, from the lengths they announce.

Number(b) == IF Len(b) = 2 THEN 256 * b[1] + b[2]
             ELSE 65536 * (256 * b[1] + b[2]) + 256 * b[3] + b[4]

\* The frame at position i of b, and the position after it.
FrameAt(b, i) ==
  LET n == Number(SubSeq(b, i + 3, i + 6)) IN
  [type |-> b[i], channel |-> Number(SubSeq(b, i + 1, i + 2)),
   payload |-> SubSeq(b, i + 7, i + 6 + n), next |-> i + 8 + n,
   whole |-> i + 7 + n <= Len(b) /\ b[i + 7 + n] = FRAME_END]

\* The short string at position i of b, and the position after it.
ShortAt(b, i) == [string |-> SubSeq(b, i + 1, i + b[i]), next |-> i + b[i] + 1]

\* A method frame of that class and method on channel 1.
IsMethod(f, class, method) ==
  /\ f.whole /\ f.type = 1 /\ f.channel = 1
  /\ Number(SubSeq(f.payload, 1, 2)) = class /\ Number(SubSeq(f.payload, 3, 4)) = method

ReadsDeclareOk(b, name) ==
  LET f == FrameAt(b, 1)
      q == ShortAt(f.payload, 5)
  IN /\ IsMethod(f, 50, 11) /\ f.next = Len(b) + 1
     /\ q.string = name
     /\ q.next + 7 = Len(f.payload)

ReadsConsumeOk(b, tag) ==
  LET f == FrameAt(b, 1)
      t == ShortAt(f.payload, 5)
  IN /\ IsMethod(f, 60, 21) /\ f.next = Len(b) + 1
     /\ t.string = tag
     /\ t.next = Len(f.payload) + 1

ReadsDeliver(b, msg, tag, name) ==
  LET method == FrameAt(b, 1)
      header == FrameAt(b, method.next)
      body == FrameAt(b, header.next)
      t == ShortAt(method.payload, 5)
      exchange == ShortAt(method.payload, t.next + 9)
      key == ShortAt(method.payload, exchange.next)
  IN /\ IsMethod(method, 60, 60)
     /\ header.whole /\ header.type = 2 /\ body.whole /\ body.type = 3
     /\ body.next = Len(b) + 1
     /\ t.string = tag /\ exchange.string = << >> /\ key.string = name
     /\ key.next = Len(method.payload) + 1
     /\ Number(SubSeq(header.payload, 9, 12)) = Len(msg)
     /\ body.payload = msg

\* Strings of several lengths, with bytes that look like the end of a frame.
Strings(lengths) == {[i \in 1..n |-> IF i % 3 = 1 THEN FRAME_END ELSE 97] : n \in lengths}

=============================================================================
