-------------------------- MODULE ConnectionProofs --------------------------
(***************************************************************************)
(* One connection of the server.  The first part is about the frames it    *)
(* builds: for strings of every length the protocol allows, a client that  *)
(* takes them apart by the lengths they announce finds what was put in.    *)
(* The second is about the conversation: client and thread go through one  *)
(* script, at most two steps apart, and the stream between them holds the  *)
(* difference.  The third is about the bounds: whatever bytes come, a code *)
(* selects an entry of the table, though one of the row below.             *)
(***************************************************************************)
EXTENDS ConnectionInvariant, SequenceLemmas, FiniteSetTheorems

-----------------------------------------------------------------------------
\* Sequences inside sequences.

\* s is in b, from position i on.
Holds(b, i, s) ==
  /\ i + Len(s) <= Len(b) + 1
  /\ \A k \in 1..Len(s) : b[i + k - 1] = s[k]

\* A sequence holds itself.
LEMMA HoldsItself == ASSUME NEW b \in Seq(Int) PROVE Holds(b, 1, b)
BY DEF Holds

\* What holds a concatenation holds its parts, one after the other.
LEMMA HoldsParts ==
  ASSUME NEW b \in Seq(Int), NEW i \in Nat \ {0}, NEW s \in Seq(Int), NEW t \in Seq(Int),
         Holds(b, i, s \o t)
  PROVE  Holds(b, i, s) /\ Holds(b, i + Len(s), t)
<1>1. /\ s \o t \in Seq(Int) /\ Len(s) \in Nat /\ Len(t) \in Nat /\ Len(b) \in Nat
      /\ Len(s \o t) = Len(s) + Len(t)
      /\ \A k \in 1..(Len(s) + Len(t)) : (s \o t)[k] = IF k <= Len(s) THEN s[k] ELSE t[k - Len(s)]
  BY ConcatProperties
<1> DEFINE u == s \o t
<1> HIDE DEF u
<1>2. /\ i + Len(s) + Len(t) <= Len(b) + 1
      /\ \A k \in 1..(Len(s) + Len(t)) : b[i + k - 1] = u[k]
      /\ \A k \in 1..(Len(s) + Len(t)) : u[k] = IF k <= Len(s) THEN s[k] ELSE t[k - Len(s)]
  BY <1>1 DEF Holds, u
<1>3. Holds(b, i, s)
  <2>1. \A k \in 1..Len(s) : b[i + k - 1] = s[k]
    BY <1>1, <1>2
  <2> QED BY <1>1, <1>2, <2>1 DEF Holds
<1>4. Holds(b, i + Len(s), t)
  <2> SUFFICES ASSUME NEW k \in 1..Len(t) PROVE b[i + Len(s) + k - 1] = t[k]
    BY <1>1, <1>2 DEF Holds
  <2>1. Len(s) + k \in 1..(Len(s) + Len(t))
    BY <1>1
  <2>2. u[Len(s) + k] = t[k]
    <3>1. ~(Len(s) + k <= Len(s)) /\ Len(s) + k - Len(s) = k
      BY <1>1
    <3> DEFINE m == Len(s) + k
    <3>2. m \in 1..(Len(s) + Len(t)) /\ ~(m <= Len(s)) /\ m - Len(s) = k
      BY <2>1, <3>1
    <3> HIDE DEF m
    <3>3. u[m] = t[k]
      BY <1>2, <3>2
    <3> QED BY <3>3 DEF m
  <2>3. b[i + (Len(s) + k) - 1] = u[Len(s) + k]
    BY <1>2, <2>1
  <2> QED BY <1>1, <2>2, <2>3
<1> QED BY <1>3, <1>4

LEMMA Joined ==
  ASSUME NEW s \in Seq(Int), NEW t \in Seq(Int)
  PROVE  s \o t \in Seq(Int) /\ Len(s \o t) = Len(s) + Len(t)
BY ConcatProperties

\* What is held is cut out by its position and length.
LEMMA HoldsCut ==
  ASSUME NEW b \in Seq(Int), NEW i \in Nat \ {0}, NEW s \in Seq(Int), Holds(b, i, s)
  PROVE  SubSeq(b, i, i + Len(s) - 1) = s
<1> DEFINE j == i + Len(s) - 1
<1>1. Len(s) \in Nat /\ Len(b) \in Nat /\ j \in Int /\ j <= Len(b) /\ j - i + 1 = Len(s)
  BY DEF Holds
<1>2. \A k \in i..j : b[k] \in Int
  BY <1>1
<1> HIDE DEF j
<1>3. /\ SubSeq(b, i, j) \in Seq(Int)
      /\ Len(SubSeq(b, i, j)) = IF i <= j THEN j - i + 1 ELSE 0
      /\ \A k \in 1..(j - i + 1) : SubSeq(b, i, j)[k] = b[i + k - 1]
  BY <1>1, <1>2, SubSeqProperties
<1>4. Len(SubSeq(b, i, j)) = Len(s)
  BY <1>1, <1>3
<1>5. \A k \in 1..Len(s) : SubSeq(b, i, j)[k] = s[k]
  BY <1>1, <1>3 DEF Holds
<1>6. SubSeq(b, i, j) = s
  BY <1>3, <1>4, <1>5, SeqEqual
<1> QED BY <1>6 DEF j

\* Part of a part is a part.
LEMMA HoldsInside ==
  ASSUME NEW b \in Seq(Int), NEW s \in Seq(Int), NEW t \in Seq(Int),
         NEW i \in Nat \ {0}, NEW j \in Nat \ {0}, Holds(b, i, s), Holds(s, j, t)
  PROVE  Holds(b, i + j - 1, t)
<1>1. Len(s) \in Nat /\ Len(b) \in Nat /\ Len(t) \in Nat
  OBVIOUS
<1> SUFFICES ASSUME NEW k \in 1..Len(t) PROVE b[i + j - 1 + k - 1] = t[k]
  BY <1>1 DEF Holds
<1>2. j + k - 1 \in 1..Len(s) /\ s[j + k - 1] = t[k]
  BY <1>1 DEF Holds
<1>3. b[i + (j + k - 1) - 1] = s[j + k - 1]
  BY <1>2 DEF Holds
<1> QED BY <1>1, <1>2, <1>3

-----------------------------------------------------------------------------
\* Numbers and short strings.

\* The last byte of a number, and what is left.
Low(n) == n % 256
High(n) == n \div 256

LEMMA LowHigh ==
  ASSUME NEW n \in Nat
  PROVE  /\ High(n) \in Nat /\ Low(n) \in Int
         /\ n = 256 * High(n) + Low(n)
         /\ n < 256 => Low(n) = n
<1>1. Low(n) = n - 256 * High(n)
  BY SMT DEF Low, High
<1>2. High(n) \in Nat /\ Low(n) \in 0..255
  BY SMT DEF Low, High
<1>3. n < 256 => Low(n) = n
  BY SMT DEF Low
<1> QED BY <1>1, <1>2, <1>3, SMT

LEMMA Halves ==
  ASSUME NEW n \in Nat
  PROVE  /\ n \div 65536 \in Nat
         /\ High(n) = 256 * (n \div 65536) + Low(High(n))
<1>1. n \div 65536 \in Nat
  BY SMT
<1>2. n \div 65536 = High(High(n))
  BY SMT DEF High
<1>3. High(n) \in Nat
  BY LowHigh
<1> QED BY <1>1, <1>2, <1>3, LowHigh

LEMMA NumberOfTwo ==
  ASSUME NEW a \in Int, NEW b \in Int
  PROVE  Number(<< a, b >>) = 256 * a + b
BY DEF Number

LEMMA TwoAndTwo ==
  ASSUME NEW a \in Int, NEW b \in Int, NEW c \in Int, NEW d \in Int
  PROVE  << a, b >> \o << c, d >> = << a, b, c, d >>
<1> DEFINE s == << a, b >>
           t == << c, d >>
           w == << a, b, c, d >>
<1>1. /\ s \in Seq(Int) /\ Len(s) = 2 /\ s[1] = a /\ s[2] = b
      /\ t \in Seq(Int) /\ Len(t) = 2 /\ t[1] = c /\ t[2] = d
      /\ w \in Seq(Int) /\ Len(w) = 4 /\ w[1] = a /\ w[2] = b /\ w[3] = c /\ w[4] = d
  OBVIOUS
<1> HIDE DEF s, t, w
<1>2. /\ s \o t \in Seq(Int) /\ Len(s \o t) = 4
      /\ \A k \in 1..4 : (s \o t)[k] = IF k <= 2 THEN s[k] ELSE t[k - 2]
  <2>1. /\ s \o t \in Seq(Int) /\ Len(s \o t) = Len(s) + Len(t)
        /\ \A k \in 1..(Len(s) + Len(t)) : (s \o t)[k] = IF k <= Len(s) THEN s[k] ELSE t[k - Len(s)]
    BY <1>1, ConcatProperties
  <2>2. Len(s) = 2 /\ Len(s) + Len(t) = 4
    BY <1>1
  <2> QED BY <2>1, <2>2
<1>3. \A k \in 1..4 : (s \o t)[k] = w[k]
  <2>1. \A k \in 1..4 : k = 1 \/ k = 2 \/ k = 3 \/ k = 4
    OBVIOUS
  <2> QED BY <1>1, <1>2, <2>1
<1>4. s \o t = w
  BY <1>1, <1>2, <1>3, SeqEqual
<1> QED BY <1>4 DEF s, t, w

LEMMA NumberOfFour ==
  ASSUME NEW a \in Int, NEW b \in Int, NEW c \in Int, NEW d \in Int
  PROVE  Number(<< a, b, c, d >>) = 65536 * (256 * a + b) + 256 * c + d
BY DEF Number

\* The numbers that two bytes hold, and four.
Short == {n \in Nat : High(n) < 256}
Long == {n \in Nat : High(n \div 65536) < 256}

\* A number that fits is read as it was written.
LEMMA ShortRead ==
  ASSUME NEW n \in Nat
  PROVE  /\ write_short_int(n) \in Seq(Int) /\ Len(write_short_int(n)) = 2
         /\ n \in Short => Number(write_short_int(n)) = n
<1>1. High(n) \in Nat /\ Low(n) \in Int /\ n = 256 * High(n) + Low(n)
  BY LowHigh
<1>2. Low(High(n)) \in Int /\ (High(n) < 256 => Low(High(n)) = High(n))
  BY <1>1, LowHigh
<1>3. write_short_int(n) = << Low(High(n)), Low(n) >>
  BY DEF write_short_int, Low, High
<1>4. Number(write_short_int(n)) = 256 * Low(High(n)) + Low(n)
  BY <1>1, <1>2, <1>3, NumberOfTwo
<1>5. n \in Short => Number(write_short_int(n)) = n
  BY <1>1, <1>2, <1>4 DEF Short
<1>6. write_short_int(n) \in Seq(Int) /\ Len(write_short_int(n)) = 2
  BY <1>1, <1>2, <1>3
<1> QED BY <1>5, <1>6

LEMMA LongRead ==
  ASSUME NEW n \in Nat
  PROVE  /\ write_long_int(n) \in Seq(Int) /\ Len(write_long_int(n)) = 4
         /\ n \in Long => Number(write_long_int(n)) = n
<1> DEFINE h == n \div 65536
<1>1. h \in Nat /\ High(n) = 256 * h + Low(High(n))
  BY Halves
<1>2. High(n) \in Nat /\ Low(n) \in Int /\ n = 256 * High(n) + Low(n)
  BY LowHigh
<1>3. Low(High(n)) \in Int
  BY <1>2, LowHigh
<1>4. n \in Long => High(h) < 256
  BY DEF Long
<1>5. write_long_int(n) = << Low(High(h)), Low(h) >> \o << Low(High(n)), Low(n) >>
  BY DEF write_long_int, write_short_int, Low, High
<1> HIDE DEF h
<1>6. High(h) \in Nat /\ Low(h) \in Int /\ h = 256 * High(h) + Low(h)
  BY <1>1, LowHigh
<1>7. Low(High(h)) \in Int /\ (High(h) < 256 => Low(High(h)) = High(h))
  BY <1>6, LowHigh
<1>8. write_long_int(n) = << Low(High(h)), Low(h), Low(High(n)), Low(n) >>
  BY <1>2, <1>3, <1>5, <1>6, <1>7, TwoAndTwo
<1>9. Number(write_long_int(n)) = 65536 * (256 * Low(High(h)) + Low(h)) + 256 * Low(High(n)) + Low(n)
  <2> DEFINE a == Low(High(h))
             b == Low(h)
             c == Low(High(n))
             d == Low(n)
  <2>1. a \in Int /\ b \in Int /\ c \in Int /\ d \in Int
    BY <1>2, <1>3, <1>6, <1>7
  <2>2. write_long_int(n) = << a, b, c, d >>
    BY <1>8
  <2> HIDE DEF a, b, c, d
  <2>3. Number(<< a, b, c, d >>) = 65536 * (256 * a + b) + 256 * c + d
    BY <2>1, NumberOfFour
  <2>4. Number(write_long_int(n)) = 65536 * (256 * a + b) + 256 * c + d
    BY <2>2, <2>3
  <2> QED BY <2>4 DEF a, b, c, d
<1>10. n \in Long => Number(write_long_int(n)) = n
  <2> SUFFICES ASSUME n \in Long PROVE Number(write_long_int(n)) = n
    OBVIOUS
  <2>1. h = 256 * Low(High(h)) + Low(h)
    BY <1>4, <1>6, <1>7
  <2>2. n = 256 * (256 * h + Low(High(n))) + Low(n)
    BY <1>1, <1>2
  <2>3. Number(write_long_int(n)) = 65536 * h + 256 * Low(High(n)) + Low(n)
    BY <1>9, <2>1
  <2> QED BY <1>1, <1>2, <1>3, <2>2, <2>3, SMT
<1>11. write_long_int(n) \in Seq(Int) /\ Len(write_long_int(n)) = 4
  BY <1>2, <1>3, <1>6, <1>7, <1>8
<1> QED BY <1>10, <1>11

\* A short string is read as it was written.
LEMMA StringRead ==
  ASSUME NEW b \in Seq(Int), NEW i \in Nat \ {0}, NEW s \in Seq(Int), Len(s) < 256,
         Holds(b, i, to_shortstr(s))
  PROVE  ShortAt(b, i) = [string |-> s, next |-> i + Len(s) + 1]
<1>1. Len(s) \in Nat /\ Len(s) % 256 = Len(s)
  <2>1. Len(s) \in Nat
    OBVIOUS
  <2> QED BY <2>1, LowHigh DEF Low
<1>2. to_shortstr(s) = << Len(s) >> \o s
  BY <1>1 DEF to_shortstr
<1>3. << Len(s) >> \in Seq(Int) /\ Len(<< Len(s) >>) = 1 /\ << Len(s) >>[1] = Len(s)
  BY <1>1
<1>4. Holds(b, i, << Len(s) >>) /\ Holds(b, i + 1, s)
  BY <1>2, <1>3, HoldsParts
<1>5. b[i] = Len(s)
  BY <1>3, <1>4 DEF Holds
<1>6. SubSeq(b, i + 1, (i + 1) + Len(s) - 1) = s
  BY <1>4, HoldsCut
<1>7. (i + 1) + Len(s) - 1 = i + Len(s)
  BY <1>1
<1> QED BY <1>5, <1>6, <1>7 DEF ShortAt

-----------------------------------------------------------------------------
\* Frames.

LEMMA SmallNumber ==
  ASSUME NEW n \in Nat, n < 65536
  PROVE  n \in Short /\ n \in Long
<1>1. High(n) < 256
  BY SMT DEF High
<1>2. n \div 65536 = 0
  BY SMT
<1>3. High(0) < 256
  BY SMT DEF High
<1> QED BY <1>1, <1>2, <1>3 DEF Short, Long

\* The length of a frame.
LEMMA FrameIs ==
  ASSUME NEW t \in Int, NEW ch \in Nat, NEW p \in Seq(Int)
  PROVE  /\ mount_general_frame(t, ch, p) \in Seq(Int)
         /\ Len(mount_general_frame(t, ch, p)) = 8 + Len(p)
<1> DEFINE c == write_short_int(ch)
           n == write_long_int(Len(p))
           e == << FRAME_END >>
           one == << t >>
<1>1. /\ c \in Seq(Int) /\ Len(c) = 2 /\ n \in Seq(Int) /\ Len(n) = 4
      /\ e \in Seq(Int) /\ Len(e) = 1 /\ one \in Seq(Int) /\ Len(one) = 1
  BY ShortRead, LongRead DEF FRAME_END
<1>2. mount_general_frame(t, ch, p) = one \o c \o n \o p \o e
  BY DEF mount_general_frame, AnnouncedLength
<1> HIDE DEF c, n, e, one
<1>3. one \o c \in Seq(Int) /\ Len(one \o c) = 3
  <2>1. Len(one) + Len(c) = 3
    BY <1>1
  <2> QED BY <1>1, <2>1, Joined
<1>4. one \o c \o n \in Seq(Int) /\ Len(one \o c \o n) = 7
  <2>1. Len(one \o c) + Len(n) = 7
    BY <1>1, <1>3
  <2> QED BY <1>1, <1>3, <2>1, Joined
<1>5. one \o c \o n \o p \in Seq(Int) /\ Len(one \o c \o n \o p) = 7 + Len(p)
  BY <1>4, Joined
<1>6. /\ one \o c \o n \o p \o e \in Seq(Int)
      /\ Len(one \o c \o n \o p \o e) = 8 + Len(p)
  <2>1. Len(one \o c \o n \o p) + Len(e) = 8 + Len(p)
    BY <1>1, <1>5
  <2> QED BY <1>1, <1>5, <2>1, Joined
<1> QED BY <1>2, <1>6

\* A frame is read as it was put together, wherever it stands.
LEMMA FrameRead ==
  ASSUME NEW b \in Seq(Int), NEW i \in Nat \ {0},
         NEW t \in Int, NEW ch \in Short, NEW p \in Seq(Int), Len(p) \in Long,
         Holds(b, i, mount_general_frame(t, ch, p))
  PROVE  FrameAt(b, i) = [type |-> t, channel |-> ch, payload |-> p,
                          next |-> i + 8 + Len(p), whole |-> TRUE]
<1> DEFINE c == write_short_int(ch)
           n == write_long_int(Len(p))
           e == << FRAME_END >>
           one == << t >>
<1>0. ch \in Nat
  BY DEF Short
<1>1. /\ c \in Seq(Int) /\ Len(c) = 2 /\ n \in Seq(Int) /\ Len(n) = 4
      /\ e \in Seq(Int) /\ Len(e) = 1 /\ one \in Seq(Int) /\ Len(one) = 1
      /\ e[1] = FRAME_END /\ one[1] = t
  BY <1>0, ShortRead, LongRead DEF FRAME_END
<1>2. Number(c) = ch /\ Number(n) = Len(p)
  BY <1>0, ShortRead, LongRead
<1>3. mount_general_frame(t, ch, p) = one \o c \o n \o p \o e
  BY DEF mount_general_frame, AnnouncedLength
<1> HIDE DEF c, n, e, one
<1>4. one \o c \in Seq(Int) /\ Len(one \o c) = 3
  <2>1. Len(one) + Len(c) = 3
    BY <1>1
  <2> QED BY <1>1, <2>1, Joined
<1>5. one \o c \o n \in Seq(Int) /\ Len(one \o c \o n) = 7
  <2>1. Len(one \o c) + Len(n) = 7
    BY <1>1, <1>4
  <2> QED BY <1>1, <1>4, <2>1, Joined
<1>6. one \o c \o n \o p \in Seq(Int) /\ Len(one \o c \o n \o p) = 7 + Len(p)
  BY <1>5, Joined
<1>7. Holds(b, i, one \o c \o n \o p) /\ Holds(b, i + (7 + Len(p)), e)
  <2>1. Holds(b, i, (one \o c \o n \o p) \o e)
    BY <1>3
  <2>2. Holds(b, i, one \o c \o n \o p) /\ Holds(b, i + Len(one \o c \o n \o p), e)
    BY <1>1, <1>6, <2>1, HoldsParts
  <2> QED BY <1>6, <2>2
<1>8. Holds(b, i, one \o c \o n) /\ Holds(b, i + 7, p)
  BY <1>5, <1>7, HoldsParts
<1>9. Holds(b, i, one \o c) /\ Holds(b, i + 3, n)
  BY <1>1, <1>4, <1>8, HoldsParts
<1>10. Holds(b, i, one) /\ Holds(b, i + 1, c)
  BY <1>1, <1>9, HoldsParts
<1>11. b[i] = t
  BY <1>1, <1>10 DEF Holds
<1>12. SubSeq(b, i + 1, i + 2) = c
  <2>1. SubSeq(b, i + 1, (i + 1) + Len(c) - 1) = c
    <3>1. i + 1 \in Nat \ {0}
      OBVIOUS
    <3> QED BY <1>1, <1>10, <3>1, HoldsCut
  <2>2. (i + 1) + Len(c) - 1 = i + 2
    BY <1>1
  <2> QED BY <2>1, <2>2
<1>13. SubSeq(b, i + 3, i + 6) = n
  <2>1. SubSeq(b, i + 3, (i + 3) + Len(n) - 1) = n
    <3>1. i + 3 \in Nat \ {0}
      OBVIOUS
    <3> QED BY <1>1, <1>9, <3>1, HoldsCut
  <2>2. (i + 3) + Len(n) - 1 = i + 6
    BY <1>1
  <2> QED BY <2>1, <2>2
<1>14. SubSeq(b, i + 7, i + 6 + Len(p)) = p
  <2>1. SubSeq(b, i + 7, (i + 7) + Len(p) - 1) = p
    BY <1>8, HoldsCut
  <2>2. (i + 7) + Len(p) - 1 = i + 6 + Len(p)
    OBVIOUS
  <2> QED BY <2>1, <2>2
<1>15. i + 7 + Len(p) <= Len(b) /\ b[i + 7 + Len(p)] = FRAME_END
  BY <1>1, <1>7 DEF Holds
<1> QED BY <1>2, <1>11, <1>12, <1>13, <1>14, <1>15 DEF FrameAt

\* The two identifiers of a method, and where its arguments are.
LEMMA MethodRead ==
  ASSUME NEW c \in Short, NEW m \in Short, NEW a \in Seq(Int)
  PROVE  LET p == mount_method_frame_payload(c, m, a) IN
         /\ p \in Seq(Int) /\ Len(p) = 4 + Len(a)
         /\ Number(SubSeq(p, 1, 2)) = c /\ Number(SubSeq(p, 3, 4)) = m
         /\ Holds(p, 5, a)
<1> DEFINE x == write_short_int(c)
           y == write_short_int(m)
           p == mount_method_frame_payload(c, m, a)
<1>1. c \in Nat /\ m \in Nat
  BY DEF Short
<1>2. /\ x \in Seq(Int) /\ Len(x) = 2 /\ Number(x) = c
      /\ y \in Seq(Int) /\ Len(y) = 2 /\ Number(y) = m
  BY <1>1, ShortRead
<1>3. p = x \o y \o a
  BY DEF mount_method_frame_payload
<1> HIDE DEF x, y, p
<1>4. x \o y \in Seq(Int) /\ Len(x \o y) = 4
  <2>1. Len(x) + Len(y) = 4
    BY <1>2
  <2> QED BY <1>2, <2>1, Joined
<1>5. x \o y \o a \in Seq(Int) /\ Len(x \o y \o a) = 4 + Len(a)
  BY <1>4, Joined
<1>6. Holds(p, 1, x \o y \o a)
  BY <1>3, <1>5, HoldsItself
<1>7. Holds(p, 1, x \o y) /\ Holds(p, 5, a)
  <2>1. Holds(p, 1, x \o y) /\ Holds(p, 1 + Len(x \o y), a)
    <3>1. p \in Seq(Int) /\ 1 \in Nat \ {0}
      BY <1>3, <1>5
    <3> QED BY <3>1, <1>4, <1>6, HoldsParts
  <2>2. 1 + Len(x \o y) = 5
    BY <1>4
  <2> QED BY <2>1, <2>2
<1>8. Holds(p, 1, x) /\ Holds(p, 3, y)
  <2>1. Holds(p, 1, x) /\ Holds(p, 1 + Len(x), y)
    <3>1. p \in Seq(Int) /\ 1 \in Nat \ {0}
      BY <1>3, <1>5
    <3> QED BY <3>1, <1>2, <1>7, HoldsParts
  <2>2. 1 + Len(x) = 3
    BY <1>2
  <2> QED BY <2>1, <2>2
<1>9. SubSeq(p, 1, 1 + Len(x) - 1) = x /\ SubSeq(p, 3, 3 + Len(y) - 1) = y
  BY <1>2, <1>3, <1>5, <1>8, HoldsCut
<1>10. SubSeq(p, 1, 2) = x /\ SubSeq(p, 3, 4) = y
  <2>1. 1 + Len(x) - 1 = 2 /\ 3 + Len(y) - 1 = 4
    BY <1>2
  <2> QED BY <1>9, <2>1
<1> QED BY <1>2, <1>3, <1>5, <1>7, <1>10 DEF p

-----------------------------------------------------------------------------
\* The three answers that are put together byte by byte.

\* A short string takes one byte more than it has.
LEMMA StringIs ==
  ASSUME NEW s \in Seq(Int)
  PROVE  to_shortstr(s) \in Seq(Int) /\ Len(to_shortstr(s)) = 1 + Len(s)
<1> DEFINE l == << Len(s) % 256 >>
<1>1. Len(s) % 256 \in Int
  BY LowHigh DEF Low
<1>2. l \in Seq(Int) /\ Len(l) = 1
  BY <1>1
<1>3. to_shortstr(s) = l \o s
  BY DEF to_shortstr
<1> HIDE DEF l
<1> QED BY <1>2, <1>3, Joined

\* One method frame on channel 1, alone or before others.
LEMMA MethodFrameRead ==
  ASSUME NEW b \in Seq(Int), NEW c \in Short, NEW m \in Short, NEW a \in Seq(Int),
         Len(a) < 1024, NEW f, f = FrameAt(b, 1),
         Holds(b, 1, mount_general_frame(1, 1, mount_method_frame_payload(c, m, a)))
  PROVE  /\ IsMethod(f, c, m)
         /\ f.payload \in Seq(Int) /\ Len(f.payload) = 4 + Len(a)
         /\ f.next = 13 + Len(a)
         /\ Holds(f.payload, 5, a)
<1> DEFINE p == mount_method_frame_payload(c, m, a)
<1>1. 1 \in Short
  BY SmallNumber
<1>2. /\ p \in Seq(Int) /\ Len(p) = 4 + Len(a)
      /\ Number(SubSeq(p, 1, 2)) = c /\ Number(SubSeq(p, 3, 4)) = m
      /\ Holds(p, 5, a)
  BY <1>1, MethodRead
<1>3. Holds(b, 1, mount_general_frame(1, 1, p))
  OBVIOUS
<1> HIDE DEF p
<1>4. Len(p) \in Nat /\ Len(p) < 65536
  BY <1>2
<1>5. Len(p) \in Long
  BY <1>4, SmallNumber
<1>6. FrameAt(b, 1) = [type |-> 1, channel |-> 1, payload |-> p,
                       next |-> 1 + 8 + Len(p), whole |-> TRUE]
  <2>1. 1 \in Nat \ {0} /\ 1 \in Int
    OBVIOUS
  <2> QED BY <1>1, <1>2, <1>3, <1>5, <2>1, FrameRead
<1>7. 1 + 8 + Len(p) = 13 + Len(a)
  BY <1>2
<1> QED BY <1>2, <1>6, <1>7 DEF IsMethod

LEMMA DeclareOkRead ==
  ASSUME NEW name \in Seq(Int), Len(name) < 256
  PROVE  ReadsDeclareOk(queue_declare_ok(name), name)
<1> DEFINE u == [i \in 1..8 |-> Unset]
           z == to_shortstr(name)
           a == z \o u
           b == queue_declare_ok(name)
           f == FrameAt(b, 1)
<1>1. /\ z \in Seq(Int) /\ Len(z) = 1 + Len(name)
      /\ u \in Seq(Int) /\ Len(u) = 8
  <2>1. \A i \in 1..8 : Unset \in Int
    BY DEF Unset
  <2>2. u \in Seq(Int) /\ Len(u) = 8
    BY <2>1
  <2> QED BY <2>2, StringIs
<1>2. b = mount_general_frame(1, 1, mount_method_frame_payload(50, 11, a))
  BY DEF queue_declare_ok
<1> HIDE DEF u, z
<1>3. a \in Seq(Int) /\ Len(a) = 9 + Len(name)
  <2>1. Len(z) + Len(u) = 9 + Len(name)
    BY <1>1
  <2> QED BY <1>1, <2>1, Joined
<1> DEFINE p == mount_method_frame_payload(50, 11, a)
<1>4. p \in Seq(Int) /\ Len(p) = 4 + Len(a)
  <2>1. 50 \in Short /\ 11 \in Short
    BY SmallNumber
  <2> HIDE DEF a
  <2> QED BY <1>3, <2>1, MethodRead
<1>5. b \in Seq(Int) /\ Len(b) = 8 + Len(p)
  <2> HIDE DEF p, b
  <2> QED BY <1>2, <1>4, FrameIs DEF p
<1>6. Holds(b, 1, b)
  BY <1>5, HoldsItself
<1> HIDE DEF a, b
<1>7. /\ IsMethod(f, 50, 11) /\ f.next = 13 + Len(a)
      /\ f.payload \in Seq(Int) /\ Len(f.payload) = 4 + Len(a)
      /\ Holds(f.payload, 5, a)
  <2>1. Len(a) < 1024
    BY <1>3
  <2>2. Holds(b, 1, mount_general_frame(1, 1, mount_method_frame_payload(50, 11, a)))
    BY <1>2, <1>6
  <2>3. 50 \in Short /\ 11 \in Short
    BY SmallNumber
  <2>4. f = FrameAt(b, 1)
    OBVIOUS
  <2> HIDE DEF f, p
  <2> QED BY <1>3, <1>5, <2>1, <2>2, <2>3, <2>4, MethodFrameRead
<1> DEFINE q == f.payload
<1>8. q \in Seq(Int) /\ Holds(q, 5, z \o u)
  BY <1>7 DEF a
<1> HIDE DEF f
<1>9. ShortAt(q, 5) = [string |-> name, next |-> 5 + Len(name) + 1]
  <2> HIDE DEF q
  <2>1. Holds(q, 5, z)
    BY <1>1, <1>8, HoldsParts
  <2> QED BY <1>8, <2>1, StringRead DEF z
<1> SUFFICES /\ IsMethod(f, 50, 11) /\ f.next = Len(b) + 1
             /\ ShortAt(q, 5).string = name
             /\ ShortAt(q, 5).next + 7 = Len(q)
  BY DEF ReadsDeclareOk, f, b
<1>10. Len(p) = 13 + Len(name)
  BY <1>3, <1>4
<1> HIDE DEF p
<1>11. Len(name) \in Nat /\ Len(a) = 9 + Len(name) /\ Len(b) = 21 + Len(name)
  BY <1>3, <1>5, <1>10
<1>12. Len(q) = 13 + Len(name) /\ f.next = 22 + Len(name)
  BY <1>7, <1>11 DEF f
<1>13. ShortAt(q, 5).string = name /\ ShortAt(q, 5).next = 6 + Len(name)
  BY <1>9, <1>11
<1> QED BY <1>7, <1>11, <1>12, <1>13

LEMMA ConsumeOkRead ==
  ASSUME NEW tag \in Seq(Int), Len(tag) < 256
  PROVE  ReadsConsumeOk(basic_consume_ok(tag), tag)
<1> DEFINE a == to_shortstr(tag)
           p == mount_method_frame_payload(60, 21, a)
           b == basic_consume_ok(tag)
           f == FrameAt(b, 1)
<1>1. a \in Seq(Int) /\ Len(a) = 1 + Len(tag)
  BY StringIs
<1>2. b = mount_general_frame(1, 1, p)
  BY DEF basic_consume_ok
<1>3. p \in Seq(Int) /\ Len(p) = 4 + Len(a)
  <2>1. 60 \in Short /\ 21 \in Short
    BY SmallNumber
  <2> HIDE DEF a
  <2> QED BY <1>1, <2>1, MethodRead
<1>4. b \in Seq(Int) /\ Len(b) = 8 + Len(p)
  <2> HIDE DEF p, b
  <2> QED BY <1>2, <1>3, FrameIs
<1>5. Holds(b, 1, b)
  BY <1>4, HoldsItself
<1> HIDE DEF a, b
<1>6. /\ IsMethod(f, 60, 21) /\ f.next = 13 + Len(a)
      /\ f.payload \in Seq(Int) /\ Len(f.payload) = 4 + Len(a)
      /\ Holds(f.payload, 5, a)
  <2>1. Len(a) < 1024
    BY <1>1
  <2>2. Holds(b, 1, mount_general_frame(1, 1, mount_method_frame_payload(60, 21, a)))
    BY <1>2, <1>5
  <2>3. 60 \in Short /\ 21 \in Short
    BY SmallNumber
  <2>4. f = FrameAt(b, 1)
    OBVIOUS
  <2> HIDE DEF f, p
  <2> QED BY <1>1, <1>4, <2>1, <2>2, <2>3, <2>4, MethodFrameRead
<1> HIDE DEF p
<1> DEFINE q == f.payload
<1>7. q \in Seq(Int) /\ Holds(q, 5, to_shortstr(tag))
  BY <1>6 DEF a
<1> HIDE DEF f
<1>8. ShortAt(q, 5) = [string |-> tag, next |-> 5 + Len(tag) + 1]
  <2> HIDE DEF q
  <2> QED BY <1>7, StringRead
<1> SUFFICES /\ IsMethod(f, 60, 21) /\ f.next = Len(b) + 1
             /\ ShortAt(q, 5).string = tag
             /\ ShortAt(q, 5).next = Len(q) + 1
  BY DEF ReadsConsumeOk, f, b
<1>9. Len(tag) \in Nat /\ Len(a) = 1 + Len(tag) /\ Len(b) = 13 + Len(tag)
  BY <1>1, <1>3, <1>4
<1>10. Len(q) = 5 + Len(tag) /\ f.next = 14 + Len(tag)
  BY <1>6, <1>9 DEF f
<1>11. ShortAt(q, 5).string = tag /\ ShortAt(q, 5).next = 6 + Len(tag)
  BY <1>8, <1>9
<1> QED BY <1>6, <1>9, <1>10, <1>11

\* Eight bytes for a number that fits in four.
LEMMA LongLongIs ==
  ASSUME NEW n \in Nat
  PROVE  /\ write_long_long_int(n) \in Seq(Int) /\ Len(write_long_long_int(n)) = 8
         /\ \A b \in Seq(Int), i \in Nat \ {0} :
              Holds(b, i, write_long_long_int(n)) => Holds(b, i + 4, write_long_int(n))
<1> DEFINE z == << 0, 0, 0, 0 >>
           w == write_long_int(n)
<1>1. z \in Seq(Int) /\ Len(z) = 4
  OBVIOUS
<1>2. w \in Seq(Int) /\ Len(w) = 4
  BY LongRead
<1>3. write_long_long_int(n) = z \o w
  BY DEF write_long_long_int
<1> HIDE DEF z, w
<1>4. z \o w \in Seq(Int) /\ Len(z \o w) = 8
  <2>1. Len(z) + Len(w) = 8
    BY <1>1, <1>2
  <2> QED BY <1>1, <1>2, <2>1, Joined
<1>5. ASSUME NEW b \in Seq(Int), NEW i \in Nat \ {0}, Holds(b, i, z \o w)
      PROVE  Holds(b, i + 4, w)
  <2>1. Holds(b, i + Len(z), w)
    BY <1>1, <1>2, <1>5, HoldsParts
  <2> QED BY <1>1, <2>1
<1> QED BY <1>3, <1>4, <1>5 DEF w

\* The content header, and where the length of the message is.
LEMMA ContentIs ==
  ASSUME NEW n \in Long
  PROVE  LET p == write_short_int(60) \o write_short_int(0) \o write_long_long_int(n)
                    \o write_short_int(4096) \o << 1 >>
         IN
         /\ p \in Seq(Int) /\ Len(p) = 15
         /\ Number(SubSeq(p, 9, 12)) = n
<1> DEFINE x == write_short_int(60)
           y == write_short_int(0)
           l == write_long_long_int(n)
           g == write_short_int(4096)
           one == << 1 >>
           p == x \o y \o l \o g \o one
<1>0. n \in Nat
  BY DEF Long
<1>1. /\ x \in Seq(Int) /\ Len(x) = 2 /\ y \in Seq(Int) /\ Len(y) = 2
      /\ g \in Seq(Int) /\ Len(g) = 2 /\ one \in Seq(Int) /\ Len(one) = 1
  BY ShortRead
<1>2. l \in Seq(Int) /\ Len(l) = 8
  BY <1>0, LongLongIs
<1>3. p = x \o y \o l \o g \o one
  OBVIOUS
<1> HIDE DEF x, y, l, g, one, p
<1>4. x \o y \in Seq(Int) /\ Len(x \o y) = 4
  <2>1. Len(x) + Len(y) = 4
    BY <1>1
  <2> QED BY <1>1, <2>1, Joined
<1>5. x \o y \o l \in Seq(Int) /\ Len(x \o y \o l) = 12
  <2>1. Len(x \o y) + Len(l) = 12
    BY <1>2, <1>4
  <2> QED BY <1>2, <1>4, <2>1, Joined
<1>6. x \o y \o l \o g \in Seq(Int) /\ Len(x \o y \o l \o g) = 14
  <2>1. Len(x \o y \o l) + Len(g) = 14
    BY <1>1, <1>5
  <2> QED BY <1>1, <1>5, <2>1, Joined
<1>7. p \in Seq(Int) /\ Len(p) = 15
  <2>1. Len(x \o y \o l \o g) + Len(one) = 15
    BY <1>1, <1>6
  <2>2. /\ x \o y \o l \o g \o one \in Seq(Int)
        /\ Len(x \o y \o l \o g \o one) = 15
    BY <1>1, <1>6, <2>1, Joined
  <2> QED BY <1>3, <2>2
<1>8. 1 \in Nat \ {0} /\ 5 \in Nat \ {0} /\ 9 \in Nat \ {0}
  OBVIOUS
<1>9. Holds(p, 1, x \o y \o l \o g \o one)
  BY <1>3, <1>7, HoldsItself
<1>10. Holds(p, 1, x \o y \o l \o g)
  BY <1>1, <1>6, <1>7, <1>8, <1>9, HoldsParts
<1>11. Holds(p, 1, x \o y \o l)
  BY <1>1, <1>5, <1>7, <1>8, <1>10, HoldsParts
<1>12. Holds(p, 5, l)
  <2>1. Holds(p, 1 + Len(x \o y), l)
    BY <1>2, <1>4, <1>7, <1>8, <1>11, HoldsParts
  <2>2. 1 + Len(x \o y) = 5
    BY <1>4
  <2> QED BY <2>1, <2>2
<1> DEFINE w == write_long_int(n)
<1>13. w \in Seq(Int) /\ Len(w) = 4 /\ Number(w) = n
  BY <1>0, LongRead
<1>14. Holds(p, 9, w)
  <2>1. Holds(p, 5 + 4, w)
    BY <1>0, <1>7, <1>8, <1>12, LongLongIs DEF l
  <2> QED BY <2>1
<1> HIDE DEF w
<1>15. SubSeq(p, 9, 12) = w
  <2>1. SubSeq(p, 9, 9 + Len(w) - 1) = w
    BY <1>7, <1>8, <1>13, <1>14, HoldsCut
  <2>2. 9 + Len(w) - 1 = 12
    BY <1>13
  <2> QED BY <2>1, <2>2
<1> QED BY <1>7, <1>13, <1>15 DEF x, y, l, g, one, p

\* The arguments of Basic.Deliver, wherever they stand: the consumer tag, nine
\* bytes, the empty name of the exchange and the name of the queue.
LEMMA ArgumentsRead ==
  ASSUME NEW tag \in Seq(Int), Len(tag) < 256, NEW name \in Seq(Int), Len(name) < 256,
         NEW a, a = to_shortstr(tag) \o write_long_long_int(1) \o << 0, 0 >> \o to_shortstr(name)
  PROVE  /\ a \in Seq(Int) /\ Len(a) = 12 + Len(tag) + Len(name)
         /\ \A q \in Seq(Int) : Holds(q, 5, a) =>
              /\ ShortAt(q, 5) = [string |-> tag, next |-> 6 + Len(tag)]
              /\ ShortAt(q, 15 + Len(tag)) = [string |-> << >>, next |-> 16 + Len(tag)]
              /\ ShortAt(q, 16 + Len(tag)) = [string |-> name, next |-> 17 + Len(tag) + Len(name)]
<1> DEFINE x == to_shortstr(tag)
           l == write_long_long_int(1)
           z == << 0, 0 >>
           y == to_shortstr(name)
           m == Len(tag)
           k == Len(name)
<1>1. /\ x \in Seq(Int) /\ Len(x) = 1 + m /\ y \in Seq(Int) /\ Len(y) = 1 + k
      /\ m \in Nat /\ k \in Nat
  <2>1. m \in Nat /\ k \in Nat
    OBVIOUS
  <2> QED BY <2>1, StringIs
<1>2. l \in Seq(Int) /\ Len(l) = 8
  BY LongLongIs
<1>3. z \in Seq(Int) /\ Len(z) = 2 /\ z[2] = 0
  OBVIOUS
<1>4. a = x \o l \o z \o y
  OBVIOUS
<1> HIDE DEF x, l, z, y, m, k
<1>5. x \o l \in Seq(Int) /\ Len(x \o l) = 9 + m
  <2>1. Len(x) + Len(l) = 9 + m
    BY <1>1, <1>2
  <2> QED BY <1>1, <1>2, <2>1, Joined
<1>6. x \o l \o z \in Seq(Int) /\ Len(x \o l \o z) = 11 + m
  <2>1. Len(x \o l) + Len(z) = 11 + m
    BY <1>1, <1>3, <1>5
  <2> QED BY <1>3, <1>5, <2>1, Joined
<1>7. a \in Seq(Int) /\ Len(a) = 12 + m + k
  <2>1. Len(x \o l \o z) + Len(y) = 12 + m + k
    BY <1>1, <1>6
  <2> QED BY <1>1, <1>4, <1>6, <2>1, Joined
<1>8. ASSUME NEW q \in Seq(Int), Holds(q, 5, a)
      PROVE  /\ ShortAt(q, 5) = [string |-> tag, next |-> 6 + m]
             /\ ShortAt(q, 15 + m) = [string |-> << >>, next |-> 16 + m]
             /\ ShortAt(q, 16 + m) = [string |-> name, next |-> 17 + m + k]
  <2>0. 5 \in Nat \ {0} /\ 14 + m \in Nat \ {0} /\ 16 + m \in Nat \ {0}
    BY <1>1
  <2>1. Holds(q, 5, x \o l \o z) /\ Holds(q, 16 + m, y)
    <3>1. Holds(q, 5, x \o l \o z) /\ Holds(q, 5 + Len(x \o l \o z), y)
      BY <1>1, <1>4, <1>6, <1>8, <2>0, HoldsParts
    <3>2. 5 + Len(x \o l \o z) = 16 + m
      BY <1>1, <1>6
    <3> QED BY <3>1, <3>2
  <2>2. Holds(q, 5, x \o l) /\ Holds(q, 14 + m, z)
    <3>1. Holds(q, 5, x \o l) /\ Holds(q, 5 + Len(x \o l), z)
      BY <1>3, <1>5, <2>0, <2>1, HoldsParts
    <3>2. 5 + Len(x \o l) = 14 + m
      BY <1>1, <1>5
    <3> QED BY <3>1, <3>2
  <2>3. Holds(q, 5, x)
    BY <1>1, <1>2, <2>0, <2>2, HoldsParts
  <2>4. ShortAt(q, 5) = [string |-> tag, next |-> 6 + m]
    <3>1. ShortAt(q, 5) = [string |-> tag, next |-> 5 + Len(tag) + 1]
      BY <2>0, <2>3, StringRead DEF x
    <3>2. 5 + Len(tag) + 1 = 6 + m
      BY <1>1 DEF m
    <3> QED BY <3>1, <3>2
  <2>5. ShortAt(q, 16 + m) = [string |-> name, next |-> 17 + m + k]
    <3>1. ShortAt(q, 16 + m) = [string |-> name, next |-> (16 + m) + Len(name) + 1]
      BY <2>0, <2>1, StringRead DEF y
    <3>2. (16 + m) + Len(name) + 1 = 17 + m + k
      BY <1>1 DEF k
    <3> QED BY <3>1, <3>2
  <2>6. q[15 + m] = 0
    <3>1. q[(14 + m) + 2 - 1] = z[2]
      BY <1>3, <2>2 DEF Holds
    <3>2. (14 + m) + 2 - 1 = 15 + m
      BY <1>1
    <3> QED BY <1>3, <3>1, <3>2
  <2>7. ShortAt(q, 15 + m) = [string |-> << >>, next |-> 16 + m]
    <3>1. ShortAt(q, 15 + m) = [string |-> SubSeq(q, 15 + m + 1, 15 + m + 0), next |-> 15 + m + 0 + 1]
      BY <2>6 DEF ShortAt
    <3>2. 15 + m + 1 = 16 + m /\ 15 + m + 0 = 15 + m /\ 15 + m + 0 + 1 = 16 + m
      BY <1>1
    <3>3. SubSeq(q, 16 + m, 15 + m) = << >>
      <4> DEFINE u == 16 + m
                 v == 15 + m
      <4>1. u \in Int /\ v \in Int /\ u > v
        BY <1>1
      <4> HIDE DEF u, v
      <4>2. SubSeq(q, u, v) = << >>
        BY <4>1
      <4> QED BY <4>2 DEF u, v
    <3> QED BY <3>1, <3>2, <3>3
  <2> QED BY <2>4, <2>5, <2>7
<1> QED BY <1>7, <1>8 DEF m, k

LEMMA DeliverRead ==
  ASSUME NEW msg \in Seq(Int), Len(msg) \in Long,
         NEW tag \in Seq(Int), Len(tag) < 256, NEW name \in Seq(Int), Len(name) < 256
  PROVE  ReadsDeliver(basic_deliver(msg, tag, name), msg, tag, name)
<1> DEFINE a == to_shortstr(tag) \o write_long_long_int(1) \o << 0, 0 >> \o to_shortstr(name)
           c == write_short_int(60) \o write_short_int(0) \o write_long_long_int(Len(msg))
                  \o write_short_int(4096) \o << 1 >>
           p == mount_method_frame_payload(60, 60, a)
           f1 == mount_general_frame(1, 1, p)
           f2 == mount_general_frame(2, 1, c)
           f3 == mount_general_frame(3, 1, msg)
           b == basic_deliver(msg, tag, name)
           m == Len(tag)
           k == Len(name)
<1>1. b = f1 \o f2 \o f3
  BY DEF basic_deliver
<1>2. /\ a \in Seq(Int) /\ Len(a) = 12 + m + k
      /\ \A q \in Seq(Int) : Holds(q, 5, a) =>
           /\ ShortAt(q, 5) = [string |-> tag, next |-> 6 + m]
           /\ ShortAt(q, 15 + m) = [string |-> << >>, next |-> 16 + m]
           /\ ShortAt(q, 16 + m) = [string |-> name, next |-> 17 + m + k]
  <2>1. a = to_shortstr(tag) \o write_long_long_int(1) \o << 0, 0 >> \o to_shortstr(name)
    OBVIOUS
  <2> HIDE DEF a
  <2> QED BY <2>1, ArgumentsRead
<1>3. c \in Seq(Int) /\ Len(c) = 15 /\ Number(SubSeq(c, 9, 12)) = Len(msg)
  BY ContentIs
<1>4. m \in Nat /\ k \in Nat /\ m < 256 /\ k < 256 /\ Len(msg) \in Nat
  OBVIOUS
<1>5. 60 \in Short /\ 1 \in Short /\ 1 \in Nat /\ 1 \in Nat \ {0} /\ 1 \in Int /\ 2 \in Int /\ 3 \in Int
  BY SmallNumber
<1> HIDE DEF a, c, b, m, k
<1>6. p \in Seq(Int) /\ Len(p) = 16 + m + k
  <2>1. p \in Seq(Int) /\ Len(p) = 4 + Len(a)
    BY <1>2, <1>5, MethodRead
  <2> HIDE DEF p
  <2> QED BY <1>2, <1>4, <2>1
<1> HIDE DEF p
<1>7. f1 \in Seq(Int) /\ Len(f1) = 24 + m + k
  <2>1. f1 \in Seq(Int) /\ Len(f1) = 8 + Len(p)
    BY <1>5, <1>6, FrameIs
  <2> HIDE DEF f1
  <2> QED BY <1>4, <1>6, <2>1
<1>8. f2 \in Seq(Int) /\ Len(f2) = 23
  <2>1. f2 \in Seq(Int) /\ Len(f2) = 8 + Len(c)
    BY <1>3, <1>5, FrameIs
  <2> HIDE DEF f2
  <2> QED BY <1>3, <2>1
<1>9. f3 \in Seq(Int) /\ Len(f3) = 8 + Len(msg)
  BY <1>5, FrameIs
<1> HIDE DEF f1, f2, f3
<1>10. f1 \o f2 \in Seq(Int) /\ Len(f1 \o f2) = 47 + m + k
  <2>1. Len(f1) + Len(f2) = 47 + m + k
    BY <1>4, <1>7, <1>8
  <2> QED BY <1>7, <1>8, <2>1, Joined
<1>11. b \in Seq(Int) /\ Len(b) = 55 + m + k + Len(msg)
  <2>1. Len(f1 \o f2) + Len(f3) = 55 + m + k + Len(msg)
    BY <1>4, <1>9, <1>10
  <2> QED BY <1>1, <1>9, <1>10, <2>1, Joined
<1>12. Holds(b, 1, f1 \o f2) /\ Holds(b, 48 + m + k, f3)
  <2>1. Holds(b, 1, f1 \o f2 \o f3)
    BY <1>1, <1>11, HoldsItself
  <2>2. Holds(b, 1, f1 \o f2) /\ Holds(b, 1 + Len(f1 \o f2), f3)
    BY <1>5, <1>9, <1>10, <1>11, <2>1, HoldsParts
  <2>3. 1 + Len(f1 \o f2) = 48 + m + k
    BY <1>4, <1>10
  <2> QED BY <2>2, <2>3
<1>13. Holds(b, 1, f1) /\ Holds(b, 25 + m + k, f2)
  <2>1. Holds(b, 1, f1) /\ Holds(b, 1 + Len(f1), f2)
    BY <1>5, <1>7, <1>8, <1>11, <1>12, HoldsParts
  <2>2. 1 + Len(f1) = 25 + m + k
    BY <1>4, <1>7
  <2> QED BY <2>1, <2>2
<1> DEFINE method == FrameAt(b, 1)
           header == FrameAt(b, method.next)
           body == FrameAt(b, header.next)
<1>14. /\ IsMethod(method, 60, 60)
       /\ method.payload \in Seq(Int) /\ Len(method.payload) = 16 + m + k
       /\ method.next = 25 + m + k
       /\ Holds(method.payload, 5, a)
  <2>0. a \in Seq(Int) /\ Len(a) = 12 + m + k
    BY <1>2
  <2>1. Len(a) < 1024 /\ 4 + Len(a) = 16 + m + k /\ 13 + Len(a) = 25 + m + k
    BY <2>0, <1>4
  <2>2. Holds(b, 1, mount_general_frame(1, 1, mount_method_frame_payload(60, 60, a)))
    BY <1>13 DEF f1, p
  <2>3. method = FrameAt(b, 1)
    OBVIOUS
  <2> HIDE DEF method
  <2>4. /\ IsMethod(method, 60, 60)
        /\ method.payload \in Seq(Int) /\ Len(method.payload) = 4 + Len(a)
        /\ method.next = 13 + Len(a)
        /\ Holds(method.payload, 5, a)
    <3>1. 60 \in Short /\ Len(a) < 1024 /\ b \in Seq(Int) /\ a \in Seq(Int)
      BY <1>5, <1>11, <2>0, <2>1
    <3> QED BY <2>2, <2>3, <3>1, MethodFrameRead
  <2> QED BY <2>1, <2>4
<1> HIDE DEF method
<1>15. header = [type |-> 2, channel |-> 1, payload |-> c, next |-> 48 + m + k, whole |-> TRUE]
  <2> DEFINE i == 25 + m + k
  <2>1. Len(c) \in Long
    BY <1>3, SmallNumber
  <2>2. i \in Nat \ {0} /\ i + 8 + Len(c) = 48 + m + k
    BY <1>3, <1>4
  <2>3. header = FrameAt(b, i)
    BY <1>14
  <2>4. 2 \in Int /\ 1 \in Short /\ b \in Seq(Int) /\ c \in Seq(Int)
    BY <1>3, <1>5, <1>11
  <2>5. Holds(b, i, mount_general_frame(2, 1, c))
    BY <1>13 DEF f2
  <2> HIDE DEF i, header
  <2>6. FrameAt(b, i) = [type |-> 2, channel |-> 1, payload |-> c,
                         next |-> i + 8 + Len(c), whole |-> TRUE]
    BY <2>1, <2>2, <2>4, <2>5, FrameRead
  <2> QED BY <2>2, <2>3, <2>6
<1> HIDE DEF header
<1>16. body = [type |-> 3, channel |-> 1, payload |-> msg, next |-> Len(b) + 1, whole |-> TRUE]
  <2> DEFINE i == 48 + m + k
  <2>1. i \in Nat \ {0} /\ i + 8 + Len(msg) = Len(b) + 1
    BY <1>4, <1>11
  <2>2. body = FrameAt(b, i)
    BY <1>15
  <2>3. 3 \in Int /\ 1 \in Short /\ b \in Seq(Int)
    BY <1>5, <1>11
  <2>4. Holds(b, i, mount_general_frame(3, 1, msg))
    BY <1>12 DEF f3
  <2> HIDE DEF i, body
  <2>5. FrameAt(b, i) = [type |-> 3, channel |-> 1, payload |-> msg,
                         next |-> i + 8 + Len(msg), whole |-> TRUE]
    BY <2>1, <2>3, <2>4, FrameRead
  <2> QED BY <2>1, <2>2, <2>5
<1> HIDE DEF body
<1> DEFINE q == method.payload
           t == ShortAt(q, 5)
           exchange == ShortAt(q, t.next + 9)
           key == ShortAt(q, exchange.next)
<1>17. /\ t = [string |-> tag, next |-> 6 + m]
       /\ ShortAt(q, 15 + m) = [string |-> << >>, next |-> 16 + m]
       /\ ShortAt(q, 16 + m) = [string |-> name, next |-> 17 + m + k]
  BY <1>2, <1>14
<1> HIDE DEF t
<1>18. exchange = [string |-> << >>, next |-> 16 + m]
  <2>1. t.next + 9 = 15 + m
    BY <1>4, <1>17
  <2> QED BY <1>17, <2>1
<1> HIDE DEF exchange
<1>19. key = [string |-> name, next |-> 17 + m + k]
  BY <1>17, <1>18
<1> HIDE DEF key
<1>20. key.next = Len(q) + 1
  BY <1>4, <1>14, <1>19
<1>21. /\ IsMethod(method, 60, 60)
       /\ header.whole /\ header.type = 2 /\ body.whole /\ body.type = 3
       /\ body.next = Len(b) + 1
       /\ t.string = tag /\ exchange.string = << >> /\ key.string = name
       /\ key.next = Len(method.payload) + 1
       /\ Number(SubSeq(header.payload, 9, 12)) = Len(msg)
       /\ body.payload = msg
  BY <1>3, <1>14, <1>15, <1>16, <1>17, <1>18, <1>19, <1>20
<1> QED BY <1>21 DEF ReadsDeliver, method, header, body, t, exchange, key, b

-----------------------------------------------------------------------------
\* The lengths of the strings stay those of the constants.

\* A string is a sequence of bytes of one of the lengths.
LEMMA StringsAre ==
  ASSUME NEW lengths \in SUBSET Nat, NEW s \in Strings(lengths)
  PROVE  s \in Seq(Int) /\ Len(s) \in lengths
<1>1. PICK n \in lengths : s = [i \in 1..n |-> IF i % 3 = 1 THEN FRAME_END ELSE 97]
  BY DEF Strings
<1>2. n \in Nat /\ \A i \in 1..n : (IF i % 3 = 1 THEN FRAME_END ELSE 97) \in Int
  BY DEF FRAME_END
<1>3. s \in Seq(Int) /\ Len(s) = n
  BY <1>1, <1>2
<1> QED BY <1>3

\* The client keeps the message it started with.
LEMMA SizeKept == Spec => [](size \in Sizes)
<1>1. Init => size \in Sizes
  BY DEF Init
<1>2. size \in Sizes /\ [Next]_vars => (size \in Sizes)'
  BY DEF Next, vars, client, Server, ClientWrites, ClientReads, ServerReads, ServerAnswers,
         do_SUBSCRIBED, do_CLIENT_TURN, do_RCVD_BASIC_PUBLISH, Finish, Idle
<1> QED BY <1>1, <1>2, PTL DEF Spec

\* A client can always take apart the Queue.Declare-Ok, the Basic.Consume-Ok and
\* the Basic.Deliver it receives: the lengths that utils.c announces are those of
\* the strings it copies, a FRAME_END among their bytes or not.
THEOREM Decoding == Spec => []AnswersDecode
<1>1. size \in Sizes => AnswersDecode
  <2> SUFFICES ASSUME size \in Sizes,
                      NEW name \in Strings(NameLengths), NEW tag \in Strings(TagLengths),
                      NEW msg \in Strings({size})
               PROVE  /\ ReadsDeclareOk(queue_declare_ok(name), name)
                      /\ ReadsConsumeOk(basic_consume_ok(tag), tag)
                      /\ ReadsDeliver(basic_deliver(msg, tag, name), msg, tag, name)
    BY DEF AnswersDecode
  <2>1. /\ NameLengths \in SUBSET Nat /\ TagLengths \in SUBSET Nat /\ {size} \in SUBSET Nat
        /\ size < 1024
        /\ \A n \in NameLengths \union TagLengths : n < 256
    BY ConnectionAssumption
  <2>2. name \in Seq(Int) /\ Len(name) < 256
    BY <2>1, StringsAre
  <2>3. tag \in Seq(Int) /\ Len(tag) < 256
    BY <2>1, StringsAre
  <2>4. msg \in Seq(Int) /\ Len(msg) = size /\ size \in Nat
    BY <2>1, StringsAre
  <2>5. Len(msg) \in Long
    BY <2>1, <2>4, SmallNumber
  <2> QED BY <2>2, <2>3, <2>4, <2>5, DeclareOkRead, ConsumeOkRead, DeliverRead
<1> QED BY <1>1, SizeKept, PTL

-----------------------------------------------------------------------------
\* The client's script.

\* The steps of the scripts.
Publishing == << "Basic.Publish", "Content.Header", "Content.Body" >>
Singles == Frames \ {"Basic.Publish", "Content.Header", "Content.Body"}
StepSet ==
  {Write(<< f >>) : f \in Singles} \union {Write(Publishing)}
    \union {Await(f) : f \in Range(Answer) \union {"Basic.Deliver"}}

\* The answers and the writes that scripts are made of are steps.
LEMMA StepsAre ==
  /\ \A f \in Singles : Write(<< f >>) \in StepSet
  /\ Write(Publishing) \in StepSet
  /\ \A s \in DOMAIN Answer : Await(Answer[s]) \in StepSet
  /\ Await("Basic.Deliver") \in StepSet
BY DEF StepSet, Range

\* The steps up to the operation.
LEMMA OpeningIs ==
  /\ Opening \in Seq(StepSet) /\ Len(Opening) = 9
  /\ Opening[1] = Write(<< "Protocol.Header" >>)
  /\ Opening[2] = Await("Connection.Start")
  /\ Opening[3] = Write(<< "Connection.Start-Ok" >>)
  /\ Opening[4] = Await("Connection.Tune")
  /\ Opening[5] = Write(<< "Connection.Tune-Ok" >>)
  /\ Opening[6] = Write(<< "Connection.Open" >>)
  /\ Opening[7] = Await("Connection.Open-Ok")
  /\ Opening[8] = Write(<< "Channel.Open" >>)
  /\ Opening[9] = Await("Channel.Open-Ok")
<1>1. \A s1, s2, s3, s4, s5, s6, s7, s8, s9 \in StepSet :
        LET o == << s1, s2, s3, s4, s5, s6, s7, s8, s9 >> IN
        /\ o \in Seq(StepSet) /\ Len(o) = 9
        /\ o[1] = s1 /\ o[2] = s2 /\ o[3] = s3 /\ o[4] = s4 /\ o[5] = s5
        /\ o[6] = s6 /\ o[7] = s7 /\ o[8] = s8 /\ o[9] = s9
  OBVIOUS
<1>2. /\ Write(<< "Protocol.Header" >>) \in StepSet /\ Await("Connection.Start") \in StepSet
      /\ Write(<< "Connection.Start-Ok" >>) \in StepSet /\ Await("Connection.Tune") \in StepSet
      /\ Write(<< "Connection.Tune-Ok" >>) \in StepSet
      /\ Write(<< "Connection.Open" >>) \in StepSet /\ Await("Connection.Open-Ok") \in StepSet
      /\ Write(<< "Channel.Open" >>) \in StepSet /\ Await("Channel.Open-Ok") \in StepSet
  BY StepsAre DEF Singles, Frames, Answer
<1> QED BY <1>1, <1>2 DEF Opening

\* The steps after it.
LEMMA ClosingIs ==
  /\ Closing \in Seq(StepSet) /\ Len(Closing) = 4
  /\ Closing[1] = Write(<< "Channel.Close" >>)
  /\ Closing[2] = Await("Channel.Close-Ok")
  /\ Closing[3] = Write(<< "Connection.Close" >>)
  /\ Closing[4] = Await("Connection.Close-Ok")
<1>1. \A s1, s2, s3, s4 \in StepSet :
        LET o == << s1, s2, s3, s4 >> IN
        /\ o \in Seq(StepSet) /\ Len(o) = 4
        /\ o[1] = s1 /\ o[2] = s2 /\ o[3] = s3 /\ o[4] = s4
  OBVIOUS
<1>2. /\ Write(<< "Channel.Close" >>) \in StepSet /\ Await("Channel.Close-Ok") \in StepSet
      /\ Write(<< "Connection.Close" >>) \in StepSet /\ Await("Connection.Close-Ok") \in StepSet
  BY StepsAre DEF Singles, Frames, Answer
<1> QED BY <1>1, <1>2 DEF Closing

Commanded == command \in {"declare", "publish", "consume"}

\* A consumer's deliveries and acks take turns.
LEMMA ReceivingIs ==
  /\ Receiving \in Seq(StepSet) /\ Len(Receiving) = 2 * MaxDeliveries
  /\ \A k \in 1..(2 * MaxDeliveries) :
       Receiving[k] = IF k % 2 = 1 THEN Await("Basic.Deliver") ELSE Write(<< "Basic.Ack" >>)
<1>1. MaxDeliveries \in Nat
  BY ConnectionAssumption
<1>2. Await("Basic.Deliver") \in StepSet /\ Write(<< "Basic.Ack" >>) \in StepSet
  BY StepsAre DEF Singles, Frames
<1>3. 2 * MaxDeliveries \in Nat
  BY <1>1
<1> DEFINE n == 2 * MaxDeliveries
           a == Await("Basic.Deliver")
           w == Write(<< "Basic.Ack" >>)
<1>4. Receiving = [k \in 1..n |-> IF k % 2 = 1 THEN a ELSE w]
  BY DEF Receiving
<1> HIDE DEF n, a, w
<1>5. n \in Nat /\ a \in StepSet /\ w \in StepSet
  BY <1>2, <1>3 DEF n, a, w
<1>6. /\ Receiving \in Seq(StepSet) /\ Len(Receiving) = n
      /\ \A k \in 1..n : Receiving[k] = IF k % 2 = 1 THEN a ELSE w
  BY <1>4, <1>5
<1> QED BY <1>6 DEF n, a, w

\* A script is the opening, the operation and the close, one after the other.
LEMMA ScriptIs ==
  ASSUME Commanded
  PROVE  /\ Script(command) \in Seq(StepSet)
         /\ DOMAIN Script(command) = 1..Len(Script(command))
         /\ \A k \in 1..9 : k \in DOMAIN Script(command) /\ Step(k) = Opening[k]
         /\ command = "declare" =>
              /\ Len(Script(command)) = 15
              /\ Step(10) = Write(<< "Queue.Declare" >>) /\ Step(11) = Await("Queue.Declare-Ok")
              /\ \A k \in 1..4 : Step(11 + k) = Closing[k]
         /\ command = "publish" =>
              /\ Len(Script(command)) = 14
              /\ Step(10) = Write(Publishing)
              /\ \A k \in 1..4 : Step(10 + k) = Closing[k]
         /\ command = "consume" =>
              /\ Len(Script(command)) = 11 + 2 * MaxDeliveries
              /\ Step(10) = Write(<< "Basic.Consume" >>) /\ Step(11) = Await("Basic.Consume-Ok")
              /\ \A k \in 1..(2 * MaxDeliveries) : Step(11 + k) = Receiving[k]
<1>0. /\ Opening \in Seq(StepSet) /\ Len(Opening) = 9
      /\ Closing \in Seq(StepSet) /\ Len(Closing) = 4
      /\ Receiving \in Seq(StepSet) /\ Len(Receiving) = 2 * MaxDeliveries
      /\ 2 * MaxDeliveries \in Nat
  BY OpeningIs, ClosingIs, ReceivingIs, ConnectionAssumption
<1>1. ASSUME NEW p \in StepSet, NEW q \in StepSet, NEW r \in Seq(StepSet), NEW n \in Nat, Len(r) = n,
             Script(command) = Opening \o (<< p, q >> \o r)
      PROVE  /\ Script(command) \in Seq(StepSet) /\ Len(Script(command)) = 11 + n
             /\ DOMAIN Script(command) = 1..(11 + n)
             /\ \A k \in 1..9 : Step(k) = Opening[k]
             /\ Step(10) = p /\ Step(11) = q
             /\ \A k \in 1..n : Step(11 + k) = r[k]
  <2> DEFINE h == << p, q >>
             x == h \o r
             y == Opening \o x
  <2>1. h \in Seq(StepSet) /\ Len(h) = 2 /\ h[1] = p /\ h[2] = q
    OBVIOUS
  <2> HIDE DEF h
  <2>2. /\ x \in Seq(StepSet) /\ Len(x) = Len(h) + Len(r)
        /\ \A k \in 1..Len(h) : x[k] = h[k]
        /\ \A k \in 1..Len(r) : x[Len(h) + k] = r[k]
    <3>1. h \in Seq(StepSet) /\ r \in Seq(StepSet)
      BY <1>1, <2>1
    <3> QED BY <3>1, ConcatParts
  <2> HIDE DEF x
  <2>3. /\ y \in Seq(StepSet) /\ Len(y) = Len(Opening) + Len(x)
        /\ DOMAIN y = 1..(Len(Opening) + Len(x))
        /\ \A k \in 1..Len(Opening) : y[k] = Opening[k]
        /\ \A k \in 1..Len(x) : y[Len(Opening) + k] = x[k]
    <3>1. Opening \in Seq(StepSet) /\ x \in Seq(StepSet)
      BY <1>0, <2>2
    <3> QED BY <3>1, ConcatParts
  <2> HIDE DEF y
  <2>4. Len(x) = 2 + n /\ x[1] = p /\ x[2] = q /\ \A k \in 1..n : x[2 + k] = r[k]
    BY <1>1, <2>1, <2>2
  <2>5. /\ Len(y) = 11 + n /\ DOMAIN y = 1..(11 + n) /\ \A k \in 1..9 : y[k] = Opening[k]
        /\ \A k \in 1..(2 + n) : y[9 + k] = x[k]
    BY <1>0, <1>1, <2>3, <2>4
  <2>6. y[10] = p /\ y[11] = q
    <3>1. 1 \in 1..(2 + n) /\ 2 \in 1..(2 + n) /\ 9 + 1 = 10 /\ 9 + 2 = 11
      BY <1>1
    <3> QED BY <2>4, <2>5, <3>1
  <2>7. ASSUME NEW k \in 1..n PROVE y[11 + k] = r[k]
    <3>1. 2 + k \in 1..(2 + n) /\ 9 + (2 + k) = 11 + k
      BY <1>1
    <3> QED BY <2>4, <2>5, <3>1
  <2>8. Script(command) = y
    BY <1>1 DEF y, x, h
  <2> QED BY <2>3, <2>5, <2>6, <2>7, <2>8 DEF Step
<1>2. CASE command = "declare"
  <2> DEFINE p == Write(<< "Queue.Declare" >>)
             q == Await("Queue.Declare-Ok")
  <2>1. p \in StepSet /\ q \in StepSet
    BY StepsAre DEF Singles, Frames, Answer
  <2>2. Script(command) = Opening \o (<< p, q >> \o Closing)
    BY <1>2 DEF Script
  <2>3. /\ Script(command) \in Seq(StepSet) /\ Len(Script(command)) = 11 + 4
        /\ DOMAIN Script(command) = 1..(11 + 4)
        /\ \A k \in 1..9 : Step(k) = Opening[k]
        /\ Step(10) = p /\ Step(11) = q
        /\ \A k \in 1..4 : Step(11 + k) = Closing[k]
    <3>1. Closing \in Seq(StepSet) /\ 4 \in Nat /\ Len(Closing) = 4
      BY <1>0
    <3> HIDE DEF p, q
    <3> QED BY <1>1, <2>1, <2>2, <3>1
  <2> QED BY <1>2, <2>3
<1>3. CASE command = "consume"
  <2> DEFINE p == Write(<< "Basic.Consume" >>)
             q == Await("Basic.Consume-Ok")
             n == 2 * MaxDeliveries
  <2>1. p \in StepSet /\ q \in StepSet
    BY StepsAre DEF Singles, Frames, Answer
  <2>2. Script(command) = Opening \o (<< p, q >> \o Receiving)
    BY <1>3 DEF Script
  <2>3. /\ Script(command) \in Seq(StepSet) /\ Len(Script(command)) = 11 + n
        /\ DOMAIN Script(command) = 1..(11 + n)
        /\ \A k \in 1..9 : Step(k) = Opening[k]
        /\ Step(10) = p /\ Step(11) = q
        /\ \A k \in 1..n : Step(11 + k) = Receiving[k]
    <3>1. n \in Nat /\ Len(Receiving) = n
      BY <1>0
    <3> HIDE DEF p, q, n
    <3> QED BY <1>0, <1>1, <2>1, <2>2, <3>1
  <2>4. \A k \in 1..9 : k \in 1..(11 + n)
    BY <1>0
  <2> HIDE DEF n
  <2>5. command = "consume" =>
              /\ Len(Script(command)) = 11 + n
              /\ Step(10) = p /\ Step(11) = q
              /\ \A k \in 1..n : Step(11 + k) = Receiving[k]
    BY <2>3
  <2> QED BY <1>3, <2>3, <2>4, <2>5 DEF n
<1>4. CASE command = "publish"
  <2> DEFINE p == Write(Publishing)
             h == << p >>
             x == h \o Closing
             y == Opening \o x
  <2>1. p \in StepSet
    BY StepsAre
  <2>2. Script(command) = y
    BY <1>4 DEF Script, Publishing
  <2> HIDE DEF p
  <2>3. h \in Seq(StepSet) /\ Len(h) = 1 /\ h[1] = p
    BY <2>1
  <2> HIDE DEF h
  <2>4. /\ x \in Seq(StepSet) /\ Len(x) = Len(h) + Len(Closing)
        /\ \A k \in 1..Len(h) : x[k] = h[k]
        /\ \A k \in 1..Len(Closing) : x[Len(h) + k] = Closing[k]
    <3>1. h \in Seq(StepSet) /\ Closing \in Seq(StepSet)
      BY <1>0, <2>3
    <3> QED BY <3>1, ConcatParts
  <2> HIDE DEF x
  <2>5. /\ y \in Seq(StepSet) /\ Len(y) = Len(Opening) + Len(x)
        /\ DOMAIN y = 1..(Len(Opening) + Len(x))
        /\ \A k \in 1..Len(Opening) : y[k] = Opening[k]
        /\ \A k \in 1..Len(x) : y[Len(Opening) + k] = x[k]
    <3>1. Opening \in Seq(StepSet) /\ x \in Seq(StepSet)
      BY <1>0, <2>4
    <3> QED BY <3>1, ConcatParts
  <2> HIDE DEF y
  <2>6. Len(x) = 5 /\ x[1] = p /\ \A k \in 1..4 : x[1 + k] = Closing[k]
    BY <1>0, <2>3, <2>4
  <2>7. /\ Len(y) = 14 /\ DOMAIN y = 1..14 /\ \A k \in 1..9 : y[k] = Opening[k]
        /\ \A k \in 1..5 : y[9 + k] = x[k]
    BY <1>0, <2>5, <2>6
  <2>8. y[10] = p
    <3>1. 1 \in 1..5 /\ 9 + 1 = 10
      OBVIOUS
    <3> QED BY <2>6, <2>7, <3>1
  <2>9. ASSUME NEW k \in 1..4 PROVE y[10 + k] = Closing[k]
    <3>1. 1 + k \in 1..5 /\ 9 + (1 + k) = 10 + k
      OBVIOUS
    <3> QED BY <2>6, <2>7, <3>1
  <2> QED BY <1>4, <2>2, <2>5, <2>7, <2>8, <2>9 DEF Step, p
<1> QED BY <1>2, <1>3, <1>4 DEF Commanded

-----------------------------------------------------------------------------
\* The bytes of frames.

\* The i-th byte of a frame, and the last byte of every frame but the header.
ByteOf(f, i, c, e) == [frame |-> f, at |-> i, byte |-> c, end |-> e, push |-> FALSE]
EndOf(f) == IF f = "Protocol.Header" THEN "last" ELSE "0xce"

\* A byte of a frame has the shape of one.
LEMMA ByteTypes ==
  ASSUME NEW f \in Frames, NEW i \in 1..4, NEW c \in {"contents", "0xce", "last"}, NEW e \in BOOLEAN
  PROVE  ByteOf(f, i, c, e) \in Byte
BY DEF ByteOf, Byte

\* A frame has two bytes, or four if a 0xce is in it.
LEMMA FrameBytes ==
  ASSUME NEW f \in Frames
  PROVE  /\ Frame(f) \in Seq(Byte)
         /\ f \notin inside =>
              Frame(f) = << ByteOf(f, 1, "contents", FALSE), ByteOf(f, 2, EndOf(f), TRUE) >>
         /\ f \in inside =>
              Frame(f) = << ByteOf(f, 1, "contents", FALSE), ByteOf(f, 2, "0xce", FALSE),
                            ByteOf(f, 3, "contents", FALSE), ByteOf(f, 4, EndOf(f), TRUE) >>
<1> DEFINE e == << EndOf(f) >>
           bytes == Contents(f) \o e
           frame == [i \in DOMAIN bytes |->
                       [frame |-> f, at |-> i, byte |-> bytes[i], end |-> i = Len(bytes),
                                           push |-> FALSE]]
<1>1. Frame(f) = frame
  BY DEF Frame, EndOf
<1> DEFINE C == {"contents", "0xce", "last"}
<1>2. EndOf(f) \in C /\ "contents" \in C /\ "0xce" \in C
  BY Zenon DEF EndOf
<1>3. CASE f \notin inside
  <2> DEFINE g == << "contents" >>
  <2>1. bytes = g \o e
    BY <1>3 DEF Contents
  <2>2. Len(bytes) = 2 /\ DOMAIN bytes = 1..2 /\ bytes[1] = "contents" /\ bytes[2] = EndOf(f)
    <3>1. g \in Seq(C) /\ Len(g) = 1 /\ g[1] = "contents" /\ e \in Seq(C) /\ Len(e) = 1
                        /\ e[1] = EndOf(f)
      BY <1>2
    <3> HIDE DEF g, e, C
    <3>2. /\ Len(g \o e) = Len(g) + Len(e) /\ DOMAIN (g \o e) = 1..(Len(g) + Len(e))
          /\ \A k \in 1..Len(g) : (g \o e)[k] = g[k]
          /\ \A k \in 1..Len(e) : (g \o e)[Len(g) + k] = e[k]
      <4>1. g \in Seq(C) /\ e \in Seq(C)
        BY <3>1
      <4> QED BY <4>1, ConcatParts
    <3> DEFINE j == g \o e
    <3>3. j = bytes
      BY <2>1
    <3>4. /\ Len(j) = Len(g) + Len(e) /\ DOMAIN j = 1..(Len(g) + Len(e))
          /\ \A k \in 1..Len(g) : j[k] = g[k]
          /\ \A k \in 1..Len(e) : j[Len(g) + k] = e[k]
      BY <3>2
    <3> HIDE DEF j, bytes
    <3>5. Len(j) = 2 /\ DOMAIN j = 1..2 /\ j[1] = "contents" /\ j[1 + 1] = EndOf(f)
      BY <3>1, <3>4
    <3> QED BY <3>3, <3>5
  <2> HIDE DEF bytes, g
  <2> DEFINE x == ByteOf(f, 1, "contents", FALSE)
             y == ByteOf(f, 2, EndOf(f), TRUE)
             t == << x, y >>
  <2>3. frame[1] = x /\ frame[2] = y
    <3>1. (1 = Len(bytes)) = FALSE /\ (2 = Len(bytes)) = TRUE
      BY <2>2
    <3>2. /\ frame[1] = ByteOf(f, 1, bytes[1], 1 = Len(bytes))
          /\ frame[2] = ByteOf(f, 2, bytes[2], 2 = Len(bytes))
      <4>1. 1 \in DOMAIN bytes /\ 2 \in DOMAIN bytes
        BY <2>2
      <4> QED BY <4>1, Zenon DEF ByteOf
    <3> QED BY <2>2, <3>1, <3>2, Zenon
  <2>4. x \in Byte /\ y \in Byte
    <3>1. 1 \in 1..4 /\ 2 \in 1..4 /\ FALSE \in BOOLEAN /\ TRUE \in BOOLEAN
      OBVIOUS
    <3> QED BY <1>2, <3>1, ByteTypes, Zenon
  <2>5. DOMAIN frame = 1..2 /\ frame = [i \in 1..2 |-> frame[i]]
    BY <2>2
  <2> HIDE DEF x, y, frame
  <2>6. frame \in Seq(Byte) /\ Len(frame) = 2
    <3>1. \A i \in 1..2 : frame[i] \in Byte
      BY <2>3, <2>4
    <3> QED BY <2>5, <3>1
  <2>7. t \in Seq(Byte) /\ Len(t) = 2 /\ t[1] = x /\ t[2] = y
    BY <2>4
  <2> HIDE DEF t
  <2>8. \A i \in 1..2 : frame[i] = t[i]
    BY <2>3, <2>7
  <2>9. frame = t
    BY <2>6, <2>7, <2>8, SeqEqual
  <2> QED BY <1>1, <1>3, <2>6, <2>9 DEF t, x, y
<1>4. CASE f \in inside
  <2> DEFINE g == << "contents", "0xce", "contents" >>
  <2>1. bytes = g \o e
    BY <1>4 DEF Contents
  <2>2. /\ Len(bytes) = 4 /\ DOMAIN bytes = 1..4 /\ bytes[1] = "contents" /\ bytes[2] = "0xce"
        /\ bytes[3] = "contents" /\ bytes[4] = EndOf(f)
    <3>1. /\ g \in Seq(C) /\ Len(g) = 3 /\ g[1] = "contents" /\ g[2] = "0xce" /\ g[3] = "contents"
          /\ e \in Seq(C) /\ Len(e) = 1 /\ e[1] = EndOf(f)
      BY <1>2
    <3> HIDE DEF g, e, C
    <3>2. /\ Len(g \o e) = Len(g) + Len(e) /\ DOMAIN (g \o e) = 1..(Len(g) + Len(e))
          /\ \A k \in 1..Len(g) : (g \o e)[k] = g[k]
          /\ \A k \in 1..Len(e) : (g \o e)[Len(g) + k] = e[k]
      <4>1. g \in Seq(C) /\ e \in Seq(C)
        BY <3>1
      <4> QED BY <4>1, ConcatParts
    <3> DEFINE j == g \o e
    <3>3. j = bytes
      BY <2>1
    <3>4. /\ Len(j) = Len(g) + Len(e) /\ DOMAIN j = 1..(Len(g) + Len(e))
          /\ \A k \in 1..Len(g) : j[k] = g[k]
          /\ \A k \in 1..Len(e) : j[Len(g) + k] = e[k]
      BY <3>2
    <3> HIDE DEF j, bytes
    <3>5. /\ Len(j) = 4 /\ DOMAIN j = 1..4 /\ j[1] = "contents" /\ j[2] = "0xce"
          /\ j[3] = "contents" /\ j[3 + 1] = EndOf(f)
      BY <3>1, <3>4
    <3> QED BY <3>3, <3>5
  <2> HIDE DEF bytes, g
  <2> DEFINE x == ByteOf(f, 1, "contents", FALSE)
             y == ByteOf(f, 2, "0xce", FALSE)
             z == ByteOf(f, 3, "contents", FALSE)
             w == ByteOf(f, 4, EndOf(f), TRUE)
             t == << x, y, z, w >>
  <2>3. frame[1] = x /\ frame[2] = y /\ frame[3] = z /\ frame[4] = w
    <3>1. /\ (1 = Len(bytes)) = FALSE /\ (2 = Len(bytes)) = FALSE
          /\ (3 = Len(bytes)) = FALSE /\ (4 = Len(bytes)) = TRUE
      BY <2>2
    <3>2. /\ frame[1] = ByteOf(f, 1, bytes[1], 1 = Len(bytes))
          /\ frame[2] = ByteOf(f, 2, bytes[2], 2 = Len(bytes))
          /\ frame[3] = ByteOf(f, 3, bytes[3], 3 = Len(bytes))
          /\ frame[4] = ByteOf(f, 4, bytes[4], 4 = Len(bytes))
      <4>1. 1 \in DOMAIN bytes /\ 2 \in DOMAIN bytes /\ 3 \in DOMAIN bytes /\ 4 \in DOMAIN bytes
        BY <2>2
      <4> QED BY <4>1, Zenon DEF ByteOf
    <3> QED BY <2>2, <3>1, <3>2, Zenon
  <2>4. x \in Byte /\ y \in Byte /\ z \in Byte /\ w \in Byte
    <3>1. 1 \in 1..4 /\ 2 \in 1..4 /\ 3 \in 1..4 /\ 4 \in 1..4 /\ FALSE \in BOOLEAN /\ TRUE \in BOOLEAN
      OBVIOUS
    <3> QED BY <1>2, <3>1, ByteTypes, Zenon
  <2>5. DOMAIN frame = 1..4 /\ frame = [i \in 1..4 |-> frame[i]]
    BY <2>2
  <2> HIDE DEF x, y, z, w, frame
  <2>6. frame \in Seq(Byte) /\ Len(frame) = 4
    <3>1. \A i \in 1..4 : frame[i] \in Byte
      <4>1. \A i \in 1..4 : i = 1 \/ i = 2 \/ i = 3 \/ i = 4
        OBVIOUS
      <4> QED BY <2>3, <2>4, <4>1
    <3> QED BY <2>5, <3>1
  <2>7. t \in Seq(Byte) /\ Len(t) = 4 /\ t[1] = x /\ t[2] = y /\ t[3] = z /\ t[4] = w
    BY <2>4
  <2> HIDE DEF t
  <2>8. \A i \in 1..4 : frame[i] = t[i]
    <3>1. \A i \in 1..4 : i = 1 \/ i = 2 \/ i = 3 \/ i = 4
      OBVIOUS
    <3> QED BY <2>3, <2>7, <3>1
  <2>9. frame = t
    BY <2>6, <2>7, <2>8, SeqEqual
  <2> QED BY <1>1, <1>4, <2>6, <2>9 DEF t, x, y, z, w
<1> QED BY <1>3, <1>4

\* The last byte of a write is marked.
Marked(y) == [y EXCEPT !.push = TRUE]
Written(a) == [a EXCEPT ![Len(a)].push = TRUE]

\* Nothing else of the write changes.
LEMMA Pushed ==
  ASSUME NEW a \in Seq(Byte), NEW n \in Nat \ {0}, Len(a) = n
  PROVE  /\ Written(a) \in Seq(Byte) /\ Len(Written(a)) = n
         /\ \A i \in 1..(n - 1) : Written(a)[i] = a[i]
         /\ Written(a)[n] = Marked(a[n])
<1>1. DOMAIN a = 1..n /\ \A i \in 1..n : a[i] \in Byte
  OBVIOUS
<1> DEFINE e == Marked(a[n])
           b == Written(a)
<1>2. e \in Byte
  <2>1. ASSUME NEW y \in Byte PROVE Marked(y) \in Byte
    BY DEF Byte, Marked
  <2>2. n \in 1..n
    OBVIOUS
  <2> QED BY <1>1, <2>1, <2>2
<1>3. b = [a EXCEPT ![n] = e]
  BY DEF Written, Marked
<1> HIDE DEF e, b
<1>4. n \in 1..Len(a) /\ e \in Byte
  BY <1>2
<1>5. /\ [a EXCEPT ![n] = e] \in Seq(Byte) /\ Len([a EXCEPT ![n] = e]) = Len(a)
      /\ \A j \in 1..Len(a) : [a EXCEPT ![n] = e][j] = IF j = n THEN e ELSE a[j]
  BY <1>4, ExceptSeq
<1>6. /\ b \in Seq(Byte) /\ Len(b) = n
      /\ \A j \in 1..n : b[j] = IF j = n THEN e ELSE a[j]
  BY <1>3, <1>5
<1>7. n \in 1..n /\ \A i \in 1..(n - 1) : i \in 1..n /\ i # n
  OBVIOUS
<1>8. b[n] = e /\ \A i \in 1..(n - 1) : b[i] = a[i]
  BY <1>6, <1>7
<1> QED BY <1>6, <1>8 DEF e, b

\* A write of one frame.
LEMMA OneFrame ==
  ASSUME NEW f \in Frames
  PROVE  /\ Bytes(<< f >>) \in Seq(Byte)
         /\ f \notin inside =>
              /\ Len(Bytes(<< f >>)) = 2
              /\ Bytes(<< f >>)[1] = ByteOf(f, 1, "contents", FALSE)
              /\ Bytes(<< f >>)[2] = Marked(ByteOf(f, 2, EndOf(f), TRUE))
<1> DEFINE a == Frame(f)
           n == Len(a)
           b == Written(a)
<1>1. a \in Seq(Byte)
  BY FrameBytes
<1>2. Bytes(<< f >>) = b
  BY DEF Bytes, Written
<1>3. n \in Nat \ {0} /\ (f \notin inside => n = 2 /\ a[1] = ByteOf(f, 1, "contents", FALSE)
                    /\ a[2] = ByteOf(f, 2, EndOf(f), TRUE))
  <2> HIDE DEF a
  <2>1. CASE f \notin inside
    <3> DEFINE x == ByteOf(f, 1, "contents", FALSE)
               y == ByteOf(f, 2, EndOf(f), TRUE)
    <3>1. a = << x, y >>
      BY <2>1, FrameBytes DEF a
    <3> HIDE DEF x, y
    <3>2. Len(a) = 2 /\ a[1] = x /\ a[2] = y
      BY <3>1
    <3> QED BY <3>2 DEF x, y
  <2>2. CASE f \in inside
    <3> DEFINE x == ByteOf(f, 1, "contents", FALSE)
               y == ByteOf(f, 2, "0xce", FALSE)
               z == ByteOf(f, 3, "contents", FALSE)
               w == ByteOf(f, 4, EndOf(f), TRUE)
    <3>1. a = << x, y, z, w >>
      BY <2>2, FrameBytes DEF a
    <3> HIDE DEF x, y, z, w
    <3>2. Len(a) = 4
      BY <3>1
    <3> QED BY <2>2, <3>2
  <2> QED BY <2>1, <2>2
<1> HIDE DEF a, n
<1>4. /\ b \in Seq(Byte) /\ Len(b) = n
      /\ \A i \in 1..(n - 1) : b[i] = a[i]
      /\ b[n] = Marked(a[n])
  <2>1. Len(a) = n
    BY DEF n
  <2>2. a \in Seq(Byte) /\ n \in Nat \ {0}
    BY <1>1, <1>3
  <2> HIDE DEF b
  <2> QED BY <2>1, <2>2, Pushed DEF b
<1> HIDE DEF b
<1>5. ASSUME f \notin inside
      PROVE  Len(b) = 2 /\ b[1] = a[1] /\ b[2] = Marked(a[2])
  <2>1. n = 2 /\ 1 \in 1..(2 - 1)
    BY <1>3, <1>5
  <2> QED BY <1>4, <2>1
<1> QED BY <1>2, <1>3, <1>4, <1>5

\* A write of one frame of two bytes.
Single(s, f) ==
  /\ s \in Seq(Byte) /\ Len(s) = 2
  /\ s[1].frame = f /\ s[1].at = 1 /\ s[1].byte = "contents" /\ ~s[1].push
  /\ s[2].frame = f /\ s[2].byte = EndOf(f) /\ s[2].push

\* A frame that holds no 0xce is written as two bytes.
LEMMA SingleIs ==
  ASSUME NEW f \in Frames, f \notin inside
  PROVE  Single(Bytes(<< f >>), f)
<1> DEFINE s == Bytes(<< f >>)
           x == ByteOf(f, 1, "contents", FALSE)
           y == ByteOf(f, 2, EndOf(f), TRUE)
<1>1. s \in Seq(Byte) /\ Len(s) = 2 /\ s[1] = x /\ s[2] = Marked(y)
  BY OneFrame
<1>2. x.frame = f /\ x.at = 1 /\ x.byte = "contents" /\ ~x.push
  BY DEF ByteOf
<1>3. Marked(y).frame = f /\ Marked(y).byte = EndOf(f) /\ Marked(y).push
  BY DEF ByteOf, Marked
<1> HIDE DEF s, x, y
<1>4. Single(s, f)
  BY <1>1, <1>2, <1>3, Zenon DEF Single
<1> QED BY <1>4 DEF s

\* What marking the last byte of a write leaves alone.
LEMMA MarkedIs ==
  ASSUME NEW y \in Byte
  PROVE  /\ Marked(y).frame = y.frame /\ Marked(y).byte = y.byte /\ Marked(y).at = y.at
         /\ Marked(y).end = y.end /\ Marked(y).push
  BY DEF Byte, Marked

\* The bytes of a publish before any is marked: every second one is a 0xce.
Evens == {2, 4, 6, 8, 10, 12, 14}
Flow(s, n) ==
  /\ s \in Seq(Byte) /\ Len(s) = n
  /\ \A i \in 1..n : s[i].byte = IF i \in Evens THEN "0xce" ELSE "contents"
  /\ \A i \in 1..n : ~s[i].push /\ s[i].frame \in PublishFrames

\* One frame of it.
Piece(s, f, n) ==
  /\ Flow(s, n) /\ s[1].at = 1 /\ s[n].end
  /\ \A i \in 1..n : s[i].frame = f

\* A frame has two bytes, or four with a 0xce inside.
LEMMA PieceIs ==
  ASSUME NEW f \in PublishFrames
  PROVE  Piece(Frame(f), f, IF f \in inside THEN 4 ELSE 2)
<1>1. f \in Frames /\ EndOf(f) = "0xce" /\ Frame(f) \in Seq(Byte)
  <2>1. f \in Frames /\ EndOf(f) = "0xce"
    BY DEF PublishFrames, Frames, EndOf
  <2> QED BY <2>1, FrameBytes
<1>2. /\ f \notin inside =>
           Frame(f) = << ByteOf(f, 1, "contents", FALSE), ByteOf(f, 2, "0xce", TRUE) >>
      /\ f \in inside =>
           Frame(f) = << ByteOf(f, 1, "contents", FALSE), ByteOf(f, 2, "0xce", FALSE),
                         ByteOf(f, 3, "contents", FALSE), ByteOf(f, 4, "0xce", TRUE) >>
  BY <1>1, FrameBytes
<1> DEFINE s == Frame(f)
<1>3. CASE f \notin inside
  <2> DEFINE x == ByteOf(f, 1, "contents", FALSE)
             y == ByteOf(f, 2, "0xce", TRUE)
  <2>1. s = << x, y >>
    BY <1>2, <1>3
  <2>2. /\ x.frame = f /\ x.byte = "contents" /\ ~x.push /\ x.at = 1
        /\ y.frame = f /\ y.byte = "0xce" /\ ~y.push /\ y.end
    BY Zenon DEF ByteOf
  <2> HIDE DEF s, x, y
  <2>3. Len(s) = 2 /\ s[1] = x /\ s[2] = y
    BY <2>1
  <2>4. \A i \in 1..2 : i = 1 \/ i = 2
    OBVIOUS
  <2>5. \A i \in 1..2 : s[i].frame = f /\ ~s[i].push
    BY <2>2, <2>3, <2>4, Zenon
  <2>6. \A i \in 1..2 : s[i].byte = IF i \in Evens THEN "0xce" ELSE "contents"
    BY <2>2, <2>3, <2>4 DEF Evens
  <2>7. s \in Seq(Byte) /\ s[1].at = 1 /\ s[2].end
    BY <1>1, <2>2, <2>3 DEF s
  <2>8. Piece(s, f, 2)
    BY <2>3, <2>5, <2>6, <2>7, Zenon DEF Piece, Flow
  <2> QED BY <1>3, <2>8, Zenon DEF s
<1>4. CASE f \in inside
  <2> DEFINE x == ByteOf(f, 1, "contents", FALSE)
             y == ByteOf(f, 2, "0xce", FALSE)
             z == ByteOf(f, 3, "contents", FALSE)
             w == ByteOf(f, 4, "0xce", TRUE)
  <2>1. s = << x, y, z, w >>
    BY <1>2, <1>4
  <2>2. /\ x.frame = f /\ x.byte = "contents" /\ ~x.push /\ x.at = 1
        /\ y.frame = f /\ y.byte = "0xce" /\ ~y.push
        /\ z.frame = f /\ z.byte = "contents" /\ ~z.push
        /\ w.frame = f /\ w.byte = "0xce" /\ ~w.push /\ w.end
    BY Zenon DEF ByteOf
  <2> HIDE DEF s, x, y, z, w
  <2>3. Len(s) = 4 /\ s[1] = x /\ s[2] = y /\ s[3] = z /\ s[4] = w
    BY <2>1
  <2>4. \A i \in 1..4 : i = 1 \/ i = 2 \/ i = 3 \/ i = 4
    OBVIOUS
  <2>5. \A i \in 1..4 : s[i].frame = f /\ ~s[i].push
    BY <2>2, <2>3, <2>4, Zenon
  <2>6. \A i \in 1..4 : s[i].byte = IF i \in Evens THEN "0xce" ELSE "contents"
    BY <2>2, <2>3, <2>4 DEF Evens
  <2>7. s \in Seq(Byte) /\ s[1].at = 1 /\ s[4].end
    BY <1>1, <2>2, <2>3 DEF s
  <2>8. Piece(s, f, 4)
    BY <2>3, <2>5, <2>6, <2>7, Zenon DEF Piece, Flow
  <2> QED BY <1>4, <2>8, Zenon DEF s
<1> QED BY <1>3, <1>4

\* A frame more.
WithFrame(c, a, b, n, k) ==
  /\ Flow(c, n + k)
  /\ \A i \in 1..n : c[i] = a[i]
  /\ \A i \in 1..k : c[n + i] = b[i]

LEMMA Longer ==
  ASSUME NEW a, NEW b, NEW n \in {2, 4, 6, 8}, NEW k \in {2, 4}, Flow(a, n), Flow(b, k)
  PROVE  WithFrame(a \o b, a, b, n, k)
<1> DEFINE c == a \o b
<1>1. a \in Seq(Byte) /\ b \in Seq(Byte) /\ Len(a) = n /\ Len(b) = k
  BY DEF Flow
<1>2. /\ c \in Seq(Byte) /\ Len(c) = n + k
      /\ \A i \in 1..n : c[i] = a[i]
      /\ \A i \in 1..k : c[n + i] = b[i]
  BY <1>1, ConcatParts
<1> HIDE DEF c
<1>3. \A i \in 1..(n + k) : i \in 1..n \/ (i - n \in 1..k /\ n + (i - n) = i)
  OBVIOUS
<1>4. \A i \in 1..(n + k) : c[i].byte = IF i \in Evens THEN "0xce" ELSE "contents"
  <2> SUFFICES ASSUME NEW i \in 1..(n + k)
               PROVE  c[i].byte = IF i \in Evens THEN "0xce" ELSE "contents"
    OBVIOUS
  <2>1. CASE i \in 1..n
    BY <1>2, <2>1 DEF Flow
  <2>2. CASE i - n \in 1..k /\ n + (i - n) = i
    <3>1. c[i] = b[i - n]
      BY <1>2, <2>2
    <3>2. b[i - n].byte = IF i - n \in Evens THEN "0xce" ELSE "contents"
      BY <2>2 DEF Flow
    <3>3. i - n \in Evens <=> i \in Evens
      BY <2>2 DEF Evens
    <3> QED BY <3>1, <3>2, <3>3
  <2> QED BY <1>3, <2>1, <2>2
<1>5. \A i \in 1..(n + k) : ~c[i].push /\ c[i].frame \in PublishFrames
  <2> SUFFICES ASSUME NEW i \in 1..(n + k) PROVE ~c[i].push /\ c[i].frame \in PublishFrames
    OBVIOUS
  <2>1. CASE i \in 1..n
    BY <1>2, <2>1, Zenon DEF Flow
  <2>2. CASE i - n \in 1..k /\ n + (i - n) = i
    <3>1. c[i] = b[i - n]
      BY <1>2, <2>2
    <3> QED BY <2>2, <3>1, Zenon DEF Flow
  <2> QED BY <1>3, <2>1, <2>2
<1>6. Flow(c, n + k)
  BY <1>2, <1>4, <1>5, Zenon DEF Flow
<1> QED BY <1>2, <1>6 DEF c, WithFrame

\* What a publish is: every second byte is a 0xce, only the last is pushed, and the
\* fifth starts the message unless a 0xce came inside the two frames before it.
PublicationIs(s, m) ==
  /\ s \in Seq(Byte) /\ Len(s) = m
  /\ \A i \in 1..m : s[i].byte = IF i \in Evens THEN "0xce" ELSE "contents"
  /\ \A i \in 1..m : s[i].frame \in PublishFrames
  /\ \A i \in 1..(m - 1) : ~s[i].push
  /\ s[m].push /\ s[m].end /\ s[m].frame = "Content.Body"
  /\ s[1].frame = "Basic.Publish" /\ s[1].at = 1
  /\ IF inside \subseteq {"Content.Body"} THEN s[5].frame = "Content.Body" /\ s[5].at = 1
                                          ELSE s[5].frame = "Content.Header"

\* The three frames of a publish have six bytes, and two more for each 0xce inside one.
LEMMA PublicationBytes ==
  ASSUME inside \subseteq PublishFrames
  PROVE  \E m \in {6, 8, 10, 12} : PublicationIs(Publication, m) /\ (inside = {} => m = 6)
<1> DEFINE F == "Basic.Publish"
           G == "Content.Header"
           H == "Content.Body"
           p == Frame(F)
           q == Frame(G)
           r == Frame(H)
           u == p \o q
           w == u \o r
           s == Written(w)
           i1 == IF F \in inside THEN 4 ELSE 2
           i2 == IF G \in inside THEN 4 ELSE 2
           i3 == IF H \in inside THEN 4 ELSE 2
           n == i1 + i2
           m == n + i3
<1>1. Publication = s
  <2> DEFINE fs == << F, G, H >>
  <2>1. Len(fs) = 3 /\ fs[1] = F /\ fs[2] = G /\ fs[3] = H
    OBVIOUS
  <2>2. Publication = Bytes(fs)
    BY DEF Publication
  <2> HIDE DEF fs
  <2>3. Bytes(fs) = Written((Frame(fs[1]) \o Frame(fs[2])) \o Frame(fs[3]))
    BY <2>1 DEF Bytes, Written
  <2> QED BY <2>1, <2>2, <2>3
<1>2. Piece(p, F, i1) /\ Piece(q, G, i2) /\ Piece(r, H, i3)
  <2>1. F \in PublishFrames /\ G \in PublishFrames /\ H \in PublishFrames
    BY DEF PublishFrames
  <2> QED BY <2>1, PieceIs, Zenon
<1>3. /\ i1 \in {2, 4} /\ i2 \in {2, 4} /\ i3 \in {2, 4} /\ n \in {4, 6, 8} /\ m \in {6, 8, 10, 12}
      /\ inside = {} => m = 6
  OBVIOUS
<1>4. IF inside \subseteq {H} THEN i1 = 2 /\ i2 = 2 ELSE i1 = 4 \/ i2 = 4
  BY DEF PublishFrames
<1> HIDE DEF p, q, r, i1, i2, i3
<1>5. /\ Flow(p, i1) /\ p[1].at = 1 /\ \A i \in 1..i1 : p[i].frame = F
      /\ Flow(q, i2) /\ \A i \in 1..i2 : q[i].frame = G
      /\ Flow(r, i3) /\ r[1].at = 1 /\ r[i3].end /\ \A i \in 1..i3 : r[i].frame = H
  BY <1>2, Zenon DEF Piece
<1>6. /\ Flow(u, n)
      /\ \A i \in 1..i1 : u[i] = p[i]
      /\ \A i \in 1..i2 : u[i1 + i] = q[i]
  <2>1. i1 \in {2, 4, 6, 8} /\ i2 \in {2, 4}
    BY <1>3
  <2>2. Flow(p, i1) /\ Flow(q, i2)
    BY <1>5
  <2>3. WithFrame(u, p, q, i1, i2)
    BY <2>1, <2>2, Longer
  <2> QED BY <2>3 DEF WithFrame
<1> HIDE DEF u, n
<1>7. /\ Flow(w, m)
      /\ \A i \in 1..n : w[i] = u[i]
      /\ \A i \in 1..i3 : w[n + i] = r[i]
  <2>1. n \in {2, 4, 6, 8} /\ i3 \in {2, 4}
    BY <1>3
  <2>2. Flow(u, n) /\ Flow(r, i3)
    BY <1>5, <1>6
  <2>3. WithFrame(w, u, r, n, i3)
    BY <2>1, <2>2, Longer
  <2> QED BY <2>3 DEF WithFrame
<1> HIDE DEF w
<1>8. w[1] = p[1] /\ w[m] = r[i3]
  <2>1. 1 \in 1..i1 /\ 1 \in 1..n /\ i3 \in 1..i3 /\ n + i3 = m
    BY <1>3
  <2> QED BY <1>6, <1>7, <2>1
<1>9. IF inside \subseteq {H} THEN w[5].frame = H /\ w[5].at = 1 ELSE w[5].frame = G
  <2>1. CASE inside \subseteq {H}
    <3>1. n + 1 = 5 /\ 1 \in 1..i3
      BY <1>3, <1>4, <2>1 DEF n
    <3>2. w[5] = r[1]
      BY <1>7, <3>1
    <3>3. r[1].frame = H /\ r[1].at = 1
      BY <1>5, <3>1
    <3> QED BY <2>1, <3>2, <3>3
  <2>2. CASE ~(inside \subseteq {H})
    <3>1. 5 \in 1..n
      BY <1>3, <1>4, <2>2 DEF n
    <3>2. w[5] = u[5]
      BY <1>7, <3>1
    <3>3. PICK j \in 1..i2 : u[5] = q[j]
      <4>1. CASE i1 = 4
        <5>1. 1 \in 1..i2 /\ i1 + 1 = 5
          BY <1>3, <4>1
        <5> QED BY <1>6, <5>1
      <4>2. CASE i1 = 2
        <5>1. 3 \in 1..i2 /\ i1 + 3 = 5
          BY <1>4, <2>2, <4>2
        <5> QED BY <1>6, <5>1
      <4> QED BY <1>3, <4>1, <4>2
    <3> QED BY <1>5, <2>2, <3>2, <3>3, Zenon
  <2> QED BY <2>1, <2>2
<1>10. m \in Nat \ {0} /\ 1 \in 1..(m - 1) /\ 5 \in 1..(m - 1) /\ m \in 1..m
  BY <1>3
<1>11. w \in Seq(Byte) /\ Len(w) = m
  BY <1>7 DEF Flow
<1> HIDE DEF m
<1>12. s \in Seq(Byte) /\ Len(s) = m /\ (\A i \in 1..(m - 1) : s[i] = w[i]) /\ s[m] = Marked(w[m])
  BY <1>10, <1>11, Pushed
<1> HIDE DEF s
<1>13. /\ s[m].frame = w[m].frame /\ s[m].byte = w[m].byte /\ s[m].at = w[m].at
       /\ s[m].end = w[m].end /\ s[m].push
  <2>1. w[m] \in Byte
    BY <1>10, <1>11
  <2> QED BY <1>12, <2>1, MarkedIs
<1>14. \A i \in 1..m : i \in 1..(m - 1) \/ i = m
  BY <1>10
<1>15. \A i \in 1..m : s[i].byte = w[i].byte /\ s[i].frame = w[i].frame
  BY <1>12, <1>13, <1>14, Zenon
<1>16. \A i \in 1..m : s[i].byte = IF i \in Evens THEN "0xce" ELSE "contents"
  BY <1>7, <1>15 DEF Flow
<1>17. \A i \in 1..m : s[i].frame \in PublishFrames
  BY <1>7, <1>15, Zenon DEF Flow
<1>18. \A i \in 1..(m - 1) : ~s[i].push
  <2>1. \A i \in 1..(m - 1) : i \in 1..m
    BY <1>10
  <2> QED BY <1>7, <1>12, <2>1, Zenon DEF Flow
<1>19. s[m].push /\ s[m].end /\ s[m].frame = H
  <2>1. i3 \in 1..i3
    BY <1>3
  <2> QED BY <1>5, <1>8, <1>13, <2>1, Zenon
<1>20. s[1].frame = F /\ s[1].at = 1
  <2>1. 1 \in 1..i1
    BY <1>3
  <2>2. p[1].frame = F /\ p[1].at = 1
    BY <1>5, <2>1
  <2>3. s[1] = p[1]
    BY <1>8, <1>10, <1>12
  <2> QED BY <2>2, <2>3
<1>21. IF inside \subseteq {H} THEN s[5].frame = H /\ s[5].at = 1 ELSE s[5].frame = G
  <2>1. s[5] = w[5]
    BY <1>10, <1>12
  <2> QED BY <1>9, <2>1, Zenon
<1>22. PublicationIs(s, m)
  BY <1>12, <1>16, <1>17, <1>18, <1>19, <1>20, <1>21, Zenon DEF PublicationIs
<1>23. m \in {6, 8, 10, 12} /\ (inside = {} => m = 6)
  BY <1>3 DEF m
<1> QED BY <1>1, <1>22, <1>23

\* What do_RCVD_BASIC_PUBLISH reads: a publish, with or without the close after it.
PublishRead(b, n) ==
  /\ b \in Seq(Byte) /\ Len(b) = n /\ n \in {6, 8, 10, 12, 14}
  /\ \A i \in 1..n : b[i].byte = IF i \in Evens THEN "0xce" ELSE "contents"
  /\ b[1].frame = "Basic.Publish" /\ b[1].at = 1
  /\ IF inside \subseteq {"Content.Body"} THEN b[5].frame = "Content.Body" /\ b[5].at = 1
                                          ELSE b[5].frame = "Content.Header"
  /\ \E i \in 5..n : b[i].frame = "Content.Body" /\ b[i].end

\* How many there are of the first positions of ends.
LEMMA Cards ==
  /\ Cardinality({2}) = 1 /\ Cardinality({2, 4}) = 2 /\ Cardinality({2, 4, 6}) = 3
  /\ Cardinality({2, 4, 6, 8}) = 4 /\ Cardinality({2, 4, 6, 8, 10}) = 5
  /\ Cardinality({2, 4, 6, 8, 10, 12}) = 6 /\ Cardinality({2, 4, 6, 8, 10, 12, 14}) = 7
<1>1. IsFiniteSet({2}) /\ Cardinality({2}) = 1
  BY FS_Singleton
<1>2. IsFiniteSet({2, 4}) /\ Cardinality({2, 4}) = 2
  <2>1. {2, 4} = {2} \union {4} /\ 4 \notin {2}
    OBVIOUS
  <2> QED BY <1>1, <2>1, FS_AddElement
<1>3. IsFiniteSet({2, 4, 6}) /\ Cardinality({2, 4, 6}) = 3
  <2>1. {2, 4, 6} = {2, 4} \union {6} /\ 6 \notin {2, 4}
    OBVIOUS
  <2> QED BY <1>2, <2>1, FS_AddElement
<1>4. IsFiniteSet({2, 4, 6, 8}) /\ Cardinality({2, 4, 6, 8}) = 4
  <2>1. {2, 4, 6, 8} = {2, 4, 6} \union {8} /\ 8 \notin {2, 4, 6}
    OBVIOUS
  <2> QED BY <1>3, <2>1, FS_AddElement
<1>5. IsFiniteSet({2, 4, 6, 8, 10}) /\ Cardinality({2, 4, 6, 8, 10}) = 5
  <2>1. {2, 4, 6, 8, 10} = {2, 4, 6, 8} \union {10} /\ 10 \notin {2, 4, 6, 8}
    OBVIOUS
  <2> QED BY <1>4, <2>1, FS_AddElement
<1>6. IsFiniteSet({2, 4, 6, 8, 10, 12}) /\ Cardinality({2, 4, 6, 8, 10, 12}) = 6
  <2>1. {2, 4, 6, 8, 10, 12} = {2, 4, 6, 8, 10} \union {12} /\ 12 \notin {2, 4, 6, 8, 10}
    OBVIOUS
  <2> QED BY <1>5, <2>1, FS_AddElement
<1>7. Cardinality({2, 4, 6, 8, 10, 12, 14}) = 7
  <2>1. /\ {2, 4, 6, 8, 10, 12, 14} = {2, 4, 6, 8, 10, 12} \union {14}
        /\ 14 \notin {2, 4, 6, 8, 10, 12}
    OBVIOUS
  <2> QED BY <1>6, <2>1, FS_AddElement
<1> QED BY <1>1, <1>2, <1>3, <1>4, <1>5, <1>6, <1>7

\* From such bytes the message is taken, or something else; half of them are counted.
LEMMA PublishTaken ==
  ASSUME NEW b, NEW n, PublishRead(b, n)
  PROVE  /\ Extracted(b) = MessageTaken
         /\ n = 6 => Count(b) = 3
         /\ n = 8 => Count(b) = 4
         /\ Count(b) \in 3..7
<1> DEFINE E == Ends(b)
           Upto(i) == {j \in E : j <= i}
<1>1. n \in {6, 8, 10, 12, 14} /\ DOMAIN b = 1..n
  BY DEF PublishRead
<1>2. E = {i \in 1..n : i \in Evens}
  BY <1>1 DEF PublishRead, Ends
<1>3. /\ n = 6 => E = {2, 4, 6}
      /\ n = 8 => E = {2, 4, 6, 8}
      /\ n = 10 => E = {2, 4, 6, 8, 10}
      /\ n = 12 => E = {2, 4, 6, 8, 10, 12}
      /\ n = 14 => E = {2, 4, 6, 8, 10, 12, 14}
  BY <1>2 DEF Evens
<1>4. /\ Count(b) = Cardinality(E)
      /\ n = 6 => Count(b) = 3
      /\ n = 8 => Count(b) = 4
      /\ Count(b) \in 3..7
  <2>1. Count(b) = Cardinality(E)
    BY DEF Count
  <2> HIDE DEF E
  <2>2. /\ n = 6 => Cardinality(E) = 3
        /\ n = 8 => Cardinality(E) = 4
        /\ n = 10 => Cardinality(E) = 5
        /\ n = 12 => Cardinality(E) = 6
        /\ n = 14 => Cardinality(E) = 7
    BY <1>3, Cards
  <2> QED BY <1>1, <2>1, <2>2
<1>5. /\ 4 \in E /\ E \subseteq {2, 4, 6, 8, 10, 12, 14}
      /\ Upto(2) = {2} /\ Upto(4) = {2, 4}
  BY <1>1, <1>2 DEF Evens
<1> HIDE DEF E
<1>6. (CHOOSE i \in E : Cardinality(Upto(i)) = Skipped) = 4
  <2>1. /\ 6 \in E => Upto(6) = {2, 4, 6}
        /\ 8 \in E => Upto(8) = {2, 4, 6, 8}
        /\ 10 \in E => Upto(10) = {2, 4, 6, 8, 10}
        /\ 12 \in E => Upto(12) = {2, 4, 6, 8, 10, 12}
        /\ 14 \in E => Upto(14) = {2, 4, 6, 8, 10, 12, 14}
    BY <1>1, <1>3
  <2> HIDE DEF Upto
  <2>2. \A i \in E : Cardinality(Upto(i)) = Skipped <=> i = 4
    BY <1>5, <2>1, Cards DEF Skipped
  <2> QED BY <1>5, <2>2
<1>7. Extracted(b) = MessageTaken
  <2> DEFINE second == CHOOSE i \in Ends(b) : Cardinality({j \in Ends(b) : j <= i}) = Skipped
             k == IF Count(b) < Skipped THEN Len(b) + 1 ELSE 1 + second
             body == {i \in DOMAIN b : i >= k /\ b[i].frame = "Content.Body"}
  <2>1. k = 5
    <3>1. ~(Count(b) < Skipped)
      BY <1>4 DEF Skipped
    <3>2. second = 4
      BY <1>6, Zenon DEF E
    <3> HIDE DEF second
    <3> QED BY <3>1, <3>2
  <2>2. Extracted(b) = IF k \in body /\ b[k].at = 1 /\ \E i \in body : b[i].end
                       THEN Length(size) ELSE Garbage
    BY DEF Extracted
  <2> HIDE DEF k
  <2>3. CASE inside \subseteq {"Content.Body"}
    <3>1. 5 \in body /\ b[5].at = 1
      BY <1>1, <2>1, <2>3 DEF PublishRead
    <3>2. PICK i \in 5..n : b[i].frame = "Content.Body" /\ b[i].end
      BY DEF PublishRead
    <3>3. i \in body /\ b[i].end
      BY <1>1, <2>1, <3>2
    <3> HIDE DEF body
    <3> QED BY <2>1, <2>2, <2>3, <3>1, <3>3, Zenon DEF MessageTaken
  <2>4. CASE ~(inside \subseteq {"Content.Body"})
    <3>1. 5 \notin body
      BY <2>4 DEF PublishRead
    <3> HIDE DEF body
    <3> QED BY <2>1, <2>2, <2>4, <3>1, Zenon DEF MessageTaken
  <2> QED BY <2>3, <2>4
<1> QED BY <1>4, <1>7

\* What the client writes for a publish, and for the close, are such bytes.
LEMMA PublicationRead ==
  ASSUME inside \subseteq PublishFrames
  PROVE  /\ \E m \in {6, 8, 10, 12} :
              /\ PublishRead(Publication, m) /\ PublishRead(Publication \o ChannelClose, m + 2)
              /\ inside = {} => m = 6
         /\ Publication \in Seq(Byte) /\ ChannelClose \in Seq(Byte)
         /\ \A i \in 1..Len(Publication) : Publication[i].frame # "Channel.Close"
         /\ (Publication \o ChannelClose)[Len(Publication) + 1].frame = "Channel.Close"
         /\ Len(Publication) \in Nat /\ Len(Publication \o ChannelClose) = Len(Publication) + 2
<1> DEFINE c == ChannelClose
           p == Publication
           b == p \o c
<1>1. Single(c, "Channel.Close")
  <2>1. "Channel.Close" \in Frames /\ "Channel.Close" \notin inside
    BY DEF Frames, PublishFrames
  <2> QED BY <2>1, SingleIs DEF ChannelClose
<1>2. PICK m \in {6, 8, 10, 12} : PublicationIs(p, m) /\ (inside = {} => m = 6)
  BY PublicationBytes
<1>3. p \in Seq(Byte) /\ c \in Seq(Byte) /\ Len(p) = m /\ Len(c) = 2
  BY <1>1, <1>2 DEF Single, PublicationIs
<1> HIDE DEF c, p
<1>4. /\ b \in Seq(Byte) /\ Len(b) = Len(p) + Len(c)
      /\ \A k \in 1..Len(p) : b[k] = p[k]
      /\ \A k \in 1..Len(c) : b[Len(p) + k] = c[k]
  <2>1. p \in Seq(Byte) /\ c \in Seq(Byte)
    BY <1>3
  <2> QED BY <2>1, ConcatParts
<1> HIDE DEF b
<1>5. Len(b) = m + 2 /\ (\A k \in 1..m : b[k] = p[k]) /\ b[m + 1] = c[1] /\ b[m + 2] = c[2]
  <2>1. 1 \in 1..2 /\ 2 \in 1..2
    OBVIOUS
  <2> QED BY <1>3, <1>4, <2>1
<1>6. /\ \A i \in 1..m : p[i].byte = IF i \in Evens THEN "0xce" ELSE "contents"
      /\ \A i \in 1..m : p[i].frame \in PublishFrames
      /\ p[m].end /\ p[m].frame = "Content.Body" /\ p[1].frame = "Basic.Publish" /\ p[1].at = 1
      /\ IF inside \subseteq {"Content.Body"} THEN p[5].frame = "Content.Body" /\ p[5].at = 1
                                              ELSE p[5].frame = "Content.Header"
  BY <1>2, Zenon DEF PublicationIs
<1>7. /\ c[1].frame = "Channel.Close" /\ c[1].byte = "contents" /\ c[2].byte = "0xce"
  BY <1>1 DEF Single, EndOf
<1>8. PublishRead(p, m)
  <2>1. m \in {6, 8, 10, 12, 14} /\ m \in 5..m
    OBVIOUS
  <2> QED BY <1>3, <1>6, <2>1, Zenon DEF PublishRead
<1>9. PublishRead(b, m + 2)
  <2>1. m + 2 \in {6, 8, 10, 12, 14} /\ m \in 5..(m + 2) /\ m \in 1..m /\ 1 \in 1..m /\ 5 \in 1..m
    OBVIOUS
  <2>2. \A i \in 1..(m + 2) : b[i].byte = IF i \in Evens THEN "0xce" ELSE "contents"
    <3>1. \A i \in 1..(m + 2) : i \in 1..m \/ i = m + 1 \/ i = m + 2
      OBVIOUS
    <3>2. m + 1 \notin Evens /\ m + 2 \in Evens
      BY DEF Evens
    <3>3. \A i \in 1..m : b[i].byte = IF i \in Evens THEN "0xce" ELSE "contents"
      BY <1>5, <1>6
    <3> QED BY <1>5, <1>7, <3>1, <3>2, <3>3
  <2>3. b[1] = p[1] /\ b[5] = p[5] /\ b[m] = p[m]
    BY <1>5, <2>1
  <2> QED BY <1>4, <1>5, <1>6, <2>1, <2>2, <2>3, Zenon DEF PublishRead
<1>10. \A i \in 1..m : p[i].frame # "Channel.Close"
  BY <1>6 DEF PublishFrames
<1>11. m \in Nat
  OBVIOUS
<1>12. b[m + 1].frame = "Channel.Close"
  BY <1>5, <1>7
<1> QED BY <1>2, <1>3, <1>5, <1>8, <1>9, <1>10, <1>11, <1>12 DEF b, p, c

-----------------------------------------------------------------------------
\* The table, the script's steps and the answers.

\* The entries of the table that the functions' codes select.
LEMMA GotoIs ==
  /\ Goto("WAIT_HEADER", 0) = "RCVD_HEADER"
  /\ Goto("RCVD_HEADER", 0) = "WAIT_START_OK"
  /\ Goto("WAIT_START_OK", 0) = "RCVD_START_OK"
  /\ Goto("RCVD_START_OK", 0) = "WAIT_TUNE_OK"
  /\ Goto("WAIT_TUNE_OK", 0) = "WAIT_CONNECTION_OPEN"
  /\ Goto("WAIT_TUNE_OK", 1) = "RCVD_CONNECTION_OPEN"
  /\ Goto("WAIT_CONNECTION_OPEN", 0) = "RCVD_CONNECTION_OPEN"
  /\ Goto("RCVD_CONNECTION_OPEN", 0) = "WAIT_CHANNEL_OPEN"
  /\ Goto("WAIT_CHANNEL_OPEN", 0) = "RCVD_CHANNEL_OPEN"
  /\ Goto("RCVD_CHANNEL_OPEN", 0) = "WAIT_COMMAND"
  /\ Goto("WAIT_COMMAND", 0) = "RCVD_QUEUE_DECLARE"
  /\ Goto("WAIT_COMMAND", 1) = "RCVD_BASIC_PUBLISH"
  /\ Goto("WAIT_COMMAND", 2) = "RCVD_BASIC_CONSUME"
  /\ Goto("RCVD_QUEUE_DECLARE", 0) = "WAIT_CHANNEL_CLOSE"
  /\ Goto("RCVD_BASIC_PUBLISH", 0) = "WAIT_CHANNEL_CLOSE"
  /\ Goto("RCVD_BASIC_PUBLISH", 1) = "RCVD_CONNECTION_CLOSE"
  /\ Goto("RCVD_BASIC_CONSUME", 0) = "SUBSCRIBED"
  /\ Goto("SUBSCRIBED", 0) = "CLIENT_TURN"
  /\ Goto("CLIENT_TURN", 0) = "WAIT_BASIC_ACK"
  /\ Goto("CLIENT_TURN", 1) = "SUBSCRIBED"
  /\ Goto("WAIT_BASIC_ACK", 0) = "SUBSCRIBED"
  /\ Goto("WAIT_CHANNEL_CLOSE", 0) = "RCVD_CHANNEL_CLOSE"
  /\ Goto("RCVD_CHANNEL_CLOSE", 0) = "WAIT_CONNECTION_CLOSE"
  /\ Goto("WAIT_CONNECTION_CLOSE", 0) = "RCVD_CONNECTION_CLOSE"
  /\ Goto("RCVD_CONNECTION_CLOSE", 0) = "FINAL"
BY DEF Goto, transitions, Row1, Zero

\* The client's script, step by step.
LEMMA Steps ==
  ASSUME Commanded
  PROVE  /\ Step(1) = Write(<< "Protocol.Header" >>) /\ Step(2) = Await("Connection.Start")
         /\ Step(3) = Write(<< "Connection.Start-Ok" >>) /\ Step(4) = Await("Connection.Tune")
         /\ Step(5) = Write(<< "Connection.Tune-Ok" >>) /\ Step(6) = Write(<< "Connection.Open" >>)
         /\ Step(7) = Await("Connection.Open-Ok") /\ Step(8) = Write(<< "Channel.Open" >>)
         /\ Step(9) = Await("Channel.Open-Ok")
         /\ command = "declare" =>
              /\ Step(10) = Write(<< "Queue.Declare" >>) /\ Step(11) = Await("Queue.Declare-Ok")
              /\ Step(12) = Write(<< "Channel.Close" >>) /\ Step(13) = Await("Channel.Close-Ok")
              /\ Step(14) = Write(<< "Connection.Close" >>) /\ Step(15) = Await("Connection.Close-Ok")
              /\ Ending = 15
         /\ command = "publish" =>
              /\ Step(10) = Write(Publishing)
              /\ Step(11) = Write(<< "Channel.Close" >>) /\ Step(12) = Await("Channel.Close-Ok")
              /\ Step(13) = Write(<< "Connection.Close" >>) /\ Step(14) = Await("Connection.Close-Ok")
              /\ Ending = 14
         /\ command = "consume" =>
              /\ Step(10) = Write(<< "Basic.Consume" >>) /\ Step(11) = Await("Basic.Consume-Ok")
              /\ \A n \in Nat : n >= 5 /\ n < 5 + MaxDeliveries =>
                   /\ 2 * n + 2 \in 12..Ending /\ Step(2 * n + 2) = Await("Basic.Deliver")
                   /\ 2 * n + 3 \in 12..Ending /\ Step(2 * n + 3) = Write(<< "Basic.Ack" >>)
              /\ Ending = 11 + 2 * MaxDeliveries
         /\ DOMAIN Script(command) = 1..Ending
<1>1. /\ 1 \in 1..9 /\ 2 \in 1..9 /\ 3 \in 1..9 /\ 4 \in 1..9 /\ 5 \in 1..9 /\ 6 \in 1..9
      /\ 7 \in 1..9 /\ 8 \in 1..9 /\ 9 \in 1..9
      /\ 1 \in 1..4 /\ 2 \in 1..4 /\ 3 \in 1..4 /\ 4 \in 1..4
      /\ 10 + 1 = 11 /\ 10 + 2 = 12 /\ 10 + 3 = 13 /\ 10 + 4 = 14
      /\ 11 + 1 = 12 /\ 11 + 2 = 13 /\ 11 + 3 = 14 /\ 11 + 4 = 15
  OBVIOUS
<1>2. /\ Step(1) = Opening[1] /\ Step(2) = Opening[2] /\ Step(3) = Opening[3]
      /\ Step(4) = Opening[4] /\ Step(5) = Opening[5] /\ Step(6) = Opening[6]
      /\ Step(7) = Opening[7] /\ Step(8) = Opening[8] /\ Step(9) = Opening[9]
  BY <1>1, ScriptIs
<1>3. ASSUME command = "declare"
      PROVE  /\ Step(10) = Write(<< "Queue.Declare" >>) /\ Step(11) = Await("Queue.Declare-Ok")
             /\ Step(12) = Closing[1] /\ Step(13) = Closing[2]
             /\ Step(14) = Closing[3] /\ Step(15) = Closing[4]
             /\ Ending = 15
  BY <1>1, <1>3, ScriptIs DEF Ending
<1>4. ASSUME command = "publish"
      PROVE  /\ Step(10) = Write(Publishing)
             /\ Step(11) = Closing[1] /\ Step(12) = Closing[2]
             /\ Step(13) = Closing[3] /\ Step(14) = Closing[4]
             /\ Ending = 14
  BY <1>1, <1>4, ScriptIs DEF Ending
<1>5. ASSUME command = "consume"
      PROVE  /\ Step(10) = Write(<< "Basic.Consume" >>) /\ Step(11) = Await("Basic.Consume-Ok")
             /\ \A k \in 1..(2 * MaxDeliveries) : Step(11 + k) = Receiving[k]
             /\ Ending = 11 + 2 * MaxDeliveries
  BY <1>5, ScriptIs DEF Ending
<1>6. ASSUME command = "consume", NEW n \in Nat, n >= 5, n < 5 + MaxDeliveries
      PROVE  /\ 2 * n + 2 \in 12..Ending /\ Step(2 * n + 2) = Await("Basic.Deliver")
             /\ 2 * n + 3 \in 12..Ending /\ Step(2 * n + 3) = Write(<< "Basic.Ack" >>)
  <2>1. MaxDeliveries \in Nat
    BY ConnectionAssumption
  <2> DEFINE k == 2 * n - 9
             j == 2 * n - 8
  <2>2. k \in 1..(2 * MaxDeliveries) /\ k % 2 = 1 /\ 11 + k = 2 * n + 2
    BY <1>6, <2>1
  <2>3. j \in 1..(2 * MaxDeliveries) /\ j % 2 = 0 /\ 11 + j = 2 * n + 3
    BY <1>6, <2>1
  <2> HIDE DEF k, j
  <2>4. Receiving[k] = Await("Basic.Deliver") /\ Receiving[j] = Write(<< "Basic.Ack" >>)
    BY <2>2, <2>3, ReceivingIs
  <2>5. Step(11 + k) = Await("Basic.Deliver") /\ Step(11 + j) = Write(<< "Basic.Ack" >>)
    BY <1>5, <1>6, <2>2, <2>3, <2>4
  <2>6. 2 * n + 2 \in 12..(11 + 2 * MaxDeliveries) /\ 2 * n + 3 \in 12..(11 + 2 * MaxDeliveries)
    BY <1>6, <2>1
  <2> QED BY <1>5, <1>6, <2>2, <2>3, <2>5, <2>6
<1>7. DOMAIN Script(command) = 1..Ending
  BY ScriptIs DEF Ending
<1> QED BY <1>2, <1>3, <1>4, <1>5, <1>6, <1>7, OpeningIs, ClosingIs

\* Every answer is a reply.
LEMMA RepliesAre ==
  /\ \A s \in DOMAIN Answer : Answer[s] \in Replies
  /\ "Basic.Deliver" \in Replies
BY DEF Replies, Range

\* How many frames the thread has to write.
AwaitedLength == Len(Awaited)

\* The answers of the protocol notes, one by one.
LEMMA AwaitedIs ==
  ASSUME Commanded
  PROVE  /\ Awaited \in Seq(Replies)
         /\ Awaited[1] = "Connection.Start" /\ Awaited[2] = "Connection.Tune"
         /\ Awaited[3] = "Connection.Open-Ok" /\ Awaited[4] = "Channel.Open-Ok"
         /\ command = "declare" =>
              /\ AwaitedLength = 7 /\ Awaited[5] = "Queue.Declare-Ok"
              /\ Awaited[6] = "Channel.Close-Ok" /\ Awaited[7] = "Connection.Close-Ok"
         /\ command = "publish" =>
              /\ AwaitedLength = 6
              /\ Awaited[5] = "Channel.Close-Ok" /\ Awaited[6] = "Connection.Close-Ok"
         /\ command = "consume" =>
              /\ AwaitedLength = 5 + MaxDeliveries /\ Awaited[5] = "Basic.Consume-Ok"
              /\ \A k \in 6..(5 + MaxDeliveries) : Awaited[k] = "Basic.Deliver"
<1>1. /\ "Connection.Start" \in Replies /\ "Connection.Tune" \in Replies
      /\ "Connection.Open-Ok" \in Replies /\ "Channel.Open-Ok" \in Replies
      /\ "Queue.Declare-Ok" \in Replies /\ "Basic.Consume-Ok" \in Replies
      /\ "Channel.Close-Ok" \in Replies /\ "Connection.Close-Ok" \in Replies
      /\ "Basic.Deliver" \in Replies
  BY RepliesAre DEF Answer
<1>2. /\ Greetings \in Seq(Replies) /\ Len(Greetings) = 4
      /\ Greetings[1] = "Connection.Start" /\ Greetings[2] = "Connection.Tune"
      /\ Greetings[3] = "Connection.Open-Ok" /\ Greetings[4] = "Channel.Open-Ok"
  BY <1>1 DEF Greetings
<1>3. /\ Farewells \in Seq(Replies) /\ Len(Farewells) = 2
      /\ Farewells[1] = "Channel.Close-Ok" /\ Farewells[2] = "Connection.Close-Ok"
  BY <1>1 DEF Farewells
<1>4. /\ 1 \in 1..4 /\ 2 \in 1..4 /\ 3 \in 1..4 /\ 4 \in 1..4 /\ 4 + 1 = 5 /\ 4 + 2 = 6 /\ 4 + 3 = 7
      /\ 1 \in 1..2 /\ 2 \in 1..2 /\ 1 \in 1..3 /\ 2 \in 1..3 /\ 3 \in 1..3 /\ 1 \in 1..1
      /\ 1 + 1 = 2 /\ 1 + 2 = 3
  OBVIOUS
<1>5. ASSUME NEW rest \in Seq(Replies), Awaited = Greetings \o rest
      PROVE  /\ Awaited \in Seq(Replies) /\ Len(Awaited) = 4 + Len(rest)
             /\ Awaited[1] = "Connection.Start" /\ Awaited[2] = "Connection.Tune"
             /\ Awaited[3] = "Connection.Open-Ok" /\ Awaited[4] = "Channel.Open-Ok"
             /\ \A k \in 1..Len(rest) : Awaited[4 + k] = rest[k]
  <2> DEFINE g == Greetings
  <2>1. g \in Seq(Replies) /\ rest \in Seq(Replies)
    BY <1>2
  <2> HIDE DEF g
  <2>2. /\ g \o rest \in Seq(Replies) /\ Len(g \o rest) = Len(g) + Len(rest)
        /\ \A k \in 1..Len(g) : (g \o rest)[k] = g[k]
        /\ \A k \in 1..Len(rest) : (g \o rest)[Len(g) + k] = rest[k]
    BY <2>1, ConcatParts
  <2>3. Awaited = g \o rest
    BY <1>5 DEF g
  <2>4. /\ Awaited \in Seq(Replies) /\ Len(Awaited) = Len(g) + Len(rest)
        /\ \A k \in 1..Len(g) : Awaited[k] = g[k]
        /\ \A k \in 1..Len(rest) : Awaited[Len(g) + k] = rest[k]
    BY <2>2, <2>3
  <2>5. /\ Awaited \in Seq(Replies) /\ Len(Awaited) = 4 + Len(rest)
        /\ \A k \in 1..4 : Awaited[k] = Greetings[k]
        /\ \A k \in 1..Len(rest) : Awaited[4 + k] = rest[k]
    BY <1>2, <2>4 DEF g
  <2> QED BY <1>2, <1>4, <2>5
<1>6. CASE command = "publish"
  <2>1. Awaited = Greetings \o Farewells
    BY <1>6 DEF Awaited
  <2>2. /\ Awaited \in Seq(Replies) /\ Len(Awaited) = 4 + Len(Farewells)
        /\ Awaited[1] = "Connection.Start" /\ Awaited[2] = "Connection.Tune"
        /\ Awaited[3] = "Connection.Open-Ok" /\ Awaited[4] = "Channel.Open-Ok"
        /\ \A k \in 1..Len(Farewells) : Awaited[4 + k] = Farewells[k]
    BY <1>3, <1>5, <2>1
  <2> QED BY <1>3, <1>4, <1>6, <2>2 DEF AwaitedLength
<1>7. ASSUME NEW x \in Replies, NEW t \in Seq(Replies), Awaited = Greetings \o (<< x >> \o t)
      PROVE  /\ Awaited \in Seq(Replies) /\ Len(Awaited) = 5 + Len(t)
             /\ Awaited[1] = "Connection.Start" /\ Awaited[2] = "Connection.Tune"
             /\ Awaited[3] = "Connection.Open-Ok" /\ Awaited[4] = "Channel.Open-Ok"
             /\ Awaited[5] = x
             /\ \A k \in 1..Len(t) : Awaited[5 + k] = t[k]
  <2> DEFINE s == << x >>
             rest == s \o t
  <2>1. s \in Seq(Replies) /\ Len(s) = 1 /\ s[1] = x
    OBVIOUS
  <2> HIDE DEF s
  <2>2. /\ rest \in Seq(Replies) /\ Len(rest) = Len(s) + Len(t)
        /\ \A k \in 1..Len(s) : rest[k] = s[k]
        /\ \A k \in 1..Len(t) : rest[Len(s) + k] = t[k]
    <3>1. s \in Seq(Replies) /\ t \in Seq(Replies)
      BY <2>1
    <3> QED BY <3>1, ConcatParts
  <2> HIDE DEF rest
  <2>3. Awaited = Greetings \o rest
    BY <1>7 DEF rest, s
  <2>4. /\ Awaited \in Seq(Replies) /\ Len(Awaited) = 4 + Len(rest)
        /\ Awaited[1] = "Connection.Start" /\ Awaited[2] = "Connection.Tune"
        /\ Awaited[3] = "Connection.Open-Ok" /\ Awaited[4] = "Channel.Open-Ok"
        /\ \A k \in 1..Len(rest) : Awaited[4 + k] = rest[k]
    BY <1>5, <2>2, <2>3
  <2>5. Len(t) \in Nat /\ Len(rest) = 1 + Len(t) /\ rest[1] = x
                      /\ \A k \in 1..Len(t) : rest[1 + k] = t[k]
    BY <1>4, <2>1, <2>2
  <2>6. Awaited[5] = x /\ Len(Awaited) = 5 + Len(t)
    <3>1. 1 \in 1..Len(rest)
      BY <2>5
    <3> QED BY <1>4, <2>4, <2>5, <3>1
  <2>7. ASSUME NEW k \in 1..Len(t) PROVE Awaited[5 + k] = t[k]
    <3>1. 1 + k \in 1..Len(rest) /\ 4 + (1 + k) = 5 + k
      BY <2>5
    <3> QED BY <2>4, <2>5, <3>1
  <2> QED BY <2>4, <2>6, <2>7
<1>8. CASE command = "declare"
  <2> DEFINE x == "Queue.Declare-Ok"
             t == Farewells
  <2>1. Awaited = Greetings \o (<< x >> \o t)
    BY <1>8 DEF Awaited
  <2>2. x \in Replies /\ t \in Seq(Replies) /\ Len(t) = 2 /\ t[1] = "Channel.Close-Ok"
                      /\ t[2] = "Connection.Close-Ok"
    BY <1>1, <1>3
  <2> HIDE DEF x, t
  <2>3. /\ Awaited \in Seq(Replies) /\ Len(Awaited) = 5 + Len(t)
        /\ Awaited[1] = "Connection.Start" /\ Awaited[2] = "Connection.Tune"
        /\ Awaited[3] = "Connection.Open-Ok" /\ Awaited[4] = "Channel.Open-Ok"
        /\ Awaited[5] = x
        /\ \A k \in 1..Len(t) : Awaited[5 + k] = t[k]
    <3>1. x \in Replies /\ t \in Seq(Replies)
      BY <2>2
    <3> QED BY <1>7, <2>1, <3>1
  <2>4. 5 + 1 = 6 /\ 5 + 2 = 7
    OBVIOUS
  <2>5. Awaited[6] = "Channel.Close-Ok" /\ Awaited[7] = "Connection.Close-Ok" /\ Len(Awaited) = 7
    BY <1>4, <2>2, <2>3, <2>4
  <2> QED BY <1>8, <2>3, <2>5 DEF x, AwaitedLength
<1>9. CASE command = "consume"
  <2> DEFINE x == "Basic.Consume-Ok"
             t == [i \in 1..MaxDeliveries |-> "Basic.Deliver"]
  <2>1. Awaited = Greetings \o (<< x >> \o t)
    BY <1>9 DEF Awaited
  <2>2. /\ x \in Replies /\ t \in Seq(Replies) /\ Len(t) = MaxDeliveries /\ MaxDeliveries \in Nat
        /\ \A k \in 1..MaxDeliveries : t[k] = "Basic.Deliver"
    <3>1. MaxDeliveries \in Nat
      BY ConnectionAssumption
    <3> QED BY <1>1, <3>1
  <2> HIDE DEF x, t
  <2>3. /\ Awaited \in Seq(Replies) /\ Len(Awaited) = 5 + Len(t)
        /\ Awaited[1] = "Connection.Start" /\ Awaited[2] = "Connection.Tune"
        /\ Awaited[3] = "Connection.Open-Ok" /\ Awaited[4] = "Channel.Open-Ok"
        /\ Awaited[5] = x
        /\ \A k \in 1..Len(t) : Awaited[5 + k] = t[k]
    <3>1. x \in Replies /\ t \in Seq(Replies)
      BY <2>2
    <3> QED BY <1>7, <2>1, <3>1
  <2>4. ASSUME NEW k \in 6..(5 + MaxDeliveries) PROVE Awaited[k] = "Basic.Deliver"
    <3>1. k - 5 \in 1..Len(t) /\ k - 5 \in 1..MaxDeliveries /\ 5 + (k - 5) = k
      BY <2>2
    <3> QED BY <2>2, <2>3, <3>1
  <2> QED BY <1>9, <2>2, <2>3, <2>4 DEF x, AwaitedLength
<1> QED BY <1>6, <1>8, <1>9 DEF Commanded, AwaitedLength

-----------------------------------------------------------------------------
\* The client and the thread at their steps: one action after the other.

\* A step is a write or a wait, never both.
LEMMA Opposite ==
  /\ \A f : Write(f).to = "server" /\ Write(f).frames = f
  /\ \A f : Await(f).to = "client" /\ Await(f).frames = << f >>
  /\ \A k : ~(Writing(k) /\ Answering(k))
  /\ \A k : Writing(k) \/ Answering(k) => k \in DOMAIN Script(command)
BY DEF Writing, Answering, Write, Await

\* Which steps of a script are writes and which are waits.
LEMMA Directions ==
  ASSUME Commanded
  PROVE  /\ Writing(1) /\ Answering(2) /\ Writing(3) /\ Answering(4) /\ Writing(5) /\ Writing(6)
         /\ Answering(7) /\ Writing(8) /\ Answering(9) /\ Writing(10)
         /\ command = "declare" =>
              Answering(11) /\ Writing(12) /\ Answering(13) /\ Writing(14) /\ Answering(15)
         /\ command = "publish" => Writing(11) /\ Answering(12) /\ Writing(13) /\ Answering(14)
         /\ command = "consume" =>
              /\ Answering(11)
              /\ \A n \in Nat : n >= 5 /\ n < 5 + MaxDeliveries => Answering(2 * n + 2)
                                  /\ Writing(2 * n + 3)
         /\ ~Writing(0) /\ ~Answering(0)
         /\ ~Writing(Ending + 1) /\ ~Answering(Ending + 1)
<1>1. \A k \in 1..9 : k \in DOMAIN Script(command)
  BY ScriptIs
<1>2. Ending \in Nat /\ DOMAIN Script(command) = 1..Ending
  <2>1. Script(command) \in Seq(StepSet)
    BY ScriptIs
  <2>2. Ending \in Nat
    BY <2>1 DEF Ending
  <2> QED BY <2>2, Steps
<1>3. /\ Writing(1) /\ Answering(2) /\ Writing(3) /\ Answering(4) /\ Writing(5) /\ Writing(6)
      /\ Answering(7) /\ Writing(8) /\ Answering(9)
  BY <1>1, Steps, Opposite DEF Writing, Answering
<1>4. 10 \in DOMAIN Script(command) /\ Writing(10)
  <2>0. /\ command = "declare" => Ending = 15
        /\ command = "publish" => Ending = 14
        /\ command = "consume" => Ending = 11 + 2 * MaxDeliveries
    BY Steps
  <2>1. 10 <= Ending
    BY <2>0, ConnectionAssumption DEF Commanded
  <2>2. Step(10).to = "server"
    BY Steps, Opposite DEF Commanded
  <2> QED BY <1>2, <2>1, <2>2 DEF Writing
<1>5. ASSUME command = "declare"
      PROVE  Answering(11) /\ Writing(12) /\ Answering(13) /\ Writing(14) /\ Answering(15)
  <2>1. /\ Step(11).to = "client" /\ Step(12).to = "server" /\ Step(13).to = "client"
        /\ Step(14).to = "server" /\ Step(15).to = "client"
    BY <1>5, Steps, Opposite
  <2>2. Ending = 15
    BY <1>5, Steps
  <2>3. \A k \in 10..15 : k \in DOMAIN Script(command)
    BY <1>2, <2>2
  <2> QED BY <2>1, <2>3 DEF Writing, Answering
<1>6. ASSUME command = "publish"
      PROVE  Writing(11) /\ Answering(12) /\ Writing(13) /\ Answering(14)
  <2>1. /\ Step(11).to = "server" /\ Step(12).to = "client" /\ Step(13).to = "server"
        /\ Step(14).to = "client"
    BY <1>6, Steps, Opposite
  <2>2. Ending = 14
    BY <1>6, Steps
  <2>3. \A k \in 10..14 : k \in DOMAIN Script(command)
    BY <1>2, <2>2
  <2> QED BY <2>1, <2>3 DEF Writing, Answering
<1>7. ASSUME command = "consume"
      PROVE  /\ Answering(11)
             /\ \A n \in Nat : n >= 5 /\ n < 5 + MaxDeliveries => Answering(2 * n + 2)
                                 /\ Writing(2 * n + 3)
  <2>1. Answering(11)
    <3>1. 11 <= Ending /\ Step(11).to = "client"
      BY <1>7, Steps, Opposite, ConnectionAssumption
    <3> QED BY <1>2, <3>1 DEF Answering
  <2>2. ASSUME NEW n \in Nat, n >= 5, n < 5 + MaxDeliveries
        PROVE  Answering(2 * n + 2) /\ Writing(2 * n + 3)
    <3> DEFINE a == 2 * n + 2
               b == 2 * n + 3
    <3>1. a \in 12..Ending /\ Step(a) = Await("Basic.Deliver")
      BY <1>7, <2>2, Steps
    <3>2. b \in 12..Ending /\ Step(b) = Write(<< "Basic.Ack" >>)
      BY <1>7, <2>2, Steps
    <3> HIDE DEF a, b
    <3>3. a \in DOMAIN Script(command) /\ b \in DOMAIN Script(command)
      BY <1>2, <3>1, <3>2
    <3>4. Answering(a) /\ Writing(b)
      BY <3>1, <3>2, <3>3, Opposite DEF Answering, Writing
    <3> QED BY <3>4 DEF a, b
  <2> QED BY <2>1, <2>2
<1>8. 0 \notin DOMAIN Script(command) /\ Ending + 1 \notin DOMAIN Script(command)
  BY <1>2
<1> QED BY <1>3, <1>4, <1>5, <1>6, <1>7, <1>8 DEF Writing, Answering

\* The client and its frames stay what they are.
LEMMA SameScript ==
  ASSUME command' = command, inside' = inside
  PROVE  /\ Script(command)' = Script(command) /\ Awaited' = Awaited
         /\ \A k : Step(k)' = Step(k) /\ Writing(k)' = Writing(k) /\ Answering(k)' = Answering(k)
         /\ \A fs : Bytes(fs)' = Bytes(fs)
         /\ Publication' = Publication /\ ChannelClose' = ChannelClose
         /\ Commanded' = Commanded
<1>1. Script(command)' = Script(command)
  BY DEF Script
<1>2. Awaited' = Awaited
  BY DEF Awaited
<1>3. \A k : Step(k)' = Step(k)
  BY <1>1 DEF Step
<1>4. \A f : Frame(f)' = Frame(f)
  <2>1. \A f : Contents(f)' = Contents(f)
    BY DEF Contents
  <2> QED BY <2>1 DEF Frame
<1>5. \A fs : Bytes(fs)' = Bytes(fs)
  BY <1>4 DEF Bytes
<1> QED BY <1>1, <1>2, <1>3, <1>5 DEF Writing, Answering, Publication, ChannelClose, Commanded

\* A function that answers is at the step where the client waits for the answer.
LEMMA AnswerPlaced ==
  ASSUME Data, Commanded, NEW v \in Nat, Place(v), state \in DOMAIN Answer,
         state' = Goto(state, 0), Answered' = Answered + 1,
         command' = command, inside' = inside
  PROVE  /\ Place(v + 1)' /\ Answering(v) /\ Step(v) = Await(Answer[state])
         /\ v \in 2..Ending /\ Writing(v - 1)
         /\ Answered < AwaitedLength /\ Awaited[Answered + 1] = Answer[state]
         /\ (command = "publish" => v # 10 /\ v + 1 # 11)
         /\ state' # "RCVD_BASIC_PUBLISH"
<1>0. Answered \in Nat /\ MaxDeliveries \in Nat /\ Awaited' = Awaited
  <2>1. Answered \in Nat
    BY DEF Data, Answered
  <2>2. Awaited' = Awaited
    BY SameScript
  <2> QED BY <2>1, <2>2, ConnectionAssumption
<1> DEFINE Goal == /\ Place(v + 1)' /\ Answering(v) /\ Step(v) = Await(Answer[state])
                   /\ v \in 2..Ending /\ Writing(v - 1)
                   /\ Answered < AwaitedLength /\ Awaited[Answered + 1] = Answer[state]
                   /\ (command = "publish" => v # 10 /\ v + 1 # 11)
                   /\ state' # "RCVD_BASIC_PUBLISH"
<1>b. /\ command = "declare" =>
           /\ AwaitedLength = 7 /\ Awaited[5] = "Queue.Declare-Ok"
           /\ Awaited[6] = "Channel.Close-Ok" /\ Awaited[7] = "Connection.Close-Ok"
      /\ command = "publish" =>
           /\ AwaitedLength = 6
           /\ Awaited[5] = "Channel.Close-Ok" /\ Awaited[6] = "Connection.Close-Ok"
      /\ command = "consume" =>
           /\ AwaitedLength = 5 + MaxDeliveries /\ Awaited[5] = "Basic.Consume-Ok"
  BY AwaitedIs
<1>c. /\ command = "declare" => Ending = 15
      /\ command = "publish" => Ending = 14
      /\ command = "consume" => Ending = 11 + 2 * MaxDeliveries
  BY Steps
<1>a. ASSUME NEW w \in Nat, v = w, w \in 2..9, Answering(w), Writing(w - 1),
             Step(w) = Await(Answer[state]), OpeningPlace(w + 1)',
             Answered < 4, Awaited[Answered + 1] = Answer[state],
             state' # "RCVD_BASIC_PUBLISH"
      PROVE  Goal
  <2>1. v \in 2..Ending
    <3>1. w \in 1..9
      BY <1>a
    <3>2. w \in DOMAIN Script(command)
      BY <3>1, ScriptIs
    <3>3. w \in 1..Ending
      BY <3>2, Steps
    <3>4. Ending \in Nat
      BY ScriptIs DEF Ending
    <3> QED BY <1>a, <3>3, <3>4
  <2>2. 4 < AwaitedLength /\ AwaitedLength \in Nat
    BY <1>0, <1>b DEF Commanded
  <2>3. Place(v + 1)'
    <3>1. OpeningPlace(v + 1)'
      BY <1>a, Zenon
    <3> QED BY <3>1 DEF Place
  <2>4. Answered < AwaitedLength
    <3>1. Answered \in Nat /\ Answered < 4
      BY <1>0, <1>a, Zenon
    <3> QED BY <2>2, <3>1
  <2>5. v # 10 /\ v + 1 # 11
    BY <1>a
  <2>6. Answering(v) /\ Writing(v - 1) /\ Step(v) = Await(Answer[state])
    BY <1>a, Zenon
  <2> QED BY <1>a, <2>1, <2>3, <2>4, <2>5, <2>6, Zenon
<1>1. CASE state = "RCVD_HEADER"
  <2>1. v = 2 /\ Answered = 0
    BY <1>1 DEF Place, OpeningPlace, DeclarePlace, PublishPlace, ConsumePlace, ClosingPlace
  <2>2. state' = "WAIT_START_OK" /\ Answer[state] = "Connection.Start"
    BY <1>1, GotoIs DEF Answer
  <2>3. OpeningPlace(2 + 1)'
    BY <2>1, <2>2 DEF OpeningPlace
  <2>4. Answering(2) /\ Writing(2 - 1) /\ Step(2) = Await(Answer[state])
                      /\ Awaited[Answered + 1] = Answer[state]
    BY <2>1, <2>2, Directions, Steps, AwaitedIs
  <2> QED BY <1>a, <2>1, <2>2, <2>3, <2>4
<1>2. CASE state = "RCVD_START_OK"
  <2>1. v = 4 /\ Answered = 1
    BY <1>2 DEF Place, OpeningPlace, DeclarePlace, PublishPlace, ConsumePlace, ClosingPlace
  <2>2. state' = "WAIT_TUNE_OK" /\ Answer[state] = "Connection.Tune"
    BY <1>2, GotoIs DEF Answer
  <2>3. OpeningPlace(4 + 1)'
    BY <2>1, <2>2 DEF OpeningPlace
  <2>4. Answering(4) /\ Writing(4 - 1) /\ Step(4) = Await(Answer[state])
                      /\ Awaited[Answered + 1] = Answer[state]
    BY <2>1, <2>2, Directions, Steps, AwaitedIs
  <2> QED BY <1>a, <2>1, <2>2, <2>3, <2>4
<1>3. CASE state = "RCVD_CONNECTION_OPEN"
  <2>1. v = 7 /\ Answered = 2
    BY <1>3 DEF Place, OpeningPlace, DeclarePlace, PublishPlace, ConsumePlace, ClosingPlace
  <2>2. state' = "WAIT_CHANNEL_OPEN" /\ Answer[state] = "Connection.Open-Ok"
    BY <1>3, GotoIs DEF Answer
  <2>3. OpeningPlace(7 + 1)'
    BY <2>1, <2>2 DEF OpeningPlace
  <2>4. Answering(7) /\ Writing(7 - 1) /\ Step(7) = Await(Answer[state])
                      /\ Awaited[Answered + 1] = Answer[state]
    BY <2>1, <2>2, Directions, Steps, AwaitedIs
  <2> QED BY <1>a, <2>1, <2>2, <2>3, <2>4
<1>4. CASE state = "RCVD_CHANNEL_OPEN"
  <2>1. v = 9 /\ Answered = 3
    BY <1>4 DEF Place, OpeningPlace, DeclarePlace, PublishPlace, ConsumePlace, ClosingPlace
  <2>2. state' = "WAIT_COMMAND" /\ Answer[state] = "Channel.Open-Ok"
    BY <1>4, GotoIs DEF Answer
  <2>3. OpeningPlace(9 + 1)'
    BY <2>1, <2>2 DEF OpeningPlace
  <2>4. Answering(9) /\ Writing(9 - 1) /\ Step(9) = Await(Answer[state])
                      /\ Awaited[Answered + 1] = Answer[state]
    BY <2>1, <2>2, Directions, Steps, AwaitedIs
  <2> QED BY <1>a, <2>1, <2>2, <2>3, <2>4
<1>5. CASE state = "RCVD_QUEUE_DECLARE"
  <2>1. v = 11 /\ Answered = 4 /\ command = "declare"
    BY <1>0, <1>b, <1>5
       DEF Place, OpeningPlace, DeclarePlace, PublishPlace, ConsumePlace, ClosingPlace
  <2>2. state' = "WAIT_CHANNEL_CLOSE" /\ Answer[state] = "Queue.Declare-Ok"
    BY <1>5, GotoIs DEF Answer
  <2>3. Place(v + 1)'
    <3>1. command' = "declare" /\ Answered' = 4 + 1 /\ Awaited' = Awaited
      BY <1>0, <2>1
    <3> QED BY <2>1, <2>2, <3>1, <1>b DEF Place, DeclarePlace, ClosingPlace
  <2>4. Answering(11) /\ Writing(11 - 1) /\ Step(11) = Await(Answer[state]) /\ 11 \in 2..Ending
    <3>1. Answering(11) /\ Writing(11 - 1) /\ Step(11) = Await(Answer[state])
      BY <2>1, <2>2, Directions, Steps
    <3> QED BY <1>0, <1>c, <2>1, <3>1
  <2>5. Answered < AwaitedLength /\ Awaited[Answered + 1] = Answer[state]
    BY <1>0, <1>b, <2>1, <2>2
  <2> QED BY <2>1, <2>2, <2>3, <2>4, <2>5
<1>6. CASE state = "RCVD_BASIC_CONSUME"
  <2>1. v = 11 /\ Answered = 4 /\ command = "consume"
    BY <1>0, <1>b, <1>6
       DEF Place, OpeningPlace, DeclarePlace, PublishPlace, ConsumePlace, ClosingPlace
  <2>2. state' = "SUBSCRIBED" /\ Answer[state] = "Basic.Consume-Ok"
    BY <1>6, GotoIs DEF Answer
  <2>3. Place(v + 1)'
    <3>1. command' = "consume" /\ Answered' = 4 + 1 /\ Awaited' = Awaited
      BY <1>0, <2>1
    <3> QED BY <2>1, <2>2, <3>1, <1>b DEF Place, ConsumePlace
  <2>4. Answering(11) /\ Writing(11 - 1) /\ Step(11) = Await(Answer[state]) /\ 11 \in 2..Ending
    <3>1. Answering(11) /\ Writing(11 - 1) /\ Step(11) = Await(Answer[state])
      BY <2>1, <2>2, Directions, Steps
    <3> QED BY <1>0, <1>c, <2>1, <3>1
  <2>5. Answered < AwaitedLength /\ Awaited[Answered + 1] = Answer[state]
    BY <1>0, <1>b, <2>1, <2>2
  <2> QED BY <2>1, <2>2, <2>3, <2>4, <2>5
<1>7. CASE state = "RCVD_CHANNEL_CLOSE"
  <2>1. command = "declare" \/ command = "publish"
    BY <1>7 DEF Place, OpeningPlace, DeclarePlace, PublishPlace, ConsumePlace, ClosingPlace
  <2>2. CASE command = "declare"
    <3>1. v = 13 /\ Answered = 5 /\ command = "declare"
      BY <1>0, <1>b, <1>7, <2>2
         DEF Place, OpeningPlace, DeclarePlace, PublishPlace, ConsumePlace, ClosingPlace
    <3>2. state' = "WAIT_CONNECTION_CLOSE" /\ Answer[state] = "Channel.Close-Ok"
      BY <1>7, GotoIs DEF Answer
    <3>3. Place(v + 1)'
      <4>1. command' = "declare" /\ Answered' = 5 + 1 /\ Awaited' = Awaited
        BY <1>0, <3>1
      <4> QED BY <3>1, <3>2, <4>1, <1>b DEF Place, DeclarePlace, ClosingPlace
    <3>4. Answering(13) /\ Writing(13 - 1) /\ Step(13) = Await(Answer[state]) /\ 13 \in 2..Ending
      <4>1. Answering(13) /\ Writing(13 - 1) /\ Step(13) = Await(Answer[state])
        BY <3>1, <3>2, Directions, Steps
      <4> QED BY <1>0, <1>c, <3>1, <4>1
    <3>5. Answered < AwaitedLength /\ Awaited[Answered + 1] = Answer[state]
      BY <1>0, <1>b, <3>1, <3>2
    <3> QED BY <3>1, <3>2, <3>3, <3>4, <3>5
  <2>3. CASE command = "publish"
    <3>1. v = 12 /\ Answered = 4 /\ command = "publish"
      BY <1>0, <1>b, <1>7, <2>3
         DEF Place, OpeningPlace, DeclarePlace, PublishPlace, ConsumePlace, ClosingPlace
    <3>2. state' = "WAIT_CONNECTION_CLOSE" /\ Answer[state] = "Channel.Close-Ok"
      BY <1>7, GotoIs DEF Answer
    <3>3. Place(v + 1)'
      <4>1. command' = "publish" /\ Answered' = 4 + 1 /\ Awaited' = Awaited
        BY <1>0, <3>1
      <4> QED BY <3>1, <3>2, <4>1, <1>b DEF Place, PublishPlace, ClosingPlace
    <3>4. Answering(12) /\ Writing(12 - 1) /\ Step(12) = Await(Answer[state]) /\ 12 \in 2..Ending
      <4>1. Answering(12) /\ Writing(12 - 1) /\ Step(12) = Await(Answer[state])
        BY <3>1, <3>2, Directions, Steps
      <4> QED BY <1>0, <1>c, <3>1, <4>1
    <3>5. Answered < AwaitedLength /\ Awaited[Answered + 1] = Answer[state]
      BY <1>0, <1>b, <3>1, <3>2
    <3> QED BY <3>1, <3>2, <3>3, <3>4, <3>5
  <2> QED BY <2>1, <2>2, <2>3
<1>8. CASE state = "RCVD_CONNECTION_CLOSE"
  <2>1. command = "declare" \/ command = "publish"
    BY <1>8 DEF Place, OpeningPlace, DeclarePlace, PublishPlace, ConsumePlace, ClosingPlace
  <2>2. CASE command = "declare"
    <3>1. v = 15 /\ Answered = 6 /\ command = "declare"
      BY <1>0, <1>b, <1>8, <2>2
         DEF Place, OpeningPlace, DeclarePlace, PublishPlace, ConsumePlace, ClosingPlace
    <3>2. state' = "FINAL" /\ Answer[state] = "Connection.Close-Ok"
      BY <1>8, GotoIs DEF Answer
    <3>3. Place(v + 1)'
      <4>1. command' = "declare" /\ Answered' = 6 + 1 /\ Awaited' = Awaited
        BY <1>0, <3>1
      <4> QED BY <3>1, <3>2, <4>1, <1>b DEF Place, DeclarePlace, ClosingPlace
    <3>4. Answering(15) /\ Writing(15 - 1) /\ Step(15) = Await(Answer[state]) /\ 15 \in 2..Ending
      <4>1. Answering(15) /\ Writing(15 - 1) /\ Step(15) = Await(Answer[state])
        BY <3>1, <3>2, Directions, Steps
      <4> QED BY <1>0, <1>c, <3>1, <4>1
    <3>5. Answered < AwaitedLength /\ Awaited[Answered + 1] = Answer[state]
      BY <1>0, <1>b, <3>1, <3>2
    <3> QED BY <3>1, <3>2, <3>3, <3>4, <3>5
  <2>3. CASE command = "publish"
    <3>1. v = 14 /\ Answered = 5 /\ command = "publish"
      BY <1>0, <1>b, <1>8, <2>3
         DEF Place, OpeningPlace, DeclarePlace, PublishPlace, ConsumePlace, ClosingPlace
    <3>2. state' = "FINAL" /\ Answer[state] = "Connection.Close-Ok"
      BY <1>8, GotoIs DEF Answer
    <3>3. Place(v + 1)'
      <4>1. command' = "publish" /\ Answered' = 5 + 1 /\ Awaited' = Awaited
        BY <1>0, <3>1
      <4> QED BY <3>1, <3>2, <4>1, <1>b DEF Place, PublishPlace, ClosingPlace
    <3>4. Answering(14) /\ Writing(14 - 1) /\ Step(14) = Await(Answer[state]) /\ 14 \in 2..Ending
      <4>1. Answering(14) /\ Writing(14 - 1) /\ Step(14) = Await(Answer[state])
        BY <3>1, <3>2, Directions, Steps
      <4> QED BY <1>0, <1>c, <3>1, <4>1
    <3>5. Answered < AwaitedLength /\ Awaited[Answered + 1] = Answer[state]
      BY <1>0, <1>b, <3>1, <3>2
    <3> QED BY <3>1, <3>2, <3>3, <3>4, <3>5
  <2> QED BY <2>1, <2>2, <2>3
<1> QED BY <1>1, <1>2, <1>3, <1>4, <1>5, <1>6, <1>7, <1>8 DEF Answer

\* The client has one of the three commands.
LEMMA DataCommanded == Data => Commanded
BY ConnectionAssumption DEF Data, Commanded

\* The counts are numbers, and every script has eleven steps at least.
LEMMA Numbers == ASSUME Data PROVE Answered \in Nat /\ Ending \in Nat /\ Ending >= 11
<1>1. Answered \in Nat
  BY DEF Data, Answered
<1>2. Ending \in Nat
  BY DataCommanded, ScriptIs DEF Ending
<1>3. /\ command = "declare" => Ending = 15
      /\ command = "publish" => Ending = 14
      /\ command = "consume" => Ending = 11 + 2 * MaxDeliveries
  BY DataCommanded, Steps
<1>4. Ending >= 11
  BY <1>3, DataCommanded, ConnectionAssumption DEF Commanded
<1> QED BY <1>1, <1>2, <1>4

\* Nothing has changed for the reader of the stream.
LEMMA SameUnread ==
  ASSUME reading' = reading, buf' = buf, toServer' = toServer
  PROVE  Unread' = Unread
BY DEF Unread

\* The thread answers, and the client has the answer before it.
LEMMA OrderlyAnswers ==
  ASSUME Data, Orderly, ServerAnswers
  PROVE  Orderly'
<1>1. Commanded /\ command' = command /\ inside' = inside /\ splits' = splits
  BY DataCommanded DEF ServerAnswers, client
<1>2. PICK v \in 1..(Ending + 1) : Place(v) /\ Apart(v) /\ Stored(v)
  BY DEF Orderly, Ending
<1>3. v \in Nat
  BY <1>2, Numbers
<1>4. state \in DOMAIN Answer /\ state' = Goto(state, 0)
  BY DEF ServerAnswers, Return
<1> DEFINE f == Answer[state]
<1>5. sent' = Append(sent, f) /\ toClient' = Append(toClient, f)
  BY DEF ServerAnswers, Send
<1>6. f \in Replies /\ sent \in Seq(Replies)
  BY <1>4, RepliesAre DEF Data
<1>7. Answered' = Answered + 1
  <2> HIDE DEF f
  <2> QED BY <1>5, <1>6 DEF Answered
<1>8. /\ Place(v + 1)' /\ Answering(v) /\ Step(v) = Await(Answer[state])
      /\ v \in 2..Ending /\ Writing(v - 1)
      /\ Answered < AwaitedLength /\ Awaited[Answered + 1] = Answer[state]
      /\ (command = "publish" => v # 10 /\ v + 1 # 11)
      /\ state' # "RCVD_BASIC_PUBLISH"
  BY <1>1, <1>2, <1>3, <1>4, <1>7, AnswerPlaced
<1>9. IsPrefix(sent, Awaited)'
  <2>1. /\ Awaited \in Seq(Replies) /\ IsPrefix(sent, Awaited) /\ Len(sent) < Len(Awaited)
        /\ f = Awaited[Len(sent) + 1]
    BY <1>1, <1>8, AwaitedIs DEF Orderly, AwaitedLength, Answered
  <2>2. IsPrefix(Append(sent, f), Awaited)
    <3> HIDE DEF f
    <3> QED BY <1>6, <2>1, PrefixAppend
  <2> QED BY <1>1, <1>5, <2>2, SameScript
<1>10. Apart(v + 1)'
  <2>1. pos = v /\ toClient = << >> /\ Unread = << >>
    <3>1. ~Answering(v - 1) /\ ~Writing(v)
      BY <1>8, Opposite
    <3> QED BY <1>2, <3>1, Zenon DEF Apart
  <2>2. Unread' = << >>
    <3>1. reading' = reading /\ buf' = buf /\ toServer' = toServer
      BY DEF ServerAnswers
    <3> QED BY <2>1, <3>1, SameUnread
  <2>3. pos' = v
    BY <2>1 DEF ServerAnswers
  <2>4. toClient' = << f >>
    <3> HIDE DEF f
    <3> QED BY <1>5, <2>1
  <2>5. Step(v)'.frames = << f >> /\ Answering(v)'
    BY <1>1, <1>8, SameScript, Opposite
  <2>6. (v + 1) - 1 = v
    BY <1>3
  <2> QED BY <2>2, <2>3, <2>4, <2>5, <2>6 DEF Apart
<1>11. Stored(v + 1)'
  <2>1. stored' = stored /\ size' = size
    BY DEF ServerAnswers, client
  <2>2. MessageTaken' = MessageTaken
    BY <1>1, <2>1 DEF MessageTaken
  <2>3. state # "RCVD_BASIC_PUBLISH"
    BY <1>4 DEF Answer
  <2>4. command = "publish" => (v > 10 <=> v + 1 > 10)
    BY <1>3, <1>8
  <2> QED BY <1>1, <1>2, <1>8, <2>1, <2>2, <2>3, <2>4 DEF Stored
<1>12. reading' => splits'
  BY <1>1 DEF Orderly, ServerAnswers
<1>13. v + 1 \in 1..(Ending' + 1)
  <2>1. Ending' = Ending
    BY <1>1, SameScript DEF Ending
  <2> QED BY <1>8, <2>1, Numbers
<1> QED BY <1>8, <1>9, <1>10, <1>11, <1>12, <1>13 DEF Orderly, Ending

\* The client takes what it waits for.
LEMMA OrderlyReads ==
  ASSUME Data, Orderly, ClientReads
  PROVE  Orderly'
<1>1. /\ Commanded /\ command' = command /\ inside' = inside /\ splits' = splits /\ size' = size
      /\ toServer' = toServer /\ state' = state /\ reading' = reading /\ buf' = buf
      /\ stored' = stored /\ sent' = sent
  BY DataCommanded DEF ClientReads, client
<1>2. PICK v \in 1..(Ending + 1) : Place(v) /\ Apart(v) /\ Stored(v)
  BY DEF Orderly, Ending
<1>3. v \in Nat /\ pos \in Nat /\ Ending' = Ending
  BY <1>1, <1>2, Numbers, SameScript DEF Data, Ending
<1>4. Place(v)' /\ Stored(v)' /\ IsPrefix(sent, Awaited)' /\ (reading' => splits')
  <2>1. Awaited' = Awaited /\ Publication' = Publication /\ ChannelClose' = ChannelClose
    BY <1>1, SameScript
  <2>2. Place(v)'
    BY <1>1, <1>2, <2>1
       DEF Place, OpeningPlace, DeclarePlace, PublishPlace, ConsumePlace, ClosingPlace, Answered
  <2>3. Stored(v)'
    BY <1>1, <1>2 DEF Stored, MessageTaken
  <2> QED BY <1>1, <2>1, <2>2, <2>3 DEF Orderly
<1>5. Unread' = Unread
  BY <1>1, SameUnread
<1>6. /\ toClient # << >> /\ toClient' = Tail(toClient)
      /\ pos' = IF Head(toClient) = Step(pos).frames[1] THEN pos + 1 ELSE 0
  BY DEF ClientReads, Step
<1>7. ASSUME NEW f, Step(pos).frames = << f >>, toClient = << f >>
      PROVE  pos' = pos + 1 /\ toClient' = << >>
  BY <1>6, <1>7
<1>8. ASSUME NEW f, NEW g, Step(pos).frames = << f >>, toClient = << f >> \o << g >>
      PROVE  pos' = pos + 1 /\ toClient' = << g >>
  <2> DEFINE t == << g >>
             S == {f, g}
  <2>1. t \in Seq(S) /\ f \in S
    OBVIOUS
  <2> HIDE DEF t
  <2>2. Head(<< f >> \o t) = f /\ Tail(<< f >> \o t) = t
    BY <2>1, ConcatFront
  <2>3. Step(pos).frames[1] = f
    BY <1>8
  <2>4. toClient = << f >> \o t
    BY <1>8 DEF t
  <2> QED BY <1>6, <2>2, <2>3, <2>4 DEF t
<1>9. \A k : Answering(k) => \E f : Step(k).frames = << f >>
  <2>1. \A s \in StepSet : s.to = "client" => \E f : s.frames = << f >>
    BY DEF StepSet, Write, Await
  <2>2. Script(command) \in Seq(StepSet)
    BY <1>1, ScriptIs
  <2>3. \A k \in DOMAIN Script(command) : Script(command)[k] \in StepSet
    BY <2>2
  <2> QED BY <2>1, <2>3 DEF Answering, Step
<1>10. Apart(v)'
  <2>1. \/ pos = v - 1 /\ Answering(v - 1) /\ toClient = Step(v - 1).frames /\ Unread = << >>
        \/ /\ pos = v - 2 /\ Answering(v - 2) /\ Answering(v - 1)
           /\ toClient = Step(v - 2).frames \o Step(v - 1).frames /\ Unread = << >>
    BY <1>2, <1>6 DEF Apart
  <2>2. CASE pos = v - 1 /\ Answering(v - 1) /\ toClient = Step(v - 1).frames /\ Unread = << >>
    <3>1. PICK f : Step(v - 1).frames = << f >>
      BY <1>9, <2>2
    <3>2. pos' = pos + 1 /\ toClient' = << >>
      BY <1>7, <2>2, <3>1
    <3>3. pos' = v
      BY <1>3, <2>2, <3>2
    <3> QED BY <1>5, <2>2, <3>2, <3>3 DEF Apart
  <2>3. CASE /\ pos = v - 2 /\ Answering(v - 2) /\ Answering(v - 1)
             /\ toClient = Step(v - 2).frames \o Step(v - 1).frames /\ Unread = << >>
    <3>1. PICK f : Step(v - 2).frames = << f >>
      BY <1>9, <2>3
    <3>2. PICK g : Step(v - 1).frames = << g >>
      BY <1>9, <2>3
    <3>3. pos' = pos + 1 /\ toClient' = << g >>
      BY <1>8, <2>3, <3>1, <3>2
    <3>4. pos' = v - 1
      BY <1>3, <2>3, <3>3
    <3>5. Answering(v - 1)' /\ Step(v - 1)' = Step(v - 1)
      BY <1>1, <2>3, SameScript
    <3> QED BY <1>5, <2>3, <3>2, <3>3, <3>4, <3>5 DEF Apart
  <2> QED BY <2>1, <2>2, <2>3
<1> QED BY <1>2, <1>3, <1>4, <1>10 DEF Orderly, Ending

\* Whatever the client writes is bytes.
LEMMA BytesTyped ==
  ASSUME Commanded, NEW k, Writing(k)
  PROVE  Bytes(Step(k).frames) \in Seq(Byte)
<1>1. Bytes(Publishing) \in Seq(Byte)
  <2> DEFINE p == Frame("Basic.Publish")
             q == Frame("Content.Header")
             r == Frame("Content.Body")
             u == p \o q
             w == u \o r
             fs == << "Basic.Publish", "Content.Header", "Content.Body" >>
  <2>1. /\ "Basic.Publish" \in Frames /\ "Content.Header" \in Frames /\ "Content.Body" \in Frames
    BY DEF Frames
  <2>2. p \in Seq(Byte) /\ q \in Seq(Byte) /\ r \in Seq(Byte)
    BY <2>1, FrameBytes
  <2>3. Len(p) # 0
    <3> DEFINE f == "Basic.Publish"
               x == ByteOf(f, 1, "contents", FALSE)
               y == ByteOf(f, 2, EndOf(f), TRUE)
               y1 == ByteOf(f, 2, "0xce", FALSE)
               y2 == ByteOf(f, 3, "contents", FALSE)
               y3 == ByteOf(f, 4, EndOf(f), TRUE)
    <3>1. p = << x, y >> \/ p = << x, y1, y2, y3 >>
      BY <2>1, FrameBytes
    <3> HIDE DEF p, x, y, y1, y2, y3
    <3> QED BY <3>1
  <2>4. Len(fs) = 3 /\ fs[1] = "Basic.Publish" /\ fs[2] = "Content.Header" /\ fs[3] = "Content.Body"
    OBVIOUS
  <2>5. Bytes(fs) = Written(w)
    <3> HIDE DEF fs
    <3>1. Bytes(fs) = Written((Frame(fs[1]) \o Frame(fs[2])) \o Frame(fs[3]))
      BY <2>4 DEF Bytes, Written
    <3> QED BY <2>4, <3>1
  <2> HIDE DEF p, q, r, fs
  <2>6. u \in Seq(Byte) /\ Len(u) = Len(p) + Len(q)
    BY <2>2, ConcatParts
  <2> HIDE DEF u
  <2>7. w \in Seq(Byte) /\ Len(w) = Len(u) + Len(r)
    BY <2>2, <2>6, ConcatParts
  <2> HIDE DEF w
  <2>8. Len(w) \in Nat \ {0}
    BY <2>2, <2>3, <2>6, <2>7
  <2>9. Written(w) \in Seq(Byte)
    BY <2>7, <2>8, Pushed
  <2> QED BY <2>5, <2>9 DEF fs, Publishing
<1>2. \A f \in Singles : Bytes(<< f >>) \in Seq(Byte)
  BY OneFrame DEF Singles
<1>3. Step(k) \in StepSet /\ Step(k).to = "server"
  <2>1. Script(command) \in Seq(StepSet)
    BY ScriptIs
  <2>2. \A j \in DOMAIN Script(command) : Script(command)[j] \in StepSet
    BY <2>1
  <2> QED BY <2>2 DEF Writing, Step
<1>4. Step(k).frames = Publishing \/ \E f \in Singles : Step(k).frames = << f >>
  <2>1. \A s \in StepSet : s.to = "server" => s.frames = Publishing
                      \/ \E f \in Singles : s.frames = << f >>
    <3> SUFFICES ASSUME NEW s \in StepSet, s.to = "server"
                 PROVE  s.frames = Publishing \/ \E f \in Singles : s.frames = << f >>
      OBVIOUS
    <3>1. CASE \E f \in Singles : s = Write(<< f >>)
      BY <3>1, Opposite
    <3>2. CASE s = Write(Publishing)
      BY <3>2, Opposite
    <3>3. CASE \E f : s = Await(f)
      BY <3>3, Opposite
    <3> QED BY <3>1, <3>2, <3>3 DEF StepSet
  <2> QED BY <1>3, <2>1
<1> QED BY <1>1, <1>2, <1>4

\* The client writes at most twice in a row, and so does not get further ahead.
LEMMA NoThree ==
  ASSUME Data, NEW v \in Nat, Place(v), Answered <= AwaitedLength
  PROVE  ~(Writing(v) /\ Writing(v + 1) /\ Writing(v + 2))
<1>0. Commanded /\ Answered \in Nat /\ MaxDeliveries \in Nat
  BY DataCommanded, Numbers, ConnectionAssumption
<1>1. /\ Writing(1) /\ ~Writing(2) /\ Writing(3) /\ ~Writing(4) /\ Writing(5) /\ Writing(6)
      /\ ~Writing(7) /\ Writing(8) /\ ~Writing(9) /\ Writing(10)
      /\ command = "declare" =>
           ~Writing(11) /\ Writing(12) /\ ~Writing(13) /\ Writing(14) /\ ~Writing(15) /\ ~Writing(16)
      /\ command = "publish" => Writing(11) /\ ~Writing(12) /\ Writing(13) /\ ~Writing(14)
                          /\ ~Writing(15)
      /\ command = "consume" => ~Writing(11)
  <2>1. /\ command = "declare" => Ending = 15
        /\ command = "publish" => Ending = 14
    BY <1>0, Steps
  <2>2. ~Writing(Ending + 1)
    BY <1>0, Directions
  <2>3. (command = "declare" => ~Writing(16)) /\ (command = "publish" => ~Writing(15))
    BY <2>1, <2>2
  <2> QED BY <1>0, <2>3, Directions, Opposite
<1>2. CASE OpeningPlace(v)
  <2>1. v \in 1..10
    BY <1>2 DEF OpeningPlace
  <2>2. \/ v = 1 \/ v = 2 \/ v = 3 \/ v = 4 \/ v = 5 \/ v = 6 \/ v = 7 \/ v = 8 \/ v = 9 \/ v = 10
    BY <2>1
  <2>3. 1 + 1 = 2 /\ 3 + 1 = 4 /\ 5 + 2 = 7 /\ 6 + 1 = 7 /\ 8 + 1 = 9 /\ 10 + 1 = 11 /\ 10 + 2 = 12
    OBVIOUS
  <2> QED BY <1>0, <1>1, <2>2, <2>3 DEF Commanded
<1>3. CASE command = "declare" /\ DeclarePlace(v)
  <2>1. v \in 11..16
    BY <1>3 DEF DeclarePlace, ClosingPlace
  <2>2. v = 11 \/ v = 12 \/ v = 13 \/ v = 14 \/ v = 15 \/ v = 16
    BY <2>1
  <2>3. 12 + 1 = 13 /\ 14 + 1 = 15
    OBVIOUS
  <2> QED BY <1>1, <1>3, <2>2, <2>3
<1>4. CASE command = "publish" /\ PublishPlace(v)
  <2>1. v \in 11..15
    BY <1>4 DEF PublishPlace, ClosingPlace
  <2>2. v = 11 \/ v = 12 \/ v = 13 \/ v = 14 \/ v = 15
    BY <2>1
  <2>3. 11 + 1 = 12 /\ 13 + 1 = 14
    OBVIOUS
  <2> QED BY <1>1, <1>4, <2>2, <2>3
<1>5. CASE command = "consume" /\ ConsumePlace(v)
  <2> DEFINE e == 2 * Answered + 2
  <2>1. v = 11 \/ (v = e /\ Answered >= 5) \/ (v + 1 = e /\ Answered >= 5)
    BY <1>0, <1>5 DEF ConsumePlace
  <2>2. Answered >= 5 => ~Writing(e)
    <3>1. Answered <= 5 + MaxDeliveries
      <4>1. AwaitedLength = 5 + MaxDeliveries
        BY <1>0, <1>5, AwaitedIs
      <4> QED BY <4>1
    <3>2. CASE Answered >= 5 /\ Answered < 5 + MaxDeliveries
      BY <1>0, <1>5, <3>2, Directions, Opposite
    <3>3. CASE Answered = 5 + MaxDeliveries
      <4>1. e = Ending + 1
        <5>1. Ending = 11 + 2 * MaxDeliveries
          BY <1>0, <1>5, Steps
        <5> QED BY <1>0, <3>3, <5>1
      <4>2. ~Writing(Ending + 1)
        BY <1>0, Directions
      <4> HIDE DEF e
      <4> QED BY <4>1, <4>2
    <3> QED BY <1>0, <3>1, <3>2, <3>3
  <2> HIDE DEF e
  <2> QED BY <1>1, <1>5, <2>1, <2>2
<1> QED BY <1>2, <1>3, <1>4, <1>5 DEF Place

\* The client writes, and is one step further ahead.
LEMMA OrderlyWrites ==
  ASSUME Data, Orderly, ClientWrites
  PROVE  Orderly'
<1>1. /\ Commanded /\ command' = command /\ inside' = inside /\ splits' = splits /\ size' = size
      /\ toClient' = toClient /\ state' = state /\ reading' = reading /\ buf' = buf
      /\ stored' = stored /\ sent' = sent
  BY DataCommanded DEF ClientWrites, client
<1>2. PICK v \in 1..(Ending + 1) : Place(v) /\ Apart(v) /\ Stored(v)
  BY DEF Orderly, Ending
<1>3. v \in Nat /\ pos \in Nat /\ Ending' = Ending
  BY <1>1, <1>2, Numbers, SameScript DEF Data, Ending
<1>4. Place(v)' /\ Stored(v)' /\ IsPrefix(sent, Awaited)' /\ (reading' => splits')
  <2>1. Awaited' = Awaited /\ Publication' = Publication /\ ChannelClose' = ChannelClose
    BY <1>1, SameScript
  <2>2. Place(v)'
    BY <1>1, <1>2, <2>1
       DEF Place, OpeningPlace, DeclarePlace, PublishPlace, ConsumePlace, ClosingPlace, Answered
  <2>3. Stored(v)'
    BY <1>1, <1>2 DEF Stored, MessageTaken
  <2> QED BY <1>1, <2>1, <2>2, <2>3 DEF Orderly
<1> DEFINE w == Bytes(Step(pos).frames)
<1>5. Writing(pos) /\ pos' = pos + 1 /\ toServer' = toServer \o w
  BY DEF ClientWrites, Writing, Step
<1>6. w \in Seq(Byte)
  BY <1>1, <1>5, BytesTyped
<1>7. Unread' = Unread \o w
  <2> DEFINE x == IF reading THEN buf ELSE << >>
  <2>1. x \in Seq(Byte) /\ toServer \in Seq(Byte)
    BY DEF Data
  <2>2. Unread = x \o toServer /\ Unread' = x \o (toServer \o w)
    BY <1>1, <1>5 DEF Unread
  <2> HIDE DEF x, w
  <2> QED BY <1>6, <2>1, <2>2, ConcatAssociative
<1>8. Answered <= AwaitedLength
  BY <1>1, AwaitedIs, PrefixIs DEF Orderly, Data, Answered, AwaitedLength
<1>9. Apart(v)'
  <2>1. ~Answering(pos)
    BY <1>5, Opposite
  <2>2. ~(pos = v + 2 /\ Writing(v) /\ Writing(v + 1))
    BY <1>2, <1>3, <1>5, <1>8, NoThree
  <2>3. \/ pos = v /\ toClient = << >> /\ Unread = << >>
        \/ /\ pos = v + 1 /\ Writing(v)
           /\ toClient = << >> /\ Unread = Bytes(Step(v).frames)
    BY <1>2, <2>1, <2>2, Zenon DEF Apart
  <2>4. \A k : Step(k)' = Step(k) /\ (Writing(k)' <=> Writing(k))
                      /\ Bytes(Step(k).frames)' = Bytes(Step(k).frames)
    BY <1>1, SameScript
  <2>5. CASE pos = v /\ toClient = << >> /\ Unread = << >>
    <3>1. Unread' = w
      <4> HIDE DEF w
      <4> QED BY <1>6, <1>7, <2>5
    <3>2. pos' = v + 1 /\ Writing(v)' /\ toClient' = << >> /\ Unread' = Bytes(Step(v).frames)'
      BY <1>1, <1>5, <2>4, <2>5, <3>1, Zenon
    <3> QED BY <3>2 DEF Apart
  <2>6. CASE /\ pos = v + 1 /\ Writing(v)
             /\ toClient = << >> /\ Unread = Bytes(Step(v).frames)
    <3>1. pos' = v + 2
      BY <1>3, <1>5, <2>6
    <3>2. /\ Writing(v)' /\ Writing(v + 1)' /\ toClient' = << >>
          /\ Unread' = Bytes(Step(v).frames)' \o Bytes(Step(v + 1).frames)'
      BY <1>1, <1>5, <1>7, <2>4, <2>6, Zenon
    <3> QED BY <3>1, <3>2 DEF Apart
  <2> QED BY <2>3, <2>5, <2>6
<1> QED BY <1>2, <1>3, <1>4, <1>9 DEF Orderly, Ending

\* Looking at the ring and at an empty queue changes nothing.
LEMMA OrderlyTurns ==
  ASSUME Data, Orderly, state \in {"SUBSCRIBED", "CLIENT_TURN"},
                      state' \in {"SUBSCRIBED", "CLIENT_TURN"},
         UNCHANGED << client, pos, toServer, toClient, reading, buf, open, stored, sent >>
  PROVE  Orderly'
<1>1. /\ Commanded /\ command' = command /\ inside' = inside /\ splits' = splits /\ size' = size
      /\ pos' = pos /\ toServer' = toServer
      /\ toClient' = toClient /\ reading' = reading /\ buf' = buf
      /\ stored' = stored /\ sent' = sent
  BY DataCommanded DEF client
<1>2. PICK v \in 1..(Ending + 1) : Place(v) /\ Apart(v) /\ Stored(v)
  BY DEF Orderly, Ending
<1>3. Ending' = Ending /\ Unread' = Unread /\ Awaited' = Awaited /\ Answered' = Answered
  BY <1>1, SameScript, SameUnread DEF Ending, Answered
<1>4. command = "consume" /\ ConsumePlace(v) /\ v = 2 * Answered + 2 /\ Answered >= 5
  BY <1>2 DEF Place, OpeningPlace, DeclarePlace, PublishPlace, ConsumePlace, ClosingPlace
<1>5. Place(v)'
  BY <1>1, <1>3, <1>4 DEF Place, ConsumePlace
<1>6. Stored(v)'
  BY <1>1, <1>2, <1>4 DEF Stored
<1>7. Apart(v)'
  <2>1. \A k : /\ Step(k)' = Step(k) /\ (Writing(k)' <=> Writing(k)) /\ (Answering(k)' <=> Answering(k))
               /\ Bytes(Step(k).frames)' = Bytes(Step(k).frames)
    BY <1>1, SameScript
  <2> QED BY <1>1, <1>2, <1>3, <2>1 DEF Apart
<1> QED BY <1>1, <1>2, <1>3, <1>5, <1>6, <1>7 DEF Orderly, Ending

\* How many deliveries the thread has counted: all its frames after the first five.
LEMMA DeliveriesCounted ==
  ASSUME Data, Orderly, command = "consume", Answered >= 5
  PROVE  Cardinality({i \in DOMAIN sent : sent[i] = "Basic.Deliver"}) = Answered - 5
<1>1. Commanded /\ Answered \in Nat /\ MaxDeliveries \in Nat
  BY DataCommanded, Numbers, ConnectionAssumption
<1>2. sent \in Seq(Replies) /\ Awaited \in Seq(Replies)
  BY <1>1, AwaitedIs DEF Data
<1>3. Answered <= AwaitedLength /\ \A i \in 1..Answered : sent[i] = Awaited[i]
  BY <1>2, PrefixIs DEF Orderly, Answered, AwaitedLength
<1>4. AwaitedLength = 5 + MaxDeliveries
  BY <1>1, AwaitedIs
<1>5. DOMAIN sent = 1..Answered
  BY <1>2 DEF Answered
<1>6. /\ Awaited[1] # "Basic.Deliver" /\ Awaited[2] # "Basic.Deliver" /\ Awaited[3] # "Basic.Deliver"
      /\ Awaited[4] # "Basic.Deliver" /\ Awaited[5] # "Basic.Deliver"
  BY <1>1, AwaitedIs
<1>7. \A k \in 6..(5 + MaxDeliveries) : Awaited[k] = "Basic.Deliver"
  BY <1>1, AwaitedIs
<1>8. \A i \in 1..Answered : sent[i] = "Basic.Deliver" <=> i \in 6..Answered
  <2> SUFFICES ASSUME NEW i \in 1..Answered PROVE sent[i] = "Basic.Deliver" <=> i \in 6..Answered
    OBVIOUS
  <2>1. i = 1 \/ i = 2 \/ i = 3 \/ i = 4 \/ i = 5 \/ i \in 6..Answered
    BY <1>1
  <2>2. i \in 6..Answered => i \in 6..(5 + MaxDeliveries)
    BY <1>1, <1>3, <1>4
  <2>3. i \in 1..5 => i \notin 6..Answered
    OBVIOUS
  <2>4. 1 \in 1..5 /\ 2 \in 1..5 /\ 3 \in 1..5 /\ 4 \in 1..5 /\ 5 \in 1..5
    OBVIOUS
  <2>5. sent[i] = Awaited[i]
    BY <1>3
  <2> QED BY <1>6, <1>7, <2>1, <2>2, <2>3, <2>4, <2>5
<1>9. {i \in DOMAIN sent : sent[i] = "Basic.Deliver"} = 6..Answered
  BY <1>1, <1>5, <1>8
<1>10. Cardinality(6..Answered) = Answered - 5
  <2>1. Cardinality(6..Answered) = IF 6 > Answered THEN 0 ELSE Answered - 6 + 1
    BY <1>1, FS_Interval
  <2> QED BY <1>1, <2>1
<1> QED BY <1>9, <1>10

\* A delivery is what the client waits for, or will when it has read Consume-Ok.
LEMMA OrderlyDelivers ==
  ASSUME Data, Orderly, state = "CLIENT_TURN", state' = "WAIT_BASIC_ACK",
         Cardinality({i \in DOMAIN sent : sent[i] = "Basic.Deliver"}) < MaxDeliveries,
         Send("Basic.Deliver"),
         UNCHANGED << client, pos, toServer, reading, buf, open, stored >>
  PROVE  Orderly'
<1>1. /\ Commanded /\ command' = command /\ inside' = inside /\ splits' = splits /\ size' = size
      /\ pos' = pos /\ toServer' = toServer /\ reading' = reading /\ buf' = buf
      /\ stored' = stored
      /\ toClient' = Append(toClient, "Basic.Deliver") /\ sent' = Append(sent, "Basic.Deliver")
  BY DataCommanded DEF client, Send
<1>2. PICK v \in 1..(Ending + 1) : Place(v) /\ Apart(v) /\ Stored(v)
  BY DEF Orderly, Ending
<1>3. Ending' = Ending /\ Unread' = Unread /\ Awaited' = Awaited /\ AwaitedLength = AwaitedLength
  BY <1>1, SameScript, SameUnread DEF Ending
<1>4. command = "consume" /\ ConsumePlace(v) /\ v = 2 * Answered + 2 /\ Answered >= 5
  BY <1>2 DEF Place, OpeningPlace, DeclarePlace, PublishPlace, ConsumePlace, ClosingPlace
<1>5. Answered \in Nat /\ MaxDeliveries \in Nat /\ sent \in Seq(Replies) /\ "Basic.Deliver" \in Replies
  BY Numbers, ConnectionAssumption, RepliesAre DEF Data
<1>6. Answered < 5 + MaxDeliveries
  <2>1. Cardinality({i \in DOMAIN sent : sent[i] = "Basic.Deliver"}) = Answered - 5
    BY <1>4, DeliveriesCounted
  <2> QED BY <1>5, <2>1
<1>7. Answered' = Answered + 1
  BY <1>1, <1>5 DEF Answered
<1>8. Place(v + 1)'
  <2>1. v + 1 = 2 * Answered' + 1 /\ Answered' >= 6
    BY <1>4, <1>5, <1>7
  <2> QED BY <1>1, <1>4, <2>1 DEF Place, ConsumePlace
<1>9. Stored(v + 1)'
  BY <1>1, <1>2, <1>4 DEF Stored
<1>10. IsPrefix(sent, Awaited)'
  <2>1. AwaitedLength = 5 + MaxDeliveries /\ \A k \in 6..(5 + MaxDeliveries) : Awaited[k] = "Basic.Deliver"
    BY <1>1, <1>4, AwaitedIs
  <2>2. Answered + 1 \in 6..(5 + MaxDeliveries)
    BY <1>4, <1>5, <1>6
  <2>3. "Basic.Deliver" = Awaited[Answered + 1] /\ Answered < AwaitedLength
    BY <1>6, <2>1, <2>2
  <2>4. /\ Awaited \in Seq(Replies) /\ IsPrefix(sent, Awaited) /\ Len(sent) < Len(Awaited)
        /\ "Basic.Deliver" = Awaited[Len(sent) + 1]
    BY <1>1, <2>3, AwaitedIs DEF Orderly, AwaitedLength, Answered
  <2>5. IsPrefix(Append(sent, "Basic.Deliver"), Awaited)
    BY <1>5, <2>4, PrefixAppend
  <2> QED BY <1>1, <1>3, <2>5
<1>11. Answering(v) /\ Step(v) = Await("Basic.Deliver") /\ v \in 12..Ending /\ ~Writing(v)
  <2>1. Answering(2 * Answered + 2)
    BY <1>1, <1>4, <1>5, <1>6, Directions
  <2>2. Step(2 * Answered + 2) = Await("Basic.Deliver") /\ 2 * Answered + 2 \in 12..Ending
    BY <1>1, <1>4, <1>5, <1>6, Steps
  <2> QED BY <1>4, <2>1, <2>2, Opposite
<1>12. ~(Answering(v - 2) /\ Answering(v - 1))
  <2>1. CASE Answered = 5
    <3>1. v - 2 = 10
      BY <1>4, <2>1
    <3>2. ~Answering(10)
      BY <1>1, Directions, Opposite
    <3> QED BY <3>1, <3>2
  <2>2. CASE Answered > 5
    <3> DEFINE n == Answered - 1
    <3>1. n \in Nat /\ n >= 5 /\ n < 5 + MaxDeliveries /\ v - 1 = 2 * n + 3
      BY <1>4, <1>5, <1>6, <2>2
    <3> HIDE DEF n
    <3>2. Writing(2 * n + 3)
      BY <1>1, <1>4, <3>1, Directions
    <3> QED BY <3>1, <3>2, Opposite
  <2> QED BY <1>4, <1>5, <2>1, <2>2
<1>13. Apart(v + 1)'
  <2>1. \A k : Step(k)' = Step(k) /\ (Answering(k)' <=> Answering(k))
    BY <1>1, SameScript
  <2>2. \/ pos = v /\ toClient = << >> /\ Unread = << >>
        \/ /\ pos = v - 1 /\ Answering(v - 1)
           /\ toClient = Step(v - 1).frames /\ Unread = << >>
    BY <1>2, <1>11, <1>12, Zenon DEF Apart
  <2>3. Step(v).frames = << "Basic.Deliver" >>
    BY <1>11, Opposite
  <2>4. v \in Nat /\ (v + 1) - 1 = v /\ (v + 1) - 2 = v - 1
    BY <1>4, <1>5
  <2>5. CASE pos = v /\ toClient = << >> /\ Unread = << >>
    <3>1. toClient' = << "Basic.Deliver" >>
      BY <1>1, <2>5
    <3>2. pos' = (v + 1) - 1 /\ Answering((v + 1) - 1)'
                        /\ toClient' = Step((v + 1) - 1).frames' /\ Unread' = << >>
      BY <1>1, <1>3, <1>11, <2>1, <2>3, <2>4, <2>5, <3>1
    <3> QED BY <3>2 DEF Apart
  <2>6. CASE /\ pos = v - 1 /\ Answering(v - 1)
             /\ toClient = Step(v - 1).frames /\ Unread = << >>
    <3>1. toClient' = Step(v - 1).frames \o Step(v).frames
      <4>1. toClient \in Seq(Replies)
        BY DEF Data
      <4>2. Append(toClient, "Basic.Deliver") = toClient \o << "Basic.Deliver" >>
        BY <1>5, <4>1, AppendIsConcat
      <4> QED BY <1>1, <2>3, <2>6, <4>2
    <3>2. /\ pos' = (v + 1) - 2 /\ Answering((v + 1) - 2)' /\ Answering((v + 1) - 1)'
          /\ toClient' = Step((v + 1) - 2).frames' \o Step((v + 1) - 1).frames' /\ Unread' = << >>
      BY <1>1, <1>3, <1>11, <2>1, <2>4, <2>6, <3>1
    <3> QED BY <3>2 DEF Apart
  <2> QED BY <2>2, <2>5, <2>6
<1>14. v + 1 \in 1..(Ending' + 1)
  BY <1>3, <1>11, Numbers
<1> QED BY <1>1, <1>8, <1>9, <1>10, <1>13, <1>14 DEF Orderly, Ending

\* The thread has taken the message of a publish.
LEMMA OrderlyPublishes ==
  ASSUME Data, Tame, Orderly, do_RCVD_BASIC_PUBLISH
  PROVE  (Orderly \/ Early \/ Astray)'
<1>1. /\ Commanded /\ command' = command /\ inside' = inside /\ splits' = splits /\ size' = size
      /\ pos' = pos /\ toServer' = toServer /\ toClient' = toClient /\ reading' = reading /\ buf' = buf
      /\ sent' = sent /\ state = "RCVD_BASIC_PUBLISH"
      /\ stored' = Append(stored, Extracted(buf))
      /\ state' = Goto(state, IF CloseRead(buf) THEN 1 ELSE 0)
  BY DataCommanded DEF do_RCVD_BASIC_PUBLISH, client, Return
<1>2. PICK v \in 1..(Ending + 1) : Place(v) /\ Apart(v) /\ Stored(v)
  BY DEF Orderly, Ending
<1>3. /\ Ending' = Ending /\ Unread' = Unread /\ Awaited' = Awaited /\ Answered' = Answered
      /\ Publication' = Publication /\ ChannelClose' = ChannelClose
  BY <1>1, SameScript, SameUnread DEF Ending, Answered
<1>4. /\ command = "publish" /\ Answered = 4
      /\ \/ v = 11 /\ buf = Publication
         \/ v = 12 /\ buf = Publication \o ChannelClose
  BY <1>1, <1>2 DEF Place, OpeningPlace, DeclarePlace, PublishPlace, ConsumePlace, ClosingPlace
<1>5. inside \subseteq PublishFrames /\ ~reading
  BY <1>4 DEF Tame, Orderly
<1>6. PICK n \in {6, 8, 10, 12, 14} : /\ PublishRead(buf, n)
                                      /\ inside = {} /\ v = 11 => n = 6
                                      /\ inside = {} /\ v = 12 => n = 8
  <2>1. PICK m \in {6, 8, 10, 12} :
          /\ PublishRead(Publication, m) /\ PublishRead(Publication \o ChannelClose, m + 2)
          /\ inside = {} => m = 6
    BY <1>5, PublicationRead
  <2>2. CASE v = 11 /\ buf = Publication
    <3>1. PublishRead(buf, m)
      BY <2>1, <2>2, Zenon
    <3> QED BY <2>1, <2>2, <3>1
  <2>3. CASE v = 12 /\ buf = Publication \o ChannelClose
    <3>1. PublishRead(buf, m + 2)
      BY <2>1, <2>3, Zenon
    <3>2. m + 2 \in {6, 8, 10, 12, 14} /\ (inside = {} => m + 2 = 8)
      BY <2>1
    <3> QED BY <2>3, <3>1, <3>2
  <2> QED BY <1>4, <2>2, <2>3
<1>7. stored' = << MessageTaken >>
  <2>1. stored = << >>
    BY <1>1, <1>2 DEF Stored
  <2>2. Extracted(buf) = MessageTaken
    BY <1>6, PublishTaken
  <2> HIDE DEF Extracted
  <2> DEFINE x == MessageTaken
  <2>3. stored' = Append(<< >>, x)
    BY <1>1, <2>1, <2>2
  <2> HIDE DEF x
  <2>4. stored' = << x >>
    BY <2>3
  <2> QED BY <2>4 DEF x
<1>8. MessageTaken' = MessageTaken
  BY <1>1 DEF MessageTaken
<1>9. CASE inside # {}
  <2>1. state' \in {"WAIT_CHANNEL_CLOSE", "RCVD_CONNECTION_CLOSE"}
    BY <1>1, GotoIs
  <2> QED BY <1>1, <1>4, <1>7, <1>8, <1>9, <2>1 DEF Astray
<1>10. CASE inside = {} /\ v = 11
  <2>1. state' = "WAIT_CHANNEL_CLOSE"
    <3>1. Count(buf) = 3
      BY <1>6, <1>10, PublishTaken
    <3> QED BY <1>1, <3>1, GotoIs DEF CloseRead
  <2>2. Place(v)'
    BY <1>1, <1>3, <1>4, <1>10, <2>1 DEF Place, PublishPlace, ClosingPlace
  <2>3. Stored(v)'
    BY <1>1, <1>4, <1>7, <1>8, <1>10, <2>1 DEF Stored
  <2>4. Apart(v)'
    <3>1. \A k : /\ Step(k)' = Step(k) /\ (Writing(k)' <=> Writing(k))
                        /\ (Answering(k)' <=> Answering(k))
                 /\ Bytes(Step(k).frames)' = Bytes(Step(k).frames)
      BY <1>1, SameScript
    <3> QED BY <1>1, <1>2, <1>3, <3>1 DEF Apart
  <2>5. IsPrefix(sent, Awaited)' /\ (reading' => splits')
    BY <1>1, <1>3 DEF Orderly
  <2> QED BY <1>2, <1>3, <2>2, <2>3, <2>4, <2>5 DEF Orderly, Ending
<1>11. CASE inside = {} /\ v = 12
  <2>1. state' = "RCVD_CONNECTION_CLOSE"
    <3>1. Count(buf) = 4
      BY <1>6, <1>11, PublishTaken
    <3> QED BY <1>1, <3>1, GotoIs DEF CloseRead
  <2>2. pos = 12 /\ toClient = << >> /\ Unread = << >>
    <3>1. ~Answering(11) /\ ~Writing(12) /\ 12 - 1 = 11
      BY <1>1, <1>4, Directions, Opposite
    <3> QED BY <1>2, <1>11, <3>1, Zenon DEF Apart
  <2>3. toServer = << >>
    <3>1. toServer \in Seq(Byte)
      BY DEF Data
    <3>2. << >> \o toServer = toServer
      BY <3>1
    <3> QED BY <1>5, <2>2, <3>2 DEF Unread
  <2>4. sent = Greetings
    <3>1. sent \in Seq(Replies) /\ Awaited \in Seq(Replies) /\ Len(sent) = 4
      BY <1>1, <1>4, AwaitedIs DEF Data, Answered
    <3>2. \A i \in 1..4 : sent[i] = Awaited[i]
      <4>1. sent \in Seq(Replies) /\ Awaited \in Seq(Replies) /\ IsPrefix(sent, Awaited)
        BY <3>1 DEF Orderly
      <4>2. \A i \in 1..Answered : sent[i] = Awaited[i]
        BY <4>1, PrefixIs DEF Answered
      <4> QED BY <1>4, <4>2
    <3>3. /\ Awaited[1] = "Connection.Start" /\ Awaited[2] = "Connection.Tune"
          /\ Awaited[3] = "Connection.Open-Ok" /\ Awaited[4] = "Channel.Open-Ok"
      BY <1>1, AwaitedIs
    <3>4. /\ Greetings \in Seq(Replies) /\ Len(Greetings) = 4
          /\ Greetings[1] = "Connection.Start" /\ Greetings[2] = "Connection.Tune"
          /\ Greetings[3] = "Connection.Open-Ok" /\ Greetings[4] = "Channel.Open-Ok"
      <4>1. /\ "Connection.Start" \in Replies /\ "Connection.Tune" \in Replies
            /\ "Connection.Open-Ok" \in Replies /\ "Channel.Open-Ok" \in Replies
        BY RepliesAre DEF Answer
      <4> QED BY <4>1 DEF Greetings
    <3>5. \A i \in 1..4 : i = 1 \/ i = 2 \/ i = 3 \/ i = 4
      OBVIOUS
    <3>6. \A i \in 1..4 : sent[i] = Greetings[i]
      BY <3>2, <3>3, <3>4, <3>5
    <3> QED BY <3>1, <3>4, <3>6, SeqEqual
  <2> QED BY <1>1, <1>3, <1>4, <1>5, <1>7, <1>8, <1>11, <2>1, <2>2, <2>3, <2>4 DEF Early
<1> QED BY <1>4, <1>9, <1>10, <1>11

-----------------------------------------------------------------------------
\* The thread reads.

\* The code with which a function returns that has read the frame it waits for.
ReadCode == IF state = "WAIT_COMMAND" /\ command = "consume" THEN 2 ELSE 0

\* A function that reads is at the step where the client writes what it waits for.
ReadPlacedAt(v, f) ==
  /\ f \in Singles /\ Writing(v) /\ Step(v).frames = << f >> /\ v \in 1..Ending
  /\ f \in Expected[state] /\ (f = "Protocol.Header" <=> state = "WAIT_HEADER")
  /\ Writing(v + 1) => state = "WAIT_TUNE_OK" /\ v = 5
  /\ state = "WAIT_COMMAND" => f = IF command = "consume" THEN "Basic.Consume" ELSE "Queue.Declare"
  /\ command = "publish" => v # 10

\* Every place where the thread reads is one of these, the publish apart.
LEMMA ReadPlaced ==
  ASSUME Data, NEW v \in Nat, Place(v), state \in Wait, Answered <= AwaitedLength,
         ~(state = "WAIT_COMMAND" /\ command = "publish")
  PROVE  /\ \E f : ReadPlacedAt(v, f)
         /\ state' = Goto(state, ReadCode) /\ command' = command /\ sent' = sent =>
              Place(v + 1)' /\ state' # "RCVD_BASIC_PUBLISH"
<1> DEFINE Goal == /\ \E f : ReadPlacedAt(v, f)
                   /\ state' = Goto(state, ReadCode) /\ command' = command /\ sent' = sent =>
                        Place(v + 1)' /\ state' # "RCVD_BASIC_PUBLISH"
<1>0. Commanded /\ Answered \in Nat /\ MaxDeliveries \in Nat /\ Ending \in Nat /\ Ending >= 11
  BY DataCommanded, Numbers, ConnectionAssumption
<1>a. /\ command = "declare" => Ending = 15
      /\ command = "publish" => Ending = 14
      /\ command = "consume" => Ending = 11 + 2 * MaxDeliveries
  BY <1>0, Steps
<1>b. /\ Writing(1) /\ ~Writing(2) /\ Writing(3) /\ ~Writing(4) /\ Writing(5) /\ Writing(6)
      /\ ~Writing(7) /\ Writing(8) /\ ~Writing(9) /\ Writing(10)
      /\ command = "declare" => ~Writing(11) /\ Writing(12) /\ ~Writing(13) /\ Writing(14)
                          /\ ~Writing(15)
      /\ command = "publish" => Writing(11) /\ ~Writing(12) /\ Writing(13) /\ ~Writing(14)
      /\ command = "consume" => ~Writing(11)
  BY <1>0, Directions, Opposite
<1>1. CASE state = "WAIT_HEADER"
  <2>1. v = 1
    BY <1>1 DEF Place, OpeningPlace, DeclarePlace, PublishPlace, ConsumePlace, ClosingPlace
  <2>2. "Protocol.Header" \in Singles /\ "Protocol.Header" \in Expected[state]
    BY <1>1 DEF Singles, Frames, Expected
  <2>3. Writing(1) /\ Step(1).frames = << "Protocol.Header" >>
    BY <1>0, <1>b, <1>1, Steps, Opposite
  <2>4. 1 \in 1..Ending
    BY <1>0, <1>a, <1>1
  <2>5. ReadPlacedAt(1, "Protocol.Header")
    <3>1. 1 + 1 = 2 /\ ~Writing(2)
      BY <1>b, <1>1
    <3> QED BY <1>1, <2>2, <2>3, <2>4, <3>1 DEF ReadPlacedAt
  <2>6. ASSUME state' = Goto(state, ReadCode), command' = command, sent' = sent
        PROVE  Place(1 + 1)' /\ state' # "RCVD_BASIC_PUBLISH"
    <3>1. state' = "RCVD_HEADER"
      BY <1>1, <2>6, GotoIs DEF ReadCode
    <3>2. Answered' = Answered
      BY <2>6 DEF Answered
    <3> QED BY <1>1, <2>1, <2>6, <3>1, <3>2
               DEF Place, OpeningPlace, DeclarePlace, PublishPlace, ConsumePlace, ClosingPlace
  <2> QED BY <2>1, <2>5, <2>6
<1>2. CASE state = "WAIT_START_OK"
  <2>1. v = 3
    BY <1>2 DEF Place, OpeningPlace, DeclarePlace, PublishPlace, ConsumePlace, ClosingPlace
  <2>2. "Connection.Start-Ok" \in Singles /\ "Connection.Start-Ok" \in Expected[state]
    BY <1>2 DEF Singles, Frames, Expected
  <2>3. Writing(3) /\ Step(3).frames = << "Connection.Start-Ok" >>
    BY <1>0, <1>b, <1>2, Steps, Opposite
  <2>4. 3 \in 1..Ending
    BY <1>0, <1>a, <1>2
  <2>5. ReadPlacedAt(3, "Connection.Start-Ok")
    <3>1. 3 + 1 = 4 /\ ~Writing(4)
      BY <1>b, <1>2
    <3> QED BY <1>2, <2>2, <2>3, <2>4, <3>1 DEF ReadPlacedAt
  <2>6. ASSUME state' = Goto(state, ReadCode), command' = command, sent' = sent
        PROVE  Place(3 + 1)' /\ state' # "RCVD_BASIC_PUBLISH"
    <3>1. state' = "RCVD_START_OK"
      BY <1>2, <2>6, GotoIs DEF ReadCode
    <3>2. Answered' = Answered
      BY <2>6 DEF Answered
    <3> QED BY <1>2, <2>1, <2>6, <3>1, <3>2
               DEF Place, OpeningPlace, DeclarePlace, PublishPlace, ConsumePlace, ClosingPlace
  <2> QED BY <2>1, <2>5, <2>6
<1>3. CASE state = "WAIT_TUNE_OK"
  <2>1. v = 5
    BY <1>3 DEF Place, OpeningPlace, DeclarePlace, PublishPlace, ConsumePlace, ClosingPlace
  <2>2. "Connection.Tune-Ok" \in Singles /\ "Connection.Tune-Ok" \in Expected[state]
    BY <1>3 DEF Singles, Frames, Expected
  <2>3. Writing(5) /\ Step(5).frames = << "Connection.Tune-Ok" >>
    BY <1>0, <1>b, <1>3, Steps, Opposite
  <2>4. 5 \in 1..Ending
    BY <1>0, <1>a, <1>3
  <2>5. ReadPlacedAt(5, "Connection.Tune-Ok")
    BY <1>3, <2>2, <2>3, <2>4 DEF ReadPlacedAt
  <2>6. ASSUME state' = Goto(state, ReadCode), command' = command, sent' = sent
        PROVE  Place(5 + 1)' /\ state' # "RCVD_BASIC_PUBLISH"
    <3>1. state' = "WAIT_CONNECTION_OPEN"
      BY <1>3, <2>6, GotoIs DEF ReadCode
    <3>2. Answered' = Answered
      BY <2>6 DEF Answered
    <3> QED BY <1>3, <2>1, <2>6, <3>1, <3>2
               DEF Place, OpeningPlace, DeclarePlace, PublishPlace, ConsumePlace, ClosingPlace
  <2> QED BY <2>1, <2>5, <2>6
<1>4. CASE state = "WAIT_CONNECTION_OPEN"
  <2>1. v = 6
    BY <1>4 DEF Place, OpeningPlace, DeclarePlace, PublishPlace, ConsumePlace, ClosingPlace
  <2>2. "Connection.Open" \in Singles /\ "Connection.Open" \in Expected[state]
    BY <1>4 DEF Singles, Frames, Expected
  <2>3. Writing(6) /\ Step(6).frames = << "Connection.Open" >>
    BY <1>0, <1>b, <1>4, Steps, Opposite
  <2>4. 6 \in 1..Ending
    BY <1>0, <1>a, <1>4
  <2>5. ReadPlacedAt(6, "Connection.Open")
    <3>1. 6 + 1 = 7 /\ ~Writing(7)
      BY <1>b, <1>4
    <3> QED BY <1>4, <2>2, <2>3, <2>4, <3>1 DEF ReadPlacedAt
  <2>6. ASSUME state' = Goto(state, ReadCode), command' = command, sent' = sent
        PROVE  Place(6 + 1)' /\ state' # "RCVD_BASIC_PUBLISH"
    <3>1. state' = "RCVD_CONNECTION_OPEN"
      BY <1>4, <2>6, GotoIs DEF ReadCode
    <3>2. Answered' = Answered
      BY <2>6 DEF Answered
    <3> QED BY <1>4, <2>1, <2>6, <3>1, <3>2
               DEF Place, OpeningPlace, DeclarePlace, PublishPlace, ConsumePlace, ClosingPlace
  <2> QED BY <2>1, <2>5, <2>6
<1>5. CASE state = "WAIT_CHANNEL_OPEN"
  <2>1. v = 8
    BY <1>5 DEF Place, OpeningPlace, DeclarePlace, PublishPlace, ConsumePlace, ClosingPlace
  <2>2. "Channel.Open" \in Singles /\ "Channel.Open" \in Expected[state]
    BY <1>5 DEF Singles, Frames, Expected
  <2>3. Writing(8) /\ Step(8).frames = << "Channel.Open" >>
    BY <1>0, <1>b, <1>5, Steps, Opposite
  <2>4. 8 \in 1..Ending
    BY <1>0, <1>a, <1>5
  <2>5. ReadPlacedAt(8, "Channel.Open")
    <3>1. 8 + 1 = 9 /\ ~Writing(9)
      BY <1>b, <1>5
    <3> QED BY <1>5, <2>2, <2>3, <2>4, <3>1 DEF ReadPlacedAt
  <2>6. ASSUME state' = Goto(state, ReadCode), command' = command, sent' = sent
        PROVE  Place(8 + 1)' /\ state' # "RCVD_BASIC_PUBLISH"
    <3>1. state' = "RCVD_CHANNEL_OPEN"
      BY <1>5, <2>6, GotoIs DEF ReadCode
    <3>2. Answered' = Answered
      BY <2>6 DEF Answered
    <3> QED BY <1>5, <2>1, <2>6, <3>1, <3>2
               DEF Place, OpeningPlace, DeclarePlace, PublishPlace, ConsumePlace, ClosingPlace
  <2> QED BY <2>1, <2>5, <2>6
<1>6. CASE state = "WAIT_COMMAND"
  <2>0. command = "declare" \/ command = "consume"
    BY <1>0, <1>6
       DEF Commanded, Place, OpeningPlace, DeclarePlace, PublishPlace, ConsumePlace, ClosingPlace
  <2>1. CASE command = "declare"
    <3>1. v = 10
      BY <1>6, <2>1
         DEF Place, OpeningPlace, DeclarePlace, PublishPlace, ConsumePlace, ClosingPlace
    <3>2. "Queue.Declare" \in Singles /\ "Queue.Declare" \in Expected[state]
      BY <1>6, <2>1 DEF Singles, Frames, Expected
    <3>3. Writing(10) /\ Step(10).frames = << "Queue.Declare" >>
      BY <1>0, <1>b, <1>6, <2>1, Steps, Opposite
    <3>4. 10 \in 1..Ending
      BY <1>0, <1>a, <1>6, <2>1
    <3>5. ReadPlacedAt(10, "Queue.Declare")
      <4>1. 10 + 1 = 11 /\ ~Writing(11)
        BY <1>b, <1>6, <2>1
      <4> QED BY <1>6, <2>1, <3>2, <3>3, <3>4, <4>1 DEF ReadPlacedAt
    <3>6. ASSUME state' = Goto(state, ReadCode), command' = command, sent' = sent
          PROVE  Place(10 + 1)' /\ state' # "RCVD_BASIC_PUBLISH"
      <4>1. state' = "RCVD_QUEUE_DECLARE"
        BY <1>6, <2>1, <3>6, GotoIs DEF ReadCode
      <4>2. Answered' = Answered
        BY <3>6 DEF Answered
      <4> QED BY <1>6, <2>1, <3>1, <3>6, <4>1, <4>2
                 DEF Place, OpeningPlace, DeclarePlace, PublishPlace, ConsumePlace, ClosingPlace
    <3> QED BY <3>1, <3>5, <3>6
  <2>2. CASE command = "consume"
    <3>1. v = 10
      BY <1>6, <2>2
         DEF Place, OpeningPlace, DeclarePlace, PublishPlace, ConsumePlace, ClosingPlace
    <3>2. "Basic.Consume" \in Singles /\ "Basic.Consume" \in Expected[state]
      BY <1>6, <2>2 DEF Singles, Frames, Expected
    <3>3. Writing(10) /\ Step(10).frames = << "Basic.Consume" >>
      BY <1>0, <1>b, <1>6, <2>2, Steps, Opposite
    <3>4. 10 \in 1..Ending
      BY <1>0, <1>a, <1>6, <2>2
    <3>5. ReadPlacedAt(10, "Basic.Consume")
      <4>1. 10 + 1 = 11 /\ ~Writing(11)
        BY <1>b, <1>6, <2>2
      <4> QED BY <1>6, <2>2, <3>2, <3>3, <3>4, <4>1 DEF ReadPlacedAt
    <3>6. ASSUME state' = Goto(state, ReadCode), command' = command, sent' = sent
          PROVE  Place(10 + 1)' /\ state' # "RCVD_BASIC_PUBLISH"
      <4>1. state' = "RCVD_BASIC_CONSUME"
        BY <1>6, <2>2, <3>6, GotoIs DEF ReadCode
      <4>2. Answered' = Answered
        BY <3>6 DEF Answered
      <4> QED BY <1>6, <2>2, <3>1, <3>6, <4>1, <4>2
                 DEF Place, OpeningPlace, DeclarePlace, PublishPlace, ConsumePlace, ClosingPlace
    <3> QED BY <3>1, <3>5, <3>6
  <2> QED BY <2>0, <2>1, <2>2
<1>7. CASE state = "WAIT_CHANNEL_CLOSE"
  <2>0. command = "declare" \/ command = "publish"
    BY <1>0, <1>7
       DEF Commanded, Place, OpeningPlace, DeclarePlace, PublishPlace, ConsumePlace, ClosingPlace
  <2>1. CASE command = "declare"
    <3>1. v = 12
      BY <1>7, <2>1
         DEF Place, OpeningPlace, DeclarePlace, PublishPlace, ConsumePlace, ClosingPlace
    <3>2. "Channel.Close" \in Singles /\ "Channel.Close" \in Expected[state]
      BY <1>7, <2>1 DEF Singles, Frames, Expected
    <3>3. Writing(12) /\ Step(12).frames = << "Channel.Close" >>
      BY <1>0, <1>b, <1>7, <2>1, Steps, Opposite
    <3>4. 12 \in 1..Ending
      BY <1>0, <1>a, <1>7, <2>1
    <3>5. ReadPlacedAt(12, "Channel.Close")
      <4>1. 12 + 1 = 13 /\ ~Writing(13)
        BY <1>b, <1>7, <2>1
      <4> QED BY <1>7, <2>1, <3>2, <3>3, <3>4, <4>1 DEF ReadPlacedAt
    <3>6. ASSUME state' = Goto(state, ReadCode), command' = command, sent' = sent
          PROVE  Place(12 + 1)' /\ state' # "RCVD_BASIC_PUBLISH"
      <4>1. state' = "RCVD_CHANNEL_CLOSE"
        BY <1>7, <2>1, <3>6, GotoIs DEF ReadCode
      <4>2. Answered' = Answered
        BY <3>6 DEF Answered
      <4> QED BY <1>7, <2>1, <3>1, <3>6, <4>1, <4>2
                 DEF Place, OpeningPlace, DeclarePlace, PublishPlace, ConsumePlace, ClosingPlace
    <3> QED BY <3>1, <3>5, <3>6
  <2>2. CASE command = "publish"
    <3>1. v = 11
      BY <1>7, <2>2
         DEF Place, OpeningPlace, DeclarePlace, PublishPlace, ConsumePlace, ClosingPlace
    <3>2. "Channel.Close" \in Singles /\ "Channel.Close" \in Expected[state]
      BY <1>7, <2>2 DEF Singles, Frames, Expected
    <3>3. Writing(11) /\ Step(11).frames = << "Channel.Close" >>
      BY <1>0, <1>b, <1>7, <2>2, Steps, Opposite
    <3>4. 11 \in 1..Ending
      BY <1>0, <1>a, <1>7, <2>2
    <3>5. ReadPlacedAt(11, "Channel.Close")
      <4>1. 11 + 1 = 12 /\ ~Writing(12)
        BY <1>b, <1>7, <2>2
      <4> QED BY <1>7, <2>2, <3>2, <3>3, <3>4, <4>1 DEF ReadPlacedAt
    <3>6. ASSUME state' = Goto(state, ReadCode), command' = command, sent' = sent
          PROVE  Place(11 + 1)' /\ state' # "RCVD_BASIC_PUBLISH"
      <4>1. state' = "RCVD_CHANNEL_CLOSE"
        BY <1>7, <2>2, <3>6, GotoIs DEF ReadCode
      <4>2. Answered' = Answered
        BY <3>6 DEF Answered
      <4> QED BY <1>7, <2>2, <3>1, <3>6, <4>1, <4>2
                 DEF Place, OpeningPlace, DeclarePlace, PublishPlace, ConsumePlace, ClosingPlace
    <3> QED BY <3>1, <3>5, <3>6
  <2> QED BY <2>0, <2>1, <2>2
<1>8. CASE state = "WAIT_CONNECTION_CLOSE"
  <2>0. command = "declare" \/ command = "publish"
    BY <1>0, <1>8
       DEF Commanded, Place, OpeningPlace, DeclarePlace, PublishPlace, ConsumePlace, ClosingPlace
  <2>1. CASE command = "declare"
    <3>1. v = 14
      BY <1>8, <2>1
         DEF Place, OpeningPlace, DeclarePlace, PublishPlace, ConsumePlace, ClosingPlace
    <3>2. "Connection.Close" \in Singles /\ "Connection.Close" \in Expected[state]
      BY <1>8, <2>1 DEF Singles, Frames, Expected
    <3>3. Writing(14) /\ Step(14).frames = << "Connection.Close" >>
      BY <1>0, <1>b, <1>8, <2>1, Steps, Opposite
    <3>4. 14 \in 1..Ending
      BY <1>0, <1>a, <1>8, <2>1
    <3>5. ReadPlacedAt(14, "Connection.Close")
      <4>1. 14 + 1 = 15 /\ ~Writing(15)
        BY <1>b, <1>8, <2>1
      <4> QED BY <1>8, <2>1, <3>2, <3>3, <3>4, <4>1 DEF ReadPlacedAt
    <3>6. ASSUME state' = Goto(state, ReadCode), command' = command, sent' = sent
          PROVE  Place(14 + 1)' /\ state' # "RCVD_BASIC_PUBLISH"
      <4>1. state' = "RCVD_CONNECTION_CLOSE"
        BY <1>8, <2>1, <3>6, GotoIs DEF ReadCode
      <4>2. Answered' = Answered
        BY <3>6 DEF Answered
      <4> QED BY <1>8, <2>1, <3>1, <3>6, <4>1, <4>2
                 DEF Place, OpeningPlace, DeclarePlace, PublishPlace, ConsumePlace, ClosingPlace
    <3> QED BY <3>1, <3>5, <3>6
  <2>2. CASE command = "publish"
    <3>1. v = 13
      BY <1>8, <2>2
         DEF Place, OpeningPlace, DeclarePlace, PublishPlace, ConsumePlace, ClosingPlace
    <3>2. "Connection.Close" \in Singles /\ "Connection.Close" \in Expected[state]
      BY <1>8, <2>2 DEF Singles, Frames, Expected
    <3>3. Writing(13) /\ Step(13).frames = << "Connection.Close" >>
      BY <1>0, <1>b, <1>8, <2>2, Steps, Opposite
    <3>4. 13 \in 1..Ending
      BY <1>0, <1>a, <1>8, <2>2
    <3>5. ReadPlacedAt(13, "Connection.Close")
      <4>1. 13 + 1 = 14 /\ ~Writing(14)
        BY <1>b, <1>8, <2>2
      <4> QED BY <1>8, <2>2, <3>2, <3>3, <3>4, <4>1 DEF ReadPlacedAt
    <3>6. ASSUME state' = Goto(state, ReadCode), command' = command, sent' = sent
          PROVE  Place(13 + 1)' /\ state' # "RCVD_BASIC_PUBLISH"
      <4>1. state' = "RCVD_CONNECTION_CLOSE"
        BY <1>8, <2>2, <3>6, GotoIs DEF ReadCode
      <4>2. Answered' = Answered
        BY <3>6 DEF Answered
      <4> QED BY <1>8, <2>2, <3>1, <3>6, <4>1, <4>2
                 DEF Place, OpeningPlace, DeclarePlace, PublishPlace, ConsumePlace, ClosingPlace
    <3> QED BY <3>1, <3>5, <3>6
  <2> QED BY <2>0, <2>1, <2>2
<1>9. CASE state = "WAIT_BASIC_ACK"
  <2>1. command = "consume" /\ v = 2 * Answered + 1 /\ Answered >= 6
    BY <1>9 DEF Place, OpeningPlace, DeclarePlace, PublishPlace, ConsumePlace, ClosingPlace
  <2> DEFINE n == Answered - 1
             f == "Basic.Ack"
  <2>2. n \in Nat /\ n >= 5 /\ n < 5 + MaxDeliveries /\ v = 2 * n + 3
    <3>1. AwaitedLength = 5 + MaxDeliveries
      BY <1>0, <2>1, AwaitedIs
    <3> QED BY <1>0, <2>1, <3>1
  <2> HIDE DEF n
  <2>3. Writing(v) /\ Step(v) = Write(<< f >>) /\ v \in 12..Ending
    BY <1>0, <2>1, <2>2, Directions, Steps
  <2>4. ~Writing(v + 1)
    <3>1. CASE Answered < 5 + MaxDeliveries
      <4>1. Answering(2 * Answered + 2)
        BY <1>0, <2>1, <3>1, Directions
      <4>2. 2 * Answered + 2 = v + 1
        BY <1>0, <2>1
      <4> QED BY <4>1, <4>2, Opposite
    <3>2. CASE Answered = 5 + MaxDeliveries
      <4>1. v + 1 = Ending + 1
        BY <1>0, <1>a, <2>1, <3>2
      <4> QED BY <1>0, <4>1, Directions
    <3>3. Answered <= 5 + MaxDeliveries
      BY <1>0, <2>1, AwaitedIs
    <3> QED BY <1>0, <3>1, <3>2, <3>3
  <2>5. f \in Singles /\ f \in Expected[state]
    BY <1>9 DEF Singles, Frames, Expected
  <2>6. Step(v).frames = << f >> /\ v \in 1..Ending /\ v # 10
    BY <1>0, <2>3, Opposite
  <2>7. ReadPlacedAt(v, f)
    BY <1>9, <2>1, <2>3, <2>4, <2>5, <2>6 DEF ReadPlacedAt
  <2>8. ASSUME state' = Goto(state, ReadCode), command' = command, sent' = sent
        PROVE  Place(v + 1)' /\ state' # "RCVD_BASIC_PUBLISH"
    <3>1. state' = "SUBSCRIBED"
      BY <1>9, <2>8, GotoIs DEF ReadCode
    <3>2. v + 1 = 2 * Answered' + 2 /\ Answered' >= 5
      BY <1>0, <2>1, <2>8 DEF Answered
    <3> QED BY <2>1, <2>8, <3>1, <3>2 DEF Place, ConsumePlace
  <2> QED BY <2>7, <2>8
<1> QED BY <1>1, <1>2, <1>3, <1>4, <1>5, <1>6, <1>7, <1>8, <1>9 DEF Wait

\* A read of the loop takes b, so that m bytes have been read, and leaves r.
Taking(b, r, m) ==
  /\ b \in Seq(Byte) /\ r \in Seq(Byte) /\ Unread \in Seq(Byte)
  /\ m \in 1..Len(Unread) /\ Len(b) = m /\ b \o r = Unread
  /\ \A i \in 1..m : b[i] = Unread[i]
  /\ splits \/ Unread[m].push
  /\ buf' = b /\ toServer' = r
  /\ ~Enough(b) => reading' = TRUE /\ state' = state /\ Unread' = Unread
  /\ Enough(b) => /\ reading' = FALSE /\ Unread' = r
                  /\ \E code \in Codes(b) : state' = Goto(state, code)

\* Every step of ServerReads is such a read.
LEMMA Takes ==
  ASSUME Data, ServerReads
  PROVE  \E b, r, m : Taking(b, r, m)
<1>1. PICK n \in DOMAIN toServer :
        /\ splits \/ toServer[n].push
        /\ LET b == (IF reading THEN buf ELSE << >>) \o SubSeq(toServer, 1, n) IN
           /\ buf' = b
           /\ reading' = ~Enough(b)
           /\ IF Enough(b) THEN \E code \in Codes(b) : Return(code) ELSE UNCHANGED state
        /\ toServer' = SubSeq(toServer, n + 1, Len(toServer))
  BY DEF ServerReads
<1> DEFINE x == IF reading THEN buf ELSE << >>
           b == x \o SubSeq(toServer, 1, n)
           r == SubSeq(toServer, n + 1, Len(toServer))
           m == Len(x) + n
<1>2. x \in Seq(Byte) /\ toServer \in Seq(Byte) /\ n \in 1..Len(toServer)
  <2>1. toServer \in Seq(Byte) /\ buf \in Seq(Byte) /\ << >> \in Seq(Byte)
    BY DEF Data
  <2> QED BY <2>1
<1>3. /\ b \in Seq(Byte) /\ r \in Seq(Byte) /\ Unread \in Seq(Byte)
      /\ m \in 1..Len(Unread) /\ Len(b) = m
      /\ b \o r = Unread /\ toServer[n] = Unread[m]
      /\ \A i \in 1..m : b[i] = Unread[i]
  <2>1. Unread = x \o toServer
    BY DEF Unread
  <2> HIDE DEF x
  <2>2. CutAt(Byte, x, toServer, n)
    BY <1>2, Cut
  <2> DEFINE u == x \o toServer
  <2>3. /\ b \in Seq(Byte) /\ r \in Seq(Byte) /\ u \in Seq(Byte)
        /\ m \in 1..Len(u) /\ Len(b) = m
        /\ b \o r = u /\ toServer[n] = u[m]
        /\ \A i \in 1..m : b[i] = u[i]
    BY <2>2, Zenon DEF CutAt
  <2> HIDE DEF b, r, u, m
  <2>4. Unread = u
    BY <2>1 DEF u
  <2> QED BY <2>3, <2>4
<1>4. /\ splits \/ Unread[m].push
      /\ buf' = b /\ toServer' = r /\ reading' = ~Enough(b)
      /\ IF Enough(b) THEN \E code \in Codes(b) : state' = Goto(state, code) ELSE state' = state
  <2>1. splits \/ toServer[n].push
    BY <1>1
  <2>2. splits \/ Unread[m].push
    BY <1>3, <2>1, Zenon
  <2>3. /\ buf' = b /\ toServer' = r /\ reading' = ~Enough(b)
        /\ IF Enough(b) THEN \E code \in Codes(b) : Return(code) ELSE UNCHANGED state
    BY <1>1
  <2> QED BY <2>2, <2>3, Zenon DEF Return
<1> HIDE DEF b, r, m, x
<1>5. CASE Enough(b)
  <2>1. reading' = FALSE
    BY <1>4, <1>5
  <2>2. Unread' = << >> \o r
    BY <1>4, <2>1 DEF Unread
  <2>3. << >> \o r = r
    BY <1>3
  <2>4. Unread' = r
    BY <2>2, <2>3
  <2>5. \E code \in Codes(b) : state' = Goto(state, code)
    BY <1>4, <1>5
  <2>6. Taking(b, r, m)
    BY <1>3, <1>4, <1>5, <2>1, <2>4, <2>5, Zenon DEF Taking
  <2> QED BY <2>6
<1>6. CASE ~Enough(b)
  <2>1. reading' = TRUE /\ state' = state
    BY <1>4, <1>6
  <2>2. Unread' = b \o r
    BY <1>4, <2>1 DEF Unread
  <2>3. Unread' = Unread
    BY <1>3, <2>2, Zenon
  <2>4. Taking(b, r, m)
    BY <1>3, <1>4, <1>6, <2>1, <2>3, Zenon DEF Taking
  <2> QED BY <2>4
<1> QED BY <1>5, <1>6

\* What no read changes.
Kept == command' = command /\ inside' = inside /\ splits' = splits /\ size' = size /\ pos' = pos
        /\ toClient' = toClient /\ stored' = stored /\ sent' = sent

\* The loop goes on: nothing has been taken for a frame.
LEMMA ReadsOn ==
  ASSUME Data, Orderly, Kept, NEW v \in 1..(Ending + 1), Place(v), Apart(v), Stored(v),
         state \in Wait, NEW b, NEW r, NEW m, Taking(b, r, m), ~Enough(b), ~Unread[m].push
  PROVE  Orderly'
<1>1. splits /\ splits' /\ state' = state /\ Unread' = Unread
  BY DEF Taking, Kept
<1>2. command' = command /\ inside' = inside
  BY DEF Kept
<1>3. Ending' = Ending /\ Awaited' = Awaited /\ Answered' = Answered
  BY <1>2, SameScript DEF Ending, Answered, Kept
<1>4. Place(v)'
  <2>1. state \notin {"RCVD_BASIC_PUBLISH"}
    BY DEF Wait
  <2> QED BY <1>1, <1>2, <1>3, <2>1
          DEF Place, OpeningPlace, DeclarePlace, PublishPlace, ConsumePlace, ClosingPlace
<1>5. Stored(v)'
  BY <1>1 DEF Stored, MessageTaken, Kept
<1>6. Apart(v)'
  <2>1. \A k : /\ Step(k)' = Step(k) /\ (Writing(k)' <=> Writing(k)) /\ (Answering(k)' <=> Answering(k))
               /\ Bytes(Step(k).frames)' = Bytes(Step(k).frames)
    BY <1>2, SameScript
  <2> QED BY <1>1, <2>1 DEF Apart, Kept
<1>7. IsPrefix(sent, Awaited)'
  BY <1>3 DEF Orderly, Kept
<1> QED BY <1>1, <1>3, <1>4, <1>5, <1>6, <1>7 DEF Orderly, Ending

\* The loop ends, and the thread is at the step w.
LEMMA ReadsUpTo ==
  ASSUME Data, Orderly, Kept, NEW v \in 1..(Ending + 1), Stored(v),
         state \in Wait, NEW b, NEW r, NEW m, Taking(b, r, m), Enough(b),
         NEW w \in 1..(Ending + 1), Place(w)',
         command = "publish" => IF state' = "RCVD_BASIC_PUBLISH" THEN v = 10 ELSE (v > 10 <=> w > 10),
         toClient = << >>,
         \/ pos = w /\ r = << >>
         \/ pos = w + 1 /\ Writing(w) /\ r = Bytes(Step(w).frames)
  PROVE  Orderly'
<1>1. reading' = FALSE /\ Unread' = r
  BY DEF Taking
<1>2. command' = command /\ inside' = inside
  BY DEF Kept
<1>3. Ending' = Ending /\ Awaited' = Awaited
  BY <1>2, SameScript DEF Ending
<1>4. Stored(w)'
  <2>1. state # "RCVD_BASIC_PUBLISH"
    BY DEF Wait
  <2>2. MessageTaken' = MessageTaken
    BY DEF Kept, MessageTaken
  <2>3. stored' = stored
    BY DEF Kept
  <2>4. CASE command = "publish" /\ state' # "RCVD_BASIC_PUBLISH"
    BY <1>2, <2>1, <2>2, <2>3, <2>4 DEF Stored
  <2>5. CASE ~(command = "publish" /\ state' # "RCVD_BASIC_PUBLISH")
    BY <1>2, <2>1, <2>2, <2>3, <2>5 DEF Stored
  <2> QED BY <2>4, <2>5
<1>5. Apart(w)'
  <2>1. Step(w)' = Step(w) /\ (Writing(w)' <=> Writing(w))
        /\ Bytes(Step(w).frames)' = Bytes(Step(w).frames)
    BY <1>2, SameScript
  <2> QED BY <1>1, <2>1 DEF Apart, Kept
<1>6. IsPrefix(sent, Awaited)'
  BY <1>3 DEF Orderly, Kept
<1> QED BY <1>1, <1>3, <1>4, <1>5, <1>6 DEF Orderly, Ending

\* The last byte that has been read.
LEMMA LastTaken ==
  ASSUME NEW b, NEW r, NEW m, Taking(b, r, m)
  PROVE  /\ Last(b) = Unread[m] /\ Last(b) = b[m] /\ m \in Nat /\ m >= 1
         /\ b[1] = Unread[1] /\ DOMAIN b = 1..m
<1>1. /\ b \in Seq(Byte) /\ m \in 1..Len(Unread) /\ Len(b) = m /\ Unread \in Seq(Byte)
      /\ \A i \in 1..m : b[i] = Unread[i]
  BY DEF Taking
<1>2. Len(Unread) \in Nat
  BY <1>1
<1>3. m \in Nat /\ m >= 1 /\ m \in 1..m /\ 1 \in 1..m
  BY <1>1, <1>2
<1>4. Last(b) = b[m]
  BY <1>1, Zenon DEF Last
<1>5. DOMAIN b = 1..m
  BY <1>1
<1> QED BY <1>1, <1>3, <1>4, <1>5, Zenon

\* Half of a frame: the function keeps reading.
LEMMA NotEnough ==
  ASSUME NEW b, NEW r, NEW m, Taking(b, r, m), Unread[m].byte = "contents",
         state = "WAIT_HEADER" => m < 2
  PROVE  ~Enough(b)
<1>1. Last(b).byte = "contents"
  BY LastTaken, Zenon
<1>2. Len(b) = m /\ m \in Nat
  BY LastTaken DEF Taking
<1>3. state = "WAIT_HEADER" => ~(Len(b) >= 2)
  BY <1>2
<1> QED BY <1>1, <1>3 DEF Enough

\* A whole frame: the function returns.
LEMMA ReadEnough ==
  ASSUME NEW b, NEW r, NEW m, Taking(b, r, m),
         IF state = "WAIT_HEADER" THEN m >= 2 ELSE Unread[m].byte = "0xce"
  PROVE  Enough(b)
<1>1. Last(b) = Unread[m]
  BY LastTaken, Zenon
<1>2. Len(b) = m /\ m \in Nat
  BY LastTaken DEF Taking
<1>3. state = "WAIT_HEADER" => Len(b) >= 2
  BY <1>2
<1> QED BY <1>1, <1>3 DEF Enough

\* The thread reads of the one write that is there.
LEMMA ReadsSingle ==
  ASSUME Data, Tame, Orderly, Kept, NEW v \in 1..(Ending + 1), Place(v), Apart(v), Stored(v),
         state \in Wait, NEW b, NEW r, NEW m, Taking(b, r, m),
         NEW f, ReadPlacedAt(v, f), ~(state = "WAIT_COMMAND" /\ command = "publish"),
         state' = Goto(state, ReadCode) => Place(v + 1)' /\ state' # "RCVD_BASIC_PUBLISH",
         Unread = Bytes(Step(v).frames), pos = v + 1, toClient = << >>
  PROVE  Orderly'
<1>1. Single(Unread, f)
  <2>1. f \in Frames /\ f \notin inside /\ Step(v).frames = << f >>
    BY DEF ReadPlacedAt, Singles, Tame, PublishFrames
  <2> QED BY <2>1, SingleIs
<1>2. /\ Unread[1].frame = f /\ Unread[1].at = 1 /\ Unread[1].byte = "contents" /\ ~Unread[1].push
      /\ Unread[2].byte = EndOf(f) /\ Len(Unread) = 2
  BY <1>1, Zenon DEF Single
<1>3. /\ b \in Seq(Byte) /\ r \in Seq(Byte) /\ m \in 1..Len(Unread) /\ Len(b) = m /\ b \o r = Unread
  BY DEF Taking
<1>4. m \in 1..2
  BY <1>2, <1>3, Zenon
<1>5. CASE m = 1
  <2>1. ~Enough(b)
    <3>1. m < 2 /\ Unread[m].byte = "contents"
      BY <1>2, <1>5
    <3> QED BY <3>1, NotEnough
  <2>2. ~Unread[m].push
    BY <1>2, <1>5
  <2> QED BY <2>1, <2>2, ReadsOn
<1>6. CASE m = 2
  <2>1. f = "Protocol.Header" <=> state = "WAIT_HEADER"
    BY DEF ReadPlacedAt
  <2>2. Enough(b)
    <3>1. IF state = "WAIT_HEADER" THEN m >= 2 ELSE Unread[m].byte = "0xce"
      <4>1. state # "WAIT_HEADER" => Unread[2].byte = "0xce"
        BY <1>2, <2>1 DEF EndOf
      <4>2. m >= 2
        BY <1>6
      <4> QED BY <1>6, <4>1, <4>2
    <3> QED BY <3>1, ReadEnough
  <2>3. b[1].frame = f /\ b[1].at = 1 /\ b[1].byte = "contents" /\ b[2].byte = EndOf(f)
    <3>1. b[1] = Unread[1] /\ b[2] = Unread[2]
      <4>1. 1 \in 1..2 /\ 2 \in 1..2
        OBVIOUS
      <4>2. \A i \in 1..m : b[i] = Unread[i]
        BY DEF Taking
      <4> QED BY <1>6, <4>1, <4>2
    <3> QED BY <1>2, <3>1
  <2>4. Codes(b) = {ReadCode}
    <3>1. CASE state = "WAIT_TUNE_OK"
      <4>1. Ends(b) = {2}
        <5>1. EndOf(f) = "0xce" /\ DOMAIN b = 1..2
          BY <1>6, <2>1, <3>1, LastTaken DEF EndOf
        <5>2. \A i \in 1..2 : i = 1 \/ i = 2
          OBVIOUS
        <5>3. "contents" # "0xce" /\ 2 \in 1..2
          OBVIOUS
        <5> QED BY <2>3, <5>1, <5>2, <5>3 DEF Ends
      <4>2. Count(b) = 1
        BY <4>1, Cards DEF Count
      <4> QED BY <3>1, <4>2 DEF Codes, ReadCode
    <3>2. CASE state = "WAIT_COMMAND"
      <4>1. Codes(b) = {MethodCode(b)}
        BY <2>3, <3>2 DEF Codes
      <4>2. f = IF command = "consume" THEN "Basic.Consume" ELSE "Queue.Declare"
        BY <3>2 DEF ReadPlacedAt
      <4>3. MethodId(f) = IF command = "consume" THEN CONSUME_ID ELSE DECLARE_ID
        BY <4>2 DEF MethodId
      <4>4. MethodId(b[1].frame) = IF command = "consume" THEN CONSUME_ID ELSE DECLARE_ID
        BY <2>3, <4>3, Zenon
      <4>5. MethodCode(b) = IF command = "consume" THEN 2 ELSE 0
        BY <4>4 DEF MethodCode, CONSUME_ID, DECLARE_ID, PUBLISH_ID
      <4> QED BY <3>2, <4>1, <4>5 DEF ReadCode
    <3>3. CASE state \notin {"WAIT_TUNE_OK", "WAIT_COMMAND"}
      BY <3>3 DEF Codes, ReadCode
    <3> QED BY <3>1, <3>2, <3>3
  <2>5. state' = Goto(state, ReadCode)
    BY <2>2, <2>4 DEF Taking
  <2>6. r = << >>
    <3> DEFINE u == Unread
    <3>1. u = b \o r /\ Len(b) = Len(u)
      BY <1>2, <1>3, <1>6, Zenon
    <3> HIDE DEF u
    <3> QED BY <1>3, <3>1, CutAll
  <2> DEFINE w == v + 1
  <2>7. v \in Nat /\ v \in 1..Ending /\ w \in 1..(Ending + 1) /\ (command = "publish" => v # 10)
    <3>1. v \in 1..Ending /\ (command = "publish" => v # 10)
      BY DEF ReadPlacedAt
    <3> QED BY <3>1, Numbers
  <2>8. Place(w)' /\ state' # "RCVD_BASIC_PUBLISH" /\ pos = w
    BY <2>5
  <2>9. command = "publish" => IF state' = "RCVD_BASIC_PUBLISH" THEN v = 10 ELSE (v > 10 <=> w > 10)
    BY <2>7, <2>8
  <2> HIDE DEF w
  <2> QED BY <2>2, <2>6, <2>7, <2>8, <2>9, ReadsUpTo
<1> QED BY <1>4, <1>5, <1>6

\* Connection.Tune-Ok and Connection.Open, which the client writes one after the
\* other: the thread may read them together, and the code then says so.
LEMMA ReadsTune ==
  ASSUME Data, Tame, Orderly, Kept, Place(5), Apart(5), Stored(5), Commanded,
         state = "WAIT_TUNE_OK", NEW b, NEW r, NEW m, Taking(b, r, m),
         Unread = Bytes(Step(5).frames) \o Bytes(Step(6).frames), pos = 7, toClient = << >>
  PROVE  Orderly'
<1> DEFINE p == Bytes(Step(5).frames)
           q == Bytes(Step(6).frames)
           u == Unread
<1>0. /\ Step(5).frames = << "Connection.Tune-Ok" >> /\ Step(6).frames = << "Connection.Open" >>
      /\ 5 \in 1..(Ending + 1) /\ 6 \in 1..(Ending + 1) /\ 7 \in 1..(Ending + 1)
      /\ state \in Wait /\ Writing(6) /\ Answered = 2
  <2>1. Ending \in Nat /\ Ending >= 11
    BY Numbers
  <2>2. Answered = 2
    BY DEF Place, OpeningPlace, DeclarePlace, PublishPlace, ConsumePlace, ClosingPlace
  <2> QED BY <2>1, <2>2, Steps, Opposite, Directions DEF Wait
<1>1. Single(p, "Connection.Tune-Ok") /\ Single(q, "Connection.Open")
  <2>1. /\ "Connection.Tune-Ok" \in Frames /\ "Connection.Tune-Ok" \notin inside
        /\ "Connection.Open" \in Frames /\ "Connection.Open" \notin inside
    BY DEF Frames, Tame, PublishFrames
  <2> QED BY <1>0, <2>1, SingleIs
<1>2. /\ p \in Seq(Byte) /\ Len(p) = 2 /\ q \in Seq(Byte) /\ Len(q) = 2
      /\ p[1].byte = "contents" /\ ~p[1].push /\ p[2].byte = "0xce"
      /\ q[1].byte = "contents" /\ ~q[1].push /\ q[2].byte = "0xce"
  BY <1>1 DEF Single, EndOf
<1>3. u = p \o q
  OBVIOUS
<1> HIDE DEF p, q, u
<1>4. /\ p \o q \in Seq(Byte) /\ Len(p \o q) = Len(p) + Len(q)
      /\ \A k \in 1..Len(p) : (p \o q)[k] = p[k]
      /\ \A k \in 1..Len(q) : (p \o q)[Len(p) + k] = q[k]
  <2>1. p \in Seq(Byte) /\ q \in Seq(Byte)
    BY <1>2
  <2> QED BY <2>1, ConcatParts
<1>5. u \in Seq(Byte) /\ Len(u) = 4 /\ u[1] = p[1] /\ u[2] = p[2] /\ u[3] = q[1] /\ u[4] = q[2]
  <2>1. 1 \in 1..2 /\ 2 \in 1..2 /\ 2 + 1 = 3 /\ 2 + 2 = 4
    OBVIOUS
  <2> QED BY <1>2, <1>3, <1>4, <2>1
<1>6. /\ u[1].byte = "contents" /\ u[2].byte = "0xce" /\ u[3].byte = "contents" /\ u[4].byte = "0xce"
      /\ ~u[1].push /\ ~u[3].push
  BY <1>2, <1>5
<1>7. /\ b \in Seq(Byte) /\ r \in Seq(Byte) /\ m \in 1..Len(u) /\ Len(b) = m /\ b \o r = u
      /\ \A i \in 1..m : b[i] = u[i]
  BY DEF Taking, u
<1>8. m \in 1..4
  BY <1>5, <1>7, Zenon
<1>9. CASE m = 1 \/ m = 3
  <2>1. Unread[m].byte = "contents" /\ ~Unread[m].push /\ state # "WAIT_HEADER"
    BY <1>6, <1>9 DEF u
  <2>2. ~Enough(b)
    BY <2>1, NotEnough
  <2> QED BY <1>0, <2>1, <2>2, ReadsOn
<1>10. CASE m = 2 \/ m = 4
  <2>1. Enough(b)
    <3>1. Unread[m].byte = "0xce" /\ state # "WAIT_HEADER"
      BY <1>6, <1>10 DEF u
    <3> QED BY <3>1, ReadEnough
  <2>2. PICK code \in Codes(b) : state' = Goto(state, code)
    BY <2>1 DEF Taking
  <2>3. code = Count(b) - 1
    BY <2>2 DEF Codes
  <2>4. DOMAIN b = 1..m
    BY LastTaken
  <2>5. Stored(5) /\ ~(5 > 10) /\ ~(6 > 10) /\ ~(7 > 10)
    OBVIOUS
  <2>6. CASE m = 2
    <3>1. Ends(b) = {2}
      <4>1. b[1] = u[1] /\ b[2] = u[2]
        <5>1. 1 \in 1..2 /\ 2 \in 1..2
          OBVIOUS
        <5> QED BY <1>7, <2>6, <5>1
      <4>2. \A i \in 1..2 : i = 1 \/ i = 2
        OBVIOUS
      <4>3. "contents" # "0xce" /\ 2 \in 1..2
        OBVIOUS
      <4> QED BY <1>6, <2>4, <2>6, <4>1, <4>2, <4>3 DEF Ends
    <3>2. state' = "WAIT_CONNECTION_OPEN"
      <4>1. Count(b) = 1
        BY <3>1, Cards DEF Count
      <4> QED BY <2>2, <2>3, <4>1, GotoIs
    <3>3. r = q
      <4>1. Len(b) = Len(p)
        BY <1>2, <1>7, <2>6, Zenon
      <4>2. b \o r = p \o q
        BY <1>3, <1>7, Zenon
      <4>3. p \in Seq(Byte) /\ q \in Seq(Byte) /\ b \in Seq(Byte) /\ r \in Seq(Byte)
        BY <1>2, <1>7
      <4> QED BY <4>1, <4>2, <4>3, CutFirst, Zenon
    <3>4. Place(6)'
      <4>1. Answered' = 2
        BY <1>0 DEF Answered, Kept
      <4> QED BY <3>2, <4>1 DEF Place, OpeningPlace
    <3>5. pos = 6 + 1 /\ r = Bytes(Step(6).frames)
      BY <3>3 DEF q
    <3>6. command = "publish" => IF state' = "RCVD_BASIC_PUBLISH" THEN 5 = 10 ELSE (5 > 10 <=> 6 > 10)
      BY <3>2
    <3> QED BY <1>0, <2>1, <3>4, <3>5, <3>6, ReadsUpTo
  <2>7. CASE m = 4
    <3>1. Ends(b) = {2, 4}
      <4>1. b[1] = u[1] /\ b[2] = u[2] /\ b[3] = u[3] /\ b[4] = u[4]
        <5>1. 1 \in 1..4 /\ 2 \in 1..4 /\ 3 \in 1..4 /\ 4 \in 1..4
          OBVIOUS
        <5> QED BY <1>7, <2>7, <5>1
      <4>2. \A i \in 1..4 : i = 1 \/ i = 2 \/ i = 3 \/ i = 4
        OBVIOUS
      <4>3. "contents" # "0xce" /\ 2 \in 1..4 /\ 4 \in 1..4
        OBVIOUS
      <4> QED BY <1>6, <2>4, <2>7, <4>1, <4>2, <4>3 DEF Ends
    <3>2. state' = "RCVD_CONNECTION_OPEN"
      <4>1. Count(b) = 2
        BY <3>1, Cards DEF Count
      <4> QED BY <2>2, <2>3, <4>1, GotoIs
    <3>3. r = << >>
      <4>1. Len(b) = Len(u)
        BY <1>5, <1>7, <2>7, Zenon
      <4>2. u = b \o r
        BY <1>7
      <4> QED BY <1>7, <4>1, <4>2, CutAll
    <3>4. Place(7)'
      <4>1. Answered' = 2
        BY <1>0 DEF Answered, Kept
      <4> QED BY <3>2, <4>1 DEF Place, OpeningPlace
    <3>6. command = "publish" => IF state' = "RCVD_BASIC_PUBLISH" THEN 5 = 10 ELSE (5 > 10 <=> 7 > 10)
      BY <3>2
    <3> QED BY <1>0, <2>1, <3>3, <3>4, <3>6, ReadsUpTo
  <2> QED BY <1>10, <2>6, <2>7
<1> QED BY <1>8, <1>9, <1>10

\* The three frames of a publish, whole, with the Channel.Close after them or not.
LEMMA ReadsPublish ==
  ASSUME Data, Tame, Orderly, Kept, Commanded, NEW v \in 1..(Ending + 1), Place(v), Apart(v), Stored(v),
         state = "WAIT_COMMAND", command = "publish", NEW b, NEW r, NEW m, Taking(b, r, m)
  PROVE  Orderly'
<1>0. v = 10 /\ Answered = 4 /\ Ending = 14 /\ state \in Wait
  BY Steps DEF Place, OpeningPlace, DeclarePlace, PublishPlace, ConsumePlace, ClosingPlace, Wait
<1>1. Step(10).frames = Publishing /\ Step(11).frames = << "Channel.Close" >>
  BY Steps, Opposite
<1>2. /\ Writing(10) /\ Writing(11) /\ ~Answering(9 + 1) /\ ~Answering(11) /\ ~Writing(9)
  BY Directions, Opposite
<1> DEFINE p == Publication
           c == ChannelClose
           u == Unread
<1>3. Bytes(Step(10).frames) = p /\ Bytes(Step(11).frames) = c
  BY <1>1 DEF Publication, ChannelClose, Publishing
<1>4. PICK k \in {6, 8, 10, 12} : PublicationIs(p, k)
  <2>1. inside \subseteq PublishFrames
    BY DEF Tame
  <2> QED BY <2>1, PublicationBytes
<1>5. Single(c, "Channel.Close")
  <2>1. "Channel.Close" \in Frames /\ "Channel.Close" \notin inside
    BY DEF Frames, Tame, PublishFrames
  <2> QED BY <2>1, SingleIs DEF ChannelClose
<1>6. /\ p \in Seq(Byte) /\ Len(p) = k /\ (\A i \in 1..(k - 1) : ~p[i].push)
      /\ p[k].byte = "0xce" /\ p[1].frame = "Basic.Publish" /\ p[1].at = 1
  <2>1. \A i \in 1..k : p[i].byte = IF i \in Evens THEN "0xce" ELSE "contents"
    BY <1>4 DEF PublicationIs
  <2>2. p[k].byte = "0xce"
    BY <2>1 DEF Evens
  <2> QED BY <1>4, <2>2, Zenon DEF PublicationIs
<1>7. c \in Seq(Byte) /\ Len(c) = 2 /\ ~c[1].push /\ c[2].byte = "0xce"
  BY <1>5 DEF Single, EndOf
<1> HIDE DEF p, c, u
<1>8. /\ b \in Seq(Byte) /\ r \in Seq(Byte) /\ u \in Seq(Byte) /\ m \in 1..Len(u) /\ Len(b) = m
      /\ b \o r = u /\ (\A i \in 1..m : b[i] = u[i]) /\ u[m].push /\ buf' = b
  <2>1. ~splits
    BY DEF Tame
  <2> QED BY <2>1 DEF Taking, u
<1>9. /\ p \o c \in Seq(Byte) /\ Len(p \o c) = Len(p) + Len(c)
      /\ \A i \in 1..Len(p) : (p \o c)[i] = p[i]
      /\ \A i \in 1..Len(c) : (p \o c)[Len(p) + i] = c[i]
  <2>1. p \in Seq(Byte) /\ c \in Seq(Byte)
    BY <1>6, <1>7
  <2> QED BY <2>1, ConcatParts
<1>10. /\ toClient = << >>
       /\ \/ pos = 11 /\ u = p
          \/ pos = 12 /\ u = p \o c
  <2>1. u # << >>
    <3>1. u = << >> => Len(u) = 0
      OBVIOUS
    <3>2. Len(u) >= 1
      BY <1>8
    <3> QED BY <3>1, <3>2
  <2>2. 10 + 1 = 11 /\ 10 + 2 = 12
    OBVIOUS
  <2> QED BY <1>0, <1>3, <2>1, <2>2, Zenon DEF Apart, u
<1>11. b[1].frame = "Basic.Publish" /\ b[1].at = 1
  <2>1. b[1] = u[1]
    BY LastTaken DEF u
  <2>2. u[1] = p[1]
    <3>1. 1 \in 1..k
      OBVIOUS
    <3>2. (p \o c)[1] = p[1]
      BY <1>6, <1>9, <3>1
    <3> QED BY <1>10, <3>2, Zenon
  <2> QED BY <1>6, <2>1, <2>2
<1>12. Enough(b) => state' = "RCVD_BASIC_PUBLISH"
  <2>1. Codes(b) = {MethodCode(b)}
    BY <1>11 DEF Codes
  <2>2. MethodId("Basic.Publish") = PUBLISH_ID
    BY DEF MethodId
  <2>3. MethodId(b[1].frame) = PUBLISH_ID
    BY <1>11, <2>2, Zenon
  <2>4. MethodCode(b) = 1
    BY <2>3 DEF MethodCode, PUBLISH_ID, DECLARE_ID, CONSUME_ID
  <2> QED BY <2>1, <2>4, GotoIs DEF Taking
<1>13. /\ Publication' = p /\ ChannelClose' = c /\ Answered' = 4 /\ command' = "publish"
  BY <1>0, SameScript DEF Kept, p, c, Answered
<1>14. 11 \in 1..(Ending + 1) /\ 12 \in 1..(Ending + 1)
  BY <1>0
<1>15. ASSUME m = k PROVE Orderly'
  <2>1. /\ b = p
        /\ \/ pos = 11 /\ r = << >>
           \/ pos = 11 + 1 /\ r = c
    <3>1. CASE pos = 11 /\ u = p
      <4>1. Len(b) = Len(u) /\ u = b \o r
        BY <1>6, <1>8, <1>15, <3>1, Zenon
      <4>2. r = << >> /\ b = u
        BY <1>8, <4>1, CutAll
      <4> QED BY <3>1, <4>2
    <3>2. CASE pos = 12 /\ u = p \o c
      <4>1. Len(b) = Len(p) /\ b \o r = p \o c
        BY <1>6, <1>8, <1>15, <3>2, Zenon
      <4>2. b = p /\ r = c
        <5>1. p \in Seq(Byte) /\ c \in Seq(Byte) /\ b \in Seq(Byte) /\ r \in Seq(Byte)
          BY <1>6, <1>7, <1>8
        <5> QED BY <4>1, <5>1, CutFirst, Zenon
      <4> QED BY <3>2, <4>2
    <3> QED BY <1>10, <3>1, <3>2
  <2>2. Enough(b)
    <3>1. b[m] = Unread[m] /\ state # "WAIT_HEADER"
      BY LastTaken
    <3>2. Unread[m].byte = "0xce"
      BY <1>6, <1>15, <2>1, <3>1, Zenon
    <3> QED BY <3>1, <3>2, ReadEnough
  <2>3. Place(11)'
    BY <1>8, <1>12, <1>13, <2>1, <2>2 DEF Place, PublishPlace
  <2>4. command = "publish" => IF state' = "RCVD_BASIC_PUBLISH" THEN v = 10 ELSE (v > 10 <=> 11 > 10)
    BY <1>0, <1>12, <2>2
  <2>5. \/ pos = 11 /\ r = << >>
        \/ pos = 11 + 1 /\ Writing(11) /\ r = Bytes(Step(11).frames)
    BY <1>2, <1>3, <2>1
  <2> QED BY <1>0, <1>10, <1>14, <2>2, <2>3, <2>4, <2>5, ReadsUpTo
<1>16. ASSUME m = k + 2, pos = 12, u = p \o c PROVE Orderly'
  <2>1. b = u /\ r = << >>
    <3>1. Len(u) = k + 2
      BY <1>6, <1>7, <1>9, <1>16
    <3>2. Len(b) = Len(u) /\ u = b \o r
      BY <1>8, <1>16, <3>1, Zenon
    <3> QED BY <1>8, <3>2, CutAll
  <2>2. Enough(b)
    <3>1. u[k + 2] = c[2]
      <4>1. 2 \in 1..2
        OBVIOUS
      <4> QED BY <1>6, <1>7, <1>9, <1>16, <4>1
    <3>2. Unread[m].byte = "0xce" /\ state # "WAIT_HEADER"
      BY <1>7, <1>16, <3>1 DEF u
    <3> QED BY <3>2, ReadEnough
  <2>3. Place(12)'
    <3>1. buf' = p \o c
      BY <1>8, <1>16, <2>1
    <3> QED BY <1>12, <1>13, <2>2, <3>1, Zenon DEF Place, PublishPlace
  <2>4. command = "publish" => IF state' = "RCVD_BASIC_PUBLISH" THEN v = 10 ELSE (v > 10 <=> 12 > 10)
    BY <1>0, <1>12, <2>2
  <2> QED BY <1>0, <1>10, <1>14, <1>16, <2>1, <2>2, <2>3, <2>4, ReadsUpTo
<1>17. m = k \/ (m = k + 2 /\ pos = 12 /\ u = p \o c)
  <2>1. ~(m \in 1..(k - 1))
    <3>1. ASSUME m \in 1..(k - 1) PROVE FALSE
      <4>1. m \in 1..k
        BY <3>1
      <4>2. u[m] = p[m]
        <5>1. (p \o c)[m] = p[m]
          BY <1>6, <1>9, <4>1
        <5> QED BY <1>10, <5>1, Zenon
      <4> QED BY <1>6, <1>8, <3>1, <4>2, Zenon
    <3> QED BY <3>1
  <2>2. CASE pos = 11 /\ u = p
    <3>1. m \in 1..k
      BY <1>6, <1>8, <2>2, Zenon
    <3> QED BY <2>1, <3>1
  <2>3. CASE pos = 12 /\ u = p \o c
    <3>1. m \in 1..(k + 2)
      <4>1. Len(u) = k + 2
        BY <1>6, <1>7, <1>9, <2>3
      <4> QED BY <1>8, <4>1, Zenon
    <3>2. m # k + 1
      <4>1. ASSUME m = k + 1 PROVE FALSE
        <5>1. 1 \in 1..2
          OBVIOUS
        <5>2. u[k + 1] = c[1]
          BY <1>6, <1>7, <1>9, <2>3, <5>1
        <5> QED BY <1>7, <1>8, <4>1, <5>2, Zenon
      <4> QED BY <4>1
    <3> QED BY <2>1, <2>3, <3>1, <3>2
  <2> QED BY <1>10, <2>2, <2>3
<1> QED BY <1>15, <1>16, <1>17

\* What the code takes for the length of a message is a number, and the length
\* itself if it fits in one byte.
LEMMA LengthTaken ==
  ASSUME NEW n \in 1..1023
  PROVE  Length(n) \in Nat /\ (n < 256 => Length(n) = n)
<1> DEFINE b1 == n \div 2^24
           b2 == (n \div 2^16) % 256
           b3 == (n \div 2^8) % 256
           b4 == n % 256
<1>1. 2^24 = 16777216 /\ 2^16 = 65536 /\ 2^8 = 256 /\ 2^6 = 64 /\ 2^4 = 16 /\ 2^2 = 4
  BY SMT
<1>2. b1 = 0 /\ b2 = 0 /\ b3 \in Nat /\ b4 \in Nat /\ (n < 256 => b3 = 0 /\ b4 = n)
  <2>1. n \div 16777216 = 0 /\ n \div 65536 = 0
    BY SMT
  <2>2. (n \div 256) % 256 \in Nat /\ n % 256 \in Nat /\ 0 % 256 = 0
    BY SMT
  <2>3. n < 256 => n \div 256 = 0 /\ n % 256 = n
    BY SMT
  <2> QED BY <1>1, <2>1, <2>2, <2>3
<1>3. Length(n) = b1 * 64 + b2 * 16 + b3 * 4 + b4
  <2> DEFINE l == << b1, b2, b3, b4 >>
  <2>1. l[1] = b1 /\ l[2] = b2 /\ l[3] = b3 /\ l[4] = b4
    OBVIOUS
  <2>2. LengthBytes(n) = l
    BY DEF LengthBytes
  <2> HIDE DEF l, b1, b2, b3, b4
  <2>3. Length(n) = l[1] * 2^6 + l[2] * 2^4 + l[3] * 2^2 + l[4]
    BY <2>2, Zenon DEF Length
  <2> QED BY <1>1, <2>1, <2>3
<1> HIDE DEF b1, b2, b3, b4
<1> QED BY <1>2, <1>3

\* The thread reads.
LEMMA OrderlyServerReads ==
  ASSUME Data, Tame, Orderly, ServerReads
  PROVE  Orderly'
<1>1. Commanded /\ Kept /\ state \in Wait
  BY DataCommanded DEF ServerReads, Kept, client
<1>2. PICK v \in 1..(Ending + 1) : Place(v) /\ Apart(v) /\ Stored(v)
  BY DEF Orderly, Ending
<1>3. v \in Nat
  BY Numbers
<1>4. PICK b, r, m : Taking(b, r, m)
  BY Takes
<1>5. Unread # << >>
  <2>1. m \in 1..Len(Unread)
    BY <1>4 DEF Taking
  <2>2. Len(<< >>) = 0 /\ 1..0 = {}
    OBVIOUS
  <2> QED BY <2>1, <2>2, Zenon
<1>6. \/ /\ pos = v + 1 /\ Writing(v)
         /\ toClient = << >> /\ Unread = Bytes(Step(v).frames)
      \/ /\ pos = v + 2 /\ Writing(v) /\ Writing(v + 1)
         /\ toClient = << >> /\ Unread = Bytes(Step(v).frames) \o Bytes(Step(v + 1).frames)
  BY <1>2, <1>5, Zenon DEF Apart
<1>7. Answered <= AwaitedLength
  BY <1>1, AwaitedIs, PrefixIs DEF Orderly, Data, Answered, AwaitedLength
<1>8. CASE state = "WAIT_COMMAND" /\ command = "publish"
  BY <1>1, <1>2, <1>4, <1>8, ReadsPublish
<1>9. CASE ~(state = "WAIT_COMMAND" /\ command = "publish")
  <2>1. /\ \E f : ReadPlacedAt(v, f)
        /\ state' = Goto(state, ReadCode) /\ command' = command /\ sent' = sent =>
             Place(v + 1)' /\ state' # "RCVD_BASIC_PUBLISH"
    BY <1>1, <1>2, <1>3, <1>7, <1>9, ReadPlaced
  <2>2. state' = Goto(state, ReadCode) => Place(v + 1)' /\ state' # "RCVD_BASIC_PUBLISH"
    BY <1>1, <2>1 DEF Kept
  <2>3. PICK f : ReadPlacedAt(v, f)
    BY <2>1
  <2>4. CASE /\ pos = v + 1 /\ Writing(v)
             /\ toClient = << >> /\ Unread = Bytes(Step(v).frames)
    BY <1>1, <1>2, <1>4, <1>9, <2>2, <2>3, <2>4, ReadsSingle
  <2>5. CASE /\ pos = v + 2 /\ Writing(v) /\ Writing(v + 1)
             /\ toClient = << >> /\ Unread = Bytes(Step(v).frames) \o Bytes(Step(v + 1).frames)
    <3>1. v = 5 /\ state = "WAIT_TUNE_OK"
      BY <2>3, <2>5 DEF ReadPlacedAt
    <3>2. /\ Place(5) /\ Apart(5) /\ Stored(5) /\ pos = 7 /\ toClient = << >>
          /\ Unread = Bytes(Step(5).frames) \o Bytes(Step(6).frames)
      <4>1. 5 + 1 = 6 /\ 5 + 2 = 7
        OBVIOUS
      <4> QED BY <1>2, <2>5, <3>1, <4>1, Zenon
    <3> QED BY <1>1, <1>4, <3>1, <3>2, ReadsTune
  <2> QED BY <1>6, <2>4, <2>5
<1> QED BY <1>8, <1>9

\* Every variable keeps its shape.
LEMMA DataKept ==
  ASSUME Data, [Next]_vars
  PROVE  Data'
<1>0. Commanded /\ Sizes \subseteq 1..1023
  BY DataCommanded, ConnectionAssumption
<1> USE DEF Data
<1>1. CASE ClientWrites
  <2>1. Writing(pos)
    BY <1>1 DEF ClientWrites, Writing, Step
  <2>2. Bytes(Step(pos).frames) \in Seq(Byte)
    BY <1>0, <2>1, BytesTyped
  <2>3. toServer' = toServer \o Bytes(Step(pos).frames) /\ pos' = pos + 1
    BY <1>1 DEF ClientWrites, Step
  <2>4. toServer' \in Seq(Byte)
    BY <2>2, <2>3
  <2> QED BY <1>1, <2>3, <2>4 DEF ClientWrites, client
<1>2. CASE ClientReads
  <2>1. toClient' \in Seq(Replies) /\ pos' \in Nat
    BY <1>2 DEF ClientReads
  <2> QED BY <1>2, <2>1 DEF ClientReads, client, Replies
<1>3. CASE ServerReads
  <2>1. PICK b, r, m : Taking(b, r, m)
    BY <1>3, Takes
  <2>2. buf' \in Seq(Byte) /\ toServer' \in Seq(Byte) /\ reading' \in BOOLEAN
    BY <2>1 DEF Taking
  <2> QED BY <1>3, <2>2 DEF ServerReads, client
<1>4. CASE ServerAnswers
  <2> DEFINE f == Answer[state]
  <2>1. f \in Replies /\ toClient' = Append(toClient, f) /\ sent' = Append(sent, f)
    BY <1>4, RepliesAre DEF ServerAnswers, Send
  <2> HIDE DEF f
  <2>2. toClient' \in Seq(Replies) /\ sent' \in Seq(Replies)
    BY <2>1
  <2> QED BY <1>4, <2>2 DEF ServerAnswers, client
<1>5. CASE do_SUBSCRIBED
  BY <1>5 DEF do_SUBSCRIBED, client
<1>6. CASE do_CLIENT_TURN
  <2>1. toClient' \in Seq(Replies) /\ sent' \in Seq(Replies)
    <3>1. (toClient' = toClient /\ sent' = sent) \/ Send("Basic.Deliver")
      BY <1>6, Zenon DEF do_CLIENT_TURN
    <3>2. "Basic.Deliver" \in Replies
      BY RepliesAre
    <3>3. toClient \in Seq(Replies) /\ sent \in Seq(Replies)
      OBVIOUS
    <3>4. CASE Send("Basic.Deliver")
      <4>1. toClient' = Append(toClient, "Basic.Deliver") /\ sent' = Append(sent, "Basic.Deliver")
        BY <3>4 DEF Send
      <4>2. \A s \in Seq(Replies) : Append(s, "Basic.Deliver") \in Seq(Replies)
        BY <3>2
      <4> QED BY <3>3, <4>1, <4>2, Zenon
    <3>5. CASE toClient' = toClient /\ sent' = sent
      BY <3>3, <3>5, Zenon
    <3> QED BY <3>1, <3>4, <3>5
  <2> QED BY <1>6, <2>1 DEF do_CLIENT_TURN, client
<1>7. CASE do_RCVD_BASIC_PUBLISH
  <2> DEFINE x == Extracted(buf)
  <2>1. x \in Nat
    <3>1. Length(size) \in Nat
      BY <1>0, LengthTaken
    <3>2. x = Length(size) \/ x = Garbage
      BY DEF Extracted
    <3> QED BY <3>1, <3>2 DEF Garbage
  <2>2. stored' = Append(stored, x)
    BY <1>7 DEF do_RCVD_BASIC_PUBLISH
  <2> HIDE DEF x
  <2>3. stored' \in Seq(Nat)
    BY <2>1, <2>2
  <2> QED BY <1>7, <2>3 DEF do_RCVD_BASIC_PUBLISH, client
<1>8. CASE Finish
  BY <1>8 DEF Finish, client
<1>9. CASE UNCHANGED vars
  BY <1>9 DEF vars, client
<1> QED BY <1>1, <1>2, <1>3, <1>4, <1>5, <1>6, <1>7, <1>8, <1>9 DEF Next, Server, Idle

-----------------------------------------------------------------------------
\* The invariant of the script, and what follows from it.

\* The client of a closed connection reads the one answer it does not wait for.
LEMMA EarlyKept ==
  ASSUME Data, Early, Next
  PROVE  Early'
<1>0. Commanded
  BY DataCommanded
<1>1. /\ command = "publish" /\ ~reading /\ toServer = << >>
      /\ buf = Publication \o ChannelClose
      /\ stored = << MessageTaken >>
      /\ \/ /\ state = "RCVD_CONNECTION_CLOSE" /\ sent = Greetings
            /\ pos = 12 /\ toClient = << >>
         \/ /\ state = "FINAL" /\ sent = Greetings \o << "Connection.Close-Ok" >>
            /\ \/ pos = 12 /\ toClient = << "Connection.Close-Ok" >>
               \/ pos = 0 /\ toClient = << >>
  BY DEF Early
<1>2. state \notin Wait /\ state \notin {"SUBSCRIBED", "CLIENT_TURN", "RCVD_BASIC_PUBLISH"}
  BY <1>1 DEF Wait
<1>3. ~Writing(12) /\ ~Writing(0) /\ ~Answering(0) /\ Step(12).frames = << "Channel.Close-Ok" >>
  BY <1>0, <1>1, Directions, Opposite, Steps
<1>4. ASSUME command' = command, inside' = inside, size' = size
      PROVE  /\ Publication' = Publication /\ ChannelClose' = ChannelClose
             /\ MessageTaken' = MessageTaken
  BY <1>4, SameScript DEF MessageTaken
<1>5. CASE ClientReads
  <2>1. Answering(pos) /\ toClient # << >>
    BY <1>5 DEF ClientReads, Answering, Step
  <2>2. pos = 12 /\ toClient = << "Connection.Close-Ok" >> /\ state = "FINAL"
        /\ sent = Greetings \o << "Connection.Close-Ok" >>
    BY <1>1, <1>3, <2>1
  <2>3. pos' = 0 /\ toClient' = << >>
    <3>1. Script(command)[12].frames[1] = "Channel.Close-Ok"
      BY <1>3 DEF Step
    <3>2. /\ pos' = IF Head(toClient) = Script(command)[12].frames[1] THEN pos + 1 ELSE 0
          /\ toClient' = Tail(toClient)
      BY <1>5, <2>2 DEF ClientReads
    <3>3. Head(toClient) = "Connection.Close-Ok" /\ Tail(toClient) = << >>
      BY <2>2
    <3> QED BY <3>1, <3>2, <3>3
  <2>4. command' = command /\ inside' = inside /\ size' = size /\ state' = state /\ reading' = reading
        /\ buf' = buf /\ stored' = stored /\ sent' = sent /\ toServer' = toServer
    BY <1>5 DEF ClientReads, client
  <2> QED BY <1>1, <1>4, <2>2, <2>3, <2>4 DEF Early, Greetings
<1>6. CASE ServerAnswers
  <2>1. state = "RCVD_CONNECTION_CLOSE" /\ sent = Greetings /\ pos = 12 /\ toClient = << >>
    BY <1>1, <1>6 DEF ServerAnswers, Answer
  <2>2. /\ toClient' = Append(toClient, "Connection.Close-Ok") /\ state' = "FINAL"
        /\ sent' = Append(sent, "Connection.Close-Ok")
    BY <1>6, <2>1, GotoIs DEF ServerAnswers, Send, Return, Answer
  <2>3. sent' = Greetings \o << "Connection.Close-Ok" >> /\ toClient' = << "Connection.Close-Ok" >>
    BY <2>1, <2>2 DEF Greetings
  <2>4. command' = command /\ inside' = inside /\ size' = size /\ pos' = pos /\ reading' = reading
        /\ buf' = buf /\ stored' = stored /\ toServer' = toServer
    BY <1>6 DEF ServerAnswers, client
  <2> QED BY <1>1, <1>4, <2>1, <2>2, <2>3, <2>4 DEF Early, Greetings
<1>7. CASE Finish \/ Idle
  <2>1. command' = command /\ inside' = inside /\ size' = size /\ pos' = pos /\ reading' = reading
        /\ buf' = buf /\ stored' = stored /\ toServer' = toServer /\ state' = state /\ sent' = sent
        /\ toClient' = toClient
    BY <1>7 DEF Finish, Idle, client, vars
  <2> QED BY <1>1, <1>4, <2>1 DEF Early, Greetings
<1>8. CASE ClientWrites
  <2>1. Writing(pos)
    BY <1>8 DEF ClientWrites, Writing, Step
  <2> QED BY <1>1, <1>3, <2>1
<1>9. ~ServerReads /\ ~do_SUBSCRIBED /\ ~do_CLIENT_TURN /\ ~do_RCVD_BASIC_PUBLISH
  BY <1>2 DEF ServerReads, do_SUBSCRIBED, do_CLIENT_TURN, do_RCVD_BASIC_PUBLISH
<1> QED BY <1>5, <1>6, <1>7, <1>8, <1>9 DEF Next, Server

\* What has been stored stays, however wrong the rest goes.
LEMMA AstrayKept ==
  ASSUME Data, Astray, Next
  PROVE  Astray'
<1>1. /\ command = "publish" /\ inside # {} /\ stored = << MessageTaken >>
      /\ state \in {"WAIT_CHANNEL_CLOSE", "RCVD_CHANNEL_CLOSE", "WAIT_CONNECTION_CLOSE",
                    "RCVD_CONNECTION_CLOSE", "FINAL"}
  BY DEF Astray
<1>2. /\ command' = command /\ inside' = inside /\ size' = size /\ stored' = stored
  BY <1>1 DEF Next, vars, client, Server, ClientWrites, ClientReads, ServerReads, ServerAnswers,
              do_SUBSCRIBED, do_CLIENT_TURN, do_RCVD_BASIC_PUBLISH, Finish, Idle
<1>3. state' \in {"WAIT_CHANNEL_CLOSE", "RCVD_CHANNEL_CLOSE", "WAIT_CONNECTION_CLOSE",
                  "RCVD_CONNECTION_CLOSE", "FINAL"}
  <2>1. state' = state \/ state' = Goto(state, 0)
    <3>1. CASE ServerReads
      <4>1. PICK b, r, m : Taking(b, r, m)
        BY <3>1, Takes
      <4>2. Codes(b) = {0}
        BY <1>1 DEF Codes
      <4> QED BY <4>1, <4>2 DEF Taking
    <3>2. CASE ServerAnswers
      BY <3>2 DEF ServerAnswers, Return
    <3>3. CASE ClientWrites \/ ClientReads \/ Finish \/ Idle
      BY <3>3 DEF ClientWrites, ClientReads, Finish, Idle, vars
    <3>4. ~do_SUBSCRIBED /\ ~do_CLIENT_TURN /\ ~do_RCVD_BASIC_PUBLISH
      BY <1>1 DEF do_SUBSCRIBED, do_CLIENT_TURN, do_RCVD_BASIC_PUBLISH
    <3> QED BY <3>1, <3>2, <3>3, <3>4 DEF Next, Server
  <2>2. state # "FINAL" \/ state' = "FINAL"
    <3>1. state = "FINAL" => ~ServerReads /\ ~ServerAnswers /\ ~do_SUBSCRIBED
                        /\ ~do_CLIENT_TURN /\ ~do_RCVD_BASIC_PUBLISH
      BY
         DEF ServerReads, ServerAnswers, do_SUBSCRIBED, do_CLIENT_TURN,
                             do_RCVD_BASIC_PUBLISH, Wait, Answer
    <3>2. ClientWrites \/ ClientReads \/ Finish \/ Idle => state' = state
      BY DEF ClientWrites, ClientReads, Finish, Idle, vars
    <3> QED BY <3>1, <3>2 DEF Next, Server
  <2> QED BY <1>1, <2>1, <2>2, GotoIs
<1>4. MessageTaken' = MessageTaken
  BY <1>2 DEF MessageTaken
<1> QED BY <1>1, <1>2, <1>3, <1>4 DEF Astray

\* Nothing that Orderly speaks of has changed.
LEMMA OrderlySame ==
  ASSUME Data, Orderly,
         UNCHANGED << client, pos, toServer, toClient, state, reading, buf, stored, sent >>
  PROVE  Orderly'
<1>1. /\ command' = command /\ inside' = inside /\ splits' = splits /\ size' = size
      /\ pos' = pos /\ toServer' = toServer /\ state' = state
      /\ toClient' = toClient /\ reading' = reading /\ buf' = buf
      /\ stored' = stored /\ sent' = sent
  BY DEF client
<1>2. PICK v \in 1..(Ending + 1) : Place(v) /\ Apart(v) /\ Stored(v)
  BY DEF Orderly, Ending
<1>3. /\ Ending' = Ending /\ Unread' = Unread /\ Awaited' = Awaited /\ Answered' = Answered
      /\ Publication' = Publication /\ ChannelClose' = ChannelClose
  BY <1>1, SameScript, SameUnread DEF Ending, Answered
<1>4. Place(v)'
  BY <1>1, <1>2, <1>3
     DEF Place, OpeningPlace, DeclarePlace, PublishPlace, ConsumePlace, ClosingPlace
<1>5. Stored(v)'
  BY <1>1, <1>2 DEF Stored, MessageTaken
<1>6. Apart(v)'
  <2>1. \A k : /\ Step(k)' = Step(k) /\ (Writing(k)' <=> Writing(k)) /\ (Answering(k)' <=> Answering(k))
               /\ Bytes(Step(k).frames)' = Bytes(Step(k).frames)
    BY <1>1, SameScript
  <2> QED BY <1>1, <1>2, <1>3, <2>1 DEF Apart
<1> QED BY <1>1, <1>2, <1>3, <1>4, <1>5, <1>6 DEF Orderly, Ending

\* The invariant holds at first.
LEMMA IInvInit == Init => IInv
<1> SUFFICES ASSUME Init PROVE IInv
  OBVIOUS
<1> USE DEF Init
<1>1. Data
  <2>1. inside \subseteq Frames
    <3>1. MayHold0xce \subseteq Frames
      BY ConnectionAssumption
    <3>2. {"Content.Header", "Content.Body"} \subseteq Frames
      BY DEF Frames
    <3> QED BY <3>1, <3>2
  <2>2. splits \in BOOLEAN
    BY ConnectionAssumption
  <2>3. command \in Commands /\ size \in Sizes /\ pos \in Nat
    OBVIOUS
  <2>4. /\ toServer \in Seq(Byte) /\ buf \in Seq(Byte)
        /\ toClient \in Seq(Replies) /\ sent \in Seq(Replies)
        /\ reading \in BOOLEAN /\ open \in BOOLEAN /\ stored \in Seq(Nat)
    <3>1. << >> \in Seq(Byte) /\ << >> \in Seq(Replies) /\ << >> \in Seq(Nat)
      OBVIOUS
    <3> QED BY <3>1, Zenon
  <2> QED BY <2>1, <2>2, <2>3, <2>4, Zenon DEF Data
<1>2. Orderly
  <2>1. Commanded /\ Ending \in Nat
    BY <1>1, DataCommanded, Numbers
  <2>2. IsPrefix(sent, Awaited)
    <3>1. << >> \in Seq(Replies) /\ Len(<< >>) = 0 /\ Awaited \in Seq(Replies)
      BY <2>1, AwaitedIs
    <3>2. 0 <= Len(Awaited) /\ \A i \in 1..0 : << >>[i] = Awaited[i]
      BY <3>1
    <3>3. IsPrefix(<< >>, Awaited)
      BY <3>1, <3>2, PrefixIs
    <3> QED BY <3>3
  <2>3. Place(1)
    BY DEF Place, OpeningPlace, Answered
  <2>4. Apart(1)
    BY DEF Apart, Unread
  <2>5. Stored(1)
    BY DEF Stored
  <2>6. 1 \in 1..(Ending + 1)
    BY <2>1
  <2> QED BY <2>2, <2>3, <2>4, <2>5, <2>6 DEF Orderly, Ending
<1> QED BY <1>1, <1>2 DEF IInv

\* Every step keeps it.
LEMMA IInvNext ==
  ASSUME IInv, [Next]_vars
  PROVE  IInv'
<1>1. Data /\ Data'
  BY DataKept DEF IInv
<1>2. Tame' => Tame
  BY DEF Next, vars, client, Server, ClientWrites, ClientReads, ServerReads, ServerAnswers,
         do_SUBSCRIBED, do_CLIENT_TURN, do_RCVD_BASIC_PUBLISH, Finish, Idle, Tame
<1> SUFFICES ASSUME Tame, Orderly \/ Early \/ Astray PROVE (Orderly \/ Early \/ Astray)'
  BY <1>1, <1>2 DEF IInv
<1>3. CASE UNCHANGED vars
  <2>1. Early => Early'
    <3>1. /\ command' = command /\ inside' = inside /\ size' = size /\ pos' = pos /\ reading' = reading
          /\ buf' = buf /\ stored' = stored /\ toServer' = toServer /\ state' = state /\ sent' = sent
          /\ toClient' = toClient
      BY <1>3 DEF vars, client
    <3>2. Publication' = Publication /\ ChannelClose' = ChannelClose /\ MessageTaken' = MessageTaken
      BY <3>1, SameScript DEF MessageTaken
    <3> QED BY <3>1, <3>2 DEF Early, Greetings
  <2>2. Astray => Astray'
    BY <1>3 DEF vars, client, Astray, MessageTaken
  <2>3. Orderly => Orderly'
    BY <1>1, <1>3, OrderlySame DEF vars
  <2> QED BY <2>1, <2>2, <2>3
<1>4. CASE Next /\ Early
  BY <1>1, <1>4, EarlyKept
<1>5. CASE Next /\ Astray
  BY <1>1, <1>5, AstrayKept
<1>6. CASE Next /\ Orderly
  <2>1. CASE ClientWrites
    BY <1>1, <1>6, <2>1, OrderlyWrites
  <2>2. CASE ClientReads
    BY <1>1, <1>6, <2>2, OrderlyReads
  <2>3. CASE ServerReads
    BY <1>1, <1>6, <2>3, OrderlyServerReads
  <2>4. CASE ServerAnswers
    BY <1>1, <1>6, <2>4, OrderlyAnswers
  <2>5. CASE do_SUBSCRIBED
    <3>1. /\ state = "SUBSCRIBED" /\ state' = "CLIENT_TURN"
          /\ UNCHANGED << client, pos, toServer, toClient, reading, buf, open, stored, sent >>
      BY <2>5, GotoIs DEF do_SUBSCRIBED, Return
    <3> QED BY <1>1, <1>6, <3>1, OrderlyTurns
  <2>6. CASE do_CLIENT_TURN
    <3>1. state = "CLIENT_TURN" /\ UNCHANGED << client, pos, toServer, reading, buf, open, stored >>
      BY <2>6 DEF do_CLIENT_TURN
    <3>2. CASE state' = "SUBSCRIBED" /\ UNCHANGED << toClient, sent >>
      BY <1>1, <1>6, <3>1, <3>2, OrderlyTurns
    <3>3. CASE /\ Cardinality({i \in DOMAIN sent : sent[i] = "Basic.Deliver"}) < MaxDeliveries
               /\ Send("Basic.Deliver") /\ state' = "WAIT_BASIC_ACK"
      BY <1>1, <1>6, <3>1, <3>3, OrderlyDelivers
    <3> QED BY <2>6, <3>1, <3>2, <3>3, GotoIs DEF do_CLIENT_TURN, Return
  <2>7. CASE do_RCVD_BASIC_PUBLISH
    BY <1>1, <1>6, <2>7, OrderlyPublishes
  <2>8. CASE Finish
    BY <1>1, <1>6, <2>8, OrderlySame DEF Finish
  <2>9. CASE Idle
    BY <1>3, <2>9 DEF Idle
  <2> QED BY <1>6, <2>1, <2>2, <2>3, <2>4, <2>5, <2>6, <2>7, <2>8, <2>9 DEF Next, Server
<1> QED BY <1>3, <1>4, <1>5, <1>6

\* The client and the thread stay at most two steps of the script apart, and the
\* stream between them holds exactly that difference.
THEOREM Scripted == Spec => []IInv
<1>1. IInv /\ [Next]_vars => IInv'
  BY IInvNext
<1> QED BY <1>1, IInvInit, PTL DEF Spec

\* Between two frames, what comes first is the start of the frame waited for.
THEOREM FramesKept == Spec => []NoFrameMistaken
<1>1. IInv => NoFrameMistaken
  <2> SUFFICES ASSUME IInv, Whole, state \in Wait, ~reading, toServer # << >>
               PROVE  toServer[1].at = 1 /\ toServer[1].frame \in Expected[state]
    BY DEF NoFrameMistaken
  <2>1. Data /\ Tame /\ Commanded
    BY DataCommanded DEF IInv, Whole, Tame
  <2>2. Orderly
    <3>1. ~Early
      BY DEF Early, Wait
    <3>2. ~Astray
      BY DEF Astray, Whole
    <3> QED BY <2>1, <3>1, <3>2 DEF IInv
  <2>3. PICK v \in 1..(Ending + 1) : Place(v) /\ Apart(v)
    BY <2>2 DEF Orderly, Ending
  <2>4. v \in Nat /\ Answered <= AwaitedLength
    <3>1. v \in Nat
      BY <2>1, Numbers
    <3>2. Answered <= AwaitedLength
      BY <2>1, <2>2, AwaitedIs, PrefixIs DEF Orderly, Data, Answered, AwaitedLength
    <3> QED BY <3>1, <3>2
  <2>5. Unread = toServer
    <3>1. toServer \in Seq(Byte) /\ Unread = << >> \o toServer
      BY <2>1 DEF Data, Unread
    <3> QED BY <3>1
  <2> DEFINE p == Bytes(Step(v).frames)
             q == Bytes(Step(v + 1).frames)
  <2>6. /\ Writing(v)
        /\ toServer = p \/ (Writing(v + 1) /\ toServer = p \o q)
    BY <2>3, <2>5, Zenon DEF Apart
  <2>7. p \in Seq(Byte) /\ (Writing(v + 1) => q \in Seq(Byte))
    BY <2>1, <2>6, BytesTyped
  <2>8. \E f \in Expected[state] : Len(p) \in Nat \ {0} /\ p[1].frame = f /\ p[1].at = 1
    <3>1. CASE state = "WAIT_COMMAND" /\ command = "publish"
      <4>1. v = 10
        BY <2>3, <3>1
           DEF Place, OpeningPlace, DeclarePlace, PublishPlace, ConsumePlace, ClosingPlace
      <4>2. p = Publication
        BY <2>1, <3>1, <4>1, Steps, Opposite DEF Publication, Publishing
      <4>3. PICK k \in {6, 8, 10, 12} : PublicationIs(p, k)
        <5>1. inside \subseteq PublishFrames
          BY <2>1 DEF Tame
        <5> QED BY <4>2, <5>1, PublicationBytes
      <4>4. Len(p) = k /\ p[1].frame = "Basic.Publish" /\ p[1].at = 1
        BY <4>3, Zenon DEF PublicationIs
      <4>5. "Basic.Publish" \in Expected[state]
        BY <3>1 DEF Expected
      <4> HIDE DEF p
      <4> QED BY <4>4, <4>5
    <3>2. CASE ~(state = "WAIT_COMMAND" /\ command = "publish")
      <4>1. PICK f : ReadPlacedAt(v, f)
        BY <2>1, <2>3, <2>4, <3>2, ReadPlaced
      <4>2. f \in Expected[state] /\ f \in Singles /\ Step(v).frames = << f >>
        BY <4>1 DEF ReadPlacedAt
      <4>3. Single(p, f)
        <5>1. f \in Frames /\ f \notin inside
          BY <2>1, <4>2 DEF Singles, Tame, PublishFrames
        <5> QED BY <4>2, <5>1, SingleIs
      <4>4. Len(p) = 2 /\ p[1].frame = f /\ p[1].at = 1
        BY <4>3, Zenon DEF Single
      <4> HIDE DEF p
      <4> QED BY <4>2, <4>4
    <3> QED BY <3>1, <3>2
  <2> HIDE DEF p, q
  <2>9. toServer[1] = p[1]
    <3>1. 1 \in 1..Len(p)
      BY <2>8
    <3>2. Writing(v + 1) => (p \o q)[1] = p[1]
      BY <2>7, <3>1, ConcatParts
    <3> QED BY <2>6, <3>2, Zenon
  <2> QED BY <2>8, <2>9
<1> QED BY <1>1, Scripted, PTL

\* The server writes the answers of the protocol notes in their order.
THEOREM AnswersKept == Spec => []AnswersInOrder
<1>1. IInv => AnswersInOrder
  <2> SUFFICES ASSUME IInv, Whole
               PROVE  \/ IsPrefix(sent, Awaited)
                      \/ ClosedEarly /\ IsPrefix(sent, Greetings \o << "Connection.Close-Ok" >>)
    BY DEF AnswersInOrder
  <2>1. Data /\ Tame /\ ~Astray
    BY DEF IInv, Whole, Tame, Astray
  <2>2. CASE Orderly
    BY <2>2 DEF Orderly
  <2>3. CASE Early
    <3>1. ClosedEarly
      <4> DEFINE n == Len(Publication) + 1
      <4>1. inside \subseteq PublishFrames
        BY <2>1 DEF Tame
      <4>2. buf = Publication \o ChannelClose
        BY <2>3 DEF Early
      <4>3. /\ Len(Publication) \in Nat /\ Len(Publication \o ChannelClose) = Len(Publication) + 2
            /\ (Publication \o ChannelClose)[Len(Publication) + 1].frame = "Channel.Close"
        BY <4>1, PublicationRead
      <4>4. buf[n].frame = "Channel.Close"
        BY <4>2, <4>3, Zenon
      <4>5. n \in DOMAIN buf
        <5>1. Len(buf) = Len(Publication) + 2 /\ buf \in Seq(Byte)
          BY <2>1, <4>2, <4>3, Zenon DEF Data
        <5> QED BY <4>3, <5>1
      <4>6. buf[1].frame = "Basic.Publish"
        <5>1. PICK m \in {6, 8, 10, 12} : PublishRead(Publication \o ChannelClose, m + 2)
          BY <4>1, PublicationRead
        <5>2. PublishRead(buf, m + 2)
          BY <4>2, <5>1, Zenon
        <5> QED BY <5>2, Zenon DEF PublishRead
      <4> HIDE DEF n
      <4> QED BY <4>4, <4>5, <4>6 DEF ClosedEarly
    <3>2. IsPrefix(sent, Greetings \o << "Connection.Close-Ok" >>)
      <4> DEFINE g == Greetings
                 c == << "Connection.Close-Ok" >>
      <4>1. g \in Seq(Replies) /\ c \in Seq(Replies)
        <5>1. /\ "Connection.Start" \in Replies /\ "Connection.Tune" \in Replies
              /\ "Connection.Open-Ok" \in Replies /\ "Channel.Open-Ok" \in Replies
              /\ "Connection.Close-Ok" \in Replies
          BY RepliesAre DEF Answer
        <5> QED BY <5>1 DEF Greetings
      <4>2. sent = g \/ sent = g \o c
        BY <2>3 DEF Early
      <4> HIDE DEF g, c
      <4>3. /\ g \o c \in Seq(Replies) /\ Len(g \o c) = Len(g) + Len(c)
            /\ \A k \in 1..Len(g) : (g \o c)[k] = g[k]
        BY <4>1, ConcatParts
      <4>4. IsPrefix(g, g \o c)
        <5>1. Len(g) <= Len(g \o c) /\ \A k \in 1..Len(g) : g[k] = (g \o c)[k]
          BY <4>1, <4>3
        <5> QED BY <4>1, <4>3, <5>1, PrefixIs
      <4>5. IsPrefix(g \o c, g \o c)
        <5> DEFINE w == g \o c
        <5>1. w \in Seq(Replies)
          BY <4>3
        <5> HIDE DEF w
        <5>2. Len(w) <= Len(w) /\ \A k \in 1..Len(w) : w[k] = w[k]
          BY <5>1
        <5>3. IsPrefix(w, w)
          BY <5>1, <5>2, PrefixIs
        <5> QED BY <5>3 DEF w
      <4> QED BY <4>2, <4>4, <4>5 DEF g, c
    <3> QED BY <3>1, <3>2
  <2> QED BY <2>1, <2>2, <2>3 DEF IInv
<1> QED BY <1>1, Scripted, PTL

\* A message of less than 256 bytes in one piece is stored with its length, unless a
\* 0xce comes before it inside the two frames, as 206 does; then something else is.
THEOREM MessagesKept == Spec => []MessageIntact
<1>1. IInv => MessageIntact
  <2> DEFINE kept == IF inside \subseteq {"Content.Body"} THEN size ELSE Garbage
  <2> SUFFICES ASSUME IInv, ~splits, inside \subseteq PublishFrames, size < 256
               PROVE  stored \in {<< >>, << kept >>}
    BY DEF MessageIntact, PublishFrames
  <2>1. Data /\ Tame
    BY DEF IInv, Tame
  <2>2. MessageTaken = kept
    <3>1. size \in 1..1023
      BY <2>1, ConnectionAssumption DEF Data
    <3>2. Length(size) = size
      BY <3>1, LengthTaken
    <3> QED BY <3>2 DEF MessageTaken
  <2>3. stored \in {<< >>, << MessageTaken >>}
    <3>1. Early \/ Astray => stored = << MessageTaken >>
      BY DEF Early, Astray
    <3>2. Orderly => stored \in {<< >>, << MessageTaken >>}
      <4> SUFFICES ASSUME NEW v, Stored(v) PROVE stored \in {<< >>, << MessageTaken >>}
        BY DEF Orderly
      <4> QED BY DEF Stored
    <3> QED BY <2>1, <3>1, <3>2 DEF IInv
  <2> QED BY <2>2, <2>3
<1> QED BY <1>1, Scripted, PTL

-----------------------------------------------------------------------------
\* The bounds: 0xce bytes counted, and the rows of the table.

\* How many 0xce there are among bytes.
LEMMA CountIs ==
  ASSUME NEW b \in Seq(Byte)
  PROVE  IsFiniteSet(Ends(b)) /\ Count(b) \in Nat
<1>1. Len(b) \in Nat /\ Ends(b) \subseteq 1..Len(b)
  BY DEF Ends
<1>2. IsFiniteSet(1..Len(b))
  BY <1>1, FS_Interval
<1>3. IsFiniteSet(Ends(b))
  BY <1>1, <1>2, FS_Subset
<1> QED BY <1>3, FS_CardinalityType DEF Count

\* They add up.
LEMMA CountJoined ==
  ASSUME NEW p \in Seq(Byte), NEW q \in Seq(Byte)
  PROVE  Count(p \o q) = Count(p) + Count(q)
<1> DEFINE w == p \o q
           P == Ends(p)
           Q == Ends(q)
           n == Len(p)
           R == {n + i : i \in Q}
           f == [i \in Q |-> n + i]
<1>1. /\ DOMAIN w = 1..(Len(p) + Len(q))
      /\ \A k \in 1..Len(p) : w[k] = p[k]
      /\ \A k \in 1..Len(q) : w[Len(p) + k] = q[k]
  BY ConcatParts
<1>2. Len(p) \in Nat /\ Len(q) \in Nat
  OBVIOUS
<1>3. P = {i \in 1..Len(p) : p[i].byte = "0xce"} /\ Q = {i \in 1..Len(q) : q[i].byte = "0xce"}
  BY DEF Ends
<1>4. Ends(w) = P \union R
  <2> HIDE DEF w, P, Q
  <2>1. Ends(w) = {i \in 1..(Len(p) + Len(q)) : w[i].byte = "0xce"}
    BY <1>1 DEF Ends
  <2>2. ASSUME NEW i \in Ends(w) PROVE i \in P \union R
    <3>1. CASE i \in 1..Len(p)
      BY <1>1, <1>3, <2>1, <2>2, <3>1
    <3>2. CASE i - n \in 1..Len(q)
      <4> DEFINE j == i - n
      <4>1. j \in 1..Len(q) /\ i = n + j
        BY <1>2, <2>1, <2>2, <3>2
      <4> HIDE DEF j
      <4>2. w[n + j] = q[j]
        BY <1>1, <4>1
      <4>3. q[j].byte = "0xce"
        BY <2>1, <2>2, <4>1, <4>2
      <4> QED BY <1>3, <4>1, <4>3
    <3> QED BY <1>2, <2>1, <2>2, <3>1, <3>2
  <2>3. ASSUME NEW i \in P PROVE i \in Ends(w)
    BY <1>1, <1>2, <1>3, <2>1, <2>3
  <2>4. ASSUME NEW i \in R PROVE i \in Ends(w)
    <3>1. PICK j \in Q : i = n + j
      BY <2>4
    <3>2. w[n + j] = q[j] /\ n + j \in 1..(Len(p) + Len(q)) /\ q[j].byte = "0xce"
      BY <1>1, <1>2, <1>3, <3>1
    <3> QED BY <2>1, <3>1, <3>2
  <2> QED BY <2>2, <2>3, <2>4
<1>5. IsFiniteSet(P) /\ IsFiniteSet(Q)
  BY CountIs
<1>6. IsFiniteSet(R) /\ Cardinality(R) = Cardinality(Q)
  <2>1. Q \subseteq Nat
    BY <1>2, <1>3
  <2> HIDE DEF P, Q
  <2>2. f \in Surjection(Q, R)
    BY DEF Surjection
  <2>3. f \in Injection(Q, R)
    <3>1. \A i, j \in Q : f[i] = f[j] => i = j
      BY <1>2, <2>1
    <3>2. f \in [Q -> R]
      OBVIOUS
    <3> HIDE DEF f, R
    <3> QED BY <3>1, <3>2 DEF Injection, IsInjective
  <2> HIDE DEF f, R
  <2> QED BY <1>5, <2>2, <2>3, FS_Surjection
<1>7. P \cap R = {}
  BY <1>2, <1>3
<1> HIDE DEF P, Q, R
<1>8. Cardinality(P \union R) = Cardinality(P) + Cardinality(R) - Cardinality(P \cap R)
  BY <1>5, <1>6, FS_Union
<1>9. Cardinality(P) \in Nat /\ Cardinality(R) \in Nat /\ Cardinality({}) = 0
  BY <1>5, <1>6, FS_CardinalityType, FS_EmptySet
<1>10. Count(w) = Cardinality(P) + Cardinality(Q)
  <2>1. Count(w) = Cardinality(P \union R)
    BY <1>4 DEF Count
  <2> HIDE DEF w
  <2>2. Cardinality(P \cap R) = 0
    BY <1>7, <1>9, Zenon
  <2> DEFINE cp == Cardinality(P)
             cr == Cardinality(R)
             cu == Cardinality(P \union R)
             ci == Cardinality(P \cap R)
  <2>3. cu = cp + cr - ci /\ ci = 0 /\ cp \in Nat /\ cr \in Nat
    BY <1>8, <1>9, <2>2
  <2> HIDE DEF cp, cr, cu, ci
  <2>4. cu = cp + cr
    BY <2>3
  <2> QED BY <1>6, <2>1, <2>4 DEF cp, cr, cu
<1> QED BY <1>10 DEF Count, P, Q

\* A write of one frame has two at most, and the protocol header none.
LEMMA CountOfFrame ==
  ASSUME NEW f \in Frames
  PROVE  /\ Count(Bytes(<< f >>)) <= 2
         /\ f = "Protocol.Header" /\ f \notin inside => Count(Bytes(<< f >>)) = 0
<1> DEFINE b == Bytes(<< f >>)
<1>1. CASE f \notin inside
  <2>1. Single(b, f)
    BY <1>1, SingleIs
  <2> HIDE DEF b
  <2>2. b \in Seq(Byte) /\ Len(b) = 2 /\ b[1].byte = "contents" /\ b[2].byte = EndOf(f)
    BY <2>1, Zenon DEF Single
  <2>3. DOMAIN b = 1..2
    BY <2>2
  <2>4. \A i \in 1..2 : i = 1 \/ i = 2
    OBVIOUS
  <2>5. Ends(b) \subseteq {2} /\ (f = "Protocol.Header" => Ends(b) = {})
    BY <2>2, <2>3, <2>4 DEF Ends, EndOf
  <2>6. IsFiniteSet({2}) /\ Cardinality({2}) = 1 /\ Cardinality({}) = 0
    BY FS_Singleton, FS_EmptySet
  <2>7. Cardinality(Ends(b)) <= 1
    BY <2>5, <2>6, FS_Subset
  <2>8. Count(b) \in Nat
    BY <2>2, CountIs
  <2> QED BY <2>5, <2>6, <2>7, <2>8 DEF Count, b
<1>2. CASE f \in inside
  <2> DEFINE a == Frame(f)
             x == ByteOf(f, 1, "contents", FALSE)
             y == ByteOf(f, 2, "0xce", FALSE)
             z == ByteOf(f, 3, "contents", FALSE)
             w == ByteOf(f, 4, EndOf(f), TRUE)
             c == Written(a)
  <2>1. a = << x, y, z, w >> /\ a \in Seq(Byte)
    BY <1>2, FrameBytes
  <2>2. x.byte = "contents" /\ z.byte = "contents"
    BY DEF ByteOf
  <2>3. b = c
    BY DEF Bytes, Written
  <2> HIDE DEF a, x, y, z, w
  <2>4. Len(a) = 4 /\ a[1] = x /\ a[3] = z
    BY <2>1
  <2>5. c \in Seq(Byte) /\ Len(c) = 4 /\ \A i \in 1..3 : c[i] = a[i]
    <3>1. 4 \in Nat \ {0} /\ 4 - 1 = 3
      OBVIOUS
    <3>2. c \in Seq(Byte) /\ Len(c) = 4 /\ \A i \in 1..(4 - 1) : c[i] = a[i]
      BY <2>1, <2>4, <3>1, Pushed
    <3> HIDE DEF c
    <3> QED BY <3>1, <3>2
  <2> HIDE DEF b, c
  <2>6. c[1].byte = "contents" /\ c[3].byte = "contents"
    <3>1. 1 \in 1..3 /\ 3 \in 1..3
      OBVIOUS
    <3> QED BY <2>2, <2>4, <2>5, <3>1
  <2>7. DOMAIN c = 1..4
    BY <2>5
  <2>8. Ends(c) \subseteq {2, 4}
    <3>1. \A i \in 1..4 : i = 1 \/ i = 2 \/ i = 3 \/ i = 4
      OBVIOUS
    <3> QED BY <2>6, <2>7, <3>1 DEF Ends
  <2>9. IsFiniteSet({2, 4}) /\ Cardinality({2, 4}) = 2
    <3>1. {2, 4} = {2} \union {4} /\ 4 \notin {2}
      OBVIOUS
    <3>2. IsFiniteSet({2})
      BY FS_Singleton
    <3>3. IsFiniteSet({2, 4})
      BY <3>1, <3>2, FS_AddElement
    <3> QED BY <3>3, Cards
  <2>10. Count(c) <= 2
    BY <2>8, <2>9, FS_Subset DEF Count
  <2> QED BY <1>2, <2>3, <2>10 DEF b
<1> QED BY <1>1, <1>2

\* The states, in the order of the table's rows.
LEMMA StateIs ==
  State = {"WAIT_HEADER", "RCVD_HEADER", "WAIT_START_OK", "RCVD_START_OK",
           "WAIT_TUNE_OK", "WAIT_CONNECTION_OPEN", "RCVD_CONNECTION_OPEN",
           "WAIT_CHANNEL_OPEN", "RCVD_CHANNEL_OPEN", "WAIT_COMMAND",
           "RCVD_QUEUE_DECLARE", "RCVD_BASIC_PUBLISH", "RCVD_BASIC_CONSUME",
           "SUBSCRIBED", "CLIENT_TURN", "WAIT_BASIC_ACK",
           "WAIT_CHANNEL_CLOSE", "RCVD_CHANNEL_CLOSE",
           "WAIT_CONNECTION_CLOSE", "RCVD_CONNECTION_CLOSE", "FINAL"}
<1>1. \A i \in 1..21 : \/ i = 1 \/ i = 2 \/ i = 3 \/ i = 4 \/ i = 5 \/ i = 6 \/ i = 7
                       \/ i = 8 \/ i = 9 \/ i = 10 \/ i = 11 \/ i = 12 \/ i = 13 \/ i = 14
                       \/ i = 15 \/ i = 16 \/ i = 17 \/ i = 18 \/ i = 19 \/ i = 20 \/ i = 21
  OBVIOUS
<1>2. /\ 1 \in 1..21 /\ 2 \in 1..21 /\ 3 \in 1..21 /\ 4 \in 1..21 /\ 5 \in 1..21 /\ 6 \in 1..21
      /\ 7 \in 1..21 /\ 8 \in 1..21 /\ 9 \in 1..21 /\ 10 \in 1..21 /\ 11 \in 1..21 /\ 12 \in 1..21
      /\ 13 \in 1..21 /\ 14 \in 1..21 /\ 15 \in 1..21 /\ 16 \in 1..21 /\ 17 \in 1..21
      /\ 18 \in 1..21 /\ 19 \in 1..21 /\ 20 \in 1..21 /\ 21 \in 1..21
  OBVIOUS
<1>3. State = {enum[1], enum[2], enum[3], enum[4], enum[5], enum[6], enum[7], enum[8], enum[9],
               enum[10], enum[11], enum[12], enum[13], enum[14], enum[15], enum[16], enum[17],
               enum[18], enum[19], enum[20], enum[21]}
  BY <1>1, <1>2, Zenon DEF State
<1> QED BY <1>3 DEF enum

\* A code that is past the end of the row of WAIT_TUNE_OK or WAIT_COMMAND takes the
\* next row, and the state stays in the table.
LEMMA RowsBelow ==
  /\ Goto("WAIT_TUNE_OK", 2) = "WAIT_HEADER"
  /\ Goto("WAIT_TUNE_OK", 3) = "RCVD_CONNECTION_OPEN"
  /\ Goto("WAIT_TUNE_OK", 4) = "WAIT_HEADER" /\ Goto("WAIT_TUNE_OK", 5) = "WAIT_HEADER"
  /\ Goto("WAIT_COMMAND", 3) = "WAIT_CHANNEL_CLOSE"
<1>1. /\ enum[1] = "WAIT_HEADER" /\ enum[2] = "RCVD_HEADER" /\ enum[3] = "WAIT_START_OK"
      /\ enum[4] = "RCVD_START_OK" /\ enum[5] = "WAIT_TUNE_OK" /\ enum[6] = "WAIT_CONNECTION_OPEN"
      /\ enum[7] = "RCVD_CONNECTION_OPEN" /\ enum[8] = "WAIT_CHANNEL_OPEN"
      /\ enum[9] = "RCVD_CHANNEL_OPEN" /\ enum[10] = "WAIT_COMMAND" /\ enum[11] = "RCVD_QUEUE_DECLARE"
      /\ enum[12] = "RCVD_BASIC_PUBLISH" /\ enum[13] = "RCVD_BASIC_CONSUME" /\ enum[14] = "SUBSCRIBED"
      /\ enum[15] = "CLIENT_TURN" /\ enum[16] = "WAIT_BASIC_ACK" /\ enum[17] = "WAIT_CHANNEL_CLOSE"
      /\ enum[18] = "RCVD_CHANNEL_CLOSE" /\ enum[19] = "WAIT_CONNECTION_CLOSE"
      /\ enum[20] = "RCVD_CONNECTION_CLOSE"
  BY DEF enum
<1>2. \A i \in 1..20 : \/ i = 1 \/ i = 2 \/ i = 3 \/ i = 4 \/ i = 5 \/ i = 6 \/ i = 7
                       \/ i = 8 \/ i = 9 \/ i = 10 \/ i = 11 \/ i = 12 \/ i = 13 \/ i = 14
                       \/ i = 15 \/ i = 16 \/ i = 17 \/ i = 18 \/ i = 19 \/ i = 20
  OBVIOUS
<1>3. (CHOOSE i \in 1..20 : enum[i] = "WAIT_TUNE_OK") = 5
  <2>1. \A i \in 1..20 : enum[i] = "WAIT_TUNE_OK" <=> i = 5
    BY <1>1, <1>2
  <2>2. 5 \in 1..20
    OBVIOUS
  <2> QED BY <2>1, <2>2
<1>4. (CHOOSE i \in 1..20 : enum[i] = "WAIT_COMMAND") = 10
  <2>1. \A i \in 1..20 : enum[i] = "WAIT_COMMAND" <=> i = 10
    BY <1>1, <1>2
  <2>2. 10 \in 1..20
    OBVIOUS
  <2> QED BY <2>1, <2>2
<1>5. RowBelow("WAIT_TUNE_OK") = "WAIT_CONNECTION_OPEN"
  <2>1. 1 + 5 = 6
    OBVIOUS
  <2> QED BY <1>1, <1>3, <2>1, Zenon DEF RowBelow
<1>6. RowBelow("WAIT_COMMAND") = "RCVD_QUEUE_DECLARE"
  <2>1. 1 + 10 = 11
    OBVIOUS
  <2> QED BY <1>1, <1>4, <2>1, Zenon DEF RowBelow
<1>7. /\ Goto("WAIT_TUNE_OK", 3) = transitions["WAIT_CONNECTION_OPEN"][1]
      /\ Goto("WAIT_TUNE_OK", 4) = transitions["WAIT_CONNECTION_OPEN"][2]
      /\ Goto("WAIT_TUNE_OK", 5) = transitions["WAIT_CONNECTION_OPEN"][3]
      /\ Goto("WAIT_COMMAND", 3) = transitions["RCVD_QUEUE_DECLARE"][1]
  <2>1. ~(3 < 3) /\ ~(4 < 3) /\ ~(5 < 3) /\ 3 - 2 = 1 /\ 4 - 2 = 2 /\ 5 - 2 = 3
    OBVIOUS
  <2> QED BY <1>5, <1>6, <2>1, Zenon DEF Goto
<1>8. Goto("WAIT_TUNE_OK", 2) = "WAIT_HEADER"
  BY DEF Goto, transitions, Zero
<1> QED BY <1>7, <1>8 DEF transitions, Row1, Zero

\* The state stays in the table, and an opening state follows only on another.
Succeeds(s, t) == t \in State /\ (t \in OpeningStates => s \in OpeningStates)

\* Every entry of the table that a code can select is a state that may come next.
LEMMA Follows ==
  /\ \A s \in Wait : Succeeds(s, Goto(s, 0))
  /\ \A s \in DOMAIN Answer : Succeeds(s, Goto(s, 0))
  /\ \A n \in 0..5 : Succeeds("WAIT_TUNE_OK", Goto("WAIT_TUNE_OK", n))
  /\ \A n \in 0..3 : Succeeds("WAIT_COMMAND", Goto("WAIT_COMMAND", n))
  /\ \A n \in 0..1 : /\ Succeeds("RCVD_BASIC_PUBLISH", Goto("RCVD_BASIC_PUBLISH", n))
                     /\ Succeeds("CLIENT_TURN", Goto("CLIENT_TURN", n))
  /\ Succeeds("SUBSCRIBED", Goto("SUBSCRIBED", 0))
  /\ Goto("RCVD_CONNECTION_OPEN", 0) \notin OpeningStates
<1> USE GotoIs, StateIs DEF Succeeds, OpeningStates
<1>1. \A s \in Wait : Succeeds(s, Goto(s, 0))
  BY DEF Wait
<1>2. \A s \in DOMAIN Answer : Succeeds(s, Goto(s, 0))
  BY DEF Answer
<1>3. \A n \in 0..5 : Succeeds("WAIT_TUNE_OK", Goto("WAIT_TUNE_OK", n))
  <2>1. \A n \in 0..5 : n = 0 \/ n = 1 \/ n = 2 \/ n = 3 \/ n = 4 \/ n = 5
    OBVIOUS
  <2> QED BY <2>1, RowsBelow
<1>4. \A n \in 0..3 : Succeeds("WAIT_COMMAND", Goto("WAIT_COMMAND", n))
  <2>1. \A n \in 0..3 : n = 0 \/ n = 1 \/ n = 2 \/ n = 3
    OBVIOUS
  <2> QED BY <2>1, RowsBelow
<1>5. \A n \in 0..1 : /\ Succeeds("RCVD_BASIC_PUBLISH", Goto("RCVD_BASIC_PUBLISH", n))
                      /\ Succeeds("CLIENT_TURN", Goto("CLIENT_TURN", n))
  <2>1. \A n \in 0..1 : n = 0 \/ n = 1
    OBVIOUS
  <2> QED BY <2>1
<1>6. Succeeds("SUBSCRIBED", Goto("SUBSCRIBED", 0))
                    /\ Goto("RCVD_CONNECTION_OPEN", 0) \notin OpeningStates
  OBVIOUS
<1> QED BY <1>1, <1>2, <1>3, <1>4, <1>5, <1>6

\* What the client writes before the connection is open fits in the budget.
LEMMA OpeningWrites ==
  ASSUME Commanded, Bounded, state \in OpeningStates, Writing(pos)
  PROVE  /\ pos + 1 <= 7
         /\ Count(Bytes(Step(pos).frames)) + Budget(pos) <= Budget(pos + 1)
<1>1. pos \in {1, 3, 5, 6}
  <2>1. pos \in Nat /\ pos <= 7
    <3>1. pos \in 0..(Ending + 1) /\ pos <= 7
      BY DEF Bounded
    <3> QED BY <3>1
  <2>2. \/ pos = 0 \/ pos = 1 \/ pos = 2 \/ pos = 3 \/ pos = 4 \/ pos = 5 \/ pos = 6 \/ pos = 7
    BY <2>1
  <2>3. ~Writing(0) /\ ~Writing(2) /\ ~Writing(4) /\ ~Writing(7)
    BY Directions, Opposite
  <2> QED BY <2>2, <2>3
<1>2. /\ Step(1).frames = << "Protocol.Header" >> /\ Step(3).frames = << "Connection.Start-Ok" >>
      /\ Step(5).frames = << "Connection.Tune-Ok" >> /\ Step(6).frames = << "Connection.Open" >>
  BY Steps, Opposite
<1>3. \E f \in Frames : Step(pos).frames = << f >> /\ (pos = 1 => f = "Protocol.Header")
  <2>1. /\ "Protocol.Header" \in Frames /\ "Connection.Start-Ok" \in Frames
        /\ "Connection.Tune-Ok" \in Frames /\ "Connection.Open" \in Frames
    BY DEF Frames
  <2> QED BY <1>1, <1>2, <2>1
<1>4. PICK f \in Frames : Step(pos).frames = << f >> /\ (pos = 1 => f = "Protocol.Header")
  BY <1>3
<1> DEFINE c == Count(Bytes(Step(pos).frames))
<1>5. c <= 2 /\ (pos = 1 => c = 0) /\ c \in Nat
  <2>1. Count(Bytes(<< f >>)) <= 2 /\ (pos = 1 => Count(Bytes(<< f >>)) = 0)
    BY <1>4, CountOfFrame, Zenon DEF Bounded
  <2>2. Bytes(Step(pos).frames) \in Seq(Byte)
    BY BytesTyped
  <2>3. c \in Nat
    BY <2>2, CountIs
  <2> QED BY <1>4, <2>1, <2>3, Zenon
<1> HIDE DEF c
<1>6. c + Budget(pos) <= Budget(pos + 1) /\ pos + 1 <= 7
  <2>1. CASE pos = 1
    BY <1>5, <2>1 DEF Budget
  <2>2. CASE pos = 3
    BY <1>5, <2>2 DEF Budget
  <2>3. CASE pos = 5
    BY <1>5, <2>3 DEF Budget
  <2>4. CASE pos = 6
    BY <1>5, <2>4 DEF Budget
  <2> QED BY <1>1, <2>1, <2>2, <2>3, <2>4
<1> QED BY <1>6 DEF c

\* The budget is at most three frames of two.
LEMMA BudgetIs ==
  ASSUME NEW p \in Nat
  PROVE  Budget(p) \in 0..6
BY DEF Budget

\* What a read takes and what it leaves have the 0xce of what there was.
LEMMA TakenCounted ==
  ASSUME Data, Bounded, NEW b, NEW r, NEW m, Taking(b, r, m)
  PROVE  /\ Count(b) \in Nat /\ Count(r) \in Nat
         /\ Count(Unread) = Count(b) + Count(r)
         /\ state \in OpeningStates => Count(Unread) <= Budget(pos) /\ Count(b) <= 6
<1>1. b \in Seq(Byte) /\ r \in Seq(Byte) /\ b \o r = Unread
  BY DEF Taking
<1>2. Count(b) \in Nat /\ Count(r) \in Nat
  BY <1>1, CountIs
<1>3. Count(b \o r) = Count(b) + Count(r)
  BY <1>1, CountJoined
<1>4. Count(Unread) = Count(b) + Count(r)
  BY <1>1, <1>3, Zenon
<1>5. state \in OpeningStates => Count(Unread) <= Budget(pos)
  BY DEF Bounded
<1>6. Budget(pos) \in 0..6
  BY BudgetIs DEF Data
<1> QED BY <1>2, <1>4, <1>5, <1>6

\* The code that a read returns is one that Goto has a row for.
LEMMA CodesIn ==
  ASSUME Data, Bounded, NEW b, NEW r, NEW m, Taking(b, r, m), Enough(b), NEW code \in Codes(b)
  PROVE  /\ state = "WAIT_TUNE_OK" => code \in 0..5
         /\ state = "WAIT_COMMAND" => code \in 0..3
         /\ state \notin {"WAIT_TUNE_OK", "WAIT_COMMAND"} => code = 0
<1>1. ASSUME state = "WAIT_TUNE_OK" PROVE code \in 0..5
  <2>1. code = Count(b) - 1
    BY <1>1 DEF Codes
  <2>2. Count(b) \in Nat /\ Count(b) <= 6
    BY <1>1, TakenCounted DEF OpeningStates
  <2>3. m \in Ends(b)
    <3>1. Last(b) = b[m] /\ DOMAIN b = 1..m /\ m \in Nat /\ m >= 1
      BY LastTaken, Zenon
    <3>2. Last(b).byte = "0xce"
      BY <1>1 DEF Enough
    <3>3. m \in 1..m
      BY <3>1
    <3>4. b[m].byte = "0xce"
      BY <3>1, <3>2, Zenon
    <3> QED BY <3>1, <3>3, <3>4 DEF Ends
  <2>4. Count(b) # 0
    <3>1. IsFiniteSet(Ends(b))
      BY CountIs DEF Taking
    <3> QED BY <2>3, <3>1, FS_EmptySet DEF Count
  <2> QED BY <2>1, <2>2, <2>4
<1>2. ASSUME state = "WAIT_COMMAND" PROVE code \in 0..3
  <2>1. MethodCode(b) \in 0..3
    BY DEF MethodCode
  <2>2. Codes(b) = IF b[1].at = 1 THEN {MethodCode(b)} ELSE 0..3
    BY <1>2, Zenon DEF Codes
  <2> QED BY <2>1, <2>2
<1>3. ASSUME state \notin {"WAIT_TUNE_OK", "WAIT_COMMAND"} PROVE code = 0
  BY <1>3 DEF Codes
<1> QED BY <1>1, <1>2, <1>3

\* Only do_RCVD_CONNECTION_OPEN writes Connection.Open-Ok, and it ends the opening.
LEMMA OpensLast ==
  ASSUME NEW s \in DOMAIN Answer, Answer[s] = "Connection.Open-Ok"
  PROVE  s = "RCVD_CONNECTION_OPEN"
BY DEF Answer

\* Unless the stream changes, a step that stays in the opening stays in the budget.
LEMMA BoundedAt ==
  ASSUME Data, Bounded, command' = command, inside' = inside, pos' = pos,
         UNCHANGED << reading, buf, toServer >>, Succeeds(state, state'),
         state' \in OpeningStates =>
           \A i \in DOMAIN toClient' : toClient'[i] # "Connection.Open-Ok"
  PROVE  Bounded'
<1>1. Ending' = Ending
  BY SameScript DEF Ending
<1>2. Unread' = Unread
  BY SameUnread
<1>3. Count(Unread)' = Count(Unread) /\ Budget(pos)' = Budget(pos)
  BY <1>2 DEF Count, Ends
<1>4. state' \in State /\ (state' \in OpeningStates => state \in OpeningStates)
  BY DEF Succeeds
<1> QED BY <1>1, <1>3, <1>4, Zenon DEF Bounded

\* Nothing has been written at first.
LEMMA BoundedInit == Init => Bounded
<1> SUFFICES ASSUME Init PROVE Bounded
  OBVIOUS
<1>1. "Protocol.Header" \notin inside
  BY ConnectionAssumption DEF Init
<1>2. state = "WAIT_HEADER" /\ pos = 1 /\ toClient = << >> /\ toServer = << >> /\ reading = FALSE
  BY DEF Init
<1>3. Ending \in Nat
  BY IInvInit, Numbers DEF IInv
<1>4. 1 \in 0..(Ending + 1) /\ Budget(1) = 0
  BY <1>3 DEF Budget
<1>5. Count(Unread) = 0
  <2>1. Unread = << >>
    BY <1>2 DEF Unread
  <2>2. Ends(<< >>) = {}
    BY DEF Ends
  <2> QED BY <2>1, <2>2, FS_EmptySet DEF Count
<1> QED BY <1>1, <1>2, <1>4, <1>5, StateIs DEF Bounded

\* The position stays on the script, the state in the table, and the opening in its
\* budget.
LEMMA BoundedKept ==
  ASSUME Data, Bounded, [Next]_vars
  PROVE  Bounded'
<1>0. Commanded /\ Ending \in Nat /\ pos \in Nat
  BY DataCommanded, Numbers DEF Data
<1>1. CASE ClientWrites
  <2>1. /\ command' = command /\ inside' = inside /\ toClient' = toClient /\ state' = state
        /\ reading' = reading /\ buf' = buf
    BY <1>1 DEF ClientWrites, client
  <2> DEFINE w == Bytes(Step(pos).frames)
  <2>2. Writing(pos) /\ pos' = pos + 1 /\ toServer' = toServer \o w
    BY <1>1 DEF ClientWrites, Writing, Step
  <2>3. w \in Seq(Byte)
    BY <1>0, <2>2, BytesTyped
  <2>4. Unread \in Seq(Byte) /\ Unread' = Unread \o w
    <3> DEFINE x == IF reading THEN buf ELSE << >>
    <3>1. x \in Seq(Byte) /\ toServer \in Seq(Byte)
      BY DEF Data
    <3>2. Unread = x \o toServer /\ Unread' = x \o (toServer \o w)
      BY <2>1, <2>2 DEF Unread
    <3> HIDE DEF x, w
    <3> QED BY <2>3, <3>1, <3>2, ConcatAssociative
  <2>5. Ending' = Ending /\ pos' \in 0..(Ending + 1)
    <3>1. Ending' = Ending
      BY <2>1, SameScript DEF Ending
    <3>2. pos \in 1..Ending
      BY <1>0, <2>2, Opposite, Steps
    <3> QED BY <1>0, <2>2, <3>1, <3>2
  <2>6. ASSUME state \in OpeningStates
        PROVE  pos' <= 7 /\ Count(Unread)' <= Budget(pos)'
    <3>1. pos + 1 <= 7 /\ Count(w) + Budget(pos) <= Budget(pos + 1)
      BY <1>0, <2>2, <2>6, OpeningWrites
    <3> HIDE DEF w
    <3>2. Count(Unread \o w) = Count(Unread) + Count(w)
      BY <2>3, <2>4, CountJoined
    <3>3. Count(Unread) \in Nat /\ Count(w) \in Nat /\ Budget(pos) \in 0..6 /\ Budget(pos + 1) \in 0..6
      BY <1>0, <2>3, <2>4, CountIs, BudgetIs
    <3>4. Count(Unread) <= Budget(pos)
      BY <2>6 DEF Bounded
    <3>5. Count(Unread)' = Count(Unread \o w)
      BY <2>4 DEF Count, Ends
    <3>6. Budget(pos)' = Budget(pos + 1)
      BY <2>2 DEF Budget
    <3>7. Count(Unread \o w) <= Budget(pos + 1)
      BY <3>1, <3>2, <3>3, <3>4
    <3> QED BY <2>2, <3>1, <3>5, <3>6, <3>7
  <2> QED BY <2>1, <2>5, <2>6 DEF Bounded
<1>2. CASE ClientReads
  <2>1. /\ command' = command /\ inside' = inside /\ state' = state
        /\ toServer' = toServer /\ reading' = reading /\ buf' = buf
    BY <1>2 DEF ClientReads, client
  <2>2. /\ Answering(pos) /\ toClient # << >> /\ toClient' = Tail(toClient)
        /\ pos' = IF Head(toClient) = Step(pos).frames[1] THEN pos + 1 ELSE 0
    BY <1>2 DEF ClientReads, Answering, Step
  <2>3. Ending' = Ending /\ pos' \in 0..(Ending + 1)
    <3>1. Ending' = Ending
      BY <2>1, SameScript DEF Ending
    <3>2. pos \in 1..Ending
      BY <1>0, <2>2, Opposite, Steps
    <3> QED BY <1>0, <2>2, <3>1, <3>2
  <2>4. Count(Unread)' = Count(Unread)
    <3>1. Unread' = Unread
      BY <2>1, SameUnread
    <3> QED BY <3>1 DEF Count, Ends
  <2>5. ASSUME state \in OpeningStates
        PROVE  /\ pos' <= 7 /\ Count(Unread)' <= Budget(pos)'
               /\ \A i \in DOMAIN toClient' : toClient'[i] # "Connection.Open-Ok"
    <3>1. /\ pos <= 7 /\ Count(Unread) <= Budget(pos)
          /\ \A i \in DOMAIN toClient : toClient[i] # "Connection.Open-Ok"
      BY <2>5 DEF Bounded
    <3>2. toClient \in Seq(Replies)
      BY DEF Data
    <3>3. \A i \in DOMAIN toClient' : toClient'[i] # "Connection.Open-Ok"
      <4>1. \A i \in DOMAIN Tail(toClient) : i + 1 \in DOMAIN toClient
                          /\ Tail(toClient)[i] = toClient[i + 1]
        BY <2>2, <3>2
      <4> QED BY <2>2, <3>1, <4>1
    <3>4. Head(toClient) # "Connection.Open-Ok"
      BY <2>2, <3>1, <3>2
    <3>5. pos = 2 \/ pos = 4 \/ pos = 7
      <4>1. \/ pos = 0 \/ pos = 1 \/ pos = 2 \/ pos = 3 \/ pos = 4 \/ pos = 5 \/ pos = 6 \/ pos = 7
        BY <1>0, <3>1
      <4>2. ~Answering(0) /\ ~Answering(1) /\ ~Answering(3) /\ ~Answering(5) /\ ~Answering(6)
        BY <1>0, Directions, Opposite
      <4> QED BY <2>2, <4>1, <4>2
    <3>6. pos = 7 => pos' = 0
      <4>1. Step(7).frames = << "Connection.Open-Ok" >>
        BY <1>0, Steps, Opposite
      <4> QED BY <2>2, <3>4, <4>1
    <3>7. pos' = 0 \/ pos' = pos + 1
      BY <2>2
    <3>8. pos' \in Nat /\ pos' <= 7
      BY <1>0, <3>5, <3>6, <3>7
    <3>9. Budget(pos) <= Budget(pos')
      BY <3>5, <3>6, <3>7 DEF Budget
    <3>10. /\ Budget(pos)' = Budget(pos') /\ Budget(pos) \in 0..6 /\ Budget(pos') \in 0..6
      BY <1>0, <3>8, BudgetIs DEF Budget
    <3>11. Count(Unread) \in Nat
      <4>1. Unread \in Seq(Byte)
        BY DEF Data, Unread
      <4> QED BY <4>1, CountIs
    <3>12. Count(Unread)' <= Budget(pos)'
      BY <2>4, <3>1, <3>9, <3>10, <3>11
    <3> QED BY <3>3, <3>8, <3>12
  <2> QED BY <2>1, <2>3, <2>5 DEF Bounded
<1>3. CASE ServerReads
  <2>1. /\ command' = command /\ inside' = inside /\ toClient' = toClient /\ pos' = pos
    BY <1>3 DEF ServerReads, client
  <2>2. PICK b, r, m : Taking(b, r, m)
    BY <1>3, Takes
  <2>3. state \in Wait
    BY <1>3 DEF ServerReads
  <2>4. Ending' = Ending /\ Budget(pos)' = Budget(pos)
    BY <2>1, SameScript DEF Ending, Budget
  <2>5. CASE ~Enough(b)
    <3>1. state' = state /\ Unread' = Unread
      BY <2>2, <2>5 DEF Taking
    <3>2. Count(Unread)' = Count(Unread)
      BY <3>1 DEF Count, Ends
    <3> QED BY <2>1, <2>4, <3>1, <3>2, Zenon DEF Bounded
  <2>6. CASE Enough(b)
    <3>1. PICK code \in Codes(b) : state' = Goto(state, code)
      BY <2>2, <2>6 DEF Taking
    <3>2. Succeeds(state, state')
      <4>1. /\ state = "WAIT_TUNE_OK" => code \in 0..5
            /\ state = "WAIT_COMMAND" => code \in 0..3
            /\ state \notin {"WAIT_TUNE_OK", "WAIT_COMMAND"} => code = 0
        BY <2>2, <2>6, CodesIn
      <4> QED BY <2>3, <3>1, <4>1, Follows, Zenon
    <3>3. state' \in State /\ (state' \in OpeningStates => state \in OpeningStates)
      BY <3>2 DEF Succeeds
    <3>4. state \in OpeningStates => Count(Unread)' <= Budget(pos)
      <4>1. Unread' = r
        BY <2>2, <2>6 DEF Taking
      <4>2. Count(Unread)' = Count(r)
        BY <4>1 DEF Count, Ends
      <4>3. /\ Count(b) \in Nat /\ Count(r) \in Nat
            /\ Count(Unread) = Count(b) + Count(r)
            /\ state \in OpeningStates => Count(Unread) <= Budget(pos)
        BY <2>2, TakenCounted
      <4>4. Budget(pos) \in 0..6
        BY <1>0, BudgetIs
      <4> QED BY <4>2, <4>3, <4>4
    <3> QED BY <2>1, <2>4, <3>3, <3>4, Zenon DEF Bounded
  <2> QED BY <2>5, <2>6
<1>4. CASE ServerAnswers
  <2>1. /\ command' = command /\ inside' = inside /\ pos' = pos
        /\ UNCHANGED << reading, buf, toServer >>
    BY <1>4 DEF ServerAnswers, client
  <2>2. state \in DOMAIN Answer /\ state' = Goto(state, 0)
                      /\ toClient' = Append(toClient, Answer[state])
    BY <1>4 DEF ServerAnswers, Return, Send
  <2>3. Succeeds(state, state')
    BY <2>2, Follows
  <2>4. ASSUME state' \in OpeningStates
        PROVE  \A i \in DOMAIN toClient' : toClient'[i] # "Connection.Open-Ok"
    <3> DEFINE f == Answer[state]
    <3>1. \A i \in DOMAIN toClient : toClient[i] # "Connection.Open-Ok"
      BY <2>3, <2>4 DEF Bounded, Succeeds
    <3>2. f # "Connection.Open-Ok"
      BY <2>2, <2>4, Follows, OpensLast
    <3>3. toClient \in Seq(Replies) /\ toClient' = Append(toClient, f)
      BY <2>2 DEF Data
    <3> HIDE DEF f
    <3>4. \A i \in DOMAIN Append(toClient, f) :
            Append(toClient, f)[i] = f \/ (i \in DOMAIN toClient /\ Append(toClient,
                                f)[i] = toClient[i])
      BY <3>3
    <3> QED BY <3>1, <3>2, <3>3, <3>4
  <2> QED BY <2>1, <2>3, <2>4, BoundedAt
<1>5. CASE do_SUBSCRIBED \/ do_CLIENT_TURN \/ do_RCVD_BASIC_PUBLISH
  <2>1. /\ command' = command /\ inside' = inside /\ pos' = pos
        /\ UNCHANGED << reading, buf, toServer >>
    BY <1>5 DEF do_SUBSCRIBED, do_CLIENT_TURN, do_RCVD_BASIC_PUBLISH, client
  <2>2. Succeeds(state, state') /\ state \notin OpeningStates
    <3>1. 0 \in 0..1 /\ 1 \in 0..1
      OBVIOUS
    <3>2. CASE do_SUBSCRIBED
      BY <3>2, Follows DEF do_SUBSCRIBED, Return, OpeningStates
    <3>3. CASE do_CLIENT_TURN
      <4>1. state = "CLIENT_TURN" /\ (state' = Goto(state, 0) \/ state' = Goto(state, 1))
        BY <3>3, Zenon DEF do_CLIENT_TURN, Return
      <4> QED BY <3>1, <4>1, Follows DEF OpeningStates
    <3>4. CASE do_RCVD_BASIC_PUBLISH
      <4>1. state = "RCVD_BASIC_PUBLISH" /\ (state' = Goto(state, 0) \/ state' = Goto(state, 1))
        BY <3>4 DEF do_RCVD_BASIC_PUBLISH, Return
      <4> QED BY <3>1, <4>1, Follows DEF OpeningStates
    <3> QED BY <1>5, <3>2, <3>3, <3>4
  <2>3. state' \notin OpeningStates
    BY <2>2 DEF Succeeds
  <2> QED BY <2>1, <2>2, <2>3, BoundedAt
<1>6. CASE Finish \/ UNCHANGED vars
  <2>1. /\ command' = command /\ inside' = inside /\ pos' = pos /\ state' = state
        /\ toClient' = toClient /\ UNCHANGED << reading, buf, toServer >>
    BY <1>6 DEF Finish, vars, client
  <2>2. Succeeds(state, state')
    BY <2>1 DEF Bounded, Succeeds
  <2>3. state' \in OpeningStates => \A i \in DOMAIN toClient' : toClient'[i] # "Connection.Open-Ok"
    BY <2>1 DEF Bounded
  <2> QED BY <2>1, <2>2, <2>3, BoundedAt
<1> QED BY <1>1, <1>2, <1>3, <1>4, <1>5, <1>6 DEF Next, Server, Idle

\* Every variable keeps its shape, and no code of a function takes the state out of
\* the table, whatever bytes the frames hold and wherever TCP cuts them.
THEOREM Typed == Spec => []TypeOK
<1>1. Init => Data /\ Bounded
  BY IInvInit, BoundedInit DEF IInv
<1>2. Data /\ Bounded /\ [Next]_vars => (Data /\ Bounded)'
  BY DataKept, BoundedKept
<1>3. Data /\ Bounded => TypeOK
  BY Zenon DEF Data, Bounded, TypeOK, Replies, Ending
<1> QED BY <1>1, <1>2, <1>3, PTL DEF Spec

=============================================================================
