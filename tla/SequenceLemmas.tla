--------------------------- MODULE SequenceLemmas ---------------------------
(***************************************************************************)
(* What joining the back and leaving the front do to a sequence and to its *)
(* elements: the rings of module Broker and the chains of LinkedQueue.     *)
(* And what joining and cutting sequences do: the streams of Connection.   *)
(***************************************************************************)
EXTENDS SequencesExt, SequenceTheorems, TLAPS

\* Joining the back of a sequence adds one element and keeps the front.
LEMMA AppendDistinct ==
  ASSUME NEW S, NEW L \in Seq(S), NEW x \in S
  PROVE  /\ ToSet(Append(L, x)) = ToSet(L) \union {x}
         /\ Append(L, x) # << >>
         /\ L # << >> => Head(Append(L, x)) = Head(L)
         /\ IsInjective(L) /\ x \notin ToSet(L) => IsInjective(Append(L, x))
<1>1. /\ Len(L) \in Nat
      /\ Append(L, x) \in Seq(S)
      /\ DOMAIN L = 1..Len(L)
      /\ DOMAIN Append(L, x) = 1..(Len(L) + 1)
      /\ Append(L, x)[Len(L) + 1] = x
      /\ \A i \in 1..Len(L) : Append(L, x)[i] = L[i]
  OBVIOUS
<1>2. ToSet(Append(L, x)) = ToSet(L) \union {x}
  BY <1>1 DEF ToSet
<1>3. L # << >> => Head(Append(L, x)) = Head(L)
  BY <1>1
<1>4. IsInjective(L) /\ x \notin ToSet(L) => IsInjective(Append(L, x))
  BY <1>1 DEF IsInjective, ToSet
<1> QED BY <1>1, <1>2, <1>3, <1>4

\* Leaving the front of a sequence without repetitions removes that element and
\* no other.
LEMMA TailDistinct ==
  ASSUME NEW S, NEW L \in Seq(S), L # << >>, IsInjective(L)
  PROVE  /\ ToSet(Tail(L)) = ToSet(L) \ {Head(L)}
         /\ IsInjective(Tail(L))
<1>1. /\ Len(L) \in Nat \ {0}
      /\ DOMAIN L = 1..Len(L)
      /\ DOMAIN Tail(L) = 1..(Len(L) - 1)
      /\ Head(L) = L[1]
      /\ \A i \in 1..(Len(L) - 1) : Tail(L)[i] = L[i + 1]
  OBVIOUS
<1>2. \A i \in 1..Len(L) : i # 1 => L[i] # L[1]
  BY <1>1 DEF IsInjective
<1>3. ToSet(Tail(L)) \subseteq ToSet(L) \ {Head(L)}
  BY <1>1, <1>2 DEF ToSet
<1>4. ToSet(L) \ {Head(L)} \subseteq ToSet(Tail(L))
  <2> SUFFICES ASSUME NEW i \in 1..Len(L), i # 1
               PROVE  L[i] \in ToSet(Tail(L))
    BY <1>1 DEF ToSet
  <2>1. i - 1 \in 1..(Len(L) - 1) /\ Tail(L)[i - 1] = L[i]
    BY <1>1
  <2> QED BY <1>1, <2>1 DEF ToSet
<1>5. IsInjective(Tail(L))
  BY <1>1 DEF IsInjective
<1> QED BY <1>3, <1>4, <1>5

\* A sequence is empty when it has no elements.
LEMMA EmptyRange ==
  ASSUME NEW S, NEW L \in Seq(S)
  PROVE  /\ L = << >> <=> ToSet(L) = {}
         /\ L # << >> => Head(L) \in ToSet(L)
<1>1. Len(L) \in Nat /\ DOMAIN L = 1..Len(L) /\ (L # << >> => 1 \in DOMAIN L /\ Head(L) = L[1])
  OBVIOUS
<1>2. L # << >> => Head(L) \in ToSet(L)
  BY <1>1 DEF ToSet
<1>3. L = << >> => ToSet(L) = {}
  BY DEF ToSet
<1> QED BY <1>2, <1>3

\* What joins the back of the second part joins the back of the whole.
LEMMA ConcatAppend ==
  ASSUME NEW S, NEW s \in Seq(S), NEW t \in Seq(S), NEW x \in S
  PROVE  s \o Append(t, x) = Append(s \o t, x)
<1>1. s \o t \in Seq(S) /\ Append(t, x) \in Seq(S) /\ << x >> \in Seq(S)
  BY ConcatProperties
<1>2. Append(t, x) = t \o << x >> /\ Append(s \o t, x) = (s \o t) \o << x >>
  BY <1>1, AppendIsConcat
<1> QED BY <1>1, <1>2, ConcatAssociative

\* What is put in front is the head, and the rest the tail.
LEMMA ConcatFront ==
  ASSUME NEW S, NEW t \in Seq(S), NEW x \in S
  PROVE  /\ << x >> \o t # << >>
         /\ Head(<< x >> \o t) = x
         /\ Tail(<< x >> \o t) = t
<1> DEFINE s == << x >> \o t
<1>1. << x >> \in Seq(S) /\ Len(<< x >>) = 1 /\ Len(t) \in Nat
  OBVIOUS
<1>2. /\ s \in Seq(S) /\ Len(s) = 1 + Len(t)
      /\ \A i \in 1..(1 + Len(t)) : s[i] = IF i <= 1 THEN x ELSE t[i - 1]
  BY <1>1, ConcatProperties
<1> HIDE DEF s
<1>3. s # << >> /\ Head(s) = x
  BY <1>1, <1>2
<1>4. Tail(s) = t
  <2>1. /\ Tail(s) \in Seq(S) /\ Len(Tail(s)) = Len(t)
        /\ \A i \in 1..Len(t) : Tail(s)[i] = s[i + 1]
    BY <1>1, <1>2, <1>3, HeadTailProperties
  <2>2. \A i \in 1..Len(t) : Tail(s)[i] = t[i]
    BY <1>1, <1>2, <2>1
  <2> QED BY <2>1, <2>2, SeqEqual
<1> QED BY <1>3, <1>4 DEF s

\* A sequence is its head in front of its tail.
LEMMA HeadThenTail ==
  ASSUME NEW S, NEW s \in Seq(S), s # << >>
  PROVE  << Head(s) >> \o Tail(s) = s
<1>1. Head(s) \in S /\ Tail(s) \in Seq(S) /\ Len(Tail(s)) = Len(s) - 1
      /\ Len(s) \in Nat /\ Head(s) = s[1]
      /\ \A i \in 1..Len(Tail(s)) : Tail(s)[i] = s[i + 1]
  BY HeadTailProperties
<1> DEFINE h == << Head(s) >>
<1>2. h \in Seq(S) /\ Len(h) = 1 /\ h[1] = s[1]
  BY <1>1
<1>3. /\ h \o Tail(s) \in Seq(S) /\ Len(h \o Tail(s)) = Len(s)
      /\ \A i \in 1..Len(s) : (h \o Tail(s))[i] = IF i <= 1 THEN h[i] ELSE Tail(s)[i - 1]
  <2> HIDE DEF h
  <2>1. Len(h) + Len(Tail(s)) = Len(s)
    BY <1>1, <1>2
  <2>2. /\ h \o Tail(s) \in Seq(S) /\ Len(h \o Tail(s)) = Len(h) + Len(Tail(s))
        /\ \A i \in 1..(Len(h) + Len(Tail(s))) :
             (h \o Tail(s))[i] = IF i <= Len(h) THEN h[i] ELSE Tail(s)[i - Len(h)]
    <3>1. h \in Seq(S) /\ Tail(s) \in Seq(S)
      BY <1>1, <1>2
    <3> QED BY <3>1, ConcatProperties
  <2> QED BY <1>2, <2>1, <2>2
<1> HIDE DEF h
<1>4. \A i \in 1..Len(s) : (h \o Tail(s))[i] = s[i]
  BY <1>1, <1>2, <1>3
<1>5. h \o Tail(s) = s
  BY <1>3, <1>4, SeqEqual
<1> QED BY <1>5 DEF h

\* What comes first in a sequence, and what after it.
LEMMA ConcatParts ==
  ASSUME NEW S, NEW s \in Seq(S), NEW t \in Seq(S)
  PROVE  /\ s \o t \in Seq(S) /\ Len(s \o t) = Len(s) + Len(t)
         /\ DOMAIN (s \o t) = 1..(Len(s) + Len(t))
         /\ \A k \in 1..Len(s) : (s \o t)[k] = s[k]
         /\ \A k \in 1..Len(t) : (s \o t)[Len(s) + k] = t[k]
<1>1. /\ s \o t \in Seq(S) /\ Len(s \o t) = Len(s) + Len(t)
      /\ \A k \in 1..(Len(s) + Len(t)) : (s \o t)[k] = IF k <= Len(s) THEN s[k] ELSE t[k - Len(s)]
  BY ConcatProperties
<1>2. Len(s) \in Nat /\ Len(t) \in Nat
  OBVIOUS
<1> DEFINE u == s \o t
<1>3. u \in Seq(S) /\ Len(u) = Len(s) + Len(t)
  BY <1>1
<1>4. \A k \in 1..(Len(s) + Len(t)) : u[k] = IF k <= Len(s) THEN s[k] ELSE t[k - Len(s)]
  BY <1>1
<1> HIDE DEF u
<1>5. DOMAIN u = 1..(Len(s) + Len(t))
  BY <1>3
<1>6. \A k \in 1..Len(s) : u[k] = s[k]
  BY <1>2, <1>4
<1>7. ASSUME NEW k \in 1..Len(t) PROVE u[Len(s) + k] = t[k]
  <2> DEFINE m == Len(s) + k
  <2>1. m \in 1..(Len(s) + Len(t)) /\ ~(m <= Len(s)) /\ m - Len(s) = k
    BY <1>2
  <2> HIDE DEF m
  <2>2. u[m] = t[k]
    BY <1>4, <2>1
  <2> QED BY <2>2 DEF m
<1> QED BY <1>3, <1>5, <1>6, <1>7 DEF u

\* What a prefix is.
LEMMA PrefixIs ==
  ASSUME NEW S, NEW s \in Seq(S), NEW t \in Seq(S)
  PROVE  IsPrefix(s, t) <=> Len(s) <= Len(t) /\ \A i \in 1..Len(s) : s[i] = t[i]
<1> DEFINE a == SubSeq(s, 1, Len(s))
           b == SubSeq(t, 1, Len(s))
<1>1. Len(s) \in Nat /\ Len(t) \in Nat
  OBVIOUS
<1>2. a = s
  OBVIOUS
<1>3. IsPrefix(s, t) <=> Len(s) <= Len(t) /\ s = b
  BY <1>2 DEF IsPrefix
<1>4. ASSUME Len(s) <= Len(t)
      PROVE  b \in Seq(S) /\ Len(b) = Len(s) /\ \A i \in 1..Len(s) : b[i] = t[i]
  BY <1>1, <1>4
<1> HIDE DEF b
<1>5. ASSUME Len(s) <= Len(t), \A i \in 1..Len(s) : s[i] = t[i] PROVE s = b
  BY <1>4, <1>5, SeqEqual
<1> QED BY <1>3, <1>4, <1>5

\* One more element of the longer sequence makes a longer prefix.
LEMMA PrefixAppend ==
  ASSUME NEW S, NEW s \in Seq(S), NEW t \in Seq(S), IsPrefix(s, t), Len(s) < Len(t),
         NEW x, x = t[Len(s) + 1]
  PROVE  IsPrefix(Append(s, x), t)
<1> DEFINE a == Append(s, x)
<1>1. Len(s) \in Nat /\ Len(t) \in Nat /\ x \in S
  OBVIOUS
<1>2. a \in Seq(S) /\ Len(a) = Len(s) + 1 /\ a[Len(s) + 1] = x /\ \A i \in 1..Len(s) : a[i] = s[i]
  BY <1>1, AppendProperties
<1>3. \A i \in 1..Len(s) : s[i] = t[i]
  BY PrefixIs
<1> HIDE DEF a
<1>4. \A i \in 1..Len(a) : i \in 1..Len(s) \/ i = Len(s) + 1
  BY <1>1, <1>2
<1>5. \A i \in 1..Len(a) : a[i] = t[i]
  BY <1>2, <1>3, <1>4
<1>6. Len(a) <= Len(t)
  BY <1>1, <1>2
<1> QED BY <1>2, <1>5, <1>6, PrefixIs DEF a

\* What a read takes, behind what was there already, and what it leaves.
CutAt(S, x, t, n) ==
  LET b == x \o SubSeq(t, 1, n)
      r == SubSeq(t, n + 1, Len(t))
      u == x \o t
      m == Len(x) + n
  IN  /\ b \in Seq(S) /\ r \in Seq(S) /\ u \in Seq(S)
      /\ m \in 1..Len(u) /\ Len(b) = m
      /\ b \o r = u /\ t[n] = u[m]
      /\ \A i \in 1..m : b[i] = u[i]

\* The bytes read and those left are the whole, in order.
LEMMA Cut ==
  ASSUME NEW S, NEW x \in Seq(S), NEW t \in Seq(S), NEW n \in 1..Len(t)
  PROVE  CutAt(S, x, t, n)
<1> DEFINE a == SubSeq(t, 1, n)
           r == SubSeq(t, n + 1, Len(t))
           b == x \o a
           u == x \o t
           m == Len(x) + n
<1>1. Len(x) \in Nat /\ Len(t) \in Nat /\ n \in Nat /\ n >= 1 /\ n <= Len(t)
  OBVIOUS
<1>2. a \in Seq(S) /\ Len(a) = n /\ \A i \in 1..n : a[i] = t[i]
  BY <1>1
<1>3. r \in Seq(S) /\ Len(r) = Len(t) - n /\ \A i \in 1..(Len(t) - n) : r[i] = t[n + i]
  BY <1>1
<1> HIDE DEF a, r
<1>4. /\ b \in Seq(S) /\ Len(b) = Len(x) + n
      /\ \A i \in 1..Len(x) : b[i] = x[i]
      /\ \A i \in 1..n : b[Len(x) + i] = a[i]
  <2>1. a \in Seq(S)
    BY <1>2
  <2>2. /\ b \in Seq(S) /\ Len(b) = Len(x) + Len(a)
        /\ \A i \in 1..Len(x) : b[i] = x[i]
        /\ \A i \in 1..Len(a) : b[Len(x) + i] = a[i]
    BY <2>1, ConcatParts
  <2> HIDE DEF b
  <2> QED BY <1>2, <2>2
<1>5. /\ u \in Seq(S) /\ Len(u) = Len(x) + Len(t)
      /\ \A i \in 1..Len(x) : u[i] = x[i]
      /\ \A i \in 1..Len(t) : u[Len(x) + i] = t[i]
  BY ConcatParts
<1>6. /\ b \o r \in Seq(S) /\ Len(b \o r) = Len(b) + Len(r)
      /\ \A i \in 1..Len(b) : (b \o r)[i] = b[i]
      /\ \A i \in 1..Len(r) : (b \o r)[Len(b) + i] = r[i]
  <2>1. b \in Seq(S) /\ r \in Seq(S)
    BY <1>3, <1>4
  <2> HIDE DEF b
  <2> QED BY <2>1, ConcatParts
<1> DEFINE w == b \o r
<1> HIDE DEF b, u, w
<1>7. m \in Nat /\ m \in 1..Len(u) /\ Len(b) = m /\ Len(r) = Len(u) - m /\ t[n] = u[m]
  BY <1>1, <1>3, <1>4, <1>5
<1>8. ASSUME NEW i \in 1..m PROVE b[i] = u[i]
  <2>1. CASE i \in 1..Len(x)
    BY <1>4, <1>5, <2>1
  <2>2. CASE i - Len(x) \in 1..n
    <3> DEFINE j == i - Len(x)
    <3>1. j \in 1..n /\ j \in 1..Len(t) /\ i = Len(x) + j
      BY <1>1, <2>2
    <3> HIDE DEF j
    <3> QED BY <1>2, <1>4, <1>5, <3>1
  <2> QED BY <1>1, <2>1, <2>2
<1>9. ASSUME NEW i \in 1..Len(r) PROVE r[i] = u[m + i]
  <2>1. i \in 1..(Len(t) - n) /\ n + i \in 1..Len(t) /\ Len(x) + (n + i) = m + i
    BY <1>1, <1>3
  <2> QED BY <1>3, <1>5, <2>1
<1>10. w = u
  <2>1. w \in Seq(S) /\ Len(w) = Len(u)
    BY <1>6, <1>7 DEF w
  <2>2. ASSUME NEW i \in 1..Len(u) PROVE w[i] = u[i]
    <3>1. CASE i \in 1..m
      BY <1>6, <1>7, <1>8, <3>1 DEF w
    <3>2. CASE i - m \in 1..Len(r)
      <4> DEFINE j == i - m
      <4>1. j \in 1..Len(r) /\ i = m + j
        BY <1>7, <3>2
      <4> HIDE DEF j
      <4>2. w[Len(b) + j] = r[j]
        BY <1>6, <4>1 DEF w
      <4> QED BY <1>7, <1>9, <4>1, <4>2
    <3> QED BY <1>7, <3>1, <3>2
  <2> QED BY <1>5, <2>1, <2>2, SeqEqual
<1> QED BY <1>3, <1>4, <1>5, <1>7, <1>8, <1>9, <1>10 DEF a, r, b, u, w, CutAt

\* All of it: nothing is left.
LEMMA CutAll ==
  ASSUME NEW S, NEW b \in Seq(S), NEW r \in Seq(S), NEW u, u = b \o r, Len(b) = Len(u)
  PROVE  r = << >> /\ b = u
<1>1. Len(b \o r) = Len(b) + Len(r)
  BY ConcatProperties
<1>2. Len(b) \in Nat /\ Len(r) \in Nat
  OBVIOUS
<1>3. Len(r) = 0
  BY <1>1, <1>2
<1>4. r = << >>
  BY <1>3
<1> QED BY <1>4

\* The first part of two.
LEMMA CutFirst ==
  ASSUME NEW S, NEW b \in Seq(S), NEW r \in Seq(S), NEW p \in Seq(S), NEW q \in Seq(S)
  PROVE  b \o r = p \o q /\ Len(b) = Len(p) => b = p /\ r = q
<1> DEFINE u == b \o r
           n == Len(b)
           Given == u = b \o r /\ u = p \o q /\ Len(b) = n /\ Len(p) = n
<1> SUFFICES ASSUME Given PROVE b = p /\ r = q
  OBVIOUS
<1> HIDE DEF Given, u, n
<1>1. /\ Len(b \o r) = Len(b) + Len(r)
      /\ \A k \in 1..Len(b) : (b \o r)[k] = b[k]
      /\ \A k \in 1..Len(r) : (b \o r)[Len(b) + k] = r[k]
  BY ConcatParts
<1>2. /\ Len(p \o q) = Len(p) + Len(q)
      /\ \A k \in 1..Len(p) : (p \o q)[k] = p[k]
      /\ \A k \in 1..Len(q) : (p \o q)[Len(p) + k] = q[k]
  BY ConcatParts
<1>3. /\ Len(u) = Len(b) + Len(r) /\ Len(u) = Len(p) + Len(q)
      /\ \A k \in 1..n : u[k] = b[k] /\ u[k] = p[k]
      /\ \A k \in 1..Len(r) : u[n + k] = r[k]
      /\ \A k \in 1..Len(q) : u[n + k] = q[k]
  BY <1>1, <1>2 DEF Given
<1>4. Len(r) = Len(q) /\ Len(b) = n /\ Len(p) = n
  BY <1>3 DEF Given
<1>5. \A k \in 1..n : b[k] = p[k]
  BY <1>3
<1>6. \A k \in 1..Len(r) : r[k] = q[k]
  BY <1>3, <1>4
<1>7. b = p
  BY <1>4, <1>5, SeqEqual
<1>8. r = q
  BY <1>4, <1>6, SeqEqual
<1> QED BY <1>7, <1>8

=============================================================================
