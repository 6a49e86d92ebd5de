------------------------ MODULE MatrixProductProofs ------------------------
(***************************************************************************)
(* The times of the matrix products, for every clock that gives seconds    *)
(* and microseconds below a million: the borrowing of timeval_subtract is  *)
(* right and timeval_cmp orders times as they passed.                      *)
(***************************************************************************)
EXTENDS MatrixProduct, TLAPS

Times == {x \in Nat \X Nat : x[2] < 1000000}

\* timeval_subtract of a later reading and an earlier one: exact, with microseconds
\* below a million.
LEMMA Subtract ==
  ASSUME NEW x \in Times, NEW y \in Times, Micro(y) <= Micro(x)
  PROVE  LET d == timeval_subtract(x, y) IN
         d \in Times /\ Micro(d) = Micro(x) - Micro(y)
<1>1. /\ x[1] \in Nat /\ x[2] \in Nat /\ x[2] < 1000000 /\ y[1] \in Nat /\ y[2] \in Nat /\ y[2] < 1000000
      /\ y[1] * 1000000 + y[2] <= x[1] * 1000000 + x[2]
  BY DEF Times, Micro
<1>2. CASE x[2] < y[2]
  <2>1. (y[2] - x[2]) \div 1000000 = 0
    BY <1>1, <1>2
  <2>2. ~(x[2] - (y[2] - 1000000 * 1) > 1000000)
    BY <1>1, <1>2
  <2>3. timeval_subtract(x, y) = << x[1] - ((y[1] + 1) - 0), x[2] - ((y[2] - 1000000 * 1) + 1000000 * 0) >>
    BY <1>2, <2>1, <2>2 DEF timeval_subtract
  <2>4. /\ x[1] - ((y[1] + 1) - 0) \in Nat
        /\ x[2] - ((y[2] - 1000000 * 1) + 1000000 * 0) \in Nat
        /\ x[2] - ((y[2] - 1000000 * 1) + 1000000 * 0) < 1000000
    BY <1>1, <1>2
  <2> QED BY <1>1, <2>3, <2>4 DEF Times, Micro
<1>3. CASE ~(x[2] < y[2])
  <2>1. ~(x[2] - (y[2] - 1000000 * 0) > 1000000)
    BY <1>1, <1>3
  <2>2. timeval_subtract(x, y) = << x[1] - ((y[1] + 0) - 0), x[2] - ((y[2] - 1000000 * 0) + 1000000 * 0) >>
    BY <1>3, <2>1 DEF timeval_subtract
  <2>3. /\ x[1] - ((y[1] + 0) - 0) \in Nat
        /\ x[2] - ((y[2] - 1000000 * 0) + 1000000 * 0) \in Nat
        /\ x[2] - ((y[2] - 1000000 * 0) + 1000000 * 0) < 1000000
    BY <1>1, <1>3
  <2> QED BY <1>1, <2>2, <2>3 DEF Times, Micro
<1> QED BY <1>2, <1>3

\* timeval_cmp is positive exactly for a time that is longer.
THEOREM Compare ==
  ASSUME NEW x \in Times, NEW y \in Times
  PROVE  timeval_cmp(x, y) > 0 <=> Micro(x) > Micro(y)
<1>1. /\ x = << x[1], x[2] >> /\ y = << y[1], y[2] >>
      /\ x[1] \in Nat /\ x[2] \in Nat /\ x[2] < 1000000 /\ y[1] \in Nat /\ y[2] \in Nat /\ y[2] < 1000000
  BY DEF Times
<1>2. CASE x[1] # y[1]
  BY <1>1, <1>2 DEF timeval_cmp, Micro
<1>3. CASE x[1] = y[1] /\ x[2] # y[2]
  BY <1>1, <1>3 DEF timeval_cmp, Micro
<1>4. CASE x[1] = y[1] /\ x[2] = y[2]
  <2>1. x = y /\ timeval_cmp(x, y) = 0
    BY <1>1, <1>4 DEF timeval_cmp
  <2> QED BY <1>1, <2>1 DEF Micro
<1> QED BY <1>2, <1>3, <1>4

-----------------------------------------------------------------------------
\* A time for each product done.
TimesInv ==
  /\ i \in Nat /\ t \in Seq(Times) /\ took \in Seq(Int)
  /\ Len(t) = i /\ Len(took) = i
  /\ \A p \in 1..i : Micro(t[p]) = took[p]
  /\ (program = "none" => i = 0)
  /\ FoundSlower

\* Two readings in their order.
LEMMA Reading ==
  ASSUME Clock \subseteq Times, NEW r \in Readings
  PROVE  /\ timeval_subtract(r[2], r[1]) \in Times
         /\ Micro(r[2]) - Micro(r[1]) \in Int
         /\ Micro(timeval_subtract(r[2], r[1])) = Micro(r[2]) - Micro(r[1])
<1>1. r[1] \in Times /\ r[2] \in Times /\ Micro(r[1]) <= Micro(r[2])
  BY DEF Readings
<1>2. Micro(r[1]) \in Int /\ Micro(r[2]) \in Int
  BY <1>1 DEF Times, Micro
<1> QED BY <1>1, <1>2, Subtract

\* The invariant of both programs, of which the theorems below are parts.
THEOREM ClockInductive ==
  ASSUME Clock \subseteq Times
  PROVE  Spec => []TimesInv
<1>1. Init => TimesInv
  BY DEF Init, TimesInv, FoundSlower
<1>2. TimesInv /\ [Next]_vars => TimesInv'
  <2> SUFFICES ASSUME TimesInv, [Next]_vars PROVE TimesInv'
    OBVIOUS
  <2>1. CASE StartTest
    BY <2>1 DEF StartTest, TimesInv, FoundSlower
  <2>2. CASE Run
    <3>1. PICK r \in Readings :
            /\ t' = Append(t, timeval_subtract(r[2], r[1]))
            /\ took' = Append(took, Micro(r[2]) - Micro(r[1]))
            /\ i' = i + 1
      BY <2>2 DEF Run
    <3> DEFINE d == timeval_subtract(r[2], r[1])
               m == Micro(r[2]) - Micro(r[1])
    <3>2. d \in Times /\ m \in Int /\ Micro(d) = m
      BY Reading
    <3>3. t' = Append(t, d) /\ took' = Append(took, m)
      BY <3>1
    <3> HIDE DEF d, m
    <3>4. /\ i' \in Nat /\ t' \in Seq(Times) /\ took' \in Seq(Int)
          /\ Len(t') = i' /\ Len(took') = i'
          /\ \A p \in 1..i' : t'[p] \in Times /\ Micro(t'[p]) = took'[p]
      BY <3>1, <3>2, <3>3 DEF TimesInv
    <3>5. FoundSlower'
      <4> SUFFICES ASSUME i' = 2, exit' # "wrong"
                   PROVE  exit' = "slower" <=> took'[2] > took'[1]
        BY DEF FoundSlower
      <4>1. exit' = "slower" <=> timeval_cmp(t'[2], t'[1]) > 0
        BY <2>2, <3>1 DEF Run, TimesInv
      <4>2. /\ t'[1] \in Times /\ t'[2] \in Times
            /\ Micro(t'[1]) = took'[1] /\ Micro(t'[2]) = took'[2]
        BY <3>4
      <4> QED BY <4>1, <4>2, Compare
    <3>6. program' # "none"
      BY <2>2 DEF Run
    <3> QED BY <3>4, <3>5, <3>6 DEF TimesInv
  <2>3. CASE Main
    <3>1. PICK r \in Readings :
            \/ /\ t' = << timeval_subtract(r[2], r[1]) >>
               /\ took' = << Micro(r[2]) - Micro(r[1]) >>
               /\ i' = 1
            \/ UNCHANGED << t, took, i >> /\ exit' = "usage"
      BY <2>3 DEF Main
    <3>2. CASE UNCHANGED << t, took, i >> /\ exit' = "usage"
      <4>1. i # 2
        BY <2>3 DEF Main, TimesInv
      <4>2. program' # "none"
        BY <2>3 DEF Main
      <4> QED BY <3>2, <4>1, <4>2 DEF TimesInv, FoundSlower
    <3>3. CASE t' = << timeval_subtract(r[2], r[1]) >> /\ took' = << Micro(r[2]) - Micro(r[1]) >> /\ i' = 1
      <4> DEFINE d == timeval_subtract(r[2], r[1])
                 m == Micro(r[2]) - Micro(r[1])
      <4>1. d \in Times /\ m \in Int /\ Micro(d) = m
        BY Reading
      <4> HIDE DEF d, m
      <4>2. t' = << d >> /\ took' = << m >>
        BY <3>3 DEF d, m
      <4>3. program' # "none"
        BY <2>3 DEF Main
      <4> QED BY <3>3, <4>1, <4>2, <4>3 DEF TimesInv, FoundSlower
    <3> QED BY <3>1, <3>2, <3>3
  <2>4. CASE UNCHANGED vars
    BY <2>4 DEF vars, TimesInv, FoundSlower
  <2> QED BY <2>1, <2>2, <2>3, <2>4 DEF Next
<1> QED BY <1>1, <1>2, PTL DEF Spec

\* Every time that is printed or compared is what passed by the clock, in seconds and
\* microseconds as they should be, whatever the clock reads.
THEOREM TimesAreExact ==
  ASSUME Clock \subseteq Times
  PROVE  Spec => []TimesRight
<1>1. TimesInv => TimesRight
  BY DEF TimesInv, TimesRight, Times
<1> QED BY <1>1, ClockInductive, PTL

\* The test of test.c judges the times rightly: it complains of the second product
\* exactly if that took longer by the clock.
THEOREM VerdictByTheClock ==
  ASSUME Clock \subseteq Times
  PROVE  Spec => []FoundSlower
<1>1. TimesInv => FoundSlower
  BY DEF TimesInv
<1> QED BY <1>1, ClockInductive, PTL
=============================================================================
