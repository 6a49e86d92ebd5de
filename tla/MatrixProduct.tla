--------------------------- MODULE MatrixProduct ---------------------------
(***************************************************************************)
(* The matrix products of MAC0219 and the two programs that run them:      *)
(* test.c runs both, compares their results and their times, and main.c    *)
(* runs the one its arguments name.                                        *)
(*                                                                         *)
(* The sum of floating-point numbers depends on the order of the terms,    *)
(* and matrix_eq allows no more than 1e-15 between two entries.  So an     *)
(* entry is here the sequence of the terms added to it: two entries are    *)
(* equal if nothing is known of A and B.  Before its first term an entry   *)
(* that was set to 0 has none, and one of fresh memory has some garbage.   *)
(***************************************************************************)
EXTENDS Integers, Sequences, SequencesExt

CONSTANTS
  Sizes,         \* the matrix sizes main.c is given, and those test.c is compiled for
  Algorithms,    \* the algorithms main.c is given
  Clock          \* what gettimeofday may say, as pairs of seconds and microseconds

VARIABLES
  program,       \* "test" or "main", or "none" before it is chosen
  n,             \* the size of the matrices
  i,             \* the products done
  res,           \* the results: C of dgemm_0 and D of dgemm_1
  t,             \* what each took
  took,          \* by the clock, in microseconds
  exit           \* "running", or how the program ended

vars == << program, n, i, res, t, took, exit >>

\* A product A(i, k) * B(k, j), and where C(i, j) is in memory.
Term(a, k, b) == << a, k, b >>
At(size, a, b) == size * a + b

Cells(size) == 0..(size * size - 1)
Garbage(size) == [c \in Cells(size) |-> << "garbage" >>]
Zero(size) == [c \in Cells(size) |-> << >>]

\* matrix_dgemm_0: a sum from 0 for each entry, written at its end.
matrix_dgemm_0(size, C) ==
  [c \in Cells(size) |-> [k \in 1..size |-> Term(c \div size, k - 1, c % size)]]

\* matrix_dgemm_1: the loops over i, k and j, of which each step adds a term to C(i, j).
matrix_dgemm_1(size, C) ==
  LET steps == [s \in 1..(size^3) |-> << (s - 1) \div size^2, ((s - 1) \div size) % size, (s - 1) % size >>]
  IN  FoldLeft(LAMBDA c, s : [c EXCEPT ![At(size, s[1], s[3])] = Append(@, Term(s[1], s[2], s[3]))],
               C, steps)

\* matrix_which_dgemm.
matrix_which_dgemm(algorithm, size, C) ==
  CASE algorithm = 0 -> matrix_dgemm_0(size, C)
    [] algorithm = 1 -> matrix_dgemm_1(size, C)

matrix_eq(size, A, B) == \A a, b \in 0..(size - 1) : A[At(size, a, b)] = B[At(size, a, b)]

-----------------------------------------------------------------------------
\* timeval_subtract: borrow seconds for the microseconds, or give some back.
timeval_subtract_NoLoan(x, y) == << x[1] - y[1], x[2] - y[2] >>
timeval_subtract(x, y) ==
  LET lend == IF x[2] < y[2] THEN (y[2] - x[2]) \div 1000000 + 1 ELSE 0
      lent == << y[1] + lend, y[2] - 1000000 * lend >>
      back == IF x[2] - lent[2] > 1000000 THEN (x[2] - lent[2]) \div 1000000 ELSE 0
  IN  << x[1] - (lent[1] - back), x[2] - (lent[2] + 1000000 * back) >>

timeval_cmp(x, y) ==
  CASE x[1] < y[1] -> -1
    [] x[1] > y[1] -> 1
    [] x[1] = y[1] /\ x[2] < y[2] -> -1
    [] x[1] = y[1] /\ x[2] > y[2] -> 1
    [] x = y -> 0

Micro(x) == x[1] * 1000000 + x[2]

\* One reading of the clock and a later one.
Readings == {r \in Clock \X Clock : Micro(r[1]) <= Micro(r[2])}

-----------------------------------------------------------------------------
Init ==
  /\ program = "none" /\ n = 0 /\ i = 0
  /\ res = << >> /\ t = << >> /\ took = << >>
  /\ exit = "running"

StartTest ==
  /\ program = "none"
  /\ \E size \in {s \in Sizes : s > 0} :
       /\ program' = "test" /\ n' = size
       /\ res' = << Garbage(size), Garbage(size) >>
  /\ UNCHANGED << i, t, took, exit >>

\* A turn of the loop of test.c: a product on memory set to 0, compared with C, and
\* its time with that of the one before, or with itself.
Run ==
  /\ program = "test" /\ exit = "running" /\ i < 2
  /\ \E r \in Readings :
       /\ res' = [res EXCEPT ![i + 1] = matrix_which_dgemm(i, n, Zero(n))]
       /\ t' = Append(t, timeval_subtract(r[2], r[1]))
       /\ took' = Append(took, Micro(r[2]) - Micro(r[1]))
  /\ exit' = IF ~matrix_eq(n, res'[i + 1], res'[1]) THEN "wrong"
             ELSE IF timeval_cmp(t'[i + 1], t'[IF i = 0 THEN 1 ELSE i]) > 0 THEN "slower"
             ELSE IF i + 1 = 2 THEN "done" ELSE "running"
  /\ i' = i + 1
  /\ UNCHANGED << program, n >>

\* validate_args, of arguments that parse_args has read; algorithm is unsigned.
validate_args(size, algorithm) == ~(size = 0 \/ algorithm < 0 \/ algorithm >= 2)

\* main.c, from its arguments to the time it prints.  (It allocates n * n numbers also
\* when n is negative, and then multiplies nothing.)
Main ==
  /\ program = "none"
  /\ \E size \in Sizes, algorithm \in Algorithms, r \in Readings :
       LET side == IF size > 0 THEN size ELSE 0 IN
       /\ program' = "main" /\ n' = size
       /\ IF validate_args(size, algorithm)
          THEN /\ res' = << matrix_which_dgemm(algorithm, side, Zero(side)) >>
               /\ t' = << timeval_subtract(r[2], r[1]) >>
               /\ took' = << Micro(r[2]) - Micro(r[1]) >>
               /\ i' = 1 /\ exit' = "done"
          ELSE exit' = "usage" /\ UNCHANGED << res, t, took, i >>

Next == StartTest \/ Run \/ Main

Spec == Init /\ [][Next]_vars
-----------------------------------------------------------------------------
\* What the programs print and compare as the time of a product is, to the microsecond,
\* what passed between the two readings of the clock.
TimesRight == \A p \in 1..i : Micro(t[p]) = took[p] /\ t[p][1] >= 0 /\ 0 <= t[p][2] /\ t[p][2] < 1000000

\* The test finds fault with the time of the second product exactly if that took longer
\* by the clock.
FoundSlower == i = 2 /\ exit # "wrong" => (exit = "slower" <=> took[2] > took[1])

\* Both products add the same terms to an entry in the same order, so that the test
\* finds them equal whatever the numbers are; and its times and its verdict on them are
\* those of the clock.
SameSums ==
  /\ exit # "wrong"
  /\ \A p \in 1..i : \A a, b \in 0..(n - 1) :
       res[p][At(n, a, b)] = [k \in 1..n |-> Term(a, k - 1, b)]
  /\ TimesRight
  /\ FoundSlower
=============================================================================
