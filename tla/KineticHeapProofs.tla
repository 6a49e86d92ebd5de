------------------------- MODULE KineticHeapProofs -------------------------
(***************************************************************************)
(* Theorems about KineticHeap, for every set of elements, positions and    *)
(* speeds.  KineticShape and KineticTypeOK: the types, with deletions too. *)
(* KineticIntact: as long as nothing has been deleted, Whole holds at      *)
(* every turn of every loop.  From it come KineticCertified,               *)
(* KineticFirstExpiry and KineticNeverBack.  KineticMaximum: the maximum   *)
(* is the farthest, after a Delete too if it is the last command.          *)
(* KineticMeetingsOnce: no loop takes more turns than there are meetings.  *)
(***************************************************************************)
EXTENDS KineticInvariant, FiniteSetTheorems, SequenceTheorems, WellFoundedInduction, TLAPS

-----------------------------------------------------------------------------
\* Lines and meetings.


\* Two speeds differ by at most two.
LEMMA SpeedsClose ==
  ASSUME NEW u \in EvenLine, NEW p \in EvenLine
  PROVE  /\ u.x \in Int /\ u.v \in Int /\ p.x \in Int /\ p.v \in Int
         /\ u.v - p.v \in {-2, -1, 0, 1, 2}
         /\ (u.x - p.x) % 2 = 0 /\ (p.x - u.x) % 2 = 0
<1>1. u.v \in Speeds /\ p.v \in Speeds /\ u.x \in Int /\ p.x \in Int /\ u.x % 2 = 0 /\ p.x % 2 = 0
  BY DEF EvenLine
<1>2. u.v \in Int /\ p.v \in Int /\ u.v - p.v \in {-2, -1, 0, 1, 2}
  BY <1>1, KineticAssumption
<1>3. QED BY <1>1, <1>2

LEMMA PlaceInteger ==
  ASSUME NEW u \in EvenLine, NEW t \in Int
  PROVE  Place(u, t) \in Int
BY SpeedsClose DEF Place

LEMMA Halves ==
  \A d \in Int : d % 2 = 0 => d \div 2 \in Int /\ 2 * (d \div 2) = d
OBVIOUS

\* At M the first of two lines comes level with the second, and then passes it.
Passes(a, v, b, w, t, M) ==
  /\ M \in Int
  /\ a + v * t < b + w * t <=> t < M
  /\ a + v * t = b + w * t <=> t = M
  /\ a + v * t > b + w * t <=> t > M

LEMMA Once ==
  ASSUME NEW a \in Int, NEW b \in Int, NEW v \in Int, NEW t \in Int, NEW s \in {1, 2},
         (b - a) % 2 = 0
  PROVE  Passes(a, v + s, b, v, t, (b - a) \div s)
<1> DEFINE c == v * t
<1>1. c \in Int /\ (v + 1) * t = c + t /\ (v + 2) * t = c + 2 * t
  OBVIOUS
<1>2. /\ (b - a) \div 1 = b - a /\ (b - a) \div 2 \in Int /\ 2 * ((b - a) \div 2) = b - a
  BY Halves
<1> HIDE DEF c
<1>3. CASE s = 1
  BY <1>1, <1>2, <1>3 DEF c, Passes
<1>4. CASE s = 2
  <2> DEFINE M == (b - a) \div 2
  <2>1. M \in Int /\ b = a + 2 * M
    BY <1>2
  <2> HIDE DEF M
  <2>2. /\ a + (c + 2 * t) < b + c <=> t < M
        /\ a + (c + 2 * t) = b + c <=> t = M
        /\ a + (c + 2 * t) > b + c <=> t > M
    BY <1>1, <2>1
  <2>3. QED BY <1>1, <1>4, <2>1, <2>2 DEF c, M, Passes
<1>5. QED BY <1>3, <1>4

\* The faster of two is behind before they meet, and ahead afterwards.
LEMMA Crossing ==
  ASSUME NEW u \in EvenLine, NEW p \in EvenLine, NEW t \in Int, u.v > p.v
  PROVE  /\ Meet(u, p) \in Int
         /\ Place(u, t) < Place(p, t) <=> t < Meet(u, p)
         /\ Place(u, t) = Place(p, t) <=> t = Meet(u, p)
         /\ Place(u, t) > Place(p, t) <=> t > Meet(u, p)
<1> DEFINE s == u.v - p.v
<1>1. /\ u.x \in Int /\ u.v \in Int /\ p.x \in Int /\ p.v \in Int
      /\ s \in {1, 2} /\ (p.x - u.x) % 2 = 0
  BY SpeedsClose
<1>2. Meet(u, p) = (p.x - u.x) \div s /\ u.v = p.v + s
  BY <1>1 DEF Meet
<1> HIDE DEF s
<1>3. Passes(u.x, p.v + s, p.x, p.v, t, (p.x - u.x) \div s)
  BY <1>1, Once
<1>4. Passes(u.x, u.v, p.x, p.v, t, Meet(u, p))
  BY <1>2, <1>3, Zenon
<1>5. QED BY <1>4, Zenon DEF Passes, Place

LEMMA MeetSymmetric ==
  ASSUME NEW u \in EvenLine, NEW p \in EvenLine, u.v # p.v
  PROVE  Meet(u, p) = Meet(p, u)
<1>1. (p.v > u.v /\ ~ u.v > p.v) \/ (u.v > p.v /\ ~ p.v > u.v)
  BY SpeedsClose
<1>2. QED BY <1>1, Zenon DEF Meet

LEMMA Parallel ==
  ASSUME NEW u \in EvenLine, NEW p \in EvenLine, NEW s \in Int, NEW t \in Int, u.v = p.v
  PROVE  Place(u, s) < Place(p, s) <=> Place(u, t) < Place(p, t)
BY SpeedsClose DEF Place

-----------------------------------------------------------------------------
\* Types.

LEMMA ShapeTypes == Shape => TypeOK
<1> SUFFICES ASSUME Shape PROVE TypeOK
  OBVIOUS
<1>1. line \in Seq([x : Int, v : Speeds])
  <2>1. EvenLine \subseteq [x : Int, v : Speeds]
    BY DEF EvenLine
  <2>2. QED BY <2>1, SeqMonotonic DEF Shape, LineOK
<1>2. QED
  BY <1>1, Zenon DEF Shape, TypeOK, ClockOK, LineOK, HOK, QOK, TodoOK, TaskOK, Rules, Call

LEMMA BoundsOK ==
  INFTY \in Nat /\ MaxTime \in Nat /\ MaxTime < INFTY /\ MaxChanges \in Nat
<1>1. INFTY \in Nat
  BY SMT DEF INFTY
<1>2. MaxTime \in 0..(INFTY - 1) /\ MaxChanges \in Nat
  BY KineticAssumption, Zenon
<1>3. QED BY <1>1, <1>2

LEMMA IdsFinite ==
  /\ Cardinality(Ids) \in Nat /\ Ids = 1..Cardinality(Ids)
  /\ \A n \in Ids : 1..n \subseteq Ids /\ n \in Nat /\ IsFiniteSet(1..n) /\ Cardinality(1..n) = n
<1>1. Cardinality(Ids) \in Nat /\ Ids = 1..Cardinality(Ids)
  BY KineticAssumption, FS_CardinalityType
<1>2. \A n \in Ids : 1..n \subseteq Ids /\ n \in Nat /\ n >= 1
  BY <1>1
<1>3. ASSUME NEW n \in Ids PROVE IsFiniteSet(1..n) /\ Cardinality(1..n) = n
  BY <1>2, FS_Interval
<1>4. QED BY <1>1, <1>2, <1>3


LEMMA CallsOfConcat ==
  ASSUME NEW n, NEW s \in Seq(Call(n)), NEW t \in Seq(Call(n))
  PROVE  s \o t \in Seq(Call(n)) /\ Calls(s \o t) = Calls(s) \union Calls(t)
<1>1. /\ s \o t \in Seq(Call(n)) /\ Len(s) \in Nat /\ Len(t) \in Nat
      /\ Len(s \o t) = Len(s) + Len(t)
      /\ \A k \in 1..Len(s) + Len(t) : (s \o t)[k] = IF k <= Len(s) THEN s[k] ELSE t[k - Len(s)]
  BY ConcatProperties, LenProperties
<1>2. ASSUME NEW c \in Calls(s \o t) PROVE c \in Calls(s) \union Calls(t)
  <2>1. PICK k \in 1..Len(s) + Len(t) : c = (s \o t)[k]
    BY <1>1, <1>2 DEF Calls
  <2>2. CASE k <= Len(s)
    BY <1>1, <2>1, <2>2 DEF Calls
  <2>3. CASE ~ k <= Len(s)
    <3>1. k - Len(s) \in 1..Len(t) /\ c = t[k - Len(s)]
      BY <1>1, <2>1, <2>3
    <3>2. QED BY <3>1 DEF Calls
  <2>4. QED BY <2>2, <2>3
<1>3. ASSUME NEW c \in Calls(s) PROVE c \in Calls(s \o t)
  <2>1. PICK k \in 1..Len(s) : c = s[k]
    BY <1>3 DEF Calls
  <2>2. k \in 1..Len(s \o t) /\ c = (s \o t)[k]
    BY <1>1, <2>1
  <2>3. QED BY <2>2 DEF Calls
<1>4. ASSUME NEW c \in Calls(t) PROVE c \in Calls(s \o t)
  <2>1. PICK k \in 1..Len(t) : c = t[k]
    BY <1>4 DEF Calls
  <2>2. k + Len(s) \in 1..Len(s \o t) /\ c = (s \o t)[k + Len(s)]
    BY <1>1, <2>1
  <2>3. QED BY <2>2 DEF Calls
<1>5. QED BY <1>1, <1>2, <1>3, <1>4

LEMMA CallsOfMake ==
  ASSUME NEW n \in Nat, NEW i \in 0..n, NEW r \in Rules
  PROVE  /\ Make(i, r) \in Seq(Call(n))
         /\ Calls(Make(i, r)) = IF i >= 2 THEN {[i |-> i, rule |-> r]} ELSE {}
<1>1. CASE i >= 2
  <2> DEFINE c == [i |-> i, rule |-> r]
  <2>1. c \in Call(n) /\ Make(i, r) = << c >>
    BY <1>1 DEF Make, Call
  <2> HIDE DEF c
  <2>2. << c >> \in Seq(Call(n)) /\ Len(<< c >>) = 1 /\ << c >>[1] = c
    BY <2>1
  <2>3. Calls(<< c >>) = {c}
    BY <2>2 DEF Calls
  <2>4. QED BY <1>1, <2>1, <2>2, <2>3 DEF c
<1>2. CASE i < 2
  <2>1. Make(i, r) = << >>
    BY <1>2 DEF Make
  <2>2. << >> \in Seq(Call(n)) /\ Len(<< >>) = 0
    OBVIOUS
  <2>3. Calls(<< >>) = {}
    BY <2>2 DEF Calls
  <2>4. QED BY <1>2, <2>1, <2>2, <2>3
<1>3. QED BY <1>1, <1>2

\* The calls of rule r for the children of position i, among the first k.
ChildCalls(i, k, r) == {[i |-> j, rule |-> r] : j \in {2 * i, 2 * i + 1} \cap 1..k}

LEMMA CallsOfChildren ==
  ASSUME NEW n \in Nat, NEW i \in 1..n, NEW k \in 0..n, NEW r \in Rules
  PROVE  /\ MakeChildren(i, k, r) \in Seq(Call(n))
         /\ Calls(MakeChildren(i, k, r)) = ChildCalls(i, k, r)
<1> DEFINE a == IF 2 * i <= k THEN Make(2 * i, r) ELSE << >>
           b == IF 2 * i + 1 <= k THEN Make(2 * i + 1, r) ELSE << >>
<1>0. << >> \in Seq(Call(n)) /\ Calls(<< >>) = {}
  BY DEF Calls
<1>1. /\ a \in Seq(Call(n))
      /\ Calls(a) = IF 2 * i <= k THEN {[i |-> 2 * i, rule |-> r]} ELSE {}
  <2>1. CASE 2 * i <= k
    <3>1. 2 * i \in 0..n /\ 2 * i >= 2
      BY <2>1
    <3>2. Make(2 * i, r) \in Seq(Call(n)) /\ Calls(Make(2 * i, r)) = {[i |-> 2 * i, rule |-> r]}
      BY <3>1, CallsOfMake
    <3>3. QED BY <2>1, <3>2, Zenon
  <2>2. CASE ~ 2 * i <= k
    BY <1>0, <2>2, Zenon
  <2>3. QED BY <2>1, <2>2
<1>2. /\ b \in Seq(Call(n))
      /\ Calls(b) = IF 2 * i + 1 <= k THEN {[i |-> 2 * i + 1, rule |-> r]} ELSE {}
  <2>1. CASE 2 * i + 1 <= k
    <3>1. 2 * i + 1 \in 0..n /\ 2 * i + 1 >= 2
      BY <2>1
    <3>2. Make(2 * i + 1, r) \in Seq(Call(n)) /\ Calls(Make(2 * i + 1, r)) = {[i |-> 2 * i + 1, rule |-> r]}
      BY <3>1, CallsOfMake
    <3>3. QED BY <2>1, <3>2, Zenon
  <2>2. CASE ~ 2 * i + 1 <= k
    BY <1>0, <2>2, Zenon
  <2>3. QED BY <2>1, <2>2
<1>3. MakeChildren(i, k, r) = a \o b
  BY Zenon DEF MakeChildren
<1> HIDE DEF a, b
<1>4. a \o b \in Seq(Call(n)) /\ Calls(a \o b) = Calls(a) \union Calls(b)
  BY <1>1, <1>2, CallsOfConcat
<1>5. ChildCalls(i, k, r) =
      (IF 2 * i <= k THEN {[i |-> 2 * i, rule |-> r]} ELSE {})
        \union (IF 2 * i + 1 <= k THEN {[i |-> 2 * i + 1, rule |-> r]} ELSE {})
  BY DEF ChildCalls
<1>6. QED BY <1>1, <1>2, <1>3, <1>4, <1>5

\* The positions whose certificates an event changes.
Touched(i) ==
  {j \in {i \div 2, i, Sibling(i)} : j >= 2} \union ({2 * i, 2 * i + 1} \cap 1..size)

LEMMA CallsOfEvent ==
  ASSUME NEW n \in Nat, NEW i \in 2..n, size \in 0..n
  PROVE  /\ Affected(i) \in Seq(Call(n))
         /\ Calls(Affected(i)) = {[i |-> j, rule |-> "next"] : j \in Touched(i)}
<1> DEFINE c == Make(i \div 2, "next")
           d == Make(i, "next")
           e == MakeChildren(i, size, "next")
           f == Make(Sibling(i), "next")
           C(j) == [i |-> j, rule |-> "next"]
<1>0. "next" \in Rules /\ i \div 2 \in 0..n /\ i \in 0..n /\ i \in 1..n /\ Sibling(i) \in 0..n
  BY DEF Rules, Sibling
<1>1. c \in Seq(Call(n)) /\ Calls(c) = IF i \div 2 >= 2 THEN {C(i \div 2)} ELSE {}
  BY <1>0, CallsOfMake
<1>2. d \in Seq(Call(n)) /\ Calls(d) = IF i >= 2 THEN {C(i)} ELSE {}
  BY <1>0, CallsOfMake
<1>3. e \in Seq(Call(n)) /\ Calls(e) = {C(j) : j \in {2 * i, 2 * i + 1} \cap 1..size}
  <2>1. e \in Seq(Call(n)) /\ Calls(e) = ChildCalls(i, size, "next")
    BY <1>0, CallsOfChildren
  <2>2. QED BY <2>1, Zenon DEF ChildCalls
<1>4. f \in Seq(Call(n)) /\ Calls(f) = IF Sibling(i) >= 2 THEN {C(Sibling(i))} ELSE {}
  BY <1>0, CallsOfMake
<1>5. Affected(i) = ((c \o d) \o e) \o f
  BY Zenon DEF Affected
<1> HIDE DEF c, d, e, f
<1> DEFINE g == c \o d
           k == g \o e
<1>6. g \in Seq(Call(n)) /\ Calls(g) = Calls(c) \union Calls(d)
  BY <1>1, <1>2, CallsOfConcat
<1> HIDE DEF g
<1>7. k \in Seq(Call(n)) /\ Calls(k) = Calls(g) \union Calls(e)
  BY <1>3, <1>6, CallsOfConcat
<1> HIDE DEF k
<1>8. k \o f \in Seq(Call(n)) /\ Calls(k \o f) = Calls(k) \union Calls(f)
  BY <1>4, <1>7, CallsOfConcat
<1>9. Affected(i) = k \o f
  BY <1>5 DEF k, g
<1> HIDE DEF C
<1>10. {C(j) : j \in Touched(i)} =
         (IF i \div 2 >= 2 THEN {C(i \div 2)} ELSE {}) \union {C(i)}
           \union {C(j) : j \in {2 * i, 2 * i + 1} \cap 1..size}
           \union (IF Sibling(i) >= 2 THEN {C(Sibling(i))} ELSE {})
  BY DEF Touched
<1>11. Calls(d) = {C(i)}
  BY <1>2
<1>12. Calls(k \o f) = {C(j) : j \in Touched(i)}
  BY <1>1, <1>11, <1>3, <1>4, <1>6, <1>7, <1>8, <1>10
<1>13. Affected(i) \in Seq(Call(n)) /\ Calls(Affected(i)) = {C(j) : j \in Touched(i)}
  BY <1>8, <1>9, <1>12
<1>14. QED BY <1>13, Zenon DEF C

LEMMA FunctionIsSeq ==
  ASSUME NEW S, NEW n \in Nat, NEW f \in [1..n -> S]
  PROVE  f \in Seq(S) /\ Len(f) = n
<1>1. f \in Seq(S)
  BY SeqDef
<1>2. Len(f) \in Nat /\ 1..Len(f) = 1..n
  BY <1>1, LenProperties
<1>3. Len(f) = n
  <2>1. CASE n < Len(f)
    BY <1>2, <2>1
  <2>2. CASE Len(f) < n
    BY <1>2, <2>2
  <2>3. QED BY <1>2, <2>1, <2>2
<1>4. QED BY <1>1, <1>3

LEMMA ShapeInit == Init => Shape
<1> SUFFICES ASSUME Init PROVE Shape
  OBVIOUS
<1>1. PICK n \in Built :
    /\ line \in [1..n -> Line] /\ General(line, 1..n, 0)
    /\ now = 0 /\ index = [i \in 1..n |-> i] /\ H = [i \in 1..n |-> i] /\ size = n
    /\ h = << >> /\ m = << >> /\ sift = Still /\ todo = << >>
    /\ task = [op |-> "build", i |-> (n + 1) \div 2, at |-> (n + 1) \div 2]
    /\ present = 1..n /\ changes = 0 /\ turns = 0
  BY Zenon DEF Init
<1>2. n \in Ids /\ n \in Nat /\ n >= 2 /\ Cardinality(1..n) = n
  BY IdsFinite, KineticAssumption
<1>3. Line \subseteq EvenLine
  BY KineticAssumption DEF Line, EvenLine
<1>4. line \in [1..n -> EvenLine]
  BY <1>1, <1>3
<1>5. line \in Seq(EvenLine) /\ Len(line) = n
  BY <1>2, <1>4, FunctionIsSeq
<1>6. H \in [1..n -> 1..n] /\ index \in [1..n -> 1..n]
  BY <1>1
<1>7. H \in Seq(1..n) /\ Len(H) = n
  BY <1>2, <1>6, FunctionIsSeq
<1>8. Len(h) = 0 /\ Len(todo) = 0 /\ DOMAIN m = {}
  BY <1>1
<1>9. ClockOK
  BY <1>1, BoundsOK DEF ClockOK
<1>10. LineOK
  BY <1>1, <1>2, <1>5 DEF LineOK
<1>11. HOK
  BY <1>1, <1>2, <1>5, <1>6, <1>7 DEF HOK
<1>12. QOK
  BY <1>1, <1>8 DEF QOK, Still
<1>13. TodoOK
  BY <1>1 DEF TodoOK
<1>14. TaskOK
  <2>1. task.op = "build" /\ task.i = (n + 1) \div 2 /\ task.at = (n + 1) \div 2
    BY <1>1
  <2>2. QED BY <1>1, <1>2, <1>7, <2>1 DEF TaskOK
<1>15. AllMade
  BY <1>1, <1>8 DEF AllMade
<1>16. QED BY <1>9, <1>10, <1>11, <1>12, <1>13, <1>14, <1>15 DEF Shape

\* What a step leaves alone keeps its shape.
LEMMA ClockKept == ClockOK /\ UNCHANGED << now, changes, turns >> => ClockOK'
BY DEF ClockOK
LEMMA LineKept == LineOK /\ UNCHANGED << line, present, size >> => LineOK'
BY DEF LineOK
LEMMA QKept == QOK /\ UNCHANGED queue /\ Len(H)' = Len(H) => QOK'
BY DEF QOK, queue

\* An exchange of two elements.
LEMMA HSwapped ==
  ASSUME HOK, NEW i \in 1..Len(H), NEW j \in 1..Len(H), Swap(i, j), UNCHANGED << line, size >>
  PROVE  HOK' /\ Len(H') = Len(H)
<1>1. H \in Seq(1..Len(line)) /\ H[i] \in 1..Len(line) /\ H[j] \in 1..Len(line)
  BY DEF HOK
<1>2. H' \in Seq(1..Len(line)) /\ Len(H') = Len(H)
  BY <1>1 DEF Swap
<1>3. index' \in [1..Len(line) -> 1..Len(H)]
  BY <1>1 DEF Swap, HOK
<1>4. QED BY <1>2, <1>3 DEF HOK

LEMMA ShapeBuildH == Shape /\ BuildH => Shape'
<1> SUFFICES ASSUME Shape, BuildH PROVE Shape'
  OBVIOUS
<1> USE DEF Shape
<1>1. /\ task.op = "build" /\ task.i \in 1..size /\ task.at \in task.i..size
      /\ size = Len(H) /\ todo = << >> /\ Len(H) \in Nat
  BY DEF BuildH, TaskOK, HOK
<1>2. UNCHANGED << now, line, size, h, m, sift, todo, present, changes, turns >>
  BY DEF BuildH, queue, user
<1>3. HOK' /\ Len(H') = Len(H) /\ task'.op = "build" /\ task'.i \in 0..size /\ task'.at \in task'.i..size
      /\ (task'.i = 0 => task'.at = 0)
  <2>1. CASE \E j \in Ahead(task.at) : Swap(task.at, j) /\ task' = [op |-> "build", i |-> task.i, at |-> j]
    <3>1. PICK j \in Ahead(task.at) : Swap(task.at, j) /\ task' = [op |-> "build", i |-> task.i, at |-> j]
      BY <2>1
    <3>2. j \in 1..size /\ j >= task.at
      BY <1>1, <3>1 DEF Ahead, Children
    <3>3. HOK' /\ Len(H') = Len(H)
      BY <1>1, <1>2, <3>1, <3>2, HSwapped
    <3>4. task'.op = "build" /\ task'.i = task.i /\ task'.at = j
      BY <3>1
    <3>5. QED BY <1>1, <3>2, <3>3, <3>4
  <2>2. CASE UNCHANGED << H, index >> /\ task' = [op |-> "build", i |-> task.i - 1, at |-> task.i - 1]
    <3>1. task'.op = "build" /\ task'.i = task.i - 1 /\ task'.at = task.i - 1
      BY <2>2
    <3>2. HOK' /\ Len(H') = Len(H)
      BY <1>2, <2>2 DEF HOK
    <3>3. QED BY <1>1, <3>1, <3>2
  <2>3. QED BY <2>1, <2>2 DEF BuildH
<1>4. ClockOK' /\ LineOK' /\ QOK' /\ TodoOK'
  BY <1>2, <1>3, ClockKept, LineKept, QKept DEF TodoOK, queue
<1>5. TaskOK'
  BY <1>1, <1>2, <1>3 DEF TaskOK
<1>6. AllMade'
  BY <1>1, <1>2, <1>3 DEF AllMade
<1>7. QED BY <1>3, <1>4, <1>5, <1>6

LEMMA ShapeBuildQ == Shape /\ BuildQ => Shape'
<1> SUFFICES ASSUME Shape, BuildQ PROVE Shape'
  OBVIOUS
<1> USE DEF Shape
<1>1. /\ task.op = "build" /\ size = Len(H) /\ Len(H) \in Nat /\ Len(H) >= 2
      /\ task'.op = "certify"
      /\ todo' = [k \in 1..(size - 1) |-> [i |-> k + 1, rule |-> "new"]]
  BY DEF BuildQ, TaskOK, HOK
<1>2. UNCHANGED << now, line, index, H, size, h, m, sift, present, changes, turns >>
  BY DEF BuildQ, queue, user, elements
<1>3. todo' \in Seq(Call(Len(H))) /\ Len(todo') = size - 1
  <2>1. todo' \in [1..(size - 1) -> Call(Len(H))]
    BY <1>1 DEF Call, Rules
  <2>2. size - 1 \in Nat
    BY <1>1
  <2>3. QED BY <2>1, <2>2, FunctionIsSeq
<1>4. ClockOK' /\ LineOK' /\ QOK' /\ TodoOK' /\ HOK'
  BY <1>2, <1>3, ClockKept, LineKept, QKept DEF TodoOK, queue, HOK, Call
<1>5. TaskOK'
  BY <1>1, <1>2 DEF TaskOK
<1>6. AllMade'
  <2>1. \A k \in 1..(size - 1) : todo'[k].i = k + 1 /\ todo'[k].rule = "new"
    BY <1>1
  <2>2. ASSUME NEW i \in 2..Len(H) PROVE \E k \in 1..Len(todo') : todo'[k].i = i /\ IsNew(k)'
    <3>1. i - 1 \in 1..Len(todo') /\ todo'[i - 1].i = i /\ todo'[i - 1].rule = "new"
      BY <1>1, <1>3, <2>1
    <3>2. QED BY <3>1 DEF IsNew
  <2>3. \A k \in 1..Len(todo') : IsNew(k)'
    BY <1>3, <2>1 DEF IsNew
  <2>4. Len(H') = Len(H)
    BY <1>2
  <2>5. QED BY <2>2, <2>3, <2>4 DEF AllMade
<1>7. QED BY <1>4, <1>5, <1>6

LEMMA MeetInteger ==
  ASSUME NEW u \in EvenLine, NEW p \in EvenLine, u.v # p.v
  PROVE  Meet(u, p) \in Int
<1>1. u.v > p.v \/ p.v > u.v
  BY SpeedsClose
<1>2. QED BY <1>1, Crossing, MeetSymmetric

LEMMA FailLater ==
  ASSUME NEW u \in EvenLine, NEW p \in EvenLine, NEW t \in Nat
  PROVE  Fail(u, p, t) \in Nat /\ (t < INFTY => Fail(u, p, t) > t)
BY MeetInteger, BoundsOK DEF Fail

LEMMA FailureTime ==
  ASSUME NEW i
  PROVE  Failure_Time(i) = Fail(line[H[i]], line[H[i \div 2]], now)
BY DEF Failure_Time, Fail

\* The lines of the element at a position and of its parent.
LEMMA LinesAt ==
  ASSUME LineOK, HOK, NEW i \in 1..Len(H)
  PROVE  H[i] \in 1..Len(line) /\ line[H[i]] \in EvenLine
BY DEF LineOK, HOK

LEMMA TimeNat ==
  ASSUME Shape, NEW i \in 2..Len(H), NEW r
  PROVE  Failure_Time(i) \in Nat /\ Time(i, r) \in Nat
<1>1. Len(H) \in Nat /\ i \in 1..Len(H) /\ i \div 2 \in 1..Len(H) /\ now \in Nat
  BY BoundsOK DEF Shape, HOK, ClockOK
<1>2. line[H[i]] \in EvenLine /\ line[H[i \div 2]] \in EvenLine
  BY <1>1, LinesAt DEF Shape
<1>3. Failure_Time(i) \in Nat
  BY <1>1, <1>2, FailLater, FailureTime
<1>4. QED BY <1>1, <1>3, Zenon DEF Time

LEMMA TodoHead ==
  ASSUME TodoOK, todo # << >>
  PROVE  /\ Head(todo) = todo[1] /\ Head(todo) \in Call(Len(H)) /\ Len(todo) \in Nat /\ Len(todo) >= 1
         /\ Tail(todo) \in Seq(Call(Len(H))) /\ Len(Tail(todo)) = Len(todo) - 1
         /\ \A k \in 1..Len(todo) - 1 : Tail(todo)[k] = todo[k + 1]
<1>1. todo \in Seq(Call(Len(H)))
  BY DEF TodoOK
<1>2. Head(todo) = todo[1] /\ Len(todo) \in Nat /\ Len(todo) >= 1 /\ todo[1] \in Call(Len(H))
  BY <1>1
<1>3. /\ Tail(todo) \in Seq(Call(Len(H))) /\ Len(Tail(todo)) = Len(todo) - 1
      /\ \A k \in 1..Len(todo) - 1 : Tail(todo)[k] = todo[k + 1]
  BY <1>1
<1>4. QED BY <1>2, <1>3

LEMMA ShapeCertificate == Shape /\ Certificate => Shape'
<1> SUFFICES ASSUME Shape, Certificate PROVE Shape'
  OBVIOUS
<1> USE DEF Shape
<1> DEFINE c == Head(todo)
           n == Len(H)
<1>1. /\ todo # << >> /\ todo' = Tail(todo)
      /\ UNCHANGED << now, line, index, H, size, task, present, changes, turns >>
  BY DEF Certificate, user, elements
<1>10. /\ c.rule \in {"new", "new parent"} => Q_Insert(c.i, Time(c.i, c.rule))
       /\ c.rule \notin {"new", "new parent"} => Q_Update(c.i, Time(c.i, c.rule))
  BY DEF Certificate
<1>2. /\ c = todo[1] /\ c.i \in 2..n /\ Len(todo) \in Nat /\ Len(todo) >= 1
      /\ todo' \in Seq(Call(n)) /\ Len(todo') = Len(todo) - 1
      /\ \A k \in 1..Len(todo) - 1 : todo'[k] = todo[k + 1]
  BY <1>1, TodoHead DEF Call
<1>3. n \in Nat /\ task.op # "build"
  BY <1>1 DEF TaskOK, HOK
<1>30. Time(c.i, c.rule) \in Nat
  BY <1>2, TimeNat
<1> HIDE DEF c
<1>4. ClockOK' /\ LineOK' /\ HOK' /\ TodoOK'
  BY <1>1, <1>2, ClockKept, LineKept DEF HOK, TodoOK, Call
<1>5. TaskOK'
  BY <1>1 DEF TaskOK
<1> DEFINE t == Time(c.i, c.rule)
<1>6. CASE IsNew(1)
  <2>0. Q_Insert(c.i, t)
    BY <1>10, <1>2, <1>6 DEF IsNew
  <2>1. \A k \in 1..Len(todo) : IsNew(k)
    BY <1>2, <1>6 DEF AllMade
  <2> HIDE DEF t
  <2>2. /\ h' = Append(h, [id |-> c.i, t |-> t]) /\ sift' = [at |-> Len(h) + 1, up |-> TRUE]
        /\ m' = [k \in DOMAIN m \union {c.i} |-> IF k = c.i THEN Len(h) + 1 ELSE m[k]]
    BY <2>0 DEF Q_Insert
  <2> DEFINE e == [id |-> c.i, t |-> t]
  <2>3. e \in [id : 2..n, t : Nat]
    BY <1>2, <1>30 DEF t
  <2> HIDE DEF e
  <2>4. /\ h' \in Seq([id : 2..n, t : Nat]) /\ Len(h') = Len(h) + 1 /\ Len(h) \in Nat
    BY <2>2, <2>3 DEF QOK, e
  <2>5. m' \in [DOMAIN m' -> 1..Len(h')] /\ DOMAIN m' = DOMAIN m \union {c.i}
    BY <1>2, <2>2, <2>4 DEF QOK
  <2>6. QOK'
    BY <1>1, <1>2, <2>2, <2>4, <2>5 DEF QOK
  <2>7. \A k \in 1..Len(todo') : IsNew(k)'
    <3>1. ASSUME NEW k \in 1..Len(todo') PROVE IsNew(k)'
      <4>1. k + 1 \in 1..Len(todo) /\ todo'[k] = todo[k + 1]
        BY <1>2
      <4>2. QED BY <2>1, <4>1 DEF IsNew
    <3>2. QED BY <3>1
  <2>8. ASSUME NEW i \in 2..n, i \notin DOMAIN m'
        PROVE  \E k \in 1..Len(todo') : todo'[k].i = i /\ IsNew(k)'
    <3>1. PICK k \in 1..Len(todo) : todo[k].i = i
      BY <1>3, <2>5, <2>8 DEF AllMade
    <3>2. k # 1
      BY <1>2, <2>5, <2>8, <3>1
    <3>3. k - 1 \in 1..Len(todo') /\ todo'[k - 1] = todo[k]
      BY <1>2, <3>1, <3>2
    <3>4. QED BY <2>7, <3>1, <3>3
  <2>9. AllMade'
    BY <1>1, <1>3, <2>7, <2>8 DEF AllMade
  <2>10. QED BY <1>4, <1>5, <2>6, <2>9
<1>7. CASE ~ IsNew(1)
  <2>0. Q_Update(c.i, t)
    BY <1>10, <1>2, <1>7 DEF IsNew
  <2>1. \A k \in 1..Len(todo) : ~ IsNew(k)
    BY <1>2, <1>7 DEF AllMade
  <2>2. \A i \in 2..n : i \in DOMAIN m
    BY <1>3, <2>1 DEF AllMade
  <2> DEFINE a == m[c.i]
  <2>3. /\ h' = [h EXCEPT ![a].t = t] /\ sift' = [at |-> a, up |-> FALSE] /\ m' = m
        /\ a \in 1..Len(h)
    BY <1>2, <2>0, <2>2 DEF Q_Update, QOK
  <2> HIDE DEF t, a
  <2>4. h' \in Seq([id : 2..n, t : Nat]) /\ Len(h') = Len(h)
    <3> DEFINE e == [h[a] EXCEPT !.t = t]
    <3>0. h \in Seq([id : 2..n, t : Nat]) /\ a \in 1..Len(h)
      BY <2>3 DEF QOK
    <3>1. h[a] \in [id : 2..n, t : Nat]
      BY <3>0, ElementOfSeq
    <3>2. e \in [id : 2..n, t : Nat] /\ h' = [h EXCEPT ![a] = e]
      BY <1>30, <2>3, <3>1 DEF t
    <3> HIDE DEF e
    <3>3. QED BY <3>0, <3>2, ExceptSeq
  <2>5. QOK'
    <3>1. /\ a \in 1..Len(h') /\ sift'.at = a /\ sift'.up = FALSE /\ sift' \in [at : 0..Len(h'), up : BOOLEAN]
          /\ a # 0
      BY <2>3, <2>4
    <3>2. m' \in [DOMAIN m' -> 1..Len(h')] /\ DOMAIN m' \subseteq 2..n
      BY <2>3, <2>4 DEF QOK
    <3>3. H' = H
      BY <1>1
    <3>4. QED BY <2>4, <3>1, <3>2, <3>3 DEF QOK
  <2>6. \A k \in 1..Len(todo') : ~ IsNew(k)'
    <3>1. ASSUME NEW k \in 1..Len(todo') PROVE ~ IsNew(k)'
      <4>1. k + 1 \in 1..Len(todo) /\ todo'[k] = todo[k + 1]
        BY <1>2
      <4>2. QED BY <2>1, <4>1 DEF IsNew
    <3>2. QED BY <3>1
  <2>7. AllMade'
    BY <1>1, <2>2, <2>3, <2>6 DEF AllMade
  <2>8. QED BY <1>4, <1>5, <2>5, <2>7
<1>8. QED BY <1>6, <1>7

LEMMA ShapeSiftQ == Shape /\ SiftQ => Shape'
<1> SUFFICES ASSUME Shape, SiftQ PROVE Shape'
  OBVIOUS
<1> USE DEF Shape
<1> DEFINE a == sift.at
<1>1. UNCHANGED << now, line, index, H, size, todo, task, present, changes, turns >>
  BY DEF SiftQ, user, elements
<1>2. a \in 1..Len(h) /\ \E j \in 1..Len(h) :
        /\ h' = [h EXCEPT ![a] = h[j], ![j] = h[a]]
        /\ m' = [m EXCEPT ![h[a].id] = j, ![h[j].id] = a]
        /\ \E b \in BOOLEAN : sift' = [at |-> j, up |-> b]
  <2>1. h \in Seq([id : 2..Len(H), t : Nat]) /\ DOMAIN h = 1..Len(h) /\ Len(h) \in Nat /\ a \in 0..Len(h)
    BY DEF QOK
  <2>2. CASE Sink
    <3>1. PICK j \in Down : Q_Swap(a, j) /\ sift' = [at |-> j, up |-> FALSE]
      BY <2>2 DEF Sink
    <3>2. j \in 1..Len(h) /\ a \in 1..Len(h)
      BY <2>1 DEF Down, QOK
    <3>3. QED BY <3>1, <3>2 DEF Q_Swap
  <2>3. CASE Swim
    <3>1. PICK j \in Up : Q_Swap(a, j) /\ sift' = [at |-> j, up |-> TRUE]
      BY <2>3 DEF Swim
    <3>2. j \in 1..Len(h) /\ a \in 1..Len(h)
      BY <2>1 DEF Up
    <3>3. QED BY <3>1, <3>2 DEF Q_Swap
  <2>4. QED BY <2>2, <2>3 DEF SiftQ
<1> HIDE DEF a
<1>3. PICK j \in 1..Len(h) :
        /\ h' = [h EXCEPT ![a] = h[j], ![j] = h[a]]
        /\ m' = [m EXCEPT ![h[a].id] = j, ![h[j].id] = a]
        /\ \E b \in BOOLEAN : sift' = [at |-> j, up |-> b]
  BY <1>2
<1>4. h' \in Seq([id : 2..Len(H), t : Nat]) /\ Len(h') = Len(h)
  <2> DEFINE C == [id : 2..Len(H), t : Nat]
  <2>1. h \in Seq(C) /\ h[a] \in C /\ h[j] \in C
    BY <1>2, <1>3, ElementOfSeq DEF QOK
  <2> HIDE DEF C
  <2>2. h' \in Seq(C) /\ Len(h') = Len(h)
    BY <1>2, <1>3, <2>1
  <2>3. QED BY <2>2 DEF C
<1>5. m' \in [DOMAIN m' -> 1..Len(h)] /\ DOMAIN m' = DOMAIN m
  <2> DEFINE D == DOMAIN m
  <2>1. m \in [D -> 1..Len(h)]
    BY DEF QOK
  <2> HIDE DEF D
  <2>2. m' \in [D -> 1..Len(h)]
    BY <1>2, <1>3, <2>1
  <2>3. QED BY <2>2 DEF D
<1>6. QOK'
  <2>1. sift' \in [at : 0..Len(h'), up : BOOLEAN] /\ sift'.at # 0
    BY <1>3, <1>4
  <2>2. DOMAIN m' \subseteq 2..Len(H')
    BY <1>1, <1>5 DEF QOK
  <2>3. QED BY <1>1, <1>4, <1>5, <2>1, <2>2 DEF QOK
<1>7. ClockOK' /\ LineOK' /\ HOK' /\ TodoOK'
  BY <1>1, ClockKept, LineKept DEF HOK, TodoOK
<1>8. TaskOK'
  <2>1. task.op # "ready"
    <3>1. sift # Still
      BY <1>2 DEF Still, a
    <3>2. QED BY <3>1 DEF TaskOK
  <2>2. QED BY <1>1, <2>1 DEF TaskOK
<1>9. AllMade'
  BY <1>1, <1>5 DEF AllMade, IsNew
<1>10. QED BY <1>6, <1>7, <1>8, <1>9

\* Between two calls every certificate is in Q.
LEMMA RootOfQ ==
  ASSUME Shape, todo = << >>, task.op # "build"
  PROVE  /\ DOMAIN m = 2..Len(H) /\ Len(H) \in Nat /\ Len(H) >= 2
         /\ Len(h) \in Nat /\ Len(h) >= 1 /\ h[1].id \in 2..Len(H) /\ h[1].t \in Nat
<1>1. Len(H) \in Nat /\ Len(H) >= 2 /\ h \in Seq([id : 2..Len(H), t : Nat])
  BY DEF Shape, HOK, QOK
<1>2. Len(todo) = 0
  OBVIOUS
<1>3. \A i \in 2..Len(H) : i \in DOMAIN m
  BY <1>2 DEF Shape, AllMade
<1>4. DOMAIN m = 2..Len(H)
  BY <1>3 DEF Shape, QOK
<1>5. m \in [2..Len(H) -> 1..Len(h)]
  BY <1>4 DEF Shape, QOK
<1>6. m[2] \in 1..Len(h) /\ Len(h) \in Nat
  BY <1>1, <1>5
<1>60. 1 \in 1..Len(h)
  BY <1>6
<1>7. h[1] \in [id : 2..Len(H), t : Nat]
  BY <1>1, <1>60, ElementOfSeq
<1>8. QED BY <1>1, <1>4, <1>6, <1>7

LEMMA OldCalls ==
  ASSUME DOMAIN m' = 2..Len(H'), \A c \in Calls(todo') : c.rule \notin {"new", "new parent"}
  PROVE  AllMade'
<1>1. ASSUME NEW k \in 1..Len(todo') PROVE ~ IsNew(k)'
  <2>1. todo'[k] \in Calls(todo')
    BY DEF Calls
  <2>2. QED BY <2>1 DEF IsNew
<1>2. QED BY <1>1 DEF AllMade

\* A command that is over.
LEMMA ShapeReturn ==
  ASSUME Shape, todo = << >>, task.op # "build", Return, UNCHANGED << line, index, H, size, present, changes >>,
         now' \in 0..MaxTime, now' % 2 = 0
  PROVE  Shape'
<1> USE DEF Shape
<1>1. /\ task'.op = "ready" /\ sift' = Still /\ turns' = 0 /\ UNCHANGED << h, m, todo >>
  BY DEF Return, Ready
<1>2. DOMAIN m = 2..Len(H) /\ Calls(todo) = {}
  BY RootOfQ DEF Calls
<1>3. AllMade'
  BY <1>1, <1>2, OldCalls
<1>4. ClockOK' /\ LineOK' /\ HOK'
  BY <1>1, LineKept DEF HOK, ClockOK
<1>5. QOK'
  <2>1. Len(h) \in Nat
    BY RootOfQ
  <2>2. sift' \in [at : 0..Len(h), up : BOOLEAN] /\ (sift'.at = 0 => sift'.up)
    BY <1>1, <2>1 DEF Still
  <2>3. QED BY <1>1, <2>2 DEF QOK
<1>6. TodoOK' /\ TaskOK'
  BY <1>1 DEF TodoOK, TaskOK
<1>7. QED BY <1>3, <1>4, <1>5, <1>6

LEMMA ShapeFinish == Shape /\ Finish => Shape'
<1> SUFFICES ASSUME Shape, Finish PROVE Shape'
  OBVIOUS
<1>1. task.op = "certify" /\ todo = << >> /\ Return
  BY DEF Finish, Idle
<1>2. UNCHANGED << now, line, index, H, size, present, changes >>
  BY DEF Finish, elements, user
<1>3. now \in 0..MaxTime /\ now % 2 = 0
  BY <1>1 DEF Shape, ClockOK, TaskOK
<1>4. QED BY <1>1, <1>2, <1>3, ShapeReturn

\* An event: the two elements change places, and the certificates about them wait.
LEMMA ShapeEvent ==
  ASSUME Shape, todo = << >>, task.op # "build", Event(h[1].id), UNCHANGED << present, changes, queue >>,
         Again, now' \in 0..MaxTime, TaskOK',
         NEW s \in Seq(Call(Len(H))), \A c \in Calls(s) : c.rule \in {"next", "parent", "child"},
         todo' = Affected(h[1].id) \o s
  PROVE  Shape'
<1> USE DEF Shape
<1> DEFINE i == h[1].id
           n == Len(H)
<1>1. n \in Nat /\ n >= 2 /\ i \in 2..n /\ DOMAIN m = 2..n /\ i \div 2 \in 1..n /\ i \in 1..n /\ size \in 0..n
  <2>1. n \in Nat /\ n >= 2 /\ i \in 2..n /\ DOMAIN m = 2..n
    BY RootOfQ
  <2>2. size \in 0..n
    BY DEF HOK
  <2>3. i \div 2 \in 1..n /\ i \in 1..n
    BY <2>1
  <2>4. QED BY <2>1, <2>2, <2>3
<1>2. Swap(i, i \div 2) /\ UNCHANGED << line, size >>
  BY DEF Event
<1> HIDE DEF i
<1>3. HOK' /\ Len(H') = n
  BY <1>1, <1>2, HSwapped
<1>4. ClockOK' /\ LineOK' /\ QOK'
  BY <1>2, <1>3, LineKept, QKept DEF ClockOK, Again
<1>5. Affected(i) \in Seq(Call(n)) /\ \A c \in Calls(Affected(i)) : c.rule = "next"
  BY <1>1, CallsOfEvent
<1>6. todo' \in Seq(Call(n)) /\ Calls(todo') = Calls(Affected(i)) \union Calls(s)
  BY <1>5, CallsOfConcat DEF i
<1>7. TodoOK'
  BY <1>3, <1>6 DEF TodoOK
<1>8. AllMade'
  <2>1. \A c \in Calls(todo') : c.rule \notin {"new", "new parent"}
    BY <1>5, <1>6
  <2>2. DOMAIN m' = 2..Len(H')
    BY <1>1, <1>3 DEF queue
  <2>3. QED BY <2>1, <2>2, OldCalls
<1>9. QED BY <1>3, <1>4, <1>7, <1>8

LEMMA ShapeInsertLoop == Shape /\ InsertLoop => Shape'
<1> SUFFICES ASSUME Shape, InsertLoop PROVE Shape'
  OBVIOUS
<1> DEFINE i == h[1].id
           n == Len(H)
<1>1. /\ task.op = "insert" /\ todo = << >> /\ UNCHANGED << now, present, changes >>
      /\ now \in 0..MaxTime /\ now % 2 = 0 /\ task.id \in 1..Len(line) /\ size \in 0..n
      /\ n \in Nat /\ n >= 2
  BY DEF InsertLoop, Idle, user, Shape, ClockOK, TaskOK, HOK
<1>2. CASE /\ Event(i) /\ Again /\ UNCHANGED queue
           /\ todo' = Affected(i) \o Make(index'[task.id], "parent")
           /\ task' = IF index'[task.id] = 1 THEN [op |-> "certify"] ELSE task
  <2>1. i \in 2..n /\ i \in 1..n /\ i \div 2 \in 1..n
    BY <1>1, RootOfQ
  <2>2. Swap(i, i \div 2) /\ UNCHANGED << line, size >>
    BY <1>2 DEF Event
  <2>3. HOK' /\ Len(H') = n
    BY <2>1, <2>2, HSwapped DEF Shape
  <2>4. index'[task.id] \in 1..n
    BY <1>1, <2>2, <2>3 DEF HOK
  <2> DEFINE s == Make(index'[task.id], "parent")
  <2>5. s \in Seq(Call(n)) /\ \A c \in Calls(s) : c.rule = "parent"
    <3>1. index'[task.id] \in 0..n /\ "parent" \in Rules
      BY <1>1, <2>4 DEF Rules
    <3> DEFINE j == index'[task.id]
    <3> HIDE DEF j
    <3>2. /\ Make(j, "parent") \in Seq(Call(n))
          /\ Calls(Make(j, "parent")) = IF j >= 2 THEN {[i |-> j, rule |-> "parent"]} ELSE {}
      BY <1>1, <3>1, CallsOfMake DEF j
    <3>3. QED BY <3>2 DEF j
  <2>6. TaskOK'
    <3>1. CASE task' = task
      BY <1>1, <2>2, <3>1 DEF Shape, TaskOK
    <3>2. CASE task' = [op |-> "certify"]
      BY <1>1, <2>2, <3>2 DEF TaskOK
    <3>3. QED BY <1>2, <3>1, <3>2
  <2> HIDE DEF s, i
  <2>7. todo' = Affected(i) \o s
    BY <1>2 DEF s
  <2>8. QED BY <1>1, <1>2, <2>5, <2>6, <2>7, ShapeEvent DEF i
<1>3. CASE Return /\ UNCHANGED elements
  BY <1>1, <1>3, ShapeReturn DEF elements
<1>4. QED BY <1>2, <1>3 DEF InsertLoop, Q_Min

LEMMA ShapeAdvance == Shape /\ Advance => Shape'
<1> SUFFICES ASSUME Shape, Advance PROVE Shape'
  OBVIOUS
<1> USE DEF Shape
<1>1. PICK t \in now..MaxTime : t % 2 = 0 /\ task' = [op |-> "advance", to |-> t]
  BY DEF Advance
<1>2. UNCHANGED << now, line, index, H, size, h, m, sift, todo, present, changes, turns >>
  BY DEF Advance, elements, queue, user
<1>3. task.op = "ready" /\ "advance" \in Commands /\ now \in 0..MaxTime
  BY DEF Advance, May, Ready, ClockOK
<1>4. task'.op = "advance" /\ task'.to \in 0..MaxTime /\ task'.to % 2 = 0
  BY <1>1, <1>3
<1>5. ClockOK' /\ LineOK' /\ HOK' /\ QOK' /\ TodoOK'
  BY <1>2, ClockKept, LineKept, QKept DEF HOK, TodoOK, queue
<1>6. TaskOK'
  BY <1>3, <1>4 DEF TaskOK
<1>7. AllMade'
  BY <1>2, <1>3 DEF AllMade, IsNew
<1>8. QED BY <1>5, <1>6, <1>7

LEMMA ShapeAdvanceLoop == Shape /\ AdvanceLoop => Shape'
<1> SUFFICES ASSUME Shape, AdvanceLoop PROVE Shape'
  OBVIOUS
<1> DEFINE i == h[1].id
           n == Len(H)
<1>1. /\ task.op = "advance" /\ todo = << >> /\ UNCHANGED << present, changes >>
      /\ task.to \in 0..MaxTime /\ task.to % 2 = 0
  BY DEF AdvanceLoop, Idle, user, Shape, TaskOK
<1>2. CASE h[1].t <= task.to /\ now' = h[1].t /\ Event(i) /\ todo' = Affected(i) /\ Again /\ UNCHANGED << queue, task >>
  <2>1. now' \in 0..MaxTime
    BY <1>1, <1>2, RootOfQ, BoundsOK
  <2>2. << >> \in Seq(Call(n)) /\ Calls(<< >>) = {}
    BY DEF Calls
  <2>3. UNCHANGED << line, size >>
    BY <1>2 DEF Event
  <2>4. TaskOK'
    BY <1>1, <1>2, <2>3 DEF Shape, TaskOK
  <2>5. todo' = Affected(i) \o << >>
    <3>1. i \in 2..n /\ n \in Nat /\ size \in 0..n
      BY <1>1, RootOfQ DEF Shape, HOK
    <3>2. Affected(i) \in Seq(Call(n))
      BY <3>1, CallsOfEvent
    <3> HIDE DEF i
    <3>3. QED BY <1>2, <3>2, ConcatEmptySeq
  <2>6. QED BY <1>1, <1>2, <2>1, <2>2, <2>4, <2>5, ShapeEvent
<1>3. CASE now' = task.to /\ Return /\ UNCHANGED elements
  BY <1>1, <1>3, ShapeReturn DEF elements
<1>4. QED BY <1>2, <1>3 DEF AdvanceLoop, Q_Min

LEMMA EvenProduct ==
  ASSUME NEW v \in Int, NEW t \in Int, t % 2 = 0
  PROVE  v * t \in Int /\ t * v \in Int /\ (v * t) % 2 = 0 /\ (t * v) % 2 = 0
<1> DEFINE k == t \div 2
<1>1. k \in Int /\ t = 2 * k
  BY Halves
<1> DEFINE c == v * k
<1>2. v * t = 2 * c /\ c \in Int /\ t * v = 2 * c
  BY <1>1
<1> HIDE DEF c
<1>3. QED BY <1>2

LEMMA ShapeInsert == Shape /\ Insert => Shape'
<1> SUFFICES ASSUME Shape, Insert PROVE Shape'
  OBVIOUS
<1> USE DEF Shape
<1> DEFINE n == Len(line)
           id == Len(line) + 1
<1>1. PICK p \in Positions, v \in Speeds :
       /\ id \in Ids
       /\ line' = Append(line, [x |-> p - v * now, v |-> v])
       /\ index' = Append(index, size + 1)
       /\ H' = IF size = Len(H) THEN Append(H, id) ELSE [H EXCEPT ![size + 1] = id]
       /\ present' = present \union {id}
       /\ task' = IF size = 0 THEN Ready ELSE [op |-> "insert", id |-> id]
  BY DEF Insert
<1>2. /\ size' = size + 1 /\ todo' = Make(size + 1, "new parent")
      /\ UNCHANGED << now, h, m, sift, changes, turns >>
  BY DEF Insert, queue
<1>3. /\ task = Ready /\ task.op = "ready" /\ "insert" \in Commands /\ todo = << >> /\ sift = Still
      /\ now \in 0..MaxTime /\ now % 2 = 0
  <2>1. task = Ready /\ task.op = "ready" /\ "insert" \in Commands
    BY DEF Insert, May, Ready
  <2>2. QED BY <2>1 DEF TaskOK, ClockOK
<1>4. /\ n \in Nat /\ line \in Seq(EvenLine) /\ present \subseteq 1..n /\ size \in 0..Len(H)
      /\ Len(H) \in Nat /\ Len(H) >= 2 /\ H \in Seq(1..n) /\ index \in [1..n -> 1..Len(H)]
  BY DEF LineOK, HOK
<1>5. line' \in Seq(EvenLine) /\ Len(line') = n + 1
  <2> DEFINE l == [x |-> p - v * now, v |-> v]
  <2>1. p \in Int /\ p % 2 = 0 /\ v \in Int /\ now \in Int
    BY <1>3, BoundsOK, KineticAssumption
  <2>2. v * now \in Int /\ (v * now) % 2 = 0
    BY <1>3, <2>1, EvenProduct
  <2>3. p - v * now \in Int /\ (p - v * now) % 2 = 0
    BY <2>1, <2>2
  <2>4. l \in EvenLine
    BY <2>3 DEF EvenLine
  <2> HIDE DEF l
  <2>5. line' = Append(line, l)
    BY <1>1 DEF l
  <2>6. QED BY <1>4, <2>4, <2>5
<1>6. LineOK'
  <2>1. IsFiniteSet(present) /\ id \notin present
    <3>1. IsFiniteSet(1..n)
      BY <1>4, FS_Interval
    <3>2. IsFiniteSet(present)
      BY <1>4, <3>1, FS_Subset
    <3>3. id \notin 1..n
      BY <1>4
    <3>4. QED BY <1>4, <3>2, <3>3
  <2>2. Cardinality(present') = Cardinality(present) + 1
    BY <1>1, <2>1, FS_AddElement
  <2>3. present' \subseteq 1..(n + 1)
    <3>1. id \in 1..(n + 1) /\ 1..n \subseteq 1..(n + 1)
      BY <1>4
    <3>2. QED BY <1>1, <1>4, <3>1, Zenon
  <2>4. QED BY <1>1, <1>2, <1>5, <2>2, <2>3 DEF LineOK
<1>7. /\ H' \in Seq(1..(n + 1)) /\ Len(H') = IF size = Len(H) THEN size + 1 ELSE Len(H)
  <2>1. H \in Seq(1..(n + 1)) /\ id \in 1..(n + 1)
    BY <1>4, SeqMonotonic
  <2>2. CASE size = Len(H)
    BY <1>1, <1>4, <2>1, <2>2
  <2>3. CASE size # Len(H)
    <3>1. size + 1 \in 1..Len(H) /\ H' = [H EXCEPT ![size + 1] = id]
      BY <1>1, <1>4, <2>3
    <3>2. QED BY <2>1, <2>3, <3>1, ExceptSeq
  <2>4. QED BY <2>2, <2>3
<1>8. HOK'
  <2>1. index \in Seq(1..Len(H)) /\ Len(index) = n
    BY <1>4, FunctionIsSeq
  <2>2. /\ 1..Len(H) \subseteq 1..Len(H') /\ size + 1 \in 1..Len(H')
        /\ Len(H') \in Nat /\ Len(H') >= 2 /\ size + 1 \in 0..Len(H')
    BY <1>4, <1>7
  <2>3. index \in Seq(1..Len(H'))
    BY <2>1, <2>2, SeqMonotonic
  <2>4. index' \in Seq(1..Len(H')) /\ Len(index') = n + 1
    BY <1>1, <2>1, <2>2, <2>3
  <2>5. index' \in [1..(n + 1) -> 1..Len(H')]
    BY <2>4, LenProperties
  <2>6. QED BY <1>2, <1>5, <1>7, <2>2, <2>5 DEF HOK
<1>9. QOK'
  <2>1. Len(H') \in Nat /\ Len(H') >= Len(H)
    BY <1>4, <1>7
  <2>2. [id : 2..Len(H), t : Nat] \subseteq [id : 2..Len(H'), t : Nat] /\ 2..Len(H) \subseteq 2..Len(H')
    BY <1>4, <2>1
  <2>3. h \in Seq([id : 2..Len(H'), t : Nat])
    BY <2>2, SeqMonotonic DEF QOK
  <2>4. QED BY <1>2, <2>2, <2>3 DEF QOK
<1>10. ClockOK'
  BY <1>2, ClockKept
<1>11. /\ todo' \in Seq(Call(Len(H')))
       /\ Calls(todo') = IF size + 1 >= 2 THEN {[i |-> size + 1, rule |-> "new parent"]} ELSE {}
  <2>1. Len(H') \in Nat /\ size + 1 \in 0..Len(H') /\ "new parent" \in Rules
    BY <1>4, <1>7 DEF Rules
  <2>2. QED BY <1>2, <2>1, CallsOfMake
<1>110. \A c \in Calls(todo') : c.i = size + 1 /\ c.rule = "new parent"
  <2>1. CASE size + 1 >= 2
    <3> DEFINE r == [i |-> size + 1, rule |-> "new parent"]
    <3>1. Calls(todo') = {r}
      BY <1>11, <2>1, Zenon
    <3>2. r.i = size + 1 /\ r.rule = "new parent"
      OBVIOUS
    <3> HIDE DEF r
    <3>3. QED BY <3>1, <3>2, Zenon
  <2>2. CASE ~ size + 1 >= 2
    BY <1>11, <2>2, Zenon
  <2>3. QED BY <2>1, <2>2
<1>12. TaskOK'
  <2>1. CASE size = 0
    <3>1. task' = Ready /\ todo' = << >>
      BY <1>1, <1>2, <2>1 DEF Make
    <3>2. QED BY <1>2, <1>3, <3>1 DEF TaskOK, Ready
  <2>2. CASE size # 0
    <3>1. task'.op = "insert" /\ task'.id = n + 1
      BY <1>1, <2>2
    <3>2. task'.id \in 1..Len(line') /\ now' % 2 = 0 /\ task'.op \in Commands
      <4>1. n + 1 \in 1..Len(line')
        BY <1>4, <1>5
      <4>2. now' % 2 = 0 /\ "insert" \in Commands
        BY <1>2, <1>3
      <4>3. QED BY <3>1, <4>1, <4>2
    <3>3. QED BY <3>1, <3>2 DEF TaskOK
  <2>3. QED BY <2>1, <2>2
<1>13. AllMade'
  <2>1. ASSUME NEW k \in 1..Len(todo') PROVE IsNew(k)'
    <3>1. todo'[k] \in Calls(todo')
      BY DEF Calls
    <3>2. QED BY <1>110, <3>1 DEF IsNew
  <2>2. DOMAIN m = 2..Len(H)
    BY <1>3, RootOfQ
  <2>3. ASSUME NEW i \in 2..Len(H'), i \notin DOMAIN m
        PROVE  \E k \in 1..Len(todo') : todo'[k].i = i
    <3>1. i = size + 1
      BY <1>4, <1>7, <2>2, <2>3
    <3>2. size + 1 >= 2
      BY <1>4, <1>7, <2>3, <3>1
    <3>3. PICK c \in Calls(todo') : TRUE
      BY <1>11, <3>2
    <3>4. c.i = i
      BY <1>110, <3>1
    <3>5. QED BY <3>3, <3>4 DEF Calls
  <2>4. m' = m
    BY <1>2
  <2>5. QED BY <2>1, <2>3, <2>4 DEF AllMade
<1>14. QED BY <1>6, <1>8, <1>9, <1>10, <1>11, <1>12, <1>13 DEF TodoOK

LEMMA ShapeChange == Shape /\ Change => Shape'
<1> SUFFICES ASSUME Shape, Change PROVE Shape'
  OBVIOUS
<1> USE DEF Shape
<1> DEFINE n == Len(H)
<1>1. PICK id \in present, v \in Speeds :
       /\ line' = [line EXCEPT ![id] = [x |-> @.x + now * (@.v - v), v |-> v]]
       /\ todo' = Make(index[id], "next") \o MakeChildren(index[id], size, "next")
  BY DEF Change
<1>2. /\ changes' = changes + 1 /\ changes < MaxChanges /\ task' = [op |-> "certify"]
      /\ UNCHANGED << now, index, H, size, h, m, sift, present, turns >>
  BY DEF Change, queue
<1>3. /\ task.op = "ready" /\ todo = << >> /\ now \in 0..MaxTime /\ now % 2 = 0
  <2>1. task = Ready /\ task.op = "ready"
    BY DEF Change, May, Ready
  <2>2. QED BY <2>1 DEF TaskOK, ClockOK
<1>4. id \in 1..Len(line) /\ Len(line) \in Nat /\ line[id] \in EvenLine /\ index[id] \in 1..n /\ n \in Nat /\ size \in 0..n
  BY DEF LineOK, HOK
<1>5. line' \in Seq(EvenLine) /\ Len(line') = Len(line)
  <2> DEFINE l == [x |-> line[id].x + now * (line[id].v - v), v |-> v]
  <2>1. line[id].x \in Int /\ line[id].x % 2 = 0 /\ line[id].v \in Speeds
    BY <1>4 DEF EvenLine
  <2>2. line[id].v \in Int /\ v \in Int /\ now \in Int
    BY <1>3, <2>1, BoundsOK, KineticAssumption
  <2> DEFINE d == line[id].v - v
  <2>3. d \in Int
    BY <2>2
  <2>4. now * d \in Int /\ (now * d) % 2 = 0
    BY <1>3, <2>2, <2>3, EvenProduct
  <2>5. line[id].x + now * d \in Int /\ (line[id].x + now * d) % 2 = 0
    BY <2>1, <2>4
  <2>6. l \in EvenLine
    BY <2>5 DEF EvenLine
  <2>7. line' = [line EXCEPT ![id] = l]
    BY <1>1
  <2> HIDE DEF l
  <2>8. line \in Seq(EvenLine)
    BY DEF LineOK
  <2>9. QED BY <1>4, <2>6, <2>7, <2>8, ExceptSeq
<1>6. LineOK' /\ HOK' /\ QOK'
  BY <1>2, <1>5 DEF LineOK, HOK, QOK
<1>7. ClockOK'
  BY <1>2, BoundsOK DEF ClockOK
<1>8. TaskOK'
  BY <1>2, <1>3 DEF TaskOK
<1> DEFINE s == Make(index[id], "next")
           t == MakeChildren(index[id], size, "next")
<1>9. "next" \in Rules /\ index[id] \in 0..n
  BY <1>4 DEF Rules
<1>10. /\ s \in Seq(Call(n))
       /\ Calls(s) = IF index[id] >= 2 THEN {[i |-> index[id], rule |-> "next"]} ELSE {}
  BY <1>4, <1>9, CallsOfMake
<1>11. t \in Seq(Call(n)) /\ Calls(t) = {[i |-> j, rule |-> "next"] : j \in {2 * index[id], 2 * index[id] + 1} \cap 1..size}
  <2>1. t \in Seq(Call(n)) /\ Calls(t) = ChildCalls(index[id], size, "next")
    BY <1>4, <1>9, CallsOfChildren
  <2>2. QED BY <2>1, Zenon DEF ChildCalls
<1> HIDE DEF s, t
<1>12. s \o t \in Seq(Call(n)) /\ Calls(s \o t) = Calls(s) \union Calls(t)
  BY <1>10, <1>11, CallsOfConcat
<1>13. todo' = s \o t /\ H' = H
  BY <1>1, <1>2 DEF s, t
<1>14. AllMade'
  <2>1. DOMAIN m' = 2..Len(H')
    BY <1>2, <1>3, RootOfQ
  <2>2. \A c \in Calls(s) : c.rule = "next"
    BY <1>10
  <2>3. \A c \in Calls(t) : c.rule = "next"
    BY <1>11
  <2>4. \A c \in Calls(todo') : c.rule \notin {"new", "new parent"}
    BY <1>12, <1>13, <2>2, <2>3
  <2>5. QED BY <2>1, <2>4, OldCalls
<1>15. QED BY <1>6, <1>7, <1>8, <1>12, <1>13, <1>14 DEF TodoOK

LEMMA ShapeDelete == Shape /\ Delete => Shape'
<1> SUFFICES ASSUME Shape, Delete PROVE Shape'
  OBVIOUS
<1> USE DEF Shape
<1> DEFINE n == Len(H)
<1>1. PICK id \in present :
       /\ Swap(index[id], size)
       /\ task' = [op |-> "delete", id |-> H[size]]
       /\ todo' = MakeChildren(index[id], size - 1, "child")
       /\ present' = present \ {id}
  BY DEF Delete
<1>2. size' = size - 1 /\ UNCHANGED << now, line, h, m, sift, changes, turns >>
  BY DEF Delete, queue
<1>3. /\ task.op = "ready" /\ todo = << >> /\ "delete" \in Commands /\ now % 2 = 0
  <2>1. task.op = "ready" /\ "delete" \in Commands
    BY DEF Delete, May, Ready
  <2>2. QED BY <2>1 DEF TaskOK
<1>4. /\ id \in 1..Len(line) /\ Len(line) \in Nat /\ index[id] \in 1..n /\ n \in Nat /\ size \in 0..n
      /\ H \in Seq(1..Len(line)) /\ index \in [1..Len(line) -> 1..n]
  BY DEF LineOK, HOK
<1>5. size \in 1..n /\ Cardinality(present') = size - 1
  <2>1. IsFiniteSet(1..Len(line))
    BY <1>4, FS_Interval
  <2>2. IsFiniteSet(present)
    BY <2>1, FS_Subset DEF LineOK
  <2>3. Cardinality(present') = Cardinality(present) - 1 /\ Cardinality(present') \in Nat
    <3>1. IsFiniteSet(present')
      BY <1>1, <2>2, FS_Subset
    <3>2. QED BY <1>1, <2>2, <3>1, FS_RemoveElement, FS_CardinalityType
  <2>4. size = Cardinality(present)
    BY DEF LineOK
  <2>5. QED BY <1>4, <2>3, <2>4
<1>6. H' \in Seq(1..Len(line)) /\ Len(H') = n /\ index' \in [1..Len(line) -> 1..n]
  <2>1. /\ H' = [H EXCEPT ![index[id]] = H[size], ![size] = H[index[id]]]
        /\ index' = [index EXCEPT ![H[index[id]]] = size, ![H[size]] = index[id]]
    BY <1>1 DEF Swap
  <2> DEFINE i == index[id]
  <2>2. i \in 1..n /\ H[i] \in 1..Len(line) /\ H[size] \in 1..Len(line)
    <3>1. size \in 1..Len(H) /\ i \in 1..Len(H)
      BY <1>4, <1>5
    <3> HIDE DEF i
    <3>2. QED BY <1>4, <3>1
  <2> HIDE DEF i
  <2>3. H' = [H EXCEPT ![i] = H[size], ![size] = H[i]] /\ index' = [index EXCEPT ![H[i]] = size, ![H[size]] = i]
    BY <2>1 DEF i
  <2>4. H' \in Seq(1..Len(line)) /\ Len(H') = n
    BY <1>4, <1>5, <2>2, <2>3
  <2>5. index' \in [1..Len(line) -> 1..n]
    BY <1>4, <1>5, <2>2, <2>3
  <2>6. QED BY <2>4, <2>5
<1>7. LineOK' /\ HOK'
  <2>1. LineOK'
    BY <1>1, <1>2, <1>5 DEF LineOK
  <2>2. size' \in 0..n /\ n >= 2
    BY <1>2, <1>4, <1>5 DEF HOK
  <2>3. QED BY <1>2, <1>6, <2>1, <2>2 DEF HOK
<1>8. ClockOK' /\ QOK'
  BY <1>2, <1>6, ClockKept, QKept DEF queue
<1>9. TaskOK'
  <2>1. task'.op = "delete" /\ task'.id = H[size] /\ H[size] \in 1..Len(line)
    BY <1>1, <1>4, <1>5
  <2>2. QED BY <1>2, <1>3, <2>1 DEF TaskOK
<1>10. /\ todo' \in Seq(Call(n))
       /\ Calls(todo') = {[i |-> j, rule |-> "child"] : j \in {2 * index[id], 2 * index[id] + 1} \cap 1..(size - 1)}
  <2> DEFINE i == index[id]
             k == size - 1
  <2>1. k \in 0..n /\ "child" \in Rules /\ i \in 1..n /\ todo' = MakeChildren(i, k, "child")
    BY <1>1, <1>4, <1>5 DEF Rules
  <2>10. n \in Nat
    BY <1>4
  <2> HIDE DEF i, k, n
  <2>2. /\ MakeChildren(i, k, "child") \in Seq(Call(n))
        /\ Calls(MakeChildren(i, k, "child")) = ChildCalls(i, k, "child")
    BY <2>10, <2>1, CallsOfChildren
  <2>3. QED BY <2>1, <2>2, Zenon DEF ChildCalls, i, k
<1>11. AllMade'
  <2>1. DOMAIN m' = 2..Len(H')
    BY <1>2, <1>3, <1>6, RootOfQ
  <2>2. \A c \in Calls(todo') : c.rule \notin {"new", "new parent"}
    <3> DEFINE P == {2 * index[id], 2 * index[id] + 1} \cap 1..(size - 1)
          C == Calls(todo')
    <3>1. C = {[i |-> j, rule |-> "child"] : j \in P}
      BY <1>10
    <3> HIDE DEF P, C
    <3>2. \A c \in C : c.rule = "child"
      BY <3>1
    <3>3. QED BY <3>2 DEF C
  <2>3. QED BY <2>1, <2>2, OldCalls
<1>12. QED BY <1>6, <1>7, <1>8, <1>9, <1>10, <1>11 DEF TodoOK

LEMMA ShapeDeleteLoop == Shape /\ DeleteLoop => Shape'
<1> SUFFICES ASSUME Shape, DeleteLoop PROVE Shape'
  OBVIOUS
<1> DEFINE i == h[1].id
           n == Len(H)
<1>1. /\ task.op = "delete" /\ todo = << >> /\ UNCHANGED << now, present, changes >>
      /\ now \in 0..MaxTime /\ now % 2 = 0 /\ task.id \in 1..Len(line) /\ size \in 0..n
      /\ n \in Nat /\ n >= 2
  BY DEF DeleteLoop, Idle, user, Shape, ClockOK, TaskOK, HOK
<1>2. CASE /\ Event(i) /\ Again /\ UNCHANGED << queue, task >>
           /\ todo' = Affected(i) \o MakeChildren(index'[task.id], size, "child")
  <2>1. i \in 2..n /\ i \in 1..n /\ i \div 2 \in 1..n
    BY <1>1, RootOfQ
  <2>2. Swap(i, i \div 2) /\ UNCHANGED << line, size >>
    BY <1>2 DEF Event
  <2>3. HOK' /\ Len(H') = n
    BY <2>1, <2>2, HSwapped DEF Shape
  <2>4. index'[task.id] \in 1..n
    BY <1>1, <2>2, <2>3 DEF HOK
  <2> DEFINE s == MakeChildren(index'[task.id], size, "child")
  <2>5. s \in Seq(Call(n)) /\ \A c \in Calls(s) : c.rule = "child"
    <3> DEFINE j == index'[task.id]
    <3>1. j \in 1..n /\ "child" \in Rules
      BY <2>4 DEF Rules
    <3> HIDE DEF j
    <3>2. /\ MakeChildren(j, size, "child") \in Seq(Call(n))
          /\ Calls(MakeChildren(j, size, "child")) = ChildCalls(j, size, "child")
      BY <1>1, <3>1, CallsOfChildren
    <3>3. QED BY <3>2 DEF ChildCalls, j
  <2>6. TaskOK'
    BY <1>1, <1>2, <2>2 DEF Shape, TaskOK
  <2> HIDE DEF s, i
  <2>7. todo' = Affected(i) \o s
    BY <1>2 DEF s
  <2>8. QED BY <1>1, <1>2, <2>5, <2>6, <2>7, ShapeEvent DEF i
<1>3. CASE Return /\ UNCHANGED elements
  BY <1>1, <1>3, ShapeReturn DEF elements
<1>4. QED BY <1>2, <1>3 DEF DeleteLoop, Q_Min

LEMMA ShapeNext == Shape /\ [Next]_vars => Shape'
<1> SUFFICES ASSUME Shape, [Next]_vars PROVE Shape'
  OBVIOUS
<1>1. CASE UNCHANGED vars
  <2>1. UNCHANGED << now, line, index, H, size, h, m, sift, todo, task, present, changes, turns >>
    BY <1>1 DEF vars, elements, queue, user
  <2>2. ClockOK' /\ LineOK' /\ HOK' /\ QOK'
    BY <2>1, ClockKept, LineKept, QKept DEF Shape, HOK, queue
  <2>3. TodoOK' /\ TaskOK'
    BY <2>1 DEF Shape, TodoOK, TaskOK
  <2>4. AllMade'
    BY <2>1 DEF Shape, AllMade, IsNew
  <2>5. QED BY <2>2, <2>3, <2>4 DEF Shape
<1>2. CASE Next
  BY <1>2, ShapeBuildH, ShapeBuildQ, ShapeCertificate, ShapeSiftQ, ShapeFinish, ShapeInsert,
     ShapeInsertLoop, ShapeAdvance, ShapeAdvanceLoop, ShapeChange, ShapeDelete, ShapeDeleteLoop DEF Next
<1>3. QED BY <1>1, <1>2

\* At every step the positions, the indexes and the certificates are within the
\* vectors, and each position but the root's has a certificate or will get one.
THEOREM KineticShape == Spec => []Shape
<1>1. Init => Shape
  BY ShapeInit
<1>2. Shape /\ [Next]_vars => Shape'
  BY ShapeNext
<1>3. QED BY <1>1, <1>2, PTL DEF Spec

\* Every variable has its shape in every reachable state, for every number of elements
\* and every position and speed in the steps that the model allows, with deletions too.
THEOREM KineticTypeOK == Spec => []TypeOK
<1>1. Shape => TypeOK
  BY ShapeTypes
<1>2. QED BY <1>1, KineticShape, PTL


\* What is behind another before it meets it and in front afterwards.
LEMMA UnderFails ==
  ASSUME NEW u \in EvenLine, NEW p \in EvenLine, NEW t \in Int, Under(u, p, t)
  PROVE  /\ u.v > p.v => Meet(u, p) > t /\ Fail(u, p, t) = Meet(u, p)
         /\ ~ u.v > p.v => Fail(u, p, t) = INFTY
<1>1. /\ Place(u, t) \in Int /\ Place(p, t) \in Int /\ u.v \in Int /\ p.v \in Int
      /\ Place(u, t) < Place(p, t) \/ (Place(u, t) = Place(p, t) /\ u.v < p.v)
  BY PlaceInteger, SpeedsClose DEF Under
<1>2. CASE u.v > p.v
  <2>1. Meet(u, p) \in Int /\ (Place(u, t) < Place(p, t) <=> t < Meet(u, p))
    BY <1>2, Crossing
  <2>2. Meet(u, p) > t
    BY <1>1, <1>2, <2>1
  <2>3. QED BY <1>1, <1>2, <2>1, <2>2 DEF Fail
<1>3. CASE u.v = p.v
  BY <1>1, <1>3 DEF Fail
<1>4. CASE p.v > u.v
  <2>1. Meet(u, p) = Meet(p, u)
    BY <1>1, <1>4, MeetSymmetric
  <2>2. Meet(p, u) \in Int /\ (Place(p, t) < Place(u, t) <=> t < Meet(p, u))
    BY <1>4, Crossing
  <2>3. Meet(u, p) <= t
    BY <1>1, <2>1, <2>2
  <2>4. QED BY <1>1, <1>4, <2>3 DEF Fail
<1>5. QED BY <1>1, <1>2, <1>3, <1>4

LEMMA UnderUntil ==
  ASSUME NEW u \in EvenLine, NEW p \in EvenLine, NEW t \in Int, NEW s \in Int, Under(u, p, t),
         t < s, s < Fail(u, p, t)
  PROVE  Place(u, s) < Place(p, s)
<1>1. /\ Place(u, t) \in Int /\ Place(p, t) \in Int /\ u.v \in Int /\ p.v \in Int
      /\ Place(u, s) \in Int /\ Place(p, s) \in Int
      /\ Place(u, t) < Place(p, t) \/ (Place(u, t) = Place(p, t) /\ u.v < p.v)
  BY PlaceInteger, SpeedsClose DEF Under
<1>2. CASE u.v > p.v
  <2>1. Place(u, s) < Place(p, s) <=> s < Meet(u, p)
    BY <1>2, Crossing
  <2>2. QED BY <1>2, <2>1, UnderFails
<1>3. CASE u.v = p.v
  BY <1>1, <1>3, Parallel
<1>4. CASE p.v > u.v
  <2>1. /\ Meet(p, u) \in Int
        /\ Place(p, t) < Place(u, t) <=> t < Meet(p, u)
        /\ Place(p, s) > Place(u, s) <=> s > Meet(p, u)
    BY <1>4, Crossing
  <2>2. QED BY <1>1, <2>1
<1>5. QED BY <1>1, <1>2, <1>3, <1>4

LEMMA StrictlyUnder ==
  ASSUME NEW u, NEW p, NEW t, Place(u, t) < Place(p, t)
  PROVE  Under(u, p, t)
BY DEF Under

\* As long as one is behind another, the certificate about them does not change.
LEMMA SameFail ==
  ASSUME NEW u \in EvenLine, NEW p \in EvenLine, NEW t \in Int, NEW s \in Int,
         Under(u, p, t), Under(u, p, s)
  PROVE  Fail(u, p, t) = Fail(u, p, s)
<1>1. u.v \in Int /\ p.v \in Int
  BY SpeedsClose
<1>2. QED BY <1>1, UnderFails

\* Two that meet are at one place, and the one that was behind is faster.
LEMMA AtMeeting ==
  ASSUME NEW u \in EvenLine, NEW p \in EvenLine, NEW t \in Int, Under(u, p, t),
         Fail(u, p, t) # INFTY
  PROVE  /\ Fail(u, p, t) = Meet(u, p) /\ Meet(u, p) \in Int /\ Meet(u, p) > t /\ u.v > p.v
         /\ Place(u, Meet(u, p)) = Place(p, Meet(u, p))
<1>1. u.v > p.v
  BY UnderFails
<1>2. Meet(u, p) > t /\ Fail(u, p, t) = Meet(u, p)
  BY <1>1, UnderFails
<1>3. Meet(u, p) \in Int
  BY <1>1, Crossing
<1>4. Place(u, Meet(u, p)) = Place(p, Meet(u, p))
  <2> DEFINE s == Meet(u, p)
  <2>1. s \in Int
    BY <1>3
  <2>2. Place(u, s) = Place(p, s) <=> s = Meet(u, p)
    BY <1>1, <2>1, Crossing
  <2>3. QED BY <2>2
<1>5. QED BY <1>1, <1>2, <1>3, <1>4

-----------------------------------------------------------------------------
\* Moments.

LEMMA LinesOfIds ==
  ASSUME LineOK
  PROVE  Len(line) \in Nat /\ \A a \in 1..Len(line) : line[a] \in EvenLine
BY DEF LineOK

LEMMA Moment ==
  ASSUME LineOK, NEW t \in Int, NEW s \in Int, s >= t, Distinct(t),
         NEW a \in 1..Len(line), NEW b \in 1..Len(line), a # b
  PROVE  /\ Fail(line[a], line[b], s) <= INFTY
         /\ Fail(line[a], line[b], s) # INFTY =>
              /\ Fail(line[a], line[b], s) = Meet(line[a], line[b])
              /\ Meet(line[a], line[b]) \in Int /\ Meet(line[a], line[b]) > s
              /\ line[a].v # line[b].v
<1> DEFINE u == line[a]
           p == line[b]
<1>1. u \in EvenLine /\ p \in EvenLine
  BY LinesOfIds
<1>2. u.v # p.v => Meet(u, p) \in Int
  BY <1>1, MeetInteger
<1>3. u.v # p.v /\ Meet(u, p) >= t => Meet(u, p) < INFTY
  <2>1. u.v # p.v /\ Meet(u, p) >= t => Meeting(a, b, t)
    BY DEF Meeting
  <2>2. QED BY <2>1, Zenon DEF Distinct
<1> HIDE DEF u, p
<1>4. /\ Fail(u, p, s) <= INFTY
      /\ Fail(u, p, s) # INFTY => Fail(u, p, s) = Meet(u, p) /\ Meet(u, p) \in Int /\ Meet(u, p) > s /\ u.v # p.v
  <2>1. INFTY \in Nat
    BY BoundsOK
  <2>2. QED BY <1>2, <1>3, <2>1 DEF Fail
<1>5. QED BY <1>4 DEF u, p

\* Two certificates that expire at one moment are about the same two elements.
LEMMA SameMoment ==
  ASSUME LineOK, NEW t \in Int, NEW s \in Int, NEW r \in Int, s >= t, r >= t, Distinct(t),
         NEW a \in 1..Len(line), NEW b \in 1..Len(line), a # b,
         NEW c \in 1..Len(line), NEW d \in 1..Len(line), c # d,
         Fail(line[a], line[b], s) = Fail(line[c], line[d], r), Fail(line[a], line[b], s) # INFTY
  PROVE  (a = c /\ b = d) \/ (a = d /\ b = c)
<1>1. /\ Fail(line[a], line[b], s) = Meet(line[a], line[b])
      /\ Meet(line[a], line[b]) \in Int /\ Meet(line[a], line[b]) > s /\ line[a].v # line[b].v
  BY Moment
<1>2. /\ Fail(line[c], line[d], r) = Meet(line[c], line[d])
      /\ Meet(line[c], line[d]) \in Int /\ Meet(line[c], line[d]) > r /\ line[c].v # line[d].v
  BY Moment
<1>3. Meeting(a, b, t) /\ Meeting(c, d, t)
  BY <1>1, <1>2 DEF Meeting
<1>4. Meet(line[a], line[b]) = Meet(line[c], line[d])
  BY <1>1, <1>2
<1>5. QED BY <1>3, <1>4, Zenon DEF Distinct

LEMMA DistinctLater ==
  ASSUME LineOK, NEW t \in Int, NEW s \in Int, s >= t, Distinct(t)
  PROVE  Distinct(s)
<1>1. ASSUME NEW a \in 1..Len(line), NEW b \in 1..Len(line), Meeting(a, b, s)
      PROVE  Meeting(a, b, t)
  <2>1. Meet(line[a], line[b]) \in Int
    BY <1>1, LinesOfIds, MeetInteger DEF Meeting
  <2>2. QED BY <1>1, <2>1 DEF Meeting
<1>2. QED BY <1>1, Zenon DEF Distinct

\* The lines 1 to n of l are in general position from time t on.
Separate(l, n, t) ==
  /\ \A a, b \in 1..n : a # b => Place(l[a], t) # Place(l[b], t)
  /\ \A a, b \in 1..n : a # b /\ l[a].v # l[b].v /\ Meet(l[a], l[b]) >= t => Meet(l[a], l[b]) < INFTY
  /\ \A a, b, c, d \in 1..n :
       /\ a # b /\ l[a].v # l[b].v /\ Meet(l[a], l[b]) >= t
       /\ c # d /\ l[c].v # l[d].v /\ Meet(l[c], l[d]) >= t
       /\ Meet(l[a], l[b]) = Meet(l[c], l[d])
       => (a = c /\ b = d) \/ (a = d /\ b = c)

\* What general position means.
LEMMA GeneralMeans ==
  ASSUME NEW n \in Nat, NEW l, \A a \in 1..n : l[a] \in EvenLine, NEW t \in Int, General(l, 1..n, t)
  PROVE  Separate(l, n, t)
<1> DEFINE P == Pairs(1..n)
           M(p) == Moments(l[p[1]], l[p[2]], t)
           X(a, b) == IF a < b THEN << a, b >> ELSE << b, a >>
           Due2(a, b) == a # b /\ l[a].v # l[b].v /\ Meet(l[a], l[b]) >= t
<1>1. /\ \A p \in P : l[p[1]].x + l[p[1]].v * t # l[p[2]].x + l[p[2]].v * t
      /\ \A p \in P : \A e \in M(p) : e < INFTY
      /\ \A p, r \in P : p # r => M(p) \cap M(r) = {}
  BY Zenon DEF General
<1>2. ASSUME NEW a \in 1..n, NEW b \in 1..n, a # b
      PROVE  X(a, b) \in P /\ X(a, b)[1] \in {a, b} /\ X(a, b)[2] \in {a, b} /\ X(a, b)[1] # X(a, b)[2]
  <2>1. CASE a < b
    BY <2>1 DEF Pairs
  <2>2. CASE ~ a < b
    <3>1. b < a
      BY <1>2, <2>2
    <3>2. QED BY <2>2, <3>1 DEF Pairs
  <2>3. QED BY <2>1, <2>2
<1>3. ASSUME NEW a \in 1..n, NEW b \in 1..n, Due2(a, b)
      PROVE  X(a, b) \in P /\ Meet(l[a], l[b]) \in M(X(a, b))
  <2>1. X(a, b) = << a, b >> \/ X(a, b) = << b, a >>
    OBVIOUS
  <2>2. Meet(l[a], l[b]) = Meet(l[b], l[a])
    BY <1>3, MeetSymmetric
  <2>3. CASE X(a, b) = << a, b >>
    <3>1. Moments(l[a], l[b], t) = {Meet(l[a], l[b])}
      <4>1. Meet(l[a], l[b]) \in Int
        BY <1>3, MeetInteger
      <4>2. QED BY <1>3, <4>1 DEF Moments
    <3>2. M(X(a, b)) = Moments(l[a], l[b], t)
      BY <2>3
    <3>3. QED BY <1>2, <1>3, <3>1, <3>2
  <2>4. CASE X(a, b) = << b, a >>
    <3>1. Moments(l[b], l[a], t) = {Meet(l[b], l[a])}
      <4>1. Meet(l[b], l[a]) \in Int
        BY <1>3, MeetInteger
      <4>2. QED BY <1>3, <2>2, <4>1 DEF Moments
    <3>2. M(X(a, b)) = Moments(l[b], l[a], t)
      BY <2>4
    <3>3. QED BY <1>2, <1>3, <2>2, <3>1, <3>2
  <2>5. QED BY <2>1, <2>3, <2>4
<1>4. ASSUME NEW a \in 1..n, NEW b \in 1..n, a # b PROVE Place(l[a], t) # Place(l[b], t)
  <2>1. Place(l[X(a, b)[1]], t) # Place(l[X(a, b)[2]], t)
    <3> DEFINE p == X(a, b)
    <3>1. p \in P
      BY <1>2, <1>4
    <3> HIDE DEF p, P
    <3>2. l[p[1]].x + l[p[1]].v * t # l[p[2]].x + l[p[2]].v * t
      BY <1>1, <3>1, Zenon
    <3>3. QED BY <3>2, Zenon DEF Place, p
  <2>2. X(a, b) = << a, b >> \/ X(a, b) = << b, a >>
    OBVIOUS
  <2>3. (X(a, b)[1] = a /\ X(a, b)[2] = b) \/ (X(a, b)[1] = b /\ X(a, b)[2] = a)
    BY <2>2
  <2> HIDE DEF X
  <2>4. QED BY <2>1, <2>3
<1>5. ASSUME NEW a \in 1..n, NEW b \in 1..n, NEW c \in 1..n, NEW d \in 1..n,
             Due2(a, b), Due2(c, d), Meet(l[a], l[b]) = Meet(l[c], l[d])
      PROVE  (a = c /\ b = d) \/ (a = d /\ b = c)
  <2>1. Meet(l[a], l[b]) \in M(X(a, b)) \cap M(X(c, d)) /\ X(a, b) \in P /\ X(c, d) \in P
    BY <1>3, <1>5
  <2>2. X(a, b) = X(c, d)
    BY <1>1, <2>1
  <2>3. \/ << a, b >> = << c, d >> \/ << a, b >> = << d, c >> \/ << b, a >> = << c, d >> \/ << b, a >> = << d, c >>
    BY <2>2
  <2>4. QED BY <2>3
<1>6. ASSUME NEW a \in 1..n, NEW b \in 1..n, Due2(a, b) PROVE Meet(l[a], l[b]) < INFTY
  <2>1. X(a, b) \in P /\ Meet(l[a], l[b]) \in M(X(a, b))
    BY <1>3, <1>6
  <2> HIDE DEF P, M, X
  <2>2. QED BY <1>1, <2>1
<1>7. QED BY <1>4, <1>5, <1>6 DEF Separate

LEMMA GeneralNow ==
  ASSUME LineOK, NEW t \in Int, General(line, 1..Len(line), t)
  PROVE  Apart(t) /\ Distinct(t)
<1> DEFINE n == Len(line)
<1>1. n \in Nat /\ \A a \in 1..n : line[a] \in EvenLine
  BY LinesOfIds
<1> HIDE DEF n
<1>2. General(line, 1..n, t)
  BY DEF n
<1>3. /\ \A a, b \in 1..n : a # b => Place(line[a], t) # Place(line[b], t)
      /\ \A a, b \in 1..n : Meeting(a, b, t) => Meet(line[a], line[b]) < INFTY
      /\ \A a, b, c, d \in 1..n :
           Meeting(a, b, t) /\ Meeting(c, d, t) /\ Meet(line[a], line[b]) = Meet(line[c], line[d])
           => (a = c /\ b = d) \/ (a = d /\ b = c)
  <2>1. Separate(line, n, t)
    BY <1>1, <1>2, GeneralMeans
  <2>2. \A a, b \in 1..n : a # b => Place(line[a], t) # Place(line[b], t)
    BY <2>1, Zenon DEF Separate
  <2>3. ASSUME NEW a \in 1..n, NEW b \in 1..n, Meeting(a, b, t)
        PROVE  Meet(line[a], line[b]) < INFTY
    BY <2>1, <2>3, Zenon DEF Separate, Meeting
  <2>4. ASSUME NEW a \in 1..n, NEW b \in 1..n, NEW c \in 1..n, NEW d \in 1..n,
               Meeting(a, b, t), Meeting(c, d, t), Meet(line[a], line[b]) = Meet(line[c], line[d])
        PROVE  (a = c /\ b = d) \/ (a = d /\ b = c)
    BY <2>1, <2>4 DEF Separate, Meeting
  <2>5. QED BY <2>2, <2>3, <2>4
<1>4. QED BY <1>3, Zenon DEF n, Apart, Distinct

-----------------------------------------------------------------------------
\* Positions.

LEMMA Permuted ==
  ASSUME HOK, Len(H) = Len(line), \A k \in 1..Len(H) : index[H[k]] = k, \A id \in 1..Len(line) : H[index[id]] = id,
         NEW i \in 1..Len(H), NEW j \in 1..Len(H), Swap(i, j), line' = line
  PROVE  /\ Len(H') = Len(line) /\ H'[i] = H[j] /\ H'[j] = H[i]
         /\ \A k \in 1..Len(H) : k # i /\ k # j => H'[k] = H[k]
         /\ index'[H[i]] = j /\ index'[H[j]] = i
         /\ \A k \in 1..Len(line) : index'[H'[k]] = k
         /\ \A id \in 1..Len(line) : H'[index'[id]] = id
<1> DEFINE n == Len(line)
<1>1. /\ n \in Nat /\ Len(H) = n /\ H \in [1..n -> 1..n] /\ index \in [1..n -> 1..n] /\ H \in Seq(1..n)
      /\ \A k \in 1..n : index[H[k]] = k
      /\ \A id \in 1..n : H[index[id]] = id
  BY DEF HOK
<1>2. /\ H' = [H EXCEPT ![i] = H[j], ![j] = H[i]]
      /\ index' = [index EXCEPT ![H[i]] = j, ![H[j]] = i]
  BY DEF Swap
<1>3. Len(H') = n
  <2>1. H' \in [1..n -> 1..n]
    BY <1>1, <1>2
  <2>2. QED BY <1>1, <2>1, FunctionIsSeq
<1> HIDE DEF n
<1>4. i \in 1..n /\ j \in 1..n /\ H[i] \in 1..n /\ H[j] \in 1..n
  BY <1>1
<1>5. H'[i] = H[j] /\ H'[j] = H[i] /\ \A k \in 1..n : k # i /\ k # j => H'[k] = H[k]
  BY <1>1, <1>2, <1>4
<1>6. /\ index'[H[i]] = j /\ index'[H[j]] = i
      /\ \A id \in 1..n : id # H[i] /\ id # H[j] => index'[id] = index[id]
  BY <1>1, <1>2, <1>4
<1>60. index[H[i]] = i /\ index[H[j]] = j
  BY <1>1, <1>4
<1>7. ASSUME NEW k \in 1..n PROVE index'[H'[k]] = k
  <2>1. k = i \/ k = j \/ (k # i /\ k # j)
    OBVIOUS
  <2>2. CASE k # i /\ k # j
    <3>1. H'[k] = H[k] /\ H[k] \in 1..n /\ index[H[k]] = k
      BY <1>1, <1>5, <2>2
    <3>2. H[k] # H[i] /\ H[k] # H[j]
      BY <1>60, <2>2, <3>1
    <3>3. QED BY <1>6, <3>1, <3>2
  <2>3. QED BY <1>5, <1>6, <2>1, <2>2
<1>8. ASSUME NEW id \in 1..n PROVE H'[index'[id]] = id
  <2>1. CASE id # H[i] /\ id # H[j]
    <3>1. index'[id] = index[id] /\ index[id] \in 1..n /\ H[index[id]] = id
      BY <1>1, <1>6, <2>1
    <3>2. index[id] # i /\ index[id] # j
      BY <2>1, <3>1
    <3>3. QED BY <1>5, <3>1, <3>2
  <2>2. QED BY <1>5, <1>6, <2>1
<1>9. QED BY <1>1, <1>3, <1>5, <1>6, <1>7, <1>8 DEF n

LEMMA Exchange ==
  ASSUME HOK, Numbered, NEW i \in 1..size, NEW j \in 1..size, Swap(i, j), UNCHANGED << line, size >>
  PROVE  /\ Numbered' /\ H'[i] = H[j] /\ H'[j] = H[i]
         /\ \A k \in 1..size : k # i /\ k # j => H'[k] = H[k]
         /\ index'[H[i]] = j /\ index'[H[j]] = i
<1>1. /\ Len(H) = Len(line) /\ size = Len(line) /\ i \in 1..Len(H) /\ j \in 1..Len(H)
      /\ \A k \in 1..Len(H) : index[H[k]] = k
      /\ \A id \in 1..Len(line) : H[index[id]] = id
  BY DEF Numbered
<1>2. /\ Len(H') = Len(line) /\ H'[i] = H[j] /\ H'[j] = H[i]
      /\ \A k \in 1..Len(H) : k # i /\ k # j => H'[k] = H[k]
      /\ index'[H[i]] = j /\ index'[H[j]] = i
      /\ \A k \in 1..Len(line) : index'[H'[k]] = k
      /\ \A id \in 1..Len(line) : H'[index'[id]] = id
  BY <1>1, Permuted
<1>3. QED BY <1>1, <1>2 DEF Numbered

\* Two positions are not those of one pair of elements.
LEMMA FailsDiffer ==
  ASSUME Shape, Numbered, Distinct(now), NEW i \in 2..size, NEW k \in 2..size, i # k,
         Failure_Time(i) = Failure_Time(k)
  PROVE  Failure_Time(i) = INFTY
<1> SUFFICES ASSUME Failure_Time(i) # INFTY PROVE FALSE
  OBVIOUS
<1>1. /\ now \in Int /\ size \in Nat /\ size = Len(line) /\ H \in Seq(1..Len(line)) /\ Len(H) = size
      /\ \A j \in 1..size : index[H[j]] = j
  BY BoundsOK DEF Shape, ClockOK, HOK, Numbered
<1> DEFINE a == H[i]
           b == H[i \div 2]
           c == H[k]
           d == H[k \div 2]
<1>2. i \in 1..size /\ i \div 2 \in 1..size /\ k \in 1..size /\ k \div 2 \in 1..size /\ i # i \div 2 /\ k # k \div 2
  BY <1>1
<1>20. index[a] = i /\ index[b] = i \div 2 /\ index[c] = k /\ index[d] = k \div 2
  BY <1>1, <1>2
<1>21. a \in 1..size /\ b \in 1..size /\ c \in 1..size /\ d \in 1..size
  <2>1. \A j \in 1..size : H[j] \in 1..size
    BY <1>1
  <2>2. QED BY <1>2, <2>1, Zenon
<1>3. a \in 1..size /\ b \in 1..size /\ c \in 1..size /\ d \in 1..size /\ a # b /\ c # d /\ a # c
  <2> HIDE DEF a, b, c, d
  <2>1. QED BY <1>2, <1>20, <1>21
<1>4. ~ (a = d /\ b = c)
  <2>1. SUFFICES ASSUME a = d, b = c PROVE FALSE
    OBVIOUS
  <2> HIDE DEF a, b, c, d
  <2>2. i = k \div 2 /\ k = i \div 2
    BY <1>20, <2>1
  <2>3. QED BY <1>2, <2>2
<1>5. Fail(line[a], line[b], now) = Fail(line[c], line[d], now) /\ Fail(line[a], line[b], now) # INFTY
  BY FailureTime
<1> HIDE DEF a, b, c, d
<1>6. /\ LineOK /\ now \in Int /\ now >= now
      /\ a \in 1..Len(line) /\ b \in 1..Len(line) /\ c \in 1..Len(line) /\ d \in 1..Len(line)
  BY <1>1, <1>3 DEF Shape
<1>7. a # b /\ c # d /\ a # c
  BY <1>3
<1>8. (a = c /\ b = d) \/ (a = d /\ b = c)
  BY <1>5, <1>6, <1>7, SameMoment
<1>9. QED BY <1>4, <1>7, <1>8

\* The root of a heap is the least.
LEMMA Root ==
  ASSUME NEW n \in Nat, NEW f, \A j \in 1..n : f[j] \in Int, \A j \in 2..n : f[j \div 2] <= f[j]
  PROVE  \A j \in 1..n : f[1] <= f[j]
<1> DEFINE S == {j \in 1..n : ~ f[1] <= f[j]}
<1>1. SUFFICES ASSUME S # {} PROVE FALSE
  OBVIOUS
<1>2. S \in SUBSET Nat
  OBVIOUS
<1> HIDE DEF S
<1>3. PICK x \in S : \A y \in S : ~ (<< y, x >> \in OpToRel(<, Nat))
  BY <1>1, <1>2, NatLessThanWellFounded, WFMin
<1> USE DEF S
<1>4. x \in 1..n /\ ~ f[1] <= f[x] /\ \A y \in S : ~ y < x
  BY <1>2, <1>3 DEF OpToRel
<1>5. x # 1
  BY <1>4
<1>6. x \div 2 \in 1..n /\ x \div 2 < x /\ x \in 2..n
  BY <1>4, <1>5
<1>7. x \div 2 \notin S
  BY <1>4, <1>6
<1>8. f[1] <= f[x \div 2] /\ f[x \div 2] <= f[x]
  BY <1>6, <1>7
<1>9. f[1] \in Int /\ f[x] \in Int /\ f[x \div 2] \in Int
  BY <1>4, <1>6
<1>10. QED BY <1>4, <1>8, <1>9

-----------------------------------------------------------------------------
\* The heap of certificates.

LEMMA ChildOf ==
  \A j, a \in Nat : j \div 2 = a <=> j \in {2 * a, 2 * a + 1}
OBVIOUS

LEMMA Certificates ==
  ASSUME QOK, Len(H) \in Nat
  PROVE  /\ Len(h) \in Nat /\ DOMAIN h = 1..Len(h)
         /\ \A j \in 1..Len(h) : h[j] = [id |-> h[j].id, t |-> h[j].t] /\ h[j].id \in 2..Len(H) /\ h[j].t \in Nat
         /\ \A i \in DOMAIN m : m[i] \in 1..Len(h)
<1>1. h \in Seq([id : 2..Len(H), t : Nat])
  BY DEF QOK
<1>2. \A j \in 1..Len(h) : h[j] \in [id : 2..Len(H), t : Nat]
  BY <1>1, ElementOfSeq
<1>3. QED BY <1>1, <1>2 DEF QOK

LEMMA TimesOfPlaces ==
  ASSUME QOK, Len(H) \in Nat, Filed, OneByOne
  PROVE  /\ \A j \in 1..Len(h) : h[j].t <= INFTY
         /\ \A j, k \in 1..Len(h) : j # k /\ h[j].t = h[k].t => h[j].t = INFTY
<1>1. \A j \in 1..Len(h) : h[j].id \in DOMAIN m /\ m[h[j].id] = j
  BY DEF Filed
<1>2. \A j \in 1..Len(h) : Expiry(h[j].id) = h[j].t
  BY <1>1 DEF Expiry
<1>3. \A j, k \in 1..Len(h) : j # k => h[j].id # h[k].id
  BY <1>1
<1>4. \A j \in 1..Len(h) : h[j].t <= INFTY
  BY <1>1, <1>2 DEF OneByOne
<1>5. ASSUME NEW j \in 1..Len(h), NEW k \in 1..Len(h), j # k, h[j].t = h[k].t PROVE h[j].t = INFTY
  <2>1. h[j].id \in DOMAIN m /\ h[k].id \in DOMAIN m /\ h[j].id # h[k].id /\ Expiry(h[j].id) = Expiry(h[k].id)
    BY <1>1, <1>2, <1>3, <1>5
  <2>2. Expiry(h[j].id) = INFTY
    BY <2>1, Zenon DEF OneByOne
  <2>3. QED BY <1>2, <2>2
<1>6. QED BY <1>4, <1>5

\* Where a certificate stops going down, it is not after its children.
LEMMA SinkEnds ==
  ASSUME Shape, Filed, OneByOne, Sifting, Down = {}
  PROVE  \A j \in 2..Len(h) : j \div 2 = sift.at => h[sift.at].t <= h[j].t
<1> DEFINE a == sift.at
<1> SUFFICES ASSUME NEW j \in 2..Len(h), j \div 2 = a, ~ h[a].t <= h[j].t PROVE FALSE
  OBVIOUS
<1>1. /\ Len(H) \in Nat /\ QOK
      /\ Len(h) \in Nat /\ DOMAIN h = 1..Len(h) /\ \A k \in 1..Len(h) : h[k].t \in Nat
  <2>1. QOK /\ Len(H) \in Nat
    BY DEF Shape, HOK
  <2>2. QED BY <2>1, Certificates
<1>2. /\ \A k \in 1..Len(h) : h[k].t <= INFTY
      /\ \A k, l \in 1..Len(h) : k # l /\ h[k].t = h[l].t => h[k].t = INFTY
  BY <1>1, TimesOfPlaces
<1>3. INFTY \in Nat /\ a \in 0..Len(h) /\ ~ sift.up
  <2>1. sift.up => h[a].t <= h[j].t
    BY DEF Sifting
  <2>2. QED BY <1>1, <2>1, BoundsOK DEF QOK
<1>4. a \in 1..Len(h) /\ j \in 1..Len(h) /\ h[j].t < h[a].t
  <2>1. a \in 1..Len(h) /\ j \in 1..Len(h)
    BY <1>1, <1>3
  <2>2. h[a].t \in Nat /\ h[j].t \in Nat
    BY <1>1, <2>1
  <2>3. QED BY <2>1, <2>2
<1> DEFINE C == {2 * a, 2 * a + 1} \cap 1..Len(h)
<1>5. j \in C
  <2>1. j \in Nat /\ a \in Nat /\ j \in 1..Len(h)
    BY <1>1, <1>4
  <2>2. QED BY <2>1, ChildOf
<1>6. ASSUME NEW k \in C, h[k].t < h[a].t, \A b \in C : b # k => h[k].t < h[b].t PROVE FALSE
  <2>1. k \in Down
    <3>1. k \in {2 * sift.at, 2 * sift.at + 1} \cap DOMAIN h
      BY <1>1, <1>6
    <3>2. \A b \in {2 * sift.at, 2 * sift.at + 1} \cap DOMAIN h : b # k => h[k].t < h[b].t
      BY <1>1, <1>6
    <3>3. QED BY <1>3, <1>6, <3>1, <3>2, Zenon DEF Down
  <2>2. QED BY <2>1
<1>7. CASE \A b \in C : b # j => h[j].t < h[b].t
  BY <1>4, <1>5, <1>6, <1>7
<1>8. CASE ~ \A b \in C : b # j => h[j].t < h[b].t
  <2>1. PICK b \in C : b # j /\ ~ h[j].t < h[b].t
    BY <1>8
  <2>2. b \in 1..Len(h) /\ h[b].t \in Nat /\ h[j].t \in Nat /\ h[a].t \in Nat
    BY <1>1, <1>4
  <2>3. h[b].t # h[j].t
    BY <1>2, <1>3, <1>4, <2>1, <2>2
  <2>4. h[b].t < h[j].t
    BY <2>1, <2>2, <2>3
  <2>5. \A c \in C : c # b => c = j
    BY <1>5, <2>1
  <2>6. h[b].t < h[a].t
    BY <1>4, <2>2, <2>4
  <2>7. \A c \in C : c # b => h[b].t < h[c].t
    BY <2>4, <2>5
  <2>8. QED BY <1>6, <2>1, <2>6, <2>7, Zenon
<1>9. QED BY <1>7, <1>8

LEMMA SettledOrder ==
  ASSUME Shape, Filed, OneByOne, Sifting, Settled
  PROVE  \A j \in 2..Len(h) : h[j \div 2].t <= h[j].t
<1> SUFFICES ASSUME NEW j \in 2..Len(h) PROVE h[j \div 2].t <= h[j].t
  OBVIOUS
<1>1. /\ Len(H) \in Nat /\ QOK
      /\ Len(h) \in Nat /\ DOMAIN h = 1..Len(h) /\ \A k \in 1..Len(h) : h[k].t \in Nat
  <2>1. QOK /\ Len(H) \in Nat
    BY DEF Shape, HOK
  <2>2. QED BY <2>1, Certificates
<1>2. j \div 2 \in 1..Len(h) /\ j \in 1..Len(h) /\ h[j].t \in Nat /\ h[j \div 2].t \in Nat
  BY <1>1
<1>3. CASE j = sift.at
  <2>1. j \div 2 \notin Up
    BY DEF Settled
  <2>2. ~ h[j \div 2].t > h[j].t
    BY <1>1, <1>2, <1>3, <2>1 DEF Up
  <2>3. QED BY <1>2, <2>2
<1>4. CASE j \div 2 = sift.at
  BY <1>4, SinkEnds DEF Settled
<1>5. QED BY <1>3, <1>4 DEF Sifting

\* The first certificate is the first to expire.
LEMMA FirstOfAll ==
  ASSUME Shape, Filed, OneByOne, Sifting, Settled
  PROVE  \A i \in DOMAIN m : h[1].t <= Expiry(i)
<1>1. /\ Len(H) \in Nat /\ QOK
      /\ Len(h) \in Nat /\ DOMAIN h = 1..Len(h) /\ \A k \in 1..Len(h) : h[k].t \in Nat
      /\ \A i \in DOMAIN m : m[i] \in 1..Len(h)
  <2>1. QOK /\ Len(H) \in Nat
    BY DEF Shape, HOK
  <2>2. QED BY <2>1, Certificates
<1> DEFINE f == [j \in 1..Len(h) |-> h[j].t]
           n == Len(h)
<1>2. n \in Nat /\ \A j \in 1..n : f[j] \in Int
  BY <1>1
<1>3. \A j \in 2..n : f[j \div 2] <= f[j]
  <2>1. \A j \in 2..n : h[j \div 2].t <= h[j].t
    BY SettledOrder
  <2>2. \A j \in 2..n : j \in 1..n /\ j \div 2 \in 1..n
    BY <1>1
  <2>3. QED BY <2>1, <2>2
<1> HIDE DEF f, n
<1>4. \A j \in 1..n : f[1] <= f[j]
  BY <1>2, <1>3, Root
<1>5. \A j \in 1..Len(h) : h[1].t <= h[j].t
  <2>1. \A j \in 1..Len(h) : f[j] = h[j].t /\ 1 \in 1..Len(h)
    BY <1>1 DEF f
  <2>2. QED BY <1>4, <2>1 DEF n
<1>6. QED BY <1>1, <1>5 DEF Expiry

LEMMA CertificatesSwapped ==
  ASSUME QOK, Len(H) \in Nat, Filed, NEW a \in 1..Len(h), NEW j \in 1..Len(h), a # j, Q_Swap(a, j)
  PROVE  /\ Filed' /\ DOMAIN m' = DOMAIN m /\ Len(h') = Len(h)
         /\ h'[a] = h[j] /\ h'[j] = h[a] /\ \A k \in 1..Len(h) : k # a /\ k # j => h'[k] = h[k]
         /\ \A i \in DOMAIN m : Expiry(i)' = Expiry(i)
<1>1. /\ Len(h) \in Nat /\ DOMAIN h = 1..Len(h)
      /\ \A i \in DOMAIN m : m[i] \in 1..Len(h)
      /\ DOMAIN m = 2..(Len(h) + 1)
      /\ \A k \in 1..Len(h) : h[k].id \in DOMAIN m /\ m[h[k].id] = k
      /\ \A i \in DOMAIN m : h[m[i]].id = i
  BY Certificates DEF Filed
<1>2. h' = [h EXCEPT ![a] = h[j], ![j] = h[a]] /\ m' = [m EXCEPT ![h[a].id] = j, ![h[j].id] = a]
  BY DEF Q_Swap
<1>3. Len(h') = Len(h)
  <2> DEFINE C == [id : 2..Len(H), t : Nat]
  <2>1. h \in Seq(C) /\ h[a] \in C /\ h[j] \in C
    BY ElementOfSeq DEF QOK
  <2> HIDE DEF C
  <2>2. QED BY <1>2, <2>1
<1>4. h'[a] = h[j] /\ h'[j] = h[a] /\ \A k \in 1..Len(h) : k # a /\ k # j => h'[k] = h[k]
  <2> DEFINE D == DOMAIN h
  <2>1. D = 1..Len(h) /\ h = [k \in D |-> h[k]]
    <3>1. h \in Seq([id : 2..Len(H), t : Nat])
      BY DEF QOK
    <3>2. QED BY <3>1
  <2>2. QED BY <1>1, <1>2, <2>1
<1> DEFINE D == DOMAIN m
           x == h[a].id
           y == h[j].id
<1>5. m \in [D -> 1..Len(h)] /\ x \in D /\ y \in D /\ m[x] = a /\ m[y] = j /\ x # y
  BY <1>1 DEF QOK
<1> HIDE DEF D, x, y
<1>6. m' = [m EXCEPT ![x] = j, ![y] = a]
  BY <1>2 DEF x, y
<1>7. DOMAIN m' = D /\ m'[x] = j /\ m'[y] = a /\ \A i \in D : i # x /\ i # y => m'[i] = m[i]
  BY <1>5, <1>6
<1>8. ASSUME NEW i \in D
      PROVE  /\ h'[m'[i]].id = i /\ h'[m'[i]].t = h[m[i]].t
  <2>1. i = x \/ i = y \/ (i # x /\ i # y)
    OBVIOUS
  <2>2. CASE i # x /\ i # y
    <3>1. m'[i] = m[i] /\ m[i] \in 1..Len(h) /\ h[m[i]].id = i
      BY <1>1, <1>7, <2>2 DEF D
    <3>2. m[i] # a /\ m[i] # j
      BY <2>2, <3>1 DEF x, y
    <3>3. QED BY <1>4, <3>1, <3>2
  <2>3. CASE i = x
    BY <1>4, <1>5, <1>7, <2>3 DEF x
  <2>4. CASE i = y
    BY <1>4, <1>5, <1>7, <2>4 DEF y
  <2>5. QED BY <2>1, <2>2, <2>3, <2>4
<1>9. ASSUME NEW k \in 1..Len(h) PROVE h'[k].id \in D /\ m'[h'[k].id] = k
  <2>1. k = a \/ k = j \/ (k # a /\ k # j)
    OBVIOUS
  <2>2. CASE k # a /\ k # j
    <3>1. h'[k] = h[k] /\ h[k].id \in D /\ m[h[k].id] = k
      BY <1>1, <1>4, <2>2 DEF D
    <3>2. h[k].id # x /\ h[k].id # y
      BY <1>5, <2>2, <3>1
    <3>3. QED BY <1>7, <3>1, <3>2
  <2>3. CASE k = a
    BY <1>4, <1>5, <1>7, <2>3 DEF y
  <2>4. CASE k = j
    BY <1>4, <1>5, <1>7, <2>4 DEF x
  <2>5. QED BY <2>1, <2>2, <2>3, <2>4
<1>10. Filed'
  BY <1>1, <1>3, <1>7, <1>8, <1>9 DEF Filed, D
<1>11. \A i \in DOMAIN m : Expiry(i)' = Expiry(i)
  BY <1>8 DEF Expiry, D
<1>12. QED BY <1>3, <1>4, <1>7, <1>10, <1>11 DEF D

-----------------------------------------------------------------------------
\* What a step leaves alone.

LEMMA TimesKept ==
  ASSUME UNCHANGED << now, line, H >>, NEW i
  PROVE  Failure_Time(i)' = Failure_Time(i) /\ Key(i)' = Key(i)
BY DEF Failure_Time, Meet, Key

LEMMA DueKept ==
  ASSUME UNCHANGED << now, line, H, index, task >>, NEW i
  PROVE  Due(i)' = Due(i)
<1>1. \A j, r : r # "child" =>
         Time(j, r) = IF r \in {"parent", "new parent"} /\ Key(H[j]) > Key(H[j \div 2]) THEN now ELSE Failure_Time(j)
  BY DEF Time
<1>2. Time(i, "parent") = IF Key(H[i]) > Key(H[i \div 2]) THEN now ELSE Failure_Time(i)
  BY DEF Time
<1>3. Time(i, "parent")' = IF Key(H[i])' > Key(H[i \div 2])' THEN now' ELSE Failure_Time(i)'
  BY DEF Time
<1>4. Failure_Time(i)' = Failure_Time(i) /\ Key(H[i])' = Key(H[i]) /\ Key(H[i \div 2])' = Key(H[i \div 2])
  BY DEF Failure_Time, Meet, Key
<1>5. Time(i, "parent")' = Time(i, "parent")
  BY <1>2, <1>3, <1>4
<1>6. QED BY <1>4, <1>5 DEF Due

LEMMA MovingKept ==
  ASSUME Moving, UNCHANGED << now, line >>, task' = task \/ (task.op # "advance" /\ task'.op # "advance")
  PROVE  Moving'
<1>1. Distinct(now)'
  BY DEF Moving, Distinct, Meeting, Meet
<1>2. CASE task' = task
  BY <1>1, <1>2 DEF Moving, Apart, Place
<1>3. CASE task.op # "advance" /\ task'.op # "advance"
  BY <1>1, <1>3 DEF Moving, Apart, Place
<1>4. QED BY <1>2, <1>3

LEMMA OrderKept ==
  ASSUME InOrder, UNCHANGED << now, line, H, index, size, task >>
  PROVE  InOrder'
BY DEF InOrder, BuildOrder, InsertOrder, AdvanceOrder, RestOrder, Behind, Key, Under, Place

LEMMA WholeSiftQ == Shape /\ Whole /\ SiftQ => Whole'
<1> SUFFICES ASSUME Shape, Whole, SiftQ PROVE Whole'
  OBVIOUS
<1> DEFINE a == sift.at
           n == Len(h)
<1>1. UNCHANGED << now, line, index, H, size, todo, task >>
  BY DEF SiftQ, elements
<1>2. QOK /\ Len(H) \in Nat /\ Filed /\ OneByOne /\ Sifting /\ UpToDate /\ Calling /\ Numbered
  BY DEF Shape, HOK, Whole
<1>3. /\ n \in Nat /\ DOMAIN h = 1..n /\ \A k \in 1..n : h[k].t \in Nat
      /\ \A i \in DOMAIN m : m[i] \in 1..n
      /\ a \in 0..n
  <2>1. a \in 0..n
    BY <1>2 DEF QOK
  <2>2. QED BY <1>2, <2>1, Certificates
<1>4. \A j \in 2..n :
        /\ j # a /\ j \div 2 # a => h[j \div 2].t <= h[j].t
        /\ j \div 2 = a /\ a \div 2 >= 1 => h[a \div 2].t <= h[j].t
        /\ j \div 2 = a /\ sift.up => h[a].t <= h[j].t
  BY <1>2 DEF Sifting
<1>5. Moving' /\ InOrder' /\ Numbered'
  <2>1. Moving' /\ InOrder'
    BY <1>1, MovingKept, OrderKept DEF Whole
  <2>2. Numbered'
    BY <1>1, <1>2 DEF Numbered
  <2>3. QED BY <2>1, <2>2
<1> HIDE DEF n, a
<1>6. ASSUME NEW j \in 1..n, a \in 1..n, a # j, Q_Swap(a, j)
      PROVE  /\ Filed' /\ OneByOne' /\ UpToDate' /\ Calling'
             /\ Len(h') = n /\ h'[a] = h[j] /\ h'[j] = h[a] /\ \A k \in 1..n : k # a /\ k # j => h'[k] = h[k]
  <2>1. /\ Filed' /\ DOMAIN m' = DOMAIN m /\ Len(h') = Len(h)
        /\ h'[a] = h[j] /\ h'[j] = h[a] /\ \A k \in 1..Len(h) : k # a /\ k # j => h'[k] = h[k]
        /\ \A i \in DOMAIN m : Expiry(i)' = Expiry(i)
    BY <1>2, <1>6, CertificatesSwapped DEF n
  <2>2. Waiting' = Waiting /\ \A i : Failure_Time(i)' = Failure_Time(i) /\ Due(i)' = Due(i)
    <3>1. Waiting' = Waiting
      BY <1>1 DEF Waiting, Calls
    <3>2. QED BY <1>1, <3>1, TimesKept, DueKept
  <2> DEFINE D == DOMAIN m
  <2>3. DOMAIN m' = D
    BY <2>1
  <2> HIDE DEF D
  <2>4. OneByOne'
    BY <1>2, <2>1, <2>2, <2>3 DEF OneByOne, D
  <2>5. UpToDate'
    BY <1>2, <2>1, <2>2, <2>3 DEF UpToDate, D
  <2>6. Calling'
    <3>1. h # << >>
      BY <1>6, <1>3 DEF n
    <3>2. task.op # "build"
      BY <1>2, <3>1 DEF Calling
    <3>3. QED BY <1>1, <1>2, <2>1, <3>2 DEF Calling, IsNew
  <2>7. QED BY <2>1, <2>4, <2>5, <2>6 DEF n
<1>7. CASE Sink
  <2>1. PICK j \in Down : Q_Swap(a, j) /\ sift' = [at |-> j, up |-> FALSE]
    BY <1>7 DEF Sink, a
  <2>2. /\ j \in {2 * a, 2 * a + 1} /\ j \in 1..n /\ ~ sift.up /\ h[j].t < h[a].t
        /\ \A b \in {2 * a, 2 * a + 1} \cap 1..n : b # j => h[j].t < h[b].t
    BY <1>3, <2>1 DEF Down, a
  <2>3. a \in 1..n /\ a # j
    <3>1. a # 0
      BY <1>2, <2>2 DEF QOK, a
    <3>2. QED BY <1>3, <2>2, <3>1
  <2>4. /\ Filed' /\ OneByOne' /\ UpToDate' /\ Calling'
        /\ Len(h') = n /\ h'[a] = h[j] /\ h'[j] = h[a] /\ \A k \in 1..n : k # a /\ k # j => h'[k] = h[k]
    BY <1>6, <2>1, <2>2, <2>3
  <2>5. sift'.at = j /\ sift'.up = FALSE /\ j \div 2 = a
    <3>1. j \in Nat /\ a \in Nat
      BY <1>3, <2>2
    <3>2. QED BY <2>1, <2>2, <3>1, ChildOf
  <2>6. ASSUME NEW e \in 2..n, e # j, e \div 2 # j PROVE h'[e \div 2].t <= h'[e].t
    <3>1. e \in 1..n /\ e \div 2 \in 1..n /\ h[e].t \in Nat /\ h[e \div 2].t \in Nat /\ h[j].t \in Nat
      BY <1>3, <2>2
    <3>2. CASE e = a
      <4>1. e \div 2 # a /\ e \div 2 # j /\ h'[e \div 2] = h[e \div 2]
        BY <2>2, <2>3, <2>4, <2>5, <2>6, <3>1, <3>2
      <4>2. j \in 2..n /\ a \div 2 >= 1
        BY <2>2, <2>3, <3>1, <3>2
      <4>3. h[a \div 2].t <= h[j].t
        BY <1>4, <2>5, <4>2
      <4>4. QED BY <2>4, <3>2, <4>1, <4>3
    <3>3. CASE e \div 2 = a
      <4>1. e # a /\ h'[e] = h[e] /\ h'[e \div 2] = h[j]
        BY <2>3, <2>4, <2>6, <3>1, <3>3
      <4>2. e \in {2 * a, 2 * a + 1} \cap 1..n
        BY <2>3, <3>1, <3>3, <1>3
      <4>3. h[j].t < h[e].t
        BY <2>2, <2>6, <4>2
      <4>4. QED BY <3>1, <4>1, <4>3
    <3>4. CASE e # a /\ e \div 2 # a
      BY <1>4, <2>4, <2>6, <3>1, <3>4
    <3>5. QED BY <3>2, <3>3, <3>4
  <2>7. ASSUME NEW e \in 2..n, e \div 2 = j PROVE h'[j \div 2].t <= h'[e].t
    <3>1. e \in 1..n /\ e # j /\ e # a /\ e \div 2 # a
      BY <1>3, <2>2, <2>3, <2>7
    <3>2. h[j].t <= h[e].t
      BY <1>4, <2>7, <3>1
    <3>3. QED BY <2>4, <2>5, <3>1, <3>2
  <2>8. Sifting'
    BY <2>4, <2>5, <2>6, <2>7 DEF Sifting
  <2>9. QED BY <1>5, <2>4, <2>8 DEF Whole
<1>8. CASE Swim
  <2>1. PICK j \in Up : Q_Swap(a, j) /\ sift' = [at |-> j, up |-> TRUE] /\ Down = {}
    BY <1>8 DEF Swim, a
  <2>2. j = a \div 2 /\ j \in 1..n /\ h[j].t > h[a].t
    BY <1>3, <2>1 DEF Up, a
  <2>3. a \in 1..n /\ a # j
    BY <1>3, <2>2
  <2>4. /\ Filed' /\ OneByOne' /\ UpToDate' /\ Calling'
        /\ Len(h') = n /\ h'[a] = h[j] /\ h'[j] = h[a] /\ \A k \in 1..n : k # a /\ k # j => h'[k] = h[k]
    BY <1>6, <2>1, <2>2, <2>3
  <2>5. sift'.at = j /\ sift'.up = TRUE
    BY <2>1
  <2>6. \A e \in 2..n : e \div 2 = a => h[a].t <= h[e].t /\ h[j].t <= h[e].t
    <3>1. \A e \in 2..n : e \div 2 = a => h[a].t <= h[e].t
      BY <1>2, <2>1, SinkEnds DEF a, n
    <3>2. \A e \in 2..n : e \div 2 = a => h[j].t <= h[e].t
      BY <1>3, <1>4, <2>2
    <3>3. QED BY <3>1, <3>2
  <2>7. ASSUME NEW e \in 2..n, e # j, e \div 2 # j PROVE h'[e \div 2].t <= h'[e].t
    <3>1. e \in 1..n /\ e \div 2 \in 1..n /\ e # a
      BY <1>3, <2>2, <2>7
    <3>2. CASE e \div 2 = a
      BY <2>3, <2>4, <2>6, <2>7, <3>1, <3>2
    <3>3. CASE e \div 2 # a
      BY <1>4, <2>4, <2>7, <3>1, <3>3
    <3>4. QED BY <3>2, <3>3
  <2>8. ASSUME NEW e \in 2..n, e \div 2 = j
        PROVE  h'[j].t <= h'[e].t /\ (j \div 2 >= 1 => h'[j \div 2].t <= h'[e].t)
    <3>1. /\ e \in 1..n /\ e # j /\ h[e].t \in Nat /\ h[j].t \in Nat /\ h[a].t \in Nat
      BY <1>3, <2>2, <2>3, <2>8
    <3>2. j \div 2 >= 1 =>
             /\ j \in 2..n /\ j # a /\ j \div 2 # a /\ j \div 2 # j /\ j \div 2 \in 1..n
             /\ h[j \div 2].t <= h[j].t /\ h[j \div 2].t \in Nat /\ h'[j \div 2] = h[j \div 2]
      <4>1. j \div 2 >= 1 => j \in 2..n /\ j # a /\ j \div 2 # a /\ j \div 2 # j /\ j \div 2 \in 1..n
        BY <1>3, <2>2, <2>3
      <4>2. QED BY <1>3, <1>4, <2>4, <4>1
    <3>3. CASE e = a
      BY <2>2, <2>4, <3>1, <3>2, <3>3
    <3>4. CASE e # a
      <4>1. e \div 2 # a /\ h[j].t <= h[e].t /\ h'[e] = h[e]
        BY <1>4, <2>3, <2>4, <2>8, <3>1, <3>4
      <4>2. QED BY <2>2, <2>4, <3>1, <3>2, <4>1
    <3>5. QED BY <3>3, <3>4
  <2>9. Sifting'
    BY <2>4, <2>5, <2>7, <2>8 DEF Sifting
  <2>10. QED BY <1>5, <2>4, <2>9 DEF Whole
<1>9. QED BY <1>7, <1>8 DEF SiftQ

\* A certificate that is made anew expires later than now.
LEMMA Bounded ==
  ASSUME Shape, Numbered, Distinct(now), NEW i \in 2..size
  PROVE  /\ Failure_Time(i) \in Nat /\ Failure_Time(i) <= INFTY /\ Failure_Time(i) > now
         /\ H[i] \in 1..Len(line) /\ H[i \div 2] \in 1..Len(line) /\ H[i] # H[i \div 2]
         /\ line[H[i]] \in EvenLine /\ line[H[i \div 2]] \in EvenLine
<1>1. /\ now \in Int /\ now \in Nat /\ now < INFTY /\ size \in Nat /\ size = Len(line) /\ Len(H) = size
      /\ LineOK /\ HOK /\ H \in Seq(1..Len(line)) /\ \A j \in 1..size : index[H[j]] = j
  BY BoundsOK DEF Shape, ClockOK, HOK, Numbered
<1>2. i \in 1..size /\ i \div 2 \in 1..size /\ i # i \div 2
  BY <1>1
<1>3. index[H[i]] = i /\ index[H[i \div 2]] = i \div 2 /\ H[i] \in 1..Len(line) /\ H[i \div 2] \in 1..Len(line)
  BY <1>1, <1>2
<1>4. H[i] # H[i \div 2]
  BY <1>2, <1>3
<1>5. line[H[i]] \in EvenLine /\ line[H[i \div 2]] \in EvenLine
  BY <1>1, <1>2, LinesAt
<1>6. Fail(line[H[i]], line[H[i \div 2]], now) <= INFTY
  BY <1>1, <1>3, <1>4, Moment
<1>7. Fail(line[H[i]], line[H[i \div 2]], now) \in Nat /\ Fail(line[H[i]], line[H[i \div 2]], now) > now
  BY <1>1, <1>5, FailLater
<1>8. QED BY <1>3, <1>4, <1>5, <1>6, <1>7, FailureTime

\* The time of the next certificate to be made.
LEMMA NextTime ==
  ASSUME Shape, Whole, todo # << >>, todo' = Tail(todo), NEW t, t = Time(todo[1].i, todo[1].rule)
  PROVE  /\ t \in Nat /\ t <= INFTY
         /\ \A i \in DOMAIN m : i # todo[1].i /\ Expiry(i) = t => t = INFTY
         /\ todo[1].i \notin Waiting' => t = Due(todo[1].i)
         /\ \A k \in Waiting' : k # todo[1].i /\ t = Failure_Time(k) => t = INFTY
         /\ Waiting' \subseteq Waiting /\ Waiting = Waiting' \union {todo[1].i}
         /\ todo[1].i \in 2..size /\ Waiting \subseteq 2..size
<1> DEFINE c == todo[1]
           n == Len(todo)
           q == index[task.id]
<1>1. /\ n \in Nat /\ n >= 1 /\ Len(todo') = n - 1 /\ \A k \in 1..n - 1 : todo'[k] = todo[k + 1]
      /\ c \in Call(Len(H))
  BY TodoHead DEF Shape
<1>2. /\ Calling /\ Numbered /\ Distinct(now) /\ OneByOne /\ UpToDate
      /\ now \in Nat /\ now < INFTY /\ size \in Nat /\ INFTY \in Nat
  BY BoundsOK DEF Whole, Moving, Shape, ClockOK, HOK
<1>3. \A k \in 1..n :
        /\ todo[k].i \in 2..size
        /\ task.op # "insert" => todo[k].rule \in {"new", "next"}
        /\ task.op = "insert" =>
             IF k = n THEN todo[k].i = q /\ todo[k].rule \in {"parent", "new parent"} ELSE todo[k].rule = "next"
  BY <1>2, Zenon DEF Calling
<1> HIDE DEF n, c, q
<1>4. 1 \in 1..n /\ c.i \in 2..size
  <2>1. 1 \in 1..n
    BY <1>1
  <2>2. QED BY <1>3, <2>1, Zenon DEF c
<1>5. Waiting' \subseteq Waiting /\ Waiting = Waiting' \union {c.i} /\ Waiting \subseteq 2..size
  <2>1. \A x : x \in Waiting <=> \E k \in 1..n : x = todo[k].i
    BY DEF Waiting, Calls, n
  <2>2. \A x : x \in Waiting' <=> \E k \in 1..Len(todo') : x = todo'[k].i
    BY DEF Waiting, Calls
  <2>3. ASSUME NEW x \in Waiting' PROVE x \in Waiting
    <3>1. PICK k \in 1..Len(todo') : x = todo'[k].i
      BY <2>2
    <3>2. k + 1 \in 1..n /\ todo'[k] = todo[k + 1]
      BY <1>1
    <3>3. QED BY <2>1, <3>1, <3>2
  <2>4. ASSUME NEW x \in Waiting, x # c.i PROVE x \in Waiting'
    <3>1. PICK k \in 1..n : x = todo[k].i
      BY <2>1
    <3>2. k # 1
      BY <2>4, <3>1 DEF c
    <3>3. k - 1 \in 1..Len(todo') /\ todo'[k - 1] = todo[k]
      BY <1>1, <3>2
    <3>4. QED BY <2>2, <3>1, <3>3
  <2>5. c.i \in Waiting
    BY <1>4, <2>1 DEF c
  <2>6. ASSUME NEW x \in Waiting PROVE x \in 2..size
    BY <1>3, <2>1
  <2>7. QED BY <2>3, <2>4, <2>5, <2>6
<1>6. \A i \in 2..size : Failure_Time(i) \in Nat /\ Failure_Time(i) <= INFTY /\ Failure_Time(i) > now
  BY <1>2, Bounded
<1>7. \A i, k \in 2..size : i # k /\ Failure_Time(i) = Failure_Time(k) => Failure_Time(i) = INFTY
  BY <1>2, FailsDiffer
<1>8. DOMAIN m \subseteq 2..size
  BY DEF Shape, QOK, Whole, Numbered
\* As long as a call waits the certificate of the new element does.
<1>9. task.op = "insert" => q \in Waiting
  <2>1. n \in 1..n
    BY <1>1
  <2>2. task.op = "insert" => todo[n].i = q
    BY <1>3, <2>1
  <2>3. QED BY <2>1, <2>2 DEF Waiting, Calls, n
<1>10. \A i \in DOMAIN m : i \notin Waiting => Expiry(i) = Failure_Time(i)
  BY <1>2, <1>9 DEF UpToDate, Due, q
<1>11. CASE c.rule \in {"new", "next"}
  <2>1. t = Failure_Time(c.i)
    BY <1>11 DEF Time, c
  <2>2. ASSUME NEW i \in DOMAIN m, i # c.i, Expiry(i) = t PROVE t = INFTY
    <3>1. CASE i \in Waiting
      BY <1>2, <1>5, <2>1, <2>2, <3>1, Zenon DEF OneByOne
    <3>2. CASE i \notin Waiting
      BY <1>4, <1>7, <1>8, <1>10, <2>1, <2>2, <3>2
    <3>3. QED BY <3>1, <3>2
  <2>3. c.i \notin Waiting' => t = Due(c.i)
    <3>1. SUFFICES ASSUME c.i \notin Waiting' PROVE ~ (task.op = "insert" /\ c.i = q)
      BY <2>1 DEF Due, q
    <3>2. CASE n = 1
      BY <1>3, <1>4, <1>11, <3>2 DEF c
    <3>3. CASE n # 1
      <4>1. n - 1 \in 1..Len(todo') /\ todo'[n - 1] = todo[n] /\ n \in 1..n
        BY <1>1, <3>3
      <4>2. task.op = "insert" => todo'[n - 1].i = q
        BY <1>3, <4>1
      <4>3. task.op = "insert" => q \in Waiting'
        BY <4>1, <4>2 DEF Waiting, Calls
      <4>4. QED BY <3>1, <4>3
    <3>4. QED BY <3>2, <3>3
  <2>4. \A k \in Waiting' : k # c.i /\ t = Failure_Time(k) => t = INFTY
    BY <1>4, <1>5, <1>7, <2>1
  <2>5. QED BY <1>4, <1>5, <1>6, <2>1, <2>2, <2>3, <2>4 DEF c
<1>12. CASE c.rule \notin {"new", "next"}
  <2>1. task.op = "insert" /\ n = 1 /\ c.i = q /\ c.rule \in {"parent", "new parent"}
    BY <1>3, <1>4, <1>12 DEF c
  <2>2. t = IF Key(H[c.i]) > Key(H[c.i \div 2]) THEN now ELSE Failure_Time(c.i)
    BY <2>1 DEF Time, c
  <2>3. Due(c.i) = IF Key(H[c.i]) > Key(H[c.i \div 2]) THEN now ELSE Failure_Time(c.i)
    BY <2>1 DEF Time, Due, q
  <2>4. Waiting' = {}
    <3> DEFINE l == Len(todo')
    <3>1. l = n - 1
      BY <1>1
    <3> HIDE DEF l
    <3>2. 1..l = {}
      <4>1. n = 1
        BY <2>1, Zenon
      <4>2. l = 0
        BY <3>1, <4>1
      <4>3. QED BY <4>2
    <3>3. Calls(todo') = {}
      BY <3>2, Zenon DEF Calls, l
    <3>4. QED BY <3>3 DEF Waiting
  <2>5. ASSUME NEW i \in DOMAIN m, i # c.i, Expiry(i) = t PROVE t = INFTY
    <3>1. Expiry(i) = Failure_Time(i)
      BY <1>5, <1>10, <2>4, <2>5
    <3>2. CASE t = Failure_Time(c.i)
      BY <1>4, <1>7, <1>8, <2>5, <3>1, <3>2
    <3>3. CASE t = now
      BY <1>2, <1>6, <1>8, <2>5, <3>1, <3>3
    <3>4. QED BY <2>2, <3>2, <3>3
  <2>6. t \in Nat /\ t <= INFTY
    BY <1>2, <1>4, <1>6, <2>2
  <2>7. QED BY <1>4, <1>5, <2>2, <2>3, <2>4, <2>5, <2>6 DEF c
<1>13. QED BY <1>11, <1>12

LEMMA TimesAfterCall ==
  ASSUME Shape, Whole, todo # << >>, todo' = Tail(todo), NEW t, t = Time(todo[1].i, todo[1].rule),
         UNCHANGED << now, line, index, H, size, task >>,
         NEW i, i = todo[1].i, DOMAIN m' = DOMAIN m \union {i},
         \A k \in DOMAIN m : k # i => Expiry(k)' = Expiry(k), Expiry(i)' = t
  PROVE  OneByOne' /\ UpToDate'
<1>1. /\ t \in Nat /\ t <= INFTY
      /\ \A k \in DOMAIN m : k # i /\ Expiry(k) = t => t = INFTY
      /\ i \notin Waiting' => t = Due(i)
      /\ \A k \in Waiting' : k # i /\ t = Failure_Time(k) => t = INFTY
      /\ Waiting' \subseteq Waiting /\ Waiting = Waiting' \union {i}
  BY NextTime
<1>2. \A k : Failure_Time(k)' = Failure_Time(k) /\ Due(k)' = Due(k)
  BY TimesKept, DueKept
<1> DEFINE D == DOMAIN m
           W == Waiting'
           E(k) == Expiry(k)'
<1>3. /\ \A k \in D : Expiry(k) <= INFTY
      /\ \A k, l \in D : k # l /\ Expiry(k) = Expiry(l) => Expiry(k) = INFTY
      /\ \A k \in D \cap Waiting, l \in Waiting : k # l /\ Expiry(k) = Failure_Time(l) => Expiry(k) = INFTY
      /\ \A k \in D \ Waiting : Expiry(k) = Due(k)
  BY Zenon DEF Whole, OneByOne, UpToDate
<1>4. DOMAIN m' = D \union {i} /\ (\A k \in D : k # i => E(k) = Expiry(k)) /\ E(i) = t
  OBVIOUS
<1> HIDE DEF D, E, W
<1>5. \A k \in D \union {i} : E(k) <= INFTY
  BY <1>1, <1>3, <1>4
<1>6. \A k, l \in D \union {i} : k # l /\ E(k) = E(l) => E(k) = INFTY
  BY <1>1, <1>3, <1>4 DEF D
<1>7. \A k \in (D \union {i}) \cap W, l \in W : k # l /\ E(k) = Failure_Time(l) => E(k) = INFTY
  BY <1>1, <1>3, <1>4 DEF W
<1>8. \A k \in (D \union {i}) \ W : E(k) = Due(k)
  BY <1>1, <1>3, <1>4 DEF W
<1>9. OneByOne'
  BY <1>2, <1>4, <1>5, <1>6, <1>7 DEF OneByOne, E, W
<1>10. UpToDate'
  BY <1>2, <1>4, <1>8 DEF UpToDate, E, W
<1>11. QED BY <1>9, <1>10

LEMMA CallingAfterCall ==
  ASSUME Shape, Whole, todo # << >>, todo' = Tail(todo), UNCHANGED << index, size, task >>,
         Len(h') = IF IsNew(1) THEN Len(h) + 1 ELSE Len(h)
  PROVE  Calling'
<1> DEFINE n == Len(todo)
           q == index[task.id]
<1>1. /\ n \in Nat /\ n >= 1 /\ Len(todo') = n - 1 /\ \A k \in 1..n - 1 : todo'[k] = todo[k + 1]
      /\ Len(h) \in Nat /\ size \in Nat
  BY TodoHead DEF Shape, HOK, QOK
<1>2. task.op # "build" /\ task.op # "delete"
  BY DEF Shape, TaskOK, Whole, Calling
<1>3. \A k \in 1..n :
        /\ todo[k].i \in 2..size
        /\ IsNew(k) => todo[k].i = Len(h) + 1 + k /\ Len(h) + n = size - 1
        /\ task.op # "insert" => todo[k].rule \in {"new", "next"}
        /\ task.op = "insert" =>
             IF k = n THEN todo[k].i = q /\ todo[k].rule \in {"parent", "new parent"} ELSE todo[k].rule = "next"
  BY Zenon DEF Whole, Calling
<1>4. \A k \in 1..n : IsNew(k) <=> IsNew(1)
  <2>1. 1 \in 1..n
    BY <1>1
  <2>2. QED BY <2>1, Zenon DEF Shape, AllMade
<1> HIDE DEF n, q
<1>5. ASSUME NEW k \in 1..(n - 1)
      PROVE  /\ todo'[k].i \in 2..size
             /\ IsNew(k)' => todo'[k].i = Len(h') + 1 + k /\ Len(h') + (n - 1) = size - 1
             /\ task.op # "insert" => todo'[k].rule \in {"new", "next"}
             /\ task.op = "insert" =>
                  IF k = n - 1 THEN todo'[k].i = q /\ todo'[k].rule \in {"parent", "new parent"} ELSE todo'[k].rule = "next"
  <2>1. k + 1 \in 1..n /\ todo'[k] = todo[k + 1] /\ (k + 1 = n <=> k = n - 1)
    BY <1>1
  <2>2. IsNew(k)' <=> IsNew(k + 1)
    BY <2>1 DEF IsNew
  <2>3. IsNew(k)' => todo'[k].i = Len(h') + 1 + k /\ Len(h') + (n - 1) = size - 1
    <3>1. SUFFICES ASSUME IsNew(k)' PROVE todo'[k].i = Len(h') + 1 + k /\ Len(h') + (n - 1) = size - 1
      OBVIOUS
    <3>2. IsNew(1) /\ IsNew(k + 1)
      BY <1>4, <2>1, <2>2, <3>1
    <3>3. todo[k + 1].i = Len(h) + 1 + (k + 1) /\ Len(h) + n = size - 1
      BY <1>3, <2>1, <3>2
    <3>4. Len(h') = Len(h) + 1
      BY <3>2
    <3>5. QED BY <1>1, <2>1, <3>3, <3>4
  <2>4. /\ todo[k + 1].i \in 2..size
        /\ task.op # "insert" => todo[k + 1].rule \in {"new", "next"}
        /\ task.op = "insert" =>
             IF k + 1 = n THEN todo[k + 1].i = q /\ todo[k + 1].rule \in {"parent", "new parent"}
                          ELSE todo[k + 1].rule = "next"
    BY <1>3, <2>1, Zenon
  <2>5. QED BY <2>1, <2>3, <2>4, Zenon
<1>6. QED
  <2>1. Len(todo') = n - 1
    BY <1>1
  <2>2. index'[task'.id] = q
    BY DEF q
  <2>3. QED BY <1>2, <1>5, <2>1, <2>2 DEF Calling

\* A certificate that is made again keeps its place, from which it goes down.
LEMMA CertificateUpdated ==
  ASSUME QOK, Len(H) \in Nat, Filed, NEW i \in DOMAIN m, NEW s \in Nat, Q_Update(i, s)
  PROVE  /\ Filed' /\ m' = m /\ Len(h') = Len(h) /\ m[i] \in 1..Len(h) /\ sift'.at = m[i] /\ sift'.up = FALSE
         /\ \A k \in 1..Len(h) : k # m[i] => h'[k] = h[k]
         /\ Expiry(i)' = s /\ \A k \in DOMAIN m : k # i => Expiry(k)' = Expiry(k)
<1> DEFINE n == Len(h)
           a == m[i]
<1>1. h' = [h EXCEPT ![a].t = s] /\ sift' = [at |-> a, up |-> FALSE] /\ m' = m
  BY DEF Q_Update
<1>2. /\ n \in Nat /\ h \in Seq([id : 2..Len(H), t : Nat]) /\ \A k \in DOMAIN m : m[k] \in 1..n
  BY Certificates DEF QOK
<1>3. /\ DOMAIN m = 2..(n + 1)
      /\ \A j \in 1..n : h[j].id \in DOMAIN m /\ m[h[j].id] = j
      /\ \A k \in DOMAIN m : h[m[k]].id = k
  BY DEF Filed
<1>4. a \in 1..n /\ h[a].id = i
  BY <1>2, <1>3
<1> HIDE DEF a
<1>5. h[a] \in [id : 2..Len(H), t : Nat]
  BY <1>2, <1>4, ElementOfSeq
<1>6. Len(h') = n /\ (\A k \in 1..n : k # a => h'[k] = h[k]) /\ h'[a].id = i /\ h'[a].t = s
  <2> DEFINE e == [h[a] EXCEPT !.t = s]
  <2>1. e.id = h[a].id /\ e.t = s /\ h' = [h EXCEPT ![a] = e] /\ e \in [id : 2..Len(H), t : Nat]
    BY <1>1, <1>5
  <2> HIDE DEF e
  <2>2. Len(h') = n /\ (\A k \in 1..n : k # a => h'[k] = h[k]) /\ h'[a] = e
    BY <1>2, <1>4, <2>1
  <2>3. QED BY <1>4, <2>1, <2>2
<1> HIDE DEF n
<1>7. Filed'
  <2>1. \A j \in 1..n : h'[j].id = h[j].id
    BY <1>4, <1>6
  <2>2. \A j \in 1..n : h'[j].id \in DOMAIN m /\ m[h'[j].id] = j
    BY <1>3, <2>1
  <2>3. \A k \in DOMAIN m : h'[m[k]].id = k
    BY <1>2, <1>3, <2>1
  <2>4. QED BY <1>1, <1>3, <1>6, <2>2, <2>3 DEF Filed
<1>8. ASSUME NEW k \in DOMAIN m, k # i PROVE Expiry(k)' = Expiry(k)
  <2>1. m[k] \in 1..n /\ h[m[k]].id = k
    BY <1>2, <1>3
  <2>2. m[k] # a
    BY <1>4, <1>8, <2>1
  <2>3. h'[m[k]] = h[m[k]]
    BY <1>6, <2>1, <2>2
  <2>4. QED BY <1>1, <2>3 DEF Expiry
<1>9. Expiry(i)' = s
  BY <1>1, <1>6 DEF Expiry, a
<1>10. QED BY <1>1, <1>4, <1>6, <1>7, <1>8, <1>9 DEF a, n

LEMMA WholeCertificate == Shape /\ Whole /\ Certificate => Whole'
<1> SUFFICES ASSUME Shape, Whole, Certificate PROVE Whole'
  OBVIOUS
<1> DEFINE c == Head(todo)
           n == Len(h)
           t == Time(c.i, c.rule)
<1>1. /\ todo # << >> /\ todo' = Tail(todo) /\ Settled
      /\ UNCHANGED << now, line, index, H, size, task >>
  BY DEF Certificate, elements
<1>10. /\ c.rule \in {"new", "new parent"} => Q_Insert(c.i, t)
       /\ c.rule \notin {"new", "new parent"} => Q_Update(c.i, t)
  BY DEF Certificate
<1>2. /\ QOK /\ Filed /\ OneByOne /\ Sifting /\ Calling /\ Numbered /\ Len(H) = size
  BY DEF Shape, Whole, Numbered
<1>20. Len(H) \in Nat
  BY DEF Shape, HOK
<1>3. /\ n \in Nat /\ DOMAIN h = 1..n /\ (\A k \in 1..n : h[k].t \in Nat)
      /\ (\A i \in DOMAIN m : m[i] \in 1..n) /\ h = [k \in 1..n |-> h[k]] /\ h \in Seq([id : 2..Len(H), t : Nat])
  <2>1. h \in Seq([id : 2..Len(H), t : Nat])
    BY <1>2 DEF QOK
  <2>2. h = [k \in 1..n |-> h[k]]
    BY <2>1
  <2>3. QED BY <1>2, <1>20, <2>1, <2>2, Certificates
<1>4. /\ DOMAIN m = 2..(n + 1)
      /\ \A j \in 1..n : h[j].id \in DOMAIN m /\ m[h[j].id] = j
      /\ \A i \in DOMAIN m : h[m[i]].id = i
  BY <1>2 DEF Filed
<1>5. \A j \in 2..n : h[j \div 2].t <= h[j].t
  BY <1>1, <1>2, SettledOrder
<1>6. Moving' /\ InOrder' /\ Numbered'
  <2>1. Moving' /\ InOrder'
    BY <1>1, MovingKept, OrderKept DEF Whole
  <2>2. Numbered'
    BY <1>1, <1>2 DEF Numbered
  <2>3. QED BY <2>1, <2>2
<1>7. c = todo[1] /\ 1 \in 1..Len(todo) /\ (IsNew(1) <=> c.rule \in {"new", "new parent"})
  <2>1. Len(todo) \in Nat /\ Len(todo) >= 1 /\ c = todo[1]
    BY <1>1, TodoHead DEF Shape
  <2>2. IsNew(1) <=> c.rule \in {"new", "new parent"}
    <3> HIDE DEF c
    <3>1. QED BY <2>1, Zenon DEF IsNew
  <2>3. 1 \in 1..Len(todo)
    BY <2>1
  <2>4. QED BY <2>1, <2>2, <2>3, Zenon
<1>9. t = Time(todo[1].i, todo[1].rule)
  <2> HIDE DEF c
  <2>1. QED BY <1>7, Zenon
<1>8. c.i \in 2..size /\ (IsNew(1) => c.i = n + 2) /\ t \in Nat
  <2>1. todo[1].i \in 2..size /\ Time(todo[1].i, todo[1].rule) \in Nat
    BY <1>1, NextTime
  <2>2. IsNew(1) => todo[1].i = Len(h) + 1 + 1
    BY <1>2, <1>7 DEF Calling
  <2> HIDE DEF c, t, n
  <2>3. IsNew(1) => todo[1].i = n + 2
    BY <1>3, <2>2 DEF n
  <2>4. QED BY <1>7, <1>9, <2>1, <2>3, Zenon
<1> HIDE DEF c, n, t
<1>80. PICK i \in 2..size, s \in Nat : i = c.i /\ s = t
  BY <1>8
<1>11. ASSUME DOMAIN m' = DOMAIN m \union {i}, \A k \in DOMAIN m : k # i => Expiry(k)' = Expiry(k),
              Expiry(i)' = s, Filed', Sifting', Len(h') = IF IsNew(1) THEN n + 1 ELSE n
       PROVE  Whole'
  <2>1. OneByOne' /\ UpToDate'
    <3>1. i = todo[1].i /\ s = Time(todo[1].i, todo[1].rule)
      BY <1>7, <1>9, <1>80, Zenon
    <3>2. QED BY <1>1, <3>1, <1>11, TimesAfterCall, Zenon
  <2>2. Calling'
    BY <1>1, <1>11, CallingAfterCall DEF n
  <2>3. QED BY <1>6, <1>11, <2>1, <2>2 DEF Whole
<1>12. CASE IsNew(1)
  <2> DEFINE e == [id |-> i, t |-> s]
  <2>1. h' = Append(h, e) /\ sift' = [at |-> n + 1, up |-> TRUE]
        /\ m' = [k \in DOMAIN m \union {i} |-> IF k = i THEN n + 1 ELSE m[k]]
    BY <1>7, <1>10, <1>12, <1>80 DEF Q_Insert, n
  <2>2. i = n + 2 /\ e.id = i /\ e.t = s
    BY <1>8, <1>12, <1>80
  <2> HIDE DEF e
  <2>3. Len(h') = n + 1 /\ h'[n + 1] = e /\ \A k \in 1..n : h'[k] = h[k]
    BY <1>3, <2>1 DEF n
  <2>4. DOMAIN m' = DOMAIN m \union {i} /\ m'[i] = n + 1 /\ \A k \in DOMAIN m : k # i => m'[k] = m[k]
    BY <2>1
  <2>5. i \notin DOMAIN m /\ DOMAIN m' = 2..(n + 2)
    BY <1>3, <1>4, <2>2, <2>4
  <2>6. \A k \in DOMAIN m : h'[m'[k]] = h[m[k]]
    BY <1>3, <2>3, <2>4, <2>5
  <2>7. Filed'
    <3>1. ASSUME NEW j \in 1..(n + 1) PROVE h'[j].id \in DOMAIN m' /\ m'[h'[j].id] = j
      <4>1. CASE j = n + 1
        BY <2>2, <2>3, <2>4, <4>1
      <4>2. CASE j # n + 1
        <5>1. j \in 1..n
          BY <1>3, <4>2
        <5>2. h'[j] = h[j] /\ h[j].id \in DOMAIN m /\ m[h[j].id] = j
          BY <1>4, <2>3, <5>1
        <5>3. QED BY <2>4, <2>5, <5>2
      <4>3. QED BY <4>1, <4>2
    <3>2. ASSUME NEW k \in DOMAIN m' PROVE h'[m'[k]].id = k
      <4>1. CASE k = i
        BY <2>2, <2>3, <2>4, <4>1
      <4>2. CASE k # i
        BY <1>4, <2>4, <2>6, <4>2
      <4>3. QED BY <4>1, <4>2
    <3>3. QED BY <1>3, <2>3, <2>5, <3>1, <3>2 DEF Filed
  <2>8. Sifting'
    <3>1. sift'.at = n + 1 /\ Len(h') = n + 1
      BY <2>1, <2>3
    <3>2. ASSUME NEW j \in 2..(n + 1) PROVE j \div 2 # n + 1 /\ (j # n + 1 => h'[j \div 2].t <= h'[j].t)
      <4>1. j \div 2 # n + 1 /\ j \div 2 \in 1..n /\ (j # n + 1 => j \in 2..n /\ j \in 1..n)
        BY <1>3
      <4>2. QED BY <1>5, <2>3, <4>1
    <3>3. QED BY <3>1, <3>2 DEF Sifting
  <2>9. Expiry(i)' = s /\ \A k \in DOMAIN m : k # i => Expiry(k)' = Expiry(k)
    <3>1. Expiry(i)' = s
      BY <2>2, <2>3, <2>4 DEF Expiry
    <3>2. ASSUME NEW k \in DOMAIN m PROVE Expiry(k)' = Expiry(k)
      BY <2>6 DEF Expiry
    <3>3. QED BY <3>1, <3>2
  <2>10. QED BY <1>11, <1>12, <2>3, <2>4, <2>7, <2>8, <2>9
<1>13. CASE ~ IsNew(1)
  <2> DEFINE a == m[i]
  <2>1. Q_Update(i, s)
    BY <1>7, <1>10, <1>13, <1>80
  <2>2. i \in DOMAIN m
    <3>1. \A k \in 1..Len(todo) : ~ IsNew(k)
      BY <1>7, <1>13 DEF Shape, AllMade
    <3>2. task.op # "build"
      BY <1>1 DEF Shape, TaskOK
    <3>3. QED BY <1>2, <1>80, <3>1, <3>2 DEF Shape, AllMade
  <2>3. s \in Nat
    BY <1>8, <1>80
  <2>4. /\ Filed' /\ m' = m /\ Len(h') = n /\ a \in 1..n /\ sift'.at = a /\ sift'.up = FALSE
        /\ \A k \in 1..n : k # a => h'[k] = h[k]
        /\ Expiry(i)' = s /\ \A k \in DOMAIN m : k # i => Expiry(k)' = Expiry(k)
    BY <1>2, <1>20, <2>1, <2>2, <2>3, CertificateUpdated DEF n
  <2> HIDE DEF a
  <2>7. Sifting'
    <3>2. ASSUME NEW j \in 2..n
          PROVE  /\ j # a /\ j \div 2 # a => h'[j \div 2].t <= h'[j].t
                 /\ j \div 2 = a /\ a \div 2 >= 1 => h'[a \div 2].t <= h'[j].t
      <4>1. j \in 1..n /\ j \div 2 \in 1..n /\ h[j].t \in Nat /\ h[j \div 2].t \in Nat /\ h[j \div 2].t <= h[j].t
        <5>1. j \in 1..n /\ j \div 2 \in 1..n
          BY <1>3
        <5>2. QED BY <1>3, <1>5, <5>1
      <4>2. j # a /\ j \div 2 # a => h'[j \div 2].t <= h'[j].t
        BY <2>4, <4>1
      <4>3. ASSUME j \div 2 = a, a \div 2 >= 1 PROVE h'[a \div 2].t <= h'[j].t
        <5>1. a \in 2..n /\ a \div 2 \in 1..n /\ a \div 2 # a /\ j # a
          <6>1. n \in Nat /\ j \in 2..n /\ a \in 1..n
            BY <1>3, <2>4
          <6>2. QED BY <4>3, <6>1
        <5>2. h[a \div 2].t <= h[a].t /\ h[a \div 2].t \in Nat /\ h[a].t \in Nat
          BY <1>3, <1>5, <2>4, <5>1
        <5>3. h'[j] = h[j] /\ h'[a \div 2] = h[a \div 2]
          BY <2>4, <4>1, <5>1
        <5>4. QED BY <4>1, <4>3, <5>2, <5>3
      <4>4. QED BY <4>2, <4>3
    <3>3. QED BY <2>4, <3>2 DEF Sifting
  <2>8. DOMAIN m' = DOMAIN m \union {i}
    BY <2>2, <2>4
  <2>9. QED BY <1>11, <1>13, <2>4, <2>7, <2>8
<1>14. QED BY <1>12, <1>13

-----------------------------------------------------------------------------
\* The constructor.

\* Without certificates there is nothing to say about them.
LEMMA NoCertificates ==
  ASSUME h = << >>, DOMAIN m = {}
  PROVE  Filed /\ Sifting /\ OneByOne /\ UpToDate
<1>1. Len(h) = 0
  OBVIOUS
<1> DEFINE n == Len(h)
<1>2. n = 0
  BY <1>1
<1> HIDE DEF n
<1>3. 1..n = {} /\ 2..n = {} /\ 2..(n + 1) = {}
  BY <1>2
<1>4. Filed /\ Sifting
  BY <1>3 DEF Filed, Sifting, n
<1>5. OneByOne /\ UpToDate
  BY DEF OneByOne, UpToDate
<1>6. QED BY <1>4, <1>5

LEMMA WholeInit == Init => Whole
<1> SUFFICES ASSUME Init PROVE Whole
  OBVIOUS
<1>0. Shape
  BY ShapeInit
<1>1. PICK n \in Built :
    /\ line \in [1..n -> Line] /\ General(line, 1..n, 0)
    /\ now = 0 /\ index = [i \in 1..n |-> i] /\ H = [i \in 1..n |-> i] /\ size = n
    /\ h = << >> /\ m = << >> /\ sift = Still /\ todo = << >>
    /\ task = [op |-> "build", i |-> (n + 1) \div 2, at |-> (n + 1) \div 2]
    /\ present = 1..n /\ changes = 0 /\ turns = 0
  BY Zenon DEF Init
<1>2. n \in Nat /\ n >= 2
  BY IdsFinite, KineticAssumption
<1>3. Len(line) = n /\ Len(H) = n
  BY <1>1, <1>2, FunctionIsSeq
<1>4. task.op = "build" /\ task.i = (n + 1) \div 2 /\ task.at = (n + 1) \div 2
  BY <1>1
<1>5. Moving
  <2>1. General(line, 1..Len(line), 0) /\ LineOK
    BY <1>0, <1>1, <1>3 DEF Shape
  <2>2. Apart(0) /\ Distinct(0)
    BY <2>1, GeneralNow
  <2>3. QED BY <1>1, <1>4, <2>2 DEF Moving
<1>6. Numbered
  BY <1>1, <1>3 DEF Numbered
<1>7. InOrder
  <2>1. ASSUME NEW j \in 2..n
        PROVE  ~ (j \div 2 >= (n + 1) \div 2 /\ j \div 2 # (n + 1) \div 2) /\ ~ ((n + 1) \div 2) \div 2 >= (n + 1) \div 2
    BY <1>2
  <2>2. BuildOrder
    BY <1>1, <1>4, <2>1 DEF BuildOrder
  <2>3. QED BY <1>4, <2>2 DEF InOrder, InsertOrder, AdvanceOrder, RestOrder
<1>8. Filed /\ Sifting /\ OneByOne /\ UpToDate
  <2>1. DOMAIN m = {}
    BY <1>1
  <2>2. QED BY <1>1, <2>1, NoCertificates
<1>9. Calling
  <2>1. Len(todo) = 0
    BY <1>1
  <2>2. QED BY <1>1, <1>4, <2>1 DEF Calling
<1>10. QED BY <1>5, <1>6, <1>7, <1>8, <1>9 DEF Whole

LEMMA BuildStage ==
  ASSUME Shape, Whole, task.op = "build"
  PROVE  /\ h = << >> /\ DOMAIN m = {} /\ todo = << >> /\ size = Len(H) /\ size \in Nat
         /\ Distinct(now) /\ Apart(now) /\ Numbered /\ BuildOrder
         /\ \A j \in 1..size : Key(H[j]) \in Int
<1>1. h = << >> /\ Filed /\ Numbered /\ BuildOrder /\ Distinct(now) /\ Apart(now) /\ size = Len(H)
  BY DEF Whole, Calling, InOrder, Moving, Numbered
<1>2. DOMAIN m = {}
  <2> DEFINE n == Len(h)
  <2>1. n = 0
    BY <1>1
  <2>2. DOMAIN m = 2..(n + 1)
    BY <1>1 DEF Filed
  <2> HIDE DEF n
  <2>3. 2..(n + 1) = {}
    BY <2>1
  <2>4. QED BY <2>2, <2>3
<1>3. size \in Nat /\ todo = << >>
  BY DEF Shape, HOK, TaskOK
<1>4. ASSUME NEW j \in 1..size PROVE Key(H[j]) \in Int
  <2>1. line[H[j]] \in EvenLine
    BY <1>1, <1>4, LinesAt DEF Shape
  <2>2. now \in Int
    BY BoundsOK DEF Shape, ClockOK
  <2>3. QED BY <2>1, <2>2, PlaceInteger DEF Key, Place
<1>5. QED BY <1>1, <1>2, <1>3, <1>4

\* Two elements at different positions are at different places.
LEMMA KeysApart ==
  ASSUME Shape, \A x \in 1..size : index[H[x]] = x, Apart(now), NEW i \in 1..size, NEW j \in 1..size, i # j
  PROVE  Key(H[i]) # Key(H[j]) /\ Key(H[i]) \in Int /\ Key(H[j]) \in Int
<1>1. /\ size \in 0..Len(H) /\ H \in Seq(1..Len(line)) /\ index[H[i]] = i /\ index[H[j]] = j
      /\ i \in 1..Len(H) /\ j \in 1..Len(H)
  BY DEF Shape, HOK
<1>2. H[i] \in 1..Len(line) /\ H[j] \in 1..Len(line) /\ H[i] # H[j]
  BY <1>1
<1>3. Place(line[H[i]], now) # Place(line[H[j]], now)
  BY <1>2 DEF Apart
<1>4. line[H[i]] \in EvenLine /\ line[H[j]] \in EvenLine /\ now \in Int
  BY <1>1, LinesAt, BoundsOK DEF Shape, ClockOK
<1>5. Place(line[H[i]], now) \in Int /\ Place(line[H[j]], now) \in Int
  BY <1>4, PlaceInteger
<1>6. QED BY <1>3, <1>5 DEF Key, Place

LEMMA KeysDiffer ==
  ASSUME Shape, Numbered, Apart(now), NEW i \in 1..size, NEW j \in 1..size, i # j
  PROVE  Key(H[i]) # Key(H[j]) /\ Key(H[i]) \in Int /\ Key(H[j]) \in Int
BY KeysApart DEF Numbered

\* Who has no child ahead is ahead of the children.
LEMMA NobodyAbove ==
  ASSUME Shape, \A x \in 1..size : index[H[x]] = x, Apart(now), NEW a \in 1..size, Ahead(a) = {}
  PROVE  \A j \in Children(a) : Behind(j, a)
<1> SUFFICES ASSUME NEW j \in Children(a), ~ Behind(j, a) PROVE FALSE
  OBVIOUS
<1> DEFINE C == Children(a)
           K(x) == Key(H[x])
<1>1. size \in Nat
  BY DEF Shape, HOK
<1>2. C \subseteq 1..size /\ a \notin C /\ C \subseteq {2 * a, 2 * a + 1} /\ j \in C
  BY <1>1 DEF Children
<1>3. \A x, y \in 1..size : x # y => K(x) # K(y) /\ K(x) \in Int /\ K(y) \in Int
  BY KeysApart
<1>4. ~ K(j) < K(a)
  BY DEF Behind
<1>5. \A x \in C : ~ \A b \in {a} \union (C \ {x}) : K(x) > K(b)
  BY DEF Ahead
<1> HIDE DEF C, K
<1>6. K(j) > K(a)
  <2>1. j # a /\ j \in 1..size
    BY <1>2
  <2>2. K(j) # K(a) /\ K(j) \in Int /\ K(a) \in Int
    BY <1>3, <2>1
  <2>3. QED BY <1>4, <2>2
<1>7. PICK b \in C : b # j /\ ~ K(j) > K(b)
  BY <1>2, <1>5, <1>6
<1>8. K(b) > K(j) /\ K(b) \in Int /\ K(j) \in Int /\ K(a) \in Int
  <2>1. b \in 1..size /\ j \in 1..size /\ a # j
    BY <1>2, <1>7
  <2>2. K(b) # K(j) /\ K(b) \in Int /\ K(j) \in Int /\ K(a) \in Int
    BY <1>3, <1>7, <2>1
  <2>3. QED BY <1>7, <2>2
<1>9. \A x \in C : x # b => x = j
  BY <1>2, <1>7
<1>10. \A x \in {a} \union (C \ {b}) : K(b) > K(x)
  BY <1>6, <1>8, <1>9
<1>11. QED BY <1>5, <1>7, <1>10

LEMMA NobodyAhead ==
  ASSUME Shape, Numbered, Apart(now), NEW a \in 1..size, Ahead(a) = {}
  PROVE  \A j \in Children(a) : Behind(j, a)
BY NobodyAbove DEF Numbered

LEMMA WholeBuildH == Shape /\ Whole /\ BuildH => Whole'
<1> SUFFICES ASSUME Shape, Whole, BuildH PROVE Whole'
  OBVIOUS
<1> DEFINE a == task.at
           i == task.i
           K(x) == Key(H[x])
<1>1. task.op = "build" /\ i > 0 /\ UNCHANGED << now, line, size, h, m, sift, todo >>
  BY DEF BuildH, queue
<1>2. /\ h = << >> /\ DOMAIN m = {} /\ todo = << >> /\ size = Len(H) /\ size \in Nat
      /\ Distinct(now) /\ Apart(now) /\ Numbered /\ BuildOrder
      /\ \A j \in 1..size : K(j) \in Int
  BY <1>1, BuildStage
<1>3. i \in 1..size /\ a \in i..size /\ HOK
  BY <1>1, <1>2 DEF Shape, TaskOK
<1>4. \A j \in 2..size :
        /\ j \div 2 >= i /\ j \div 2 # a => K(j) < K(j \div 2)
        /\ j \div 2 = a /\ a \div 2 >= i /\ a \div 2 >= 1 => K(j) < K(a \div 2)
  BY <1>1, <1>2 DEF BuildOrder, Behind
<1>5. Filed' /\ Sifting' /\ OneByOne' /\ UpToDate'
  <2>1. Filed' /\ Sifting'
    BY <1>1 DEF Whole, Filed, Sifting
  <2>2. DOMAIN m' = {}
    BY <1>1, <1>2
  <2>3. QED BY <2>1, <2>2 DEF OneByOne, UpToDate
<1>6. ASSUME task'.op = "build", Numbered', BuildOrder' PROVE Whole'
  <2>1. Moving'
    BY <1>1, <1>6, MovingKept DEF Whole
  <2>2. InOrder'
    BY <1>6 DEF InOrder, InsertOrder, AdvanceOrder, RestOrder
  <2>3. Calling'
    <3>1. Len(todo') = 0
      BY <1>1, <1>2
    <3>2. QED BY <1>1, <1>2, <1>6, <3>1 DEF Calling
  <2>4. QED BY <1>5, <1>6, <2>1, <2>2, <2>3 DEF Whole
<1>7. CASE \E j \in Ahead(a) : Swap(a, j) /\ task' = [op |-> "build", i |-> i, at |-> j]
  <2>1. PICK j \in Ahead(a) : Swap(a, j) /\ task' = [op |-> "build", i |-> i, at |-> j]
    BY <1>7
  <2>2. /\ j \in 2..size /\ j \in {2 * a, 2 * a + 1} /\ K(j) > K(a)
        /\ \A b \in {2 * a, 2 * a + 1} : b <= size /\ b # j => K(j) > K(b)
    <3>1. j \in Children(a) /\ \A b \in {a} \union (Children(a) \ {j}) : K(j) > K(b)
      BY DEF Ahead
    <3>2. size \in Nat /\ a \in Nat /\ a >= 1
      BY <1>2, <1>3
    <3>3. j \in {2 * a, 2 * a + 1} /\ j <= size
      BY <3>1 DEF Children
    <3>4. j \in 2..size
      BY <3>2, <3>3
    <3>5. ASSUME NEW b \in {2 * a, 2 * a + 1}, b <= size, b # j PROVE K(j) > K(b)
      <4>1. b \in Children(a) \ {j}
        BY <3>5 DEF Children
      <4>2. QED BY <3>1, <4>1
    <3>6. K(j) > K(a)
      BY <3>1
    <3>7. QED BY <3>3, <3>4, <3>5, <3>6
  <2>3. j \div 2 = a /\ a \in 1..size /\ j \in 1..size /\ a # j /\ a < j
    <3>1. j \in Nat /\ a \in Nat
      BY <1>3, <2>2
    <3>2. j \div 2 = a
      BY <2>2, <3>1, ChildOf
    <3>3. QED BY <1>3, <2>2, <3>2
  <2>4. /\ Numbered' /\ H'[a] = H[j] /\ H'[j] = H[a]
        /\ \A k \in 1..size : k # a /\ k # j => H'[k] = H[k]
    BY <1>1, <1>2, <1>3, <2>1, <2>3, Exchange
  <2>5. task'.op = "build" /\ task'.i = i /\ task'.at = j
    BY <2>1
  <2> DEFINE L(x) == line'[H'[x]].x + line'[H'[x]].v * now'
  <2>6. L(a) = K(j) /\ L(j) = K(a) /\ \A k \in 1..size : k # a /\ k # j => L(k) = K(k)
    BY <1>1, <2>4 DEF Key, K
  <2> HIDE DEF a, i, K, L
  <2>7. ASSUME NEW e \in 2..size, e \div 2 >= i, e \div 2 # j PROVE L(e) < L(e \div 2)
    <3>1. e \in 1..size /\ e \div 2 \in 1..size /\ e # e \div 2
      BY <1>2
    <3>2. CASE e \div 2 = a /\ e = j
      BY <2>2, <2>6, <3>2
    <3>3. CASE e \div 2 = a /\ e # j
      <4>1. e \in {2 * a, 2 * a + 1} /\ e # a /\ e <= size
        BY <1>3, <3>1, <3>3, ChildOf
      <4>2. K(j) > K(e)
        BY <2>2, <3>3, <4>1
      <4>3. L(e) = K(e) /\ L(e \div 2) = K(j) /\ K(e) \in Int /\ K(j) \in Int
        BY <1>2, <2>3, <2>6, <3>1, <3>3, <4>1
      <4>4. QED BY <4>2, <4>3
    <3>4. CASE e = a
      <4>1. a \div 2 >= i /\ a \div 2 >= 1 /\ e \div 2 # a
        BY <2>7, <3>1, <3>4
      <4>2. K(j) < K(a \div 2)
        BY <1>4, <2>2, <2>3, <4>1
      <4>3. L(e) = K(j) /\ L(e \div 2) = K(e \div 2)
        BY <2>6, <2>7, <3>1, <3>4, <4>1
      <4>4. QED BY <3>4, <4>2, <4>3
    <3>5. CASE e # a /\ e \div 2 # a
      <4>1. e # j
        BY <2>3, <3>5
      <4>2. L(e) = K(e) /\ L(e \div 2) = K(e \div 2)
        BY <2>6, <2>7, <3>1, <3>5, <4>1
      <4>3. QED BY <1>4, <2>7, <3>5, <4>2
    <3>6. QED BY <3>2, <3>3, <3>4, <3>5
  <2>8. ASSUME NEW e \in 2..size, e \div 2 = j PROVE L(e) < L(j \div 2)
    <3>1. e \in 1..size /\ e # j /\ e # a
      BY <1>2, <2>3, <2>8
    <3>2. e \div 2 >= i /\ e \div 2 # a
      BY <1>3, <2>3, <2>8
    <3>3. K(e) < K(j)
      BY <1>4, <2>8, <3>2
    <3>4. QED BY <2>3, <2>6, <3>1, <3>3
  <2>9. BuildOrder'
    <3>1. size' = size
      BY <1>1
    <3>2. QED BY <2>5, <2>7, <2>8, <3>1 DEF BuildOrder, Behind, Key, L
  <2>10. QED BY <1>6, <2>4, <2>5, <2>9
<1>8. CASE Ahead(a) = {} /\ task' = [op |-> "build", i |-> i - 1, at |-> i - 1] /\ UNCHANGED << H, index >>
  <2>1. task'.op = "build" /\ task'.i = i - 1 /\ task'.at = i - 1
    BY <1>8
  <2>2. \A j \in Children(a) : K(j) < K(a)
    <3>1. a \in 1..size /\ Ahead(a) = {}
      BY <1>3, <1>8
    <3> HIDE DEF a
    <3>2. \A j \in Children(a) : Behind(j, a)
      BY <1>2, <3>1, NobodyAhead
    <3>3. QED BY <3>2 DEF Behind
  <2>3. Numbered'
    BY <1>1, <1>2, <1>8 DEF Numbered
  <2> HIDE DEF a, i, K
  <2>4. ASSUME NEW e \in 2..size, e \div 2 >= i - 1, e \div 2 # i - 1 PROVE K(e) < K(e \div 2)
    <3>1. e \div 2 >= i
      BY <1>3, <2>4
    <3>2. CASE e \div 2 = a
      <4>1. e \in Children(a)
        <5>1. e \in {2 * a, 2 * a + 1}
          BY <1>2, <1>3, <3>2, ChildOf
        <5>2. QED BY <5>1 DEF Children
      <4>2. QED BY <2>2, <3>2, <4>1
    <3>3. CASE e \div 2 # a
      BY <1>4, <3>1, <3>3
    <3>4. QED BY <3>2, <3>3
  <2>5. ~ ((i - 1) \div 2 >= i - 1 /\ (i - 1) \div 2 >= 1)
    BY <1>3
  <2>6. BuildOrder'
    <3>1. size' = size /\ \A x : Key(H[x])' = K(x)
      BY <1>1, <1>8 DEF Key, K
    <3>2. QED BY <2>1, <2>4, <2>5, <3>1 DEF BuildOrder, Behind
  <2>7. QED BY <1>6, <2>1, <2>3, <2>6
<1>9. QED BY <1>7, <1>8 DEF BuildH

LEMMA WholeBuildQ == Shape /\ Whole /\ BuildQ => Whole'
<1> SUFFICES ASSUME Shape, Whole, BuildQ PROVE Whole'
  OBVIOUS
<1>1. /\ task.op = "build" /\ task.i = 0 /\ task'.op = "certify"
      /\ todo' = [k \in 1..(size - 1) |-> [i |-> k + 1, rule |-> "new"]]
      /\ UNCHANGED << now, line, index, H, size, h, m, sift >>
  BY DEF BuildQ, elements, queue
<1>2. /\ h = << >> /\ DOMAIN m = {} /\ todo = << >> /\ size = Len(H) /\ size \in Nat /\ size >= 2
      /\ Numbered /\ BuildOrder /\ task.at = 0
  BY <1>1, BuildStage DEF Shape, HOK, TaskOK
<1>3. Moving'
  BY <1>1, MovingKept DEF Whole
<1>4. Numbered'
  BY <1>1, <1>2 DEF Numbered
<1>5. InOrder'
  <2>1. ASSUME NEW j \in 2..size PROVE Behind(j, j \div 2)
    <3>1. j \div 2 >= 0 /\ j \div 2 # 0
      BY <1>2
    <3>2. QED BY <1>1, <1>2, <3>1 DEF BuildOrder
  <2>2. RestOrder'
    BY <1>1, <2>1 DEF RestOrder, Behind, Key
  <2>3. QED BY <1>1, <2>2 DEF InOrder, BuildOrder, InsertOrder, AdvanceOrder
<1>6. Filed' /\ Sifting' /\ OneByOne' /\ UpToDate'
  <2>1. Filed' /\ Sifting'
    BY <1>1 DEF Whole, Filed, Sifting
  <2>2. DOMAIN m' = {}
    BY <1>1, <1>2
  <2>3. QED BY <2>1, <2>2 DEF OneByOne, UpToDate
<1>7. Calling'
  <2> DEFINE s == size - 1
             l == Len(todo')
             n == Len(h)
  <2>1. s \in Nat /\ todo' = [k \in 1..s |-> [i |-> k + 1, rule |-> "new"]]
    BY <1>1, <1>2
  <2>2. l = s /\ n = 0
    <3>1. todo' \in [1..s -> [i : Int, rule : {"new"}]]
      BY <2>1
    <3> HIDE DEF s
    <3>2. Len(todo') = s
      BY <2>1, <3>1, FunctionIsSeq
    <3>3. QED BY <1>2, <3>2
  <2>3. Len(h') = n
    BY <1>1
  <2> HIDE DEF l, n
  <2>4. ASSUME NEW k \in 1..l
        PROVE  /\ todo'[k].i = k + 1 /\ todo'[k].rule = "new" /\ k + 1 \in 2..size /\ n + 1 + k = k + 1 /\ n + l = size - 1
    <3>1. k \in Nat /\ k \in 1..s /\ size \in Nat
      BY <1>2, <2>1, <2>2
    <3>2. todo'[k].i = k + 1 /\ todo'[k].rule = "new"
      BY <2>1, <3>1
    <3>3. k + 1 \in 2..size /\ s = size - 1
      BY <3>1
    <3>4. n + 1 + k = k + 1 /\ n + l = size - 1
      BY <2>2, <3>1
    <3>5. QED BY <3>2, <3>3, <3>4
  <2>5. QED BY <1>1, <2>3, <2>4 DEF Calling, IsNew, l
<1>8. QED BY <1>3, <1>4, <1>5, <1>6, <1>7 DEF Whole

-----------------------------------------------------------------------------
\* The end of a command.

LEMMA NothingWaits ==
  ASSUME todo = << >>
  PROVE  Waiting = {} /\ Calls(todo) = {} /\ 1..Len(todo) = {}
<1> DEFINE n == Len(todo)
<1>1. n = 0
  OBVIOUS
<1> HIDE DEF n
<1>2. 1..n = {}
  BY <1>1
<1>3. Calls(todo) = {}
  BY <1>2, Zenon DEF Calls, n
<1>4. QED BY <1>2, <1>3 DEF Waiting, n

LEMMA WholeReturn ==
  ASSUME Shape, Whole, Idle, task.op # "build", Return, UNCHANGED << line, index, H, size >>,
         Distinct(now)', Apart(now)', \A j \in 2..size : Behind(j, j \div 2)',
         \A i \in DOMAIN m : Expiry(i) = Failure_Time(i)'
  PROVE  Whole'
<1>1. /\ task'.op = "ready" /\ sift'.at = 0 /\ h' = h /\ m' = m /\ todo' = << >> /\ todo = << >> /\ Settled
  BY DEF Return, Ready, Still, Idle
<1>2. Waiting' = {} /\ Waiting = {}
  <2>1. Waiting = {}
    BY <1>1, NothingWaits
  <2>2. Waiting' = Waiting
    BY <1>1 DEF Waiting, Calls
  <2>3. QED BY <2>1, <2>2
<1>3. Moving' /\ InOrder'
  <2>1. Moving'
    BY <1>1 DEF Moving
  <2>2. InOrder'
    BY <1>1 DEF InOrder, BuildOrder, InsertOrder, AdvanceOrder, RestOrder
  <2>3. QED BY <2>1, <2>2
<1>4. Numbered'
  BY DEF Whole, Numbered
<1>5. Filed'
  BY <1>1 DEF Whole, Filed
<1>6. Sifting'
  <2>1. \A j \in 2..Len(h) : h[j \div 2].t <= h[j].t
    BY <1>1, SettledOrder DEF Whole
  <2>2. \A j \in 2..Len(h) : j \div 2 # 0
    <3>1. Len(h) \in Nat
      BY DEF Shape, QOK
    <3>2. QED BY <3>1
  <2>3. QED BY <1>1, <2>1, <2>2 DEF Sifting
<1>7. OneByOne'
  BY <1>1, <1>2, Zenon DEF Whole, OneByOne, Expiry
<1>8. UpToDate'
  <2>1. \A i : Expiry(i)' = Expiry(i)
    BY <1>1 DEF Expiry
  <2>2. \A i : Due(i)' = Failure_Time(i)'
    BY <1>1 DEF Due
  <2>3. QED BY <1>1, <1>2, <2>1, <2>2 DEF UpToDate
<1>9. Calling'
  <2>1. 1..Len(todo') = {}
    BY <1>1
  <2>2. QED BY <1>1, <2>1 DEF Calling
<1>10. QED BY <1>3, <1>4, <1>5, <1>6, <1>7, <1>8, <1>9 DEF Whole

LEMMA WholeFinish == Shape /\ Whole /\ Finish => Whole'
<1> SUFFICES ASSUME Shape, Whole, Finish PROVE Whole'
  OBVIOUS
<1>1. /\ task.op = "certify" /\ Idle /\ Return /\ UNCHANGED << now, line, index, H, size >>
  BY DEF Finish, elements
<1>2. Distinct(now)' /\ Apart(now)'
  BY <1>1 DEF Whole, Moving, Distinct, Apart, Meeting, Meet, Place
<1>3. \A j \in 2..size : Behind(j, j \div 2)'
  BY <1>1 DEF Whole, InOrder, RestOrder, Behind, Key
<1>4. \A i \in DOMAIN m : Expiry(i) = Failure_Time(i)'
  <2>1. Waiting = {}
    BY <1>1, NothingWaits DEF Idle
  <2>2. \A i \in DOMAIN m : Expiry(i) = Failure_Time(i)
    BY <1>1, <2>1 DEF Whole, UpToDate, Due
  <2>3. QED BY <1>1, <2>2, TimesKept
<1>5. QED BY <1>1, <1>2, <1>3, <1>4, WholeReturn

-----------------------------------------------------------------------------
\* Advance.

LEMMA WholeAdvance == Shape /\ Whole /\ Intact /\ Advance => Whole'
<1> SUFFICES ASSUME Shape, Whole, Intact, Advance PROVE Whole'
  OBVIOUS
<1>1. /\ task.op = "ready" /\ UNCHANGED << now, line, index, H, size, h, m, sift, todo >>
  BY DEF Advance, May, Ready, elements, queue
<1>2. PICK t \in now..MaxTime : General(line, present, t) /\ task' = [op |-> "advance", to |-> t]
  BY DEF Advance
<1>3. now \in Int /\ t \in Int /\ t >= now /\ LineOK
  BY BoundsOK DEF Shape, ClockOK
<1>4. Apart(t)
  <2>1. General(line, 1..Len(line), t)
    BY <1>2 DEF Intact
  <2>2. QED BY <1>3, <2>1, GeneralNow
<1>5. task'.op = "advance" /\ task'.to = t
  BY <1>2
<1>6. Moving'
  <2>1. Distinct(now)' /\ Apart(t)'
    BY <1>1, <1>4 DEF Whole, Moving, Distinct, Apart, Meeting, Meet, Place
  <2>2. now' <= t
    BY <1>1, <1>3
  <2>3. Apart(task.to)'
    BY <1>5, <2>1 DEF Apart, Place
  <2>4. QED BY <1>3, <1>5, <1>1, <2>1, <2>2, <2>3 DEF Moving
<1>7. InOrder'
  <2>1. ASSUME NEW j \in 2..size PROVE Under(line[H[j]], line[H[j \div 2]], now)
    <3>1. Behind(j, j \div 2)
      BY <1>1 DEF Whole, InOrder, RestOrder
    <3>2. Place(line[H[j]], now) < Place(line[H[j \div 2]], now)
      BY <3>1 DEF Behind, Key, Place
    <3>3. QED BY <3>2, StrictlyUnder
  <2>2. AdvanceOrder'
    BY <1>1, <2>1 DEF AdvanceOrder, Under, Place
  <2>3. QED BY <1>5, <2>2 DEF InOrder, BuildOrder, InsertOrder, RestOrder
<1>8. Numbered' /\ Filed' /\ Sifting'
  BY <1>1 DEF Whole, Numbered, Filed, Sifting
<1>9. OneByOne' /\ UpToDate'
  <2>1. Waiting' = Waiting /\ \A i : Expiry(i)' = Expiry(i) /\ Failure_Time(i)' = Failure_Time(i)
    BY <1>1, TimesKept DEF Expiry, Waiting, Calls
  <2>2. \A i : Due(i)' = Failure_Time(i) /\ Due(i) = Failure_Time(i)
    BY <1>1, <1>5, <2>1 DEF Due
  <2>3. OneByOne /\ UpToDate /\ DOMAIN m' = DOMAIN m
    BY <1>1 DEF Whole
  <2>4. OneByOne'
    BY <2>1, <2>3 DEF OneByOne
  <2>5. UpToDate'
    BY <2>1, <2>2, <2>3 DEF UpToDate
  <2>6. QED BY <2>4, <2>5
<1>10. Calling'
  <2>1. 1..Len(todo') = {}
    BY <1>1, NothingWaits DEF Shape, TaskOK
  <2>2. QED BY <1>5, <2>1 DEF Calling
<1>11. QED BY <1>6, <1>7, <1>8, <1>9, <1>10 DEF Whole

\* Between two calls every certificate but that of a new element is the one of its position.
LEMMA AllUpToDate ==
  ASSUME Shape, Whole, Idle, task.op # "build"
  PROVE  /\ DOMAIN m = 2..size /\ Len(H) = size /\ size \in Nat /\ size >= 2
         /\ h[1].id \in 2..size /\ h[1].t = Expiry(h[1].id) /\ h[1].t \in Nat
         /\ \A i \in 2..size : h[1].t <= Expiry(i) /\ Expiry(i) = Due(i) /\ Expiry(i) <= INFTY
         /\ \A i, k \in 2..size : i # k /\ Expiry(i) = Expiry(k) => Expiry(i) = INFTY
<1>1. /\ DOMAIN m = 2..Len(H) /\ Len(H) \in Nat /\ Len(H) >= 2
      /\ Len(h) \in Nat /\ Len(h) >= 1 /\ h[1].id \in 2..Len(H) /\ h[1].t \in Nat
  BY RootOfQ DEF Idle
<1>2. Len(H) = size
  BY DEF Whole, Numbered
<1>3. Waiting = {}
  BY NothingWaits DEF Idle
<1>4. \A i \in DOMAIN m : h[1].t <= Expiry(i)
  BY FirstOfAll DEF Whole, Idle
<1>5. h[1].t = Expiry(h[1].id)
  <2>1. 1 \in 1..Len(h)
    BY <1>1
  <2>2. m[h[1].id] = 1
    BY <2>1 DEF Whole, Filed
  <2>3. QED BY <2>2 DEF Expiry
<1>6. (\A i \in DOMAIN m : Expiry(i) = Due(i)) /\ OneByOne
  BY <1>3 DEF Whole, UpToDate
<1>7. QED BY <1>1, <1>2, <1>4, <1>5, <1>6 DEF OneByOne

-----------------------------------------------------------------------------
\* An event.

LEMMA TouchedAre ==
  ASSUME size \in Nat, NEW i \in 2..size
  PROVE  /\ Touched(i) \subseteq 2..size
         /\ \A j \in 2..size : j \in Touched(i) <=> (j = i \/ j = i \div 2 \/ j \div 2 = i \/ j \div 2 = i \div 2)
<1>1. Sibling(i) = IF i % 2 = 1 THEN i - 1 ELSE IF i + 1 <= size THEN i + 1 ELSE 0
  BY DEF Sibling
<1>2. ASSUME NEW j \in 2..size PROVE j = Sibling(i) <=> j \div 2 = i \div 2 /\ j # i
  <2>1. CASE i % 2 = 1
    BY <1>1, <2>1
  <2>2. CASE i % 2 # 1
    BY <1>1, <2>2
  <2>3. QED BY <2>1, <2>2
<1>3. ASSUME NEW j \in 2..size PROVE j \in {2 * i, 2 * i + 1} \cap 1..size <=> j \div 2 = i
  BY ChildOf
<1>4. Sibling(i) >= 2 => Sibling(i) \in 2..size
  BY <1>1
<1>5. Touched(i) \subseteq 2..size
  BY <1>4 DEF Touched
<1>6. ASSUME NEW j \in 2..size
      PROVE  j \in Touched(i) <=> j = i \/ j = i \div 2 \/ j = Sibling(i) \/ j \in {2 * i, 2 * i + 1} \cap 1..size
  BY DEF Touched
<1>7. QED BY <1>2, <1>3, <1>5, <1>6

\* The places where the elements of an edge were before the exchange are no other edge.
LEMMA OtherEdge ==
  ASSUME NEW e \in Nat, e >= 2, NEW i \in Nat, i >= 2, NEW k \in Nat, k >= 2,
         NEW x \in Nat, x = (IF k = e THEN e \div 2 ELSE IF k = e \div 2 THEN e ELSE k),
         NEW y \in Nat, y = (IF k \div 2 = e THEN e \div 2 ELSE IF k \div 2 = e \div 2 THEN e ELSE k \div 2),
         (x = i /\ y = i \div 2) \/ (x = i \div 2 /\ y = i)
  PROVE  i = k
<1>1. CASE k = e
  BY <1>1
<1>2. CASE k = e \div 2
  BY <1>2
<1>3. CASE k \div 2 = e
  BY <1>3
<1>4. CASE k \div 2 = e \div 2 /\ k # e
  BY <1>4
<1>5. CASE k # e /\ k # e \div 2 /\ k \div 2 # e /\ k \div 2 # e \div 2
  BY <1>5
<1>6. QED BY <1>1, <1>2, <1>3, <1>4, <1>5

\* A certificate of before an event is about other elements than those that the event
\* makes for other positions.
LEMMA EventMeetings ==
  ASSUME Shape, Numbered, Distinct(now), NEW e \in 2..size, Event(e), now' \in Int, now' >= now,
         NEW i \in 2..size, NEW k \in 2..size, i # k, Failure_Time(i) = Failure_Time(k)'
  PROVE  Failure_Time(i) = INFTY
<1> SUFFICES ASSUME Failure_Time(i) # INFTY PROVE FALSE
  OBVIOUS
<1>1. /\ now \in Int /\ size \in Nat /\ size = Len(line) /\ H \in Seq(1..Len(line)) /\ Len(H) = size
      /\ \A j \in 1..size : index[H[j]] = j
  BY BoundsOK DEF Shape, ClockOK, HOK, Numbered
<1>0. PICK x, y : /\ x = IF k = e THEN e \div 2 ELSE IF k = e \div 2 THEN e ELSE k
                  /\ y = IF k \div 2 = e THEN e \div 2 ELSE IF k \div 2 = e \div 2 THEN e ELSE k \div 2
  OBVIOUS
<1>2. /\ i \in 1..size /\ i \div 2 \in 1..size /\ k \in 1..size /\ k \div 2 \in 1..size
      /\ e \in 1..size /\ e \div 2 \in 1..size /\ x \in 1..size /\ y \in 1..size /\ x # y
      /\ i # i \div 2 /\ k # k \div 2
  BY <1>0, <1>1
<1>3. H'[k] = H[x] /\ H'[k \div 2] = H[y]
  <2>1. /\ H'[e] = H[e \div 2] /\ H'[e \div 2] = H[e]
        /\ \A j \in 1..size : j # e /\ j # e \div 2 => H'[j] = H[j]
    <3>1. HOK /\ Swap(e, e \div 2) /\ UNCHANGED << line, size >>
      BY DEF Shape, Event
    <3>2. QED BY <1>2, <3>1, Exchange
  <2>2. QED BY <1>0, <1>2, <2>1
<1>4. Fail(line[H[i]], line[H[i \div 2]], now) = Fail(line[H[x]], line[H[y]], now')
  <2>1. Failure_Time(k)' = Fail(line'[H'[k]], line'[H'[k \div 2]], now')
    BY DEF Failure_Time, Fail, Meet
  <2>2. line' = line
    BY DEF Event
  <2>3. QED BY <1>3, <2>1, <2>2, FailureTime
<1>5. /\ index[H[i]] = i /\ index[H[i \div 2]] = i \div 2 /\ index[H[x]] = x /\ index[H[y]] = y
      /\ H[i] \in 1..size /\ H[i \div 2] \in 1..size /\ H[x] \in 1..size /\ H[y] \in 1..size
  <2>1. \A j \in 1..size : H[j] \in 1..size
    BY <1>1
  <2>2. \A j \in 1..size : index[H[j]] = j
    BY <1>1
  <2> HIDE <1>1
  <2>3. QED BY <1>2, <2>1, <2>2
<1>6. H[i] # H[i \div 2] /\ H[x] # H[y]
  BY <1>2, <1>5
<1>7. Fail(line[H[i]], line[H[i \div 2]], now) # INFTY
  BY FailureTime
<1>8. (H[i] = H[x] /\ H[i \div 2] = H[y]) \/ (H[i] = H[y] /\ H[i \div 2] = H[x])
  <2>1. LineOK /\ size = Len(line) /\ now \in Int
    BY <1>1 DEF Shape
  <2>2. /\ H[i] \in 1..Len(line) /\ H[i \div 2] \in 1..Len(line)
        /\ H[x] \in 1..Len(line) /\ H[y] \in 1..Len(line)
    BY <1>5, <2>1
  <2>3. now >= now /\ now' >= now /\ now' \in Int /\ Distinct(now)
    BY <2>1
  <2> DEFINE a == H[i]
             b == H[i \div 2]
             c == H[x]
             d == H[y]
  <2>4. /\ a \in 1..Len(line) /\ b \in 1..Len(line) /\ c \in 1..Len(line) /\ d \in 1..Len(line) /\ a # b /\ c # d
        /\ Fail(line[a], line[b], now) = Fail(line[c], line[d], now') /\ Fail(line[a], line[b], now) # INFTY
    BY <1>4, <1>6, <1>7, <2>2
  <2> HIDE DEF a, b, c, d
  <2>5. (a = c /\ b = d) \/ (a = d /\ b = c)
    BY <2>1, <2>3, <2>4, SameMoment
  <2>6. QED BY <2>5 DEF a, b, c, d
<1>9. (x = i /\ y = i \div 2) \/ (x = i \div 2 /\ y = i)
  BY <1>5, <1>8
<1>10. e \in Nat /\ e >= 2 /\ i \in Nat /\ i >= 2 /\ k \in Nat /\ k >= 2 /\ x \in Nat /\ y \in Nat
  <2>1. size \in Nat
    BY <1>1
  <2>2. x \in Nat /\ y \in Nat
    BY <1>2, <2>1
  <2>3. QED BY <2>1, <2>2
<1>11. i = k
  BY <1>0, <1>9, <1>10, OtherEdge
<1>12. QED BY <1>11

LEMMA EventMoves ==
  ASSUME Shape, Numbered, NEW e \in 2..size, Event(e)
  PROVE  /\ Numbered' /\ line' = line /\ size' = size
         /\ H'[e] = H[e \div 2] /\ H'[e \div 2] = H[e]
         /\ \A k \in 1..size : k # e /\ k # e \div 2 => H'[k] = H[k]
         /\ index'[H[e]] = e \div 2 /\ index'[H[e \div 2]] = e
         /\ \A k \in 2..size : k \notin Touched(e) => H'[k] = H[k] /\ H'[k \div 2] = H[k \div 2]
<1>1. HOK /\ Swap(e, e \div 2) /\ UNCHANGED << line, size >> /\ size \in Nat
  BY DEF Shape, HOK, Event
<1>2. e \in 1..size /\ e \div 2 \in 1..size
  BY <1>1
<1>3. /\ Numbered' /\ H'[e] = H[e \div 2] /\ H'[e \div 2] = H[e]
      /\ \A k \in 1..size : k # e /\ k # e \div 2 => H'[k] = H[k]
      /\ index'[H[e]] = e \div 2 /\ index'[H[e \div 2]] = e
  BY <1>1, <1>2, Exchange
<1>4. ASSUME NEW k \in 2..size, k \notin Touched(e) PROVE H'[k] = H[k] /\ H'[k \div 2] = H[k \div 2]
  <2>1. k # e /\ k # e \div 2 /\ k \div 2 # e /\ k \div 2 # e \div 2
    BY <1>1, <1>4, TouchedAre
  <2>2. k \in 1..size /\ k \div 2 \in 1..size
    BY <1>1
  <2>3. QED BY <1>3, <2>1, <2>2
<1>5. QED BY <1>1, <1>3, <1>4

\* What an event has to do again.
LEMMA EventCalls ==
  ASSUME Shape, NEW e \in 2..size
  PROVE  /\ Affected(e) \in Seq(Call(Len(H))) /\ Len(Affected(e)) \in Nat
         /\ \A k \in 1..Len(Affected(e)) : Affected(e)[k].i \in Touched(e) /\ Affected(e)[k].rule = "next"
         /\ \A j \in Touched(e) : \E k \in 1..Len(Affected(e)) : Affected(e)[k].i = j
<1>1. Len(H) \in Nat /\ e \in 2..Len(H) /\ size \in 0..Len(H)
  BY DEF Shape, HOK
<1>2. /\ Affected(e) \in Seq(Call(Len(H)))
      /\ Calls(Affected(e)) = {[i |-> j, rule |-> "next"] : j \in Touched(e)}
  BY <1>1, CallsOfEvent
<1> DEFINE s == Affected(e)
<1>3. Calls(s) = {s[k] : k \in 1..Len(s)}
  BY DEF Calls
<1>4. Len(s) \in Nat
  BY <1>2
<1> HIDE DEF s
<1>5. ASSUME NEW k \in 1..Len(s) PROVE s[k].i \in Touched(e) /\ s[k].rule = "next"
  <2>1. s[k] \in {[i |-> j, rule |-> "next"] : j \in Touched(e)}
    BY <1>2, <1>3 DEF s
  <2>2. PICK j \in Touched(e) : s[k] = [i |-> j, rule |-> "next"]
    BY <2>1
  <2>3. QED BY <2>2
<1>6. ASSUME NEW j \in Touched(e) PROVE \E k \in 1..Len(s) : s[k].i = j
  <2>1. [i |-> j, rule |-> "next"] \in Calls(s)
    BY <1>2 DEF s
  <2>2. PICK k \in 1..Len(s) : s[k] = [i |-> j, rule |-> "next"]
    BY <1>3, <2>1
  <2>3. s[k].i = j
    BY <2>2
  <2>4. QED BY <2>3
<1>7. QED BY <1>2, <1>4, <1>5, <1>6 DEF s

\* At an event of Advance the time comes to a meeting: the two are at one place, and of
\* everybody else each is behind its parent.
LEMMA EventPlaces ==
  ASSUME Shape, Whole, Idle, task.op = "advance", NEW e \in 2..size, e = h[1].id,
         NEW t, t = h[1].t, t <= task.to
  PROVE  /\ t \in Nat /\ t > now /\ t < INFTY
         /\ Place(line[H[e]], t) = Place(line[H[e \div 2]], t) /\ line[H[e]].v > line[H[e \div 2]].v
         /\ \A j \in 2..size : j # e => Place(line[H[j]], t) < Place(line[H[j \div 2]], t)
         /\ \A j \in 2..size : Expiry(j) = Failure_Time(j)
<1>1. /\ t \in Nat /\ size \in Nat /\ Numbered /\ Distinct(now) /\ now \in Int
      /\ t = Expiry(e)
      /\ \A i \in 2..size : t <= Expiry(i) /\ Expiry(i) = Due(i) /\ Expiry(i) <= INFTY
      /\ \A i, k \in 2..size : i # k /\ Expiry(i) = Expiry(k) => Expiry(i) = INFTY
  BY AllUpToDate, BoundsOK DEF Whole, Moving, Shape, ClockOK
<1>2. t < INFTY
  <2>1. task.to \in 0..MaxTime
    BY DEF Shape, TaskOK
  <2>2. QED BY <1>1, <2>1, BoundsOK
<1>3. \A j \in 2..size : Expiry(j) = Failure_Time(j)
  BY <1>1 DEF Due
<1>4. ASSUME NEW j \in 2..size
      PROVE  /\ line[H[j]] \in EvenLine /\ line[H[j \div 2]] \in EvenLine
             /\ Under(line[H[j]], line[H[j \div 2]], now)
             /\ Expiry(j) = Fail(line[H[j]], line[H[j \div 2]], now)
             /\ Expiry(j) \in Nat
  <2>1. Under(line[H[j]], line[H[j \div 2]], now)
    BY DEF Whole, InOrder, AdvanceOrder
  <2>2. line[H[j]] \in EvenLine /\ line[H[j \div 2]] \in EvenLine /\ Failure_Time(j) \in Nat
    BY <1>1, Bounded
  <2>3. QED BY <1>3, <2>1, <2>2, FailureTime
<1>5. /\ t > now /\ Place(line[H[e]], t) = Place(line[H[e \div 2]], t) /\ line[H[e]].v > line[H[e \div 2]].v
  <2> DEFINE u == line[H[e]]
             p == line[H[e \div 2]]
  <2>1. u \in EvenLine /\ p \in EvenLine /\ Under(u, p, now) /\ t = Fail(u, p, now) /\ t # INFTY
    BY <1>1, <1>2, <1>4, BoundsOK
  <2> HIDE DEF u, p
  <2>2. /\ Fail(u, p, now) = Meet(u, p) /\ Meet(u, p) > now /\ u.v > p.v
        /\ Place(u, Meet(u, p)) = Place(p, Meet(u, p))
    BY <1>1, <2>1, AtMeeting
  <2>3. QED BY <2>1, <2>2 DEF u, p
<1>6. ASSUME NEW j \in 2..size, j # e PROVE Place(line[H[j]], t) < Place(line[H[j \div 2]], t)
  <2> DEFINE u == line[H[j]]
             p == line[H[j \div 2]]
  <2>1. t < Expiry(j)
    <3>1. t # Expiry(j)
      BY <1>1, <1>2, <1>6, BoundsOK
    <3>2. QED BY <1>1, <1>4, <3>1
  <2>2. u \in EvenLine /\ p \in EvenLine /\ Under(u, p, now) /\ t < Fail(u, p, now)
    BY <1>4, <2>1
  <2> HIDE DEF u, p
  <2>3. t \in Int
    BY <1>1
  <2>4. Place(u, t) < Place(p, t)
    BY <1>1, <1>5, <2>2, <2>3, UnderUntil
  <2>5. QED BY <2>4 DEF u, p
<1>7. QED BY <1>1, <1>2, <1>3, <1>5, <1>6

LEMMA LaterNow ==
  ASSUME Shape, Numbered, Distinct(now)
  PROVE  \A i \in 2..size : Failure_Time(i) > now
BY Bounded

LEMMA LaterThen == (Shape /\ Numbered /\ Distinct(now))' => (\A i \in 2..size : Failure_Time(i) > now)'
<1>1. Shape /\ Numbered /\ Distinct(now) => \A i \in 2..size : Failure_Time(i) > now
  BY LaterNow
<1>2. QED BY <1>1, PTL

LEMMA EventCertificates ==
  ASSUME Shape, Whole, Idle, task.op # "build", NEW e \in 2..size, Event(e), UNCHANGED << h, m, sift >>,
         now' \in Int, now' >= now, Waiting' = Touched(e),
         \A i \in 2..size : Expiry(i) = Failure_Time(i) \/ (i = e /\ Expiry(i) = now'),
         \A i \in 2..size : Failure_Time(i)' > now',
         \A i \in 2..size : i \notin Touched(e) => Failure_Time(i)' = Failure_Time(i),
         task'.op = "insert" => index'[task'.id] \in Touched(e)
  PROVE  Filed' /\ Sifting' /\ OneByOne' /\ UpToDate'
<1>1. /\ DOMAIN m = 2..size /\ size \in Nat /\ Numbered /\ Distinct(now) /\ OneByOne
      /\ h' = h /\ m' = m /\ sift' = sift
  BY AllUpToDate DEF Whole, Moving
<1>2. Filed' /\ Sifting'
  BY <1>1 DEF Whole, Filed, Sifting
<1>3. \A i : Expiry(i)' = Expiry(i)
  BY <1>1 DEF Expiry
<1> DEFINE F(i) == Failure_Time(i)'
<1>4. ASSUME NEW i \in 2..size, NEW k \in 2..size, i # k, Expiry(i) = F(k) PROVE Expiry(i) = INFTY
  <2>1. CASE Expiry(i) = Failure_Time(i)
    <3>1. Failure_Time(i) = Failure_Time(k)'
      BY <1>4, <2>1
    <3>2. Failure_Time(i) = INFTY
      BY <1>1, <1>4, <3>1, EventMeetings
    <3>3. QED BY <2>1, <3>2
  <2>2. CASE Expiry(i) = now'
    <3>1. F(k) > now'
      OBVIOUS
    <3> HIDE DEF F
    <3>2. QED BY <1>4, <2>2, <3>1
  <2>3. QED BY <2>1, <2>2
<1>5. OneByOne'
  <2>1. Touched(e) \subseteq 2..size
    BY <1>1, TouchedAre
  <2>2. \A i \in 2..size : Expiry(i) <= INFTY
    BY <1>1 DEF OneByOne
  <2>3. \A i, k \in 2..size : i # k /\ Expiry(i) = Expiry(k) => Expiry(i) = INFTY
    BY <1>1, Zenon DEF OneByOne
  <2>4. \A i \in (2..size) \cap Touched(e), k \in Touched(e) : i # k /\ Expiry(i) = F(k) => Expiry(i) = INFTY
    BY <1>4, <2>1
  <2> HIDE DEF F
  <2>5. DOMAIN m' = 2..size
    BY <1>1
  <2>6. QED BY <1>3, <2>2, <2>3, <2>4, <2>5 DEF OneByOne, F
<1>6. UpToDate'
  <2>1. ASSUME NEW i \in 2..size, i \notin Touched(e) PROVE Expiry(i)' = Due(i)'
    <3>1. i # e
      BY <1>1, <2>1, TouchedAre
    <3>2. Expiry(i) = Failure_Time(i) /\ Failure_Time(i)' = Failure_Time(i)
      BY <2>1, <3>1
    <3>3. Due(i)' = Failure_Time(i)'
      BY <2>1 DEF Due
    <3>4. QED BY <1>3, <3>2, <3>3
  <2>2. DOMAIN m' = 2..size
    BY <1>1
  <2>3. QED BY <2>1, <2>2 DEF UpToDate
<1>7. QED BY <1>2, <1>5, <1>6

LEMMA AdvanceEvent ==
  ASSUME Shape, Shape', Whole, Idle, task.op = "advance", h[1].t <= task.to,
         now' = h[1].t, Event(h[1].id), todo' = Affected(h[1].id), UNCHANGED << h, m, sift, task >>
  PROVE  Whole'
<1>1. PICK e \in 2..size : e = h[1].id
  BY AllUpToDate
<1>2. PICK t : t = h[1].t
  OBVIOUS
<1>3. /\ t \in Nat /\ t > now /\ t < INFTY
      /\ Place(line[H[e]], t) = Place(line[H[e \div 2]], t) /\ line[H[e]].v > line[H[e \div 2]].v
      /\ \A j \in 2..size : j # e => Place(line[H[j]], t) < Place(line[H[j \div 2]], t)
      /\ \A j \in 2..size : Expiry(j) = Failure_Time(j)
  BY <1>1, <1>2, EventPlaces
<1>4. /\ Numbered' /\ line' = line /\ size' = size
      /\ H'[e] = H[e \div 2] /\ H'[e \div 2] = H[e]
      /\ \A k \in 1..size : k # e /\ k # e \div 2 => H'[k] = H[k]
      /\ \A k \in 2..size : k \notin Touched(e) => H'[k] = H[k] /\ H'[k \div 2] = H[k \div 2]
  BY <1>1, EventMoves DEF Whole
<1>5. now' = t /\ Event(e) /\ todo' = Affected(e) /\ now \in Int /\ size \in Nat
  BY <1>1, <1>2, BoundsOK DEF Shape, ClockOK, HOK
<1>6. Moving'
  <2>1. Distinct(t)
    BY <1>3, <1>5, DistinctLater DEF Shape, Whole, Moving
  <2>2. Distinct(now)'
    BY <1>4, <1>5, <2>1 DEF Distinct, Meeting, Meet
  <2>3. Apart(task.to)'
    BY <1>4 DEF Whole, Moving, Apart, Place
  <2>4. task'.to >= now'
    BY <1>2, <1>3, <1>5 DEF Shape, TaskOK
  <2>5. QED BY <2>2, <2>3, <2>4 DEF Moving
<1>7. ASSUME NEW j \in 2..size
      PROVE  Under(line[H'[j]], line[H'[j \div 2]], t)
  <2> DEFINE P(k) == Place(line[H[k]], t)
             Q(k) == Place(line[H'[k]], t)
  <2>1. /\ P(e) = P(e \div 2)
        /\ \A k \in 2..size : k # e => P(k) < P(k \div 2)
    BY <1>3
  <2>2. /\ Q(e) = P(e \div 2) /\ Q(e \div 2) = P(e)
        /\ \A k \in 1..size : k # e /\ k # e \div 2 => Q(k) = P(k)
    BY <1>4
  <2>3. j \in 1..size /\ j \div 2 \in 1..size /\ j # j \div 2 /\ e \in 1..size /\ e \div 2 \in 1..size /\ e # e \div 2
    BY <1>5
  <2>4. CASE j = e
    <3>1. line[H'[j]].v < line[H'[j \div 2]].v
      <4>1. line[H[e]] \in EvenLine /\ line[H[e \div 2]] \in EvenLine
        BY Bounded DEF Whole, Moving
      <4>2. line[H[e]].v \in Int /\ line[H[e \div 2]].v \in Int
        BY <4>1, SpeedsClose
      <4>3. QED BY <1>3, <1>4, <2>4, <4>2
    <3>2. Q(j) = Q(j \div 2)
      BY <2>1, <2>2, <2>4
    <3>3. QED BY <3>1, <3>2 DEF Under
  <2>5. CASE j # e
    <3> HIDE DEF P, Q
    <3>1. \A k \in 1..size : Q(k) = P(k)
      BY <2>1, <2>2
    <3>2. Q(j) < Q(j \div 2)
      BY <2>1, <2>3, <2>5, <3>1
    <3>3. QED BY <3>2 DEF Under, Q
  <2>6. QED BY <2>4, <2>5
<1>8. InOrder'
  <2>1. task'.op = "advance"
    OBVIOUS
  <2>2. AdvanceOrder'
    BY <1>4, <1>5, <1>7 DEF AdvanceOrder, Under, Place
  <2>3. QED BY <2>1, <2>2 DEF InOrder, BuildOrder, InsertOrder, RestOrder
<1>9. Waiting' = Touched(e) /\ Calling'
  <2>1. /\ Len(Affected(e)) \in Nat
        /\ \A k \in 1..Len(Affected(e)) : Affected(e)[k].i \in Touched(e) /\ Affected(e)[k].rule = "next"
        /\ \A j \in Touched(e) : \E k \in 1..Len(Affected(e)) : Affected(e)[k].i = j
    BY EventCalls DEF Whole
  <2>2. Touched(e) \subseteq 2..size
    BY <1>5, TouchedAre
  <2>3. Waiting' = Touched(e)
    <3>1. \A x : x \in Waiting' <=> \E k \in 1..Len(todo') : x = todo'[k].i
      BY DEF Waiting, Calls
    <3>2. \A x : x \in Waiting' <=> x \in Touched(e)
      BY <1>5, <2>1, <3>1
    <3>3. QED BY <3>2
  <2>4. Calling'
    BY <1>4, <1>5, <2>1, <2>2 DEF Calling, IsNew
  <2>5. QED BY <2>3, <2>4
<1>10. Filed' /\ Sifting' /\ OneByOne' /\ UpToDate'
  <2>1. ASSUME NEW i \in 2..size PROVE Failure_Time(i)' > now'
    BY <1>4, <1>6, LaterThen DEF Moving
  <2>2. ASSUME NEW i \in 2..size, i \notin Touched(e) PROVE Failure_Time(i)' = Failure_Time(i)
    <3>1. line[H[i]] \in EvenLine /\ line[H[i \div 2]] \in EvenLine
      BY Bounded DEF Whole, Moving
    <3>2. Under(line[H[i]], line[H[i \div 2]], now)
      BY DEF Whole, InOrder, AdvanceOrder
    <3>3. Under(line[H[i]], line[H[i \div 2]], t)
      BY <1>4, <1>7, <2>2
    <3>4. Fail(line[H[i]], line[H[i \div 2]], now) = Fail(line[H[i]], line[H[i \div 2]], t)
      BY <1>3, <1>5, <3>1, <3>2, <3>3, SameFail
    <3>5. Failure_Time(i)' = Fail(line'[H'[i]], line'[H'[i \div 2]], now')
      BY DEF Failure_Time, Fail, Meet
    <3>6. QED BY <1>4, <1>5, <2>2, <3>4, <3>5, FailureTime
  <2>3. now' \in Int /\ now' >= now
    BY <1>3, <1>5
  <2>4. QED BY <1>3, <1>5, <1>9, <2>1, <2>2, <2>3, EventCertificates
<1>11. QED BY <1>4, <1>6, <1>8, <1>9, <1>10 DEF Whole

\* When no certificate expires any more the time comes to where the user wants it.
LEMMA AdvanceEnds ==
  ASSUME Shape, Whole, Idle, task.op = "advance", ~ h[1].t <= task.to,
         now' = task.to, Return, UNCHANGED << line, index, H, size >>
  PROVE  Whole'
<1>1. PICK s : s = task.to
  OBVIOUS
<1>2. /\ s \in Int /\ now \in Int /\ s >= now /\ Apart(s) /\ Distinct(now) /\ Numbered /\ now' = s
  BY <1>1, BoundsOK DEF Shape, ClockOK, TaskOK, Whole, Moving
<1>3. /\ DOMAIN m = 2..size /\ size \in Nat /\ h[1].t \in Nat
      /\ \A i \in 2..size : h[1].t <= Expiry(i) /\ Expiry(i) = Due(i)
  BY AllUpToDate
<1>4. ASSUME NEW j \in 2..size
      PROVE  /\ Place(line[H[j]], s) < Place(line[H[j \div 2]], s)
             /\ Expiry(j) = Fail(line[H[j]], line[H[j \div 2]], s)
  <2> DEFINE u == line[H[j]]
             p == line[H[j \div 2]]
  <2>1. /\ u \in EvenLine /\ p \in EvenLine /\ Under(u, p, now) /\ Place(u, s) # Place(p, s)
        /\ Expiry(j) = Fail(u, p, now) /\ Expiry(j) \in Nat
    <3>1. Under(u, p, now)
      BY DEF Whole, InOrder, AdvanceOrder
    <3>2. /\ u \in EvenLine /\ p \in EvenLine /\ H[j] \in 1..Len(line) /\ H[j \div 2] \in 1..Len(line)
          /\ H[j] # H[j \div 2] /\ Failure_Time(j) \in Nat
      BY <1>2, Bounded
    <3>3. Place(u, s) # Place(p, s)
      BY <1>2, <3>2 DEF Apart
    <3>4. Expiry(j) = Failure_Time(j)
      BY <1>3 DEF Due
    <3>5. QED BY <3>1, <3>2, <3>3, <3>4, FailureTime
  <2>2. s < Fail(u, p, now)
    BY <1>1, <1>2, <1>3, <2>1
  <2> HIDE DEF u, p
  <2>3. Place(u, s) < Place(p, s)
    <3>1. CASE s = now
      <4>1. Place(u, s) \in Int /\ Place(p, s) \in Int
        BY <1>2, <2>1, PlaceInteger
      <4>2. QED BY <2>1, <3>1, <4>1 DEF Under
    <3>2. CASE s # now
      <4>1. now < s
        BY <1>2, <3>2
      <4>2. QED BY <1>2, <2>1, <2>2, <4>1, UnderUntil
    <3>3. QED BY <3>1, <3>2
  <2>4. Fail(u, p, now) = Fail(u, p, s)
    BY <1>2, <2>1, <2>3, StrictlyUnder, SameFail
  <2>5. QED BY <2>1, <2>3, <2>4 DEF u, p
<1>5. Distinct(now)' /\ Apart(now)'
  <2>1. Distinct(s)
    BY <1>2, DistinctLater DEF Shape
  <2>2. QED BY <1>2, <2>1 DEF Distinct, Apart, Meeting, Meet, Place
<1>6. \A j \in 2..size : Behind(j, j \div 2)'
  BY <1>2, <1>4 DEF Behind, Key, Place
<1>7. \A i \in DOMAIN m : Expiry(i) = Failure_Time(i)'
  <2>1. ASSUME NEW i \in 2..size PROVE Failure_Time(i)' = Fail(line[H[i]], line[H[i \div 2]], s)
    <3>1. Failure_Time(i)' = Fail(line'[H'[i]], line'[H'[i \div 2]], now')
      BY DEF Failure_Time, Fail, Meet
    <3>2. QED BY <1>2, <3>1
  <2>2. QED BY <1>3, <1>4, <2>1
<1>8. QED BY <1>5, <1>6, <1>7, WholeReturn

LEMMA WholeAdvanceLoop == Shape /\ Shape' /\ Whole /\ AdvanceLoop => Whole'
<1> SUFFICES ASSUME Shape, Shape', Whole, AdvanceLoop PROVE Whole'
  OBVIOUS
<1>1. task.op = "advance" /\ Idle
  BY DEF AdvanceLoop
<1>2. CASE h[1].t <= task.to
  <2>1. /\ now' = h[1].t /\ Event(h[1].id) /\ todo' = Affected(h[1].id)
        /\ UNCHANGED << h, m, sift, task >>
    BY <1>2 DEF AdvanceLoop, Q_Min, queue
  <2>2. QED BY <1>1, <1>2, <2>1, AdvanceEvent
<1>3. CASE ~ h[1].t <= task.to
  <2>1. now' = task.to /\ Return /\ UNCHANGED << line, index, H, size >>
    BY <1>3 DEF AdvanceLoop, Q_Min, elements
  <2>2. QED BY <1>1, <1>3, <2>1, AdvanceEnds
<1>4. QED BY <1>2, <1>3

-----------------------------------------------------------------------------
\* Insert.

\* Only the certificate of the new element can expire now.
LEMMA NewExpiry ==
  ASSUME Shape, Whole, Idle, task.op = "insert", NEW q, q = index[task.id]
  PROVE  /\ q \in 2..size /\ H[q] = task.id /\ size \in Nat /\ now \in Nat
         /\ \A i \in 2..size : Failure_Time(i) \in Nat /\ Failure_Time(i) > now
         /\ \A i \in 2..size : i # q => Expiry(i) = Failure_Time(i)
         /\ Expiry(q) = IF Key(H[q]) > Key(H[q \div 2]) THEN now ELSE Failure_Time(q)
         /\ \A i \in 1..size : Key(H[i]) \in Int
         /\ \A i, j \in 1..size : i # j => Key(H[i]) # Key(H[j])
         /\ \A j \in 2..size : j # q => Key(H[j]) < Key(H[j \div 2])
         /\ \A j \in 2..size : j \div 2 = q => Key(H[j]) < Key(H[q \div 2])
<1>1. /\ Numbered /\ Distinct(now) /\ Apart(now) /\ InsertOrder /\ size \in Nat /\ now \in Nat /\ size >= 2
      /\ task.id \in 1..Len(line) /\ index \in [1..Len(line) -> 1..Len(H)] /\ Len(H) = size
      /\ \A i \in 2..size : Expiry(i) = Due(i)
  BY AllUpToDate, BoundsOK DEF Whole, Moving, InOrder, Shape, ClockOK, HOK, TaskOK
<1>2. q \in 2..size /\ H[q] = task.id
  BY <1>1 DEF InsertOrder, Numbered
<1>3. \A i \in 2..size : Failure_Time(i) \in Nat /\ Failure_Time(i) > now
  BY <1>1, Bounded
<1>4. \A i \in 2..size : i # q => Expiry(i) = Failure_Time(i)
  BY <1>1 DEF Due
<1>5. Expiry(q) = IF Key(H[q]) > Key(H[q \div 2]) THEN now ELSE Failure_Time(q)
  BY <1>1, <1>2 DEF Due, Time
<1>6. \A i, j \in 1..size : i # j => Key(H[i]) # Key(H[j]) /\ Key(H[i]) \in Int
  BY <1>1, KeysDiffer
<1>7. \A i \in 1..size : Key(H[i]) \in Int
  <2>1. \A i \in 1..size : \E j \in 1..size : i # j
    BY <1>1
  <2>2. QED BY <1>6, <2>1
<1>8. \A j \in 2..size : j # q => Key(H[j]) < Key(H[j \div 2])
  BY <1>1 DEF InsertOrder, Behind
<1>9. \A j \in 2..size : j \div 2 = q => Key(H[j]) < Key(H[q \div 2])
  BY <1>1 DEF InsertOrder, Behind
<1>10. QED BY <1>1, <1>2, <1>3, <1>4, <1>5, <1>6, <1>7, <1>8, <1>9

LEMMA InsertEnds ==
  ASSUME Shape, Whole, Idle, task.op = "insert", h[1].t # now, Return, UNCHANGED << now, line, index, H, size >>
  PROVE  Whole'
<1> DEFINE K(i) == Key(H[i])
<1>1. PICK q : q = index[task.id]
  OBVIOUS
<1>2. /\ q \in 2..size /\ size \in Nat /\ now \in Nat
      /\ \A i \in 2..size : Failure_Time(i) \in Nat /\ Failure_Time(i) > now
      /\ \A i \in 2..size : i # q => Expiry(i) = Failure_Time(i)
      /\ Expiry(q) = IF K(q) > K(q \div 2) THEN now ELSE Failure_Time(q)
      /\ \A i \in 1..size : K(i) \in Int
      /\ \A i, j \in 1..size : i # j => K(i) # K(j)
      /\ \A j \in 2..size : j # q => K(j) < K(j \div 2)
  BY <1>1, NewExpiry
<1>3. /\ DOMAIN m = 2..size /\ h[1].id \in 2..size /\ h[1].t = Expiry(h[1].id) /\ h[1].t \in Nat
      /\ \A i \in 2..size : h[1].t <= Expiry(i)
  BY AllUpToDate
<1> HIDE DEF K
<1>4. Expiry(q) # now
  <2>1. SUFFICES ASSUME Expiry(q) = now PROVE FALSE
    OBVIOUS
  <2>2. h[1].t < now
    <3>1. h[1].t <= now /\ h[1].t # now
      BY <1>2, <1>3, <2>1
    <3>2. h[1].t \in Nat /\ now \in Nat
      BY <1>2, <1>3
    <3>3. QED BY <3>1, <3>2
  <2>3. Expiry(h[1].id) >= now
    <3>1. CASE h[1].id = q
      BY <1>2, <2>1, <3>1
    <3>2. CASE h[1].id # q
      <4>1. Expiry(h[1].id) = Failure_Time(h[1].id) /\ h[1].id \in 2..size
        BY <1>2, <1>3, <3>2
      <4>2. Failure_Time(h[1].id) \in Nat /\ Failure_Time(h[1].id) > now /\ now \in Nat
        BY <1>2, <4>1
      <4>3. QED BY <4>1, <4>2
    <3>3. QED BY <3>1, <3>2
  <2>4. h[1].t = Expiry(h[1].id) /\ h[1].t \in Nat /\ now \in Nat
    BY <1>2, <1>3
  <2>5. QED BY <2>2, <2>3, <2>4
<1>5. ~ K(q) > K(q \div 2) /\ Expiry(q) = Failure_Time(q)
  BY <1>2, <1>4
<1>6. ASSUME NEW j \in 2..size PROVE K(j) < K(j \div 2)
  <2>1. j \in 1..size /\ j \div 2 \in 1..size /\ j # j \div 2
    BY <1>2
  <2>2. K(j) # K(j \div 2) /\ K(j) \in Int /\ K(j \div 2) \in Int
    BY <1>2, <2>1
  <2>3. CASE j = q
    BY <1>5, <2>2, <2>3
  <2>4. CASE j # q
    BY <1>2, <2>4
  <2>5. QED BY <2>3, <2>4
<1>7. Distinct(now)' /\ Apart(now)'
  BY DEF Whole, Moving, Distinct, Apart, Meeting, Meet, Place
<1>8. \A j \in 2..size : Behind(j, j \div 2)'
  BY <1>6 DEF Behind, Key, K
<1>9. \A i \in DOMAIN m : Expiry(i) = Failure_Time(i)'
  <2>1. \A i \in DOMAIN m : Expiry(i) = Failure_Time(i)
    BY <1>2, <1>3, <1>5
  <2>2. QED BY <2>1, TimesKept
<1>10. QED BY <1>7, <1>8, <1>9, WholeReturn

\* What waits after an event of Insert.
LEMMA InsertCalls ==
  ASSUME Shape, Numbered, NEW e \in 2..size, todo' = Affected(e) \o Make(e \div 2, "parent"),
         UNCHANGED << h, size >>, task.op = "insert",
         task' = IF e \div 2 = 1 THEN [op |-> "certify"] ELSE task, index'[task.id] = e \div 2
  PROVE  Waiting' = Touched(e) /\ Calling'
<1> DEFINE s == Affected(e)
           n == Len(s)
           a == e \div 2
           l == Len(todo')
<1>1. /\ s \in Seq(Call(Len(H))) /\ n \in Nat
      /\ \A k \in 1..n : s[k].i \in Touched(e) /\ s[k].rule = "next"
      /\ \A j \in Touched(e) : \E k \in 1..n : s[k].i = j
  BY EventCalls
<1>2. size \in Nat /\ a \in 1..size
  BY DEF Shape, HOK
<1>3. Touched(e) \subseteq 2..size /\ (a # 1 => a \in Touched(e))
  BY <1>2, TouchedAre
<1>4. \A x : x \in Waiting' <=> \E k \in 1..l : x = todo'[k].i
  BY DEF Waiting, Calls
<1>5. CASE a = 1
  <2>1. todo' = s
    <3>1. Make(a, "parent") = << >>
      BY <1>5 DEF Make
    <3>2. todo' = s \o << >>
      BY <3>1
    <3> HIDE DEF s
    <3>3. QED BY <1>1, <3>2
  <2>2. l = n /\ task'.op = "certify"
    BY <1>5, <2>1
  <2> HIDE DEF s, n, l
  <2>3. Waiting' = Touched(e)
    <3>1. ASSUME NEW x PROVE x \in Waiting' <=> x \in Touched(e)
      <4>1. x \in Waiting' <=> \E k \in 1..n : x = todo'[k].i
        BY <1>4, <2>2
      <4>2. x \in Waiting' <=> \E k \in 1..n : x = s[k].i
        BY <2>1, <4>1
      <4>3. QED BY <1>1, <4>2
    <3>2. QED BY <3>1
  <2>4. Calling'
    BY <1>1, <1>3, <2>1, <2>2 DEF Calling, IsNew, l
  <2>5. QED BY <2>3, <2>4
<1>6. CASE a # 1
  <2> DEFINE c == [i |-> a, rule |-> "parent"]
  <2>1. todo' = s \o << c >> /\ task' = task /\ a \in 2..size
    <3>1. a \div 2 # 0
      BY <1>2, <1>6
    <3>2. QED BY <1>2, <1>6, <3>1 DEF Make
  <2>2. c.i = a /\ c.rule = "parent"
    OBVIOUS
  <2> HIDE DEF s, c
  <2>3. l = n + 1 /\ todo'[l] = c /\ \A k \in 1..n : todo'[k] = s[k]
    <3>1. \A k \in 1..n : (s \o << c >>)[k] = s[k]
      BY <1>1, ConcatProperties
    <3>2. Len(s \o << c >>) = n + 1 /\ (s \o << c >>)[n + 1] = c
      BY <1>1, ConcatProperties
    <3>3. QED BY <2>1, <3>1, <3>2
  <2> HIDE DEF n, l
  <2>4. 1..l = 1..n \union {l} /\ l \notin 1..n
    BY <1>1, <2>3
  <2>5. Waiting' = Touched(e)
    <3>1. ASSUME NEW x PROVE x \in Waiting' <=> x \in Touched(e)
      <4>1. x \in Waiting' <=> \E k \in 1..l : x = todo'[k].i
        BY <1>4
      <4>2. (\E k \in 1..l : x = todo'[k].i) <=> (\E k \in 1..n : x = s[k].i) \/ x = a
        <5> HIDE DEF a
        <5>1. \A k : k \in 1..l <=> k \in 1..n \/ k = l
          BY <2>4
        <5>2. QED BY <2>2, <2>3, <5>1
      <4>3. QED BY <1>1, <1>3, <1>6, <4>1, <4>2
    <3>2. QED BY <3>1
  <2>6. Calling'
    <3>1. ASSUME NEW k \in 1..l
          PROVE  /\ todo'[k].i \in 2..size /\ todo'[k].rule \in {"next", "parent"}
                 /\ IF k = l THEN todo'[k].i = a /\ todo'[k].rule = "parent" ELSE todo'[k].rule = "next"
      <4>1. CASE k = l
        BY <2>1, <2>2, <2>3, <4>1
      <4>2. CASE k # l
        <5>1. k \in 1..n /\ todo'[k] = s[k]
          BY <2>3, <2>4, <4>2
        <5>2. s[k].i \in 2..size /\ s[k].rule = "next"
          BY <1>1, <1>3, <5>1
        <5>3. QED BY <4>2, <5>1, <5>2
      <4>3. QED BY <4>1, <4>2
    <3>2. task'.op = "insert" /\ index'[task'.id] = a
      BY <2>1
    <3>3. QED BY <3>1, <3>2 DEF Calling, IsNew, l
  <2>7. QED BY <2>5, <2>6
<1>7. QED BY <1>5, <1>6

\* The certificate that expires now is the new element's.
LEMMA NewAtRoot ==
  ASSUME Shape, Whole, Idle, task.op = "insert", h[1].t = now
  PROVE  h[1].id = index[task.id] /\ index[task.id] \in 2..size
<1>1. PICK q : q = index[task.id]
  OBVIOUS
<1>2. /\ q \in 2..size /\ now \in Nat
      /\ \A i \in 2..size : Failure_Time(i) \in Nat /\ Failure_Time(i) > now
      /\ \A i \in 2..size : i # q => Expiry(i) = Failure_Time(i)
  BY <1>1, NewExpiry
<1>3. h[1].id \in 2..size /\ h[1].t = Expiry(h[1].id)
  BY AllUpToDate
<1>4. PICK e \in 2..size : e = h[1].id
  BY <1>3
<1>5. Expiry(e) = now
  BY <1>3, <1>4
<1>6. e = q
  BY <1>2, <1>5
<1>7. QED BY <1>1, <1>2, <1>4, <1>6

LEMMA InsertEvent ==
  ASSUME Shape, Shape', Whole, Idle, task.op = "insert", h[1].t = now,
         Event(h[1].id), todo' = Affected(h[1].id) \o Make(index'[task.id], "parent"),
         task' = IF index'[task.id] = 1 THEN [op |-> "certify"] ELSE task, UNCHANGED << now, h, m, sift >>
  PROVE  Whole'
<1> DEFINE K(i) == Key(H[i])
           L(i) == line'[H'[i]].x + line'[H'[i]].v * now'
<1>1. PICK q : q = index[task.id]
  OBVIOUS
<1>2. /\ q \in 2..size /\ H[q] = task.id /\ size \in Nat /\ now \in Nat
      /\ \A i \in 2..size : Failure_Time(i) \in Nat /\ Failure_Time(i) > now
      /\ \A i \in 2..size : i # q => Expiry(i) = Failure_Time(i)
      /\ Expiry(q) = IF K(q) > K(q \div 2) THEN now ELSE Failure_Time(q)
      /\ \A i \in 1..size : K(i) \in Int
      /\ \A j \in 2..size : j # q => K(j) < K(j \div 2)
      /\ \A j \in 2..size : j \div 2 = q => K(j) < K(q \div 2)
  BY <1>1, NewExpiry
<1>3. /\ DOMAIN m = 2..size /\ h[1].id \in 2..size /\ h[1].t = Expiry(h[1].id)
      /\ \A i \in 2..size : h[1].t <= Expiry(i)
  BY AllUpToDate
<1> HIDE DEF K, L
<1>4. h[1].id = q /\ K(q) > K(q \div 2)
  <2>1. PICK e \in 2..size : e = h[1].id
    BY <1>3
  <2>2. e = q
    BY <1>1, <2>1, NewAtRoot
  <2>3. Expiry(q) = now
    BY <1>3, <2>1, <2>2
  <2>4. QED BY <1>2, <2>1, <2>2, <2>3
<1>5. /\ Numbered' /\ line' = line /\ size' = size
      /\ H'[q] = H[q \div 2] /\ H'[q \div 2] = H[q] /\ index'[H[q]] = q \div 2
      /\ \A k \in 1..size : k # q /\ k # q \div 2 => H'[k] = H[k]
      /\ \A k \in 2..size : k \notin Touched(q) => H'[k] = H[k] /\ H'[k \div 2] = H[k \div 2]
  BY <1>2, <1>4, EventMoves DEF Whole
<1>6. /\ Event(q) /\ todo' = Affected(q) \o Make(q \div 2, "parent") /\ index'[task.id] = q \div 2
      /\ task' = IF q \div 2 = 1 THEN [op |-> "certify"] ELSE task
  BY <1>2, <1>4, <1>5
<1>7. Waiting' = Touched(q) /\ Calling'
  BY <1>2, <1>5, <1>6, InsertCalls DEF Whole
<1>8. L(q) = K(q \div 2) /\ L(q \div 2) = K(q) /\ \A k \in 1..size : k # q /\ k # q \div 2 => L(k) = K(k)
  BY <1>5 DEF K, L, Key
<1>9. ASSUME NEW j \in 2..size, j # q \div 2
      PROVE  /\ L(j) < L(j \div 2)
             /\ j \div 2 = q \div 2 /\ q \div 2 >= 2 => L(j) < L((q \div 2) \div 2)
  <2>1. /\ j \in 1..size /\ j \div 2 \in 1..size /\ q \in 1..size /\ q \div 2 \in 1..size
        /\ j # j \div 2 /\ q # q \div 2
    BY <1>2
  <2>2. K(j) \in Int /\ K(j \div 2) \in Int /\ K(q) \in Int /\ K(q \div 2) \in Int
    BY <1>2, <2>1
  <2>3. L(j) < L(j \div 2)
    <3>1. CASE j = q
      BY <1>4, <1>8, <2>2, <3>1
    <3>2. CASE j \div 2 = q
      BY <1>2, <1>8, <1>9, <2>1, <3>2
    <3>3. CASE j \div 2 = q \div 2 /\ j # q
      <4>1. K(j) < K(q \div 2) /\ L(j) = K(j) /\ L(j \div 2) = K(q)
        BY <1>2, <1>8, <1>9, <2>1, <3>3
      <4>2. QED BY <1>4, <2>2, <4>1
    <3>4. CASE j # q /\ j \div 2 # q /\ j \div 2 # q \div 2
      BY <1>2, <1>8, <1>9, <2>1, <3>4
    <3>5. QED BY <3>1, <3>2, <3>3, <3>4
  <2>4. ASSUME j \div 2 = q \div 2, q \div 2 >= 2 PROVE L(j) < L((q \div 2) \div 2)
    <3> DEFINE a == q \div 2
    <3>1. a \in 2..size /\ a # q /\ a \div 2 # a /\ a \div 2 # q /\ a \div 2 \in 1..size
      <4>1. q \in Nat /\ q \in 2..size /\ size \in Nat
        BY <1>2
      <4>2. QED BY <2>4, <4>1
    <3> HIDE DEF a
    <3>2. K(a) < K(a \div 2) /\ L(a \div 2) = K(a \div 2) /\ K(a) \in Int /\ K(a \div 2) \in Int
      <4>1. a \in 1..size
        BY <1>2, <3>1
      <4>2. QED BY <1>2, <1>8, <3>1, <4>1 DEF a
    <3>3. CASE j = q
      BY <1>8, <3>2, <3>3 DEF a
    <3>4. CASE j # q
      <4>1. K(j) < K(a) /\ L(j) = K(j)
        BY <1>2, <1>8, <1>9, <2>1, <2>4, <3>4 DEF a
      <4>2. L(j) < L(a \div 2)
        BY <2>2, <3>2, <4>1
      <4>3. QED BY <4>2 DEF a
    <3>5. QED BY <3>3, <3>4
  <2>5. QED BY <2>3, <2>4
<1>10. InOrder'
  <2>1. \A k : Key(H[k])' = L(k)
    BY DEF Key, L
  <2>2. CASE q \div 2 = 1
    <3>1. task'.op = "certify"
      BY <1>6, <2>2
    <3>2. \A j \in 2..size : L(j) < L(j \div 2)
      BY <1>2, <1>9, <2>2
    <3>3. RestOrder'
      BY <1>5, <2>1, <3>2 DEF RestOrder, Behind
    <3>4. QED BY <3>1, <3>3 DEF InOrder, BuildOrder, InsertOrder, AdvanceOrder
  <2>3. CASE q \div 2 # 1
    <3>1. task'.op = "insert" /\ index'[task'.id] = q \div 2 /\ q \div 2 >= 2
      BY <1>2, <1>6, <2>3
    <3>2. ASSUME NEW j \in 2..size
          PROVE  /\ j # q \div 2 => L(j) < L(j \div 2)
                 /\ j \div 2 = q \div 2 => L(j) < L((q \div 2) \div 2)
      <4>1. j \div 2 = q \div 2 => j # q \div 2
        BY <1>2
      <4>2. QED BY <1>9, <3>1, <4>1
    <3>3. InsertOrder'
      <4>1. PICK a : a = q \div 2
        OBVIOUS
      <4>2. index'[task'.id] = a /\ a >= 2 /\ size' = size
        BY <1>5, <3>1, <4>1
      <4>3. \A j \in 2..size : (j # a => L(j) < L(j \div 2)) /\ (j \div 2 = a => L(j) < L(a \div 2))
        BY <3>2, <4>1
      <4>4. QED BY <2>1, <4>2, <4>3 DEF InsertOrder, Behind
    <3>4. QED BY <3>1, <3>3 DEF InOrder, BuildOrder, RestOrder, AdvanceOrder
  <2>4. QED BY <2>2, <2>3
<1>11. Moving'
  <2>1. task'.op # "advance"
    BY <1>6
  <2>2. QED BY <1>5, <2>1, MovingKept DEF Whole
<1>12. Filed' /\ Sifting' /\ OneByOne' /\ UpToDate'
  <2>1. ASSUME NEW i \in 2..size PROVE Failure_Time(i)' > now'
    BY <1>5, <1>11, <2>1, LaterThen DEF Moving
  <2>2. ASSUME NEW i \in 2..size, i \notin Touched(q) PROVE Failure_Time(i)' = Failure_Time(i)
    BY <1>5, <2>2 DEF Failure_Time, Meet
  <2>3. now' \in Int /\ now' >= now
    BY <1>2
  <2>4. \A i \in 2..size : Expiry(i) = Failure_Time(i) \/ (i = q /\ Expiry(i) = now')
    BY <1>2
  <2>5. task'.op = "insert" => index'[task'.id] \in Touched(q)
    <3>1. q \div 2 \in 2..size => q \div 2 \in Touched(q)
      BY <1>2, TouchedAre
    <3>2. task'.op = "insert" => task' = task /\ q \div 2 # 1
      BY <1>6
    <3>3. q \div 2 # 1 => q \div 2 \in 2..size
      BY <1>2
    <3>4. QED BY <1>6, <3>1, <3>2, <3>3
  <2>6. QED BY <1>2, <1>6, <1>7, <2>1, <2>2, <2>3, <2>4, <2>5, EventCertificates
<1>13. QED BY <1>5, <1>7, <1>10, <1>11, <1>12 DEF Whole

LEMMA WholeInsertLoop == Shape /\ Shape' /\ Whole /\ InsertLoop => Whole'
<1> SUFFICES ASSUME Shape, Shape', Whole, InsertLoop PROVE Whole'
  OBVIOUS
<1>1. task.op = "insert" /\ Idle /\ now' = now
  BY DEF InsertLoop
<1>2. CASE h[1].t = now
  <2>1. /\ Event(h[1].id) /\ todo' = Affected(h[1].id) \o Make(index'[task.id], "parent")
        /\ task' = IF index'[task.id] = 1 THEN [op |-> "certify"] ELSE task
        /\ UNCHANGED << h, m, sift >>
    BY <1>2 DEF InsertLoop, Q_Min, queue
  <2>2. QED BY <1>1, <1>2, <2>1, InsertEvent
<1>3. CASE h[1].t # now
  <2>1. Return /\ UNCHANGED << line, index, H, size >>
    BY <1>3 DEF InsertLoop, Q_Min, elements
  <2>2. QED BY <1>1, <1>3, <2>1, InsertEnds
<1>4. QED BY <1>2, <1>3

\* Between two commands.
LEMMA AtRest ==
  ASSUME Shape, Whole, task.op = "ready"
  PROVE  /\ todo = << >> /\ sift = Still /\ Waiting = {} /\ Numbered /\ Distinct(now) /\ Apart(now) /\ OneByOne
         /\ size \in Nat /\ size >= 2 /\ size = Len(line) /\ size = Len(H) /\ Len(h) = size - 1
         /\ DOMAIN m = 2..size /\ Filed /\ Sifting /\ now \in Nat
         /\ \A j \in 2..size : Behind(j, j \div 2)
         /\ \A i \in 2..size : Expiry(i) = Failure_Time(i)
<1>1. /\ todo = << >> /\ sift = Still /\ Numbered /\ Distinct(now) /\ Apart(now) /\ OneByOne /\ Filed /\ Sifting
      /\ now \in Nat /\ \A j \in 2..size : Behind(j, j \div 2)
  BY BoundsOK DEF Shape, ClockOK, TaskOK, Whole, Moving, InOrder, RestOrder
<1>2. Waiting = {}
  BY <1>1, NothingWaits
<1>3. DOMAIN m = 2..Len(H) /\ Len(H) \in Nat /\ Len(H) >= 2 /\ Len(h) \in Nat /\ Len(h) >= 1
  BY <1>1, RootOfQ
<1>4. size = Len(H) /\ size = Len(line)
  BY <1>1 DEF Numbered
<1>5. Len(h) = size - 1
  <2> DEFINE a == Len(h) + 1
             b == Len(H)
  <2>1. 2..a = 2..b /\ a >= 2 /\ b >= 2 /\ a \in Nat /\ b \in Nat
    BY <1>1, <1>3 DEF Filed
  <2> HIDE DEF a, b
  <2>2. a \in 2..b /\ b \in 2..a
    BY <2>1
  <2>3. a = b
    BY <2>1, <2>2
  <2>4. QED BY <1>3, <1>4, <2>3 DEF a, b
<1>6. \A i \in 2..size : Expiry(i) = Failure_Time(i)
  BY <1>2, <1>3, <1>4 DEF Whole, UpToDate, Due
<1>7. QED BY <1>1, <1>2, <1>3, <1>4, <1>5, <1>6

LEMMA GeneralThen ==
  (LineOK /\ now \in Int /\ General(line, 1..Len(line), now))' => (Apart(now) /\ Distinct(now))'
<1>1. LineOK /\ now \in Int /\ General(line, 1..Len(line), now) => Apart(now) /\ Distinct(now)
  BY GeneralNow
<1>2. QED BY <1>1, PTL

LEMMA OneCall ==
  ASSUME NEW n \in Nat, n >= 2, NEW r
  PROVE  Len(Make(n, r)) = 1 /\ Make(n, r)[1].i = n /\ Make(n, r)[1].rule = r
<1> DEFINE c == [i |-> n, rule |-> r]
<1>1. Make(n, r) = << c >>
  <2>1. n \div 2 # 0
    OBVIOUS
  <2>2. QED BY <2>1 DEF Make
<1>2. c.i = n /\ c.rule = r
  OBVIOUS
<1> HIDE DEF c
<1>3. QED BY <1>1, <1>2

LEMMA WholeInsert == Shape /\ Shape' /\ Whole /\ Intact /\ Insert => Whole'
<1> SUFFICES ASSUME Shape, Shape', Whole, Intact, Insert PROVE Whole'
  OBVIOUS
<1>1. PICK n : n = size
  OBVIOUS
<1>2. task.op = "ready"
  BY DEF Insert, May, Ready
<1>3. /\ todo = << >> /\ sift = Still /\ Waiting = {} /\ Numbered /\ OneByOne
      /\ n \in Nat /\ n >= 2 /\ n = Len(line) /\ n = Len(H) /\ Len(h) = n - 1
      /\ DOMAIN m = 2..n /\ Filed /\ Sifting /\ now \in Nat
      /\ \A j \in 2..n : Behind(j, j \div 2)
      /\ \A i \in 2..n : Expiry(i) = Failure_Time(i)
  BY <1>1, <1>2, AtRest
<1>30. n \in Nat /\ n >= 2 /\ n = Len(line) /\ n = Len(H) /\ now \in Int
  BY <1>3
<1>4. PICK l :
       /\ line' = Append(line, l) /\ index' = Append(index, n + 1) /\ H' = Append(H, n + 1)
       /\ present' = present \union {n + 1} /\ General(line', present', now)
       /\ task' = [op |-> "insert", id |-> n + 1]
  <2>1. PICK p \in Positions, v \in Speeds :
       /\ line' = Append(line, [x |-> p - v * now, v |-> v])
       /\ index' = Append(index, size + 1)
       /\ H' = IF size = Len(H) THEN Append(H, Len(line) + 1) ELSE [H EXCEPT ![size + 1] = Len(line) + 1]
       /\ present' = present \union {Len(line) + 1}
       /\ General(line', present', now)
       /\ task' = IF size = 0 THEN Ready ELSE [op |-> "insert", id |-> Len(line) + 1]
    BY DEF Insert
  <2>2. n # 0
    BY <1>3
  <2>3. QED BY <1>1, <1>3, <2>1, <2>2
<1>5. /\ size' = n + 1 /\ todo' = Make(n + 1, "new parent") /\ UNCHANGED << now, h, m, sift >>
  BY <1>1 DEF Insert, queue
<1>6. /\ line \in Seq(EvenLine) /\ H \in Seq(1..n) /\ index \in [1..n -> 1..n]
      /\ \A i \in 1..n : index[H[i]] = i /\ H[index[i]] = i /\ H[i] \in 1..n /\ index[i] \in 1..n
  <2>1. line \in Seq(EvenLine) /\ H \in Seq(1..n) /\ index \in [1..n -> 1..n]
    BY <1>3 DEF Shape, LineOK, HOK
  <2>2. \A i \in 1..n : index[H[i]] = i /\ H[index[i]] = i
    BY <1>1, <1>3 DEF Numbered
  <2>3. QED BY <1>3, <2>1, <2>2
<1>7. /\ Len(line') = n + 1 /\ \A i \in 1..n : line'[i] = line[i]
      /\ Len(H') = n + 1 /\ H'[n + 1] = n + 1 /\ \A i \in 1..n : H'[i] = H[i]
      /\ index'[n + 1] = n + 1 /\ \A i \in 1..n : index'[i] = index[i]
  <2>1. index \in Seq(1..n) /\ Len(index) = n
    BY <1>3, <1>6, FunctionIsSeq
  <2>2. Len(line') = n + 1 /\ \A i \in 1..n : line'[i] = line[i]
    <3> DEFINE S == EvenLine \union {l}
    <3>1. EvenLine \subseteq S /\ l \in S
      OBVIOUS
    <3> HIDE DEF S
    <3>2. line \in Seq(S)
      BY <1>6, <3>1, SeqMonotonic
    <3>3. line' = Append(line, l)
      BY <1>4
    <3>4. Len(line') = Len(line) + 1 /\ \A i \in 1..Len(line) : line'[i] = line[i]
      BY <3>1, <3>2, <3>3, AppendProperties
    <3>5. QED BY <1>30, <3>4
  <2>3. Len(H') = n + 1 /\ H'[n + 1] = n + 1 /\ \A i \in 1..n : H'[i] = H[i]
    <3>1. 1..n \subseteq 1..(n + 1) /\ n + 1 \in 1..(n + 1)
      BY <1>3
    <3>2. H \in Seq(1..(n + 1))
      BY <1>6, <3>1, SeqMonotonic
    <3>3. QED BY <1>3, <1>4, <3>1, <3>2
  <2>4. index'[n + 1] = n + 1 /\ \A i \in 1..n : index'[i] = index[i]
    BY <1>3, <1>4, <2>1
  <2>5. QED BY <2>2, <2>3, <2>4
<1>8. task'.op = "insert" /\ task'.id = n + 1
  BY <1>4
<1>9. Moving'
  <2>1. present' = 1..Len(line')
    BY <1>3, <1>4, <1>7 DEF Intact
  <2>2. LineOK' /\ now' \in Int /\ General(line', 1..Len(line'), now')
    <3>1. now' = now /\ now' \in Int /\ LineOK'
      <4>1. now' = now
        BY <1>5
      <4>10. now' \in Int
        BY <1>30, <4>1
      <4>2. LineOK'
        BY Zenon DEF Shape
      <4>3. QED BY <4>1, <4>2, <4>10
    <3>2. QED BY <1>4, <2>1, <3>1, Zenon
  <2>3. Apart(now)' /\ Distinct(now)'
    BY <2>2, GeneralThen
  <2>4. QED BY <1>8, <2>3 DEF Moving
<1>10. Numbered'
  <2>1. ASSUME NEW i \in 1..(n + 1) PROVE index'[H'[i]] = i /\ H'[index'[i]] = i
    <3>1. CASE i = n + 1
      BY <1>7, <3>1
    <3>2. CASE i # n + 1
      <4>1. i \in 1..n
        BY <1>3, <3>2
      <4>2. QED BY <1>6, <1>7, <4>1
    <3>3. QED BY <3>1, <3>2
  <2>2. QED BY <1>5, <1>7, <2>1 DEF Numbered
<1>11. ASSUME NEW j \in 2..n PROVE Behind(j, j \div 2)' /\ Failure_Time(j)' = Failure_Time(j)
  <2>1. j \in 1..n /\ j \div 2 \in 1..n
    BY <1>3
  <2>2. H'[j] = H[j] /\ H'[j \div 2] = H[j \div 2] /\ H[j] \in 1..n /\ H[j \div 2] \in 1..n
    BY <1>6, <1>7, <2>1
  <2>3. line'[H'[j]] = line[H[j]] /\ line'[H'[j \div 2]] = line[H[j \div 2]]
    BY <1>7, <2>2
  <2>4. Behind(j, j \div 2)
    BY <1>3
  <2>5. QED BY <1>5, <2>3, <2>4 DEF Behind, Key, Failure_Time, Meet
<1>12. InOrder'
  <2>1. ASSUME NEW j \in 2..(n + 1) PROVE j \div 2 # n + 1 /\ (j # n + 1 => j \in 2..n)
    BY <1>3
  <2>2. index'[task'.id] = n + 1 /\ n + 1 >= 2
    BY <1>3, <1>7, <1>8
  <2>3. InsertOrder'
    BY <1>5, <1>11, <2>1, <2>2 DEF InsertOrder
  <2>4. QED BY <1>8, <2>3 DEF InOrder, BuildOrder, RestOrder, AdvanceOrder
<1>13. Filed' /\ Sifting'
  BY <1>3, <1>5 DEF Filed, Sifting
<1>14. Len(todo') = 1 /\ todo'[1].i = n + 1 /\ todo'[1].rule = "new parent"
  <2>1. n + 1 \in Nat /\ n + 1 >= 2
    BY <1>3
  <2>2. todo' = Make(n + 1, "new parent")
    BY <1>5
  <2>3. QED BY <2>1, <2>2, OneCall, Zenon
<1>140. 1..Len(todo') = {1}
  <2> DEFINE l1 == Len(todo')
  <2>1. l1 = 1
    BY <1>14
  <2> HIDE DEF l1
  <2>2. 1..l1 = {1}
    BY <2>1
  <2>3. QED BY <2>2 DEF l1
<1>15. Waiting' = {n + 1}
  <2>1. 1..Len(todo') = {1}
    BY <1>140
  <2>2. QED BY <1>14, <2>1 DEF Waiting, Calls
<1>16. OneByOne' /\ UpToDate'
  <2>1. DOMAIN m' = 2..n /\ n + 1 \notin 2..n
    <3>1. n + 1 \notin 2..n
      BY <1>3
    <3>2. DOMAIN m' = DOMAIN m
      BY <1>5
    <3>3. QED BY <1>3, <3>1, <3>2, Zenon
  <2>2. \A i : Expiry(i)' = Expiry(i)
    BY <1>5 DEF Expiry
  <2>3. OneByOne'
    BY <1>3, <1>15, <2>1, <2>2 DEF OneByOne
  <2>4. \A i \in 2..n : Due(i)' = Failure_Time(i)'
    BY <1>7, <1>8, <2>1 DEF Due
  <2>5. UpToDate'
    BY <1>3, <1>11, <2>1, <2>2, <2>4 DEF UpToDate
  <2>6. QED BY <2>3, <2>5
<1>17. Calling'
  <2>1. Len(h') = n - 1 /\ size' = n + 1 /\ index'[task'.id] = n + 1
    BY <1>3, <1>5, <1>7, <1>8
  <2> DEFINE l1 == Len(todo')
             l2 == Len(h')
  <2>2. 1..l1 = {1} /\ l1 = 1 /\ l2 = n - 1
    <3>1. l1 = 1 /\ 1..l1 = {1}
      BY <1>14, <1>140, Zenon
    <3>2. QED BY <2>1, <3>1, Zenon
  <2> HIDE DEF l1, l2
  <2>3. /\ n + 1 \in 2..(n + 1) /\ n + 1 = l2 + 1 + 1 /\ l2 + l1 = (n + 1) - 1
    BY <1>3, <2>2
  <2>4. QED BY <1>8, <1>14, <2>1, <2>2, <2>3 DEF Calling, IsNew, l1, l2
<1>18. QED BY <1>9, <1>10, <1>12, <1>13, <1>16, <1>17 DEF Whole

-----------------------------------------------------------------------------
\* Change.

LEMMA SamePlace ==
  ASSUME NEW x \in Int, NEW a \in Int, NEW v \in Int, NEW t \in Int
  PROVE  (x + t * (a - v)) + v * t = x + a * t
OBVIOUS

LEMMA FailIsMoment ==
  ASSUME NEW u \in EvenLine, NEW p \in EvenLine, NEW t \in Int, Fail(u, p, t) # INFTY
  PROVE  Fail(u, p, t) \in Moments(u, p, t) /\ Fail(u, p, t) \in Moments(p, u, t)
<1>1. u.v # p.v /\ Meet(u, p) > t /\ Fail(u, p, t) = Meet(u, p) /\ Meet(u, p) \in Int
  BY MeetInteger DEF Fail
<1>2. Meet(p, u) = Meet(u, p)
  BY <1>1, MeetSymmetric
<1> DEFINE e == Meet(u, p)
<1>3. ~ e < t
  BY <1>1
<1>4. Moments(u, p, t) = {e} /\ Moments(p, u, t) = {e}
  BY <1>1, <1>2, <1>3 DEF Moments
<1>5. QED BY <1>1, <1>4

\* What waits after a change of the element at position q.
Around(q) == {j \in 2..size : j = q \/ j \div 2 = q}
Anew(q) == Make(q, "next") \o MakeChildren(q, size, "next")

LEMMA ChangeCalls ==
  ASSUME Shape, NEW q \in 1..size, size = Len(H)
  PROVE  /\ Len(Anew(q)) \in Nat
         /\ \A k \in 1..Len(Anew(q)) : Anew(q)[k].i \in Around(q) /\ Anew(q)[k].rule = "next"
         /\ \A j \in Around(q) : \E k \in 1..Len(Anew(q)) : Anew(q)[k].i = j
<1>0. PICK s : s = Anew(q)
  OBVIOUS
<1> DEFINE n == Len(H)
           C(j) == [i |-> j, rule |-> "next"]
           a == Make(q, "next")
           b == MakeChildren(q, size, "next")
<1>1. n \in Nat /\ q \in 0..n /\ q \in 1..n /\ size \in 0..n /\ size \in Nat /\ "next" \in Rules
  BY DEF Shape, HOK, Rules
<1>2. a \in Seq(Call(n)) /\ Calls(a) = IF q >= 2 THEN {C(q)} ELSE {}
  BY <1>1, CallsOfMake
<1>3. b \in Seq(Call(n)) /\ Calls(b) = {C(j) : j \in {2 * q, 2 * q + 1} \cap 1..size}
  <2>1. n \in Nat /\ q \in 1..n /\ size \in 0..n /\ "next" \in Rules
    BY <1>1
  <2> HIDE DEF n
  <2>2. b \in Seq(Call(n)) /\ Calls(b) = ChildCalls(q, size, "next")
    BY <2>1, CallsOfChildren
  <2>3. QED BY <2>2, Zenon DEF ChildCalls
<1> HIDE DEF a, b
<1>4. s \in Seq(Call(n)) /\ Calls(s) = Calls(a) \union Calls(b)
  BY <1>0, <1>2, <1>3, CallsOfConcat DEF a, b, Anew
<1>5. ASSUME NEW j \in Nat PROVE j \in Around(q) <=> (q >= 2 /\ j = q) \/ j \in {2 * q, 2 * q + 1} \cap 1..size
  <2>1. j \div 2 = q <=> j \in {2 * q, 2 * q + 1}
    BY <1>1, ChildOf
  <2>2. j \div 2 = q => j >= 2
    BY <1>1
  <2>3. j \in Around(q) <=> j \in 2..size /\ (j = q \/ j \div 2 = q)
    BY DEF Around
  <2>4. QED BY <1>1, <2>1, <2>2, <2>3
<1>6. Len(s) \in Nat /\ Calls(s) = {s[k] : k \in 1..Len(s)}
  BY <1>4 DEF Calls
<1>7. ASSUME NEW k \in 1..Len(s) PROVE s[k].i \in Around(q) /\ s[k].rule = "next"
  <2>1. s[k] \in Calls(a) \/ s[k] \in Calls(b)
    BY <1>4, <1>6
  <2>2. CASE s[k] \in Calls(a)
    <3>1. q >= 2 /\ s[k] = C(q)
      BY <1>2, <2>2
    <3>2. s[k].i = q /\ s[k].rule = "next"
      BY <3>1
    <3>3. QED BY <1>1, <1>5, <3>1, <3>2
  <2>3. CASE s[k] \in Calls(b)
    <3>1. PICK j \in {2 * q, 2 * q + 1} \cap 1..size : s[k] = C(j)
      BY <1>3, <2>3
    <3>2. s[k].i = j /\ s[k].rule = "next" /\ j \in Nat
      BY <1>1, <3>1
    <3>3. QED BY <1>5, <3>1, <3>2
  <2>4. QED BY <2>1, <2>2, <2>3
<1>8. ASSUME NEW j \in Around(q) PROVE \E k \in 1..Len(s) : s[k].i = j
  <2>1. j \in Nat
    BY <1>1 DEF Around
  <2>2. C(j) \in Calls(a) \union Calls(b)
    <3>1. (q >= 2 /\ j = q) \/ j \in {2 * q, 2 * q + 1} \cap 1..size
      BY <1>5, <2>1
    <3>2. QED BY <1>2, <1>3, <3>1
  <2>3. PICK k \in 1..Len(s) : s[k] = C(j)
    BY <1>4, <1>6, <2>2
  <2>4. s[k].i = j
    BY <2>3
  <2>5. QED BY <2>4
<1>9. QED BY <1>0, <1>6, <1>7, <1>8

\* No certificate that has still to be made again expires when another one will.
LEMMA ChangeMeetings ==
  ASSUME Shape, Numbered, Distinct(now), now \in Int, NEW q \in 1..size, NEW id, id = H[q], present = 1..Len(line),
         Afresh(line', id), \A r \in 1..Len(line) : r # id => line'[r] = line[r], line'[id] \in EvenLine,
         UNCHANGED << now, H, size >>,
         NEW i \in Around(q), NEW k \in Around(q), i # k, Failure_Time(i) = Failure_Time(k)'
  PROVE  Failure_Time(i) = INFTY
<1> SUFFICES ASSUME Failure_Time(i) # INFTY PROVE FALSE
  OBVIOUS
<1>1. /\ size \in Nat /\ size = Len(line) /\ H \in Seq(1..Len(line)) /\ Len(H) = size
      /\ \A j \in 1..size : index[H[j]] = j
  BY DEF Shape, HOK, Numbered
<1>2. \A j \in 1..size : H[j] \in 1..Len(line) /\ line[H[j]] \in EvenLine
  BY <1>1, LinesAt DEF Shape
\* The position at the other end of an edge of q.
<1>3. ASSUME NEW j \in Around(q)
      PROVE  \E o \in 1..size : o # q /\ ((j = q /\ o = j \div 2) \/ (o = j /\ q = j \div 2))
  <2>1. j \in 1..size /\ j \div 2 \in 1..size /\ j # j \div 2 /\ (j = q \/ j \div 2 = q)
    BY <1>1 DEF Around
  <2>2. CASE j = q
    BY <2>1, <2>2
  <2>3. CASE j \div 2 = q
    BY <2>1, <2>3
  <2>4. QED BY <2>1, <2>2, <2>3
<1>4. PICK o \in 1..size : o # q /\ ((i = q /\ o = i \div 2) \/ (o = i /\ q = i \div 2))
  BY <1>3
<1>5. PICK w \in 1..size : w # q /\ ((k = q /\ w = k \div 2) \/ (w = k /\ q = k \div 2))
  BY <1>3
<1>6. o # w
  <2>1. i \in Nat /\ k \in Nat /\ q \in Nat /\ i >= 2 /\ k >= 2
    BY <1>1 DEF Around
  <2>2. QED BY <1>4, <1>5, <2>1
<1> DEFINE r == H[o]
           p == H[w]
<1>7. /\ r \in present \ {id} /\ p \in present \ {id} /\ p # r /\ id \in 1..Len(line)
      /\ line'[p] = line[p] /\ line[p] \in EvenLine /\ line[r] \in EvenLine /\ line[id] \in EvenLine
  <2>1. index[H[o]] = o /\ index[H[w]] = w /\ index[H[q]] = q
    BY <1>1
  <2>2. H[o] # H[q] /\ H[w] # H[q] /\ H[o] # H[w]
    BY <1>4, <1>5, <1>6, <2>1
  <2>3. H[o] \in 1..Len(line) /\ H[w] \in 1..Len(line) /\ H[q] \in 1..Len(line)
    BY <1>2
  <2>4. line[H[o]] \in EvenLine /\ line[H[w]] \in EvenLine /\ line[H[q]] \in EvenLine
    BY <1>2
  <2>5. QED BY <2>2, <2>3, <2>4
<1>8. Moments(line'[id], line[p], now) \cap Moments(line[id], line[r], now) = {}
  <2>1. Moments(line'[id], line'[p], now) \cap Moments(line[id], line[r], now) = {}
    BY <1>7, Zenon DEF Afresh
  <2>2. QED BY <1>7, <2>1
<1>9. Failure_Time(i) = Fail(line[id], line[r], now) \/ Failure_Time(i) = Fail(line[r], line[id], now)
  <2>1. Failure_Time(i) = Fail(line[H[i]], line[H[i \div 2]], now)
    BY FailureTime
  <2>2. QED BY <1>4, <2>1
<1>10. Failure_Time(k)' = Fail(line'[id], line[p], now) \/ Failure_Time(k)' = Fail(line[p], line'[id], now)
  <2>1. Failure_Time(k)' = Fail(line'[H[k]], line'[H[k \div 2]], now)
    <3>1. Failure_Time(k)' = Fail(line'[H'[k]], line'[H'[k \div 2]], now')
      BY DEF Failure_Time, Fail, Meet
    <3>2. QED BY <3>1
  <2>2. CASE k = q /\ w = k \div 2
    BY <1>7, <2>1, <2>2
  <2>3. CASE w = k /\ q = k \div 2
    BY <1>7, <2>1, <2>3
  <2>4. QED BY <1>5, <2>2, <2>3
<1> HIDE DEF r, p
<1>11. Failure_Time(i) \in Moments(line[id], line[r], now)
  BY <1>7, <1>9, FailIsMoment
<1>12. Failure_Time(k)' \in Moments(line'[id], line[p], now)
  <2> DEFINE u == line'[id]
             f == Failure_Time(k)'
  <2>1. u \in EvenLine /\ f # INFTY
    OBVIOUS
  <2>2. f = Fail(u, line[p], now) \/ f = Fail(line[p], u, now)
    BY <1>10
  <2> HIDE DEF u, f
  <2>3. f \in Moments(u, line[p], now)
    BY <1>7, <2>1, <2>2, FailIsMoment
  <2>4. QED BY <2>3 DEF u, f
<1>13. QED BY <1>8, <1>11, <1>12

LEMMA WholeChange == Shape /\ Shape' /\ Whole /\ Intact /\ Change => Whole'
<1> SUFFICES ASSUME Shape, Shape', Whole, Intact, Change PROVE Whole'
  OBVIOUS
<1>1. PICK id \in present, v \in Speeds :
       /\ line' = [line EXCEPT ![id] = [x |-> @.x + now * (@.v - v), v |-> v]]
       /\ General(line', present, now) /\ Afresh(line', id)
       /\ todo' = Make(index[id], "next") \o MakeChildren(index[id], size, "next")
  BY DEF Change
<1>2. /\ task'.op = "certify" /\ task.op = "ready"
      /\ UNCHANGED << now, index, H, size, h, m, sift, present >>
  BY DEF Change, May, Ready, queue
<1>3. /\ Waiting = {} /\ Numbered /\ OneByOne /\ Distinct(now) /\ Filed /\ Sifting
      /\ DOMAIN m = 2..size
      /\ \A j \in 2..size : Behind(j, j \div 2)
      /\ \A i \in 2..size : Expiry(i) = Failure_Time(i)
  BY <1>2, AtRest
<1>30. size \in Nat /\ size >= 2 /\ size = Len(line) /\ size = Len(H) /\ now \in Int
  BY <1>2, AtRest
<1>4. /\ id \in 1..Len(line) /\ line[id] \in EvenLine /\ line \in Seq(EvenLine)
      /\ index[id] \in 1..size /\ H[index[id]] = id /\ \A j \in 1..size : index[H[j]] = j
  <2>1. /\ id \in 1..Len(line) /\ line \in Seq(EvenLine) /\ index[id] \in 1..Len(H)
    BY DEF Shape, LineOK, HOK
  <2>2. H[index[id]] = id /\ \A j \in 1..size : index[H[j]] = j
    BY <1>3, <2>1 DEF Numbered
  <2>3. line[id] \in EvenLine
    BY <2>1
  <2>4. QED BY <1>30, <2>1, <2>2, <2>3
<1>40. PICK q \in 1..size : q = index[id]
  BY <1>4
<1>5. /\ Len(line') = Len(line) /\ line'[id] \in EvenLine
      /\ \A r \in 1..Len(line) : r # id => line'[r] = line[r]
      /\ line'[id].x + line'[id].v * now = line[id].x + line[id].v * now
  <2> DEFINE l == [x |-> line[id].x + now * (line[id].v - v), v |-> v]
  <2>1. line' = [line EXCEPT ![id] = l]
    BY <1>1
  <2>2. line[id].x \in Int /\ line[id].v \in Int /\ v \in Int
    BY <1>4, SpeedsClose, KineticAssumption
  <2>3. l.x + l.v * now = line[id].x + line[id].v * now
    BY <1>30, <2>2, SamePlace
  <2> HIDE DEF l
  <2>4. Len(line') = Len(line) /\ line'[id] = l /\ \A r \in 1..Len(line) : r # id => line'[r] = line[r]
    BY <1>4, <2>1
  <2>5. line'[id] \in EvenLine
    <3>1. LineOK' /\ id \in 1..Len(line')
      BY <1>4, <2>4 DEF Shape
    <3>2. line' \in Seq(EvenLine)
      BY <3>1 DEF LineOK
    <3>3. QED BY <3>1, <3>2, ElementOfSeq
  <2>6. QED BY <2>3, <2>4, <2>5
<1>6. Moving'
  <2>1. now' = now /\ LineOK'
    BY <1>2 DEF Shape
  <2>2. present = 1..Len(line')
    BY <1>5 DEF Intact
  <2>3. General(line', 1..Len(line'), now') /\ now' \in Int
    BY <1>1, <1>30, <2>1, <2>2
  <2>4. Apart(now)' /\ Distinct(now)'
    BY <2>1, <2>3, GeneralThen
  <2>5. QED BY <1>2, <2>4 DEF Moving
<1>7. Numbered'
  BY <1>2, <1>3, <1>5 DEF Numbered
<1>8. InOrder'
  <2>1. ASSUME NEW j \in 1..size PROVE Key(H[j])' = Key(H[j])
    <3>1. H[j] \in 1..Len(line)
      BY <1>30, <2>1, LinesAt DEF Shape
    <3>2. Key(H[j])' = line'[H[j]].x + line'[H[j]].v * now
      BY <1>2 DEF Key
    <3>3. QED BY <1>5, <3>1, <3>2 DEF Key
  <2>2. ASSUME NEW j \in 2..size PROVE Behind(j, j \div 2)'
    <3>1. j \in 1..size /\ j \div 2 \in 1..size
      BY <1>30
    <3>2. Behind(j, j \div 2)
      BY <1>3
    <3>3. QED BY <2>1, <3>1, <3>2 DEF Behind
  <2>3. RestOrder'
    BY <1>2, <2>2 DEF RestOrder
  <2>4. QED BY <1>2, <2>3 DEF InOrder, BuildOrder, InsertOrder, AdvanceOrder
<1>9. Filed' /\ Sifting'
  BY <1>2, <1>3 DEF Filed, Sifting
<1>10. /\ \A k \in 1..Len(todo') : todo'[k].i \in Around(q) /\ todo'[k].rule = "next"
       /\ \A j \in Around(q) : \E k \in 1..Len(todo') : todo'[k].i = j
  <2>1. todo' = Anew(q)
    BY <1>1, <1>40 DEF Anew
  <2>2. size = Len(H)
    BY <1>30
  <2>3. /\ \A k \in 1..Len(Anew(q)) : Anew(q)[k].i \in Around(q) /\ Anew(q)[k].rule = "next"
        /\ \A j \in Around(q) : \E k \in 1..Len(Anew(q)) : Anew(q)[k].i = j
    BY <1>40, <2>2, ChangeCalls
  <2>4. QED BY <2>1, <2>3
<1>11. Waiting' = Around(q)
  <2>1. ASSUME NEW x PROVE x \in Waiting' <=> x \in Around(q)
    <3>1. x \in Waiting' <=> \E k \in 1..Len(todo') : x = todo'[k].i
      BY DEF Waiting, Calls
    <3>2. QED BY <1>10, <3>1
  <2>2. QED BY <2>1
<1>12. Calling'
  <2>1. Around(q) \subseteq 2..size
    BY DEF Around
  <2>2. QED BY <1>2, <1>10, <2>1 DEF Calling, IsNew
<1>13. OneByOne' /\ UpToDate'
  <2>1. DOMAIN m' = 2..size /\ Around(q) \subseteq 2..size
    BY <1>2, <1>3 DEF Around
  <2>2. \A i : Expiry(i)' = Expiry(i)
    BY <1>2 DEF Expiry
  <2> DEFINE F(i) == Failure_Time(i)'
  <2>3. ASSUME NEW i \in Around(q), NEW k \in Around(q), i # k, Expiry(i) = F(k) PROVE Expiry(i) = INFTY
    <3>1. Expiry(i) = Failure_Time(i)
      BY <1>3, <2>1
    <3>2. Failure_Time(i) = Failure_Time(k)'
      BY <2>3, <3>1
    <3>3. /\ id = H[q] /\ present = 1..Len(line) /\ Afresh(line', id)
          /\ \A r \in 1..Len(line) : r # id => line'[r] = line[r]
          /\ line'[id] \in EvenLine /\ UNCHANGED << now, H, size >>
      BY <1>1, <1>2, <1>4, <1>40, <1>5 DEF Intact
    <3>4. Failure_Time(i) = INFTY
      BY <1>3, <1>30, <2>3, <3>2, <3>3, ChangeMeetings
    <3>5. QED BY <3>1, <3>4
  <2>4. OneByOne'
    <3>1. \A i \in 2..size : Expiry(i) <= INFTY
      BY <1>3 DEF OneByOne
    <3>2. \A i, k \in 2..size : i # k /\ Expiry(i) = Expiry(k) => Expiry(i) = INFTY
      BY <1>3, Zenon DEF OneByOne
    <3>3. \A i \in (2..size) \cap Around(q), k \in Around(q) : i # k /\ Expiry(i) = F(k) => Expiry(i) = INFTY
      BY <2>3, <2>1
    <3> HIDE DEF F
    <3>4. QED BY <1>11, <2>1, <2>2, <3>1, <3>2, <3>3 DEF OneByOne, F
  <2>5. ASSUME NEW i \in 2..size, i \notin Around(q) PROVE Expiry(i)' = Due(i)'
    <3>1. i # q /\ i \div 2 # q /\ i \in 1..size /\ i \div 2 \in 1..size
      BY <1>30, <2>5 DEF Around
    <3>2. index[H[i]] = i /\ index[H[i \div 2]] = i \div 2
      BY <1>4, <3>1
    <3>3. H[i] # id /\ H[i \div 2] # id
      BY <1>40, <3>1, <3>2
    <3>4. line'[H[i]] = line[H[i]] /\ line'[H[i \div 2]] = line[H[i \div 2]]
      <4>1. H[i] \in 1..Len(line) /\ H[i \div 2] \in 1..Len(line)
        BY <1>30, <3>1, LinesAt DEF Shape
      <4>2. QED BY <1>5, <3>3, <4>1
    <3>5. Failure_Time(i)' = Failure_Time(i)
      BY <1>2, <3>4 DEF Failure_Time, Meet
    <3>6. Due(i)' = Failure_Time(i)'
      BY <1>2 DEF Due
    <3>7. QED BY <1>3, <2>2, <3>5, <3>6
  <2>6. UpToDate'
    BY <1>11, <2>1, <2>5 DEF UpToDate
  <2>7. QED BY <2>4, <2>6
<1>14. QED BY <1>6, <1>7, <1>8, <1>9, <1>12, <1>13 DEF Whole

-----------------------------------------------------------------------------
\* Every step.

LEMMA LineInserted ==
  ASSUME Shape, Insert
  PROVE  Len(line') = Len(line) + 1 /\ present' = present \union {Len(line) + 1}
<1>1. Len(line) \in Nat /\ line \in Seq(EvenLine)
  BY DEF Shape, LineOK
<1>2. PICK l : line' = Append(line, l)
  BY DEF Insert
<1> DEFINE S == EvenLine \union {l}
<1>3. EvenLine \subseteq S /\ l \in S
  OBVIOUS
<1> HIDE DEF S
<1>4. line \in Seq(S)
  BY <1>1, <1>3, SeqMonotonic
<1>5. Len(line') = Len(line) + 1
  BY <1>2, <1>3, <1>4, AppendProperties
<1>6. QED BY <1>5 DEF Insert

LEMMA LineChanged ==
  ASSUME Shape, Change
  PROVE  Len(line') = Len(line) /\ present' = present
<1>0. PICK id \in present : \E l : line' = [line EXCEPT ![id] = l]
  BY DEF Change
<1>1. PICK l : line' = [line EXCEPT ![id] = l]
  BY <1>0
<1> DEFINE n == Len(line)
<1>2. n \in Nat /\ DOMAIN line = 1..n /\ line = [k \in DOMAIN line |-> line[k]]
  BY DEF Shape, LineOK
<1> HIDE DEF n
<1>3. line' = [k \in 1..n |-> line'[k]]
  BY <1>1, <1>2
<1>4. line' \in [1..n -> {line'[k] : k \in 1..n}]
  BY <1>3
<1>5. Len(line') = n
  BY <1>2, <1>4, FunctionIsSeq
<1>6. QED BY <1>5 DEF Change, n

\* What is not deleted now was not before, but for Delete itself.
LEMMA IntactBefore ==
  ASSUME Shape, Next, Intact'
  PROVE  Intact
<1>1. Len(line) \in Nat /\ present \subseteq 1..Len(line) /\ line \in Seq(EvenLine)
  BY DEF Shape, LineOK
<1>2. CASE UNCHANGED << line, present >>
  BY <1>2 DEF Intact
<1>3. CASE Insert
  <2>1. Len(line') = Len(line) + 1 /\ present' = present \union {Len(line) + 1}
    BY <1>3, LineInserted
  <2>3. present \union {Len(line) + 1} = 1..(Len(line) + 1)
    BY <2>1 DEF Intact
  <2>4. ASSUME NEW x \in 1..Len(line) PROVE x \in present
    <3>1. x \in 1..(Len(line) + 1) /\ x # Len(line) + 1
      BY <1>1
    <3>2. QED BY <2>3, <3>1
  <2>5. QED BY <1>1, <2>4 DEF Intact
<1>4. CASE Change
  BY <1>4, LineChanged DEF Intact
<1>5. CASE Delete
  <2>1. PICK id \in present : present' = present \ {id}
    BY <1>5 DEF Delete
  <2>2. line' = line
    BY <1>5 DEF Delete
  <2>3. id \notin present' /\ id \in 1..Len(line)
    BY <1>1, <2>1
  <2>4. QED BY <2>2, <2>3 DEF Intact
<1>6. CASE BuildH \/ BuildQ \/ Certificate \/ SiftQ \/ Finish \/ InsertLoop \/ Advance \/ AdvanceLoop \/ DeleteLoop
  <2>1. UNCHANGED << line, present >>
    BY <1>6 DEF BuildH, BuildQ, Certificate, SiftQ, Finish, InsertLoop, Advance, AdvanceLoop, DeleteLoop,
                elements, user, Event
  <2>2. QED BY <1>2, <2>1
<1>7. QED BY <1>3, <1>4, <1>5, <1>6 DEF Next

LEMMA WholeStutter == Whole /\ UNCHANGED vars => Whole'
<1> SUFFICES ASSUME Whole, UNCHANGED vars PROVE Whole'
  OBVIOUS
<1>1. UNCHANGED << now, line, index, H, size, h, m, sift, todo, task >>
  BY DEF vars, elements, queue
<1>2. Moving' /\ InOrder'
  BY <1>1, MovingKept, OrderKept DEF Whole
<1>3. Numbered' /\ Filed' /\ Sifting'
  BY <1>1 DEF Whole, Numbered, Filed, Sifting
<1>4. OneByOne' /\ UpToDate'
  <2>1. Waiting' = Waiting /\ DOMAIN m' = DOMAIN m
    BY <1>1 DEF Waiting, Calls
  <2>2. \A i : Expiry(i)' = Expiry(i) /\ Failure_Time(i)' = Failure_Time(i) /\ Due(i)' = Due(i)
    BY <1>1, TimesKept, DueKept DEF Expiry
  <2>3. OneByOne'
    BY <2>1, <2>2 DEF Whole, OneByOne
  <2>4. UpToDate'
    BY <2>1, <2>2 DEF Whole, UpToDate
  <2>5. QED BY <2>3, <2>4
<1>5. Calling'
  BY <1>1 DEF Whole, Calling, IsNew
<1>6. QED BY <1>2, <1>3, <1>4, <1>5 DEF Whole

LEMMA IntactNext == Shape /\ Shape' /\ IntactInv /\ [Next]_vars => IntactInv'
<1> SUFFICES ASSUME Shape, Shape', IntactInv, [Next]_vars, Intact' PROVE Whole'
  BY DEF IntactInv
<1>1. CASE UNCHANGED vars
  <2>1. Intact
    BY <1>1 DEF vars, elements, user, Intact
  <2>2. QED BY <1>1, <2>1, WholeStutter DEF IntactInv
<1>2. CASE Next
  <2>1. Intact /\ Whole
    BY <1>2, IntactBefore DEF IntactInv
  <2>2. ~ DeleteLoop
    BY <2>1 DEF DeleteLoop, Whole, Calling
  <2>3. ~ Delete
    <3>1. SUFFICES ASSUME Delete PROVE FALSE
      OBVIOUS
    <3>2. PICK id \in present : present' = present \ {id}
      BY <3>1 DEF Delete
    <3>3. line' = line
      BY <3>1 DEF Delete
    <3>4. QED BY <2>1, <3>2, <3>3 DEF Intact
  <2>4. QED BY <1>2, <2>1, <2>2, <2>3, WholeBuildH, WholeBuildQ, WholeCertificate, WholeSiftQ, WholeFinish,
               WholeInsert, WholeInsertLoop, WholeAdvance, WholeAdvanceLoop, WholeChange DEF Next
<1>3. QED BY <1>1, <1>2

\* At every turn of every loop, as long as nothing has been deleted, the two heaps, the
\* indexes between them and the calls that wait stand as Whole says.
THEOREM KineticIntact == Spec => [](Shape /\ IntactInv)
<1>1. Init => Shape /\ IntactInv
  BY ShapeInit, WholeInit DEF IntactInv
<1>2. Shape /\ IntactInv /\ [Next]_vars => (Shape /\ IntactInv)'
  BY ShapeNext, IntactNext
<1>3. QED BY <1>1, <1>2, PTL DEF Spec

\* As long as nothing has been deleted, between two commands the indexes are right,
\* everybody is behind its parent, and each position but the root's has one certificate,
\* with the next meeting of the two that it is about.
THEOREM KineticCertified == Spec => []Certified
<1>1. Shape /\ IntactInv => Certified
  <2> SUFFICES ASSUME Shape, Whole, task = Ready, Intact
               PROVE  /\ \A i \in 1..size : index[H[i]] = i
                      /\ \A i \in 2..size : Key(H[i]) < Key(H[i \div 2])
                      /\ \A i \in 2..size : h[m[i]] = [id |-> i, t |-> Failure_Time(i)]
                      /\ Len(h) = size - 1
    BY DEF Certified, IntactInv
  <2>1. task.op = "ready"
    BY DEF Ready
  <2>2. /\ Numbered /\ Filed /\ DOMAIN m = 2..size /\ Len(h) = size - 1 /\ QOK /\ Len(H) \in Nat
        /\ \A i \in 2..size : Behind(i, i \div 2) /\ Expiry(i) = Failure_Time(i)
    BY <2>1, AtRest DEF Shape, HOK
  <2>3. ASSUME NEW i \in 2..size PROVE h[m[i]] = [id |-> i, t |-> Failure_Time(i)]
    <3>1. m[i] \in 1..Len(h) /\ h[m[i]] = [id |-> h[m[i]].id, t |-> h[m[i]].t]
      <4>1. m[i] \in 1..Len(h)
        BY <2>2, <2>3, Certificates
      <4>2. QED BY <2>2, <4>1, Certificates
    <3>2. h[m[i]].id = i /\ h[m[i]].t = Failure_Time(i)
      BY <2>2, <2>3 DEF Filed, Expiry
    <3>3. QED BY <3>1, <3>2
  <2>4. QED BY <2>2, <2>3 DEF Numbered, Behind
<1>2. QED BY <1>1, KineticIntact, PTL

\* As long as nothing has been deleted, whenever a call of Q is over no certificate
\* expires before its parent, whatever the turn of whatever loop.
THEOREM KineticFirstExpiry == Spec => []FirstExpiryFirst
<1>1. Shape /\ IntactInv => FirstExpiryFirst
  BY SettledOrder DEF FirstExpiryFirst, IntactInv, Whole
<1>2. QED BY <1>1, KineticIntact, PTL

-----------------------------------------------------------------------------
\* A Delete that is the last command.

LEMMA LastDeleteNext == ~ AfterDelete /\ Shape /\ LastDelete /\ [Next]_vars => LastDelete'
<1> SUFFICES ASSUME ~ AfterDelete, Shape, LastDelete, [Next]_vars PROVE LastDelete'
  OBVIOUS
<1>1. CASE UNCHANGED << line, present, task >>
  BY <1>1 DEF LastDelete, Intact
<1>2. CASE BuildH \/ BuildQ
  BY <1>2 DEF BuildH, BuildQ, LastDelete, Intact, user, elements
<1>3. CASE Certificate \/ SiftQ
  <2>1. UNCHANGED << line, present, task >>
    BY <1>3 DEF Certificate, SiftQ, elements, user
  <2>2. QED BY <1>1, <2>1
<1>4. CASE Finish
  BY <1>4 DEF Finish, Return, Ready, LastDelete
<1>5. CASE Insert
  <2>1. Intact
    BY <1>5 DEF Insert, May
  <2>2. Len(line') = Len(line) + 1 /\ present' = present \union {Len(line) + 1} /\ Len(line) \in Nat
    BY <1>5, LineInserted DEF Shape, LineOK
  <2>3. present' = 1..Len(line')
    BY <2>1, <2>2 DEF Intact
  <2>4. QED BY <2>3 DEF Intact, LastDelete
<1>6. CASE InsertLoop
  BY <1>6 DEF InsertLoop, Event, Return, Ready, LastDelete, Intact, elements, user
<1>7. CASE Advance
  BY <1>7 DEF Advance, May, LastDelete, Intact, elements, user
<1>8. CASE AdvanceLoop
  BY <1>8 DEF AdvanceLoop, Event, Return, Ready, LastDelete, Intact, elements, user
<1>9. CASE Change
  <2>1. Intact
    BY <1>9 DEF Change, May
  <2>2. QED BY <1>9, <2>1, LineChanged DEF Intact, LastDelete
<1>10. CASE Delete
  BY <1>10 DEF Delete, LastDelete
<1>11. CASE DeleteLoop
  BY <1>11 DEF DeleteLoop, Return, Ready, LastDelete
<1>12. CASE UNCHANGED vars
  <2>1. UNCHANGED << line, present, task >>
    BY <1>12 DEF vars, elements, user
  <2>2. QED BY <1>1, <2>1
<1>13. QED
  BY <1>2, <1>3, <1>4, <1>5, <1>6, <1>7, <1>8, <1>9, <1>10, <1>11, <1>12 DEF Next

LEMMA LastDeleteInit == Init => LastDelete
<1> SUFFICES ASSUME Init PROVE Intact
  BY DEF LastDelete
<1>1. PICK n \in Built : line \in [1..n -> Line] /\ present = 1..n
  BY Zenon DEF Init
<1>2. n \in Nat
  BY IdsFinite, KineticAssumption
<1>3. QED BY <1>1, <1>2, FunctionIsSeq DEF Intact

\* Until the command after a Delete the time never goes back: no certificate that
\* Advance meets expired before now.
LEMMA NeverBackStep == Shape /\ IntactInv /\ LastDelete /\ [Next]_vars => now' >= now
<1> SUFFICES ASSUME Shape, IntactInv, LastDelete, [Next]_vars PROVE now' >= now
  OBVIOUS
<1>1. now \in Nat
  BY BoundsOK DEF Shape, ClockOK
<1>2. CASE AdvanceLoop
  <2>1. task.op = "advance" /\ Idle
    BY <1>2 DEF AdvanceLoop
  <2>2. Whole
    BY <2>1 DEF LastDelete, IntactInv
  <2>3. CASE h[1].t <= task.to
    <3>1. PICK e \in 2..size : e = h[1].id
      BY <2>1, <2>2, AllUpToDate
    <3>2. PICK t : t = h[1].t
      OBVIOUS
    <3>3. t > now /\ t \in Nat
      BY <2>1, <2>2, <2>3, <3>1, <3>2, EventPlaces
    <3>4. now' = t
      BY <1>2, <2>3, <3>2 DEF AdvanceLoop, Q_Min
    <3>5. QED BY <1>1, <3>3, <3>4
  <2>4. CASE ~ h[1].t <= task.to
    BY <1>2, <2>1, <2>2, <2>4 DEF AdvanceLoop, Q_Min, Whole, Moving
  <2>5. QED BY <2>3, <2>4
<1>3. CASE BuildH \/ BuildQ \/ Certificate \/ SiftQ \/ Finish \/ Insert \/ InsertLoop \/ Advance \/ Change \/ Delete \/ DeleteLoop
  <2>1. now' = now
    BY <1>3 DEF BuildH, BuildQ, Certificate, SiftQ, Finish, Insert, InsertLoop, Advance, Change, Delete, DeleteLoop
  <2>2. QED BY <1>1, <2>1
<1>4. CASE UNCHANGED vars
  BY <1>1, <1>4 DEF vars
<1>5. QED BY <1>2, <1>3, <1>4 DEF Next

\* As long as no command follows a Delete the time never goes back: a certificate that
\* has expired is dealt with at its moment, and what it makes again expires later.
THEOREM KineticNeverBack ==
  ASSUME AfterDelete = FALSE
  PROVE  Spec => NeverBack
<1>1. Init => LastDelete
  BY LastDeleteInit
<1>2. Shape /\ LastDelete /\ [Next]_vars => LastDelete'
  BY LastDeleteNext
<1>3. Spec => []LastDelete
  <2>1. Spec => []Shape
    BY KineticShape
  <2>2. QED BY <1>1, <1>2, <2>1, PTL DEF Spec
<1>4. Shape /\ IntactInv /\ LastDelete /\ [Next]_vars => [now' >= now]_vars
  BY NeverBackStep
<1>5. QED BY <1>3, <1>4, KineticIntact, PTL DEF Spec, NeverBack

-----------------------------------------------------------------------------
\* The maximum.

\* A certificate made anew expires later than now, whatever the elements.
LEMMA FailsLater ==
  ASSUME Shape, NEW i \in 2..Len(H)
  PROVE  Failure_Time(i) \in Nat /\ Failure_Time(i) > now
<1>1. now \in Nat /\ now < INFTY
  BY BoundsOK DEF Shape, ClockOK
<1>2. i \in 1..Len(H) /\ i \div 2 \in 1..Len(H)
  BY DEF Shape, HOK
<1>3. line[H[i]] \in EvenLine /\ line[H[i \div 2]] \in EvenLine
  BY <1>2, LinesAt DEF Shape
<1>4. QED BY <1>1, <1>3, FailLater, FailureTime

\* If everybody is behind its parent, but for one that is behind the root, and whose
\* children are behind its parent, the root is the maximum.
LEMMA RootAhead ==
  ASSUME Shape, size >= 1, NEW q \in Nat,
         \A j \in 2..size :
           /\ j # q /\ j \div 2 # q => Behind(j, j \div 2)
           /\ j \div 2 = q => IF q >= 2 THEN Behind(j, q \div 2) ELSE Behind(j, q),
         q \in 2..size => Behind(q, 1)
  PROVE  \A j \in 1..size : Key(H[j]) <= Key(H[1])
<1> DEFINE K(j) == Key(H[j])
           p(j) == IF j = q /\ q >= 2 THEN q \div 2 ELSE j
           f == [j \in 1..size |-> 0 - K(p(j))]
<1>1. size \in Nat /\ size <= Len(H) /\ now \in Int
  BY BoundsOK DEF Shape, HOK, ClockOK
<1>2. ASSUME NEW j \in 1..size PROVE K(j) \in Int
  <2>1. j \in 1..Len(H)
    BY <1>1 DEF Shape, HOK
  <2>2. line[H[j]] \in EvenLine
    BY <2>1, LinesAt DEF Shape
  <2>3. QED BY <1>1, <2>2, PlaceInteger DEF Key, Place
<1>3. \A j \in 2..size :
        /\ j # q /\ j \div 2 # q => K(j) < K(j \div 2)
        /\ j \div 2 = q => IF q >= 2 THEN K(j) < K(q \div 2) ELSE K(j) < K(q)
  BY DEF Behind
<1>4. q \in 2..size => K(q) < K(1)
  BY DEF Behind
<1> HIDE DEF K
<1>5. ASSUME NEW j \in 1..size PROVE p(j) \in 1..size /\ f[j] = 0 - K(p(j)) /\ f[j] \in Int
  <2>1. p(j) \in 1..size
    BY <1>1
  <2>2. f[j] = 0 - K(p(j))
    OBVIOUS
  <2>3. QED BY <1>2, <2>1, <2>2
<1>6. ASSUME NEW j \in 2..size PROVE f[j \div 2] <= f[j]
  <2>1. j \in 1..size /\ j \div 2 \in 1..size /\ j # j \div 2 /\ j \in Nat /\ j \div 2 >= 1
    BY <1>1
  <2>2. /\ f[j] = 0 - K(p(j)) /\ K(p(j)) \in Int
        /\ f[j \div 2] = 0 - K(p(j \div 2)) /\ K(p(j \div 2)) \in Int
    BY <1>2, <1>5, <2>1
  <2>3. K(p(j)) <= K(p(j \div 2))
    <3>1. CASE j = q
      <4>1. p(j) = j \div 2 /\ p(j \div 2) = j \div 2
        BY <2>1, <3>1
      <4>2. QED BY <2>2, <4>1
    <3>2. CASE j # q /\ j \div 2 # q
      <4>1. p(j) = j /\ p(j \div 2) = j \div 2
        BY <3>2
      <4>2. K(j) < K(j \div 2)
        BY <1>3, <3>2
      <4>3. QED BY <2>2, <4>1, <4>2
    <3>3. CASE j # q /\ j \div 2 = q /\ q >= 2
      <4>1. p(j) = j /\ p(j \div 2) = q \div 2
        BY <3>3
      <4>2. K(j) < K(q \div 2)
        BY <1>3, <3>3
      <4>3. QED BY <2>2, <4>1, <4>2
    <3>4. CASE j # q /\ j \div 2 = q /\ ~ q >= 2
      <4>1. p(j) = j /\ p(j \div 2) = q
        BY <3>4
      <4>2. K(j) < K(q)
        BY <1>3, <3>4
      <4>3. QED BY <2>2, <4>1, <4>2
    <3>5. QED BY <3>1, <3>2, <3>3, <3>4
  <2> HIDE DEF f, p
  <2>4. QED BY <2>2, <2>3
<1> HIDE DEF f
<1>7. \A j \in 1..size : f[1] <= f[j]
  BY <1>1, <1>5, <1>6, Root
<1>8. ASSUME NEW j \in 1..size PROVE K(j) <= K(1)
  <2>1. 1 \in 1..size /\ p(1) = 1 /\ K(1) \in Int /\ K(j) \in Int
    BY <1>1, <1>2
  <2>2. CASE j = q /\ q >= 2
    BY <1>4, <2>1, <2>2
  <2>3. CASE ~ (j = q /\ q >= 2)
    <3>1. p(j) = j
      BY <2>3
    <3>2. f[1] <= f[j] /\ f[1] = 0 - K(1) /\ f[j] = 0 - K(j)
      BY <1>5, <1>7, <2>1, <3>1
    <3>3. QED BY <2>1, <3>2
  <2>4. QED BY <2>2, <2>3
<1>9. QED BY <1>8 DEF K

LEMMA IntactMaximum ==
  ASSUME Shape, IntactInv, Intact
  PROVE  MaxIsMaximum
<1> SUFFICES ASSUME task = Ready PROVE H[1] \in present /\ \A id \in present : Key(id) <= Key(H[1])
  BY DEF MaxIsMaximum
<1>1. task.op = "ready"
  BY DEF Ready
<1>2. /\ Numbered /\ size \in Nat /\ size >= 2 /\ size = Len(line) /\ size = Len(H)
      /\ \A j \in 2..size : Behind(j, j \div 2)
  BY <1>1, AtRest DEF IntactInv
<1>3. \A j \in 1..size : Key(H[j]) <= Key(H[1])
  <2>1. \A j \in 2..size : j \div 2 # 0
    BY <1>2
  <2>2. QED BY <1>2, <2>1, RootAhead
<1>4. ASSUME NEW id \in present PROVE Key(id) <= Key(H[1])
  <2>1. id \in 1..Len(line) /\ index[id] \in 1..size /\ H[index[id]] = id
    BY <1>2 DEF Shape, LineOK, HOK, Numbered
  <2>2. Key(H[index[id]]) <= Key(H[1])
    BY <1>3, <2>1
  <2>3. QED BY <2>1, <2>2
<1>5. H[1] \in 1..Len(line)
  BY <1>2 DEF Shape, HOK
<1>6. QED BY <1>4, <1>5 DEF Intact

-----------------------------------------------------------------------------
\* A Delete that is the last command: what is in H.

LEMMA RemovedPlaces ==
  ASSUME Shape, Removed
  PROVE  /\ Len(H) \in Nat /\ Len(H) >= 2 /\ size \in Nat /\ size >= 1 /\ Len(H) = size + 1 /\ Len(line) = Len(H)
         /\ H \in Seq(1..Len(line)) /\ \A i \in 1..Len(H) : H[i] \in 1..Len(line)
         /\ \A id \in 1..Len(line) : index[id] \in 1..Len(H)
         /\ \A x \in 1..size : index[H[x]] = x
         /\ now \in Nat
<1>1. /\ Len(H) \in Nat /\ Len(H) >= 2 /\ H \in Seq(1..Len(line)) /\ index \in [1..Len(line) -> 1..Len(H)]
      /\ now \in Nat /\ Len(line) = Len(H)
  BY BoundsOK DEF Shape, HOK, ClockOK, Removed
<1>2. size = Len(H) - 1 /\ \A x \in 1..Len(H) : index[H[x]] = x
  BY <1>1 DEF Removed
<1>3. size \in Nat /\ size >= 1 /\ \A x \in 1..size : x \in 1..Len(H)
  BY <1>1, <1>2
<1>4. \A i \in 1..Len(H) : H[i] \in 1..Len(line)
  BY <1>1
<1>5. \A id \in 1..Len(line) : index[id] \in 1..Len(H)
  BY <1>1
<1>6. Len(H) = size + 1
  BY <1>1, <1>2
<1>7. \A x \in 1..size : index[H[x]] = x
  BY <1>2, <1>3
<1>8. QED BY <1>1, <1>3, <1>4, <1>5, <1>6, <1>7

\* A swap of two places in use removes nobody.
LEMMA RemovedSwapped ==
  ASSUME Shape, Removed, NEW i \in 1..size, NEW j \in 1..size, Swap(i, j), UNCHANGED << line, size, present >>
  PROVE  /\ Removed' /\ H'[i] = H[j] /\ H'[j] = H[i]
         /\ \A k \in 1..size : k # i /\ k # j => H'[k] = H[k]
         /\ index'[H[i]] = j /\ index'[H[j]] = i
<1>1. Len(H) = size + 1 /\ size \in Nat /\ Len(line) = Len(H)
  BY RemovedPlaces
<1>2. i \in 1..Len(H) /\ j \in 1..Len(H)
  BY <1>1
<1>3. /\ Len(H') = Len(line) /\ H'[i] = H[j] /\ H'[j] = H[i]
      /\ \A k \in 1..Len(H) : k # i /\ k # j => H'[k] = H[k]
      /\ index'[H[i]] = j /\ index'[H[j]] = i
      /\ \A k \in 1..Len(line) : index'[H'[k]] = k
      /\ \A id \in 1..Len(line) : H'[index'[id]] = id
  BY <1>1, <1>2, Permuted DEF Shape, Removed
<1>4. \A k \in 1..size : k \in 1..Len(H)
  BY <1>1
<1>5. {H'[k] : k \in 1..size} = {H[k] : k \in 1..size}
  <2>1. ASSUME NEW k \in 1..size PROVE \E l \in 1..size : H'[l] = H[k]
    BY <1>3, <1>4
  <2>2. ASSUME NEW k \in 1..size PROVE \E l \in 1..size : H[l] = H'[k]
    BY <1>3, <1>4
  <2>3. QED BY <2>1, <2>2
<1>6. Removed'
  <2>1. /\ Len(H') = Len(line') /\ size' = Len(line') - 1
        /\ present' = {H'[k] : k \in 1..size'}
    BY <1>3, <1>5 DEF Removed
  <2>2. QED BY <1>3, <2>1 DEF Removed
<1>7. QED BY <1>3, <1>4, <1>6

\* The calls for the children of a place, each once.
ChildrenOnce(s, q, n) ==
  /\ Len(s) \in Nat
  /\ \A k \in 1..Len(s) : s[k].i \in 2..n /\ s[k].i \div 2 = q /\ s[k].rule = "child"
  /\ \A k, l \in 1..Len(s) : k # l => s[k].i # s[l].i
  /\ \A j \in 2..n : j \div 2 = q => \E k \in 1..Len(s) : s[k].i = j
LEMMA ChildrenCalls ==
  ASSUME NEW n \in Nat, NEW q \in Nat, q >= 1
  PROVE  ChildrenOnce(MakeChildren(q, n, "child"), q, n)
<1> SUFFICES ASSUME NEW s, s = MakeChildren(q, n, "child") PROVE ChildrenOnce(s, q, n)
  OBVIOUS
<1> DEFINE C(j) == [i |-> j, rule |-> "child"]
<1>1. Make(2 * q, "child") = << C(2 * q) >> /\ Make(2 * q + 1, "child") = << C(2 * q + 1) >>
  BY DEF Make
<1>2. \A j \in 2..n : j \div 2 = q => j = 2 * q \/ j = 2 * q + 1
  OBVIOUS
<1>3. CASE 2 * q > n
  <2>1. s = << >> \o << >>
    BY <1>3 DEF MakeChildren
  <2>2. s = << >> /\ Len(s) = 0
    BY <2>1
  <2>3. \A j \in 2..n : j \div 2 # q
    BY <1>2, <1>3
  <2>4. 1..Len(s) = {}
    BY <2>2
  <2>5. QED BY <2>2, <2>3, <2>4, Zenon DEF ChildrenOnce
<1>4. CASE 2 * q = n
  <2>0. 2 * q <= n /\ ~ 2 * q + 1 <= n
    BY <1>4
  <2>1. s = << C(2 * q) >> \o << >>
    BY <1>1, <2>0 DEF MakeChildren
  <2>2. s = << C(2 * q) >>
    BY <2>1
  <2>3. Len(s) = 1 /\ s[1].i = 2 * q /\ s[1].rule = "child" /\ 2 * q \in 2..n /\ (2 * q) \div 2 = q
    BY <1>4, <2>2
  <2>4. \A j \in 2..n : j \div 2 = q => j = 2 * q
    BY <1>2, <1>4
  <2>5. QED BY <2>3, <2>4 DEF ChildrenOnce
<1>5. CASE 2 * q < n
  <2>0. 2 * q <= n /\ 2 * q + 1 <= n
    BY <1>5
  <2>1. s = << C(2 * q) >> \o << C(2 * q + 1) >>
    BY <1>1, <2>0 DEF MakeChildren
  <2>2. s = << C(2 * q), C(2 * q + 1) >>
    BY <2>1
  <2>3. /\ Len(s) = 2 /\ s[1].i = 2 * q /\ s[1].rule = "child" /\ s[2].i = 2 * q + 1 /\ s[2].rule = "child"
        /\ 2 * q \in 2..n /\ (2 * q) \div 2 = q /\ 2 * q + 1 \in 2..n /\ (2 * q + 1) \div 2 = q
    BY <1>5, <2>2
  <2>4. QED BY <1>2, <2>3 DEF ChildrenOnce
<1>6. QED BY <1>3, <1>4, <1>5

LEMMA DeletingStarts ==
  ASSUME Shape, Shape', Whole, Intact, Delete
  PROVE  Deleting'
<1>1. PICK id \in present :
        /\ Swap(index[id], size)
        /\ task' = [op |-> "delete", id |-> H[size]]
        /\ todo' = MakeChildren(index[id], size - 1, "child")
        /\ present' = present \ {id}
  BY DEF Delete
<1>2. size' = size - 1 /\ UNCHANGED << now, line, h, m, sift >> /\ task.op = "ready"
  BY DEF Delete, queue, May, Ready
<1>3. /\ Numbered /\ Apart(now) /\ size \in Nat /\ size >= 2 /\ size = Len(line) /\ size = Len(H)
      /\ DOMAIN m = 2..size /\ Len(h) = size - 1 /\ Filed /\ now \in Nat
      /\ \A j \in 2..size : Behind(j, j \div 2)
      /\ \A i \in 2..size : Expiry(i) = Failure_Time(i)
  BY <1>2, AtRest
<1>4. PICK n \in Nat : n = size
  BY <1>3
<1>5. id \in 1..n /\ present = 1..n /\ index \in [1..n -> 1..n] /\ H \in Seq(1..n)
  BY <1>3, <1>4 DEF Intact, Shape, HOK
<1>6. PICK q \in 1..n : q = index[id]
  BY <1>5
<1>7. /\ Len(H') = n /\ H'[q] = H[n] /\ H'[n] = H[q]
      /\ \A k \in 1..n : k # q /\ k # n => H'[k] = H[k]
      /\ index'[H[n]] = q
      /\ \A k \in 1..n : index'[H'[k]] = k
      /\ \A x \in 1..n : H'[index'[x]] = x
  <2>1. n \in 1..Len(H) /\ q \in 1..Len(H) /\ Swap(q, n) /\ Len(H) = Len(line) /\ HOK /\ line' = line
    BY <1>1, <1>2, <1>3, <1>4, <1>6 DEF Shape
  <2>2. /\ Len(H') = Len(line) /\ H'[q] = H[n] /\ H'[n] = H[q]
        /\ \A k \in 1..Len(H) : k # q /\ k # n => H'[k] = H[k]
        /\ index'[H[q]] = n /\ index'[H[n]] = q
        /\ \A k \in 1..Len(line) : index'[H'[k]] = k
        /\ \A x \in 1..Len(line) : H'[index'[x]] = x
    BY <1>3, <2>1, Permuted DEF Numbered
  <2>3. QED BY <1>3, <1>4, <2>2
<1>8. H[q] = id /\ (\A k \in 1..n : H'[k] \in 1..n) /\ (\A x \in 1..n : index'[x] \in 1..n)
  <2>1. H[q] = id
    BY <1>3, <1>4, <1>5, <1>6 DEF Numbered
  <2>2. HOK' /\ Len(line') = n /\ Len(H') = n
    BY <1>2, <1>3, <1>4, <1>7 DEF Shape
  <2>3. H' \in Seq(1..n) /\ index' \in [1..n -> 1..n]
    BY <2>2 DEF HOK
  <2>4. ASSUME NEW k \in 1..n PROVE H'[k] \in 1..n
    <3>1. PICK f \in Seq(1..n) : f = H'
      BY <2>3
    <3>2. k \in 1..Len(f)
      BY <2>2, <3>1
    <3>3. f[k] \in 1..n
      BY <3>1, <3>2
    <3>4. QED BY <3>1, <3>3
  <2>5. QED BY <2>1, <2>3, <2>4
<1>9. Removed'
  <2>1. ASSUME NEW x PROVE x \in present' <=> x \in {H'[k] : k \in 1..(n - 1)}
    <3>1. ASSUME x \in present' PROVE \E k \in 1..(n - 1) : x = H'[k]
      <4>1. x \in 1..n /\ x # id
        BY <1>1, <1>5, <3>1
      <4>2. index'[x] \in 1..n /\ H'[index'[x]] = x /\ index'[x] # n
        BY <1>7, <1>8, <4>1
      <4>3. index'[x] \in 1..(n - 1)
        BY <4>2
      <4>4. QED BY <4>2, <4>3
    <3>2. ASSUME NEW k \in 1..(n - 1), x = H'[k] PROVE x \in present'
      <4>1. k \in 1..n /\ n \in 1..n /\ k # n
        OBVIOUS
      <4>2. H'[k] # H'[n]
        BY <1>7, <4>1
      <4>3. QED BY <1>1, <1>5, <1>7, <1>8, <3>2, <4>1, <4>2
    <3>3. QED BY <3>1, <3>2
  <2>2. present' = {H'[k] : k \in 1..(n - 1)}
    BY <2>1
  <2>3. Len(line') = n /\ size' = n - 1
    BY <1>2, <1>3, <1>4
  <2>4. QED BY <1>7, <2>2, <2>3 DEF Removed
<1>10. Hole' = q
  BY <1>1, <1>4, <1>7 DEF Hole
<1> DEFINE K(x) == Key(H[x])
<1>11. /\ \A x \in 1..n : K(x) \in Int
       /\ \A x, y \in 1..n : x # y => K(x) # K(y)
       /\ \A j \in 2..n : K(j) < K(j \div 2)
       /\ \A j \in 1..n : K(j) <= K(1)
  <2>1. \A x, y \in 1..n : x # y => K(x) # K(y) /\ K(x) \in Int /\ K(y) \in Int
    BY <1>3, <1>4, KeysDiffer
  <2>2. \A x \in 1..n : \E y \in 1..n : x # y
    <3>1. \A x \in 1..n : (x # 1 => 1 \in 1..n) /\ (x = 1 => 2 \in 1..n)
      BY <1>3, <1>4
    <3>2. QED BY <3>1
  <2>3. \A j \in 2..size : j \div 2 # 0
    BY <1>3
  <2>4. \A j \in 1..n : K(j) <= K(1)
    BY <1>3, <1>4, <2>3, RootAhead
  <2>5. QED BY <1>3, <1>4, <2>1, <2>2, <2>4 DEF Behind
<1> HIDE DEF K
<1> DEFINE L(x) == Key(H'[x])
<1>12. \A x \in 1..n : L(x) = IF x = q THEN K(n) ELSE IF x = n THEN K(q) ELSE K(x)
  BY <1>7 DEF K
<1> HIDE DEF L
<1>12a. \A x, y : L(x) < L(y) <=> Behind(x, y)'
  BY <1>2 DEF L, Key, Behind
<1>13. DeleteOrder'
  <2>1. ASSUME NEW j \in 2..(n - 1)
        PROVE  /\ j # q /\ j \div 2 # q => L(j) < L(j \div 2)
               /\ j \div 2 = q /\ q >= 2 => L(j) < L(q \div 2)
    <3>1. j \in 1..n /\ j # n /\ j \div 2 \in 1..n /\ j \div 2 # n /\ j \in 2..n
      OBVIOUS
    <3>2. CASE j # q /\ j \div 2 # q
      <4>1. L(j) = K(j) /\ L(j \div 2) = K(j \div 2)
        BY <1>12, <3>1, <3>2
      <4>2. QED BY <1>11, <3>1, <3>2, <4>1
    <3>3. CASE j \div 2 = q /\ q >= 2
      <4>1. q \div 2 \in 1..n /\ q \div 2 # n /\ q \div 2 # q /\ j # q /\ q \in 2..n
        BY <3>1, <3>3
      <4>2. L(j) = K(j) /\ L(q \div 2) = K(q \div 2)
        BY <1>12, <3>1, <4>1
      <4>3. K(j) < K(q) /\ K(q) < K(q \div 2) /\ K(j) \in Int /\ K(q) \in Int /\ K(q \div 2) \in Int
        BY <1>11, <3>1, <3>3, <4>1
      <4>4. j # q
        BY <3>1, <3>3
      <4>5. QED BY <3>3, <4>2, <4>3, <4>4
    <3>4. QED BY <3>2, <3>3
  <2>2. ASSUME q # 1 PROVE L(q) < L(1)
    <3>1. 1 \in 1..n /\ 1 # n /\ n \in 1..n
      BY <1>3, <1>4
    <3>2. L(q) = K(n) /\ L(1) = K(1)
      BY <1>12, <2>2, <3>1
    <3>3. K(n) <= K(1) /\ K(n) # K(1) /\ K(n) \in Int /\ K(1) \in Int
      BY <1>11, <3>1
    <3>4. QED BY <3>2, <3>3
  <2>3. size' = n - 1
    BY <1>2, <1>4
  <2>4. ASSUME NEW j \in 2..(n - 1)
        PROVE  /\ j # q /\ j \div 2 # q => Behind(j, j \div 2)'
               /\ j \div 2 = q /\ q >= 2 => Behind(j, q \div 2)'
    BY <1>12a, <2>1
  <2>5. q # 1 => Behind(q, 1)'
    BY <1>12a, <2>2
  <2>6. QED BY <1>10, <2>3, <2>4, <2>5 DEF DeleteOrder
<1>14. todo' = MakeChildren(q, n - 1, "child") /\ n - 1 \in Nat
  BY <1>1, <1>3, <1>4, <1>6
<1>15. /\ Len(todo') \in Nat
       /\ \A k \in 1..Len(todo') : todo'[k].i \in 2..(n - 1) /\ todo'[k].i \div 2 = q /\ todo'[k].rule = "child"
       /\ \A k, l \in 1..Len(todo') : k # l => todo'[k].i # todo'[l].i
       /\ \A j \in 2..(n - 1) : j \div 2 = q => \E k \in 1..Len(todo') : todo'[k].i = j
  <2>1. PICK s : s = todo'
    OBVIOUS
  <2>2. PICK a \in Nat : a = n - 1
    BY <1>14
  <2>3. s = MakeChildren(q, a, "child") /\ q \in Nat /\ q >= 1
    BY <1>14, <2>1, <2>2
  <2>4. ChildrenOnce(s, q, a)
    BY <2>3, ChildrenCalls
  <2>5. ChildrenOnce(s, q, n - 1)
    BY <2>2, <2>4
  <2>6. QED BY <2>1, <2>5 DEF ChildrenOnce
<1>16. DeleteCalling'
  <2>1. size' = n - 1
    BY <1>2, <1>4
  <2>2. QED BY <1>10, <1>15, <2>1 DEF DeleteCalling
<1>17. DeleteDue'
  <2>1. \A i \in DOMAIN m' : Expiry(i)' > now' /\ Expiry(i)' \in Nat /\ now' \in Nat
    <3>1. \A i \in 2..size : Failure_Time(i) \in Nat /\ Failure_Time(i) > now
      BY <1>3, FailsLater
    <3>2. \A i : Expiry(i)' = Expiry(i)
      BY <1>2 DEF Expiry
    <3>3. QED BY <1>2, <1>3, <3>1, <3>2
  <2>2. \A j \in 1..Len(h') : h'[j].t > now'
    <3>1. \A j \in 1..Len(h') : h'[j].id \in DOMAIN m' /\ m'[h'[j].id] = j
      BY <1>2, <1>3 DEF Filed
    <3>2. QED BY <2>1, <3>1 DEF Expiry
  <2>3. ASSUME NEW i \in DOMAIN m' \ Waiting' PROVE i \notin Ahead(Hole)'
    <3>1. SUFFICES ASSUME i \in Ahead(Hole)' PROVE FALSE
      OBVIOUS
    <3>2. i \in {2 * q, 2 * q + 1} /\ i <= n - 1
      BY <1>2, <1>4, <1>10, <3>1 DEF Ahead, Children
    <3>3. i \in 2..(n - 1) /\ i \div 2 = q
      BY <3>2
    <3>4. PICK k \in 1..Len(todo') : todo'[k].i = i
      BY <1>15, <3>3
    <3>5. i \in Waiting'
      BY <3>4 DEF Waiting, Calls
    <3>6. QED BY <2>3, <3>5
  <2>4. \A i \in DOMAIN m' : ~ Expiry(i)' = now'
    BY <2>1
  <2>5. \A j \in 1..Len(h') : ~ h'[j].t = now'
    <3>1. \A j \in 1..Len(h') : h'[j].t \in Nat /\ now' \in Nat
      BY <1>2, <1>3, Certificates DEF Shape, HOK
    <3>2. QED BY <2>2, <3>1
  <2>6. \A i \in DOMAIN m' : Expiry(i)' >= now'
    BY <2>1
  <2>7. QED BY <2>3, <2>4, <2>5, <2>6 DEF DeleteDue
<1>18. Filed' /\ Len(h') = size' /\ Apart(now)'
  BY <1>2, <1>3 DEF Filed, Apart, Place
<1>19. QED BY <1>9, <1>13, <1>16, <1>17, <1>18 DEF Deleting

\* A Delete under way: where its element is, and what its certificates are.
LEMMA DeleteStage ==
  ASSUME Shape, Deleting, task.op = "delete"
  PROVE  /\ Hole \in 1..(size + 1) /\ Hole \in Nat /\ size \in Nat /\ size >= 1 /\ now \in Nat /\ Len(H) = size + 1
         /\ Len(h) = size /\ DOMAIN h = 1..size /\ DOMAIN m = 2..(size + 1)
         /\ \A j \in 1..size : h[j].t \in Nat /\ h[j].t >= now /\ h[j].id \in 2..(size + 1) /\ Expiry(h[j].id) = h[j].t
         /\ \A i \in 2..(size + 1) : m[i] \in 1..size /\ Expiry(i) \in Nat /\ h[m[i]].id = i
<1>1. Removed /\ Filed /\ Len(h) = size /\ DeleteDue
  BY DEF Deleting
<1>2. /\ Len(H) = size + 1 /\ size \in Nat /\ size >= 1 /\ now \in Nat
      /\ \A id \in 1..Len(line) : index[id] \in 1..Len(H)
  BY <1>1, RemovedPlaces
<1>3. task.id \in 1..Len(line)
  BY DEF Shape, TaskOK
<1>4. index[task.id] \in 1..Len(H)
  BY <1>2, <1>3
<1>5. Hole \in 1..(size + 1) /\ Hole \in Nat
  BY <1>2, <1>4 DEF Hole
<1>6. /\ DOMAIN h = 1..size
      /\ \A j \in 1..size : h[j].t \in Nat /\ h[j].id \in 2..(size + 1)
      /\ \A i \in DOMAIN m : m[i] \in 1..size
  BY <1>1, <1>2, Certificates DEF Shape
<1>7. /\ DOMAIN m = 2..(size + 1)
      /\ \A j \in 1..size : h[j].id \in DOMAIN m /\ m[h[j].id] = j
      /\ \A i \in DOMAIN m : h[m[i]].id = i
  BY <1>1 DEF Filed
<1>8. \A j \in 1..size : Expiry(h[j].id) = h[j].t
  BY <1>7 DEF Expiry
<1>9. \A j \in 1..size : h[j].t >= now
  BY <1>1, <1>7, <1>8 DEF DeleteDue
<1>10. \A i \in 2..(size + 1) : m[i] \in 1..size /\ Expiry(i) \in Nat /\ h[m[i]].id = i
  BY <1>6, <1>7 DEF Expiry
<1>11. QED BY <1>1, <1>2, <1>5, <1>6, <1>7, <1>8, <1>9, <1>10

\* One child at most is ahead.
LEMMA AheadOnce ==
  ASSUME Shape, Removed, NEW a \in Nat, a >= 1, NEW i \in Ahead(a), NEW k \in Ahead(a)
  PROVE  i = k
<1> SUFFICES ASSUME i # k PROVE FALSE
  OBVIOUS
<1>1. size \in Nat /\ Len(H) = size + 1 /\ now \in Nat
  BY RemovedPlaces
<1>2. i \in Children(a) /\ k \in Children(a) /\ Key(H[i]) > Key(H[k]) /\ Key(H[k]) > Key(H[i])
  BY DEF Ahead
<1>3. i \in 1..Len(H) /\ k \in 1..Len(H)
  BY <1>1, <1>2 DEF Children
<1>4. Key(H[i]) \in Int /\ Key(H[k]) \in Int
  <2>1. line[H[i]] \in EvenLine /\ line[H[k]] \in EvenLine
    BY <1>3, LinesAt DEF Shape
  <2>0. now \in Int
    BY <1>1
  <2>2. Place(line[H[i]], now) \in Int /\ Place(line[H[k]], now) \in Int
    BY <2>0, <2>1, PlaceInteger
  <2>3. QED BY <2>2 DEF Key, Place
<1>5. QED BY <1>2, <1>4

\* When Q has settled, only the certificate at its root can expire now.
LEMMA NowAtRoot ==
  ASSUME Shape, Deleting, task.op = "delete", Settled, NEW j \in 1..size, h[j].t = now
  PROVE  j = 1
<1> SUFFICES ASSUME j # 1 PROVE FALSE
  OBVIOUS
<1>1. /\ size \in Nat /\ now \in Nat /\ Len(h) = size /\ DOMAIN h = 1..size /\ DOMAIN m = 2..(size + 1)
      /\ \A k \in 1..size : h[k].t \in Nat /\ h[k].t >= now /\ h[k].id \in 2..(size + 1) /\ Expiry(h[k].id) = h[k].t
      /\ Filed /\ DeleteDue
  BY DeleteStage DEF Deleting
<1>2. j = sift.at
  BY <1>1 DEF DeleteDue
<1>3. j \div 2 \in 1..size /\ j \div 2 # j
  BY <1>1
<1>4. ~ h[j \div 2].t > h[j].t
  BY <1>1, <1>2, <1>3 DEF Settled, Up
<1>5. h[j \div 2].t = now
  BY <1>1, <1>3, <1>4
<1>6. h[j].id # h[j \div 2].id
  BY <1>1, <1>3 DEF Filed
<1>7. h[j].id \in DOMAIN m /\ h[j \div 2].id \in DOMAIN m /\ Expiry(h[j].id) = now /\ Expiry(h[j \div 2].id) = now
  BY <1>1, <1>3, <1>5
<1>8. h[j].id = h[j \div 2].id
  BY <1>1, <1>7, Zenon DEF DeleteDue
<1>9. QED BY <1>6, <1>8

\* What a call of Q leaves alone.
LEMMA DeletingKept ==
  ASSUME Deleting, UNCHANGED << now, line, index, H, size, task, present >>,
         Filed', Len(h') = Len(h), DeleteDue', DeleteCalling'
  PROVE  Deleting'
<1>1. Apart(now)' /\ Removed'
  BY DEF Deleting, Apart, Place, Removed
<1>2. DeleteOrder'
  BY DEF Deleting, DeleteOrder, Hole, Behind, Key
<1>3. QED BY <1>1, <1>2 DEF Deleting

LEMMA AheadKept ==
  ASSUME UNCHANGED << now, line, index, H, size, task >>
  PROVE  Ahead(Hole)' = Ahead(Hole) /\ Hole' = Hole
BY DEF Ahead, Children, Key, Hole

LEMMA DeletingSiftQ == Shape /\ Deleting /\ task.op = "delete" /\ SiftQ => Deleting'
<1> SUFFICES ASSUME Shape, Deleting, task.op = "delete", SiftQ PROVE Deleting'
  OBVIOUS
<1> DEFINE a == sift.at
           n == size
<1>1. UNCHANGED << now, line, index, H, size, todo, task, present >>
  BY DEF SiftQ, elements, user
<1>2. QOK /\ Len(H) \in Nat /\ Filed /\ DeleteDue /\ DeleteCalling
  BY DEF Shape, HOK, Deleting
<1>3. /\ n \in Nat /\ now \in Nat /\ Len(h) = n /\ DOMAIN h = 1..n
      /\ \A k \in 1..n : h[k].t \in Nat /\ h[k].t >= now
      /\ \A j \in 1..n : h[j].t = now => j \in {1, a}
  BY <1>2, DeleteStage DEF DeleteDue
<1>4. a \in 0..n
  BY <1>2, <1>3 DEF QOK
<1> HIDE DEF n
<1>5. PICK j \in 1..n : a \in 1..n /\ j # a /\ Q_Swap(a, j) /\ sift'.at = j /\ h[j].t # now
  <2>1. CASE Sink
    <3>1. PICK j \in Down : Q_Swap(a, j) /\ sift' = [at |-> j, up |-> FALSE]
      BY <2>1 DEF Sink
    <3>2. j \in {2 * a, 2 * a + 1} /\ j \in 1..n /\ ~ sift.up
      BY <1>3, <3>1 DEF Down
    <3>3. a # 0
      BY <1>2, <3>2 DEF QOK
    <3>4. a \in 1..n /\ j # a /\ j # 1
      BY <1>3, <1>4, <3>2, <3>3
    <3>5. h[j].t # now
      BY <1>3, <3>2, <3>4
    <3>6. QED BY <3>1, <3>2, <3>4, <3>5
  <2>2. CASE Swim
    <3>1. PICK j \in Up : Q_Swap(a, j) /\ sift' = [at |-> j, up |-> TRUE]
      BY <2>2 DEF Swim
    <3>2. j = a \div 2 /\ j \in 1..n /\ h[j].t > h[a].t
      BY <1>3, <3>1 DEF Up
    <3>3. a \in 1..n /\ j # a
      BY <1>3, <1>4, <3>2
    <3>4. h[j].t # now
      BY <1>3, <3>2, <3>3
    <3>5. QED BY <3>1, <3>2, <3>3, <3>4
  <2>3. QED BY <2>1, <2>2 DEF SiftQ
<1> HIDE DEF a
<1>6. /\ Filed' /\ DOMAIN m' = DOMAIN m /\ Len(h') = n
      /\ h'[a] = h[j] /\ h'[j] = h[a] /\ \A k \in 1..n : k # a /\ k # j => h'[k] = h[k]
      /\ \A i \in DOMAIN m : Expiry(i)' = Expiry(i)
  BY <1>2, <1>3, <1>5, CertificatesSwapped
<1>7. ASSUME NEW k \in 1..n, h'[k].t = now PROVE k \in {1, j}
  BY <1>3, <1>5, <1>6, <1>7
<1>8. DeleteDue'
  <2> DEFINE D == DOMAIN m
  <2>1. DOMAIN m' = D
    BY <1>6
  <2>2. Waiting' = Waiting /\ \A i, r : Pending(i, r)' <=> Pending(i, r)
    BY <1>1 DEF Waiting, Calls, Pending
  <2>3. Ahead(Hole)' = Ahead(Hole)
    BY <1>1, AheadKept
  <2>4. \A k \in 1..Len(h') : h'[k].t = now' => k \in {1, sift'.at}
    BY <1>1, <1>5, <1>6, <1>7
  <2> HIDE DEF D
  <2>5. \A i \in D : Expiry(i)' = Expiry(i)
    BY <1>6 DEF D
  <2>6. QED BY <1>1, <1>2, <2>1, <2>2, <2>3, <2>4, <2>5 DEF DeleteDue, D
<1>9. DeleteCalling'
  BY <1>1, <1>2 DEF DeleteCalling, Pending, Hole
<1>10. QED BY <1>1, <1>3, <1>6, <1>8, <1>9, DeletingKept

\* A call of a Delete: the certificate of a child of the hole expires now if the child
\* is ahead, and every other one later.
LEMMA DeleteCall ==
  ASSUME Shape, Deleting, task.op = "delete", NEW k \in 1..Len(todo), NEW t, t = Time(todo[k].i, todo[k].rule)
  PROVE  /\ t \in Nat /\ t >= now /\ todo[k].i \in 2..size /\ todo[k].rule \in {"next", "child"}
         /\ t = now <=> todo[k].rule = "child" /\ todo[k].i \in Ahead(Hole)
<1> DEFINE i == todo[k].i
           r == todo[k].rule
<1>1. DeleteCalling /\ now \in Nat /\ size \in Nat /\ Len(H) = size + 1
  BY DeleteStage DEF Deleting
<1>2. i \in 2..size /\ r \in {"next", "child"} /\ (r = "child" => i \div 2 = Hole)
  BY <1>1 DEF DeleteCalling
<1> HIDE DEF i, r
<1>3. Failure_Time(i) \in Nat /\ Failure_Time(i) > now
  <2>1. i \in 2..Len(H)
    BY <1>1, <1>2
  <2>2. QED BY <2>1, FailsLater
<1>4. t = Time(i, r)
  BY DEF i, r
<1>5. CASE r = "next"
  <2>1. t = Failure_Time(i)
    BY <1>4, <1>5 DEF Time
  <2>2. QED BY <1>1, <1>2, <1>3, <1>5, <2>1 DEF i, r
<1>6. CASE r = "child"
  <2>1. t = IF i \in Ahead(i \div 2) THEN now ELSE Failure_Time(i)
    BY <1>4, <1>6 DEF Time
  <2>2. t = IF i \in Ahead(Hole) THEN now ELSE Failure_Time(i)
    BY <1>2, <1>6, <2>1
  <2>3. QED BY <1>1, <1>2, <1>3, <1>6, <2>2 DEF i, r
<1>7. QED BY <1>2, <1>5, <1>6

\* The calls that are left when the first has been made.
LEMMA CallsLeft ==
  ASSUME TodoOK, todo # << >>, todo' = Tail(todo)
  PROVE  /\ Len(todo) \in Nat /\ 1 \in 1..Len(todo) /\ Len(todo') = Len(todo) - 1
         /\ \A k \in 1..Len(todo') : k + 1 \in 2..Len(todo) /\ todo'[k] = todo[k + 1]
         /\ \A k \in 2..Len(todo) : k - 1 \in 1..Len(todo') /\ todo'[k - 1] = todo[k]
         /\ \A i \in Waiting : i # todo[1].i => i \in Waiting'
         /\ Waiting' \subseteq Waiting
         /\ \A i, r : Pending(i, r) /\ ~ (todo[1].i = i /\ todo[1].rule = r) => Pending(i, r)'
<1> DEFINE n == Len(todo)
           s == todo'
<1>1. n \in Nat /\ n >= 1 /\ Len(s) = n - 1 /\ \A k \in 1..(n - 1) : s[k] = todo[k + 1]
  BY TodoHead
<1> HIDE DEF n
<1>2. ASSUME NEW k \in 1..(n - 1) PROVE k + 1 \in 2..n /\ s[k] = todo[k + 1]
  BY <1>1
<1>3. ASSUME NEW k \in 2..n PROVE k - 1 \in 1..(n - 1) /\ s[k - 1] = todo[k]
  <2>1. PICK l \in 1..(n - 1) : l = k - 1
    BY <1>1
  <2>2. k = l + 1 /\ s[l] = todo[l + 1]
    BY <1>1, <2>1
  <2>3. QED BY <2>1, <2>2
<1>4. \A i : i \in Waiting <=> \E k \in 1..n : todo[k].i = i
  BY DEF Waiting, Calls, n
<1>5. \A i : i \in Waiting' <=> \E k \in 1..(n - 1) : s[k].i = i
  BY <1>1 DEF Waiting, Calls
<1>6. ASSUME NEW i \in Waiting, i # todo[1].i PROVE i \in Waiting'
  <2>1. PICK k \in 1..n : todo[k].i = i
    BY <1>4
  <2>2. k \in 2..n
    BY <1>1, <1>6, <2>1
  <2>3. QED BY <1>3, <1>5, <2>1, <2>2
<1>7. ASSUME NEW i \in Waiting' PROVE i \in Waiting
  <2>1. PICK k \in 1..(n - 1) : s[k].i = i
    BY <1>5
  <2>2. k + 1 \in 1..n /\ s[k] = todo[k + 1]
    BY <1>1, <1>2
  <2>3. QED BY <1>4, <2>1, <2>2
<1>8. ASSUME NEW i, NEW r, Pending(i, r), ~ (todo[1].i = i /\ todo[1].rule = r) PROVE Pending(i, r)'
  <2>1. PICK k \in 1..n : todo[k].i = i /\ todo[k].rule = r
    BY <1>8 DEF Pending, n
  <2>2. k \in 2..n
    BY <1>1, <1>8, <2>1
  <2>3. k - 1 \in 1..Len(s) /\ s[k - 1] = todo[k]
    BY <1>1, <1>3, <2>2
  <2>4. QED BY <2>1, <2>3 DEF Pending
<1>9. 1 \in 1..n
  BY <1>1
<1>10. QED BY <1>1, <1>2, <1>3, <1>6, <1>7, <1>8, <1>9 DEF n

LEMMA CallingLeft ==
  ASSUME TodoOK, DeleteCalling, todo # << >>, todo' = Tail(todo), UNCHANGED << index, size, task >>
  PROVE  DeleteCalling'
<1> DEFINE n == Len(todo)
           s == todo'
<1>1. /\ n \in Nat /\ Len(s) = n - 1 /\ 1 \in 1..n
      /\ \A k \in 1..(n - 1) : k + 1 \in 2..n /\ s[k] = todo[k + 1]
      /\ \A i, r : Pending(i, r) /\ ~ (todo[1].i = i /\ todo[1].rule = r) => Pending(i, r)'
  BY CallsLeft
<1>2. /\ \A k \in 1..n :
           /\ todo[k].i \in 2..size /\ todo[k].rule \in {"next", "child"}
           /\ todo[k].rule = "child" => todo[k].i \div 2 = Hole
           /\ todo[k].rule = "next" /\ todo[k].i \div 2 = Hole => Pending(todo[k].i, "child")
      /\ \A k, l \in 1..n : k < l /\ todo[k].rule = "child" => todo[l].rule = "child" /\ todo[l].i # todo[k].i
  BY DEF DeleteCalling
<1>3. Hole' = Hole /\ size' = size
  BY DEF Hole
<1> HIDE DEF n
<1>4. ASSUME NEW k \in 1..(n - 1)
      PROVE  /\ s[k].i \in 2..size /\ s[k].rule \in {"next", "child"}
             /\ s[k].rule = "child" => s[k].i \div 2 = Hole
             /\ s[k].rule = "next" /\ s[k].i \div 2 = Hole =>
                  \E a \in 1..(n - 1) : s[a].i = s[k].i /\ s[a].rule = "child"
  <2>1. PICK l \in 2..n : l = k + 1 /\ s[k] = todo[l]
    BY <1>1
  <2>2. l \in 1..n /\ 1 < l
    BY <1>1
  <2>3. ASSUME todo[l].rule = "next", todo[l].i \div 2 = Hole
        PROVE  \E a \in 1..(n - 1) : s[a].i = todo[l].i /\ s[a].rule = "child"
    <3>1. PICK e : e = todo[l].i
      OBVIOUS
    <3>2. Pending(e, "child")
      BY <1>2, <2>2, <2>3, <3>1
    <3>3. todo[1].rule # "child"
      BY <1>1, <1>2, <2>2, <2>3
    <3>4. Pending(e, "child")'
      BY <1>1, <3>2, <3>3
    <3>5. QED BY <1>1, <3>1, <3>4 DEF Pending
  <2>4. QED BY <1>2, <2>1, <2>2, <2>3
<1>5. ASSUME NEW k \in 1..(n - 1), NEW l \in 1..(n - 1), k < l, s[k].rule = "child"
      PROVE  s[l].rule = "child" /\ s[l].i # s[k].i
  <2>1. PICK a \in 2..n : a = k + 1 /\ s[k] = todo[a]
    BY <1>1
  <2>2. PICK b \in 2..n : b = l + 1 /\ s[l] = todo[b]
    BY <1>1
  <2>3. a \in 1..n /\ b \in 1..n /\ a < b
    BY <1>1, <1>5, <2>1, <2>2
  <2>4. QED BY <1>2, <1>5, <2>1, <2>2, <2>3
<1>6. Len(todo') = n - 1
  BY <1>1
<1>7. ASSUME NEW k \in 1..Len(todo')
      PROVE  /\ todo'[k].i \in 2..size' /\ todo'[k].rule \in {"next", "child"}
             /\ todo'[k].rule = "child" => todo'[k].i \div 2 = Hole'
             /\ todo'[k].rule = "next" /\ todo'[k].i \div 2 = Hole' =>
                  \E l \in 1..Len(todo') : todo'[l].i = todo'[k].i /\ todo'[l].rule = "child"
  BY <1>3, <1>4, <1>6
<1>8. ASSUME NEW k \in 1..Len(todo'), NEW l \in 1..Len(todo'), k < l, todo'[k].rule = "child"
      PROVE  todo'[l].rule = "child" /\ todo'[l].i # todo'[k].i
  BY <1>5, <1>6, <1>8
<1> HIDE DEF s
<1>9. QED BY <1>7, <1>8, Zenon DEF DeleteCalling, Pending

LEMMA DeletingCertificate == Shape /\ Deleting /\ task.op = "delete" /\ Certificate => Deleting'
<1> SUFFICES ASSUME Shape, Deleting, task.op = "delete", Certificate PROVE Deleting'
  OBVIOUS
<1>1. UNCHANGED << now, line, index, H, size, task, present >> /\ todo # << >> /\ todo' = Tail(todo) /\ Settled
  BY DEF Certificate, elements, user
<1>2. QOK /\ TodoOK /\ Len(H) \in Nat /\ Filed /\ Removed /\ DeleteDue /\ DeleteCalling
  BY DEF Shape, HOK, Deleting
<1>3. /\ size \in Nat /\ now \in Nat /\ Len(h) = size /\ DOMAIN m = 2..(size + 1) /\ Hole \in Nat /\ Hole >= 1
      /\ \A k \in 1..size : h[k].t \in Nat
      /\ \A k \in DOMAIN m : Expiry(k) \in Nat
  BY DeleteStage
<1>4. /\ 1 \in 1..Len(todo) /\ Head(todo) = todo[1]
      /\ \A k \in Waiting : k # todo[1].i => k \in Waiting'
      /\ Waiting' \subseteq Waiting
      /\ \A k, r : Pending(k, r) /\ ~ (todo[1].i = k /\ todo[1].rule = r) => Pending(k, r)'
  BY <1>1, <1>2, CallsLeft, TodoHead
<1>5. PICK i, r, t : i = todo[1].i /\ r = todo[1].rule /\ t = Time(i, r)
  OBVIOUS
<1>6. /\ t \in Nat /\ t >= now /\ i \in 2..size /\ r \in {"next", "child"}
      /\ t = now <=> r = "child" /\ i \in Ahead(Hole)
  BY <1>4, <1>5, DeleteCall
<1>7. i \in DOMAIN m /\ Q_Update(i, t)
  <2>1. i \in DOMAIN m
    BY <1>3, <1>6
  <2>2. Q_Update(i, t)
    BY <1>4, <1>5, <1>6 DEF Certificate
  <2>3. QED BY <2>1, <2>2
<1>8. /\ Filed' /\ m' = m /\ Len(h') = size /\ m[i] \in 1..size /\ sift'.at = m[i]
      /\ \A k \in 1..size : k # m[i] => h'[k] = h[k]
      /\ Expiry(i)' = t /\ \A k \in DOMAIN m : k # i => Expiry(k)' = Expiry(k)
  BY <1>2, <1>3, <1>6, <1>7, CertificateUpdated
<1>9. /\ \A k \in DOMAIN m : Expiry(k) >= now
      /\ \A k, l \in DOMAIN m : Expiry(k) = now /\ Expiry(l) = now => k = l
      /\ \A k \in DOMAIN m \ Waiting : Expiry(k) = now <=> k \in Ahead(Hole)
      /\ \A k \in DOMAIN m \cap Waiting : Expiry(k) = now => Pending(k, "next")
  BY <1>2 DEF DeleteDue
<1>10. /\ \A k \in 1..Len(todo) :
            todo[k].rule = "next" /\ todo[k].i \div 2 = Hole => Pending(todo[k].i, "child")
       /\ \A k, l \in 1..Len(todo) : k < l /\ todo[k].rule = "child" => todo[l].rule = "child" /\ todo[l].i # todo[k].i
  BY <1>2 DEF DeleteCalling
<1>11. ASSUME r = "child", NEW k PROVE ~ Pending(k, "next")
  <2>1. ASSUME NEW l \in 1..Len(todo) PROVE todo[l].rule = "child"
    <3>1. l = 1 \/ 1 < l
      BY <1>4
    <3>2. QED BY <1>4, <1>5, <1>10, <1>11, <3>1
  <2>2. QED BY <2>1 DEF Pending
<1>12. ASSUME r = "child" PROVE i \notin Waiting'
  <2>1. SUFFICES ASSUME i \in Waiting' PROVE FALSE
    OBVIOUS
  <2>2. PICK k \in 1..Len(todo') : todo'[k].i = i
    BY <2>1 DEF Waiting, Calls
  <2>3. PICK l \in 2..Len(todo) : todo'[k] = todo[l]
    BY <1>1, <1>2, <2>2, CallsLeft
  <2>4. l \in 1..Len(todo) /\ 1 < l
    BY <1>4
  <2>5. QED BY <1>4, <1>5, <1>10, <1>12, <2>2, <2>3, <2>4
<1>13. ASSUME t = now, NEW k \in DOMAIN m, k # i PROVE Expiry(k) # now
  <2>1. r = "child" /\ i \in Ahead(Hole)
    BY <1>6, <1>13
  <2>2. CASE k \in Waiting
    BY <1>9, <1>11, <2>1, <2>2
  <2>3. CASE k \notin Waiting
    <3>1. k \notin Ahead(Hole)
      BY <1>2, <1>3, <1>13, <2>1, AheadOnce
    <3>2. QED BY <1>9, <2>3, <3>1
  <2>4. QED BY <2>2, <2>3
<1>14. \A k \in DOMAIN m : Expiry(k)' >= now
  BY <1>3, <1>6, <1>8, <1>9
<1>15. ASSUME NEW k \in DOMAIN m, NEW l \in DOMAIN m, Expiry(k)' = now, Expiry(l)' = now PROVE k = l
  <2>1. CASE k = i /\ l # i
    BY <1>8, <1>13, <1>15, <2>1
  <2>2. CASE k # i /\ l = i
    BY <1>8, <1>13, <1>15, <2>2
  <2>3. CASE k # i /\ l # i
    BY <1>8, <1>9, <1>15, <2>3
  <2>4. QED BY <2>1, <2>2, <2>3
<1>16. ASSUME NEW k \in DOMAIN m, k \notin Waiting' PROVE Expiry(k)' = now <=> k \in Ahead(Hole)
  <2>1. CASE k # i
    <3>1. k \notin Waiting
      BY <1>4, <1>5, <1>16, <2>1
    <3>2. QED BY <1>8, <1>9, <2>1, <3>1
  <2>2. CASE k = i
    <3>1. CASE r = "child"
      BY <1>6, <1>8, <2>2, <3>1
    <3>2. CASE r = "next"
      <4>1. i \notin Ahead(Hole)
        <5>1. SUFFICES ASSUME i \in Ahead(Hole) PROVE FALSE
          OBVIOUS
        <5>2. i \in {2 * Hole, 2 * Hole + 1}
          BY <5>1 DEF Ahead, Children
        <5>3. i \div 2 = Hole
          BY <1>3, <5>2
        <5>4. Pending(i, "child")
          BY <1>4, <1>5, <1>10, <3>2, <5>3
        <5>5. Pending(i, "child")'
          BY <1>4, <1>5, <3>2, <5>4
        <5>6. i \in Waiting'
          BY <5>5 DEF Pending, Waiting, Calls
        <5>7. QED BY <1>16, <2>2, <5>6
      <4>2. t # now
        BY <1>6, <3>2
      <4>3. QED BY <1>8, <2>2, <4>1, <4>2
    <3>3. QED BY <1>6, <3>1, <3>2
  <2>3. QED BY <2>1, <2>2
<1>17. ASSUME NEW k \in DOMAIN m, k \in Waiting', Expiry(k)' = now PROVE Pending(k, "next")'
  <2>1. CASE k # i
    <3>1. k \in Waiting /\ Expiry(k) = now
      BY <1>4, <1>8, <1>17, <2>1
    <3>2. Pending(k, "next")
      BY <1>9, <3>1
    <3>3. QED BY <1>4, <1>5, <2>1, <3>2
  <2>2. CASE k = i
    <3>1. t = now
      BY <1>8, <1>17, <2>2
    <3>2. QED BY <1>6, <1>12, <1>17, <2>2, <3>1
  <2>3. QED BY <2>1, <2>2
<1>18. ASSUME NEW j \in 1..size, h'[j].t = now PROVE j \in {1, m[i]}
  <2>1. CASE j # m[i]
    <3>1. h[j].t = now
      BY <1>8, <1>18, <2>1
    <3>2. QED BY <1>1, <3>1, NowAtRoot
  <2>2. QED BY <2>1
<1>19. DeleteDue'
  <2> DEFINE D == DOMAIN m
             W == Waiting'
  <2>1. DOMAIN m' = D /\ now' = now /\ Len(h') = size /\ sift'.at = m[i]
    BY <1>1, <1>8
  <2>2. Ahead(Hole)' = Ahead(Hole)
    BY <1>1, AheadKept
  <2> HIDE DEF D, W
  <2>3. /\ \A k \in D : Expiry(k)' >= now
        /\ \A k, l \in D : Expiry(k)' = now /\ Expiry(l)' = now => k = l
        /\ \A k \in D \ W : Expiry(k)' = now <=> k \in Ahead(Hole)
        /\ \A k \in D \cap W : Expiry(k)' = now => Pending(k, "next")'
    BY <1>14, <1>15, <1>16, <1>17 DEF D, W
  <2>4. QED BY <1>18, <2>1, <2>2, <2>3 DEF DeleteDue, W
<1>20. DeleteCalling'
  BY <1>1, <1>2, CallingLeft
<1>21. QED BY <1>1, <1>3, <1>8, <1>19, <1>20, DeletingKept

\* At a turn of the loop of a Delete, nothing waits.
LEMMA DeleteTurn ==
  ASSUME Shape, Deleting, task.op = "delete", Idle
  PROVE  /\ \A i \in 2..(size + 1) : Expiry(i) = now <=> i \in Ahead(Hole)
         /\ \A i \in 2..(size + 1) : Expiry(i) = now => h[1].t = now /\ h[1].id = i
         /\ h[1].t = now => h[1].id \in Ahead(Hole)
<1>1. /\ size \in Nat /\ size >= 1 /\ DOMAIN m = 2..(size + 1)
      /\ \A j \in 1..size : h[j].id \in 2..(size + 1) /\ Expiry(h[j].id) = h[j].t
      /\ \A i \in 2..(size + 1) : m[i] \in 1..size /\ h[m[i]].id = i
  BY DeleteStage
<1>2. Waiting = {}
  BY NothingWaits DEF Idle
<1>3. \A i \in 2..(size + 1) : Expiry(i) = now <=> i \in Ahead(Hole)
  BY <1>1, <1>2 DEF Deleting, DeleteDue
<1>4. ASSUME NEW i \in 2..(size + 1), Expiry(i) = now PROVE h[1].t = now /\ h[1].id = i
  <2>1. m[i] \in 1..size /\ h[m[i]].t = now /\ h[m[i]].id = i
    BY <1>1, <1>4 DEF Expiry
  <2>2. m[i] = 1
    BY <2>1, NowAtRoot DEF Idle
  <2>3. QED BY <2>1, <2>2
<1>5. ASSUME h[1].t = now PROVE h[1].id \in Ahead(Hole)
  <2>1. 1 \in 1..size
    BY <1>1
  <2>2. h[1].id \in 2..(size + 1) /\ Expiry(h[1].id) = now
    BY <1>1, <1>5, <2>1
  <2>3. QED BY <1>3, <2>2
<1>6. QED BY <1>3, <1>4, <1>5

\* What the end of a Delete leaves.
LEMMA DeletedMaximum ==
  ASSUME Shape, Deleting, task.op = "delete", Idle, h[1].t # now
  PROVE  /\ \A j \in 1..size : Key(H[j]) <= Key(H[1])
         /\ H[1] \in present /\ \A id \in present : Key(id) <= Key(H[1])
<1>1. /\ size \in Nat /\ size >= 1 /\ Hole \in 1..(size + 1) /\ Hole \in Nat /\ Removed /\ Apart(now) /\ DeleteOrder
  BY DeleteStage DEF Deleting
<1>2. PICK q \in Nat : q = Hole
  BY <1>1
<1>3. /\ \A j \in 2..size :
           /\ j # q /\ j \div 2 # q => Behind(j, j \div 2)
           /\ j \div 2 = q /\ q >= 2 => Behind(j, q \div 2)
      /\ q # 1 => Behind(q, 1)
  BY <1>1, <1>2 DEF DeleteOrder
<1>4. Ahead(q) = {}
  <2>1. SUFFICES ASSUME NEW i \in Ahead(q) PROVE FALSE
    OBVIOUS
  <2>2. i \in {2 * q, 2 * q + 1} /\ i <= size
    BY <2>1 DEF Ahead, Children
  <2>3. i \in 2..(size + 1)
    BY <1>1, <1>2, <2>2
  <2>4. Expiry(i) = now
    BY <1>2, <2>1, <2>3, DeleteTurn
  <2>5. QED BY <2>3, <2>4, DeleteTurn
<1>5. ASSUME NEW j \in 2..size, j \div 2 = q, ~ q >= 2 PROVE Behind(j, q)
  <2>1. q = 1 /\ q \in 1..size
    BY <1>1, <1>2, <1>5
  <2>2. j \in Children(q)
    BY <1>1, <1>5, <2>1 DEF Children
  <2>3. \A x \in 1..size : index[H[x]] = x
    BY <1>1, RemovedPlaces
  <2>4. \A x \in Children(q) : Behind(x, q)
    BY <1>1, <1>4, <2>1, <2>3, NobodyAbove
  <2>5. QED BY <2>2, <2>4
<1>6. \A j \in 2..size :
        /\ j # q /\ j \div 2 # q => Behind(j, j \div 2)
        /\ j \div 2 = q => IF q >= 2 THEN Behind(j, q \div 2) ELSE Behind(j, q)
  BY <1>3, <1>5
<1>7. q \in 2..size => Behind(q, 1)
  BY <1>3
<1>8. \A j \in 1..size : Key(H[j]) <= Key(H[1])
  BY <1>1, <1>6, <1>7, RootAhead
<1>9. present = {H[j] : j \in 1..size} /\ 1 \in 1..size
  BY <1>1 DEF Removed
<1>10. QED BY <1>8, <1>9

LEMMA DeleteReturns ==
  ASSUME Shape, Deleting, DeleteLoop, h[1].t # now
  PROVE  task'.op = "ready" /\ MaxIsMaximum'
<1>1. task.op = "delete" /\ Idle /\ Return /\ UNCHANGED << now, line, index, H, size, present >>
  BY DEF DeleteLoop, Q_Min, elements, user
<1>2. H[1] \in present /\ \A id \in present : Key(id) <= Key(H[1])
  BY <1>1, DeletedMaximum
<1>3. H'[1] \in present' /\ \A id \in present' : Key(id)' <= Key(H[1])'
  BY <1>1, <1>2 DEF Key
<1>4. task'.op = "ready"
  BY <1>1 DEF Return, Ready
<1>5. QED BY <1>3, <1>4 DEF MaxIsMaximum

\* One sequence after another.
Joined(w, s, t, n, l) ==
  /\ Len(w) = n + l
  /\ \A k \in 1..n : k \in 1..(n + l) /\ w[k] = s[k]
  /\ \A k \in 1..l : n + k \in 1..(n + l) /\ w[n + k] = t[k]
  /\ \A k \in 1..(n + l) : k \in 1..n \/ \E j \in 1..l : k = n + j
LEMMA Together ==
  ASSUME NEW A, NEW s \in Seq(A), NEW t \in Seq(A)
  PROVE  Joined(s \o t, s, t, Len(s), Len(t))
<1> DEFINE n == Len(s)
           l == Len(t)
<1>0. n \in Nat /\ l \in Nat
  OBVIOUS
<1>1. Len(s \o t) = n + l /\ \A k \in 1..(n + l) : (s \o t)[k] = IF k <= n THEN s[k] ELSE t[k - n]
  BY ConcatProperties
<1>2. ASSUME NEW k \in 1..l PROVE n + k \in 1..(n + l) /\ (s \o t)[n + k] = t[k]
  BY <1>1
<1>3. ASSUME NEW k \in 1..(n + l), k \notin 1..n PROVE \E j \in 1..l : k = n + j
  <2>1. k - n \in 1..l /\ k = n + (k - n)
    BY <1>3
  <2>2. QED BY <2>1
<1>4. ASSUME NEW k \in 1..n PROVE k \in 1..(n + l) /\ (s \o t)[k] = s[k]
  BY <1>1
<1>5. QED BY <1>1, <1>2, <1>3, <1>4 DEF Joined

\* The calls after an event of a Delete.
LEMMA DeleteCalls ==
  ASSUME Shape, NEW e \in 2..size, Hole' = e, size' = size,
         todo' = Affected(e) \o MakeChildren(e, size, "child")
  PROVE  /\ DeleteCalling'
         /\ \A j \in Touched(e) : j \in Waiting' /\ Pending(j, "next")'
<1> DEFINE s == Affected(e)
           c == MakeChildren(e, size, "child")
           n == Len(s)
           l == Len(c)
<1>1. size \in Nat /\ size \in 0..Len(H) /\ Len(H) \in Nat /\ e \in 1..Len(H) /\ e \in Nat /\ e >= 1
  BY DEF Shape, HOK
<1>2. /\ s \in Seq(Call(Len(H))) /\ n \in Nat
      /\ \A k \in 1..n : s[k].i \in Touched(e) /\ s[k].rule = "next"
      /\ \A j \in Touched(e) : \E k \in 1..n : s[k].i = j
  BY EventCalls
<1>3. c \in Seq(Call(Len(H)))
  <2>1. "child" \in Rules
    BY DEF Rules
  <2>2. QED BY <1>1, <2>1, CallsOfChildren
<1>4. /\ l \in Nat
      /\ \A k \in 1..l : c[k].i \in 2..size /\ c[k].i \div 2 = e /\ c[k].rule = "child"
      /\ \A k, j \in 1..l : k # j => c[k].i # c[j].i
      /\ \A j \in 2..size : j \div 2 = e => \E k \in 1..l : c[k].i = j
  <2>1. ChildrenOnce(c, e, size)
    BY <1>1, ChildrenCalls
  <2>2. QED BY <2>1 DEF ChildrenOnce
<1>5. Touched(e) \subseteq 2..size
  BY <1>1, TouchedAre
<1> HIDE DEF s, c
<1>6. /\ Len(s \o c) = n + l
      /\ \A k \in 1..n : k \in 1..(n + l) /\ (s \o c)[k] = s[k]
      /\ \A k \in 1..l : n + k \in 1..(n + l) /\ (s \o c)[n + k] = c[k]
      /\ \A k \in 1..(n + l) : k \in 1..n \/ \E j \in 1..l : k = n + j
  <2>1. Joined(s \o c, s, c, n, l)
    BY <1>2, <1>3, Together
  <2>2. QED BY <2>1 DEF Joined
<1> HIDE DEF n, l
<1> DEFINE w == todo'
<1>7. /\ Len(w) = n + l
      /\ \A k \in 1..n : k \in 1..(n + l) /\ w[k] = s[k]
      /\ \A k \in 1..l : n + k \in 1..(n + l) /\ w[n + k] = c[k]
  BY <1>6 DEF s, c
<1>8. ASSUME NEW j \in Touched(e) PROVE \E k \in 1..Len(w) : w[k].i = j /\ w[k].rule = "next"
  <2>1. PICK k \in 1..n : s[k].i = j
    BY <1>2
  <2>2. s[k].rule = "next" /\ w[k] = s[k] /\ k \in 1..(n + l)
    BY <1>2, <1>7
  <2>3. QED BY <1>7, <2>1, <2>2
<1>9. ASSUME NEW j \in Touched(e) PROVE j \in Waiting' /\ Pending(j, "next")'
  <2>1. PICK k \in 1..Len(w) : w[k].i = j /\ w[k].rule = "next"
    BY <1>8
  <2>2. QED BY <2>1 DEF Waiting, Calls, Pending
<1>10. ASSUME NEW k \in 1..(n + l)
       PROVE  /\ w[k].i \in 2..size /\ w[k].rule \in {"next", "child"}
              /\ w[k].rule = "child" => w[k].i \div 2 = e
              /\ w[k].rule = "next" /\ w[k].i \div 2 = e =>
                   \E j \in 1..(n + l) : w[j].i = w[k].i /\ w[j].rule = "child"
  <2>1. CASE k \in 1..n
    <3>1. w[k].i \in 2..size /\ w[k].rule = "next"
      BY <1>2, <1>5, <1>7, <2>1
    <3>2. ASSUME w[k].i \div 2 = e PROVE \E j \in 1..(n + l) : w[j].i = w[k].i /\ w[j].rule = "child"
      <4>1. PICK j \in 1..l : c[j].i = w[k].i
        BY <1>4, <3>1, <3>2
      <4>2. w[n + j] = c[j] /\ n + j \in 1..(n + l) /\ c[j].rule = "child"
        BY <1>4, <1>7
      <4>3. QED BY <4>1, <4>2
    <3>3. QED BY <3>1, <3>2
  <2>2. CASE k \notin 1..n
    <3>1. PICK j \in 1..l : k = n + j
      BY <1>6, <2>2
    <3>2. w[k] = c[j]
      BY <1>7, <3>1
    <3>3. QED BY <1>4, <3>2
  <2>3. QED BY <2>1, <2>2
<1>11. ASSUME NEW k \in 1..(n + l), NEW j \in 1..(n + l), k < j, w[k].rule = "child"
       PROVE  w[j].rule = "child" /\ w[j].i # w[k].i
  <2>1. k \notin 1..n
    BY <1>2, <1>7, <1>11
  <2>2. PICK a \in 1..l : k = n + a
    BY <1>6, <2>1
  <2>3. j \notin 1..n
    BY <1>2, <1>4, <1>11, <2>2
  <2>4. PICK b \in 1..l : j = n + b
    BY <1>6, <2>3
  <2>5. a < b
    <3>1. k < j
      BY <1>11
    <3>2. n \in Nat /\ n + a < n + b
      BY <1>2, <2>2, <2>4, <3>1
    <3>3. QED BY <3>2
  <2>6. w[k] = c[a] /\ w[j] = c[b]
    BY <1>7, <2>2, <2>4
  <2>7. c[b].rule = "child" /\ c[b].i # c[a].i
    <3>1. a # b
      BY <2>5
    <3>2. QED BY <1>4, <3>1
  <2>8. QED BY <2>6, <2>7
<1>12. ASSUME NEW k \in 1..Len(todo')
       PROVE  /\ todo'[k].i \in 2..size' /\ todo'[k].rule \in {"next", "child"}
              /\ todo'[k].rule = "child" => todo'[k].i \div 2 = Hole'
              /\ todo'[k].rule = "next" /\ todo'[k].i \div 2 = Hole' =>
                   \E j \in 1..Len(todo') : todo'[j].i = todo'[k].i /\ todo'[j].rule = "child"
  BY <1>7, <1>10
<1>13. ASSUME NEW k \in 1..Len(todo'), NEW j \in 1..Len(todo'), k < j, todo'[k].rule = "child"
       PROVE  todo'[j].rule = "child" /\ todo'[j].i # todo'[k].i
  BY <1>7, <1>11, <1>13
<1> HIDE DEF w
<1>14. DeleteCalling'
  BY <1>12, <1>13, Zenon DEF DeleteCalling, Pending
<1>15. QED BY <1>9, <1>14

\* The child that is ahead passes the element that goes down.
LEMMA PassedDown ==
  ASSUME Shape, Deleting, task.op = "delete", NEW e \in Ahead(Hole), Event(e), UNCHANGED << now, task, present >>
  PROVE  /\ e \in 2..size /\ Hole' = e /\ Removed' /\ Apart(now)' /\ size' = size
         /\ DeleteOrder'
<1>1. /\ size \in Nat /\ size >= 1 /\ Hole \in 1..(size + 1) /\ Hole \in Nat /\ Removed /\ Apart(now) /\ DeleteOrder
  BY DeleteStage DEF Deleting
<1>2. PICK q \in Nat : q = Hole
  BY <1>1
<1>3. /\ e \in Children(q) /\ Key(H[e]) > Key(H[q])
      /\ \A j \in Children(q) : j # e => Key(H[e]) > Key(H[j])
  BY <1>2 DEF Ahead
<1>4. e \in {2 * q, 2 * q + 1} /\ e <= size /\ q >= 1
  BY <1>1, <1>2, <1>3 DEF Children
<1>5. e \in 2..size /\ e \div 2 = q /\ q \in 1..size /\ e \in 1..size /\ e # q /\ 1 \in 1..size
  BY <1>1, <1>4
<1>6. Swap(e, q) /\ UNCHANGED << line, size >>
  BY <1>5 DEF Event
<1>7. /\ Removed' /\ H'[e] = H[q] /\ H'[q] = H[e]
      /\ \A k \in 1..size : k # e /\ k # q => H'[k] = H[k]
      /\ index'[H[e]] = q /\ index'[H[q]] = e
  BY <1>1, <1>5, <1>6, RemovedSwapped
<1>8. Hole' = e
  <2>1. task.id \in 1..Len(line)
    BY DEF Shape, TaskOK
  <2>2. H[q] = task.id
    BY <1>1, <1>2, <2>1 DEF Removed, Hole
  <2>3. QED BY <1>7, <2>2 DEF Hole
<1> DEFINE K(x) == Key(H[x])
           L(x) == Key(H'[x])
<1>9. /\ \A j \in 2..size :
           /\ j # q /\ j \div 2 # q => K(j) < K(j \div 2)
           /\ j \div 2 = q /\ q >= 2 => K(j) < K(q \div 2)
      /\ q # 1 => K(q) < K(1)
      /\ K(e) > K(q)
      /\ \A j \in 2..size : j \div 2 = q /\ j # e => K(e) > K(j)
  <2>1. \A j \in 2..size : j \div 2 = q => j \in Children(q)
    BY <1>4 DEF Children
  <2>2. QED BY <1>1, <1>2, <1>3, <2>1 DEF DeleteOrder, Behind
<1>10. L(e) = K(q) /\ L(q) = K(e) /\ \A k \in 1..size : k # e /\ k # q => L(k) = K(k)
  BY <1>7
<1>11. \A x, y : L(x) < L(y) <=> Behind(x, y)'
  BY <1>6 DEF Key, Behind
<1> HIDE DEF K, L
<1>12. ASSUME NEW j \in 2..size
       PROVE  /\ j # e /\ j \div 2 # e => L(j) < L(j \div 2)
              /\ j \div 2 = e => L(j) < L(e \div 2)
  <2>1. j \in 1..size /\ j \div 2 \in 1..size /\ j \div 2 # j
    BY <1>1
  <2>2. CASE j = q
    <3>1. j # e /\ j \div 2 # e /\ j \div 2 # q /\ q >= 2
      BY <1>1, <1>5, <2>1, <2>2
    <3>2. L(j) = K(e) /\ L(j \div 2) = K(q \div 2)
      BY <1>10, <2>1, <2>2, <3>1
    <3>3. K(e) < K(q \div 2)
      BY <1>5, <1>9, <3>1
    <3>4. QED BY <3>1, <3>2, <3>3
  <2>3. CASE j # q /\ j \div 2 = q /\ j # e
    <3>1. j \div 2 # e /\ L(j) = K(j) /\ L(j \div 2) = K(e)
      BY <1>5, <1>10, <2>1, <2>3
    <3>2. K(e) > K(j)
      BY <1>9, <2>3
    <3>3. QED BY <3>1, <3>2
  <2>4. CASE j # q /\ j \div 2 # q /\ j # e /\ j \div 2 # e
    <3>1. L(j) = K(j) /\ L(j \div 2) = K(j \div 2)
      BY <1>10, <2>1, <2>4
    <3>2. QED BY <1>9, <2>4, <3>1
  <2>5. CASE j \div 2 = e /\ j # q /\ j # e
    <3>1. L(j) = K(j) /\ L(e \div 2) = K(e)
      BY <1>5, <1>10, <2>1, <2>5
    <3>2. K(j) < K(j \div 2)
      BY <1>5, <1>9, <2>5
    <3>3. QED BY <2>5, <3>1, <3>2
  <2>6. CASE j = e
    BY <2>1, <2>6
  <2>7. QED BY <2>2, <2>3, <2>4, <2>5, <2>6
<1>13. e # 1 => L(e) < L(1)
  <2>1. CASE q = 1
    BY <1>9, <1>10, <2>1
  <2>2. CASE q # 1
    <3>1. L(1) = K(1)
      BY <1>5, <1>10, <2>2
    <3>2. QED BY <1>9, <1>10, <2>2, <3>1
  <2>3. QED BY <2>1, <2>2
<1>14. DeleteOrder'
  <2>1. ASSUME NEW j \in 2..size
        PROVE  /\ j # e /\ j \div 2 # e => Behind(j, j \div 2)'
               /\ j \div 2 = e /\ e >= 2 => Behind(j, e \div 2)'
    BY <1>11, <1>12
  <2>2. e # 1 => Behind(e, 1)'
    BY <1>11, <1>13
  <2>3. QED BY <1>6, <1>8, <2>1, <2>2 DEF DeleteOrder
<1>15. Apart(now)'
  BY <1>1, <1>6 DEF Apart, Place
<1>16. QED BY <1>5, <1>6, <1>7, <1>8, <1>14, <1>15

LEMMA DeletingEvent ==
  ASSUME Shape, Deleting, DeleteLoop, h[1].t = now
  PROVE  Deleting' /\ task' = task
<1>1. task.op = "delete" /\ Idle /\ UNCHANGED << now, h, m, sift, task, present >>
  BY DEF DeleteLoop, Q_Min, queue, user
<1>2. PICK e : e = h[1].id
  OBVIOUS
<1>3. e \in Ahead(Hole) /\ Event(e)
  BY <1>1, <1>2, DeleteTurn DEF DeleteLoop, Q_Min
<1>4. e \in 2..size /\ Hole' = e /\ Removed' /\ Apart(now)' /\ size' = size /\ DeleteOrder'
  BY <1>1, <1>3, PassedDown
<1>5. todo' = Affected(e) \o MakeChildren(e, size, "child")
  BY <1>2, <1>4 DEF DeleteLoop, Q_Min, Hole
<1>6. DeleteCalling' /\ \A j \in Touched(e) : j \in Waiting' /\ Pending(j, "next")'
  BY <1>4, <1>5, DeleteCalls
<1>7. /\ size \in Nat /\ Len(h) = size /\ DOMAIN m = 2..(size + 1) /\ Filed /\ DeleteDue
  BY <1>1, DeleteStage DEF Deleting
<1>8. /\ e \in Touched(e)
      /\ \A j \in 2..size : j \div 2 = e => j \in Touched(e)
  BY <1>4, <1>7, TouchedAre
<1>9. \A i \in DOMAIN m : Expiry(i) = now => i = e
  BY <1>1, <1>2, <1>7, DeleteTurn
<1>10. ASSUME NEW i \in DOMAIN m, i \notin Waiting' PROVE Expiry(i) # now /\ i \notin Ahead(e)'
  <2>1. i # e
    BY <1>6, <1>8, <1>10
  <2>2. ASSUME i \in Ahead(e)' PROVE FALSE
    <3>1. i \in {2 * e, 2 * e + 1} /\ i <= size
      BY <1>4, <2>2 DEF Ahead, Children
    <3>2. i \in 2..size /\ i \div 2 = e
      BY <1>4, <1>7, <3>1
    <3>3. QED BY <1>6, <1>8, <1>10, <3>2
  <2>3. QED BY <1>9, <2>1, <2>2
<1>11. DeleteDue'
  <2> DEFINE D == DOMAIN m
             W == Waiting'
  <2>1. DOMAIN m' = D /\ UNCHANGED << now, h, sift >> /\ \A i : Expiry(i)' = Expiry(i)
    BY <1>1 DEF Expiry
  <2>2. Ahead(Hole)' = Ahead(e)'
    BY <1>4 DEF Ahead, Children
  <2>3. /\ \A k \in D : Expiry(k) >= now
        /\ \A k, l \in D : Expiry(k) = now /\ Expiry(l) = now => k = l
        /\ \A j \in 1..Len(h) : h[j].t = now => j \in {1, sift.at}
    BY <1>7 DEF DeleteDue
  <2>4. \A k \in D \ W : Expiry(k) # now /\ k \notin Ahead(e)'
    BY <1>10
  <2>5. \A k \in D : Expiry(k) = now => Pending(k, "next")'
    BY <1>6, <1>8, <1>9
  <2> HIDE DEF D, W
  <2>6. QED BY <2>1, <2>2, <2>3, <2>4, <2>5 DEF DeleteDue, W
<1>12. Filed' /\ Len(h') = size'
  BY <1>1, <1>4, <1>7 DEF Filed
<1>13. QED BY <1>1, <1>4, <1>6, <1>11, <1>12 DEF Deleting

LEMMA DeletingStutter == Deleting /\ UNCHANGED vars => Deleting'
<1> SUFFICES ASSUME Deleting, UNCHANGED vars PROVE Deleting'
  OBVIOUS
<1>1. UNCHANGED << now, line, index, H, size, h, m, sift, todo, task, present >>
  BY DEF vars, elements, queue, user
<1>2. Filed' /\ Len(h') = Len(h)
  BY <1>1 DEF Deleting, Filed
<1>3. Ahead(Hole)' = Ahead(Hole)
  BY <1>1, AheadKept
<1>4. Waiting' = Waiting /\ (\A i : Expiry(i)' = Expiry(i)) /\ \A i, r : Pending(i, r)' <=> Pending(i, r)
  BY <1>1 DEF Waiting, Calls, Expiry, Pending
<1>5. DeleteDue'
  BY <1>1, <1>3, <1>4 DEF Deleting, DeleteDue
<1>6. DeleteCalling'
  BY <1>1 DEF Deleting, DeleteCalling, Pending, Hole
<1>7. QED BY <1>1, <1>2, <1>5, <1>6, DeletingKept

LEMMA IntactMaximumNext == (Shape /\ IntactInv /\ Intact)' => MaxIsMaximum'
<1>1. Shape /\ IntactInv /\ Intact => MaxIsMaximum
  BY IntactMaximum
<1>2. QED BY <1>1, PTL

LEMMA DeletedNext ==
  ~ AfterDelete /\ Shape /\ Shape' /\ IntactInv /\ IntactInv' /\ DeletedInv /\ [Next]_vars => DeletedInv'
<1> SUFFICES ASSUME ~ AfterDelete, Shape, Shape', IntactInv, IntactInv', DeletedInv, [Next]_vars
             PROVE  (task'.op = "delete" => Deleting') /\ (task'.op = "ready" => MaxIsMaximum')
  BY LastDeleteNext DEF DeletedInv
<1>1. LastDelete /\ (task.op = "delete" => Deleting) /\ (task.op = "ready" => MaxIsMaximum)
  BY DEF DeletedInv
<1>2. CASE BuildH \/ BuildQ \/ Advance \/ Change
  <2>1. task'.op \in {"build", "certify", "advance"}
    BY <1>2 DEF BuildH, BuildQ, Advance, Change
  <2>2. QED BY <2>1
<1>3. CASE Certificate \/ SiftQ
  <2>1. UNCHANGED << now, line, H, task, present >>
    BY <1>3 DEF Certificate, SiftQ, elements, user
  <2>2. task.op = "delete" => Deleting'
    BY <1>1, <1>3, DeletingCertificate, DeletingSiftQ
  <2>3. MaxIsMaximum => MaxIsMaximum'
    BY <2>1 DEF MaxIsMaximum, Key
  <2>4. QED BY <1>1, <2>1, <2>2, <2>3
<1>4. CASE Finish \/ InsertLoop \/ AdvanceLoop
  <2>1. task.op \in {"certify", "insert", "advance"} /\ UNCHANGED << line, present >>
    BY <1>4 DEF Finish, InsertLoop, AdvanceLoop, Event, elements, user
  <2>2. Intact'
    BY <1>1, <2>1 DEF LastDelete, Intact
  <2>3. task'.op # "delete"
    BY <1>4, <2>1 DEF Finish, InsertLoop, AdvanceLoop, Return, Ready
  <2>4. QED BY <2>2, <2>3, IntactMaximumNext
<1>5. CASE Insert
  <2>1. Intact
    BY <1>5 DEF Insert, May
  <2>2. Len(line') = Len(line) + 1 /\ present' = present \union {Len(line) + 1} /\ Len(line) \in Nat
    BY <1>5, LineInserted DEF Shape, LineOK
  <2>3. present' = 1..Len(line')
    BY <2>1, <2>2 DEF Intact
  <2>4. Intact'
    BY <2>3 DEF Intact
  <2>5. task'.op # "delete"
    <3>1. PICK id : task' = IF size = 0 THEN Ready ELSE [op |-> "insert", id |-> id]
      BY <1>5 DEF Insert
    <3>2. QED BY <3>1 DEF Ready
  <2>6. QED BY <2>4, <2>5, IntactMaximumNext
<1>6. CASE Delete
  <2>1. Intact /\ task.op = "ready"
    BY <1>6 DEF Delete, May, Ready
  <2>2. Deleting'
    BY <1>6, <2>1, DeletingStarts DEF IntactInv
  <2>3. task'.op = "delete"
    BY <1>6 DEF Delete
  <2>4. QED BY <2>2, <2>3
<1>7. CASE DeleteLoop
  <2>1. task.op = "delete"
    BY <1>7 DEF DeleteLoop
  <2>2. CASE h[1].t = now
    BY <1>1, <1>7, <2>1, <2>2, DeletingEvent
  <2>3. CASE h[1].t # now
    BY <1>1, <1>7, <2>1, <2>3, DeleteReturns
  <2>4. QED BY <2>1, <2>2, <2>3
<1>8. CASE UNCHANGED vars
  <2>1. UNCHANGED << now, line, H, task, present >>
    BY <1>8 DEF vars, elements, user
  <2>2. MaxIsMaximum => MaxIsMaximum'
    BY <2>1 DEF MaxIsMaximum, Key
  <2>3. QED BY <1>1, <1>8, <2>1, <2>2, DeletingStutter
<1>9. QED BY <1>2, <1>3, <1>4, <1>5, <1>6, <1>7, <1>8 DEF Next

LEMMA DeletedInit == Init => DeletedInv
<1> SUFFICES ASSUME Init PROVE DeletedInv
  OBVIOUS
<1>1. task.op = "build"
  <2>1. PICK n : task = [op |-> "build", i |-> (n + 1) \div 2, at |-> (n + 1) \div 2]
    BY Zenon DEF Init
  <2>2. QED BY <2>1
<1>2. QED BY <1>1, LastDeleteInit DEF DeletedInv

\* As long as no command follows a Delete, what Max() answers between two commands is
\* the maximum: after the constructor, Insert, Advance, Change and the Delete itself,
\* which brings the root to its place though it takes no element up.
THEOREM KineticMaximum ==
  ASSUME AfterDelete = FALSE
  PROVE  Spec => []MaxIsMaximum
<1>1. Init => DeletedInv
  BY DeletedInit
<1>2. Shape /\ Shape' /\ IntactInv /\ IntactInv' /\ DeletedInv /\ [Next]_vars => DeletedInv'
  BY DeletedNext
<1>3. DeletedInv => MaxIsMaximum
  <2>1. task = Ready => task.op = "ready"
    BY DEF Ready
  <2>2. QED BY <2>1 DEF DeletedInv, MaxIsMaximum
<1>4. Spec => []DeletedInv
  BY <1>1, <1>2, KineticIntact, PTL DEF Spec
<1>5. QED BY <1>3, <1>4, PTL

-----------------------------------------------------------------------------
\* How many turns a loop takes.

\* There are at least as many pairs as there are elements but one.
LEMMA PairsEnough ==
  ASSUME NEW S \in SUBSET Nat, IsFiniteSet(S)
  PROVE  /\ IsFiniteSet(Pairs(S)) /\ Cardinality(Pairs(S)) \in Nat /\ Cardinality(S) \in Nat
         /\ Cardinality(S) <= Cardinality(Pairs(S)) + 1
<1> DEFINE P == Pairs(S)
<1>1. IsFiniteSet(P)
  <2>1. IsFiniteSet(S \X S)
    BY FS_Product
  <2>2. P \in SUBSET (S \X S)
    BY DEF Pairs
  <2>3. QED BY <2>1, <2>2, FS_Subset
<1>2. Cardinality(P) \in Nat /\ Cardinality(S) \in Nat
  BY <1>1, FS_CardinalityType
<1>3. CASE S = {}
  BY <1>1, <1>2, <1>3, FS_EmptySet
<1>4. ASSUME NEW a \in S PROVE Cardinality(S) <= Cardinality(P) + 1
  <2> DEFINE T == S \ {a}
             f == [x \in T |-> IF a < x THEN << a, x >> ELSE << x, a >>]
  <2>1. IsFiniteSet(T) /\ Cardinality(T) = Cardinality(S) - 1
    BY FS_RemoveElement
  <2>2. ASSUME NEW x \in T PROVE f[x] \in P
    <3>1. a \in Nat /\ x \in Nat /\ a # x /\ x \in S
      OBVIOUS
    <3>2. a < x \/ x < a
      BY <3>1
    <3>3. QED BY <3>1, <3>2 DEF Pairs
  <2>3. f \in [T -> P]
    BY <2>2
  <2>4. ASSUME NEW x \in T, NEW y \in T, f[x] = f[y] PROVE x = y
    <3>1. a \in Nat /\ x \in Nat /\ y \in Nat /\ a # x /\ a # y
      OBVIOUS
    <3>2. f[x] = IF a < x THEN << a, x >> ELSE << x, a >>
      OBVIOUS
    <3>3. f[y] = IF a < y THEN << a, y >> ELSE << y, a >>
      OBVIOUS
    <3>4. (IF a < x THEN << a, x >> ELSE << x, a >>) = (IF a < y THEN << a, y >> ELSE << y, a >>)
      BY <2>4, <3>2, <3>3
    <3> HIDE DEF f, T
    <3>5. CASE a < x /\ a < y
      BY <3>4, <3>5
    <3>6. CASE a < x /\ ~ a < y
      BY <3>1, <3>4, <3>6
    <3>7. CASE ~ a < x /\ a < y
      BY <3>1, <3>4, <3>7
    <3>8. CASE ~ a < x /\ ~ a < y
      BY <3>4, <3>8
    <3>9. QED BY <3>5, <3>6, <3>7, <3>8
  <2> HIDE DEF f, T, P
  <2>5. f \in Injection(T, P)
    BY <2>3, <2>4 DEF Injection, IsInjective
  <2>6. Cardinality(T) <= Cardinality(P)
    BY <1>1, <2>5, FS_Injection
  <2>7. QED BY <1>2, <2>1, <2>6
<1>5. QED BY <1>1, <1>2, <1>3, <1>4

LEMMA PresentPairs ==
  ASSUME Shape
  PROVE  /\ IsFiniteSet(Pairs(present)) /\ Cardinality(Pairs(present)) \in Nat
         /\ size \in Nat /\ size <= Cardinality(Pairs(present)) + 1
         /\ IsFiniteSet(Coming) /\ Cardinality(Coming) \in Nat
         /\ Cardinality(Coming) <= Cardinality(Pairs(present))
<1>1. present \subseteq 1..Len(line) /\ Len(line) \in Nat /\ size = Cardinality(present)
  BY DEF Shape, LineOK
<1>2. IsFiniteSet(1..Len(line))
  BY <1>1, FS_Interval
<1>3. IsFiniteSet(present) /\ present \in SUBSET Nat
  <2>1. present \in SUBSET (1..Len(line)) /\ present \in SUBSET Nat
    BY <1>1
  <2>2. QED BY <1>2, <2>1, FS_Subset
<1>4. /\ IsFiniteSet(Pairs(present)) /\ Cardinality(Pairs(present)) \in Nat /\ size \in Nat
      /\ size <= Cardinality(Pairs(present)) + 1
  BY <1>1, <1>3, PairsEnough
<1>5. Coming \in SUBSET Pairs(present)
  BY DEF Coming
<1>6. IsFiniteSet(Coming) /\ Cardinality(Coming) <= Cardinality(Pairs(present))
  BY <1>4, <1>5, FS_Subset
<1>7. Cardinality(Coming) \in Nat
  BY <1>6, FS_CardinalityType
<1>8. QED BY <1>4, <1>6, <1>7

LEMMA TurnsBounded == Shape /\ TurnsInv => MeetingsOnce
<1> SUFFICES ASSUME Shape, TurnsInv PROVE turns <= Cardinality(Pairs(present))
  BY DEF MeetingsOnce
<1> DEFINE P == Cardinality(Pairs(present))
           C == Cardinality(Coming)
<1>1. P \in Nat /\ size \in Nat /\ size <= P + 1 /\ C \in Nat /\ turns \in Nat
  BY PresentPairs DEF Shape, ClockOK
<1>2. task.op \in {"ready", "build", "certify", "insert", "advance", "delete"}
  BY KineticAssumption DEF Shape, TaskOK, TurnsInv
<1> HIDE DEF P, C
<1>3. CASE task.op = "insert"
  <2>1. index[task.id] \in Nat /\ index[task.id] >= 1
    <3>1. task.id \in 1..Len(line)
      BY <1>3 DEF Shape, TaskOK
    <3>2. index[task.id] \in 1..Len(H)
      BY <3>1 DEF Shape, HOK
    <3>3. QED BY <3>2
  <2>2. turns + index[task.id] <= size
    BY <1>3 DEF TurnsInv
  <2>3. QED BY <1>1, <2>1, <2>2 DEF P
<1>4. CASE task.op = "certify"
  BY <1>1, <1>4 DEF TurnsInv, P
<1>5. CASE task.op = "advance"
  BY <1>1, <1>5 DEF TurnsInv, P, C
<1>6. CASE task.op = "delete"
  <2>1. turns = 0 \/ (turns < Hole /\ Hole <= size)
    BY <1>6 DEF TurnsInv
  <2>2. Hole \in Nat
    <3>1. task.id \in 1..Len(line)
      BY <1>6 DEF Shape, TaskOK
    <3>2. index[task.id] \in 1..Len(H)
      BY <3>1 DEF Shape, HOK
    <3>3. QED BY <3>2 DEF Hole
  <2>3. QED BY <1>1, <2>1, <2>2 DEF P
<1>7. CASE task.op \in {"ready", "build"}
  BY <1>1, <1>7 DEF TurnsInv, P
<1>8. QED BY <1>2, <1>3, <1>4, <1>5, <1>6, <1>7

\* At an event of Advance one meeting the less is to come.
LEMMA ComingFewer ==
  ASSUME Shape, Whole, Intact, Idle, task.op = "advance", NEW e \in 2..size, e = h[1].id,
         NEW t, t = h[1].t, t <= task.to, now' = t, UNCHANGED << line, present >>
  PROVE  /\ Cardinality(Coming') \in Nat
         /\ Cardinality(Coming') + 1 <= Cardinality(Coming)
<1> DEFINE M(p) == Meet(line[p[1]], line[p[2]])
           Apt(p) == line[p[1]].v # line[p[2]].v
           Left(s) == {p \in Pairs(present) : Apt(p) /\ M(p) > s}
<1>1. Coming = Left(now) /\ Coming' = Left(t)
  BY DEF Coming, Pairs, Meet
<1>2. /\ t \in Nat /\ t > now /\ now \in Nat
      /\ Place(line[H[e]], t) = Place(line[H[e \div 2]], t) /\ line[H[e]].v > line[H[e \div 2]].v
  BY EventPlaces, BoundsOK DEF Shape, ClockOK
<1>3. /\ present = 1..Len(line) /\ Len(line) \in Nat /\ size = Len(H) /\ Len(H) = Len(line)
      /\ \A x \in 1..size : index[H[x]] = x
  BY DEF Intact, Shape, LineOK, Whole, Numbered
<1>4. \A x \in 1..Len(line) : line[x] \in EvenLine
  BY DEF Shape, LineOK
<1>5. PICK a, b : a = H[e] /\ b = H[e \div 2]
  OBVIOUS
<1>6. a \in 1..Len(line) /\ b \in 1..Len(line) /\ a # b
  <2>1. e \in 1..size /\ e \div 2 \in 1..size /\ e # e \div 2
    BY <1>3
  <2>2. a \in 1..Len(line) /\ b \in 1..Len(line)
    <3>1. \A i \in 1..Len(H) : H[i] \in 1..Len(line)
      BY DEF Shape, HOK
    <3>2. QED BY <1>3, <1>5, <2>1, <3>1
  <2>3. index[a] = e /\ index[b] = e \div 2
    BY <1>3, <1>5, <2>1
  <2>4. QED BY <2>1, <2>2, <2>3
<1>7. Meet(line[a], line[b]) = t /\ Meet(line[b], line[a]) = t /\ line[a].v # line[b].v
  <2> DEFINE u == line[a]
             v == line[b]
  <2>1. u \in EvenLine /\ v \in EvenLine /\ u.v > v.v /\ Place(u, t) = Place(v, t) /\ t \in Int
    BY <1>2, <1>4, <1>5, <1>6
  <2>2. u.v # v.v
    <3>1. u.v \in Int /\ v.v \in Int
      BY <2>1, SpeedsClose
    <3>2. QED BY <2>1, <3>1
  <2> HIDE DEF u, v
  <2>3. Meet(u, v) = t
    BY <2>1, Crossing
  <2>4. Meet(v, u) = t
    BY <2>1, <2>2, <2>3, MeetSymmetric
  <2>5. QED BY <2>2, <2>3, <2>4 DEF u, v
<1>8. PICK p \in Pairs(present) : M(p) = t /\ Apt(p)
  <2>1. CASE a < b
    <3>1. << a, b >> \in Pairs(present)
      BY <1>3, <1>6, <2>1 DEF Pairs
    <3>2. M(<< a, b >>) = t /\ Apt(<< a, b >>)
      BY <1>7
    <3>3. QED BY <3>1, <3>2
  <2>2. CASE b < a
    <3>1. << b, a >> \in Pairs(present)
      BY <1>3, <1>6, <2>2 DEF Pairs
    <3>2. M(<< b, a >>) = t /\ Apt(<< b, a >>)
      BY <1>7
    <3>3. QED BY <3>1, <3>2
  <2>3. a < b \/ b < a
    BY <1>3, <1>6
  <2>4. QED BY <2>1, <2>2, <2>3
<1>9. ASSUME NEW r \in Pairs(present), Apt(r) PROVE M(r) \in Int
  <2>1. r[1] \in 1..Len(line) /\ r[2] \in 1..Len(line)
    BY <1>3 DEF Pairs
  <2>2. line[r[1]] \in EvenLine /\ line[r[2]] \in EvenLine
    BY <1>4, <2>1
  <2>3. QED BY <1>9, <2>2, MeetInteger
<1> HIDE DEF M, Apt
<1>10. p \in Left(now) /\ p \notin Left(t)
  BY <1>2, <1>8
<1>11. Left(t) \subseteq Left(now) \ {p}
  BY <1>2, <1>9, <1>10
<1> HIDE DEF Left
<1>12. IsFiniteSet(Left(now)) /\ Cardinality(Left(now)) \in Nat
  BY <1>1, PresentPairs
<1>13. IsFiniteSet(Left(now) \ {p}) /\ Cardinality(Left(now) \ {p}) = Cardinality(Left(now)) - 1
  BY <1>10, <1>12, FS_RemoveElement
<1>14. IsFiniteSet(Left(t)) /\ Cardinality(Left(t)) <= Cardinality(Left(now) \ {p})
  BY <1>11, <1>13, FS_Subset
<1>15. Cardinality(Left(t)) \in Nat
  BY <1>14, FS_CardinalityType
<1>16. QED BY <1>1, <1>12, <1>13, <1>14, <1>15

LEMMA ComingKept ==
  ASSUME UNCHANGED << now, line, present >>
  PROVE  Coming' = Coming /\ Pairs(present') = Pairs(present)
BY DEF Coming, Pairs, Meet

LEMMA TurnsKept ==
  ASSUME TurnsInv, UNCHANGED << now, line, present, index, size, task, turns >>
  PROVE  TurnsInv'
<1>1. Coming' = Coming /\ Pairs(present') = Pairs(present)
  BY ComingKept
<1>2. QED BY <1>1 DEF TurnsInv, Hole

\* A command that is over has no turns.
LEMMA TurnsOver ==
  ASSUME Return
  PROVE  TurnsInv'
<1>1. task'.op = "ready" /\ turns' = 0
  BY DEF Return, Ready
<1>2. QED BY <1>1 DEF TurnsInv

LEMMA TurnsInsert ==
  ASSUME Shape, Shape', IntactInv', LastDelete', TurnsInv, Insert
  PROVE  TurnsInv'
<1>1. task.op = "ready" /\ turns' = turns
  BY DEF Insert, May, Ready
<1>2. turns' = 0
  BY <1>1 DEF TurnsInv
<1>3. PICK id : task' = IF size = 0 THEN Ready ELSE [op |-> "insert", id |-> id]
  BY DEF Insert
<1>4. CASE size = 0
  <2>1. task'.op = "ready"
    BY <1>3, <1>4 DEF Ready
  <2>2. QED BY <1>2, <2>1 DEF TurnsInv
<1>5. CASE size # 0
  <2>1. task'.op = "insert"
    BY <1>3, <1>5
  <2>2. Len(H') = size' /\ size' \in Nat
    BY <2>1 DEF LastDelete, IntactInv, Whole, Numbered, Shape, HOK
  <2>3. index'[task'.id] \in 1..Len(H')
    <3>1. task'.id \in 1..Len(line')
      BY <2>1 DEF Shape, TaskOK
    <3>2. QED BY <3>1 DEF Shape, HOK
  <2>4. turns' + index'[task'.id] <= size'
    BY <1>2, <2>2, <2>3
  <2>5. QED BY <2>1, <2>4 DEF TurnsInv
<1>6. QED BY <1>4, <1>5

LEMMA TurnsInsertLoop ==
  ASSUME Shape, Whole, TurnsInv, InsertLoop
  PROVE  TurnsInv'
<1>1. task.op = "insert" /\ Idle
  BY DEF InsertLoop
<1>2. CASE h[1].t # now
  BY <1>2, TurnsOver DEF InsertLoop, Q_Min
<1>3. CASE h[1].t = now
  <2>1. PICK q : q = index[task.id]
    OBVIOUS
  <2>2. h[1].id = q /\ q \in 2..size /\ size \in Nat
    BY <1>1, <1>3, <2>1, NewAtRoot DEF Shape, HOK
  <2>3. /\ Event(q) /\ turns' = turns + 1
        /\ task' = IF index'[task.id] = 1 THEN [op |-> "certify"] ELSE task
    BY <1>3, <2>2 DEF InsertLoop, Q_Min, Again
  <2>4. size' = size /\ index'[H[q]] = q \div 2
    BY <2>2, <2>3, EventMoves DEF Whole
  <2>5. index'[task.id] = q \div 2
    <3>1. task.id \in 1..Len(line)
      BY <1>1 DEF Shape, TaskOK
    <3>2. H[q] = task.id
      BY <2>1, <3>1 DEF Whole, Numbered
    <3>3. QED BY <2>4, <3>2
  <2>6. turns + q <= size /\ turns \in Nat
    BY <1>1, <2>1 DEF TurnsInv, Shape, ClockOK
  <2>7. turns' + q \div 2 <= size' /\ turns' <= size' - 1
    BY <2>2, <2>3, <2>4, <2>6
  <2>8. CASE q \div 2 = 1
    <3>1. task'.op = "certify"
      BY <2>3, <2>5, <2>8
    <3>2. QED BY <2>7, <3>1 DEF TurnsInv
  <2>9. CASE q \div 2 # 1
    <3>1. task' = task
      BY <2>3, <2>5, <2>9
    <3>2. task'.op = "insert" /\ index'[task'.id] = q \div 2
      BY <1>1, <2>5, <3>1
    <3>3. QED BY <2>7, <3>2 DEF TurnsInv
  <2>10. QED BY <2>8, <2>9
<1>4. QED BY <1>2, <1>3

LEMMA TurnsAdvanceLoop ==
  ASSUME Shape, Whole, Intact, TurnsInv, AdvanceLoop
  PROVE  TurnsInv'
<1>1. task.op = "advance" /\ Idle
  BY DEF AdvanceLoop
<1>2. CASE ~ h[1].t <= task.to
  BY <1>2, TurnsOver DEF AdvanceLoop, Q_Min
<1>3. CASE h[1].t <= task.to
  <2>1. PICK e \in 2..size : e = h[1].id
    BY <1>1, AllUpToDate
  <2>2. PICK t : t = h[1].t
    OBVIOUS
  <2>3. now' = t /\ turns' = turns + 1 /\ UNCHANGED << line, present, task >>
    BY <1>3, <2>2 DEF AdvanceLoop, Q_Min, Event, Again, user
  <2>4. Cardinality(Coming') \in Nat /\ Cardinality(Coming') + 1 <= Cardinality(Coming)
    BY <1>1, <1>3, <2>1, <2>2, <2>3, ComingFewer
  <2>5. turns + Cardinality(Coming) <= Cardinality(Pairs(present)) /\ turns \in Nat
    BY <1>1 DEF TurnsInv, Shape, ClockOK
  <2>6. Cardinality(Coming) \in Nat /\ Cardinality(Pairs(present)) \in Nat
    BY PresentPairs
  <2>7. turns' + Cardinality(Coming') <= Cardinality(Pairs(present'))
    BY <2>3, <2>4, <2>5, <2>6
  <2>8. task'.op = "advance"
    BY <1>1, <2>3
  <2>9. QED BY <2>7, <2>8 DEF TurnsInv
<1>4. QED BY <1>2, <1>3

LEMMA TurnsDeleteLoop ==
  ASSUME Shape, Deleting, TurnsInv, DeleteLoop
  PROVE  TurnsInv'
<1>1. task.op = "delete" /\ Idle /\ UNCHANGED << now, present >>
  BY DEF DeleteLoop, user
<1>2. CASE h[1].t # now
  BY <1>2, TurnsOver DEF DeleteLoop, Q_Min
<1>3. CASE h[1].t = now
  <2>1. PICK e : e = h[1].id
    OBVIOUS
  <2>2. e \in Ahead(Hole)
    BY <1>1, <1>3, <2>1, DeleteTurn
  <2>3. Event(e) /\ turns' = turns + 1 /\ task' = task
    BY <1>3, <2>1 DEF DeleteLoop, Q_Min, Again
  <2>4. e \in 2..size /\ Hole' = e /\ size' = size
    BY <1>1, <2>2, <2>3, PassedDown
  <2>5. Hole \in Nat /\ Hole >= 1 /\ size \in Nat
    BY <1>1, DeleteStage
  <2>6. e \in {2 * Hole, 2 * Hole + 1}
    BY <2>2 DEF Ahead, Children
  <2>7. turns \in Nat /\ (turns = 0 \/ turns < Hole)
    BY <1>1 DEF TurnsInv, Shape, ClockOK
  <2>8. turns' < e /\ e <= size
    BY <2>3, <2>4, <2>5, <2>6, <2>7
  <2>9. turns' < Hole' /\ Hole' <= size' /\ task'.op = "delete"
    BY <1>1, <2>3, <2>4, <2>8
  <2>10. QED BY <2>9 DEF TurnsInv
<1>4. QED BY <1>2, <1>3

LEMMA TurnsNext ==
  ~ AfterDelete /\ Shape /\ Shape' /\ IntactInv /\ IntactInv' /\ DeletedInv /\ DeletedInv' /\ TurnsInv /\ [Next]_vars
    => TurnsInv'
<1> SUFFICES ASSUME ~ AfterDelete, Shape, Shape', IntactInv, IntactInv', DeletedInv, DeletedInv', TurnsInv, [Next]_vars
             PROVE  TurnsInv'
  OBVIOUS
<1>1. LastDelete /\ LastDelete' /\ (task.op = "delete" => Deleting)
  BY DEF DeletedInv
<1>2. task.op \in {"ready", "build"} => turns = 0
  BY DEF TurnsInv
<1>3. CASE Certificate \/ SiftQ \/ UNCHANGED vars
  <2>1. UNCHANGED << now, line, present, index, size, task, turns >>
    BY <1>3 DEF Certificate, SiftQ, elements, user, vars
  <2>2. QED BY <2>1, TurnsKept
<1>4. CASE BuildH
  <2>1. task.op = "build" /\ task'.op = "build" /\ turns' = turns
    BY <1>4 DEF BuildH
  <2>2. QED BY <1>2, <2>1 DEF TurnsInv
<1>5. CASE BuildQ
  <2>1. task.op = "build" /\ task'.op = "certify" /\ turns' = turns /\ size' = size
    BY <1>5 DEF BuildQ, elements
  <2>2. size \in Nat /\ size >= 2
    BY <2>1 DEF Shape, TaskOK, HOK
  <2>3. turns' <= size' - 1
    BY <1>2, <2>1, <2>2
  <2>4. QED BY <2>1, <2>3 DEF TurnsInv
<1>6. CASE Finish
  BY <1>6, TurnsOver DEF Finish
<1>7. CASE Insert
  BY <1>1, <1>7, TurnsInsert
<1>8. CASE InsertLoop
  <2>1. Whole
    BY <1>1, <1>8 DEF InsertLoop, LastDelete, IntactInv
  <2>2. QED BY <1>8, <2>1, TurnsInsertLoop
<1>9. CASE Advance
  <2>1. task.op = "ready" /\ task'.op = "advance" /\ turns' = turns /\ UNCHANGED << now, line, present >>
    BY <1>9 DEF Advance, May, Ready, elements, user
  <2>2. turns' = 0
    BY <1>2, <2>1
  <2>3. /\ Cardinality(Coming) \in Nat /\ Cardinality(Pairs(present)) \in Nat
        /\ Cardinality(Coming) <= Cardinality(Pairs(present))
    BY PresentPairs
  <2>4. Cardinality(Coming') = Cardinality(Coming) /\ Cardinality(Pairs(present')) = Cardinality(Pairs(present))
    BY <2>1, ComingKept
  <2>5. turns' + Cardinality(Coming') <= Cardinality(Pairs(present'))
    BY <2>2, <2>3, <2>4
  <2>6. QED BY <2>1, <2>5 DEF TurnsInv
<1>10. CASE AdvanceLoop
  <2>1. Whole /\ Intact
    BY <1>1, <1>10 DEF AdvanceLoop, LastDelete, IntactInv
  <2>2. QED BY <1>10, <2>1, TurnsAdvanceLoop
<1>11. CASE Change
  <2>1. task.op = "ready" /\ task'.op = "certify" /\ turns' = turns /\ size' = size /\ Intact
    BY <1>11 DEF Change, May, Ready
  <2>2. size \in Nat /\ size >= 2
    BY <2>1, AtRest DEF IntactInv
  <2>3. turns' <= size' - 1
    BY <1>2, <2>1, <2>2
  <2>4. QED BY <2>1, <2>3 DEF TurnsInv
<1>12. CASE Delete
  <2>1. task.op = "ready" /\ task'.op = "delete" /\ turns' = turns
    BY <1>12 DEF Delete, May, Ready
  <2>2. turns' = 0
    BY <1>2, <2>1
  <2>3. QED BY <2>1, <2>2 DEF TurnsInv
<1>13. CASE DeleteLoop
  BY <1>1, <1>13, TurnsDeleteLoop DEF DeleteLoop
<1>14. QED
  BY <1>3, <1>4, <1>5, <1>6, <1>7, <1>8, <1>9, <1>10, <1>11, <1>12, <1>13 DEF Next

\* As long as no command follows a Delete, the loop of a command takes no more turns
\* than there are pairs of elements: that of Insert climbs and that of Delete goes down,
\* and at each turn of Advance one meeting the less is to come.
THEOREM KineticMeetingsOnce ==
  ASSUME AfterDelete = FALSE
  PROVE  Spec => []MeetingsOnce
<1>1. Init => DeletedInv
  BY DeletedInit
<1>2. Shape /\ Shape' /\ IntactInv /\ IntactInv' /\ DeletedInv /\ [Next]_vars => DeletedInv'
  BY DeletedNext
<1>3. Spec => []DeletedInv
  BY <1>1, <1>2, KineticIntact, PTL DEF Spec
<1>4. Init => TurnsInv
  <2>1. ASSUME Init PROVE task.op = "build" /\ turns = 0
    <3>1. PICK n : task = [op |-> "build", i |-> (n + 1) \div 2, at |-> (n + 1) \div 2] /\ turns = 0
      BY <2>1, Zenon DEF Init
    <3>2. QED BY <3>1
  <2>2. QED BY <2>1 DEF TurnsInv
<1>5. Shape /\ Shape' /\ IntactInv /\ IntactInv' /\ DeletedInv /\ DeletedInv' /\ TurnsInv /\ [Next]_vars => TurnsInv'
  BY TurnsNext
<1>6. Spec => [](Shape /\ TurnsInv)
  BY <1>3, <1>4, <1>5, KineticIntact, PTL DEF Spec
<1>7. QED BY <1>6, TurnsBounded, PTL

=============================================================================
