---------------------------- MODULE Retroactive ----------------------------
(***************************************************************************)
(* The retroactive queue and stack of task t3.  Every operation has a      *)
(* time; it may be inserted or cancelled at any time, also in the past,    *)
(* and a query asks what the queue or the stack was at a time.  The queue  *)
(* is a tree of its enqueues and a tree of its dequeues, the stack a tree  *)
(* of pushes and pops: treaps with the operations at their leaves.         *)
(*                                                                         *)
(* The two abb.cpp have the same tree with other counters; here a node has *)
(* the counters of both, and those that a tree does not have stay 0.       *)
(* Here the same operations go to the queue and to the stack.              *)
(***************************************************************************)
EXTENDS Integers, SequencesExt, FiniteSetsExt

CONSTANTS
  Times,         \* when an operation may take place
  Priorities,    \* the outcomes of _rand()
  MaxDeletes     \* a bound on the operations cancelled

ASSUME RetroactiveAssumption ==
  /\ Times \subseteq Nat /\ Priorities \subseteq 0..1000
  /\ MaxDeletes \in Nat

VARIABLES
  enq, deq,      \* the trees of the queue
  a,             \* the tree of the stack
  log,           \* the operations in force, as the user knows: "in" or "out" by time
  deletes,       \* how many have been cancelled
  absent         \* a Delete has looked in a tree of two leaves or more for a time not there

vars == << enq, deq, a, log, deletes, absent >>

-----------------------------------------------------------------------------
\* abb.cpp.  A leaf has the key, the value and the operation; max is the greatest
\* key below a node, num the number of leaves, sum the pushes less the pops, and
\* smax the greatest sum of a suffix.

nullptr == [key |-> -1]
GARBAGE == -42

Leaf(t, x, op, num) ==
  [key |-> t, priority |-> -12345, value |-> x, operation |-> op, max |-> t, num |-> num,
   sum |-> op, smax |-> IF op = 1 THEN 1 ELSE 0, left |-> nullptr, right |-> nullptr]

IsLeaf(r) == r.left = nullptr /\ r.right = nullptr

Larger(x, y) == IF x > y THEN x ELSE y

\* The greatest suffix of what is below l and below r, in this order.
Suffix(l, r) == Larger(r.smax, r.sum + l.smax)

\* The inner node that takes the place of a leaf: its two leaves l and r.
Split(l, r, p) ==
  [key |-> GARBAGE, priority |-> p, value |-> GARBAGE, operation |-> GARBAGE, max |-> r.max,
   num |-> l.num + r.num, sum |-> l.operation + r.operation,
   smax |-> Larger(Larger(0, r.operation), l.operation + r.operation), left |-> l, right |-> r]

RotateLeft_KeepsCounters(v) ==
  LET u == v.right IN
  [u EXCEPT !.left = [v EXCEPT !.max = Larger(u.left.max, v.left.max), !.right = u.left],
            !.max = v.max, !.num = v.num, !.sum = v.sum, !.smax = v.smax]
RotateLeft(v) ==
  LET u == v.right IN
  [u EXCEPT !.left = [v EXCEPT !.max = Larger(u.left.max, v.left.max),
                               !.num = u.left.num + v.left.num,
                               !.sum = u.left.sum + v.left.sum,
                               !.smax = Suffix(v.left, u.left),
                               !.right = u.left],
            !.max = v.max, !.num = v.num, !.sum = v.sum, !.smax = v.smax]

RotateRight(u) ==
  LET v == u.left IN
  [v EXCEPT !.right = [u EXCEPT !.max = Larger(u.right.max, v.right.max),
                                !.num = u.right.num + v.right.num,
                                !.sum = u.right.sum + v.right.sum,
                                !.smax = Suffix(v.right, u.right),
                                !.left = v.right],
            !.max = u.max, !.num = u.num, !.sum = u.sum, !.smax = u.smax]

\* The sums of an inner node after something has changed below it.
Sums_Prefix(r) ==
  [r EXCEPT !.sum = r.left.sum + r.right.sum, !.smax = Larger(r.left.smax, r.left.sum + r.right.smax)]
Sums(r) == [r EXCEPT !.sum = r.left.sum + r.right.sum, !.smax = Suffix(r.left, r.right)]

\* _Insert: the leaf `new`; p is the priority of the inner node made for it.
RECURSIVE Insert(_, _, _)
Insert(r, new, p) ==
  CASE r = nullptr -> new
    [] r # nullptr /\ IsLeaf(r) ->
         IF new.key > r.key THEN Split(r, new, p) ELSE Split(new, r, p)
    [] OTHER ->
         LET n == [r EXCEPT !.num = @ + new.num, !.max = Larger(@, new.key)] IN
         IF new.key > r.left.max
         THEN LET m == Sums([n EXCEPT !.right = Insert(r.right, new, p)])
              IN IF m.right.priority > m.priority THEN RotateLeft(m) ELSE m
         ELSE LET m == Sums([n EXCEPT !.left = Insert(r.left, new, p)])
              IN IF m.left.priority > m.priority THEN RotateRight(m) ELSE m

\* _Delete.  num goes down along the path, whether or not the key is there; `one`
\* is 1 in the queue's trees and 0 in the stack's, which have no num.
RECURSIVE Delete(_, _, _)
Delete(r, t, one) ==
  CASE r = nullptr -> nullptr
    [] r # nullptr /\ IsLeaf(r) -> IF r.key = t THEN nullptr ELSE r
    [] OTHER ->
         LET right == t > r.left.max
             d == Delete(IF right THEN r.right ELSE r.left, t, one)
             m == IF right THEN [r EXCEPT !.right = d] ELSE [r EXCEPT !.left = d]
         IN IF d = nullptr THEN (IF right THEN r.left ELSE r.right)
            ELSE Sums([m EXCEPT !.num = @ - one, !.max = Larger(m.left.max, m.right.max)])

\* The number of keys up to t.
RECURSIVE Count(_, _)
Count(r, t) ==
  CASE r = nullptr -> 0
    [] r # nullptr /\ IsLeaf(r) -> IF r.key <= t THEN 1 ELSE 0
    [] OTHER -> IF r.left.max <= t THEN r.left.num + Count(r.right, t) ELSE Count(r.left, t)

\* The value of the k-th key.  (The assert that k is 1 at the leaf is left out: it can fail
\* only when the counters are wrong, as they are after an absent key was deleted.)
RECURSIVE QueueK(_, _)
QueueK(r, k) ==
  IF IsLeaf(r) THEN r.value
  ELSE IF r.left.num >= k THEN QueueK(r.left, k) ELSE QueueK(r.right, k - r.left.num)

\* The sum of the operations up to t.
RECURSIVE Sum(_, _)
Sum(r, t) ==
  IF IsLeaf(r) THEN (IF t >= r.key THEN r.operation ELSE 0)
  ELSE IF t > r.left.max THEN r.left.sum + Sum(r.right, t) ELSE Sum(r.left, t)

\* Going back from time t, the subtree that holds the k-th push not popped, and
\* which of its own pushes that is.
RECURSIVE FindSubtree(_, _, _)
FindSubtree(r, t, k) ==
  IF IsLeaf(r)
  THEN CASE t < r.key -> [k |-> k, p |-> nullptr]
         [] t >= r.key /\ r.operation = 1 -> [k |-> k - 1, p |-> IF k = 1 THEN r ELSE nullptr]
         [] OTHER -> [k |-> k + 1, p |-> nullptr]
  ELSE IF t > r.left.max
       THEN LET f == FindSubtree(r.right, t, k) IN
            CASE f.p # nullptr -> f
              [] f.p = nullptr /\ r.left.smax >= f.k -> [k |-> f.k, p |-> r.left]
              [] OTHER -> [k |-> f.k - r.left.sum, p |-> nullptr]
       ELSE FindSubtree(r.left, t, k)

RECURSIVE PushK(_, _)
PushK(r, k) ==
  IF IsLeaf(r) THEN r.value
  ELSE IF r.right.smax >= k THEN PushK(r.right, k) ELSE PushK(r.left, k - r.right.sum)

StackK(r, t, k) == LET f == FindSubtree(r, t, k) IN PushK(f.p, f.k)

-----------------------------------------------------------------------------
\* fila_retroativa.cpp and pilha_retroativa.cpp.  The value enqueued or pushed at
\* a time is the time itself.  Queue and stack never meet, so that one priority
\* for both leaves nothing out.

Init ==
  /\ enq = nullptr /\ deq = nullptr /\ a = nullptr
  /\ log = << >> /\ deletes = 0 /\ absent = FALSE

\* InsertEnqueue and InsertPush.
InsertIn ==
  /\ \E t \in Times \ DOMAIN log, p \in Priorities :
       /\ enq' = Insert(enq, Leaf(t, t, 0, 1), p)
       /\ a' = Insert(a, Leaf(t, t, 1, 0), p)
       /\ log' = [s \in DOMAIN log \union {t} |-> IF s = t THEN "in" ELSE log[s]]
  /\ UNCHANGED << deq, deletes, absent >>

\* InsertDequeue and InsertPop.
InsertOut ==
  /\ \E t \in Times \ DOMAIN log, p \in Priorities :
       /\ deq' = Insert(deq, Leaf(t, GARBAGE, 0, 1), p)
       /\ a' = Insert(a, Leaf(t, GARBAGE, -1, 0), p)
       /\ log' = [s \in DOMAIN log \union {t} |-> IF s = t THEN "out" ELSE log[s]]
  /\ UNCHANGED << enq, deletes, absent >>

\* The leaves below r, in order, and the nodes.
RECURSIVE Leaves(_)
Leaves(r) ==
  CASE r = nullptr -> << >>
    [] r # nullptr /\ IsLeaf(r) -> << r >>
    [] OTHER -> Leaves(r.left) \o Leaves(r.right)

RECURSIVE Nodes(_)
Nodes(r) == IF r = nullptr THEN {} ELSE {r} \union Nodes(r.left) \union Nodes(r.right)

Keys(r) == {l.key : l \in ToSet(Leaves(r))}

\* Delete, of the operation at t: the queue deletes t from both its trees.
Misses(r, t) == t \notin Keys(r) /\ Cardinality(Keys(r)) >= 2

DeleteAt ==
  /\ deletes < MaxDeletes
  /\ \E t \in DOMAIN log :
       /\ enq' = Delete(enq, t, 1)
       /\ deq' = Delete(deq, t, 1)
       /\ a' = Delete(a, t, 0)
       /\ log' = [s \in DOMAIN log \ {t} |-> log[s]]
       /\ absent' = (absent \/ Misses(enq, t) \/ Misses(deq, t))
  /\ deletes' = deletes + 1

\* The queries: the k-th of the queue, and of the stack from its top, at time t.
Queue_K(t, k) == QueueK(enq, Count(deq, t) + k)
Queue_Size(t) == Count(enq, t) - Count(deq, t)
Stack_K(t, k) == StackK(a, t, k)
Stack_Size(t) == Sum(a, t)

Next == InsertIn \/ InsertOut \/ DeleteAt

Spec == Init /\ [][Next]_vars
-----------------------------------------------------------------------------
\* The operations up to t, in the order of their times.
Until(t) ==
  LET times == {s \in DOMAIN log : s <= t}
  IN  [n \in 1..Cardinality(times) |->
         LET x == CHOOSE s \in times : Cardinality({r \in times : r < s}) = n - 1
         IN  [op |-> log[x], x |-> x]]

Size(ops) ==
  Cardinality({i \in DOMAIN ops : ops[i].op = "in"}) - Cardinality({i \in DOMAIN ops : ops[i].op = "out"})

\* Nothing is taken from an empty queue or stack up to t.
Legal(t) == \A s \in DOMAIN log : s <= t => Size(Until(s)) >= 0

\* What the operations up to t leave in a queue (the oldest first), and in a stack
\* (the bottom first).
QueueOf(t) ==
  FoldLeft(LAMBDA q, o : IF o.op = "in" THEN Append(q, o.x) ELSE Tail(q), << >>, Until(t))
StackOf(t) ==
  FoldLeft(LAMBDA s, o : IF o.op = "in" THEN Append(s, o.x) ELSE Front(s), << >>, Until(t))

QueueAnswers(t) ==
  /\ Queue_Size(t) = Len(QueueOf(t))
  /\ \A k \in DOMAIN QueueOf(t) : Queue_K(t, k) = QueueOf(t)[k]

StackAnswers(t) ==
  LET s == StackOf(t) IN
  /\ a # nullptr => Stack_Size(t) = Len(s)
  /\ \A k \in DOMAIN s : Stack_K(t, k) = s[Len(s) + 1 - k]

\* Queries at every time answer as if the operations in force had been carried out
\* one after the other, whatever order they were inserted and cancelled in: those of
\* the stack always, those of the queue until a Delete has looked for a key not there.
Replays ==
  \A t \in Times : Legal(t) => StackAnswers(t) /\ (~absent => QueueAnswers(t))

\* The same of the queue without that condition: "Se a chave não existir na treap,
\* nada acontece".
QueueReplaysAlways == \A t \in Times : Legal(t) => QueueAnswers(t)

\* The greatest sum of a suffix of a sequence of leaves, or 0.
BestSuffix(ls) ==
  Max({0} \union {FoldLeft(LAMBDA n, l : n + l.operation, 0, SubSeq(ls, i, Len(ls))) : i \in DOMAIN ls})

\* Every node knows what is below it, through insertions, rotations and deletions,
\* and no node has a greater priority than the one above it.
CountersRight ==
  \A tree \in {enq, deq, a} : \A r \in Nodes(tree) :
    LET ls == Leaves(r) IN
    /\ \A i \in 1..(Len(ls) - 1) : ls[i].key < ls[i + 1].key
    /\ r.max = ls[Len(ls)].key
    /\ ~absent /\ tree # a => r.num = Len(ls)
    /\ tree = a => /\ r.sum = FoldLeft(LAMBDA n, l : n + l.operation, 0, ls)
                   /\ r.smax = BestSuffix(ls)
    /\ \A c \in {r.left, r.right} \ {nullptr} : c.priority <= r.priority
=============================================================================
