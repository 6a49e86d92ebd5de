-------------------------- MODULE PersistentDeque --------------------------
(***************************************************************************)
(* The persistent deque of task t1 (deque-final.cpp).  All versions share  *)
(* a forest of nodes; a version is a pair of them, and its elements are    *)
(* the nodes on the path from the first up to the lowest common ancestor   *)
(* and down to the last.  A push makes a node below an end; a pop only     *)
(* moves an end, up if it can, and else down towards the other end.        *)
(*                                                                         *)
(* A node has its depth, its parent and one more pointer to an ancestor,   *)
(* its jump.  An element is named by the node made for it.                 *)
(***************************************************************************)
EXTENDS Integers, Sequences, FiniteSets

CONSTANTS
  Straight,      \* how many pushes at one end a run may start with
  MaxCommands    \* a bound on the commands given after those

VARIABLES
  forest,        \* the nodes, in the order they were made
  versions,      \* the deques the user has; `elems` is what they should hold
  commands       \* how many have been given

vars == << forest, versions, commands >>

nullptr == 0

depth(u) == forest[u].depth
parent(u) == forest[u].parent
jump(u) == forest[u].jump

-----------------------------------------------------------------------------
\* BuildJumpPointer: the first node of a deque jumps to itself; the jump of another
\* spans two jumps of its parent if those are of one length.
BuildJumpPointer_ByAddress(u, x) ==
  CASE x = nullptr -> u
    [] x # nullptr /\ x - jump(x) = jump(x) - jump(jump(x)) -> jump(jump(x))
    [] OTHER -> x

BuildJumpPointer(u, x) ==
  CASE x = nullptr -> u
    [] x # nullptr /\ depth(x) - depth(jump(x)) = depth(jump(x)) - depth(jump(jump(x))) ->
         jump(jump(x))
    [] OTHER -> x

\* The node that a push below x makes, as the next of the forest.
NewNode(x) ==
  [depth |-> IF x = nullptr THEN 1 ELSE depth(x) + 1, parent |-> x,
   jump |-> BuildJumpPointer(Len(forest) + 1, x)]

\* LA: the ancestor of u at k steps.
LA(u, k) ==
  LET desired_depth == depth(u) - k
      x[v \in DOMAIN forest] ==
        IF depth(v) = desired_depth THEN v
        ELSE IF depth(jump(v)) >= desired_depth THEN x[jump(v)] ELSE x[parent(v)]
  IN  x[u]

\* How many times the loop of LA runs.
Steps(u, k) ==
  LET desired_depth == depth(u) - k
      n[v \in DOMAIN forest] ==
        IF depth(v) = desired_depth THEN 0
        ELSE 1 + (IF depth(jump(v)) >= desired_depth THEN n[jump(v)] ELSE n[parent(v)])
  IN  n[u]

\* LCA: level the two, then take them up together, by jumps as long as these differ.
LCA(u, v) ==
  LET deep == IF depth(u) < depth(v) THEN v ELSE u
      high == IF depth(u) < depth(v) THEN u ELSE v
      level == LA(deep, depth(deep) - depth(high))
      meet[p \in (DOMAIN forest) \X (DOMAIN forest)] ==
        IF parent(p[1]) = parent(p[2]) THEN parent(p[1])
        ELSE IF jump(p[1]) # jump(p[2]) THEN meet[<< jump(p[1]), jump(p[2]) >>]
        ELSE meet[<< parent(p[1]), parent(p[2]) >>]
  IN  IF level = high THEN level ELSE meet[<< level, high >>]

-----------------------------------------------------------------------------
Empty == [first |-> nullptr, last |-> nullptr]
Swap(d) == [first |-> d.last, last |-> d.first]

\* PushFront, with the new node u.
PushFront(d, u) == [first |-> u, last |-> IF d.first = nullptr THEN u ELSE d.last]
PushBack(d, u) == Swap(PushFront(Swap(d), u))

PopFront(d) ==
  CASE LCA(d.first, d.last) = d.first /\ d.first = d.last -> Empty
    [] LCA(d.first, d.last) = d.first /\ d.first # d.last ->
         [d EXCEPT !.first = LA(d.last, depth(d.last) - depth(d.first) - 1)]
    [] OTHER -> [d EXCEPT !.first = parent(d.first)]
PopBack(d) == Swap(PopFront(Swap(d)))

\* The nodes from the first to the common ancestor, and those after it.
l1(d) == depth(d.first) - depth(LCA(d.first, d.last)) + 1
l2(d) == depth(d.last) - depth(LCA(d.first, d.last))

Size(d) == IF d.first = nullptr THEN 0 ELSE l1(d) + l2(d)

K_FromTheEnd(d, k) == IF k <= l1(d) THEN LA(d.first, k - 1) ELSE LA(d.last, k - l1(d) - 1)
K(d, k) == IF k <= l1(d) THEN LA(d.first, k - 1) ELSE LA(d.last, l1(d) + l2(d) - k)

\* Print: up by the parents from the first, and those from the last turned around.
Listed(d) ==
  LET up[i \in Nat, u \in DOMAIN forest] == IF i = 1 THEN u ELSE up[i - 1, parent(u)]
  IN  IF Size(d) = 0 THEN << >>
      ELSE [i \in 1..Size(d) |-> IF i <= l1(d) THEN up[i, d.first] ELSE up[Size(d) - i + 1, d.last]]

-----------------------------------------------------------------------------
Deque(d) == [first |-> d.first, last |-> d.last]

\* A version as the user has it, with what it should hold.
Get(d, elems) == [first |-> d.first, last |-> d.last, elems |-> elems]

Init ==
  /\ forest = << >> /\ commands = 0
  /\ versions = {Get(Empty, << >>)}

Push(d, new, elems) ==
  /\ forest' = Append(forest, NewNode(d))
  /\ versions' = versions \union {Get(new, elems)}

OnFront ==
  \E d \in versions : LET u == Len(forest) + 1 IN
    /\ commands < MaxCommands
    /\ Push(d.first, PushFront(Deque(d), u), << u >> \o d.elems)
    /\ commands' = commands + 1

OnBack ==
  \E d \in versions : LET u == Len(forest) + 1 IN
    /\ commands < MaxCommands
    /\ Push(d.last, PushBack(Deque(d), u), Append(d.elems, u))
    /\ commands' = commands + 1

\* The first pushes of a run, of which the user keeps the last version.
StraightPush ==
  \E d \in versions : LET u == Len(forest) + 1 IN
    /\ commands = 0 /\ Len(forest) < Straight
    /\ forest' = Append(forest, NewNode(d.first))
    /\ versions' = {Get(PushFront(Deque(d), u), << u >> \o d.elems)}
    /\ UNCHANGED commands

\* A pop of an empty deque reads through a null pointer: the user has to look first.
OffFront ==
  \E d \in versions :
    /\ commands < MaxCommands /\ d.elems # << >>
    /\ versions' = versions \union {Get(PopFront(Deque(d)), Tail(d.elems))}
    /\ commands' = commands + 1 /\ UNCHANGED forest

OffBack ==
  \E d \in versions :
    /\ commands < MaxCommands /\ d.elems # << >>
    /\ versions' = versions \union {Get(PopBack(Deque(d)), SubSeq(d.elems, 1, Len(d.elems) - 1))}
    /\ commands' = commands + 1 /\ UNCHANGED forest

Next == OnFront \/ OnBack \/ StraightPush \/ OffFront \/ OffBack

Spec == Init /\ [][Next]_vars
-----------------------------------------------------------------------------
Log2(n) == CHOOSE i \in 0..n : 2^i <= n /\ n < 2^(i + 1)

\* Every version there ever was, however others have grown or shrunk from it, still
\* has its elements in order: at its ends, by number, and printed.
DequesAnswer ==
  \A v \in versions :
    LET d == Deque(v) IN
    /\ Size(d) = Len(v.elems)
    /\ Listed(d) = v.elems
    /\ \A k \in 1..Len(v.elems) : K(d, k) = v.elems[k]
    /\ v.elems # << >> => d.first = v.elems[1] /\ d.last = v.elems[Len(v.elems)]

\* Two nodes of one depth jump to the same depth: LCA takes two nodes up by their
\* jumps and counts on their staying level.
JumpsAlike ==
  \A u, v \in DOMAIN forest : depth(u) = depth(v) => depth(jump(u)) = depth(jump(v))

\* An ancestor is found in a number of steps that grows with the logarithm of the depth.
FewSteps ==
  \A u \in DOMAIN forest : \A k \in 0..(depth(u) - 1) : Steps(u, k) <= 3 * Log2(depth(u) + 1)
=============================================================================
