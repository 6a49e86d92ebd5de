-------------------------- MODULE PersistentStack --------------------------
(***************************************************************************)
(* The persistent stacks and the persistent queue of task t1.  A stack is  *)
(* its top node; pushing makes a node whose parent is the old top, so that *)
(* all versions together are one tree.  To find the k-th element without   *)
(* going down node by node, stack-mod.cpp gives a node the list of its     *)
(* ancestors at distances 1, 2, 4, ..., and stack_skew.cpp one pointer     *)
(* besides the parent.  The queue is a skew stack and a number of elements *)
(* removed from its bottom.                                                *)
(*                                                                         *)
(* The same pushes go to all four programs, so that a node here has the    *)
(* fields of each.  An element is named by the node made for it.           *)
(***************************************************************************)
EXTENDS Integers, Sequences, FiniteSets

CONSTANTS
  MaxNodes,      \* a bound on the pushes
  MaxQueues      \* a bound on the versions of the queue

VARIABLES
  nodes,         \* the nodes, in the order they were made
  queues,        \* the versions of the queue; `elems` is what the user put in, by order
  stacked        \* per node, what the user's stack is with this node on top

vars == << nodes, queues, stacked >>

Root == 0        \* the bottom of every stack, with depth 0 and no pointers
Null == -1

-----------------------------------------------------------------------------
\* stack_basic.cpp: no root node, the first node of a stack has depth 0.
BasicDepth(p) == IF p = Root THEN 0 ELSE nodes[p].basic + 1
BasicSize(u) == IF u = Root THEN 0 ELSE nodes[u].basic + 1

-----------------------------------------------------------------------------
\* stack-mod.cpp, stack-mod.h.
depth(u) == IF u = Root THEN 0 ELSE nodes[u].depth

Log2(n) == CHOOSE i \in 0..n : 2^i <= n /\ n < 2^(i + 1)

jump(u, i) == IF u \in DOMAIN nodes /\ i \in DOMAIN nodes[u].list THEN nodes[u].list[i] ELSE Null

\* BuildJumpList, of a node at depth d with parent p.
BuildJumpList(p, d) ==
  LET list[i \in 0..Log2(d)] == IF i = 0 THEN p ELSE jump(list[i - 1], i - 1)
  IN  list

\* K: the node k jumps below u, one jump for each bit of k.
ListK(u, k) ==
  LET x[i \in 0..Log2(k) + 1] ==
        IF i = Log2(k) + 1 THEN u
        ELSE IF (k \div 2^i) % 2 = 1 THEN jump(x[i + 1], i) ELSE x[i + 1]
  IN  x[0]

-----------------------------------------------------------------------------
\* stack_skew.cpp, stack_skew.h.
parent(u) == nodes[u].parent
Jump(u) == nodes[u].jump

\* BuildJumpPointer: two jumps of the same length become one that spans both.
BuildJumpPointer(p) ==
  IF p # Root /\ depth(Jump(p)) # 0 /\ depth(p) - depth(Jump(p)) = depth(Jump(p)) - depth(Jump(Jump(p)))
  THEN Jump(Jump(p)) ELSE p

\* LA: the node k below u, by jumps that do not go too far.
LA(u, k) ==
  LET desired_depth == depth(u) - k
      x[v \in {Root} \union DOMAIN nodes] ==
        IF depth(v) = desired_depth THEN v
        ELSE IF depth(Jump(v)) >= desired_depth THEN x[Jump(v)] ELSE x[parent(v)]
  IN  x[u]

SkewK(u, k) == LA(u, k - 1)

\* Show: the elements from the top, by the parents (stack-mod.cpp: by the first jumps).
Show(u) ==
  LET x[i \in 1..depth(u)] == IF i = 1 THEN u ELSE parent(x[i - 1]) IN [i \in 1..depth(u) |-> x[i]]
ListShow(u) ==
  LET x[i \in 1..depth(u)] == IF i = 1 THEN u ELSE jump(x[i - 1], 0) IN [i \in 1..depth(u) |-> x[i]]

-----------------------------------------------------------------------------
\* queue.cpp.
Size(q) == depth(q.s) - q.number_of_removed_elements
QueueK(q, k) == SkewK(q.s, Size(q) - (k - 1))

\* Show of a queue asks for the first element and dequeues, and so on.
Dequeued(q) == [q EXCEPT !.number_of_removed_elements = @ + 1]
QueueShow(q) ==
  LET rest[i \in 1..Size(q)] == IF i = 1 THEN q ELSE Dequeued(rest[i - 1])
  IN  [i \in 1..Size(q) |-> QueueK(rest[i], 1)]

-----------------------------------------------------------------------------
\* The node that a push on u makes.
NewNode(u) ==
  [parent |-> u, basic |-> BasicDepth(u), depth |-> depth(u) + 1,
   list |-> BuildJumpList(u, depth(u) + 1), jump |-> BuildJumpPointer(u)]

Init ==
  /\ nodes = << >>
  /\ queues = {[s |-> Root, number_of_removed_elements |-> 0, elems |-> << >>]}
  /\ stacked = << >>

Stacked(u) == IF u = Root THEN << >> ELSE stacked[u]

\* Push on any version.  Pop gives a version there is already.
Push(u) ==
  /\ Len(nodes) < MaxNodes
  /\ nodes' = Append(nodes, NewNode(u))
  /\ stacked' = Append(stacked, << Len(nodes) + 1 >> \o Stacked(u))

PushOnStack == \E u \in {Root} \union DOMAIN nodes : Push(u) /\ UNCHANGED queues

Enqueue ==
  \E q \in queues :
    /\ Cardinality(queues) < MaxQueues
    /\ Push(q.s)
    /\ queues' = queues \union {[q EXCEPT !.s = Len(nodes) + 1, !.elems = Append(@, Len(nodes) + 1)]}

\* Dequeue: nothing looks whether the queue is empty, the user has to.
Dequeue ==
  \E q \in queues :
    /\ Cardinality(queues) < MaxQueues
    /\ q.elems # << >>
    /\ queues' = queues \union {[Dequeued(q) EXCEPT !.elems = Tail(@)]}
    /\ UNCHANGED << nodes, stacked >>

Next == PushOnStack \/ Enqueue \/ Dequeue

Spec == Init /\ [][Next]_vars
-----------------------------------------------------------------------------
\* Every version of every stack still has the elements that were pushed on it, at
\* the places the jumps lead to (stack-mod counts them from 0, stack_skew from 1).
StacksAnswer ==
  \A u \in DOMAIN nodes :
    LET s == stacked[u] IN
    /\ depth(u) = Len(s) /\ BasicSize(u) = Len(s)
    /\ Stacked(parent(u)) = Tail(s)
    /\ Show(u) = s /\ ListShow(u) = s
    /\ \A k \in 1..Len(s) : SkewK(u, k) = s[k]
    /\ \A k \in 1..(Len(s) - 1) : ListK(u, k) = s[k + 1]

\* Every version of the queue still has its elements, in the order they came.
QueuesAnswer ==
  \A q \in queues :
    /\ Size(q) = Len(q.elems) /\ QueueShow(q) = q.elems
    /\ \A k \in 1..Len(q.elems) : QueueK(q, k) = q.elems[k]

\* Two nodes of one depth jump to the same depth.
JumpsAlike ==
  \A u, v \in DOMAIN nodes : depth(u) = depth(v) => depth(Jump(u)) = depth(Jump(v))
=============================================================================
