------------------------ MODULE PersistentStackProofs ------------------------
(***************************************************************************)
(* For every number of pushes and however versions branch: two nodes of    *)
(* one depth jump to one depth, and a node's depth is the size of the      *)
(* stack it is the top of.  BuildJumpPointer looks only at depths, so what *)
(* it decides is the same for two nodes whose parents are equally deep.    *)
(***************************************************************************)
EXTENDS PersistentStack, TLAPS

Nodes == {Root} \union DOMAIN nodes

\* The nodes are a sequence, pointers lead to earlier nodes and a jump is what
\* BuildJumpPointer gave; a version of the queue stands on a node there is.
Shape ==
  /\ nodes \in Seq({nodes[u] : u \in DOMAIN nodes})
  /\ \A u \in DOMAIN nodes :
       /\ parent(u) \in 0..(u - 1) /\ Jump(u) \in 0..(u - 1)
       /\ nodes[u].depth \in Nat \ {0}
       /\ nodes[u].depth = depth(parent(u)) + 1
       /\ Jump(u) = BuildJumpPointer(parent(u))

Queues == queues \subseteq [s : Nodes, number_of_removed_elements : Nat, elems : Seq(Nat)]

IInv == Shape /\ Queues /\ JumpsAlike
-----------------------------------------------------------------------------
\* Depths are numbers, only the bottom has none, and jumps lead to nodes.
LEMMA Depths ==
  ASSUME Shape
  PROVE  /\ Len(nodes) \in Nat /\ DOMAIN nodes = 1..Len(nodes) /\ Nodes = 0..Len(nodes)
         /\ \A v \in Nodes : depth(v) \in Nat /\ (depth(v) = 0 <=> v = Root)
         /\ \A v \in Nodes : v # Root => Jump(v) \in Nodes /\ parent(v) \in Nodes
         /\ \A v \in Nodes : BuildJumpPointer(v) \in 0..v
<1>1. Len(nodes) \in Nat /\ DOMAIN nodes = 1..Len(nodes)
  BY DEF Shape
<1>2. Nodes = 0..Len(nodes)
  BY <1>1 DEF Nodes, Root
<1>3. \A v \in Nodes : depth(v) \in Nat /\ (depth(v) = 0 <=> v = Root)
  BY <1>1, <1>2 DEF Shape, Nodes, depth, Root
<1>4. \A v \in Nodes : v # Root => v \in DOMAIN nodes /\ Jump(v) \in 0..(v - 1) /\ parent(v) \in 0..(v - 1)
  BY DEF Nodes, Shape
<1>5. \A v \in Nodes : v # Root => Jump(v) \in Nodes /\ parent(v) \in Nodes
  BY <1>1, <1>2, <1>4 DEF Root
<1>6. ASSUME NEW v \in Nodes PROVE BuildJumpPointer(v) \in 0..v
  <2>1. v \in Nat
    BY <1>1, <1>2
  <2>2. CASE BuildJumpPointer(v) = v
    BY <2>1, <2>2
  <2>3. CASE BuildJumpPointer(v) # v
    <3>1. v # Root /\ depth(Jump(v)) # 0 /\ BuildJumpPointer(v) = Jump(Jump(v))
      BY <2>3 DEF BuildJumpPointer
    <3>2. Jump(v) \in Nodes /\ Jump(v) # Root /\ Jump(v) \in 0..(v - 1)
      BY <1>3, <1>4, <1>5, <3>1
    <3>3. Jump(Jump(v)) \in 0..(Jump(v) - 1)
      BY <1>4, <3>2
    <3> QED BY <2>1, <3>1, <3>2, <3>3
  <2> QED BY <2>2, <2>3
<1> QED BY <1>1, <1>2, <1>3, <1>5, <1>6

\* What BuildJumpPointer finds for a parent depends on the depth of the parent alone.
LEMMA SameDepthSameJump ==
  ASSUME Shape, JumpsAlike, NEW v \in Nodes, NEW x \in Nodes, depth(v) = depth(x)
  PROVE  depth(BuildJumpPointer(v)) = depth(BuildJumpPointer(x))
<1>1. CASE v = Root
  <2>1. x = Root
    BY <1>1, Depths
  <2> QED BY <1>1, <2>1
<1>2. CASE v # Root
  <2>1. /\ x # Root /\ v \in DOMAIN nodes /\ x \in DOMAIN nodes
        /\ Jump(v) \in Nodes /\ Jump(x) \in Nodes
    BY <1>2, Depths DEF Nodes
  <2>2. depth(Jump(v)) = depth(Jump(x))
    BY <2>1 DEF JumpsAlike
  <2>3. CASE depth(Jump(v)) = 0
    BY <2>2, <2>3 DEF BuildJumpPointer
  <2>4. CASE depth(Jump(v)) # 0
    <3>1. Jump(v) \in DOMAIN nodes /\ Jump(x) \in DOMAIN nodes
      BY <2>1, <2>2, <2>4, Depths DEF Nodes
    <3>2. depth(Jump(Jump(v))) = depth(Jump(Jump(x)))
      BY <2>2, <3>1 DEF JumpsAlike
    <3>3. \/ /\ BuildJumpPointer(v) = Jump(Jump(v))
             /\ BuildJumpPointer(x) = Jump(Jump(x))
          \/ BuildJumpPointer(v) = v /\ BuildJumpPointer(x) = x
      BY <1>2, <2>1, <2>2, <2>4, <3>2 DEF BuildJumpPointer
    <3> QED BY <3>2, <3>3
  <2> QED BY <2>3, <2>4
<1> QED BY <1>1, <1>2

\* A push adds one node and leaves the others as they are.
LEMMA Pushed ==
  ASSUME Shape, NEW u \in Nodes, Push(u)
  PROVE  /\ nodes' \in Seq({nodes'[v] : v \in DOMAIN nodes'})
         /\ Len(nodes') = Len(nodes) + 1 /\ DOMAIN nodes' = 1..(Len(nodes) + 1)
         /\ nodes'[Len(nodes) + 1] = NewNode(u)
         /\ \A v \in DOMAIN nodes : nodes'[v] = nodes[v]
<1> DEFINE S == {nodes[v] : v \in DOMAIN nodes} \union {NewNode(u)}
<1>1. nodes \in Seq(S) /\ NewNode(u) \in S
  BY DEF Shape
<1>2. nodes' = Append(nodes, NewNode(u))
  BY DEF Push
<1> HIDE DEF S
<1>3. /\ nodes' \in Seq(S)
      /\ Len(nodes') = Len(nodes) + 1 /\ DOMAIN nodes' = 1..(Len(nodes) + 1)
      /\ nodes'[Len(nodes) + 1] = NewNode(u)
      /\ \A v \in DOMAIN nodes : nodes'[v] = nodes[v]
  BY <1>1, <1>2
<1>4. nodes' \in Seq({nodes'[v] : v \in DOMAIN nodes'})
  BY <1>3
<1> QED BY <1>3, <1>4

\* The old nodes keep their depths, and BuildJumpPointer says of them what it said.
LEMMA Kept ==
  ASSUME Shape, NEW u \in Nodes, Push(u)
  PROVE  /\ \A v \in Nodes : depth(v)' = depth(v)
         /\ \A v \in Nodes : v # Root => Jump(v)' = Jump(v) /\ parent(v)' = parent(v)
         /\ \A v \in Nodes : BuildJumpPointer(v)' = BuildJumpPointer(v)
<1>1. \A v \in Nodes : depth(v)' = depth(v)
  BY Pushed DEF Nodes, depth
<1>2. \A v \in Nodes : v # Root => Jump(v)' = Jump(v) /\ parent(v)' = parent(v)
  BY Pushed DEF Nodes, Jump, parent
<1>3. ASSUME NEW v \in Nodes PROVE BuildJumpPointer(v)' = BuildJumpPointer(v)
  <2>1. CASE v = Root
    BY <2>1 DEF BuildJumpPointer
  <2>2. CASE v # Root
    <3>1. Jump(v) \in Nodes /\ Jump(v)' = Jump(v) /\ depth(v)' = depth(v) /\ depth(Jump(v))' = depth(Jump(v))
      BY <1>1, <1>2, <2>2, Depths DEF depth
    <3>2. CASE Jump(v) = Root
      <4>1. depth(Jump(v)) = 0
        BY <3>1, <3>2, Depths
      <4> QED BY <3>1, <4>1 DEF BuildJumpPointer
    <3>3. CASE Jump(v) # Root
      <4>1. Jump(Jump(v)) \in Nodes
        BY <3>1, <3>3, Depths
      <4>2. Jump(Jump(v))' = Jump(Jump(v)) /\ depth(Jump(Jump(v)))' = depth(Jump(Jump(v)))
        BY <1>1, <1>2, <3>1, <3>3, <4>1 DEF Jump, depth
      <4> QED BY <3>1, <4>2 DEF BuildJumpPointer
    <3> QED BY <3>2, <3>3
  <2> QED BY <2>1, <2>2
<1> QED BY <1>1, <1>2, <1>3

\* The new node is one deeper than its parent and jumps where BuildJumpPointer says.
LEMMA New ==
  ASSUME Shape, NEW u \in Nodes, Push(u)
  PROVE  /\ Nodes' = Nodes \union {Len(nodes) + 1}
         /\ nodes'[Len(nodes) + 1].parent = u
         /\ nodes'[Len(nodes) + 1].jump = BuildJumpPointer(u)
         /\ nodes'[Len(nodes) + 1].depth = depth(u) + 1
<1>1. Len(nodes) \in Nat /\ DOMAIN nodes = 1..Len(nodes)
  BY Depths
<1>2. NewNode(u).parent = u /\ NewNode(u).depth = depth(u) + 1 /\ NewNode(u).jump = BuildJumpPointer(u)
  BY DEF NewNode
<1>3. nodes'[Len(nodes) + 1] = NewNode(u)
  BY Pushed
<1>4. Nodes' = Nodes \union {Len(nodes) + 1}
  <2>1. DOMAIN nodes' = 1..(Len(nodes) + 1)
    BY Pushed
  <2>2. 1..(Len(nodes) + 1) = 1..Len(nodes) \union {Len(nodes) + 1}
    BY <1>1
  <2> QED BY <1>1, <2>1, <2>2 DEF Nodes
<1> QED BY <1>2, <1>3, <1>4

-----------------------------------------------------------------------------
LEMMA PushKeeps ==
  ASSUME Shape, JumpsAlike, NEW u \in Nodes, Push(u)
  PROVE  Shape' /\ JumpsAlike'
<1> DEFINE w == Len(nodes) + 1
<1>1. /\ Len(nodes) \in Nat /\ DOMAIN nodes = 1..Len(nodes) /\ Nodes = 0..Len(nodes)
      /\ DOMAIN nodes' = DOMAIN nodes \union {w} /\ u \in 0..Len(nodes)
  <2>1. Len(nodes) \in Nat /\ DOMAIN nodes = 1..Len(nodes) /\ Nodes = 0..Len(nodes)
    BY Depths
  <2>2. DOMAIN nodes' = 1..(Len(nodes) + 1)
    BY Pushed
  <2> QED BY <2>1, <2>2
<1>2. ASSUME NEW v \in DOMAIN nodes'
      PROVE  /\ parent(v)' \in 0..(v - 1) /\ Jump(v)' \in 0..(v - 1) /\ parent(v)' \in Nodes
             /\ nodes'[v].depth \in Nat \ {0}
             /\ nodes'[v].depth = depth(parent(v)') + 1
             /\ Jump(v)' = BuildJumpPointer(parent(v)')
  <2>1. CASE v = w
    <3>1. parent(v)' = u /\ Jump(v)' = BuildJumpPointer(u) /\ nodes'[v].depth = depth(u) + 1
      BY <2>1, New DEF parent, Jump
    <3>2. depth(u) \in Nat /\ BuildJumpPointer(u) \in 0..u
      BY Depths
    <3> QED BY <1>1, <2>1, <3>1, <3>2
  <2>2. CASE v # w
    <3>1. v \in DOMAIN nodes /\ v \in Nodes /\ v # Root
      BY <1>1, <1>2, <2>2 DEF Root
    <3>2. Jump(v)' = Jump(v) /\ parent(v)' = parent(v) /\ nodes'[v] = nodes[v] /\ parent(v) \in Nodes
      BY <3>1, Kept, Pushed, Depths
    <3> QED BY <3>1, <3>2 DEF Shape
  <2> QED BY <2>1, <2>2
<1>3. ASSUME NEW v \in DOMAIN nodes'
      PROVE  /\ nodes'[v].depth = depth(parent(v))' + 1
             /\ Jump(v)' = BuildJumpPointer(parent(v))'
  BY <1>2, Kept
<1>4. Shape'
  BY <1>2, <1>3, Pushed DEF Shape
<1>5. JumpsAlike'
  <2> SUFFICES ASSUME NEW v \in DOMAIN nodes', NEW x \in DOMAIN nodes', depth(v)' = depth(x)'
               PROVE  depth(Jump(v))' = depth(Jump(x))'
    BY DEF JumpsAlike
  <2> DEFINE p == parent(v)'
             q == parent(x)'
  <2>1. p \in Nodes /\ q \in Nodes /\ depth(p) \in Nat /\ depth(q) \in Nat
    BY <1>2, Depths
  <2>2. depth(v)' = nodes'[v].depth /\ depth(x)' = nodes'[x].depth
    BY <1>1 DEF depth, Root
  <2>3. depth(p) = depth(q)
    <3>1. nodes'[v].depth = depth(p) + 1 /\ nodes'[x].depth = depth(q) + 1
      BY <1>2
    <3> HIDE DEF p, q
    <3>2. depth(p) + 1 = depth(q) + 1
      BY <2>2, <3>1
    <3> QED BY <2>1, <3>2
  <2>4. depth(BuildJumpPointer(p)) = depth(BuildJumpPointer(q))
    BY <2>1, <2>3, SameDepthSameJump
  <2>5. BuildJumpPointer(p) \in Nodes /\ BuildJumpPointer(q) \in Nodes
    BY <1>1, <2>1, Depths
  <2>6. Jump(v)' = BuildJumpPointer(p) /\ Jump(x)' = BuildJumpPointer(q)
    BY <1>2
  <2> QED BY <2>4, <2>5, <2>6, Kept DEF depth
<1> QED BY <1>4, <1>5

\* A version of the queue stays on its node, and a new one stands on the new node or
\* on that of the version it came from.
LEMMA EnqueueKeeps ==
  ASSUME IInv, Enqueue PROVE IInv'
<1>1. PICK q \in queues :
        /\ Push(q.s)
        /\ queues' = queues \union {[q EXCEPT !.s = Len(nodes) + 1, !.elems = Append(@, Len(nodes) + 1)]}
  BY DEF Enqueue
<1>2. q.s \in Nodes /\ q \in [s : Nodes, number_of_removed_elements : Nat, elems : Seq(Nat)]
  BY DEF IInv, Queues
<1>3. Shape' /\ JumpsAlike'
  BY <1>1, <1>2, PushKeeps DEF IInv
<1>4. Nodes' = Nodes \union {Len(nodes) + 1}
  BY <1>1, <1>2, New DEF IInv
<1>5. Len(nodes) + 1 \in Nodes' /\ Len(nodes) + 1 \in Nat
  BY <1>4, Depths DEF IInv
<1>6. [q EXCEPT !.s = Len(nodes) + 1, !.elems = Append(@, Len(nodes) + 1)]
        \in [s : Nodes', number_of_removed_elements : Nat, elems : Seq(Nat)]
  <2>1. Append(q.elems, Len(nodes) + 1) \in Seq(Nat)
    BY <1>2, <1>5
  <2> QED BY <1>2, <1>5, <2>1
<1>7. Queues'
  BY <1>1, <1>4, <1>6 DEF IInv, Queues
<1> QED BY <1>3, <1>7 DEF IInv

LEMMA DequeueKeeps ==
  ASSUME IInv, Dequeue PROVE IInv'
<1>1. PICK q \in queues :
        /\ q.elems # << >>
        /\ queues' = queues \union {[Dequeued(q) EXCEPT !.elems = Tail(@)]}
        /\ nodes' = nodes
  BY DEF Dequeue
<1>2. q \in [s : Nodes, number_of_removed_elements : Nat, elems : Seq(Nat)]
  BY DEF IInv, Queues
<1>3. [Dequeued(q) EXCEPT !.elems = Tail(@)] \in [s : Nodes, number_of_removed_elements : Nat, elems : Seq(Nat)]
  <2>1. Dequeued(q) \in [s : Nodes, number_of_removed_elements : Nat, elems : Seq(Nat)]
    BY <1>2 DEF Dequeued
  <2>2. Dequeued(q).elems = q.elems /\ Tail(q.elems) \in Seq(Nat)
    BY <1>1, <1>2 DEF Dequeued
  <2> QED BY <2>1, <2>2
<1>4. Nodes' = Nodes
  BY <1>1 DEF Nodes
<1>5. Queues'
  BY <1>1, <1>3, <1>4 DEF IInv, Queues
<1>6. Shape' /\ JumpsAlike'
  BY <1>1 DEF IInv, Shape, JumpsAlike, depth, parent, Jump, BuildJumpPointer
<1> QED BY <1>5, <1>6 DEF IInv

LEMMA PushOnStackKeeps ==
  ASSUME IInv, PushOnStack PROVE IInv'
<1>1. PICK u \in Nodes : Push(u) /\ queues' = queues
  BY DEF PushOnStack, Nodes
<1>2. Shape' /\ JumpsAlike'
  BY <1>1, PushKeeps DEF IInv
<1>3. Nodes \subseteq Nodes'
  BY <1>1, New DEF IInv
<1>4. Queues'
  BY <1>1, <1>3 DEF IInv, Queues
<1> QED BY <1>2, <1>4 DEF IInv

-----------------------------------------------------------------------------
\* Whatever versions are pushed on and dequeued from, the nodes keep their shape.
THEOREM StacksInductive == Spec => []IInv
<1>1. Init => IInv
  <2> SUFFICES ASSUME Init PROVE IInv
    OBVIOUS
  <2>1. nodes = << >> /\ DOMAIN nodes = {} /\ queues = {[s |-> Root, number_of_removed_elements |-> 0, elems |-> << >>]}
    BY DEF Init
  <2>2. Shape /\ JumpsAlike
    BY <2>1 DEF Shape, JumpsAlike
  <2>3. Queues
    BY <2>1 DEF Queues, Nodes
  <2> QED BY <2>2, <2>3 DEF IInv
<1>2. IInv /\ [Next]_vars => IInv'
  <2> SUFFICES ASSUME IInv, [Next]_vars PROVE IInv'
    OBVIOUS
  <2>1. CASE PushOnStack
    BY <2>1, PushOnStackKeeps
  <2>2. CASE Enqueue
    BY <2>2, EnqueueKeeps
  <2>3. CASE Dequeue
    BY <2>3, DequeueKeeps
  <2>4. CASE UNCHANGED vars
    BY <2>4 DEF vars, IInv, Shape, Queues, Nodes, JumpsAlike, depth, parent, Jump, BuildJumpPointer
  <2> QED BY <2>1, <2>2, <2>3, <2>4 DEF Next
<1> QED BY <1>1, <1>2, PTL DEF Spec

\* Two nodes of one depth jump to the same depth.
THEOREM JumpsOfOneLength == Spec => []JumpsAlike
<1>1. IInv => JumpsAlike
  BY DEF IInv
<1> QED BY <1>1, StacksInductive, PTL
=============================================================================
