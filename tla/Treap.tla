------------------------------- MODULE Treap -------------------------------
(***************************************************************************)
(* The treap of task t2 (treap.cpp): a search tree by the keys and a heap  *)
(* by the priorities, which are drawn at random.                           *)
(***************************************************************************)
EXTENDS Trees

CONSTANTS
  AllKeys,
  Priorities     \* the outcomes of _rand()

VARIABLES
  root,          \* the tree
  held           \* the keys it should have

vars == << root, held >>

Node(x, p) == [key |-> x, priority |-> p, left |-> nullptr, right |-> nullptr]

\* u is the node, its left or right child comes above it.
RotateLeft(u) == [u.right EXCEPT !.left = [u EXCEPT !.right = u.right.left]]
RotateRight(u) == [u.left EXCEPT !.right = [u EXCEPT !.left = u.left.right]]

\* _Insert, with the priority p if a node is made.
RECURSIVE _Insert(_, _, _)
_Insert(r, x, p) ==
  IF r = nullptr THEN Node(x, p)
  ELSE IF x > r.key
       THEN LET n == [r EXCEPT !.right = _Insert(@, x, p)]
            IN  IF n.right.priority > n.priority THEN RotateLeft(n) ELSE n
  ELSE IF x < r.key
       THEN LET n == [r EXCEPT !.left = _Insert(@, x, p)]
            IN  IF n.left.priority > n.priority THEN RotateRight(n) ELSE n
  ELSE r

\* _Delete: a node with two children goes down by rotations until it has only one.
RECURSIVE _Delete(_, _)
_Delete(u, x) ==
  IF u = nullptr THEN nullptr
  ELSE IF x > u.key THEN [u EXCEPT !.right = _Delete(@, x)]
  ELSE IF x < u.key THEN [u EXCEPT !.left = _Delete(@, x)]
  ELSE IF u.left = nullptr THEN u.right
  ELSE IF u.right = nullptr THEN u.left
  ELSE IF u.left.priority > u.right.priority THEN [RotateRight(u) EXCEPT !.right = _Delete(@, x)]
  ELSE [RotateLeft(u) EXCEPT !.left = _Delete(@, x)]

RECURSIVE _Min(_)
_Min(u) == IF u.left = nullptr THEN u ELSE _Min(u.left)

RECURSIVE _Search(_, _)
_Search(r, x) ==
  /\ r # nullptr
  /\ \/ x = r.key
     \/ x < r.key /\ _Search(r.left, x)
     \/ x > r.key /\ _Search(r.right, x)

-----------------------------------------------------------------------------
Init == root = nullptr /\ held = {}

\* Commands 1 and 2; 3 to 5 only ask.
Insert ==
  \E x \in AllKeys, p \in Priorities :
    /\ root' = _Insert(root, x, p)
    /\ held' = held \union {x}

Delete ==
  \E x \in AllKeys :
    /\ root' = _Delete(root, x)
    /\ held' = held \ {x}

Next == Insert \/ Delete

Spec == Init /\ [][Next]_vars
-----------------------------------------------------------------------------
\* The treap has the keys inserted and not deleted, in order, and finds them.
SetAnswers ==
  /\ Holds(root, held)
  /\ \A x \in AllKeys : _Search(root, x) <=> x \in held
  /\ held # {} => _Min(root).key = Min(held)

\* Insertions and deletions leave a heap by priority.
HeapOrder == LET priority(r) == r.priority IN IsHeap(root, priority)
=============================================================================
