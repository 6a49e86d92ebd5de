----------------------------- MODULE SplayTree -----------------------------
(***************************************************************************)
(* The splay tree of task t6.  A node points to its parent too, and every  *)
(* operation ends by taking the deepest node it reached to the root, by    *)
(* rotations that go on while the node has a parent.  Three operations     *)
(* leave a root with a pointer to a parent, or a child without: Delete of  *)
(* a root with one child, Split and Join.                                  *)
(*                                                                         *)
(* A user has one tree or two; the second is made by Split or by putting   *)
(* the first aside.  Nothing is ever freed; the model takes back the nodes *)
(* that no pointer leads to any more.                                      *)
(***************************************************************************)
EXTENDS Trees

CONSTANTS
  AllKeys,
  Addresses,     \* where nodes may be, a set of positive numbers
  Careful        \* whether the user stays away from what those operations leave

VARIABLES
  memory,        \* the nodes, by address
  root, other,   \* the tree, and the second one
  held, others,  \* the keys they should have
  worn           \* one of the three operations has left pointers that are not right

vars == << memory, root, other, held, others, worn >>

Null == 0
Free == [key |-> -1, left |-> Null, right |-> Null, parent |-> Null]

-----------------------------------------------------------------------------
\* u comes up above its parent, whose left child it is if isRightRotation.
_Rotate(m, u, isRightRotation) ==
  LET p == m[u].parent
      g == m[p].parent
      up == IF isRightRotation THEN "left" ELSE "right"     \* the side of u below p
      down == IF isRightRotation THEN "right" ELSE "left"
      B == m[u][down]
      turned == [m EXCEPT ![u][down] = p, ![u].parent = g, ![p][up] = B, ![p].parent = u]
      inner == IF B = Null THEN turned ELSE [turned EXCEPT ![B].parent = p]
  IN  IF g = Null THEN inner
      ELSE IF inner[g].left = p THEN [inner EXCEPT ![g].left = u]
      ELSE [inner EXCEPT ![g].right = u]

_RotateLeft(m, u) == _Rotate(m, u, FALSE)
_RotateRight(m, u) == _Rotate(m, u, TRUE)

\* One step of a splay, of a node with a parent.
_SplayOperation(m, u) ==
  LET p == m[u].parent
      g == m[p].parent
  IN  IF g = Null THEN _Rotate(m, u, m[p].left = u)
      ELSE IF u = m[p].left /\ p = m[g].left THEN _RotateRight(_RotateRight(m, p), u)
      ELSE IF u = m[p].right /\ p = m[g].right THEN _RotateLeft(_RotateLeft(m, p), u)
      ELSE IF u = m[p].left /\ p = m[g].right THEN _RotateLeft(_RotateRight(m, u), u)
      ELSE IF u = m[p].right /\ p = m[g].left THEN _RotateRight(_RotateLeft(m, u), u)
      ELSE m

RECURSIVE Lift(_, _)
Lift(m, u) == IF m[u].parent = Null THEN m ELSE Lift(_SplayOperation(m, u), u)

\* _Splay of u in the tree at r: the memory and the root it leaves.
_Splay(m, r, u) ==
  IF u = Null THEN [memory |-> m, root |-> r] ELSE [memory |-> Lift(m, u), root |-> u]

RECURSIVE _Min(_, _)
_Min(m, r) == IF m[r].left = Null THEN r ELSE _Min(m, m[r].left)

\* _Search: whether x is there, and the deepest node reached.
RECURSIVE _Search(_, _, _, _)
_Search(m, r, r_parent, x) ==
  IF r = Null THEN [found |-> FALSE, node |-> r_parent]
  ELSE IF x = m[r].key THEN [found |-> TRUE, node |-> r]
  ELSE _Search(m, IF x > m[r].key THEN m[r].right ELSE m[r].left, r, x)

\* _Insert: the memory, and the new leaf, or no node if the key is there.
_Insert(m, r, x) ==
  LET s == _Search(m, r, Null, x)
      new_leaf == CHOOSE n \in Addresses : m[n] = Free
      made == [m EXCEPT ![new_leaf] = [key |-> x, left |-> Null, right |-> Null, parent |-> s.node]]
  IN  IF s.found THEN [memory |-> m, root |-> r, node |-> Null]
      ELSE IF s.node = Null THEN [memory |-> made, root |-> new_leaf, node |-> new_leaf]
      ELSE [memory |-> [made EXCEPT ![s.node][IF x > m[s.node].key THEN "right" ELSE "left"] = new_leaf],
            root |-> r, node |-> new_leaf]

\* The child on a side of a node, or the root when the node is none, becomes c.
Link_OneWay(m, parent, side, c) == [m EXCEPT ![parent][side] = c]
Link(m, parent, side, c) ==
  LET linked == [m EXCEPT ![parent][side] = c]
  IN  IF c = Null THEN linked ELSE [linked EXCEPT ![c].parent = parent]

\* _Delete of a key that is there.  With at most one child the node gives its place to
\* it; with two it takes the key of the next node, which gives its place to its own,
\* always on the left of the parent of that.  A new root keeps its pointer upwards.
_Delete(m, r, x) ==
  LET u == _Search(m, r, Null, x).node
      p == m[u].parent
      child == IF m[u].left = Null THEN m[u].right ELSE m[u].left
      min_right == _Min(m, m[u].right)
      above == m[min_right].parent
  IN  IF m[u].left # Null /\ m[u].right # Null
      THEN [memory |-> Link([m EXCEPT ![u].key = m[min_right].key], above, "left", m[min_right].right),
            root |-> r, node |-> above]
      ELSE IF u = r THEN [memory |-> m, root |-> child, node |-> p]
      ELSE [memory |-> Link(m, p, IF m[p].left = u THEN "left" ELSE "right", child),
            root |-> r, node |-> p]

-----------------------------------------------------------------------------
\* What can be reached by pointers, and a memory in which the rest is free again.
RECURSIVE Reach(_, _)
Reach(m, seen) ==
  LET next == (seen \union UNION {{m[u].left, m[u].right, m[u].parent} : u \in seen}) \ {Null}
  IN  IF next = seen THEN seen ELSE Reach(m, next)

Collected(m, roots) ==
  LET live == Reach(m, roots \ {Null}) IN [n \in Addresses |-> IF n \in live THEN m[n] ELSE Free]

Ready == Careful => ~worn

\* A command has left the tree `t`, with the keys k.
Becomes(t, k) ==
  /\ memory' = Collected(t.memory, {t.root, other})
  /\ root' = t.root /\ held' = k
  /\ UNCHANGED << other, others >>

Init ==
  /\ memory = [n \in Addresses |-> Free]
  /\ root = Null /\ other = Null /\ held = {} /\ others = {} /\ worn = FALSE

Insert ==
  /\ Ready
  /\ \E x \in AllKeys \ others :
       /\ x \notin held => \E n \in Addresses : memory[n] = Free
       /\ LET i == _Insert(memory, root, x) IN Becomes(_Splay(i.memory, i.root, i.node), held \union {x})
  /\ UNCHANGED worn

Search ==
  /\ Ready
  /\ \E x \in AllKeys : Becomes(_Splay(memory, root, _Search(memory, root, Null, x).node), held)
  /\ UNCHANGED worn

\* Of an empty tree, Min and Delete go through a null pointer.
MinCommand ==
  /\ Ready /\ root # Null
  /\ Becomes(_Splay(memory, root, _Min(memory, root)), held)
  /\ UNCHANGED worn

\* Whether the node of x has two children, the right one being the next node: then
\* Delete links the wrong child of that.
NextIsChild(x) ==
  LET u == memory[_Search(memory, root, Null, x).node]
  IN  u.left # Null /\ u.right # Null /\ memory[u.right].left = Null

Delete ==
  /\ Ready
  /\ \E x \in held :
       /\ _Search(memory, root, Null, x).found
       /\ Careful => ~NextIsChild(x)
       /\ LET d == _Delete(memory, root, x) IN
          /\ Becomes(_Splay(d.memory, d.root, d.node), held \ {x})
          /\ worn' = (worn \/ (d.root # root /\ d.root # Null))

\* Split, of a tree that has x: what is not above x, and what is.
Split ==
  /\ Ready /\ other = Null /\ others = {}
  /\ \E x \in held :
       LET s == _Splay(memory, root, _Search(memory, root, Null, x).node) IN
       /\ _Search(memory, root, Null, x).found
       /\ other' = s.memory[s.root].right
       /\ root' = s.root
       /\ memory' = Collected([s.memory EXCEPT ![s.root].right = Null], {root', other'})
       /\ held' = {k \in held : k <= x} /\ others' = {k \in held : k > x}
       /\ worn' = (other' # Null)

\* The user puts the tree aside and begins another.
PutAside ==
  /\ Ready /\ other = Null /\ root # Null
  /\ other' = root /\ others' = held
  /\ root' = Null /\ held' = {}
  /\ UNCHANGED << memory, worn >>

\* Join, of the tree put aside (S) and one whose keys are all greater (T).
Join ==
  /\ Ready /\ other # Null /\ root # Null
  /\ \A k \in others, l \in held : k < l
  /\ LET t == _Splay(memory, root, _Min(memory, root)) IN
     /\ root' = t.root
     /\ memory' = [t.memory EXCEPT ![t.root].left = other]
  /\ held' = held \union others
  /\ other' = Null /\ others' = {} /\ worn' = TRUE

Next == Insert \/ Search \/ MinCommand \/ Delete \/ Split \/ PutAside \/ Join

Spec == Init /\ [][Next]_vars
-----------------------------------------------------------------------------
\* The tree at an address.
RECURSIVE TreeAt(_)
TreeAt(r) ==
  IF r = Null THEN nullptr
  ELSE [memory[r] EXCEPT !.left = TreeAt(@), !.right = TreeAt(@)]

\* The root has no parent, and a child has the node above it.
PointersRight(r) ==
  /\ r # Null => memory[r].parent = Null
  /\ \A u \in Reach(memory, {r} \ {Null}) :
       \A c \in {memory[u].left, memory[u].right} \ {Null} : memory[c].parent = u

\* The trees have the keys put in and not deleted, and those that are neither new from
\* Delete of a root, Split or Join have all their pointers right.
SetAnswers ==
  /\ Holds(TreeAt(root), held) /\ Holds(TreeAt(other), others)
  /\ worn \/ (PointersRight(root) /\ PointersRight(other))

\* A key that was deleted is not found: "Remove nó com chave x da árvore".
DeletedIsGone ==
  \A x \in AllKeys \ held : ~_Search(memory, root, Null, x).found
=============================================================================
