-------------------------- MODULE PersistentTreap --------------------------
(***************************************************************************)
(* The persistent treap of task t2 (treap_persistente.cpp).  An insertion  *)
(* or a deletion makes a new version of one there is: it copies the nodes  *)
(* on its path, writes to the copies, and shares the others.               *)
(***************************************************************************)
EXTENDS Trees

CONSTANTS
  AllKeys,
  Priorities,    \* the outcomes of _rand()
  MaxVersions    \* a bound on the versions

VARIABLES
  memory,        \* the nodes, by address; 0 is the null pointer
  v              \* the versions; `held` is what one should hold

vars == << memory, v >>

Null == 0

\* A memory in which a node has been made, and its address.
New(m, node) == Append(m, node)
Address(m) == Len(m)

Other(side) == IF side = "left" THEN "right" ELSE "left"

\* RotateLeft and RotateRight: the child of u on a side comes above u.
Rotate(m, u, child, side) ==
  [m EXCEPT ![u][side] = m[child][Other(side)], ![child][Other(side)] = u]

\* _Insert and _Delete give the memory they leave, and the node they return.
Result(m, r) == [memory |-> m, node |-> r]

RECURSIVE _Insert(_, _, _, _)
_Insert(m, r, x, p) ==
  IF r = Null
  THEN LET n == New(m, [key |-> x, priority |-> p, left |-> Null, right |-> Null])
       IN  Result(n, Address(n))
  ELSE LET n == New(m, m[r])
           new_r == Address(n)
           side == IF x > m[r].key THEN "right" ELSE "left"
           below == _Insert(n, m[r][side], x, p)
           child == below.node
           linked == [below.memory EXCEPT ![new_r][side] = child]
       IN  IF x = m[r].key THEN Result(n, new_r)
           ELSE IF linked[child].priority > linked[new_r].priority
                THEN Result(Rotate(linked, new_r, child, side), child)
                ELSE Result(linked, new_r)

RECURSIVE _Delete(_, _, _)
_Delete(m, r, x) ==
  LET n == New(m, m[r])
      new_r == Address(n)
      \* down to the subtree on a side
      Down(side) ==
        LET below == _Delete(n, m[r][side], x)
        IN  Result([below.memory EXCEPT ![new_r][side] = below.node], new_r)
      \* a copy of the child on a side comes up, and x is deleted on its other side
      Up(side) ==
        LET child == Address(n) + 1
            rotated == Rotate(New(n, m[m[r][side]]), new_r, child, side)
            below == _Delete(rotated, rotated[child][Other(side)], x)
        IN  Result([below.memory EXCEPT ![child][Other(side)] = below.node], child)
  IN  IF r = Null THEN Result(m, Null)
      ELSE IF x > m[r].key THEN Down("right")
      ELSE IF x < m[r].key THEN Down("left")
      ELSE IF m[r].left = Null THEN Result(n, m[r].right)
      ELSE IF m[r].right = Null THEN Result(n, m[r].left)
      ELSE IF m[m[r].left].priority > m[m[r].right].priority THEN Up("left")
      ELSE Up("right")

RECURSIVE _Min(_)
_Min(u) == IF memory[u].left = Null THEN u ELSE _Min(memory[u].left)

RECURSIVE _Search(_, _)
_Search(r, x) ==
  /\ r # Null
  /\ \/ x = memory[r].key
     \/ x < memory[r].key /\ _Search(memory[r].left, x)
     \/ x > memory[r].key /\ _Search(memory[r].right, x)

-----------------------------------------------------------------------------
Init == memory = << >> /\ v = << [root |-> Null, held |-> {}] >>

Push(result, held) ==
  /\ memory' = result.memory
  /\ v' = Append(v, [root |-> result.node, held |-> held])

\* Commands 1 and 2, on any version; 3 to 5 only ask.
Insert ==
  /\ Len(v) < MaxVersions
  /\ \E t \in DOMAIN v, x \in AllKeys, p \in Priorities :
       Push(_Insert(memory, v[t].root, x, p), v[t].held \union {x})

Delete ==
  /\ Len(v) < MaxVersions
  /\ \E t \in DOMAIN v, x \in AllKeys : Push(_Delete(memory, v[t].root, x), v[t].held \ {x})

Next == Insert \/ Delete

Spec == Init /\ [][Next]_vars
-----------------------------------------------------------------------------
\* The tree at an address.
RECURSIVE TreeAt(_)
TreeAt(r) ==
  IF r = Null THEN nullptr
  ELSE [memory[r] EXCEPT !.left = TreeAt(@), !.right = TreeAt(@)]

\* Every version, however many have been made from it since, still has its own keys
\* in order, finds them, and is a heap by priority.
VersionsAnswer ==
  LET priority(r) == r.priority IN
  \A t \in DOMAIN v :
    /\ Holds(TreeAt(v[t].root), v[t].held)
    /\ IsHeap(TreeAt(v[t].root), priority)
    /\ \A x \in AllKeys : _Search(v[t].root, x) <=> x \in v[t].held
    /\ v[t].held # {} => memory[_Min(v[t].root)].key = Min(v[t].held)
=============================================================================
