-------------------------------- MODULE Abb --------------------------------
(***************************************************************************)
(* The binary search tree of task t2 (abb.cpp).  A node counts the keys in *)
(* its left subtree, for the picture that Print makes of the tree.         *)
(***************************************************************************)
EXTENDS TreeGrid

CONSTANTS AllKeys   \* the numbers a user inserts

VARIABLES
  root,          \* the tree
  held           \* the keys it should have

vars == << root, held >>

Node(x) == [key |-> x, num_left |-> 0, left |-> nullptr, right |-> nullptr]

\* _SearchKey.
RECURSIVE SearchKey(_, _)
SearchKey(r, x) ==
  /\ r # nullptr
  /\ \/ x = r.key
     \/ x < r.key /\ SearchKey(r.left, x)
     \/ x > r.key /\ SearchKey(r.right, x)

\* _Insert, of a key that is not there.
RECURSIVE _Insert(_, _)
_Insert(r, x) ==
  IF r = nullptr THEN Node(x)
  ELSE IF x > r.key THEN [r EXCEPT !.right = _Insert(@, x)]
  ELSE [r EXCEPT !.left = _Insert(@, x), !.num_left = @ + 1]

\* _Delete, of a key that is there.  With two subtrees the node changes keys with its
\* successor, the first node of the right one, from where x is then deleted: on the way
\* x is smaller than every key but the one it stands at.
RECURSIVE _Delete(_, _)
RECURSIVE DeleteMin(_)
DeleteMin_KeepsCount(r) ==
  IF r.left = nullptr THEN r.right ELSE [r EXCEPT !.left = DeleteMin(@)]

DeleteMin(r) ==
  IF r.left = nullptr THEN r.right
  ELSE [r EXCEPT !.left = DeleteMin(@), !.num_left = @ - 1]

_Delete(u, x) ==
  IF x > u.key THEN [u EXCEPT !.right = _Delete(@, x)]
  ELSE IF x < u.key THEN [u EXCEPT !.left = _Delete(@, x), !.num_left = @ - 1]
  ELSE IF u.left = nullptr THEN u.right
  ELSE IF u.right = nullptr THEN u.left
  ELSE [u EXCEPT !.key = _Min(u.right).key, !.right = DeleteMin(@)]

Size(r) == Len(InOrder(r))
num_rows == _Height(root) * 3 - 2

RECURSIVE _Max(_)
_Max(r) == IF r.right = nullptr THEN r.key ELSE _Max(r.right)

number_of_digits(x) == IF x = 0 THEN 1 ELSE digits_by_log(x)

-----------------------------------------------------------------------------
Init == root = nullptr /\ held = {}

\* Insert and Delete do nothing when the key is there, or not there.
Insert ==
  \E x \in AllKeys :
    /\ root' = IF SearchKey(root, x) THEN root ELSE _Insert(root, x)
    /\ held' = held \union {x}

Delete ==
  \E x \in AllKeys :
    /\ root' = IF SearchKey(root, x) THEN _Delete(root, x) ELSE root
    /\ held' = held \ {x}

Next == Insert \/ Delete

Spec == Init /\ [][Next]_vars
-----------------------------------------------------------------------------
\* The tree finds what was inserted and not deleted, and nothing else.
SetAnswers ==
  /\ \A x \in AllKeys : SearchKey(root, x) <=> x \in held
  /\ Size(root) = Cardinality(held)
  /\ held # {} => _Min(root).key = Min(held)

\* The picture of the tree fits its grid, and no key is wider than a cell.
PictureFits ==
  LET min == _Min(root).key
      cell_width == CellWidth(number_of_digits(_Max(root)), min, number_of_digits(Abs(min)))
  IN
  root # nullptr =>
    /\ Fits(root, num_rows)
    /\ \A x \in Keys(root) : Width(x, number_of_digits(Abs(x))) <= cell_width
=============================================================================
