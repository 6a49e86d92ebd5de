----------------------------- MODULE TreeGrid ------------------------------
(***************************************************************************)
(* The picture of a binary tree that abb.cpp and heap.cpp of task t2 print: *)
(* a grid with a row of keys and two rows of arrows per level, and a       *)
(* column per key.  Nothing checks an index: the picture is right only if  *)
(* the counters in the nodes and the height are.                           *)
(*                                                                         *)
(* A node has here its key, its subtrees and num_left, how many keys it    *)
(* takes to be on its left.                                                *)
(***************************************************************************)
EXTENDS Trees

RECURSIVE _Height(_)
_Height(r) == IF r = nullptr THEN 0 ELSE 1 + Max({_Height(r.left), _Height(r.right)})

RECURSIVE _Min(_)
_Min(r) == IF r.left = nullptr THEN r ELSE _Min(r.left)

\* arrows[].
Slash == 0
Dash == 1
Bar == 2
BackSlash == 3

\* _Print: what is written to the grid for the tree at u, as cells << i, j, value >>.
RECURSIVE _Print(_, _, _, _, _)
_Print(u, is_left_child, i_parent, j_parent, num_left_parent) ==
  IF u = nullptr THEN {}
  ELSE LET i == i_parent + 3
           j == IF is_left_child THEN j_parent - num_left_parent + u.num_left
                ELSE j_parent + u.num_left + 1
           line == i_parent + 1
       IN  {<< i, j, u.key >>, << line + 1, j, IF is_left_child THEN Slash ELSE BackSlash >>}
           \union {<< line, x, Dash >> : x \in IF is_left_child THEN (j + 1)..(j_parent - 1)
                                               ELSE (j_parent + 1)..(j - 1)}
           \union {<< line, j_parent, Bar >> : x \in {j} \ ((j_parent - 1)..(j_parent + 1))}
           \union _Print(u.left, TRUE, i, j, u.num_left)
           \union _Print(u.right, FALSE, i, j, u.num_left)

\* Print, of a tree that is not empty.
Grid(r) ==
  {<< 0, r.num_left, r.key >>}
  \union _Print(r.left, TRUE, 0, r.num_left, r.num_left)
  \union _Print(r.right, FALSE, 0, r.num_left, r.num_left)

\* What number_of_digits computes from the logarithm, for numbers of at most three digits.
\* That of 0 and of a negative number is no int: made one, it is the smallest there is.
digits_by_log(x) ==
  CASE x <= 0 -> -2147483647 - 1
    [] x \in 1..9 -> 1
    [] x \in 10..99 -> 2
    [] x >= 100 -> 3

Abs(x) == IF x < 0 THEN -x ELSE x

\* How many characters Print_matrix gives a cell, by the digits of the greatest key and
\* of the least, and how many a key takes by its own; each program counts digits its way.
CellWidth(digits_max, min, digits_min) ==
  Max({digits_max, IF min < 0 THEN 1 + digits_min ELSE 0})
Width(key, digits) == IF key < 0 THEN 1 + digits ELSE digits

-----------------------------------------------------------------------------
\* A tree r shown in `rows` rows: everything written is inside the grid, nothing over
\* something else, and a key is in the column of its place and in a row for keys.
Fits(r, rows) ==
  LET keys == InOrder(r)
      cells == Grid(r)
      written == {c \in cells : c[1] % 3 = 0}
  IN  /\ \A c \in cells : c[1] \in 0..(rows - 1) /\ c[2] \in 0..(Len(keys) - 1)
      /\ Cardinality({<< c[1], c[2] >> : c \in cells}) = Cardinality(cells)
      /\ {<< c[2], c[3] >> : c \in written} = {<< n - 1, keys[n].key >> : n \in DOMAIN keys}
      /\ Cardinality(written) = Len(keys)

\* The keys of a tree.
Keys(r) == {KeysOf(r)[n] : n \in DOMAIN KeysOf(r)}
=============================================================================
