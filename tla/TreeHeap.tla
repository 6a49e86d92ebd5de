----------------------------- MODULE TreeHeap ------------------------------
(***************************************************************************)
(* The heap of task t2 (heap.cpp), a binary tree in which every node       *)
(* counts the nodes below it.  Insertions fill the tree level by level; a  *)
(* deletion leaves a hole at the end of the path of greatest children.     *)
(***************************************************************************)
EXTENDS TreeGrid

CONSTANTS
  AllKeys,
  MaxSize        \* a bound on the elements

VARIABLES
  root,          \* the tree
  bag,           \* how often it should have each key
  deleted        \* DeleteMax has been called since the heap was last empty

vars == << root, bag, deleted >>

INFTY == 1000000

Node(x) == [key |-> x, size |-> 0, left |-> nullptr, right |-> nullptr]

Size(r) == IF r = nullptr THEN 0 ELSE r.size + 1

\* IsComplete: one more than the size is a power of two, and the size is not 1.
IsComplete(r) == Size(r) # 1 /\ \E e \in 0..Size(r) : Size(r) + 1 = 2^e

\* _Insert: the greater of the two keys stays here.
RECURSIVE _Insert(_, _)
_Insert(x, r) ==
  LET stays == Max({x, r.key})
      goes == Min({x, r.key})
      n == [r EXCEPT !.key = stays, !.size = @ + 1]
  IN  IF r.left = nullptr THEN [n EXCEPT !.left = Node(goes)]
      ELSE IF r.right = nullptr THEN [n EXCEPT !.right = Node(goes)]
      ELSE IF ~IsComplete(r.left) \/ IsComplete(r.right)
           THEN [n EXCEPT !.left = _Insert(goes, @)]
           ELSE [n EXCEPT !.right = _Insert(goes, @)]

\* Sink: the greater child comes up, and a right child is not left alone.
RECURSIVE Sink(_)
Sink(u) ==
  LET left_key == IF u.left = nullptr THEN -INFTY ELSE u.left.key
      right_key == IF u.right = nullptr THEN -INFTY ELSE u.right.key
      left == Sink(u.left)
  IN  IF u.left = nullptr /\ u.right = nullptr THEN nullptr
      ELSE IF left_key > right_key
           THEN [u EXCEPT !.key = left_key, !.size = @ - 1,
                          !.left = IF left = nullptr THEN u.right ELSE left,
                          !.right = IF left = nullptr THEN nullptr ELSE @]
           ELSE [u EXCEPT !.key = right_key, !.size = @ - 1, !.right = Sink(@)]

\* _Height goes down on the left only: the tree is taken to be nearly complete.
RECURSIVE LeftHeight(_)
LeftHeight(u) == IF u = nullptr THEN 0 ELSE 1 + LeftHeight(u.left)

\* The tree as Print and _Print show it, with what they take for num_left.
RECURSIVE Shown(_)
Shown(u) ==
  IF u = nullptr THEN nullptr
  ELSE [key |-> u.key, num_left |-> Size(u.left), left |-> Shown(u.left), right |-> Shown(u.right)]

num_rows == LeftHeight(root) * 3 - 2

\* _Min is the one of the search tree, not the least key of a heap.
LeftMost(r) == _Min(r).key

\* This one knows no 0.
number_of_digits(x) == digits_by_log(x)

-----------------------------------------------------------------------------
Init == root = nullptr /\ bag = [x \in AllKeys |-> 0] /\ deleted = FALSE

Insert ==
  \E x \in AllKeys :
    /\ Size(root) < MaxSize
    /\ root' = IF root = nullptr THEN Node(x) ELSE _Insert(x, root)
    /\ bag' = [bag EXCEPT ![x] = @ + 1]
    /\ UNCHANGED deleted

\* ExtractMax reads the key of the root and DeleteMax removes it; of an empty heap
\* they go through a null pointer.
ExtractMax == root.key

DeleteMax ==
  /\ root # nullptr
  /\ root' = Sink(root)
  /\ bag' = [bag EXCEPT ![ExtractMax] = @ - 1]
  /\ deleted' = (root' # nullptr)

Next == Insert \/ DeleteMax

Spec == Init /\ [][Next]_vars
-----------------------------------------------------------------------------
\* The heap has the keys inserted less those taken, the greatest of them above, and
\* its counters are right, however insertions and deletions follow each other.
HeapOrder ==
  LET key(r) == r.key
      In(x) == {n \in DOMAIN InOrder(root) : InOrder(root)[n].key = x}
  IN  /\ IsHeap(root, key)
      /\ \A x \in AllKeys : Cardinality(In(x)) = bag[x]
      /\ \A n \in DOMAIN InOrder(root) :
           LET u == InOrder(root)[n] IN
           u.size + 1 = Len(InOrder(u)) /\ (u.left = nullptr => u.right = nullptr)

\* As long as nothing has been deleted the picture of the heap fits its grid, and no
\* key is wider than a cell of those the widths are made for: positive ones, and
\* negative ones that are not less than the leftmost, which is taken for the least.
\* (A 0 has no width, and a heap with one cannot be printed.)
PictureFits ==
  LET min == LeftMost(root)
      cell_width == CellWidth(number_of_digits(root.key), min, number_of_digits(Abs(min)))
  IN
  ~deleted /\ root # nullptr =>
    /\ Fits(Shown(root), num_rows)
    /\ \A x \in Keys(root) \ {0} :
         x > 0 \/ x >= min => Width(x, number_of_digits(Abs(x))) <= cell_width
=============================================================================
