---------------------------- MODULE SegmentTree ----------------------------
(***************************************************************************)
(* The segment trees of task t4.  The static one (estatica/as.cpp) is made *)
(* for the segments there are: its leaves are the elementary intervals,    *)
(* the endpoints and what lies open between two of them, and a segment is  *)
(* kept at the highest nodes it covers.  The dynamic one (dinamica/        *)
(* asd.cpp) is a list of static trees of different sizes, of which two of  *)
(* one size become one of twice that.                                      *)
(*                                                                         *)
(* A segment is << n, l, r >>: its label and its ends.  The trees of the   *)
(* two programs are alike; dinamica/as.cpp keeps the segments of a tree    *)
(* with it, and so does the model.                                         *)
(***************************************************************************)
EXTENDS Integers, Sequences, SequencesExt, FiniteSetsExt

CONSTANTS
  Ends,          \* where a segment may begin and end
  Points,        \* where a user asks
  MaxSegments    \* a bound on the segments

VARIABLES
  segments,      \* what the user has put in, in order
  SegTreesList   \* the static trees of the dynamic one, the oldest first

vars == << segments, SegTreesList >>

INFTY == 123456
nullptr == [nil |-> TRUE]

-----------------------------------------------------------------------------
\* The interval of a leaf or a node, and how it is cut off at its ends.
Interval(l, left_open, r, right_open) ==
  [l |-> l, left_open |-> left_open, r |-> r, right_open |-> right_open]

\* Whether [ul, ur] and the interval v have no point in common.
Disjoint(ul, ur, v) ==
  \/ IF v.left_open THEN v.l >= ur ELSE v.l > ur
  \/ IF v.right_open THEN v.r <= ul ELSE v.r < ul

\* The elementary points of a list of segments, sorted and each once.
ElementaryPoints(S) ==
  LET points == {-INFTY, INFTY} \union {S[i][2] : i \in DOMAIN S} \union {S[i][3] : i \in DOMAIN S}
  IN  [n \in 1..Cardinality(points) |->
         CHOOSE p \in points : Cardinality({q \in points : q < p}) = n - 1]

\* AddLeaf: the i-th elementary interval, counted from 0 (and e from 1).
AddLeaf(i, e) ==
  IF i % 2 = 0 THEN Interval(e[i \div 2 + 1], TRUE, e[i \div 2 + 2], TRUE)
  ELSE Interval(e[i \div 2 + 2], FALSE, e[i \div 2 + 2], FALSE)

Tree(interval, left, right) == [at |-> interval, left |-> left, right |-> right, seg_list |-> << >>]

\* Union: from the left end of one child to the right end of the other.
Union(a, b) ==
  IF b = nullptr THEN a.at ELSE Interval(a.at.l, a.at.left_open, b.at.r, b.at.right_open)

num_leafs(e) == 2 * (Len(e) - 2) + 1
CeilLog2(n) == CHOOSE h \in 0..n : n <= 2^h /\ (h > 0 => 2^(h - 1) < n)

\* _BuildTree: a tree of that height whose first leaf is the i-th, and how many leaves
\* it has.  The lowest level takes the first leaves, as many as there are too many for
\* the level above, where the others are.
RECURSIVE _BuildTree(_, _, _)
_BuildTree(height, i, e) ==
  IF height = 0
  THEN IF i >= 2 * num_leafs(e) - 2^CeilLog2(num_leafs(e))
       THEN [tree |-> nullptr, leafs |-> 0]
       ELSE [tree |-> Tree(AddLeaf(i, e), nullptr, nullptr), leafs |-> 1]
  ELSE LET pl == _BuildTree(height - 1, i, e)
           pr == _BuildTree(height - 1, i + pl.leafs, e)
       IN  IF pl.leafs + pr.leafs = 0
           THEN [tree |-> Tree(AddLeaf(i, e), pl.tree, pr.tree), leafs |-> 1]
           ELSE [tree |-> Tree(Union(pl.tree, pr.tree), pl.tree, pr.tree),
                 leafs |-> pl.leafs + pr.leafs]

\* _Insert, of a segment that meets the interval of r.
RECURSIVE _Insert(_, _)
_Insert(r, s) ==
  IF s[2] <= r.at.l /\ s[3] >= r.at.r THEN [r EXCEPT !.seg_list = Append(@, s[1])]
  ELSE [r EXCEPT !.left = IF Disjoint(s[2], s[3], @.at) THEN @ ELSE _Insert(@, s),
                 !.right = IF Disjoint(s[2], s[3], @.at) THEN @ ELSE _Insert(@, s)]

\* The tree that the constructor makes.
As(S) ==
  LET e == ElementaryPoints(S)
  IN  [S |-> S,
       root |-> FoldLeft(_Insert, _BuildTree(CeilLog2(num_leafs(e)), 0, e).tree, S)]

\* _Segments: the labels on the way to the leaf where x is.
RECURSIVE _Segments(_, _)
_Segments(r, x) ==
  r.seg_list \o
    IF r.left = nullptr THEN << >>
    ELSE IF ~Disjoint(x, x, r.left.at) THEN _Segments(r.left, x)
    ELSE _Segments(r.right, x)

-----------------------------------------------------------------------------
\* The loop of Insert: the last two trees, if they have the same size, become one.
Merge_Once(list) ==
  LET a == list[Len(list)]
      b == list[Len(list) - 1]
  IN  IF Len(list) >= 2 /\ Len(a.S) = Len(b.S)
      THEN Append(SubSeq(list, 1, Len(list) - 2), As(a.S \o b.S))
      ELSE list

RECURSIVE Merge(_)
Merge(list) ==
  LET a == list[Len(list)]
      b == list[Len(list) - 1]
  IN  IF Len(list) >= 2 /\ Len(a.S) = Len(b.S)
      THEN Merge(Append(SubSeq(list, 1, Len(list) - 2), As(a.S \o b.S)))
      ELSE list

\* Segments, of the dynamic tree: those of every static tree.
Segments(x) == FlattenSeq([i \in DOMAIN SegTreesList |-> _Segments(SegTreesList[i].root, x)])

Init == segments = << >> /\ SegTreesList = << >>

\* Command 1 of the dynamic tree; the others only ask.
Insert ==
  /\ Len(segments) < MaxSegments
  /\ \E l, r \in Ends :
       /\ l <= r
       /\ LET s == << Len(segments) + 1, l, r >> IN
          /\ segments' = Append(segments, s)
          /\ SegTreesList' = Merge(Append(SegTreesList, As(<< s >>)))

Next == Insert

Spec == Init /\ [][Next]_vars
-----------------------------------------------------------------------------
\* The labels that an answer should have, each once.
Right(answer, x) ==
  /\ \A i, j \in DOMAIN answer : answer[i] = answer[j] => i = j
  /\ {answer[i] : i \in DOMAIN answer} =
       {n \in DOMAIN segments : segments[n][2] <= x /\ x <= segments[n][3]}

\* Wherever the user asks, at an end of a segment or between two, the static tree of
\* all segments and the dynamic one name the segments that contain the point.
StabbingAnswers ==
  \A x \in Points :
    /\ Right(_Segments(As(segments).root, x), x)
    /\ Right(Segments(x), x)

\* The dynamic tree never has more static trees than its size has binary digits.
FewTrees == \A i \in 1..(Len(SegTreesList) - 1) : Len(SegTreesList[i].S) >= 2 * Len(SegTreesList[i + 1].S)
=============================================================================
