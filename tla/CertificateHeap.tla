-------------------------- MODULE CertificateHeap --------------------------
(***************************************************************************)
(* The heap of certificates of task t5 on its own (limpo-heap.cpp): pairs  *)
(* of an id and a time, the earliest first, and an index from an id to its *)
(* place.  It has two operations that the kinetic heap never calls, the    *)
(* removal of the first certificate and a constructor from an array, and   *)
(* an id that was removed may come back ("Delete + Insert pode dar ruim"). *)
(***************************************************************************)
EXTENDS Integers, Sequences, SequencesExt

CONSTANTS
  Ids,           \* of the certificates
  Times          \* when they may expire, besides INFTY

VARIABLES
  h,             \* the certificates << id, time >>, from position 1
  m,             \* the position of an id, 0 before it has one, -1 when it was removed
  held           \* the certificates that should be there

vars == << h, m, held >>

INFTY == 123456

Heap(array, index) == [h |-> array, m |-> index]

\* The indices first: with i = j the id stays where it is.
Swap(s, i, j) ==
  Heap([s.h EXCEPT ![i] = s.h[j], ![j] = s.h[i]],
       [s.m EXCEPT ![s.h[i][1]] = j, ![s.h[j][1]] = i])

RECURSIVE Swim(_, _)
Swim(s, i) ==
  IF i \div 2 # 0 /\ s.h[i \div 2][2] > s.h[i][2] THEN Swim(Swap(s, i, i \div 2), i \div 2) ELSE s

\* Down to the child that is earlier than both the element and the other child.
RECURSIVE Sink(_, _)
Sink(s, i) ==
  LET size == Len(s.h)
      Time(j) == s.h[j][2]
      Goes(c, sibling) == Time(c) < Time(i) /\ Time(c) < Time(sibling)
  IN  IF 2 * i > size THEN s
      ELSE IF 2 * i + 1 > size THEN IF Time(2 * i) < Time(i) THEN Swap(s, i, 2 * i) ELSE s
      ELSE IF Goes(2 * i, 2 * i + 1) THEN Sink(Swap(s, i, 2 * i), 2 * i)
      ELSE IF Goes(2 * i + 1, 2 * i) THEN Sink(Swap(s, i, 2 * i + 1), 2 * i + 1)
      ELSE s

\* The constructor from an array: the elements one after another, each with its place,
\* and then from the middle up, every one sinks.
Push(s, c) == Heap(Append(s.h, c), [s.m EXCEPT ![c[1]] = Len(s.h) + 1])

Built(v) ==
  LET pushed == FoldLeft(Push, Heap(<< >>, [id \in Ids |-> 0]), v)
      middle == (Len(v) + 1) \div 2
  IN  FoldLeft(Sink, pushed, [i \in 1..middle |-> middle + 1 - i])

Earliest == h[1]

\* Update: the new time, then down, and up from where the index says it is.
Updated_OnlyDown(s, id, t) == Sink([s EXCEPT !.h[s.m[id]][2] = t], s.m[id])
Updated(s, id, t) ==
  LET changed == [s EXCEPT !.h[s.m[id]][2] = t]
      sunk == Sink(changed, changed.m[id])
  IN  Swim(sunk, sunk.m[id])

-----------------------------------------------------------------------------
Becomes(s, certificates) == h' = s.h /\ m' = s.m /\ held' = certificates

\* No two certificates expire at one time, but any number may never expire: of two
\* children with one time Sink would take neither.
General(certificates) ==
  \A c, d \in certificates : c # d => c[1] # d[1] /\ (c[2] # d[2] \/ c[2] = INFTY)

Certificates == Ids \X (Times \union {INFTY})
Graph(time) == {<< id, time[id] >> : id \in DOMAIN time}

Init == h = << >> /\ m = [id \in Ids |-> 0] /\ held = {}

\* Instead of an empty heap, one built from an array with an entry for some of the ids.
Build ==
  /\ h = << >> /\ \A id \in Ids : m[id] = 0
  /\ \E ids \in SUBSET Ids \ {{}} :
       \E certificates \in {cs \in {Graph(time) : time \in [ids -> Times \union {INFTY}]} : General(cs)} :
         \E v \in SetToSeqs(certificates) : Becomes(Built(v), certificates)

Insert ==
  \E c \in {c \in Certificates \ held : General(held \union {c})} :
    Becomes(Swim(Push(Heap(h, m), c), Len(h) + 1), held \union {c})

\* Of an empty heap, DeleteMin and Min read past the end.
DeleteMin ==
  /\ h # << >>
  /\ LET swapped == Swap(Heap(h, m), 1, Len(h))
         sunk == Sink([swapped EXCEPT !.h = Front(@)], 1)
     IN  Becomes([sunk EXCEPT !.m[Earliest[1]] = -1], held \ {Earliest})

\* Update of an id that is not there writes outside the array; here it is there.
Update ==
  \E c \in held :
    \E d \in {d \in Certificates : d[1] = c[1] /\ General((held \ {c}) \union {d})} :
      Becomes(Updated(Heap(h, m), d[1], d[2]), (held \ {c}) \union {d})

Next == Build \/ Insert \/ DeleteMin \/ Update

Spec == Init /\ [][Next]_vars
-----------------------------------------------------------------------------
\* However certificates come, go, come back and change their times, the heap has those
\* that it should, none below a later one, and the index knows the place of each.
HeapOrder ==
  /\ {h[i] : i \in DOMAIN h} = held /\ Len(h) = Cardinality(held)
  /\ \A i \in 2..Len(h) : h[i \div 2][2] <= h[i][2]
  /\ \A i \in DOMAIN h : m[h[i][1]] = i
  /\ \A id \in Ids : m[id] > 0 <=> \E c \in held : c[1] = id
=============================================================================
