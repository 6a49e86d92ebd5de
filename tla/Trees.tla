------------------------------- MODULE Trees -------------------------------
(***************************************************************************)
(* Binary trees as the programs of tasks t2 and t6 have them: a node has a *)
(* key, a left and a right subtree, and what else its program keeps.       *)
(***************************************************************************)
EXTENDS Integers, Sequences, FiniteSets, FiniteSetsExt

nullptr == [nil |-> TRUE]

\* The nodes below a node, by the order of their places.
RECURSIVE InOrder(_)
InOrder(r) ==
  IF r = nullptr THEN << >> ELSE InOrder(r.left) \o << r >> \o InOrder(r.right)

KeysOf(r) == [n \in DOMAIN InOrder(r) |-> InOrder(r)[n].key]

\* The keys of a tree are those of a set, each once and in order.
Holds(r, keys) ==
  /\ Len(KeysOf(r)) = Cardinality(keys)
  /\ {KeysOf(r)[n] : n \in DOMAIN KeysOf(r)} = keys
  /\ \A m, n \in DOMAIN KeysOf(r) : m < n => KeysOf(r)[m] < KeysOf(r)[n]

\* No node has a greater priority than the one above it.
IsHeap(r, priority(_)) ==
  \A n \in DOMAIN InOrder(r) :
    LET u == InOrder(r)[n] IN \A c \in {u.left, u.right} \ {nullptr} : priority(c) <= priority(u)
=============================================================================
