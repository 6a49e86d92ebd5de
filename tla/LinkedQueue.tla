---------------------------- MODULE LinkedQueue ----------------------------
(***************************************************************************)
(* queue.c: a queue as a doubly linked list of cells from malloc, with its *)
(* first and last cell and its size.  malloc may return any free cell, the *)
(* one freed last among them.                                              *)
(*                                                                         *)
(* `chain` is not in the code: it is the list of the cells in order, kept  *)
(* beside the pointers to say what they should be.                         *)
(***************************************************************************)
EXTENDS Integers, SequencesExt, FiniteSets

CONSTANTS Cells,       \* the addresses malloc may return
          NULL,
          Messages,
          NoMessage,
          MaxSize      \* a bound on the size of the queue

ASSUME QueueAssumption ==
  /\ NULL \notin Cells
  /\ NoMessage \notin Messages
  /\ MaxSize \in Nat

VARIABLES
  live,                    \* the cells that malloc has given and free not taken back
  next, past, message,     \* the fields of every cell, freed ones included
  phase,                   \* whether the queue exists, is being removed or is gone
  first, last, size,       \* the fields of the queue
  x,                       \* where remove_queue is
  buf,                     \* the caller's buffer
  fault,                   \* a pointer to no live cell has been followed
  chain

fields == << next, past, message >>
queue == << first, last, size >>
vars == << live, fields, phase, queue, x, buf, fault, chain >>

Pointer == Cells \union {NULL}

Init ==
  /\ live = {}
  /\ next = [c \in Cells |-> NULL]
  /\ past = [c \in Cells |-> NULL]
  /\ message = [c \in Cells |-> NoMessage]
  /\ phase = "exists"
  /\ first = NULL /\ last = NULL /\ size = 0
  /\ x = NULL
  /\ buf = NoMessage
  /\ fault = FALSE
  /\ chain = << >>

-----------------------------------------------------------------------------
\* Following a pointer to a cell that is not live: NULL, or one that was freed.
Crash == fault' = TRUE /\ UNCHANGED << live, fields, phase, queue, x, buf, chain >>

create_queue ==
  /\ phase = "gone"
  /\ phase' = "exists"
  /\ first' = NULL /\ last' = NULL /\ size' = 0
  /\ UNCHANGED << live, fields, x, buf, fault, chain >>

\* Whether enqueue_queue finds a cell to append to.
Appending_ByLast == last # NULL
Appending == size # 0

\* The cell that goes before the new one.
Before_First == first
Before == last

\* A new cell at the back.  In an empty queue its past is the old value of last.
enqueue_queue(msg, new) ==
  /\ live' = live \union {new}
  /\ message' = [message EXCEPT ![new] = msg]
  /\ past' = [past EXCEPT ![new] = Before]
  /\ next' = IF Appending THEN [next EXCEPT ![new] = NULL, ![last] = new]
                          ELSE [next EXCEPT ![new] = NULL]
  /\ first' = IF Appending THEN first ELSE new
  /\ last' = new
  /\ size' = size + 1
  /\ chain' = Append(chain, new)
  /\ UNCHANGED << phase, x, buf, fault >>

Enqueue ==
  /\ phase = "exists"
  /\ size < MaxSize
  /\ \E msg \in Messages, new \in Cells \ live :
       IF Appending /\ last \notin live THEN Crash ELSE enqueue_queue(msg, new)

free_Forgotten(c) == live
free(c) == live \ {c}

Oldest_Last == last
Oldest == first

\* The first cell is freed and the next becomes the first.  last stays as it is.
dequeue_queue ==
  LET new_first == next[first] IN
  /\ buf' = message[Oldest]
  /\ live' = free(first)
  /\ past' = IF new_first = NULL THEN past ELSE [past EXCEPT ![new_first] = NULL]
  /\ first' = new_first
  /\ size' = size - 1
  /\ chain' = Tail(chain)
  /\ UNCHANGED << next, message, phase, last, x, fault >>

Dequeue ==
  /\ phase = "exists"
  /\ size # 0
  /\ IF first \in live /\ next[first] \in live \union {NULL} THEN dequeue_queue ELSE Crash

\* Its callers make sure that the queue is not empty.
first_queue ==
  /\ phase = "exists"
  /\ size # 0
  /\ IF first \in live
     THEN buf' = message[first] /\ UNCHANGED << live, fields, phase, queue, x, fault, chain >>
     ELSE Crash

\* The loop of remove_queue frees cell after cell, and then the queue.
remove_queue ==
  /\ phase = "exists"
  /\ phase' = "removing"
  /\ x' = first
  /\ UNCHANGED << live, fields, queue, buf, fault, chain >>

RemoveCell ==
  /\ phase = "removing"
  /\ x # NULL
  /\ IF x \in live
     THEN /\ x' = next[x]
          /\ live' = free(x)
          /\ chain' = Tail(chain)
          /\ UNCHANGED << fields, phase, queue, buf, fault >>
     ELSE Crash

Removed ==
  /\ phase = "removing"
  /\ x = NULL
  /\ phase' = "gone"
  /\ UNCHANGED << live, fields, queue, x, buf, fault, chain >>

Next ==
  /\ ~fault
  /\ \/ create_queue
     \/ Enqueue
     \/ Dequeue
     \/ first_queue
     \/ remove_queue
     \/ RemoveCell
     \/ Removed

Spec == Init /\ [][Next]_vars

-----------------------------------------------------------------------------
\* Every variable has the shape of the field it stands for.
TypeOK ==
  /\ live \subseteq Cells
  /\ next \in [Cells -> Pointer]
  /\ past \in [Cells -> Pointer]
  /\ message \in [Cells -> Messages \union {NoMessage}]
  /\ phase \in {"exists", "removing", "gone"}
  /\ first \in Pointer /\ last \in Pointer /\ size \in Nat
  /\ x \in Pointer
  /\ buf \in Messages \union {NoMessage}
  /\ fault \in BOOLEAN
  /\ chain \in Seq(Cells)

\* Whatever cells malloc hands out again, and although last keeps pointing to a
\* cell that dequeue_queue has freed, no operation follows such a pointer.
NeverFollowsFreed == ~fault

\* Every cell not freed is in the queue once: none is lost and none comes twice.
NothingLeaks == live = ToSet(chain) /\ IsInjective(chain)

\* The drawing in queue.h: next and past are each other's inverse, the first cell
\* is at the head of the chain, and the last one at its end.
Linked ==
  /\ \A i \in DOMAIN chain :
       /\ next[chain[i]] = IF i = Len(chain) THEN NULL ELSE chain[i + 1]
       /\ i > 1 => past[chain[i]] = chain[i - 1]
  /\ phase = "exists" =>
       /\ size = Len(chain)
       /\ first = IF chain = << >> THEN NULL ELSE chain[1]
       /\ chain # << >> => last = chain[Len(chain)]

\* Where remove_queue is, and what it leaves.
Removing ==
  /\ phase = "removing" => x = IF chain = << >> THEN NULL ELSE chain[1]
  /\ phase = "gone" => chain = << >>

\* The inductive invariant: the above hold together.
IInv == TypeOK /\ NeverFollowsFreed /\ NothingLeaks /\ Linked /\ Removing

\* The messages of the cells, in order.
Contents == IF phase = "exists" THEN [i \in DOMAIN chain |-> message[chain[i]]] ELSE << >>

\* Messages leave in the order in which they joined, each once.
F == INSTANCE Fifo WITH items <- Contents

ImplementsFifo == F!Spec

=============================================================================
