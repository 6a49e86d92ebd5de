-------------------------- MODULE LinkedQueueProofs --------------------------
(***************************************************************************)
(* The list of queue.c, for every set of cells and of messages: IInv is    *)
(* inductive, and the list implements the queue of module Fifo.            *)
(***************************************************************************)
EXTENDS LinkedQueue, SequenceLemmas, SequenceTheorems

\* The chain in the terms the provers use.
LEMMA Chain ==
  ASSUME TypeOK
  PROVE  /\ Len(chain) \in Nat
         /\ DOMAIN chain = 1..Len(chain)
         /\ chain # << >> <=> Len(chain) > 0
         /\ \A i \in 1..Len(chain) : chain[i] \in Cells
BY DEF TypeOK

\* What follows from the invariant for a queue that exists: its ends are live
\* exactly if it is not empty.
LEMMA LiveEnds ==
  ASSUME IInv
  PROVE  /\ phase = "exists" /\ size # 0 =>
              /\ chain # << >>
              /\ first \in live /\ first = chain[1] /\ first \in Cells
              /\ last \in live /\ last = chain[Len(chain)] /\ last \in Cells
              /\ next[first] \in live \union {NULL}
         /\ phase = "exists" /\ size = 0 => chain = << >>
         /\ phase = "removing" /\ x # NULL =>
              chain # << >> /\ x = chain[1] /\ x \in live /\ x \in Cells
<1>1. /\ Len(chain) \in Nat /\ DOMAIN chain = 1..Len(chain)
      /\ chain # << >> <=> Len(chain) > 0
      /\ \A i \in 1..Len(chain) : chain[i] \in Cells
  BY Chain DEF IInv
<1>2. \A i \in 1..Len(chain) : chain[i] \in live
  BY <1>1 DEF IInv, NothingLeaks, ToSet
<1>3. ASSUME phase = "exists", size # 0
      PROVE  /\ chain # << >>
             /\ first \in live /\ first = chain[1] /\ first \in Cells
             /\ last \in live /\ last = chain[Len(chain)] /\ last \in Cells
             /\ next[first] \in live \union {NULL}
  <2>1. size = Len(chain) /\ chain # << >> /\ first = chain[1] /\ last = chain[Len(chain)]
    BY <1>1, <1>3 DEF IInv, Linked
  <2>2. 1 \in DOMAIN chain /\ Len(chain) \in DOMAIN chain
    BY <1>1, <2>1
  <2>3. next[chain[1]] = IF 1 = Len(chain) THEN NULL ELSE chain[1 + 1]
    BY <2>2 DEF IInv, Linked
  <2>4. 1 # Len(chain) => 1 + 1 \in 1..Len(chain)
    BY <1>1, <2>2
  <2> QED BY <1>1, <1>2, <2>1, <2>2, <2>3, <2>4
<1>4. phase = "exists" /\ size = 0 => chain = << >>
  BY <1>1 DEF IInv, Linked
<1>5. phase = "removing" /\ x # NULL =>
        chain # << >> /\ x = chain[1] /\ x \in live /\ x \in Cells
  BY <1>1, <1>2 DEF IInv, Removing
<1> QED BY <1>3, <1>4, <1>5

-----------------------------------------------------------------------------
\* The initial queue is linked.
LEMMA InitInv == Init => IInv
<1> SUFFICES ASSUME Init PROVE IInv
  OBVIOUS
<1>1. TypeOK
  <2>1. [c \in Cells |-> NULL] \in [Cells -> Pointer]
    BY DEF Pointer
  <2>2. << >> \in Seq(Cells)
    OBVIOUS
  <2> QED BY <2>1, <2>2 DEF Init, TypeOK, Pointer
<1>2. NeverFollowsFreed
  BY DEF Init, NeverFollowsFreed
<1>3. NothingLeaks
  BY DEF Init, NothingLeaks, ToSet, IsInjective
<1>4. Linked
  BY DEF Init, Linked
<1>5. Removing
  BY DEF Init, Removing
<1> QED BY <1>1, <1>2, <1>3, <1>4, <1>5 DEF IInv

\* A new cell at the back keeps the list linked: the cell that was last points
\* to it, whichever cell malloc returned.
LEMMA EnqueueInv ==
  ASSUME IInv, phase = "exists",
         NEW msg \in Messages, NEW new \in Cells \ live, enqueue_queue(msg, new)
  PROVE  IInv'
<1>1. /\ Len(chain) \in Nat /\ DOMAIN chain = 1..Len(chain)
      /\ chain # << >> <=> Len(chain) > 0
      /\ \A i \in 1..Len(chain) : chain[i] \in Cells
      /\ chain \in Seq(Cells)
  BY Chain DEF IInv, TypeOK
<1>2. /\ chain' = Append(chain, new)
      /\ Len(chain') = Len(chain) + 1 /\ DOMAIN chain' = 1..(Len(chain) + 1)
      /\ chain'[Len(chain) + 1] = new
      /\ \A i \in 1..Len(chain) : chain'[i] = chain[i]
      /\ chain' # << >> /\ chain' \in Seq(Cells)
  BY <1>1 DEF enqueue_queue
<1>3. size = Len(chain) /\ (size # 0 => first = chain[1] /\ last = chain[Len(chain)])
  BY <1>1 DEF IInv, Linked
<1>4. live = ToSet(chain) /\ IsInjective(chain)
  BY DEF IInv, NothingLeaks
<1>5. \A i \in 1..Len(chain) : chain[i] \in live /\ chain[i] # new
  BY <1>1, <1>4 DEF ToSet
<1>6. TypeOK'
  <2>1. first \in Pointer /\ last \in Pointer /\ new \in Pointer /\ NULL \in Pointer
    BY DEF IInv, TypeOK, Pointer
  <2>2. next' \in [Cells -> Pointer] /\ past' \in [Cells -> Pointer]
    BY <2>1 DEF IInv, TypeOK, enqueue_queue, Before
  <2>3. message' \in [Cells -> Messages \union {NoMessage}]
    BY DEF IInv, TypeOK, enqueue_queue
  <2> QED
    BY <1>2, <2>1, <2>2, <2>3 DEF IInv, TypeOK, enqueue_queue
<1>7. NeverFollowsFreed'
  BY DEF IInv, NeverFollowsFreed, enqueue_queue
<1>8. NothingLeaks'
  BY <1>1, <1>2, <1>4, AppendDistinct DEF NothingLeaks, enqueue_queue
<1>9. Linked'
  <2>1. ASSUME NEW i \in 1..(Len(chain) + 1)
        PROVE  /\ next'[chain'[i]] = IF i = Len(chain) + 1 THEN NULL ELSE chain'[i + 1]
               /\ i > 1 => past'[chain'[i]] = chain'[i - 1]
    <3>1. CASE i = Len(chain) + 1
      <4>1. next'[new] = NULL
        <5>1. size # 0 => last # new
          BY <1>3, <1>5, <1>1
        <5> QED BY <5>1 DEF IInv, TypeOK, enqueue_queue, Appending
      <4>2. past'[new] = last
        BY DEF IInv, TypeOK, enqueue_queue, Before
      <4>3. i > 1 => last = chain'[i - 1]
        <5>1. i - 1 = Len(chain)
          BY <3>1, <1>1
        <5>2. i > 1 => Len(chain) \in 1..Len(chain) /\ size # 0
          BY <3>1, <1>1, <1>3
        <5> QED BY <5>1, <5>2, <1>2, <1>3
      <4> QED BY <3>1, <1>2, <4>1, <4>2, <4>3
    <3>2. CASE i # Len(chain) + 1
      <4>1. i \in 1..Len(chain) /\ chain'[i] = chain[i] /\ chain[i] \in Cells /\ chain[i] # new
        BY <3>2, <1>1, <1>2, <1>5
      <4>2. /\ next[chain[i]] = IF i = Len(chain) THEN NULL ELSE chain[i + 1]
            /\ i > 1 => past[chain[i]] = chain[i - 1]
        BY <4>1, <1>1 DEF IInv, Linked
      <4>3. past'[chain[i]] = past[chain[i]]
        BY <4>1 DEF IInv, TypeOK, enqueue_queue
      <4>4. i > 1 => chain'[i - 1] = chain[i - 1]
        BY <4>1, <1>1, <1>2
      <4>5. size # 0 /\ last = chain[Len(chain)]
        BY <4>1, <1>1, <1>3
      <4>6. CASE i = Len(chain)
        <5>1. next'[chain[i]] = new
          BY <4>1, <4>5, <4>6 DEF IInv, TypeOK, enqueue_queue, Appending
        <5> QED BY <5>1, <4>1, <4>2, <4>3, <4>4, <4>6, <1>1, <1>2
      <4>7. CASE i # Len(chain)
        <5>1. chain[i] # last
          <6>1. i \in DOMAIN chain /\ Len(chain) \in DOMAIN chain
            BY <4>1, <1>1
          <6> QED BY <6>1, <4>5, <4>7, <1>4 DEF IsInjective
        <5>2. next'[chain[i]] = next[chain[i]]
          BY <4>1, <4>5, <5>1 DEF IInv, TypeOK, enqueue_queue, Appending
        <5>3. i + 1 \in 1..Len(chain)
          <6>1. Len(chain) \in Nat
            BY <1>1
          <6> QED BY <6>1, <4>1, <4>7
        <5> QED BY <5>2, <5>3, <4>1, <4>2, <4>3, <4>4, <4>7, <1>1, <1>2
      <4> QED BY <4>6, <4>7
    <3> QED BY <3>1, <3>2
  <2>2. size' = Len(chain')
    BY <1>2, <1>3 DEF enqueue_queue
  <2>3. first' = chain'[1]
    BY <1>1, <1>2, <1>3 DEF enqueue_queue, Appending
  <2>4. last' = chain'[Len(chain')]
    BY <1>2 DEF enqueue_queue
  <2> QED BY <1>1, <1>2, <2>1, <2>2, <2>3, <2>4 DEF Linked
<1>10. Removing'
  BY DEF Removing, enqueue_queue
<1> QED BY <1>6, <1>7, <1>8, <1>9, <1>10 DEF IInv

\* The chain without its first cell: its links are the old ones, and freeing the
\* first cell leaves exactly its cells live.
LEMMA Shortened ==
  ASSUME IInv, chain # << >>
  PROVE  /\ Tail(chain) \in Seq(Cells)
         /\ Len(Tail(chain)) = Len(chain) - 1
         /\ DOMAIN Tail(chain) = 1..(Len(chain) - 1)
         /\ \A i \in 1..(Len(chain) - 1) : Tail(chain)[i] = chain[i + 1]
         /\ Tail(chain) = << >> <=> Len(chain) = 1
         /\ ToSet(Tail(chain)) = live \ {chain[1]}
         /\ IsInjective(Tail(chain))
         /\ \A i \in 1..(Len(chain) - 1) :
              next[chain[i + 1]] = IF i = Len(chain) - 1 THEN NULL ELSE chain[i + 2]
         /\ next[chain[1]] = IF Len(chain) = 1 THEN NULL ELSE chain[2]
<1>1. /\ chain \in Seq(Cells) /\ Len(chain) \in Nat \ {0} /\ DOMAIN chain = 1..Len(chain)
      /\ Head(chain) = chain[1]
  BY DEF IInv, TypeOK
<1>2. live = ToSet(chain) /\ IsInjective(chain)
  BY DEF IInv, NothingLeaks
<1>3. /\ Tail(chain) \in Seq(Cells)
      /\ Len(Tail(chain)) = Len(chain) - 1
      /\ DOMAIN Tail(chain) = 1..(Len(chain) - 1)
      /\ \A i \in 1..(Len(chain) - 1) : Tail(chain)[i] = chain[i + 1]
      /\ Tail(chain) = << >> <=> Len(chain) = 1
  <2>1. Tail(chain) \in Seq(Cells) /\ Len(Tail(chain)) = Len(chain) - 1
    BY <1>1
  <2>2. DOMAIN Tail(chain) = 1..(Len(chain) - 1)
    BY <2>1
  <2>3. \A i \in 1..(Len(chain) - 1) : Tail(chain)[i] = chain[i + 1]
    BY <1>1
  <2>4. Tail(chain) = << >> <=> Len(Tail(chain)) = 0
    <3>1. \A s \in Seq(Cells) : s = << >> <=> Len(s) = 0
      OBVIOUS
    <3> QED BY <2>1, <3>1
  <2>5. Len(Tail(chain)) = 0 <=> Len(chain) = 1
    BY <2>1, <1>1
  <2> QED BY <2>1, <2>2, <2>3, <2>4, <2>5
<1>4. ToSet(Tail(chain)) = live \ {chain[1]} /\ IsInjective(Tail(chain))
  BY <1>1, <1>2, TailDistinct
<1>5. \A i \in 1..Len(chain) :
        next[chain[i]] = IF i = Len(chain) THEN NULL ELSE chain[i + 1]
  BY <1>1 DEF IInv, Linked
<1>6. ASSUME NEW i \in 1..(Len(chain) - 1)
      PROVE  next[chain[i + 1]] = IF i = Len(chain) - 1 THEN NULL ELSE chain[i + 2]
  <2>1. i + 1 \in 1..Len(chain) /\ (i + 1) + 1 = i + 2
        /\ (i + 1 = Len(chain) <=> i = Len(chain) - 1)
    BY <1>1
  <2> QED BY <2>1, <1>5
<1>7. next[chain[1]] = IF Len(chain) = 1 THEN NULL ELSE chain[2]
  <2>1. 1 \in 1..Len(chain) /\ 1 + 1 = 2
    BY <1>1
  <2> QED BY <2>1, <1>5
<1> QED BY <1>3, <1>4, <1>6, <1>7

\* Freeing the first cell keeps the list linked, although last may now point to
\* a cell that is not live.
LEMMA DequeueInv ==
  ASSUME IInv, phase = "exists", size # 0, dequeue_queue
  PROVE  IInv'
<1>1. /\ chain # << >> /\ chain \in Seq(Cells) /\ Len(chain) \in Nat \ {0}
      /\ DOMAIN chain = 1..Len(chain)
      /\ first = chain[1] /\ first \in Cells /\ size = Len(chain)
      /\ last = chain[Len(chain)]
  BY LiveEnds DEF IInv, TypeOK, Linked
<1>2. chain' = Tail(chain) /\ live' = live \ {first} /\ first' = next[first]
      /\ next' = next /\ last' = last /\ size' = size - 1 /\ phase' = phase
  BY DEF dequeue_queue, free
<1>3. /\ chain' \in Seq(Cells)
      /\ Len(chain') = Len(chain) - 1 /\ DOMAIN chain' = 1..(Len(chain) - 1)
      /\ \A i \in 1..(Len(chain) - 1) : chain'[i] = chain[i + 1]
      /\ chain' = << >> <=> Len(chain) = 1
      /\ ToSet(chain') = live' /\ IsInjective(chain')
      /\ \A i \in 1..(Len(chain) - 1) :
           next[chain[i + 1]] = IF i = Len(chain) - 1 THEN NULL ELSE chain[i + 2]
      /\ first' = IF Len(chain) = 1 THEN NULL ELSE chain[2]
  BY <1>1, <1>2, Shortened
<1>4. TypeOK'
  <2>1. next[first] \in Pointer /\ message[first] \in Messages \union {NoMessage}
    BY <1>1 DEF IInv, TypeOK
  <2>2. past' \in [Cells -> Pointer]
    BY <2>1 DEF IInv, TypeOK, dequeue_queue, Pointer
  <2>3. buf' \in Messages \union {NoMessage}
    BY <2>1 DEF dequeue_queue, Oldest
  <2> QED BY <1>1, <1>2, <1>3, <2>1, <2>2, <2>3 DEF IInv, TypeOK, dequeue_queue
<1>5. NeverFollowsFreed'
  BY DEF IInv, NeverFollowsFreed, dequeue_queue
<1>6. NothingLeaks'
  BY <1>3 DEF NothingLeaks
<1>7. Linked'
  <2>1. ASSUME NEW i \in 1..(Len(chain) - 1)
        PROVE  /\ next'[chain'[i]] = IF i = Len(chain) - 1 THEN NULL ELSE chain'[i + 1]
               /\ i > 1 => past'[chain'[i]] = chain'[i - 1]
    <3>1. chain'[i] = chain[i + 1]
      BY <1>3
    <3>2. i # Len(chain) - 1 => chain'[i + 1] = chain[i + 2]
      <4>1. ASSUME i # Len(chain) - 1
            PROVE  i + 1 \in 1..(Len(chain) - 1) /\ (i + 1) + 1 = i + 2
        <5>1. Len(chain) \in Nat
          BY <1>1
        <5> QED BY <5>1, <4>1
      <4> QED BY <4>1, <1>3
    <3>3. ASSUME i > 1 PROVE past'[chain'[i]] = chain'[i - 1]
      <4>1. i - 1 \in 1..(Len(chain) - 1) /\ (i - 1) + 1 = i
        BY <3>3
      <4>2. chain'[i - 1] = chain[i]
        BY <4>1, <1>3
      <4>3. i + 1 \in DOMAIN chain /\ i + 1 > 1 /\ (i + 1) - 1 = i
        BY <1>1
      <4>4. past[chain[i + 1]] = chain[i]
        BY <4>3 DEF IInv, Linked
      <4>5. chain[i + 1] # chain[2]
        <5>1. 2 \in DOMAIN chain /\ i + 1 # 2
          BY <1>1, <3>3
        <5> QED BY <5>1, <4>3 DEF IInv, NothingLeaks, IsInjective
      <4>6. next[first] # NULL => next[first] = chain[2]
        BY <1>2, <1>3
      <4>7. past'[chain[i + 1]] = past[chain[i + 1]]
        BY <4>3, <4>5, <4>6, <1>1 DEF dequeue_queue, IInv, TypeOK
      <4> QED BY <3>1, <4>2, <4>4, <4>7
    <3> QED BY <1>2, <1>3, <3>1, <3>2, <3>3
  <2>2. size' = Len(chain')
    BY <1>1, <1>2, <1>3
  <2>3. first' = IF chain' = << >> THEN NULL ELSE chain'[1]
    <3>1. Len(chain) # 1 => 1 \in 1..(Len(chain) - 1) /\ 1 + 1 = 2
      BY <1>1
    <3> QED BY <1>3, <3>1
  <2>4. chain' # << >> => last' = chain'[Len(chain')]
    <3>1. ASSUME chain' # << >>
          PROVE  Len(chain) - 1 \in 1..(Len(chain) - 1) /\ (Len(chain) - 1) + 1 = Len(chain)
      <4>1. Len(chain) \in Nat \ {0} /\ Len(chain) # 1
        BY <3>1, <1>1, <1>3
      <4>2. \A n \in Nat \ {0} : n # 1 => n - 1 \in 1..(n - 1) /\ (n - 1) + 1 = n
        OBVIOUS
      <4> QED BY <4>1, <4>2
    <3> QED BY <3>1, <1>1, <1>2, <1>3
  <2> QED BY <1>3, <2>1, <2>2, <2>3, <2>4 DEF Linked
<1>8. Removing'
  BY <1>2 DEF Removing
<1> QED BY <1>4, <1>5, <1>6, <1>7, <1>8 DEF IInv

\* remove_queue frees the cells in order, and reads a cell's next before that.
LEMMA RemoveInv ==
  ASSUME IInv, RemoveCell
  PROVE  IInv'
<1>1. /\ chain # << >> /\ x = chain[1] /\ x \in live /\ x \in Cells
      /\ phase = "removing" /\ phase' = phase
      /\ x' = next[x] /\ live' = live \ {x} /\ chain' = Tail(chain)
      /\ UNCHANGED << fields, queue, buf, fault >>
  BY LiveEnds DEF RemoveCell, free
<1>2. Len(chain) \in Nat \ {0}
  BY <1>1 DEF IInv, TypeOK
<1>3. /\ chain' \in Seq(Cells)
      /\ Len(chain') = Len(chain) - 1 /\ DOMAIN chain' = 1..(Len(chain) - 1)
      /\ \A i \in 1..(Len(chain) - 1) : chain'[i] = chain[i + 1]
      /\ chain' = << >> <=> Len(chain) = 1
      /\ ToSet(chain') = live' /\ IsInjective(chain')
      /\ \A i \in 1..(Len(chain) - 1) :
           next[chain[i + 1]] = IF i = Len(chain) - 1 THEN NULL ELSE chain[i + 2]
      /\ x' = IF Len(chain) = 1 THEN NULL ELSE chain[2]
  BY <1>1, Shortened
<1>4. TypeOK'
  <2>1. x' \in Pointer
    BY <1>1 DEF IInv, TypeOK
  <2> QED BY <1>1, <1>3, <2>1 DEF IInv, TypeOK, fields, queue
<1>5. NeverFollowsFreed'
  BY <1>1 DEF IInv, NeverFollowsFreed
<1>6. NothingLeaks'
  BY <1>3 DEF NothingLeaks
<1>7. Linked'
  <2>1. ASSUME NEW i \in 1..(Len(chain) - 1)
        PROVE  /\ next[chain'[i]] = IF i = Len(chain) - 1 THEN NULL ELSE chain'[i + 1]
               /\ i > 1 => past[chain'[i]] = chain'[i - 1]
    <3>1. chain'[i] = chain[i + 1]
      BY <1>3
    <3>2. i # Len(chain) - 1 => chain'[i + 1] = chain[i + 2]
      <4>1. ASSUME i # Len(chain) - 1
            PROVE  i + 1 \in 1..(Len(chain) - 1) /\ (i + 1) + 1 = i + 2
        <5>1. Len(chain) \in Nat
          BY <1>2
        <5> QED BY <5>1, <4>1
      <4> QED BY <4>1, <1>3
    <3>3. ASSUME i > 1 PROVE past[chain'[i]] = chain'[i - 1]
      <4>1. i - 1 \in 1..(Len(chain) - 1) /\ (i - 1) + 1 = i
        BY <3>3
      <4>2. chain'[i - 1] = chain[i]
        BY <4>1, <1>3
      <4>3. i + 1 \in 1..Len(chain) /\ i + 1 > 1 /\ (i + 1) - 1 = i
        BY <1>2
      <4>4. past[chain[i + 1]] = chain[i]
        BY <4>3, Chain DEF IInv, Linked
      <4> QED BY <3>1, <4>2, <4>4
    <3> QED BY <1>3, <3>1, <3>2, <3>3
  <2> QED BY <1>1, <1>3, <2>1 DEF Linked, fields
<1>8. Removing'
  <2>1. Len(chain) # 1 => 1 \in 1..(Len(chain) - 1) /\ 1 + 1 = 2
    <3>1. \A n \in Nat \ {0} : n # 1 => 1 \in 1..(n - 1) /\ 1 + 1 = 2
      OBVIOUS
    <3> QED BY <1>2, <3>1
  <2> QED BY <1>1, <1>3, <2>1 DEF Removing
<1> QED BY <1>4, <1>5, <1>6, <1>7, <1>8 DEF IInv

\* The other operations leave the list as it is, and none of them crashes.
LEMMA QuietInv ==
  ASSUME IInv, create_queue \/ first_queue \/ remove_queue \/ Removed \/ UNCHANGED vars
  PROVE  IInv'
<1>1. CASE create_queue
  <2>1. /\ chain = << >> /\ UNCHANGED << live, fields, x, buf, fault, chain >>
        /\ phase' = "exists" /\ first' = NULL /\ last' = NULL /\ size' = 0
    BY <1>1 DEF create_queue, IInv, Removing
  <2>2. TypeOK'
    BY <2>1 DEF IInv, TypeOK, Pointer, fields
  <2>3. NeverFollowsFreed' /\ NothingLeaks' /\ Removing'
    BY <2>1 DEF IInv, NeverFollowsFreed, NothingLeaks, Removing
  <2>4. Linked'
    BY <2>1 DEF Linked
  <2> QED BY <2>2, <2>3, <2>4 DEF IInv
<1>2. CASE first_queue
  <2>1. first \in Cells /\ buf' = message[first]
        /\ UNCHANGED << live, fields, phase, queue, x, fault, chain >>
    BY <1>2, LiveEnds DEF first_queue
  <2>2. TypeOK'
    BY <2>1 DEF IInv, TypeOK, fields, queue
  <2> QED
    BY <2>1, <2>2 DEF IInv, NeverFollowsFreed, NothingLeaks, Linked, Removing, fields, queue
<1>3. CASE remove_queue
  <2>1. /\ phase = "exists" /\ phase' = "removing" /\ x' = first
        /\ UNCHANGED << live, fields, queue, buf, fault, chain >>
    BY <1>3 DEF remove_queue
  <2>2. TypeOK' /\ Removing'
    BY <2>1 DEF IInv, TypeOK, Linked, Removing, fields, queue
  <2> QED
    BY <2>1, <2>2 DEF IInv, NeverFollowsFreed, NothingLeaks, Linked, fields, queue
<1>4. CASE Removed
  <2>1. /\ phase = "removing" /\ x = NULL /\ phase' = "gone"
        /\ UNCHANGED << live, fields, queue, x, buf, fault, chain >>
    BY <1>4 DEF Removed
  <2>2. chain = << >>
    <3>1. chain # << >> => chain[1] \in Cells
      BY Chain DEF IInv
    <3> QED BY <2>1, <3>1, QueueAssumption DEF IInv, Removing
  <2>3. TypeOK' /\ Removing'
    BY <2>1, <2>2 DEF IInv, TypeOK, Removing, fields, queue
  <2> QED
    BY <2>1, <2>3 DEF IInv, NeverFollowsFreed, NothingLeaks, Linked, fields, queue
<1>5. CASE UNCHANGED vars
  BY <1>5 DEF IInv, TypeOK, NeverFollowsFreed, NothingLeaks, Linked, Removing, vars, fields, queue
<1> QED BY <1>1, <1>2, <1>3, <1>4, <1>5

\* What a step of Next does, now that no operation crashes.
LEMMA Steps ==
  ASSUME IInv, Next
  PROVE  \/ \E msg \in Messages, new \in Cells \ live :
              phase = "exists" /\ enqueue_queue(msg, new)
         \/ phase = "exists" /\ size # 0 /\ dequeue_queue
         \/ RemoveCell
         \/ create_queue \/ first_queue \/ remove_queue \/ Removed
<1>1. Enqueue => \E msg \in Messages, new \in Cells \ live :
                   phase = "exists" /\ enqueue_queue(msg, new)
  BY LiveEnds DEF Enqueue, Appending
<1>2. Dequeue => phase = "exists" /\ size # 0 /\ dequeue_queue
  BY LiveEnds DEF Dequeue
<1> QED BY <1>1, <1>2 DEF Next

\* IInv is inductive.
LEMMA NextInv ==
  ASSUME IInv, [Next]_vars
  PROVE  IInv'
<1>1. CASE Next
  BY <1>1, Steps, EnqueueInv, DequeueInv, RemoveInv, QuietInv
<1>2. CASE UNCHANGED vars
  BY <1>2, QuietInv
<1> QED BY <1>1, <1>2

\* The inductive invariant holds in every reachable state of the list.
THEOREM Inductive == Spec => []IInv
<1> QED BY InitInv, NextInv, PTL DEF Spec

\* No operation follows a pointer to a cell that is not live, although last
\* keeps pointing to the cell that the last dequeue_queue freed.
THEOREM NoDanglingRead == Spec => []NeverFollowsFreed
<1>1. IInv => NeverFollowsFreed
  BY DEF IInv
<1> QED BY Inductive, <1>1, PTL

\* Every cell that is live is in the list, once.
THEOREM NoLeak == Spec => []NothingLeaks
<1>1. IInv => NothingLeaks
  BY DEF IInv
<1> QED BY Inductive, <1>1, PTL

\* next and past agree, and the ends of the list are where first and last point.
THEOREM WellLinked == Spec => []Linked
<1>1. IInv => Linked
  BY DEF IInv
<1> QED BY Inductive, <1>1, PTL

-----------------------------------------------------------------------------
\* The list implements a queue.

\* The messages of the cells ch, where the fields are ms.
MessagesOf(ch, ms) == [i \in DOMAIN ch |-> ms[ch[i]]]

Message == Messages \union {NoMessage}

\* They are a sequence, as long as the chain.
LEMMA MessagesSeq ==
  ASSUME NEW ch \in Seq(Cells), NEW ms \in [Cells -> Message]
  PROVE  /\ MessagesOf(ch, ms) \in Seq(Message)
         /\ Len(MessagesOf(ch, ms)) = Len(ch)
         /\ \A i \in 1..Len(ch) : MessagesOf(ch, ms)[i] = ms[ch[i]]
<1>1. Len(ch) \in Nat /\ DOMAIN ch = 1..Len(ch) /\ \A i \in 1..Len(ch) : ms[ch[i]] \in Message
  OBVIOUS
<1>2. MessagesOf(ch, ms) = [i \in 1..Len(ch) |-> ms[ch[i]]]
  BY <1>1 DEF MessagesOf
<1>3. [i \in 1..Len(ch) |-> ms[ch[i]]] \in Seq(Message)
  BY <1>1
<1> QED BY <1>1, <1>2, <1>3

\* A new cell appends its message.
LEMMA MessagesAppend ==
  ASSUME NEW ch \in Seq(Cells), NEW ms \in [Cells -> Message],
         NEW new \in Cells \ ToSet(ch), NEW msg \in Message
  PROVE  MessagesOf(Append(ch, new), [ms EXCEPT ![new] = msg]) = Append(MessagesOf(ch, ms), msg)
<1> DEFINE after == [ms EXCEPT ![new] = msg]
           longer == Append(ch, new)
           s == MessagesOf(longer, after)
           t == Append(MessagesOf(ch, ms), msg)
<1>1. after \in [Cells -> Message] /\ after[new] = msg
      /\ \A c \in Cells : c # new => after[c] = ms[c]
  OBVIOUS
<1>2. /\ longer \in Seq(Cells) /\ Len(longer) = Len(ch) + 1 /\ Len(ch) \in Nat
      /\ \A i \in 1..Len(ch) : longer[i] = ch[i] /\ ch[i] \in Cells /\ ch[i] # new
      /\ longer[Len(ch) + 1] = new
  BY DEF ToSet
<1> HIDE DEF after, longer
<1>3. /\ s \in Seq(Message) /\ Len(s) = Len(ch) + 1
      /\ \A i \in 1..(Len(ch) + 1) : s[i] = after[longer[i]]
  BY <1>1, <1>2, MessagesSeq
<1>4. /\ MessagesOf(ch, ms) \in Seq(Message) /\ Len(MessagesOf(ch, ms)) = Len(ch)
      /\ \A i \in 1..Len(ch) : MessagesOf(ch, ms)[i] = ms[ch[i]]
  BY MessagesSeq
<1>5. /\ t \in Seq(Message) /\ Len(t) = Len(ch) + 1
      /\ \A i \in 1..Len(ch) : t[i] = MessagesOf(ch, ms)[i]
      /\ t[Len(ch) + 1] = msg
  BY <1>4
<1> HIDE DEF s, t
<1>6. ASSUME NEW i \in 1..Len(s) PROVE s[i] = t[i]
  <2>1. i \in 1..Len(ch) \/ i = Len(ch) + 1
    BY <1>2, <1>3
  <2>2. CASE i \in 1..Len(ch)
    BY <2>2, <1>1, <1>2, <1>3, <1>4, <1>5
  <2>3. CASE i = Len(ch) + 1
    BY <2>3, <1>1, <1>2, <1>3, <1>5
  <2> QED BY <2>1, <2>2, <2>3
<1>7. s = t
  BY <1>3, <1>5, <1>6, SeqEqual
<1> QED BY <1>7 DEF s, t, after, longer

\* Without the first cell, they are the same without the first message.
LEMMA MessagesTail ==
  ASSUME NEW ch \in Seq(Cells), NEW ms \in [Cells -> Message], ch # << >>
  PROVE  /\ MessagesOf(ch, ms) # << >>
         /\ Head(MessagesOf(ch, ms)) = ms[ch[1]]
         /\ MessagesOf(Tail(ch), ms) = Tail(MessagesOf(ch, ms))
<1> DEFINE all == MessagesOf(ch, ms)
           rest == Tail(ch)
           s == MessagesOf(rest, ms)
<1>1. /\ all \in Seq(Message) /\ Len(all) = Len(ch)
      /\ \A i \in 1..Len(ch) : all[i] = ms[ch[i]]
  BY MessagesSeq
<1>2. /\ rest \in Seq(Cells) /\ Len(rest) = Len(ch) - 1
      /\ \A i \in 1..Len(rest) : rest[i] = ch[i + 1]
  BY HeadTailProperties
<1> HIDE DEF rest
<1>3. Len(ch) \in Nat \ {0}
  BY EmptySeq
<1>4. /\ s \in Seq(Message) /\ Len(s) = Len(ch) - 1
      /\ \A i \in 1..(Len(ch) - 1) : s[i] = ms[ch[i + 1]]
  BY <1>2, MessagesSeq
<1> HIDE DEF all, s
<1>5. all # << >> /\ Head(all) = ms[ch[1]]
  BY <1>1, <1>3
<1>6. /\ Tail(all) \in Seq(Message) /\ Len(Tail(all)) = Len(ch) - 1
      /\ \A i \in 1..(Len(ch) - 1) : Tail(all)[i] = all[i + 1]
  BY <1>1, <1>5, HeadTailProperties
<1>7. \A i \in 1..(Len(ch) - 1) : i + 1 \in 1..Len(ch)
  BY <1>3
<1>8. s = Tail(all)
  BY <1>1, <1>4, <1>6, <1>7, SeqEqual
<1> QED BY <1>5, <1>8 DEF all, s, rest

\* The list implements the queue: each of its operations is an operation of the
\* queue, or a step of remove_queue that the queue does not see.
THEOREM Implements == Spec => ImplementsFifo
<1>1. Init => F!Init
  BY DEF Init, F!Init, Contents
<1>2. ASSUME IInv, [Next]_vars
      PROVE  [F!Next]_(F!fifoVars)
  <2>1. /\ chain \in Seq(Cells) /\ message \in [Cells -> Message]
        /\ live = ToSet(chain)
    BY <1>2 DEF IInv, TypeOK, NothingLeaks, Message
  <2>2. phase = "exists" => Contents = MessagesOf(chain, message)
    BY DEF Contents, MessagesOf
  <2>3. phase' = "exists" => Contents' = MessagesOf(chain', message')
    BY DEF Contents, MessagesOf
  <2>4. phase # "exists" => Contents = << >>
    BY DEF Contents
  <2>5. phase' # "exists" => Contents' = << >>
    BY DEF Contents
  <2>6. CASE Next
    <3>1. ASSUME NEW msg \in Messages, NEW new \in Cells \ live,
                 phase = "exists", enqueue_queue(msg, new)
          PROVE  F!Enqueue(msg)
      <4>1. /\ chain' = Append(chain, new) /\ message' = [message EXCEPT ![new] = msg]
            /\ phase' = phase /\ buf' = buf
        BY <3>1 DEF enqueue_queue
      <4>2. Contents' = Append(Contents, msg)
        <5>1. new \in Cells \ ToSet(chain) /\ msg \in Message
          BY <2>1 DEF Message
        <5>2. MessagesOf(Append(chain, new), [message EXCEPT ![new] = msg])
                = Append(MessagesOf(chain, message), msg)
          BY <5>1, <2>1, MessagesAppend
        <5> QED BY <5>2, <4>1, <3>1, <2>2, <2>3
      <4> QED BY <4>1, <4>2 DEF F!Enqueue
    <3>2. CASE phase = "exists" /\ size # 0 /\ dequeue_queue
      <4>1. /\ chain # << >> /\ first = chain[1] /\ chain' = Tail(chain) /\ message' = message
            /\ phase' = phase /\ buf' = message[first]
        BY <1>2, <3>2, LiveEnds DEF dequeue_queue, Oldest
      <4>2. Contents # << >> /\ buf' = Head(Contents) /\ Contents' = Tail(Contents)
        BY <4>1, <3>2, <2>1, <2>2, <2>3, MessagesTail
      <4> QED BY <4>2 DEF F!Dequeue, F!Next
    <3>3. CASE first_queue
      <4>1. /\ phase = "exists" /\ chain # << >> /\ first = chain[1]
            /\ buf' = message[first] /\ UNCHANGED << message, phase, chain >>
        BY <1>2, <3>3, LiveEnds DEF first_queue, fields
      <4>2. Contents # << >> /\ buf' = Head(Contents)
        BY <4>1, <2>1, <2>2, MessagesTail
      <4>3. Contents' = Contents
        BY <4>1, <2>2, <2>3
      <4> QED BY <4>2, <4>3 DEF F!First, F!Next
    <3>4. CASE remove_queue
      <4>1. buf' = buf /\ phase' # "exists"
        BY <3>4 DEF remove_queue
      <4> QED BY <4>1, <2>5 DEF F!Renew, F!Next
    <3>5. CASE RemoveCell
      <4>1. buf' = buf /\ phase # "exists" /\ phase' # "exists"
        BY <1>2, <3>5, LiveEnds DEF RemoveCell
      <4> QED BY <4>1, <2>4, <2>5 DEF F!fifoVars
    <3>6. CASE Removed
      <4>1. buf' = buf /\ phase # "exists" /\ phase' # "exists"
        BY <3>6 DEF Removed
      <4> QED BY <4>1, <2>4, <2>5 DEF F!fifoVars
    <3>7. CASE create_queue
      <4>1. buf' = buf /\ phase # "exists" /\ phase' = "exists" /\ chain' = << >>
        BY <1>2, <3>7 DEF create_queue, IInv, Removing
      <4>2. Contents' = << >>
        BY <4>1 DEF Contents
      <4> QED BY <4>1, <4>2, <2>4 DEF F!fifoVars
    <3> QED BY <1>2, <2>6, Steps, <3>1, <3>2, <3>3, <3>4, <3>5, <3>6, <3>7 DEF F!Next
  <2>7. CASE UNCHANGED vars
    <3>1. buf' = buf /\ Contents' = Contents
      BY <2>7 DEF vars, fields, Contents
    <3> QED BY <3>1 DEF F!fifoVars
  <2> QED BY <1>2, <2>6, <2>7
<1> QED BY <1>1, <1>2, Inductive, PTL DEF Spec, ImplementsFifo, F!Spec

=============================================================================
