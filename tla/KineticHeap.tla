---------------------------- MODULE KineticHeap ----------------------------
(***************************************************************************)
(* The kinetic heap of task t5 (limpo-heap-cinetico.cpp over heap.cpp):    *)
(* elements that move along a line, a heap H of them with the one that is  *)
(* ahead at its root, and a heap Q of certificates.  Certificate i stands  *)
(* for "the element at position i of H is not ahead of the one at i / 2",  *)
(* and says when that ends.                                                *)
(*                                                                         *)
(* A step is a turn of a loop: of a command's, of the constructor's, or of *)
(* the two that sift a certificate through Q.  What a command calls one    *)
(* after another waits in todo.  Times are in halves and positions         *)
(* doubled, so that the moment when two elements meet is an integer and    *)
(* the doubles of the code are exact.                                      *)
(***************************************************************************)
EXTENDS Integers, Sequences, FiniteSets

CONSTANTS
  Ids,           \* the elements, numbered from 1 as Teste() does
  Built,         \* how many of them the heap may be built from
  Positions,     \* where an element may be when it comes
  Speeds,
  Commands,      \* the commands that the user gives
  AfterDelete,   \* whether any follow a Delete
  MaxTime,       \* a bound on the time
  MaxChanges     \* and on the number of changes of speed

INFTY == 2 * 123456

ASSUME KineticAssumption ==
  /\ IsFiniteSet(Ids) /\ Ids = 1..Cardinality(Ids)
  /\ Built \subseteq Ids \ {1}
  /\ \A p \in Positions : p \in Int /\ p % 2 = 0
  /\ \A v, w \in Speeds : v \in Int /\ v - w \in {-2, -1, 0, 1, 2}
  /\ Commands \subseteq {"insert", "advance", "change", "delete"}
  /\ AfterDelete \in BOOLEAN
  /\ MaxTime \in 0..(INFTY - 1) /\ MaxChanges \in Nat

VARIABLES
  now,       \* the current time
  line,      \* position at time 0 and speed of each element (in the code's m)
  index,     \* its position in H (in the code's m)
  H,         \* the vector's memory: pop_back leaves the last element behind
  size,      \* how many elements of H are in use
  h, m,      \* Q: the certificates, and where in h each of them is
  sift,      \* the place in h from which a certificate goes down, and then up
  todo,      \* the certificates that the command running has still to make
  task,      \* the command whose loop is running
  present,   \* the elements inserted and not deleted, as the user knows
  changes,   \* how many changes of speed there have been
  turns      \* how many events the loop that is running has dealt with

elements == << line, index, H, size >>
queue == << h, m, sift >>
user == << present, changes >>
vars == << now, elements, queue, todo, task, user, turns >>

-----------------------------------------------------------------------------
\* limpo-heap-cinetico.cpp: the private functions.

Key(id) == line[id].x + line[id].v * now

\* When the lines u and p meet; they are not parallel.
Meet(u, p) == IF p.v > u.v THEN (u.x - p.x) \div (p.v - u.v) ELSE (p.x - u.x) \div (u.v - p.v)

Failure_Time_NowAgain(i) ==
  LET u == line[H[i]]
      p == line[H[i \div 2]]
  IN IF u.v = p.v \/ Meet(u, p) < now THEN INFTY ELSE Meet(u, p)
Failure_Time_Past(i) ==
  LET u == line[H[i]]
      p == line[H[i \div 2]]
  IN IF u.v = p.v THEN INFTY ELSE Meet(u, p)
Failure_Time(i) ==
  LET u == line[H[i]]
      p == line[H[i \div 2]]
  IN IF u.v = p.v \/ Meet(u, p) <= now THEN INFTY ELSE Meet(u, p)

Swap(i, j) ==
  /\ H' = [H EXCEPT ![i] = H[j], ![j] = H[i]]
  /\ index' = [index EXCEPT ![H[i]] = j, ![H[j]] = i]

Children(i) == {j \in {2 * i, 2 * i + 1} : j <= size}

\* The child that is ahead of its parent and of its sibling, if there is one.
Ahead(i) ==
  {j \in Children(i) : \A b \in {i} \union (Children(i) \ {j}) : Key(H[j]) > Key(H[b])}

Sibling_Right(i) == IF i > 1 /\ i % 2 = 1 THEN i - 1 ELSE 0
Sibling(i) ==
  CASE i \div 2 = 0 -> 0
    [] i % 2 = 1    -> i - 1
    [] OTHER        -> IF i + 1 <= size THEN i + 1 ELSE 0

\* Certificates to be made, in their order: of position i, unless it is the root's,
\* and of a child, if it is there.
Make(i, rule) == IF i \div 2 = 0 THEN << >> ELSE << [i |-> i, rule |-> rule] >>
MakeChildren(i, n, rule) ==
  (IF 2 * i <= n THEN Make(2 * i, rule) ELSE << >>) \o (IF 2 * i + 1 <= n THEN Make(2 * i + 1, rule) ELSE << >>)

\* When certificate i is to expire: at the next meeting, or now if the element is
\* out of its place, by the rule of Make_Parent_Certificate (for a certificate that
\* is there or for a new one) or of Make_Child_Certificate.
Time(i, rule) ==
  IF \/ rule \in {"parent", "new parent"} /\ Key(H[i]) > Key(H[i \div 2])
     \/ rule = "child" /\ i \in Ahead(i \div 2)
  THEN now ELSE Failure_Time(i)

\* Certificate i has expired: the element passes the one above it.
Event(i) == Swap(i, i \div 2) /\ UNCHANGED << line, size >>
Affected(i) ==
  Make(i \div 2, "next") \o Make(i, "next") \o MakeChildren(i, size, "next") \o Make(Sibling(i), "next")

-----------------------------------------------------------------------------
\* heap.cpp: the certificates, the one that expires first at the root of Q.

Still == [at |-> 0, up |-> TRUE]

\* The child to go down to; none if both are before their parent at the same time.
Down ==
  {j \in {2 * sift.at, 2 * sift.at + 1} \cap DOMAIN h :
     /\ ~ sift.up
     /\ h[j].t < h[sift.at].t
     /\ \A b \in {2 * sift.at, 2 * sift.at + 1} \cap DOMAIN h : b # j => h[j].t < h[b].t}

\* The parent to go up to.
Up_OnlyInserted == {j \in {sift.at \div 2} \cap DOMAIN h : sift.up /\ h[j].t > h[sift.at].t}
Up == {j \in {sift.at \div 2} \cap DOMAIN h : h[j].t > h[sift.at].t}

Settled == Down = {} /\ Up = {}

Q_Swap(i, j) ==
  /\ h' = [h EXCEPT ![i] = h[j], ![j] = h[i]]
  /\ m' = [m EXCEPT ![h[i].id] = j, ![h[j].id] = i]

Sink == \E j \in Down : Q_Swap(sift.at, j) /\ sift' = [at |-> j, up |-> FALSE]
Swim == Down = {} /\ \E j \in Up : Q_Swap(sift.at, j) /\ sift' = [at |-> j, up |-> TRUE]

Q_Insert(id, t) ==
  /\ h' = Append(h, [id |-> id, t |-> t])
  /\ m' = [k \in DOMAIN m \union {id} |-> IF k = id THEN Len(h) + 1 ELSE m[k]]
  /\ sift' = [at |-> Len(h) + 1, up |-> TRUE]

Q_Update(id, t) ==
  h' = [h EXCEPT ![m[id]].t = t] /\ sift' = [at |-> m[id], up |-> FALSE] /\ UNCHANGED m

Q_Min == h[1]

-----------------------------------------------------------------------------
\* The user's elements and commands.  What the user gives is in general position:
\* no two elements are in one place when a command is given, no two meetings are at
\* one moment, and none is as late as the number that stands for never.

Moments(u, p, t) == IF u.v = p.v \/ Meet(u, p) < t THEN {} ELSE {Meet(u, p)}

Pairs(ids) == {p \in ids \X ids : p[1] < p[2]}

General(l, ids, t) ==
  /\ \A p \in Pairs(ids) : l[p[1]].x + l[p[1]].v * t # l[p[2]].x + l[p[2]].v * t
  /\ \A p \in Pairs(ids) : \A e \in Moments(l[p[1]], l[p[2]], t) : e < INFTY
  /\ \A p, r \in Pairs(ids) :
       p # r => Moments(l[p[1]], l[p[2]], t) \cap Moments(l[r[1]], l[r[2]], t) = {}

\* The meetings of element id are not at the moments of those it would have had.
Afresh(l, id) ==
  \A p, r \in present \ {id} :
    p # r => Moments(l[id], l[p], now) \cap Moments(line[id], line[r], now) = {}

Line == [x : Positions, v : Speeds]

\* Nothing has been deleted.
Intact == present = 1..Len(line)

\* Between two calls, and between two commands.
Idle == Settled /\ todo = << >>
Ready == [op |-> "ready"]
May(command) == task = Ready /\ command \in Commands /\ (Intact \/ AfterDelete)

\* A turn of a loop that deals with an event, and the end of a command.
Again == turns' = turns + 1
Return == task' = Ready /\ sift' = Still /\ turns' = 0 /\ UNCHANGED << h, m, todo >>

\* The constructor: the elements one after another.
Init ==
  \E n \in Built :
    /\ line \in [1..n -> Line] /\ General(line, 1..n, 0)
    /\ now = 0 /\ index = [i \in 1..n |-> i] /\ H = [i \in 1..n |-> i] /\ size = n
    /\ h = << >> /\ m = << >> /\ sift = Still /\ todo = << >>
    /\ task = [op |-> "build", i |-> (n + 1) \div 2, at |-> (n + 1) \div 2]
    /\ present = 1..n /\ changes = 0 /\ turns = 0

\* Then every element from the middle to the root goes down to its place,
BuildH ==
  /\ task.op = "build" /\ task.i > 0
  /\ \/ \E j \in Ahead(task.at) : Swap(task.at, j) /\ task' = [op |-> "build", i |-> task.i, at |-> j]
     \/ /\ Ahead(task.at) = {}
        /\ task' = [op |-> "build", i |-> task.i - 1, at |-> task.i - 1]
        /\ UNCHANGED << H, index >>
  /\ UNCHANGED << now, line, size, queue, todo, user, turns >>

\* and at last there is a certificate for every position but the root's.
BuildQ ==
  /\ task.op = "build" /\ task.i = 0
  /\ todo' = [k \in 1..(size - 1) |-> [i |-> k + 1, rule |-> "new"]]
  /\ task' = [op |-> "certify"]
  /\ UNCHANGED << now, elements, queue, user, turns >>

\* The next call of the command that is running: Insert or Update of Q.
Certificate ==
  /\ Settled /\ todo # << >>
  /\ LET c == Head(todo) IN
     IF c.rule \in {"new", "new parent"} THEN Q_Insert(c.i, Time(c.i, c.rule))
                                         ELSE Q_Update(c.i, Time(c.i, c.rule))
  /\ todo' = Tail(todo)
  /\ UNCHANGED << now, elements, task, user, turns >>

\* The turns of the loops of Q.
SiftQ == (Sink \/ Swim) /\ UNCHANGED << now, elements, todo, task, user, turns >>

\* The end of the constructor, of Change, and of Insert when it has come to the root.
Finish ==
  /\ task.op = "certify" /\ Idle
  /\ Return
  /\ UNCHANGED << now, elements, user >>

\* Insert: at the end of H, with a certificate; then it passes one element after
\* another while the first certificate to expire does so now.
Insert ==
  /\ May("insert")
  /\ \E id \in Ids, p \in Positions, v \in Speeds :
       /\ id = Len(line) + 1
       /\ line' = Append(line, [x |-> p - v * now, v |-> v])
       /\ index' = Append(index, size + 1)
       /\ H' = IF size = Len(H) THEN Append(H, id) ELSE [H EXCEPT ![size + 1] = id]
       /\ present' = present \union {id}
       /\ General(line', present', now)
       /\ task' = IF size = 0 THEN Ready ELSE [op |-> "insert", id |-> id]
  /\ size' = size + 1
  /\ todo' = Make(size + 1, "new parent")
  /\ UNCHANGED << now, queue, changes, turns >>

InsertLoop ==
  /\ task.op = "insert" /\ Idle
  /\ IF Q_Min.t = now
     THEN /\ Event(Q_Min.id)
          /\ todo' = Affected(Q_Min.id) \o Make(index'[task.id], "parent")
          /\ task' = IF index'[task.id] = 1 THEN [op |-> "certify"] ELSE task
          /\ Again /\ UNCHANGED queue
     ELSE Return /\ UNCHANGED elements
  /\ UNCHANGED << now, user >>

\* Advance: every certificate that expires by then, in the order of Q.
Advance ==
  /\ May("advance")
  /\ \E t \in now..MaxTime :
       /\ t % 2 = 0
       /\ General(line, present, t)
       /\ task' = [op |-> "advance", to |-> t]
  /\ UNCHANGED << now, elements, queue, todo, user, turns >>

AdvanceLoop ==
  /\ task.op = "advance" /\ Idle
  /\ IF Q_Min.t <= task.to
     THEN /\ now' = Q_Min.t
          /\ Event(Q_Min.id)
          /\ todo' = Affected(Q_Min.id)
          /\ Again /\ UNCHANGED << queue, task >>
     ELSE now' = task.to /\ Return /\ UNCHANGED elements
  /\ UNCHANGED user

\* Change: another speed from now on, and new times for the certificates around.
Change ==
  /\ May("change")
  /\ changes < MaxChanges
  /\ \E id \in present, v \in Speeds :
       /\ v # line[id].v
       /\ line' = [line EXCEPT ![id] = [x |-> @.x + now * (@.v - v), v |-> v]]
       /\ General(line', present, now) /\ Afresh(line', id)
       /\ todo' = Make(index[id], "next") \o MakeChildren(index[id], size, "next")
  /\ changes' = changes + 1
  /\ task' = [op |-> "certify"]
  /\ UNCHANGED << now, index, H, size, queue, present, turns >>

\* Delete: the last element takes its place and goes down; if it was the last one
\* itself, H[i] is read past the end, where it still stands.
Delete ==
  /\ May("delete")
  /\ \E id \in present :
       /\ Swap(index[id], size)
       /\ task' = [op |-> "delete", id |-> H[size]]
       /\ todo' = MakeChildren(index[id], size - 1, "child")
       /\ present' = present \ {id}
  /\ size' = size - 1
  /\ UNCHANGED << now, line, queue, changes, turns >>

DeleteLoop ==
  /\ task.op = "delete" /\ Idle
  /\ IF Q_Min.t = now
     THEN /\ Event(Q_Min.id)
          /\ todo' = Affected(Q_Min.id) \o MakeChildren(index'[task.id], size, "child")
          /\ Again /\ UNCHANGED << queue, task >>
     ELSE Return /\ UNCHANGED elements
  /\ UNCHANGED << now, user >>

Next ==
  \/ BuildH \/ BuildQ \/ Certificate \/ SiftQ \/ Finish
  \/ Insert \/ InsertLoop
  \/ Advance \/ AdvanceLoop
  \/ Change
  \/ Delete \/ DeleteLoop

Spec == Init /\ [][Next]_vars

-----------------------------------------------------------------------------
\* Every variable has its shape, and no certificate a time before the start.
TypeOK ==
  /\ now \in 0..MaxTime /\ changes \in 0..MaxChanges /\ turns \in Nat
  /\ line \in Seq([x : Int, v : Speeds]) /\ Len(line) \in Ids /\ present \subseteq 1..Len(line)
  /\ H \in Seq(1..Len(line)) /\ size \in 0..Len(H) /\ index \in [1..Len(line) -> 1..Len(H)]
  /\ h \in Seq([id : 2..Len(H), t : Nat])
  /\ m \in [DOMAIN m -> 1..Len(h)] /\ DOMAIN m \subseteq 2..Len(H)
  /\ sift \in [at : 0..Len(h), up : BOOLEAN]
  /\ todo \in Seq([i : 2..Len(H), rule : {"new", "next", "parent", "new parent", "child"}])
  /\ task.op \in Commands \union {"ready", "build", "certify"}

\* Max(): "elemento com maior valor no instante atual".
MaxIsMaximum ==
  task = Ready /\ present # {} =>
    H[1] \in present /\ \A id \in present : Key(id) <= Key(H[1])

\* The two heaps and the indexes between them agree between two commands: nobody
\* is ahead of its parent, and for every position but the root's there is one
\* certificate, which expires when the two that it is about meet next.
Certified ==
  task = Ready /\ Intact =>
    /\ \A i \in 1..size : index[H[i]] = i
    /\ \A i \in 2..size : Key(H[i]) < Key(H[i \div 2])
    /\ \A i \in 2..size : h[m[i]] = [id |-> i, t |-> Failure_Time(i)]
    /\ Len(h) = size - 1

\* The certificate that expires first is at the root of Q whenever a call of Q has
\* ended, at every turn of a loop.
FirstExpiryFirst == Intact /\ Settled => \A i \in 2..Len(h) : h[i \div 2].t <= h[i].t

\* Advance deals with the meetings in the order in which they happen.
NeverBack == [][now' >= now]_vars

\* No command loops for ever ("Loop infinito na entrada de teste", the comment of
\* Teste3): a loop deals with each meeting of two elements at most once.
MeetingsOnce == turns <= Cardinality(Pairs(present))

=============================================================================
