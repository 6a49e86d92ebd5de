-------------------------- MODULE KineticInvariant --------------------------
(***************************************************************************)
(* The inductive invariants of KineticHeap: Shape, which gives the types,  *)
(* and Whole, which says how the two heaps and the indexes between them    *)
(* stand in the middle of a command, as long as nothing has been deleted.  *)
(* DeletedInv says how they stand in a Delete that is the last command,    *)
(* and TurnsInv how many turns a loop can have taken.  KineticHeapProofs   *)
(* proves the four.                                                        *)
(***************************************************************************)
EXTENDS KineticHeap

-----------------------------------------------------------------------------
\* Types.

\* A line of the model: the position even, as positions are doubled.
EvenLine == {l \in [x : Int, v : Speeds] : l.x % 2 = 0}
Place(u, t) == u.x + u.v * t

\* What the commands put into todo, and what makes a new certificate.
Rules == {"new", "next", "parent", "new parent", "child"}
Call(n) == [i : 2..n, rule : Rules]
Calls(s) == {s[k] : k \in 1..Len(s)}
IsNew(k) == todo[k].rule \in {"new", "new parent"}

\* Every certificate is in Q or about to be made.
AllMade ==
  /\ \A k, l \in 1..Len(todo) : IsNew(k) => IsNew(l)
  /\ task.op # "build" =>
       \A i \in 2..Len(H) : i \in DOMAIN m \/ \E k \in 1..Len(todo) : todo[k].i = i /\ IsNew(k)

TaskOK ==
  /\ task.op \in Commands \union {"ready", "build", "certify"}
  /\ task.op = "build" =>
       /\ task.i \in 0..size /\ task.at \in task.i..size /\ (task.i = 0 => task.at = 0)
       /\ size = Len(H) /\ todo = << >>
  /\ task.op \in {"insert", "delete"} => task.id \in 1..Len(line)
  /\ task.op = "advance" => task.to \in 0..MaxTime /\ task.to % 2 = 0
  /\ task.op # "advance" => now % 2 = 0
  /\ task.op = "ready" => todo = << >> /\ sift = Still

ClockOK == now \in 0..MaxTime /\ changes \in 0..MaxChanges /\ turns \in Nat
LineOK ==
  /\ line \in Seq(EvenLine) /\ Len(line) \in Ids
  /\ present \subseteq 1..Len(line) /\ size = Cardinality(present)
HOK ==
  /\ H \in Seq(1..Len(line)) /\ Len(H) >= 2 /\ size \in 0..Len(H)
  /\ index \in [1..Len(line) -> 1..Len(H)]
QOK ==
  /\ h \in Seq([id : 2..Len(H), t : Nat])
  /\ m \in [DOMAIN m -> 1..Len(h)] /\ DOMAIN m \subseteq 2..Len(H)
  /\ sift \in [at : 0..Len(h), up : BOOLEAN] /\ (sift.at = 0 => sift.up)
TodoOK == todo \in Seq(Call(Len(H)))

Shape == ClockOK /\ LineOK /\ HOK /\ QOK /\ TodoOK /\ TaskOK /\ AllMade

-----------------------------------------------------------------------------
\* Meetings.

\* When a certificate about the lines u and p expires, seen at time t.
Fail(u, p, t) == IF u.v = p.v \/ Meet(u, p) <= t THEN INFTY ELSE Meet(u, p)

\* At time t and right after it, u is behind p.
Under(u, p, t) == Place(u, t) < Place(p, t) \/ (Place(u, t) = Place(p, t) /\ u.v < p.v)

\* At time t no two elements are at one place.
Apart(t) == \A a, b \in 1..Len(line) : a # b => Place(line[a], t) # Place(line[b], t)

\* From time t on each meeting has a moment of its own, before that of never.
Meeting(a, b, t) == a # b /\ line[a].v # line[b].v /\ Meet(line[a], line[b]) >= t
Distinct(t) ==
  /\ \A a, b \in 1..Len(line) : Meeting(a, b, t) => Meet(line[a], line[b]) < INFTY
  /\ \A a, b, c, d \in 1..Len(line) :
       Meeting(a, b, t) /\ Meeting(c, d, t) /\ Meet(line[a], line[b]) = Meet(line[c], line[d]) =>
         (a = c /\ b = d) \/ (a = d /\ b = c)

\* While the time goes on two elements are at one place whenever an event is due.
Moving ==
  /\ Distinct(now)
  /\ task.op = "advance" => task.to >= now /\ Apart(task.to)
  /\ task.op # "advance" => Apart(now)

-----------------------------------------------------------------------------
\* The heap of elements.

\* H holds every element once, and index says where.
Numbered ==
  /\ Len(H) = Len(line) /\ size = Len(line)
  /\ \A i \in 1..size : index[H[i]] = i
  /\ \A id \in 1..Len(line) : H[index[id]] = id

Behind(i, j) == Key(H[i]) < Key(H[j])

\* The constructor has put in order what is below task.i, but for the element that
\* goes down, whose children are behind its parent.
BuildOrder ==
  task.op = "build" =>
    \A j \in 2..size :
      /\ j \div 2 >= task.i /\ j \div 2 # task.at => Behind(j, j \div 2)
      /\ j \div 2 = task.at /\ task.at \div 2 >= task.i /\ task.at \div 2 >= 1 => Behind(j, task.at \div 2)

\* Only the new element may be ahead of its parent.
InsertOrder ==
  task.op = "insert" =>
    /\ index[task.id] >= 2
    /\ \A j \in 2..size :
         /\ j # index[task.id] => Behind(j, j \div 2)
         /\ j \div 2 = index[task.id] => Behind(j, index[task.id] \div 2)

\* Right after now, everybody is behind its parent.
AdvanceOrder ==
  task.op = "advance" => \A j \in 2..size : Under(line[H[j]], line[H[j \div 2]], now)

RestOrder ==
  task.op \in {"ready", "certify"} => \A j \in 2..size : Behind(j, j \div 2)

InOrder == BuildOrder /\ InsertOrder /\ AdvanceOrder /\ RestOrder

-----------------------------------------------------------------------------
\* The heap of certificates.

\* One certificate for each of the first positions, and m says where.
Filed ==
  /\ DOMAIN m = 2..(Len(h) + 1)
  /\ \A j \in 1..Len(h) : h[j].id \in DOMAIN m /\ m[h[j].id] = j
  /\ \A i \in DOMAIN m : h[m[i]].id = i

\* The certificate at sift.at may be before its parent, or after its children if it
\* is still going down; its children are not before its parent.
Sifting ==
  \A j \in 2..Len(h) :
    /\ j # sift.at /\ j \div 2 # sift.at => h[j \div 2].t <= h[j].t
    /\ j \div 2 = sift.at /\ sift.at \div 2 >= 1 => h[sift.at \div 2].t <= h[j].t
    /\ j \div 2 = sift.at /\ sift.up => h[sift.at].t <= h[j].t

Expiry(i) == h[m[i]].t
Waiting == {c.i : c \in Calls(todo)}

\* When a certificate that is not about to be made again expires.
Due(i) == IF task.op = "insert" /\ i = index[task.id] THEN Time(i, "parent") ELSE Failure_Time(i)

\* No two certificates expire at one time, nor does one that is about to be made
\* at the time that another still has.
OneByOne ==
  /\ \A i \in DOMAIN m : Expiry(i) <= INFTY
  /\ \A i, k \in DOMAIN m : i # k /\ Expiry(i) = Expiry(k) => Expiry(i) = INFTY
  /\ \A i \in DOMAIN m \cap Waiting, k \in Waiting :
       i # k /\ Expiry(i) = Failure_Time(k) => Expiry(i) = INFTY

UpToDate == \A i \in DOMAIN m \ Waiting : Expiry(i) = Due(i)

\* What waits: new certificates in the order of their positions, or those around an
\* event, and at last the one of the element that Insert takes up.
Calling ==
  /\ \A k \in 1..Len(todo) :
       /\ todo[k].i \in 2..size
       /\ IsNew(k) => todo[k].i = Len(h) + 1 + k /\ Len(h) + Len(todo) = size - 1
       /\ task.op # "insert" => todo[k].rule \in {"new", "next"}
       /\ task.op = "insert" =>
            IF k = Len(todo) THEN todo[k].i = index[task.id] /\ todo[k].rule \in {"parent", "new parent"}
                             ELSE todo[k].rule = "next"
  /\ task.op = "build" => h = << >>
  /\ task.op # "delete"

Whole == Moving /\ Numbered /\ InOrder /\ Filed /\ Sifting /\ OneByOne /\ UpToDate /\ Calling
IntactInv == Intact => Whole

-----------------------------------------------------------------------------
\* A Delete that is the last command.

\* Until the first Delete the commands are those of Whole.
LastDelete == task.op \notin {"ready", "delete"} => Intact

\* The element deleted stands behind the others.
Removed ==
  /\ Len(H) = Len(line) /\ size = Len(line) - 1
  /\ \A i \in 1..Len(H) : index[H[i]] = i
  /\ \A id \in 1..Len(line) : H[index[id]] = id
  /\ present = {H[j] : j \in 1..size}

\* The element that goes down may be ahead of its parent, for a Delete takes nothing
\* up; the elements below it are not, and it is behind the root.
Hole == index[task.id]
DeleteOrder ==
  /\ \A j \in 2..size :
       /\ j # Hole /\ j \div 2 # Hole => Behind(j, j \div 2)
       /\ j \div 2 = Hole /\ Hole >= 2 => Behind(j, Hole \div 2)
  /\ Hole # 1 => Behind(Hole, 1)

\* One certificate at most expires now, that of the child that is to go up, and it is
\* at the root of Q or on its way there.
Pending(i, rule) == \E k \in 1..Len(todo) : todo[k].i = i /\ todo[k].rule = rule
DeleteDue ==
  /\ \A i \in DOMAIN m : Expiry(i) >= now
  /\ \A i, k \in DOMAIN m : Expiry(i) = now /\ Expiry(k) = now => i = k
  /\ \A i \in DOMAIN m \ Waiting : Expiry(i) = now <=> i \in Ahead(Hole)
  /\ \A i \in DOMAIN m \cap Waiting : Expiry(i) = now => Pending(i, "next")
  /\ \A j \in 1..Len(h) : h[j].t = now => j \in {1, sift.at}

\* What waits: the certificates around an event, and at last those of the children of
\* the element that goes down.
DeleteCalling ==
  /\ \A k \in 1..Len(todo) :
       /\ todo[k].i \in 2..size /\ todo[k].rule \in {"next", "child"}
       /\ todo[k].rule = "child" => todo[k].i \div 2 = Hole
       /\ todo[k].rule = "next" /\ todo[k].i \div 2 = Hole => Pending(todo[k].i, "child")
  /\ \A k, l \in 1..Len(todo) :
       k < l /\ todo[k].rule = "child" => todo[l].rule = "child" /\ todo[l].i # todo[k].i

Deleting ==
  /\ Apart(now) /\ Removed /\ Filed /\ Len(h) = size
  /\ DeleteOrder /\ DeleteDue /\ DeleteCalling

DeletedInv ==
  /\ LastDelete
  /\ task.op = "delete" => Deleting
  /\ task.op = "ready" => MaxIsMaximum

\* How many turns a loop can have taken.
Coming == {p \in Pairs(present) : line[p[1]].v # line[p[2]].v /\ Meet(line[p[1]], line[p[2]]) > now}
TurnsInv ==
  /\ task.op = "insert" => turns + index[task.id] <= size
  /\ task.op = "certify" => turns <= size - 1
  /\ task.op = "advance" => turns + Cardinality(Coming) <= Cardinality(Pairs(present))
  /\ task.op = "delete" => turns = 0 \/ (turns < Hole /\ Hole <= size)
  /\ task.op \in {"ready", "build"} => turns = 0
  /\ task.op # "change"
=============================================================================
