# Verification of the programs of CS-Notes

CS-Notes is the coursework of a computer science student. Its largest program is
a simplified AMQP 0-9-1 server (`2023-2/Redes/ep1`); the rest are data
structures written for one course (`2023-2/EDA`), a matrix product
(`2023-1/Paralela-MAC0219/m5/src`) and notes in LaTeX. This directory holds TLA+
models of these programs, the TLC configurations that check them on small
instances, and TLAPS proofs that hold for every instance. Paths are relative to
the repository; `S` stands for `2023-2/Redes/ep1/ep1_paulo_henrique`.

## 1. Inventory

### 1.1 The AMQP server (final version, `S`)

| part | state | operations |
|---|---|---|
| `main` (`broker.c:59-116`) | the listening socket | accept, start a thread per client |
| connection thread (`broker.c:25-57`) | `client_thread`: socket, `current_state`, buffer, index of its queue | loop: call the function of the current state, look the returned code up in `transitions` |
| state functions (`state.c:60-484`) | none of their own | handshake (9 states), command (4), consumer's loop (3), closing (4), end |
| shared data (`server_config.h:64-68`) | `queue_list`, `queue_list_size`, `client_queue` (the ring of consumers of each queue), one mutex | declare, publish, subscribe, deliver and rotate |
| `queue.c` | a doubly linked list with a size | enqueue, dequeue, first, size |
| `utils.c` | a frame under construction; the bytes read so far | `read_frame`, `read_protocol_header`, the builders of Queue.Declare-Ok, Basic.Consume-Ok, Basic.Deliver |

Threads interact through `_server_data` under one global mutex, and with their
clients through a TCP socket, which cuts and joins what either side writes. Hard
behaviours: several threads between two critical sections that belong together
(`do_SUBSCRIBED` looks, `do_CLIENT_TURN` acts); a write while the mutex is held;
clients that close early; a lookup past the end of a row of `transitions`; a
queue used before it is declared; frames that arrive joined or cut. What makes
it correct: one queue per name; each message delivered once and in order; each
consumer of a queue served in turn; no thread stuck; no crash that clients who
follow the rules can cause; no frame taken for another.

### 1.2 The AMQP server (first version, `2023-2/Redes/ep1`)

The same functions without the mutex, and builders of frames and of nested tables
that `make_hardcoded.c` uses to write the server's constant answers; their bytes and
sizes are pasted by hand into `hardcoded.c`. What makes these correct: lengths that
include other lengths agree with the bytes, and the pasted frames with the program.
`test_queue.c` is a printed test of the queue.

### 1.3 Data structures (`2023-2/EDA`)

Sequential programs that read commands from standard input.

| part | state | operations | correct when |
|---|---|---|---|
| t1 stacks (`stack_basic`, `stack`, `stack_skew`) | a tree of versions, jump lists or jump pointers | push, pop, k-th, show, size | every version stays the sequence it was |
| t1 queue, deque | versions with their ends, jump pointers, depths | push and pop at the ends, k-th, show, size | the same |
| t2 `abb`, `treap`, `treap_persistente` | search trees, with counters, priorities or versions | insert, delete, search, min, print | in-order is the set; old versions unchanged |
| t2 `heap` | a binary tree whose nodes have their sizes | insert, delete the maximum, print | heap order, all elements kept, no index outside the picture |
| t3 retroactive queue and stack | a treap of timed operations with counters | insert or cancel an operation in the past, query at a time | equals a replay of the operations in time order |
| t4 segment trees | elementary intervals with lists of segments; for the dynamic one, static trees of sizes 2^k | insert, stabbing query | the segments that contain the point |
| t5 kinetic heap | lines in a heap, certificates in a second heap, the current time | insert, delete, change, advance, maximum | maximum at the current time; one certificate per edge |
| t6 splay tree | a self-adjusting tree with pointers to parents | insert, search, min, delete, split, join | in-order is the set |

Hard here are long sequences of legal calls, boundaries (an empty structure, the
last element), indices stored in two structures that refer to each other (the
kinetic heap's lines and certificates), counters kept along a path that may
turn out not to change (`fila_retroativa/abb.cpp:138`), nodes shared by versions,
pointers to parents that a removal does not correct (`splay-tree.cpp:107`).

### 1.4 Matrix product and notes

`2023-1/Paralela-MAC0219/m5/src` multiplies matrices in two loop orders, compares
the results and their times. Sums of doubles depend on the order of their terms, and
times on borrowing between seconds and microseconds. The remaining directories of 2023-1 hold LaTeX sources.

PROJECT.json lists every part under `components`, modelled or not, and every
behaviour that is hard to test under `hazards`, with the properties that cover it.

## 2. Plan

In order of importance. Recursive definitions stay in modules that only TLC uses.

1. **Done.** `StateMachine`, `Broker`, `RoundRobin`: threads, queues and rings.
   `BrokerInvariant`, `BrokerSafetyProofs`, `BrokerDeliveryProofs`: its proofs.
2. **Done.** `Connection`, `FrameBuilders`: one connection from its first byte to
   its last over a stream that TCP cuts and joins. `ConnectionInvariant`,
   `ConnectionProofs`: the frames it builds can be read back, no frame is taken for
   another, the answers come in order, the message is kept.
3. **Done.** `Fifo`, `LinkedQueue`, `LinkedQueueProofs`: the cells of `queue.c`,
   refining a sequence, with proofs.
4. **Done.** `KineticHeap`: both heaps of t5 and the indexes between them.
   `KineticInvariant`, `KineticHeapProofs`: its proofs.
5. **Done.** `Retroactive`: the queue and the stack of t3 against a replay.
6. **Done.** `Trees`, `TreeGrid`, `Abb`, `Treap`, `PersistentTreap`, `TreeHeap`: the
   trees of t2. `SplayTree`: t6. `CertificateHeap`: the part of t5's certificate heap
   that the kinetic heap does not call.
7. **Done.** `PersistentStack`, `PersistentDeque`: the versions of t1.
   `PersistentStackProofs`: how far their jumps go.
8. **Done.** `SegmentTree`: t4. `MatrixProduct`, `MatrixProductProofs`.
   `HardcodedFrames`: the builders of the first server and its constant frames.
9. **Done.** `MCStructures`: all sequential programs under TLC.

Theorems left: the counters of Retroactive, whose rotations can be stated without
recursion; the kinetic heap when commands follow a Delete. `JumpsAlike` of the
deque is out of the prover's reach: the deque finds the new parent of a node by a
recursive search, of which nothing can be proved without induction over its argument.

## 3. How the modules correspond to the code

### 3.1 StateMachine, Broker, RoundRobin

`StateMachine` is the table `transitions` with its row lengths: `Goto(s, n)` is the
lookup of `handle_client`, which reads the following row if `n` is past the end of
the row of `s` (`state.c:213` relies on the compiler's layout of the array).

`Broker` starts where the connections wait for a command. Its threads are the
connections, one per client; `state` is `current_state` and `step` is where a
thread is inside the function of that state. Steps are cut where another thread
could come in between:

| code | actions |
|---|---|
| `do_WAIT_COMMAND` | `do_WAIT_COMMAND` (the client's command arrives), `ReadEof` |
| `do_RCVD_QUEUE_DECLARE` | `DeclareSearch`, `DeclareInsert` (one critical section), `Reply` |
| `do_RCVD_BASIC_PUBLISH` | `do_RCVD_BASIC_PUBLISH` |
| `do_RCVD_BASIC_CONSUME` | `ConsumeSearch`, `ConsumeEnlist` (one critical section), `Reply` |
| `do_SUBSCRIBED` | `do_SUBSCRIBED`, one look at the ring per step |
| `do_CLIENT_TURN` | `NothingToDeliver`, or `Take`, `Deliver`, `Rotate` (one critical section) |
| `do_WAIT_BASIC_ACK`, `do_WAIT_CHANNEL_CLOSE`, `do_WAIT_CONNECTION_CLOSE` | `Read`, `ReadEof` |
| `do_RCVD_CHANNEL_CLOSE`, `do_RCVD_CONNECTION_CLOSE` | `CloseOk` |
| the end of `handle_client` | `Finish` |
| the client, the kernel | `ClientCloses`, `SigPipe` |

`published`, `delivered` and `since` are history: no action reads them.
`Locking = FALSE` is the first version of the server, which has the same functions
without the mutex. Its steps are coarser than its code, so only what is violated
there is concluded, nothing that holds.

Choices to know of: `_server_data` is copied from uninitialised memory
(`broker.c:92`) and taken as zero, which is what the allocator's fresh pages give;
`printf("%s", NULL->name)` at `state.c:349` survives because `name` is the first
field; a publish is written by its client as a whole; a connection carries out one
command, so that a message can be named by its connection; a socket buffer that is
full, and so a write that blocks with the mutex held, is not modelled (see
`hazards`).

A consumer of a queue that nobody has declared is not served as state.c:315 says
("inscreve cliente na fila requerida"): it joins the ring of whichever queue is
declared next. `SubscribedAsAsked` says exactly this of it, and of a consumer of a
declared queue that it joins the ring of that queue and of no other.

`RoundRobin` is what the queues promise: a queue of messages, a ring of consumers,
and a delivery that takes the first message to the first consumer and puts that one
at the back. `Broker!ImplementsRoundRobin` says that the threads implement it; a
delivery happens when it is written.

### 3.2 Connection, ConnectionInvariant, FrameBuilders

`Connection` is one client (the script of `notas.txt`) and one thread, and the
stream between them: a frame is a few bytes of which the last is 0xce, and a read
returns any number of the bytes that have come (`ServerReads`), as whole writes or
cut (`Splits`). `Enough` is the loop condition of `read_frame`, `Codes` what the
functions return, among them the count of 0xce bytes that `do_WAIT_TUNE_OK`
uses to see that `Connection.Open` came in the same read. `Extracted` and `Length` are how
`do_RCVD_BASIC_PUBLISH` finds the message: by counting 0xce bytes, with shifts of 6,
4 and 2 bits.

Most properties assume `Whole`: no 0xce inside a frame, and a publish that is not
cut. This is what the code relies on (`utils.c:17`), and where it ends the
`hazards` say so; the run has the other frames too, and type, decoding and message
properties cover them. `MessageIntact` says when a message of less than 256 bytes,
its three frames in one piece, is stored as it was sent: exactly when neither of the
two frames before it holds a 0xce. A 0xce in the message itself does no harm, but a
message of 206 bytes is always lost: its header frame holds its length, which is 0xce.

`ConnectionInvariant` places the thread at a step of the client's script (`Place`),
by its state and the number of frames it has written; it is used by the proofs.

`FrameBuilders` builds the three frames of `utils.c` byte by byte and takes them
apart again from the lengths they announce; eight bytes of Queue.Declare-Ok that the
code sends without having written them are `Unset`.

### 3.3 Fifo, LinkedQueue

`LinkedQueue` has the fields of the cells and of the queue as in `queue.h`, a set
`live` of the cells that malloc has given, and the operations of `queue.c` as
actions; malloc may return any cell that is free, and a pointer to a cell that is
not live is a `Crash`. `chain` is auxiliary: the cells in order. `first_queue`
copies no terminator; its callers clear the buffer first. `Fifo` is the sequence it
implements.

### 3.4 KineticHeap

`limpo-heap-cinetico.cpp` over `heap.cpp`, the pair that compiles. A step is a turn of
a loop. A command takes one for its beginning (`Insert`, `Advance`, `Change`, `Delete`)
and one for each event it deals with (`InsertLoop`, `AdvanceLoop`, `DeleteLoop`). The
calls that it makes of Q one after another wait in `todo`, each with the rule for its
time: `Certificate` makes the next one, and `SiftQ` takes the certificate one level
down or up (`Sink`, `Swim`) until it is `Settled`. The constructor sinks one element
after another (`BuildH`) and then makes all certificates (`BuildQ`). So nothing in the
module is recursive: a sift of the code, which calls itself, is a sequence of steps,
and `sift` is where it has come to. The times of the certificates in `todo` are computed
when they are made; H does not change in between.

`H` is the memory of the vector and `size` how much of it is in use, since Delete reads
`H[i]` past the end and `pop_back` leaves the element there. Times are in halves and
positions doubled: with speeds that differ by 1 or 2 every meeting is an integer, so
that the doubles of the code, exact on such values, are integers here.

The user's input is in general position (`General`): no two elements at one place
when a command is given, no two meetings at one moment, and none as late as 123456, which
stands for never. Without it the maximum is wrong from the constructor on, because
both `Sink` functions stop at two equal children; `hazards` lists these cases. A change
of speed needs more: no new meeting of the element at the moment of one it would have
had (`Afresh`). Change updates its certificates one after another, so that a new time
can tie with an old one that is about to be replaced, and the sift stops above it: with
five elements TLC then finds a Q whose first certificate is not the first to expire.

### 3.5 Retroactive

Both trees of t3, whose nodes differ in their counters only, in one set of
operators: a node has `num` (the queue's trees) and `sum` and `smax` (the stack's).
The same operations go to the queue and to the stack. Priorities are any of a small
set where the code calls `rand`. The queue's program as committed defines `main`
twice (in `abb.cpp` and in `fila_retroativa.cpp`); its classes are modelled as they are.

### 3.6 PersistentStack, PersistentDeque

`PersistentStack` gives the same pushes to the three stacks that work and to the
queue, so a node has the fields of all: `parent` and `Jump` (`stack_skew.cpp`), the
list `jump` (`stack-mod.cpp`), `depth`. An action pushes on any version, enqueues to
or dequeues from any version of the queue; K, Show and Size are operators, and
`StacksAnswer` and `QueuesAnswer` compare their answers with `stacked` and `elems`,
which say what the user put there. `LA` and `ListK` follow pointers as the code does.

`PersistentDeque` is `deque-final.cpp`: `Swap`, `LCA`, `LA`, PushFront, PopFront, and
the operations at the back as their mirror. A run may begin with `Straight` pushes at
one end, as the program's third test does, so that jumps longer than 1 come up. `Steps`
counts what `LA` follows; `FewSteps` bounds it by a multiple of the logarithm, which is
what the jumps are for.

### 3.7 Trees, TreeGrid, Abb, Treap, PersistentTreap, TreeHeap

Trees whose nodes are not shared are values (`Trees`); the persistent treap shares
nodes between versions and has a memory, in which a rotation writes (`Rotate`). Its
old versions must still hold what they did. `TreeGrid` is the picture both `abb.cpp`
and `heap.cpp` print: the cells that `_Print` writes, with the size of the array they
are written to. Each program has its own `number_of_digits`, by
which the widths of `TreeGrid` are made: the one of `heap.cpp` has no case for 0.
`TreeHeap` follows `size` as the code does and never looks at the shape of the tree.

### 3.8 SplayTree

Nodes at addresses, with parents, and rotations that write to up to four of them.
`_Splay` goes on while there is a parent, which is not the same as until the root:
Delete of a root with one child, Split and Join leave parents that are wrong. `worn`
says that one of them has happened. With `Careful = TRUE` the user gives no
command after that (the trees are still looked at as these operations leave them),
and does not delete a key whose successor is its own right child (`NextIsChild`:
`splay-tree.cpp:119` then loses its left subtree). With FALSE nothing is left out. The code frees nothing; the model reuses a node to which
no pointer leads.

### 3.9 SegmentTree, CertificateHeap, MatrixProduct, HardcodedFrames

`SegmentTree` builds the static tree from elementary intervals (`ElementaryPoints`,
`_BuildTree`, of which the last level may be incomplete) and the dynamic tree from
static ones by merging two of one size, oldest last.

`CertificateHeap` is `limpo-heap.cpp` with the constructor from an array and
DeleteMin, which `KineticHeap` never calls, and ids that come back.

In `MatrixProduct` an entry is the sequence of terms that were added to it: two
entries are equal if nothing is assumed of the numbers exactly if the sequences are.
test.c and main.c are its actions, the clock is any pair of readings in order.

`HardcodedFrames` builds the six constant answers with the functions that
`make_hardcoded.c` uses, prints their sizes and compares bytes and sizes with those of
`hardcoded.c`; it builds the three answers that depend on a client and
takes them apart again.

### 3.10 MCStructures

A behaviour chooses one `subject` and gives commands to that program; the other
variables stay as they were initially. The programs share nothing, so nothing is lost,
and one run covers them all.

## 4. Runs

| run | question | bounds |
|---|---|---|
| `broker_safety` | can any interleaving break the queues and rings? | 5 clients, 2 queues, one client that may close |
| `broker_live` | is every message delivered, every client answered? | 5 clients that stay, 1 queue |
| `broker_unlocked` | violation: two queues of one name without the mutex | 2 clients |
| `broker_close` | violation: the thread of a consumer that left never ends | 3 clients |
| `connection` | does cutting and joining confuse the server? | 3 commands, 4 frames that may hold 0xce, 4 lengths of messages, up to 2 deliveries |
| `connection_length` | violation: a message of 300 bytes is cut | 1 message |
| `linked_queue` | do the pointers agree, whatever malloc returns? | 3 cells, 2 messages |
| `kinetic_heap` | is the maximum right at every moment? | 4 elements, 3 speeds, 4 positions, time up to 2, one change of speed, a deletion at the end |
| `kinetic_delete` | violation: a deleted element is the maximum again | 2 elements |
| `structures` | do the sequential programs answer like the sequences and sets they stand for? | below |
| `retroactive_absent` | violation: counters after a Delete that finds nothing | 5 times |
| `splay_delete` | violation: a deleted key is found again | 4 keys |

Why the bounds suffice. Broker: a conflict needs two threads of one kind on one
queue, and one that declares; five clients have two declarers, two publishers and
two consumers, and the second queue, which one of the publishers may declare instead,
gives an index past the end that is later taken, and a third entry if a name got in
twice. Connection: all frames of a session are in the run and each may be cut at
every byte; lengths 206, 255 and 300 are at the byte 0xce and at both sides of one
byte. LinkedQueue: an empty queue, one cell, a middle cell; proved beyond that.
KineticHeap: four elements give a heap of three levels, a sibling, and Q a root with
two children; time is in halves (`MaxTime = 4`).

Bounds of `structures`, and what they reach. Retroactive: 5 times, 2 priorities, 2
cancellations; five leaves give rotations of inner nodes with inner children, and sums
of suffixes that cross them. Stacks: 6 pushes, in which every shape of a tree of 6
versions comes up, and jumps over several nodes; 4 versions of the queue. Deque: up to 16
pushes at one end, whose jumps are of several lengths, and then 4 commands to any version, enough for
two branches and for ends that cross their common ancestor. Search tree: 5 keys of 1 to
3 characters, one negative, so that columns differ in width. Treap: 4 keys, 3 priorities, of which two may
be equal. Persistent treap: 3 keys, 5 versions, which branch and rotate in shared
parts. Heap: up to 7 elements of 4 keys, equal ones, a 0, a negative one and
holes in the last two levels among them. Segment trees: 4 segments on 4 ends, so that 1, 2 and 4 are merged, and
queries at every end, between them and outside. Splay tree: 4 keys, enough for
zig-zig, zig-zag and a successor that is not a child. Certificates: 5 ids and
3 times or never. Matrices: sizes -2 to 3 and clocks whose microseconds borrow.
Frames: strings of 0, 1, 7, 15, 206 and 255 bytes, messages of 206 and 300.

In `kinetic_heap` a Delete is the last command (`AfterDelete = FALSE`), because of
the finding of `kinetic_delete`; `MaxIsMaximum` still holds right after it, while
`Certified` and `FirstExpiryFirst` speak of a heap from which nothing has been
deleted. In `structures`, `Replays` answers for the queue until a Delete has looked for a
missing key in a tree of two leaves or more, the finding of `retroactive_absent`.
The heap's picture is checked until its first DeleteMax (`deleted`): after that its
height is measured on a spine that may be the shorter one (`heap.cpp:281`). Before
that the cells written are right for every heap, but the width of a cell is not:
`heap.cpp:256` takes the logarithm of 0, so a heap with a 0 in it cannot be printed
(its padding has no length), and `heap.cpp:267` takes the leftmost key for the least.
The property says that the keys fit their cells for the others: positive ones, and
negative ones that are not less than the leftmost.
`kinetic_heap`, `structures`, `retroactive_absent` and `splay_delete` do not check
deadlock: the user may simply stop giving commands. Every other run does.

## 5. Fairness

`Broker!FairSpec`. Weak fairness of the steps that a thread takes without waiting
(`LocalStep`): threads run. Strong fairness of the steps that begin by taking the
mutex (`LockingStep`): a thread that tries again and again gets it at some time.
POSIX does not promise this for a mutex, but its scheduling policies for threads that
run on several processors and leave the critical section for a system call do
in practice; without it a consumer with an empty queue, which takes the mutex in a
loop, could keep the others out for ever. Weak fairness of reading an answer from a
client that has not closed: clients answer. No fairness of sending a command.

`Connection!FairSpec`: the thread, and the client's writes and reads, each weakly
fair.

## 6. Findings

`broker_unlocked`, `broker_close`, `connection_length`, `kinetic_delete`,
`retroactive_absent` and `splay_delete` each violate what a comment or a document of the repository
says; PROJECT.json quotes it. The last version of the server has repaired the first.

## 7. Proofs

For every set of connections, names, cells and messages, from `BrokerAssumption`
(there is room for the names that clients use) and `QueueAssumption`:

| theorem | module | says |
|---|---|---|
| `TypeCorrect` | BrokerSafetyProofs | `Spec => []TypeOK`, for a server with the mutex or without |
| `Safe` | BrokerSafetyProofs | `Spec => []Guarded`, for a server with the mutex |
| `TurnIsStable`, `RingsMatch`, `UniqueQueues`, `ArraysSuffice`, `SubscribedRight`, `CrashesExplained` | BrokerSafetyProofs | the safety properties of `broker_safety`, from `Safe` |
| `Delivering` | BrokerDeliveryProofs | `Spec => []IInv`: `Guarded`, and what clients are promised |
| `OnceInOrder` | BrokerDeliveryProofs | `Spec => []FifoExactlyOnce` |
| `NobodyStarves` | BrokerDeliveryProofs | `Spec => []Fair` |
| `Implements` | BrokerDeliveryProofs | `Spec => ImplementsRoundRobin` |
| `Decoding` | ConnectionProofs | `Spec => []AnswersDecode`, from `ConnectionAssumption` |
| `Scripted` | ConnectionProofs | `Spec => []IInv`: client and thread go through one script |
| `FramesKept` | ConnectionProofs | `Spec => []NoFrameMistaken` |
| `AnswersKept` | ConnectionProofs | `Spec => []AnswersInOrder` |
| `MessagesKept` | ConnectionProofs | `Spec => []MessageIntact`: what is stored of a message below 256 bytes, with and without a 0xce before it |
| `Typed` | ConnectionProofs | `Spec => []TypeOK`, with a 0xce in any frame but the protocol header |
| `KineticTypeOK` | KineticHeapProofs | `Spec => []TypeOK`, with deletions too |
| `KineticIntact` | KineticHeapProofs | `Spec => [](Shape /\ IntactInv)`: the whole heap, until the first Delete |
| `KineticCertified` | KineticHeapProofs | `Spec => []Certified` |
| `KineticFirstExpiry` | KineticHeapProofs | `Spec => []FirstExpiryFirst` |
| `KineticNeverBack` | KineticHeapProofs | `Spec => NeverBack`, if `AfterDelete = FALSE` |
| `KineticMaximum` | KineticHeapProofs | `Spec => []MaxIsMaximum`, if `AfterDelete = FALSE` |
| `KineticMeetingsOnce` | KineticHeapProofs | `Spec => []MeetingsOnce`, if `AfterDelete = FALSE` |
| `Inductive` | LinkedQueueProofs | `Spec => []IInv` |
| `NoDanglingRead`, `NoLeak`, `WellLinked` | LinkedQueueProofs | the parts of it |
| `Implements` | LinkedQueueProofs | `Spec => ImplementsFifo` |
| `StacksInductive` | PersistentStackProofs | `Spec => []IInv` |
| `JumpsOfOneLength` | PersistentStackProofs | `Spec => []JumpsAlike`: nodes of one depth jump to one depth |
| `TimesAreExact` | MatrixProductProofs | `Spec => []TimesRight`, if microseconds are below a million |
| `VerdictByTheClock` | MatrixProductProofs | `Spec => []FoundSlower`, under the same condition |

The argument for Broker. None of the safety properties is inductive. `TypeOK` needs
`Control`: the point a thread has reached agrees with its state, and what the
function reads there has been set. From it follows `Mutex`: whoever is inside a
critical section holds the mutex, so what it has found out stays true
(`StillAbsent`, `StillEmpty`, and `ChosenAsAsked`: no queue is declared between a
consumer's search and its joining the ring, so `SubscribedAsAsked`). `Naming` then gives one queue per name, hence, with at
most MAX_NUM_QUEUE names, arrays that are long enough, and bounds the index of a
consumer. `Rings` says that a ring holds its consumers once and, the point of the
whole design, that a thread in CLIENT_TURN is still at the front although
`do_SUBSCRIBED` released the mutex: others can only append to the ring, and only the
thread at the front takes it off.

The argument for deliveries. `Queued` and `Ring` are the queues and rings as clients
see them: the message in the hand of the thread that delivers it is still queued, and
the thread that has written it but not rotated the ring yet is already at its back.
Seen like this, every step of a thread is a publication, a subscription, a delivery or
nothing (`StepIs`), and these are the actions of `RoundRobin`, so `Implements` follows
step by step. `FifoExactlyOnce` is then inductive: what was published is what was
delivered followed by what is queued. `Fair` is not: that nobody is served twice while
another waits follows from the order of the ring. `TurnsComing` says it: once e has
been served, whoever had subscribed by then has been served since or comes before e in
the ring. A delivery needs this of the thread at the front, a subscription adds behind
everyone, and a delivery moves to the back only the one it serves.

The argument for the frames. A frame is a sequence that holds others at given
positions (`Holds`); what holds a concatenation holds its parts, each where the
lengths of those before it put it. A number below 2^32 is read back from the four
bytes it is written in (`LongRead`), and each announced length is the length of the
part that follows, so the parser's next position is where the next part begins.
Nothing is assumed of the bytes of names, tags and messages; the length of the
message stays among the sizes that fit in a cell (`SizeKept`).

The argument for the conversation, for any number of deliveries, any set of sizes and
any cuts. `NoFrameMistaken` speaks of the first unread byte only, and `AnswersInOrder`
of what has been written; neither is inductive. `IInv` says where both are: the
thread is at a step v of the client's script (`Place`: its state and the number of
frames written determine v), the client at most two steps before or behind (`Apart`),
and the stream holds exactly what lies between, the bytes of its writes or the
frames it has not read. Two steps, because a script never has three writes or three
waits in a row: Tune-Ok is followed by Connection.Open, a publish by Channel.Close,
Consume-Ok by a delivery. If a read ends inside a write, its last byte is not a 0xce
that ends a frame, so `read_frame` goes on and v stays; if it ends with one write, or
with both, the code that the function returns leads to v + 1 or v + 2 (`ReadsTune`,
`ReadsPublish`). Two ends of a conversation leave this path. A publish and a
Channel.Close read together, which the code takes for the end of the connection
(`Early`); and a publish with a 0xce inside one of its three frames, which makes the
code count a frame too many (`Astray`): the message has been taken then, or something
else in its place (`MessageTaken`), and nothing more is claimed. What is taken depends
on the second 0xce of the bytes read, always the fourth byte of a publish
(`PublicationIs`): the message starts after it only if the two frames before it hold
no other. `IInv` assumes `Tame`: a 0xce inside the three frames of a publish at most,
and a publish in one piece. These are
the assumptions of `NoFrameMistaken`, `AnswersInOrder` and `MessageIntact` taken
together, and they are the code's own (`utils.c:17`, `state.c:255`).

The argument for the state. `TypeOK` assumes none of this, and what could break it is
a code past the end of a row of `transitions`: `do_WAIT_TUNE_OK` returns the number of
0xce bytes less one. Codes of three to five read the row below, which is still in the
table; six would not. `Bounded` counts: until Connection.Open-Ok has been written the
client has written three frames after the header, with two 0xce bytes each at most
(one inside, one at the end), so six have come at most and the code is at most five
(`CodesIn`). That a frame holds one such byte at most inside is a bound of the model
(`Contents`), not of the code; with more of them the code reads further down, as the
hazard at `state.c:134` says.

The argument for KineticHeap. `Certified` speaks of the moments between two commands;
`Whole` (in `KineticInvariant`) says how the heap stands inside them, and TLC has checked
`Intact => Whole` with the bounds of `kinetic_heap` before it was proved. Its parts:
`Numbered` and `Filed`, H and `index`, Q and `m` are inverse to each other; `InOrder`, one
order of H for each command: the constructor has done what lies below `task.i`, Insert has
one element that may be ahead of its parent, and in Advance everybody is behind its parent
right after `now` (`Under`), the two that meet now being at one place; `Sifting`, Q is in order but
for the certificate at `sift.at`, whose children are not before its parent; `Calling`,
what waits in `todo` for each command; `UpToDate`, a certificate that does not wait expires when it
should; `OneByOne`, no two expire at one moment, not even one that has still to be made
again with one that has been. The last is what general position is for (`Distinct`), and what lets a sift stop
only where Q is in order. An event is then right because it is the only one at its
moment (`EventMoves`): only the element that passes changes its order with its parent, and
the certificates of all pairs that have changed are those that `Affected` makes again
(`EventCertificates`). `Afresh` is needed once, for the certificates of Change
(`ChangeMeetings`). A Delete leaves a certificate in Q that is about nothing, so `Whole` is
claimed while `Intact` holds, and the other results suppose that no command follows a
Delete: of `MaxIsMaximum`, `kinetic_delete` shows that it is false otherwise. `Shape` assumes
nothing of this.

`MaxIsMaximum` after the Delete itself needs an invariant of its own, `Deleting`. Delete puts
the last element into the hole and only takes it down, so it may stay ahead of its parent:
what is true is that it is behind the root (`DeleteOrder`), and that is enough for
`MaxIsMaximum`. Its loop goes down while a certificate expires at `now`. `DeleteDue` says that
this is so for one certificate at most, that of the child ahead of the element, which is at
the root of Q or on its way there, so the loop ends only when no child is ahead. Which calls
wait, and in which order, is `DeleteCalling`: those with the rule "child" come last, once for
each child.

`MeetingsOnce` bounds the turns of a loop by something that each turn uses up
(`TurnsInv`): Insert climbs, so its turns and the index of the element together are at most
`size`; Delete goes down, so its turns are fewer than that index; each turn of Advance has one
of the meetings to come (`Coming`) behind it (`ComingFewer`). A heap of n elements has
at least n - 1 pairs (`PairsEnough`), so one bound is enough for all.

The argument for LinkedQueue: with `chain` beside the pointers, `IInv` says that the
live cells are those of the chain, each once, that `next` and `past` follow it, and
that `first`, `last` (unless the chain is empty) and `size` are its ends and length.
`last` may point to a freed cell, but only when `size` is 0, and then `enqueue_queue`
does not follow it. `SequenceLemmas` has the facts about sequences without
duplicates that both proofs use.

The argument for PersistentStack. `JumpsAlike` is what makes the search of the common
ancestor in t1 right: two nodes of one depth may be taken up by their jumps together.
A push adds a node whose jump BuildJumpPointer finds by comparing depths only
(`SameDepthSameJump`), so if all jumps so far depend on the depth alone, so does the
next. `Shape` says that pointers lead to earlier nodes and that depths count parents;
`Queues` is the type of the queue's versions.

The argument for MatrixProduct. Of two readings in their order, timeval_subtract
borrows at most one second and never gives one back (`Subtract`), and timeval_cmp
compares as the microseconds since the start do (`Compare`); the invariant adds that
the times in `t` are those in `took`.

## 8. What is only model-checked, and what is not modelled

Only checked by TLC: liveness, which the prover cannot do; `LongMessageIntact` of
Connection, which is false; HardcodedFrames; what recursive operators compute, and so Retroactive,
the trees, the deque, the splay tree, the segment trees and the heap of certificates; what the
stacks and the queue answer; that both matrix products add the same terms.

Not modelled, in t1 to t6: files that do not compile (`treap-completa.cpp`;
`stack_bi/stack.cpp`; `t5/heap-cinetico.cpp`, an earlier kinetic heap that does not go with
`limpo-heap.cpp`, over which it is written); `stack/stack.cpp`, whose Pop leaves the stack as it is; earlier
copies of modelled files (`deque/deque.cpp`, `completo/deque.cpp`, `stack_bi/stack-mod.cpp`,
`t4/as.cpp`, `as-debug.cpp`, `debug-splay-tree.cpp`); operations on empty structures
that the programs do not guard; the heap's picture after DeleteMax; how keys are
formatted, but for their width. Of the first server: `state_machine.c` as far as it
repeats `state.c`, and `methods.c`, an unfinished program. Of the matrix programs: the
values of doubles, allocation that fails, `matrix_fill_rand`. The notes are not
programs. Full socket buffers, several commands on one connection and clients that
break the protocol otherwise than by closing early are outside the models of the
server.
