---------------------------- MODULE MCStructures ----------------------------
(***************************************************************************)
(* The data structures of the course exercises, for TLC.  A behaviour      *)
(* takes one of them as its subject and gives commands to this one; the    *)
(* others stay as they begin.  (Retroactive, whose assumption TLC is to    *)
(* evaluate, is extended; the others are instances.)                       *)
(***************************************************************************)
EXTENDS Retroactive

VARIABLES
  subject,
  nodes, queues, stacked,                                          \* PersistentStack
  forest, versions, commands,                                      \* PersistentDeque
  searchTree, searchTreeHeld,                                      \* Abb
  treap, treapHeld,                                                \* Treap
  treapMemory, treapVersions,                                      \* PersistentTreap
  heap, heapBag, heapDeleted,                                      \* TreeHeap
  segments, SegTreesList,                                          \* SegmentTree
  splayMemory, splayRoot, splayOther, splayHeld, splayOthers, worn,  \* SplayTree
  certificates, certificateIndex, certificatesHeld,                \* CertificateHeap
  program, n, i, res, t, took, exit,                               \* MatrixProduct
  printed, answer                                                  \* HardcodedFrames

Stacks == INSTANCE PersistentStack WITH MaxNodes <- 6, MaxQueues <- 4
Deques == INSTANCE PersistentDeque WITH Straight <- 16, MaxCommands <- 4
SearchTrees == INSTANCE Abb WITH AllKeys <- {-12, 0, 5, 10, 17}, root <- searchTree, held <- searchTreeHeld
Treaps == INSTANCE Treap WITH AllKeys <- 1..4, Priorities <- 0..2, root <- treap, held <- treapHeld
PersistentTreaps ==
  INSTANCE PersistentTreap WITH AllKeys <- 1..3, Priorities <- 0..1, MaxVersions <- 5,
                                memory <- treapMemory, v <- treapVersions
Heaps ==
  INSTANCE TreeHeap WITH AllKeys <- {-12, 0, 1, 13}, MaxSize <- 7,
                         root <- heap, bag <- heapBag, deleted <- heapDeleted
SegmentTrees == INSTANCE SegmentTree WITH Ends <- {1, 3, 5, 7}, Points <- 0..8, MaxSegments <- 4
SplayTrees ==
  INSTANCE SplayTree WITH AllKeys <- 1..4, Addresses <- 1..4, Careful <- TRUE,
                          memory <- splayMemory, root <- splayRoot, other <- splayOther,
                          held <- splayHeld, others <- splayOthers
Matrices ==
  INSTANCE MatrixProduct WITH Sizes <- {-2, 0, 1, 2, 3}, Algorithms <- -1..2,
                              Clock <- {0, 1, 2} \X {0, 1, 999999}
CertificateHeaps ==
  INSTANCE CertificateHeap WITH Ids <- 1..5, Times <- 1..3,
                                h <- certificates, m <- certificateIndex, held <- certificatesHeld

\* Strings with bytes that look like the end of a frame, up to what one byte can count.
Strings(lengths) == {[x \in 1..len |-> IF x % 3 = 1 THEN 206 ELSE 97] : len \in lengths}
Frames ==
  INSTANCE HardcodedFrames WITH Names <- Strings({0, 7, 206, 255}), Tags <- Strings({1, 15, 255}),
                                Messages <- Strings({0, 1, 206, 300})

Subjects ==
  {"retroactive", "stack", "deque", "search tree", "treap", "persistent treap", "heap",
   "segment tree", "splay tree", "certificates", "matrix", "frames"}

InitOfAll ==
  /\ subject \in Subjects
  /\ Init /\ Stacks!Init /\ Deques!Init /\ SearchTrees!Init /\ Treaps!Init
  /\ PersistentTreaps!Init /\ Heaps!Init /\ SegmentTrees!Init /\ SplayTrees!Init
  /\ CertificateHeaps!Init /\ Matrices!Init /\ Frames!Init

stackVars == << nodes, queues, stacked >>
dequeVars == << forest, versions, commands >>
searchTreeVars == << searchTree, searchTreeHeld >>
treapVars == << treap, treapHeld >>
persistentTreapVars == << treapMemory, treapVersions >>
heapVars == << heap, heapBag, heapDeleted >>
segmentTreeVars == << segments, SegTreesList >>
splayTreeVars == << splayMemory, splayRoot, splayOther, splayHeld, splayOthers, worn >>
certificateVars == << certificates, certificateIndex, certificatesHeld >>
matrixVars == << program, n, i, res, t, took, exit >>
frameVars == << printed, answer >>

\* Everything but the subject s stays as it is.
Only(s) ==
  /\ subject = s /\ UNCHANGED subject
  /\ IF s = "retroactive" THEN TRUE ELSE UNCHANGED vars
  /\ IF s = "stack" THEN TRUE ELSE UNCHANGED stackVars
  /\ IF s = "deque" THEN TRUE ELSE UNCHANGED dequeVars
  /\ IF s = "search tree" THEN TRUE ELSE UNCHANGED searchTreeVars
  /\ IF s = "treap" THEN TRUE ELSE UNCHANGED treapVars
  /\ IF s = "persistent treap" THEN TRUE ELSE UNCHANGED persistentTreapVars
  /\ IF s = "heap" THEN TRUE ELSE UNCHANGED heapVars
  /\ IF s = "segment tree" THEN TRUE ELSE UNCHANGED segmentTreeVars
  /\ IF s = "splay tree" THEN TRUE ELSE UNCHANGED splayTreeVars
  /\ IF s = "certificates" THEN TRUE ELSE UNCHANGED certificateVars
  /\ IF s = "frames" THEN TRUE ELSE UNCHANGED frameVars
  /\ IF s = "matrix" THEN TRUE ELSE UNCHANGED matrixVars

NextOfOne ==
  \/ Only("retroactive") /\ InsertIn
  \/ Only("retroactive") /\ InsertOut
  \/ Only("retroactive") /\ DeleteAt
  \/ Only("stack") /\ Stacks!PushOnStack
  \/ Only("stack") /\ Stacks!Enqueue
  \/ Only("stack") /\ Stacks!Dequeue
  \/ Only("deque") /\ Deques!OnFront
  \/ Only("deque") /\ Deques!OnBack
  \/ Only("deque") /\ Deques!StraightPush
  \/ Only("deque") /\ Deques!OffFront
  \/ Only("deque") /\ Deques!OffBack
  \/ Only("search tree") /\ SearchTrees!Insert
  \/ Only("search tree") /\ SearchTrees!Delete
  \/ Only("treap") /\ Treaps!Insert
  \/ Only("treap") /\ Treaps!Delete
  \/ Only("persistent treap") /\ PersistentTreaps!Insert
  \/ Only("persistent treap") /\ PersistentTreaps!Delete
  \/ Only("heap") /\ Heaps!Insert
  \/ Only("heap") /\ Heaps!DeleteMax
  \/ Only("segment tree") /\ SegmentTrees!Insert
  \/ Only("splay tree") /\ SplayTrees!Insert
  \/ Only("splay tree") /\ SplayTrees!Search
  \/ Only("splay tree") /\ SplayTrees!MinCommand
  \/ Only("splay tree") /\ SplayTrees!Delete
  \/ Only("splay tree") /\ SplayTrees!Split
  \/ Only("splay tree") /\ SplayTrees!PutAside
  \/ Only("splay tree") /\ SplayTrees!Join
  \/ Only("certificates") /\ CertificateHeaps!Build
  \/ Only("certificates") /\ CertificateHeaps!Insert
  \/ Only("certificates") /\ CertificateHeaps!DeleteMin
  \/ Only("certificates") /\ CertificateHeaps!Update
  \/ Only("matrix") /\ Matrices!StartTest
  \/ Only("matrix") /\ Matrices!Run
  \/ Only("matrix") /\ Matrices!Main
  \/ Only("frames") /\ Frames!PrintSize
  \/ Only("frames") /\ Frames!AnswerDeclare
  \/ Only("frames") /\ Frames!AnswerConsume
  \/ Only("frames") /\ Frames!AnswerDelivery

allVars ==
  << subject, vars, stackVars, dequeVars, searchTreeVars, treapVars, persistentTreapVars,
     heapVars, segmentTreeVars, splayTreeVars, certificateVars, matrixVars, frameVars >>

SpecOfAll == InitOfAll /\ [][NextOfOne]_allVars
-----------------------------------------------------------------------------
\* (A structure is looked at when it is the subject; else it is as it begins.)
Of(s, property) == subject = s => property

\* Every version of the stacks, the queue and the deque answers with its own elements.
SequencesAnswer ==
  /\ Of("stack", Stacks!StacksAnswer /\ Stacks!QueuesAnswer)
  /\ Of("deque", Deques!DequesAnswer /\ Deques!FewSteps)

\* Nodes of one depth jump to one depth, in the stacks and in the deque.
JumpsAlike == Of("stack", Stacks!JumpsAlike) /\ Of("deque", Deques!JumpsAlike)

\* Search trees have the keys they were given, in every version and after every rotation.
SetsAnswer ==
  /\ Of("search tree", SearchTrees!SetAnswers)
  /\ Of("treap", Treaps!SetAnswers)
  /\ Of("persistent treap", PersistentTreaps!VersionsAnswer)
  /\ Of("splay tree", SplayTrees!SetAnswers)

\* The treap by priority, the heap of keys and that of certificates have nothing that
\* should be above a node below it, and the heaps have what was put in and not taken.
HeapOrders ==
  /\ Of("treap", Treaps!HeapOrder)
  /\ Of("heap", Heaps!HeapOrder)
  /\ Of("certificates", CertificateHeaps!HeapOrder)

\* The picture of the search tree fits its grid, and that of the heap does until something
\* is deleted from it; but a heap's 0 has no width, and its leftmost key passes for the least.
PicturesFit == Of("search tree", SearchTrees!PictureFits) /\ Of("heap", Heaps!PictureFits)

\* Segment trees name the segments that contain a point, and stay few.
StabbingAnswers == Of("segment tree", SegmentTrees!StabbingAnswers /\ SegmentTrees!FewTrees)

\* The two matrix products and their times are what the test takes them for.
SameSums == Of("matrix", Matrices!SameSums)

\* The constant frames are those that make_hardcoded builds, and a client can take apart
\* what the first server builds.
FramesRight == Of("frames", Frames!FramesRight)
=============================================================================
