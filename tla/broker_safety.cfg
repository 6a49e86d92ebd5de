CONSTANTS
  c1 = c1
  c2 = c2
  c3 = c3
  c4 = c4
  c5 = c5
  qa = qa
  qb = qb
  NoConn = NoConn
  Conns = {c1, c2, c3, c4, c5}
  Names = {qa, qb}
  Requests <- SafetyRequests
  MayClose = {c5}
  Orderly = FALSE
  Locking = TRUE
  MAX_NUM_QUEUE = 2
SPECIFICATION Spec
INVARIANTS TypeOK TurnStable RingMatches OneQueuePerName NoOverrun FifoExactlyOnce Fair CrashOnlyForUndeclared IInv
PROPERTIES ImplementsRoundRobin SubscribedAsAsked
