CONSTANTS
  c1 = c1
  c2 = c2
  c3 = c3
  c4 = c4
  c5 = c5
  qa = qa
  qb = qb
  NoConn = NoConn
  Conns = {c1, c2}
  Names = {qa}
  Requests <- RaceRequests
  MayClose = {}
  Orderly = TRUE
  Locking = FALSE
  MAX_NUM_QUEUE = 2
SPECIFICATION Spec
INVARIANTS OneQueuePerName
