CONSTANTS
  c1 = c1
  c2 = c2
  c3 = c3
  c4 = c4
  c5 = c5
  qa = qa
  qb = qb
  NoConn = NoConn
  Conns = {c1, c2, c4}
  Names = {qa}
  Requests <- CloseRequests
  MayClose = {c4}
  Orderly = TRUE
  Locking = TRUE
  MAX_NUM_QUEUE = 1
SPECIFICATION FairSpec
PROPERTIES CloseEndsConsumer
