CONSTANTS
  Cells = {n1, n2, n3}
  NULL = NULL
  Messages = {ma, mb}
  NoMessage = NoMessage
  MaxSize = 3
SPECIFICATION Spec
INVARIANTS NeverFollowsFreed NothingLeaks Linked IInv
PROPERTIES ImplementsFifo
