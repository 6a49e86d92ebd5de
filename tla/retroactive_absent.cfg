CONSTANTS
  Times = {1, 2, 3, 4, 5}
  Priorities = {1, 2}
  MaxDeletes = 1
SPECIFICATION Spec
INVARIANTS QueueReplaysAlways
CHECK_DEADLOCK FALSE
