CONSTANTS
  Ids = {1, 2, 3, 4}
  Built = {2, 4}
  Positions = {0, 2, 6, 14}
  Speeds = {0, 1, 2}
  Commands = {"insert", "advance", "change", "delete"}
  AfterDelete = FALSE
  MaxTime = 4
  MaxChanges = 1
SPECIFICATION Spec
INVARIANTS TypeOK MaxIsMaximum Certified FirstExpiryFirst MeetingsOnce
PROPERTIES NeverBack
CHECK_DEADLOCK FALSE
