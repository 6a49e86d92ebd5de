CONSTANTS
  Ids = {1, 2}
  Built = {2}
  Positions = {0, 2, 6}
  Speeds = {0, 1, 2}
  Commands = {"advance", "delete"}
  AfterDelete = TRUE
  MaxTime = 4
  MaxChanges = 0
SPECIFICATION Spec
INVARIANTS MaxIsMaximum
