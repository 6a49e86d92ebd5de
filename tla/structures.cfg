SPECIFICATION SpecOfAll
CONSTANTS
  Times = {1, 2, 3, 4, 5}
  Priorities = {1, 2}
  MaxDeletes = 2
INVARIANTS
  Replays
  CountersRight
  SequencesAnswer
  JumpsAlike
  SetsAnswer
  HeapOrders
  PicturesFit
  StabbingAnswers
  SameSums
  FramesRight
CHECK_DEADLOCK FALSE
