CONSTANTS
  Commands = {"declare", "publish", "consume"}
  MayHold0xce = {"Connection.Tune-Ok", "Basic.Publish", "Content.Header", "Content.Body"}
  Splits = {TRUE, FALSE}
  Sizes = {3, 206, 255, 300}
  NameLengths = {0, 1, 206, 255}
  TagLengths = {1, 15, 20}
  MaxDeliveries = 2
SPECIFICATION FairSpec
INVARIANTS TypeOK NoFrameMistaken AnswersInOrder MessageIntact AnswersDecode
PROPERTIES ServedToTheEnd
