CONSTANTS
  Commands = {"publish"}
  MayHold0xce = {}
  Splits = {FALSE}
  Sizes = {300}
  NameLengths = {1}
  TagLengths = {15}
  MaxDeliveries = 0
SPECIFICATION FairSpec
INVARIANTS LongMessageIntact
