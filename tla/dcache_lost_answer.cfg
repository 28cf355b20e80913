CONSTANTS
  Tags = 4
  Sets = 1
  Words = 1
  Tag <- MCTag
  Set <- MCSet
  Word <- MCWord
  Lane = {l0}
  IoTag <- FourthTag
  FbSize = 2
  Menu <- DeviceBehindStores
  Faults <- Nothing
  Flushes = FALSE
  Errors = "none"
  MaxOps = 6
SPECIFICATION PromptSpec
PROPERTIES EveryRequestAnswered
CHECK_DEADLOCK FALSE
