CONSTANTS
  Tags = 3
  Sets = 1
  Words = 1
  Tag <- MCTag
  Set <- MCSet
  Word <- MCWord
  Lane = {l0}
  IoTag <- Nothing
  FbSize = 2
  Menu <- Trapping
  Faults <- Trapped
  Flushes = TRUE
  Errors = "line"
  MaxOps = 3
SPECIFICATION FairSpec
INVARIANT NothingLost
PROPERTY EveryRequestAnswered
CHECK_DEADLOCK FALSE
