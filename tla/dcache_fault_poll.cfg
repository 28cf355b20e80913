CONSTANTS
  Tags = 1
  Sets = 2
  Words = 2
  Tag <- MCTag
  Set <- MCSet
  Word <- MCWord
  Lane = {l0}
  IoTag <- Nothing
  FbSize = 2
  Menu <- LinesOfSets
  Faults <- LastWord
  Flushes = FALSE
  Errors = "none"
  MaxOps = 5
SPECIFICATION Spec
INVARIANTS NothingLost
CHECK_DEADLOCK FALSE
