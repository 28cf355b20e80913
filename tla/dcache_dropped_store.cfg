CONSTANTS
  Tags = 2
  Sets = 1
  Words = 1
  Tag <- MCTag
  Set <- MCSet
  Word <- MCWord
  Lane = {l0}
  IoTag <- Nothing
  FbSize = 2
  Menu <- Conflict
  Faults <- Nothing
  Flushes = TRUE
  Errors = "none"
  MaxOps = 4
SPECIFICATION Spec
INVARIANTS LoadsSeeStores
CHECK_DEADLOCK FALSE
