CONSTANTS
  Tags = 3
  Sets = 2
  Words = 2
  Tag <- MCTag
  Set <- MCSet
  Word <- MCWord
  Lane = {l0, l1}
  IoTag <- ThirdTag
  FbSize = 2
  Menu <- Mixed
  Faults <- Nothing
  Flushes = FALSE
  Errors = "none"
  MaxOps = 4
SPECIFICATION Spec
INVARIANTS WellFormed LoadsSeeStores NothingLost CheckedOutputFresh
PROPERTY FenceFlushes
CHECK_DEADLOCK FALSE
