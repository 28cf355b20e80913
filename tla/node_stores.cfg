CONSTANTS
  Arity = 2
  Height = 5
  MinHwLevel = 4
  NodeCount <- BinaryTree
  ProtectedBase = 2
  Word <- Bit
  Zero = 0
  Invalid = Invalid
  StoredLevels = 2
  StoredIndices = 2
  Nothing = Nothing
  level2_offset = 16
  level3_offset = 24
  InitLast = 59
  MaxOps = 3
SPECIFICATION MCSpec
INVARIANT IInv
PROPERTIES MapImplemented StoreImplemented RequestsAnswered
CHECK_DEADLOCK FALSE
