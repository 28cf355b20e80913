CONSTANTS
  Arity = 2
  Height = 3
  MinHwLevel = 2
  NodeCount <- ShortTree
  ProtectedBase = 2
  WordCount = 2
  Word <- MCWord
  Zero = 0
  Hash <- SumHash
  Invalid = Invalid
  EvictData <- SomeData
  MaxOutstanding = 2
  MaxFaults = 0
  MaxErrors = 0
  Together = FALSE
  OrderLine = TRUE
  OrderIO = TRUE
  IoLine = {}
SPECIFICATION Spec
INVARIANTS IInv Trust TreeConsistent NoFalseAlarm
