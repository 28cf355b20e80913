CONSTANTS
  Arity = 2
  Height = 3
  MinHwLevel = 2
  NodeCount <- ShortTree
  ProtectedBase = 0
  WordCount = 2
  Word <- MCWord
  Zero = 0
  Hash <- SumHash
  Invalid = Invalid
  EvictData <- SomeData
  MaxOutstanding = 1
  MaxFaults = 1
  MaxErrors = 2
  Together = FALSE
  OrderLine = TRUE
  OrderIO = TRUE
  IoLine = {}
SPECIFICATION Spec
INVARIANTS DeliveredCorrect PoisonedWhole
