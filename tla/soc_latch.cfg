CONSTANTS
  Arity = 2
  Height = 2
  MinHwLevel = 2
  NodeCount <- TwoLines
  ProtectedBase = 2
  WordCount = 1
  Word <- MCWord
  Zero = 0
  Hash <- SumHash
  Invalid = Invalid
  EvictData <- AllData
  MaxOutstanding = 1
  OrderWrite = FALSE
  OrderTree = FALSE
  OrderIO = TRUE
  IoLine = {}
SPECIFICATION Spec
PROPERTY LatchedAfterResponse
