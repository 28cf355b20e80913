CONSTANTS
  Arity = 2
  Height = 2
  MinHwLevel = 2
  NodeCount <- TwoLines
  ProtectedBase = 0
  WordCount = 2
  Word <- MCWord
  Zero = 0
  Hash <- SumHash
  Invalid = Invalid
  EvictData <- OneData
  MaxOutstanding = 1
  OrderWrite = FALSE
  OrderTree = FALSE
  OrderIO = TRUE
  IoLine = {}
SPECIFICATION Spec
INVARIANT ReadsNeverFault
