CONSTANTS
  Arity = 2
  Height = 2
  MinHwLevel = 2
  NodeCount <- TwoLines
  ProtectedBase = 0
  WordCount = 2
  Word <- MCWord
  Zero = 0
  Hash <- SumHash
  Invalid = Invalid
  EvictData <- OneData
  MaxOutstanding = 1
  OrderWrite = TRUE
  OrderTree = FALSE
  OrderIO = TRUE
  IoLine = {}
SPECIFICATION FairSpec
PROPERTIES ContractKept ReadsAnswered WriteBacksLeave
