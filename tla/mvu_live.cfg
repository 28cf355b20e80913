CONSTANTS
  Arity = 2
  Height = 3
  MinHwLevel = 2
  NodeCount <- ShortTree
  ProtectedBase = 2
  WordCount = 1
  Word <- MCWord
  Zero = 0
  Hash <- SumHash
  Invalid = Invalid
  EvictData <- AllData
  MaxOutstanding = 2
  MaxFaults = 0
  MaxErrors = 2
  Together = FALSE
  OrderLine = TRUE
  OrderIO = TRUE
  IoLine = {0}
SPECIFICATION FairSpec
PROPERTIES ReadsAnswered EvictionsFolded
