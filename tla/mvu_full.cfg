CONSTANTS
  Arity = 2
  Height = 3
  MinHwLevel = 2
  NodeCount <- FullTree
  ProtectedBase = 0
  WordCount = 2
  Word <- MCWord
  Zero = 0
  Hash <- SumHash
  Invalid = Invalid
  EvictData <- TwoData
  MaxOutstanding = 1
  MaxFaults = 0
  MaxErrors = 0
  Together = FALSE
  OrderLine = TRUE
  OrderIO = TRUE
  IoLine = {}
  CoreWaits = TRUE
SPECIFICATION BootSpec
INVARIANT JunkNeverSeen
