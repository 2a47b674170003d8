CONSTANTS
  NumPages = 2
  NumFrames = 3
  PteWords <- MCPteWords
  Kinds <- FetchKinds
  Modes <- BothModes
  NumSets = 1
  NumWays = 1
  AgeMod = 1
  HasRefill = TRUE
  HasFlush = FALSE
  MatchWrites <- Nothing
  TransWrites <- Nothing
  Tables <- MCTables
  TableWrites <- Nothing
  PageWords = 1
  CacheLines = 2
  CacheOn = TRUE
  Block = 2
  Legal = {"add"}
  Unsupported = {"cust"}
  Illegal = {"none"}
SPECIFICATION FetchSpec
INVARIANTS FetchTypeOK HalfLineReported
PROPERTIES ImplementsInsnMemory
