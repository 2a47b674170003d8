CONSTANTS
  NumPages = 2
  NumFrames = 3
  PteWords <- MCPteWords
  Kinds <- FetchKinds
  Modes <- BothModes
  NumSets = 1
  NumWays = 1
  AgeMod = 1
  HasRefill = TRUE
  HasFlush = FALSE
  MatchWrites <- Nothing
  TransWrites <- Nothing
  Tables <- MCTables
  TableWrites <- Remaps
  PageWords = 1
  CacheLines = 2
  CacheOn = TRUE
  Block = 2
  Legal = {"add", "jump"}
  Unsupported = {"cust"}
  Illegal = {"none"}
SPECIFICATION FetchSpec
PROPERTIES ShortcutAgrees
