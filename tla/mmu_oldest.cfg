CONSTANTS
  NumPages = 3
  NumFrames = 2
  PteWords <- MCPteWords
  Kinds <- DataKinds
  Modes <- UserMode
  Tables <- MCTables
  TableWrites <- MCTableWrites
  NumSets = 1
  NumWays = 2
  AgeMod = 4
  HasRefill = TRUE
  HasFlush = TRUE
  MatchWrites <- None
  TransWrites <- None
SPECIFICATION MmuSpec

PROPERTIES NewestKept
