CONSTANTS
  NumPages = 3
  NumFrames = 2
  PteWords <- MCPteWords
  Kinds <- DataKinds
  Modes <- UserMode
  Tables <- MCTables
  TableWrites <- MCTableWrites
  NumSets = 1
  NumWays = 2
  AgeMod = 2
  HasRefill = TRUE
  HasFlush = TRUE
  MatchWrites <- MCMatchWrites
  TransWrites <- MCTransWrites
SPECIFICATION MmuSpec
INVARIANTS TypeOK
PROPERTIES ImplementsPageCache GrantedRepeats
