CONSTANTS
  CountMod = 8
  CycleMod = 2
  Quanta <- MCQuanta
  MemCycles <- SomeExtraCycles
  TtmrWrites <- MCTtmrWrites
  TtcrWrites <- NoWrites
  RacyWrites = TRUE
  PastLimit = FALSE
SPECIFICATION FairSpec
INVARIANTS TypeOK MiniFits NoTickInside
PROPERTIES EveryMatchRaisesTick RestartTicks
