CONSTANTS
  CountMod = 8
  CycleMod = 4
  Quanta <- MCQuanta
  MemCycles <- NoExtraCycles
  TtmrWrites <- MCTtmrWrites
  TtcrWrites <- MCTtcrWrites
  RacyWrites = FALSE
  PastLimit = FALSE
SPECIFICATION Spec
PROPERTIES ImplementsEager
