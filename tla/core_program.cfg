CONSTANTS
  CountMod = 4
  AddrMod = 12
  Vector <- MCVector
  ResetPc = 0
  Lines <- One
  NmiLines <- One
  PicLevel = TRUE
  DataCycles = 1
  Ops <- ProgramOps
  SlotOps <- ProgramSlotOps
  JumpTargets <- ProgramTargets
  NpcWrites <- None
  EpcrWrites <- Zero
  StatusWrites <- ProgramStatuses
  TtmrWrites <- ProgramTtmr
  TtcrWrites <- None
  RaiseTimes <- One
  JumpInsns <- None
  Quanta <- ZeroTwo
  SleepTimes <- None
  BreakAddrs <- Four
  DataAddrs <- One
  WatchAddrs <- None
  AllowSleep <- Yes
SPECIFICATION FairSpec
PROPERTIES ImplementsArch AdvanceReturns InterruptTaken
