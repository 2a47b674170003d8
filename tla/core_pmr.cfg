CONSTANTS
  CountMod = 4
  AddrMod = 16
  Vector <- MCVector
  ResetPc = 0
  Lines <- None
  NmiLines <- None
  PicLevel = TRUE
  DataCycles = 0
  Ops <- PmrOps
  SlotOps <- AluOps
  JumpTargets <- Zero
  NpcWrites <- None
  EpcrWrites <- None
  StatusWrites <- OpenOnly
  TtmrWrites <- PmrTtmr
  TtcrWrites <- None
  RaiseTimes <- One
  JumpInsns <- None
  Quanta <- Three
  SleepTimes <- None
  BreakAddrs <- None
  DataAddrs <- One
  WatchAddrs <- None
  AllowSleep <- Yes
SPECIFICATION Spec
PROPERTIES PcUpdatedFirst
