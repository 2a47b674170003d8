CONSTANTS
  CountMod = 4
  AddrMod = 12
  Vector <- MCVector
  ResetPc = 0
  Lines <- One
  NmiLines <- None
  PicLevel = FALSE
  DataCycles = 1
  Ops <- HostOps
  SlotOps <- AluOps
  JumpTargets <- HostTargets
  NpcWrites <- HostNpcs
  EpcrWrites <- None
  StatusWrites <- HostStatuses
  TtmrWrites <- HostTtmr
  TtcrWrites <- Zero
  RaiseTimes <- One
  JumpInsns <- One
  Quanta <- Two
  SleepTimes <- One
  BreakAddrs <- Four
  DataAddrs <- One
  WatchAddrs <- One
  AllowSleep <- Yes
SPECIFICATION Spec
INVARIANTS TypeOK BudgetSound TickNeverCarried BreakpointNeverSkipped
CHECK_DEADLOCK FALSE
