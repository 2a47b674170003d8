CONSTANTS
  Epochs <- MCEpochs
  DataOn <- MCOn
  InsnOn <- MCOn
  DataMap <- MCDataMap
  InsnMap <- MCInsnMap
  ElfMap <- MCElfMap
  Fails = Fails
  PageSize = 3
  BufferSize = 2
  NumPages = 2
  Reads <- MCReads
SPECIFICATION FairSpec
INVARIANTS DebugTypeOK OneAnswerEach StoppedMeansStopped StopAfterProgress MemReplyExact
PROPERTIES StepAnswered InterruptAnswered NeverLeftHanging
CHECK_DEADLOCK FALSE
