CONSTANTS
  a = a
  b = b
  p = p
  c1 = c1
  c2 = c2
  NoWord = NoWord
  Cores <- TwoCores
  TaskWords <- Task
  HandlerWords <- Handler
  PteWords <- Pte
  Modulus = 2
  MaxEvents = 6
SPECIFICATION FairSpec
INVARIANTS ExclusiveTypeOK
PROPERTIES ImplementsAtomic SequencesEnd
CHECK_DEADLOCK FALSE
