CONSTANTS
  W = 4
  MaxTerms = 2
  MaxChanged = 2
  Setups <- MCSetups
  Words <- MCWords
  Operands <- MCOperands
SPECIFICATION Spec
INVARIANTS InsnTypeOK OperandsUsable ListingTruthful MacIsSum
PROPERTIES ArithmeticExact SavedStateExact AccessExact UserConfined RegistersKeep FpFlagsTell
CHECK_DEADLOCK FALSE
