SPECIFICATION FairSpec
CONSTANT MaxSignals = 2
CHECK_DEADLOCK FALSE
INVARIANTS
  NoThreadIsReplaced
  ButtonsCatchUp
PROPERTIES
  StopReturns
