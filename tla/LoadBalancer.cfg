SPECIFICATION FairSpec
CONSTANTS
  P = 3
  Base = 2
  Digits = 3
  Width = 65536
  Inputs <- MCInputs
INVARIANTS
  SortedOrder RingFits PartsKeptWhole
PROPERTIES
  Termination
CHECK_DEADLOCK FALSE
