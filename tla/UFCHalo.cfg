SPECIFICATION FairSpec
CONSTANTS
  P = 3
  Fan <- MCFan
  Spaces <- MCSpaces
CHECK_DEADLOCK FALSE
INVARIANTS
  NumbersAgree SameAgain PatternExact HaloExact 
PROPERTIES
  Termination
