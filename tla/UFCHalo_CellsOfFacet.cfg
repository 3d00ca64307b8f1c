SPECIFICATION Spec
CONSTANTS
  P = 3
  Fan <- MCFan
  Spaces <- MCSpaces
CHECK_DEADLOCK FALSE
INVARIANTS
  CellsOfFacet
