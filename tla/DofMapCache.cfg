SPECIFICATION FairSpec
CONSTANTS
  P = 3
  Programs <- MCPrograms
  Signature <- MCSignature
CHECK_DEADLOCK FALSE
INVARIANTS
  SpacesAlive SharedByMesh
PROPERTIES
  Termination
