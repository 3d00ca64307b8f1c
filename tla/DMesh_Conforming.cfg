SPECIFICATION FairSpec
CONSTANTS
  P = 2
  Meshes <- ChainMeshes
  Marks <- ChainMarks
INVARIANTS
  Conforming
CHECK_DEADLOCK FALSE
