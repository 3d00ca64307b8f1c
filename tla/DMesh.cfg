SPECIFICATION FairSpec
CONSTANTS
  P = 3
  Meshes <- MCMeshes
  Marks <- MCMarks
INVARIANTS
  Conforming OneIndex ExportWellFormed ExportNumbers
PROPERTIES
  Termination
CHECK_DEADLOCK FALSE
