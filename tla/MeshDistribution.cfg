SPECIFICATION FairSpec
CONSTANTS
  P = 4
  Fan <- MCFan
  Loose <- MCLoose
  Missing = Missing
  Unset = Unset
  Meshes <- MCMeshes
CHECK_DEADLOCK FALSE
INVARIANTS
  CellsArrive OneHome AdjacencyComplete ParcelsFit
PROPERTIES
  Termination
