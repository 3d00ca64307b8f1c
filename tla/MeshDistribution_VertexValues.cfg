SPECIFICATION Spec
CONSTANTS
  P = 4
  Fan <- MCFan
  Loose <- MCLoose
  Missing = Missing
  Unset = Unset
  Meshes <- MCMeshes
CHECK_DEADLOCK FALSE
INVARIANTS
  VertexValuesKept
