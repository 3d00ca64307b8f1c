SPECIFICATION FairSpec
CONSTANTS
  P = 3
  Meshes <- MCMeshes
  Draws <- MCDraws
INVARIANTS
  SharedExact QuestionsFit
PROPERTIES
  Termination Refinement
