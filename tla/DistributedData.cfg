SPECIFICATION FairSpec
CONSTANTS
  P = 3
  NumEntities = 3
  Layouts <- MCLayouts
INVARIANTS HoldersAgree AdjacencyExact NoTruncation NoError
PROPERTIES Termination Refinement
