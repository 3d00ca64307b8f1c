SPECIFICATION Spec
CONSTANTS
  Jobs = {1, 2}
  Programs <- MCPrograms
  Sizes <- MCSizes
  SizeOf <- MCSizeOf
  ParamSize <- MCParamSize
  MaxTime = 1
  MaxRuns = 2
INVARIANTS
  LoadedIsWritten Dense OriginKept
CHECK_DEADLOCK FALSE
