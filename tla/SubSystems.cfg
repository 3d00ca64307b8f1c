SPECIFICATION Spec
CONSTANTS
  Backends = {"petsc", "zoltan", "trilinos"}
  MaxConsumers = 4
  MaxWorld = 8
INVARIANTS HostKeepsMPI CommFreedBeforeMPI SemaphoreLifetime AgreedGroups
CHECK_DEADLOCK FALSE
