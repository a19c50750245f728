CONSTANTS
  NumNodes = 3
  Configs <- Several
  MaxBroken = 1
  Faults = {"environment", "worker"}
SPECIFICATION FairSpec
INVARIANTS
  StartedInOrder
  FailedNodeFailsRun
PROPERTIES
  LateErrorsIgnored
  EveryNodeExits
CHECK_DEADLOCK FALSE
