CONSTANTS
  NumTests = 2
  Plans <- SequentialPlans
  Faults = {"signal", "api", "delete", "pods", "copy", "suspend"}
SPECIFICATION FairSpec
INVARIANTS
  NothingLeftInCluster
  NoSelfInflictedError
PROPERTIES
  CompletedMeansOver
  EveryTestRuns
CHECK_DEADLOCK FALSE
