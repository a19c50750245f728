CONSTANTS
  NumTests = 3
  MaxJobs = 4
  Scenarios <- PairAndChain
  Faults = {"signal", "submit", "status"}
SPECIFICATION FairSpec
INVARIANTS
  OneLiveJobPerTest
  NothingLeftBehind
PROPERTIES
  EveryTestEventuallyRuns
  ImplementsScenarioExec
CHECK_DEADLOCK FALSE
