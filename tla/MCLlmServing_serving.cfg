CONSTANTS
  Configs <- AllConfigs
  MaxChecks = 1
  Faults = {"crash", "stubborn", "nodes", "bench", "kill"}
SPECIFICATION FairSpec
INVARIANTS
  NoServerLeft
  AdmittedServes
PROPERTIES
  ScriptEnds
CHECK_DEADLOCK FALSE
