SPECIFICATION Spec
CONSTANTS
  Configs <- MCConfigs
  MaxChecks = 2
INVARIANTS
  PlanPacked
  LaunchedInOrder
  HonestVerdict
PROPERTIES
  ScriptEnds
