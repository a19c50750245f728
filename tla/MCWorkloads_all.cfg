SPECIFICATION FairRunSpec
CONSTANTS
  None = None
  Window = 2
  LateFrom = 2
  LateTo = 3
  LateEnough = 2
  Configs <- All
  GpusPerNode = 8
  Retries = 2
  Mishaps = {"crash", "etcd", "stubborn", "pip", "matgen", "cut", "status"}
INVARIANTS
  HonestVerdict
  ResultsOfSuccess
  NothingLeftOver
PROPERTIES
  ScriptEnds
