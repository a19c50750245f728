SPECIFICATION Spec
CONSTANTS
  KnownTests = {"known"}
  Hooks <- MCHooks
  Docs <- MCDocs
  Outcomes <- MCOutcomes
  TasksPerNode = 2
  Function = "negative"
  Faults = {"install", "submit", "cut", "signal"}
INVARIANTS
  ScriptFits
  ReportsAgree
  ComparisonComplete

  
