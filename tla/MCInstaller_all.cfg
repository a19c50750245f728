CONSTANTS
  Items <- Apart
  Scenarios <- Some
  Systems <- Both
  Commands = {"install", "uninstall"}
  Workers = 2
  Faults = {"command", "write_error", "prerequisites"}
  MaxFailures = 2
  MaxCrashes = 1
SPECIFICATION FairSpec
INVARIANTS
  SuccessIsTrue
  NothingHalfMade
  FailuresStayApart
PROPERTIES
  RetriesSucceed
