CONSTANTS
  NumJobs = 2
  Backends = {"slurm", "lsf", "standalone", "runai"}
  Faults = {"timeout", "error", "signal", "suspend", "requeue", "forget", "token"}
SPECIFICATION FairSpec
PROPERTIES
  CompletionMeansOver
  GivesUpOnlyAfterRetries
  EndedJobsHandled
CHECK_DEADLOCK FALSE
