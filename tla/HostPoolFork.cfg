SPECIFICATION Spec
CONSTANTS
  NWorkers = 2
  NThreads = 2
  MaxItems = 2
  MaxJobs = 2
  Env = {"fork"}
INVARIANTS JobComplete
CHECK_DEADLOCK FALSE
