SPECIFICATION Spec
CONSTANTS
  NWorkers = 2
  NThreads = 3
  MaxItems = 3
  MaxJobs = 2
  Env = {}
INVARIANTS JobComplete OwnItem
PROPERTIES JobReturns
CHECK_DEADLOCK FALSE
