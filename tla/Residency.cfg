SPECIFICATION Spec
CONSTANTS
  NChunks = 6
  Immutable = {0, 1, 2, 3, 5}
  Taken = {3}
  Stack = 4
  NUnits = 2
  NPages = 3
  Ring = 2
  Ahead = 1
  MaxVer = 1
  Operands = {0, 2, 4, 5, 8}
  MaxCalls = 2
  MaxPlaces = 3
  Env = {"regions", "planned"}
INVARIANTS ReadsOwnBytes PoolHasRoom HostKnowsPool FaultServed
CHECK_DEADLOCK FALSE
