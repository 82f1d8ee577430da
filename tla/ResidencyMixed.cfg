SPECIFICATION Spec
CONSTANTS
  NChunks = 3
  Immutable = {0, 1}
  Taken = {}
  Stack = 2
  NUnits = 2
  NPages = 2
  Ring = 1
  Ahead = 1
  MaxVer = 0
  Operands = {0, 1, 2, 3, 4, 5}
  MaxCalls = 3
  MaxPlaces = 2
  Env = {"planned", "regions", "mixed"}
INVARIANTS PoolHasRoom
CHECK_DEADLOCK FALSE
