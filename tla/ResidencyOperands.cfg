SPECIFICATION Spec
CONSTANTS
  NChunks = 4
  Immutable = {0, 1, 2}
  Taken = {}
  Stack = 3
  NUnits = 2
  NPages = 3
  Ring = 2
  Ahead = 1
  MaxVer = 0
  Operands = {0, 1, 2, 3, 4, 5, 6, 7}
  MaxCalls = 3
  MaxPlaces = 2
  Env = {"planned"}
INVARIANT OperandsPlaced
CHECK_DEADLOCK FALSE
