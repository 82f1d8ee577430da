SPECIFICATION Spec
CONSTANTS
  Full = 5
  Half = 3
  Page = 2
  Split = 3
  MaxTrips = 6
  MaxRanges = 2
  Programs <- Loops
  Bounds = {0, 2, 8}
INVARIANTS TripsCounted SameMemory SameRegisters
PROPERTY Leaves
CHECK_DEADLOCK FALSE
