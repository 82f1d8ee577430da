SPECIFICATION Spec
CONSTANTS
  Full = 5
  Half = 3
  Page = 2
  Split = 3
  MaxTrips = 6
  MaxRanges = 2
  Programs <- LoopsFramePointer
  Bounds = {0, 4, 8}
INVARIANT SameMemory
CHECK_DEADLOCK FALSE
