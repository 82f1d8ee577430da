SPECIFICATION Spec
CONSTANTS
    LastPage = 9
    Mapped = {0, 1, 2, 3, 4, 5, 6}
    Stored = {4}
    Shared = {3}
    ChunkPages = 3
    Regions <- Single
    WbMax = 2
    Shadows = 2
    MaxRuns = 2
    MaxStores = 1
    MaxOthers = 1
    MaxProcs = 2
    Faults = {"die", "restart"}
INVARIANTS
    PhaseEffect
CHECK_DEADLOCK FALSE
