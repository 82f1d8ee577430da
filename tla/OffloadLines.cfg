SPECIFICATION Spec
CONSTANTS
    LastPage = 9
    Mapped = {0, 1, 2, 3, 4, 5, 6}
    Stored = {4}
    Shared = {3}
    ChunkPages = 3
    Regions <- Long
    WbMax = 2
    Shadows = 2
    MaxRuns = 1
    MaxStores = 0
    MaxOthers = 1
    MaxProcs = 1
    Faults = {}
PROPERTY OthersLost
CHECK_DEADLOCK FALSE
