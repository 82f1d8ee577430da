SPECIFICATION Spec
CONSTANTS
    Texts <- TextsMC
    Jump = 3
    MaxInsns = 4
    Edge = 99
    MaxThunks = 4
    Tries = 2
    Chunks = 3
    Maps = {{1}}
    MaxMaps = 1
    RetLen = 1
    BothFlags = FALSE
    Size = 4
INVARIANT Faithful
CHECK_DEADLOCK FALSE
