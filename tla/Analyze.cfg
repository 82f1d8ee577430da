SPECIFICATION Spec
CONSTANTS
    Texts <- TextsMC
    Jump = 3
    MaxInsns = 3
    Edge = 9
    MaxThunks = 2
    Tries = 2
    Chunks = 4
    Maps = {{1}}
    MaxMaps = 2
    RetLen = 1
    BothFlags = TRUE
    Size = 4
INVARIANTS FaithfulApart ThunkAlone
PROPERTY Settles
CHECK_DEADLOCK FALSE
