SPECIFICATION Spec
CONSTANTS
    Insns = {"piece", "permute"}
    Narrow = {"piece", "permute"}
    Stray = FALSE
    MaxSteps = 2
INVARIANT Illusion
CHECK_DEADLOCK FALSE
