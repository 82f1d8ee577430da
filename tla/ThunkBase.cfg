SPECIFICATION Spec
CONSTANTS
    Insns <- OnRax
    Seeds = {1, 2}
    Masks <- MCMasks
    OtherLanes <- MCOtherLanes
    RaceMasked = FALSE
INVARIANT
    AsProgrammed
