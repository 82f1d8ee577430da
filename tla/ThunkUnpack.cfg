SPECIFICATION Spec
CONSTANTS
    Insns <- Unpack
    Seeds = {1, 2}
    Masks <- MCMasks
    OtherLanes <- MCOtherLanes
    RaceMasked = FALSE
INVARIANT
    AsProgrammed
