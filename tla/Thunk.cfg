SPECIFICATION Spec
CONSTANTS
    Insns <- MCInsns
    Seeds = {1, 2}
    Masks <- MCMasks
    OtherLanes <- MCOtherLanes
    RaceMasked = FALSE
INVARIANTS
    AsProgrammed
    WithinOperand
PROPERTY
    Returns
