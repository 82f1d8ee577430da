SPECIFICATION Spec
CONSTANTS
    Insns = {"lane", "move", "compare", "ternlog", "blend", "shift", "permute", "muleven", "lanemove", "piece", "scalar", "extend", "gather", "mask", "movdq", "comis", "scalarcvt", "convert", "insertps"}
    Narrow = {"lane", "move", "ternlog", "blend", "shift", "muleven", "lanemove"}
    Stray = FALSE
    MaxSteps = 2
INVARIANTS Illusion TouchesOwn
CHECK_DEADLOCK FALSE
