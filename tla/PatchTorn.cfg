SPECIFICATION Spec
CONSTANTS
    Threads = {t1, t2}
    Sites = {a, f, k, u}
    Short = {k}
    Far = {f}
    Unsupported = {u}
    MaxSites = 2
    MaxRuns = 3
    Faults = {"torn"}
INVARIANT Performed
CHECK_DEADLOCK FALSE
