SPECIFICATION Spec
CONSTANTS
    Threads = {t1, t2}
    Sites = {a, f, k, u}
    Short = {k}
    Far = {f}
    Unsupported = {u}
    MaxSites = 2
    MaxRuns = 3
    Faults = {"mmap", "mprotect"}
INVARIANTS Performed Survives JumpsHome
PROPERTIES GetsPast
CHECK_DEADLOCK FALSE
