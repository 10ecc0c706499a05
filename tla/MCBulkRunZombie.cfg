SPECIFICATION Spec
CONSTANTS
    Keys = {k1}
    MutationKeys = {}
    Uploads = {u1}
    DerivedKey = k1
    Workers = {w1, w2}
    Ops = {o1, o2}
    None = None
    MaxRetries = 1
    MaxAttempts = 2
    Trouble = {"opfail", "crash", "timeout", "lapse", "throw"}
    MaxFaults = 2
CHECK_DEADLOCK FALSE
SYMMETRY WorkersAndOps
INVARIANTS CompletedIsMerged OneActiveRun
