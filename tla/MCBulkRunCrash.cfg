SPECIFICATION Spec
CONSTANTS
    Keys = {k1, k2}
    MutationKeys = {k2}
    Uploads = {}
    DerivedKey = k1
    Workers = {w1, w2}
    Ops = {o1, o2}
    None = None
    MaxRetries = 1
    MaxAttempts = 2
    Trouble = {"crash", "opend", "ratelimit", "pollage"}
    MaxFaults = 2
CHECK_DEADLOCK FALSE
SYMMETRY WorkersAndOps
INVARIANTS RunningOpIsWatched PendingRunHasJob
PROPERTIES OpNotReplaced
