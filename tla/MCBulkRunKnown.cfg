SPECIFICATION Spec
CONSTANTS
    Keys = {k1, k2}
    MutationKeys = {}
    Uploads = {}
    DerivedKey = k1
    Workers = {w1, w2}
    Ops = {o1, o2}
    None = None
    MaxRetries = 1
    MaxAttempts = 2
    Trouble = {"expire", "opfail", "opend", "ratelimit", "refuse", "pollage", "lineerrors"}
    MaxFaults = 0
CHECK_DEADLOCK FALSE
SYMMETRY WorkersAndOps
INVARIANTS OpsAreKnown RetryBudget
PROPERTIES IngestNotUndone
