SPECIFICATION Spec
CONSTANTS
    Keys = {k1}
    MutationKeys = {}
    Uploads = {}
    DerivedKey = k1
    Workers = {w1, w2}
    Ops = {o1, o2}
    None = None
    MaxRetries = 1
    MaxAttempts = 2
    Trouble = {"opfail"}
    MaxFaults = 0
CHECK_DEADLOCK FALSE
INVARIANTS PendingRunHasJob
