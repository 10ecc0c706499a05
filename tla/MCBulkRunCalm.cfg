SPECIFICATION FairSpec
CONSTANTS
    Keys = {k1}
    MutationKeys = {}
    Uploads = {}
    DerivedKey = k1
    Workers = {w1, w2}
    Ops = {o1}
    None = None
    MaxRetries = 1
    MaxAttempts = 2
    Trouble = {"opend", "pollage", "cancel", "expire", "lineerrors"}
    MaxFaults = 1
CHECK_DEADLOCK FALSE
PROPERTIES EveryRunEnds
