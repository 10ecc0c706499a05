SPECIFICATION FairSpec
CONSTANTS
    States = {1, 2}
    Callbacks = {1, 2}
    Requests = {1, 2}
    Checks = {k1}
    MaxInstallations = 2
    MaxAttempts = 2
    None = None
    Events = {"crash", "stateexpires", "twice", "payload", "mark", "forget"}
    MaxEvents = 1
CHECK_DEADLOCK FALSE
INVARIANTS StateUsedOnce WipedOnce AnswerIsKept
PROPERTIES DeadTokenNoticed
