SPECIFICATION FairSpec
CONSTANTS
    N = 1
    Versions = 2
    Concurrency = 2
    Late = late
    Slots = {b1, b2}
    None = none
    MaxItems = 1
    MaxRetries = 2
    Trouble = {"refuse", "throw", "crash", "timeout", "failed", "cancelled", "edit", "backfill", "sync", "budget"}
    MaxFaults = 1
INVARIANTS OneOrchestratedBatch
PROPERTIES EveryBatchEnds ContentIsEmbedded
