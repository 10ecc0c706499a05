SPECIFICATION Spec
CONSTANTS
    N = 4
    Direct = 2
    Lines <- OrphansAround
    Skipped = {2}
    Sources = {"remote", "local"}
    Batch = 2
    Ahead = 2
    MaxAttempts = 3
    Trouble = {"crash", "moved", "cut", "copyfail", "savefail", "mergefail"}
    Rare = {"moved", "cut", "copyfail", "savefail"}
CHECK_DEADLOCK FALSE
INVARIANTS CommittedAreStaged MergedIsWhole
PROPERTIES CommittedKept CheckpointGrows
