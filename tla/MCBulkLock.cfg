\* Three orchestrators of one shop, two of them punctual: the third outlives its
\* lease, and its commands execute late or fail.
SPECIFICATION FairSpec
CONSTANTS
    Jobs = {j1, j2, j3}
    Free = Free
    Lease = 5
    Refresh = 2
    Delay = 1
    Punctual = {j1, j2}
CHECK_DEADLOCK FALSE
INVARIANTS MutualExclusion
PROPERTIES ImplementsMutex AbandonedKeyExpires OnlyHolderTouches
