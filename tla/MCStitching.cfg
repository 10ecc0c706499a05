\* Results of up to Longest lines and some longer ones, memory for one parent and one orphan,
\* two buckets, three attempts.
SPECIFICATION Spec
CONSTANTS
    Lines <- MCLines
    Files <- MCFiles
    Ids <- MCIds
    Bucket <- MCBucket
    Buckets = 2
    MaxParents = 1
    MaxOrphans = 1
    MaxAttempts = 3
    Longest = 3
CHECK_DEADLOCK FALSE
INVARIANTS EveryLineAnswered ParentsFirst MemoryBounded NothingSkippedIsLost
PROPERTIES ImplementsContract
