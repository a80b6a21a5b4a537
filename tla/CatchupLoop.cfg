SPECIFICATION FairSpec
CONSTANTS
    MaxU64 = 6
    MaxRetries = 7
CHECK_DEADLOCK FALSE
INVARIANTS
    ExactCover
    SizeFollowsLag
PROPERTIES
    BackoffBounded
    Terminates
