SPECIFICATION Spec
CONSTANTS
    a = a
    b = b
    None = None
    Label = {a, b}
    Heavy = {b}
    Work <- MCWork
    MaxHeight = 4
    Checkpoint = 2
    TsWindow = 1
    ForkIds = {1, 2}
    MaxU64 = 100
    StartHeight = 0
    BatchLimit = 1
    LiveLag = 0
    ShortForkLimit = 1
    FaultSets = {{"retryable", "hard", "lost", "timeout", "drop", "revert", "save", "crash"}}
    MaxFaults = 1
INVARIANTS
    RangeSafe
    ForkIsThisAttempts
