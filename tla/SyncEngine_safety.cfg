SPECIFICATION Spec
CONSTANTS
    a = a
    b = b
    None = None
    Label = {a, b}
    Heavy = {}
    Work <- MCWork
    MaxHeight = 4
    Checkpoint = 1
    TsWindow = 1
    ForkIds = {1, 2}
    MaxU64 = 100
    StartHeight = 2
    BatchLimit = 2
    LiveLag = 0
    ShortForkLimit = 2
    FaultSets = {{"retryable", "hard", "lost", "timeout", "drop", "revert", "save", "crash"}}
    MaxFaults = 2
SYMMETRY Symmetry
INVARIANTS
    TypeOK
    BatchAnchored
    SavedNotAhead
    NoRepeatedAttempt
    VerifiedStays
PROPERTY KeepsLedger
