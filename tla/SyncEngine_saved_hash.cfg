SPECIFICATION Spec
CONSTANTS
    a = a
    b = b
    None = None
    Label = {a, b}
    Heavy = {}
    Work <- MCWork
    MaxHeight = 4
    Checkpoint = 1
    TsWindow = 1
    ForkIds = {1}
    MaxU64 = 100
    StartHeight = 0
    BatchLimit = 2
    LiveLag = 0
    ShortForkLimit = 2
    FaultSets = {{}}
    MaxFaults = 0
PROPERTY SavedBlockLanded
