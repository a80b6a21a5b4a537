SPECIFICATION FairSpec
CONSTANTS
    Record = {r1, r2}
    None = None
    Torn = Torn
    Error = Error
    SamePath = FALSE
    FaultKinds = {"mkdir", "write", "rename", "stat", "read", "kill", "power"}
    MaxFaults = 3
INVARIANTS
    TypeOK
    NoHalfRecord
PROPERTIES
    SaveIsThere
    SaveWorks
    ActsAsRegister
    Starts
