SPECIFICATION FairSpec
CONSTANTS
    MaxTx = 2
    MaxBlocks = 5
    MaxReorg = 2
    Confirmations = 2
    MaxFaults = 2
INVARIANTS
    TypeOK
    SuccessIsDeep
    CountedIsReported
PROPERTIES
    KeepsPromise
    WaitEnds
CHECK_DEADLOCK FALSE
