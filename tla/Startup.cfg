SPECIFICATION FairSpec
CONSTANTS
    MaxOdd = 2
    MaxOutages = 3
INVARIANTS
    TypeOK
    LoopIsEquipped
    FailureIsNamed
PROPERTIES
    Recovers
