SPECIFICATION FairSpec
CONSTANTS
    Views = {{"relay"}, {"lag"}, {"balance"}, {"headers"}, {"retries"},
             {"cycles", "progressed", "up_to_date", "errors"}}
    MaxHeight = 2
    Cap = 3
INVARIANTS
    TypeOK
    RelayNotOverstated
    HeadersLanded
    CyclesAddUp
PROPERTIES
    LagIsShown
    
