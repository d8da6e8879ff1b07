CONSTANTS
    Requests = {r1, r2}
    GooglePeriod = 2
    DuckPeriod = 1
    Base = 1
    Doublings = 1
    MaxRetries = 2
SPECIFICATION FairSpec
INVARIANTS
    TypeOK
    QueuesConsistent
PROPERTIES
    CooldownGrows
    BraveStands
    SearchEnds
