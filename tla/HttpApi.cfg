SPECIFICATION FairSpec
CONSTANTS
    Requests = {r1, r2, r3}
    Clients = {a, b}
    TokenLimit = 2
    IpLimit = 2
    MaxConcurrent = 2
    Window = 3
INVARIANTS TypeOK SlotsCounted MinuteBound
PROPERTY RefusalEnds
