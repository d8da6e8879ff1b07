CONSTANTS
    Clients = {c1, c2}
    Keys = {k1}
    Values = {"ok", "failed"}
    Versions = {1, 2}
    TTL = 2
    MaxHops = 2
    Period = 2
    Burst = 1
SPECIFICATION FairSpec
INVARIANT
    TypeOK
PROPERTIES
    ServedFresh
    Polite
    FetchEnds
