SPECIFICATION Spec
CONSTANTS
    Requests = {r1, r2}
    Clients = {a, b}
    TokenLimit = 2
    IpLimit = 2
    MaxConcurrent = 2
    Window = 2
INVARIANT SlotsAreLive
