CONSTANTS
    Calls = {c1, c2}
    PagesMax = 2
    Costs = {0, 1}
SPECIFICATION Spec
INVARIANTS
    TypeOK
    ProgressInOrder
    ListSinceStart
    Accounted
CHECK_DEADLOCK FALSE
