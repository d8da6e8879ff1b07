CONSTANTS
    Requests = {q1, q2}
    PagesMax = 2
    Concurrency = 1
SPECIFICATION FairSpec
INVARIANTS TypeOK SpanPerTerminal NoStrayTasks GroundedInPages AllConsistent
PROPERTIES StreamSpec RequestsEnd
CHECK_DEADLOCK FALSE
