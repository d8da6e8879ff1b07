CONSTANTS
    Requests = {q1}
    PagesMax = 3
    Concurrency = 2
SPECIFICATION Spec
INVARIANT EndsWithTerminal
CHECK_DEADLOCK FALSE
