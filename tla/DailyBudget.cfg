CONSTANTS
    Callers = {c1, c2, c3}
    Roles = {synthesis, expansion}
    NoRole = NoRole
    Budget = 3
    MaxCost = 2
    MaxDay = 1
    Durable = TRUE
SPECIFICATION Spec
INVARIANTS BudgetTypeOK SpendBounded Reserved
PROPERTY AppendOnly
