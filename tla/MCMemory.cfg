SPECIFICATION Spec
CONSTANTS
    Proc = {p1, p2}
    Mortal = {p2}
    MemoryId = {1, 2, 3}
    ApprovalId = {a1, a2, a3}
    None = None
    Name <- Names
    Source <- SameSource
    Allowed = {1, 2, 3}
    Observed = {1}
    Summary = {1}
    Operator = {p1}
    Curated = {1, 2}
    Cost <- CostOf
    Budgets <- SmallBudgets
    TaskLimit = 1
    DayLimit = 2
INVARIANTS
    MemoryIsConsistent
    ActivationLimit
PROPERTIES
    ImplementsGovernedMemory
CHECK_DEADLOCK FALSE
