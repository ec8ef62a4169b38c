CONSTANTS
    N = 4
    MaxRetained = 2
    MaxSpecial = 2
SPECIFICATION Spec
INVARIANTS
    PlanHolds
    RetainedWhileNeeded
    SummaryConsistent
CHECK_DEADLOCK FALSE
