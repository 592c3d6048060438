SPECIFICATION Spec
CONSTANTS
    Bank = 4
    Page = 2
    Budgets <- SliceBudgets
    MaxAborts = 1
INVARIANTS
    MoveIsExact
    RegistersTell
PROPERTIES
    MoveEnds
CHECK_DEADLOCK FALSE
