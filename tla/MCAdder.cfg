SPECIFICATION Spec
CONSTANTS
    Numbers <- EdgeNumbers
INVARIANTS
    ResultIsRight
    OverflowIsSigned
    CompareOrders
CHECK_DEADLOCK FALSE
