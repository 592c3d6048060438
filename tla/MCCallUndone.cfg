SPECIFICATION Spec
CONSTANTS
    MaxStall = 0
    Settings <- Simplest
INVARIANTS
    CallSurvives
