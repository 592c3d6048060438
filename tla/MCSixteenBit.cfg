SPECIFICATION Spec
CONSTANTS
    MaxStall = 2
    Settings <- Each
INVARIANTS
    AbortIffHeld
    HaltedNeverEnters
    NmiOncePerEdge
    NmiAnswered
PROPERTIES
    RolledBack
