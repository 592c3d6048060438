SPECIFICATION Spec
CONSTANTS
    Byte = 3
    Data <- Edges
    Words <- EdgeWords
    MaxFrames = 2
INVARIANTS
    WidthsAgree
    PullsMatch
