SPECIFICATION ClockedSpec
CONSTANTS
    MaxTicks = 9
    Interruptible = FALSE
    Models <- Boards
    Kinds <- NmosProgram
INVARIANTS
    ClosedAsStepped
