SPECIFICATION Spec
CONSTANTS
    Parts = {"nmos", "cmos", "wdc"}
    Costs <- Lengths
    EntryCosts <- Entries
    Asked <- Slices
    Limits <- Bounds
    MaxFrames = 3
INVARIANTS
    SliceIsPaid
PROPERTIES
    CallEndsAtItsReturn
