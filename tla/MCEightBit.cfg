SPECIFICATION PartSpec
CONSTANTS
    Models <- Packages
    Kinds <- Programs
INVARIANTS
    NmiOncePerEdge
    NmiAnswered
    IrqHeldIsTaken
    IrqMaskRespected
    RefusalIsHonest
    BreakRunsItsHandler
