SPECIFICATION Spec
CONSTANTS
    B = 4
    Reaches <- Packages
    Starts <- Edges
INVARIANTS
    WritesAreNamed
    SparesAreHarmless
    ArrivesWhereDecoded
    CyclesAsPrinted
