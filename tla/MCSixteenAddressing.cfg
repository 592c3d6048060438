SPECIFICATION Spec
CONSTANTS
    B = 4
    Reaches <- Packages
    Starts <- Edges
    IndexValues <- IndexEdges
    Banks <- DataBanks
    DirectPages <- Directs
INVARIANTS
    DataIsNamed
    EmulationAddressesAlike
    OutputsTell
    ArrivesWhereDecoded
    CallsComeBack
    CyclesAsPrinted
