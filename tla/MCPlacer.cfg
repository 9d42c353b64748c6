CONSTANTS
    NX = 2
    NY = 3
    NumTypes = 2
    IoType = 1
    EmptyType = 0
    IoCapacity = 1
    CellType <- MCCellType
    Offset <- MCOffset
    LegalPos <- MCLegalPos
    Blocks = {1, 2, 3, 4, 5}
    BlockType <- MCBlockType
    Macros <- MCMacros
    PadLocTypes = {"RANDOM", "USER"}
    PadFile <- MCPadFile
    NetPins <- MCNetPins
    SMALL_NET = 4
    Crossing <- MCCrossing
    Delay <- MCDelay
    Criticalities <- MCCriticalities
    BbWeight = 1
    TdWeight = 1
SPECIFICATION CostSpec
INVARIANTS
    GridExact
    MacrosIntact
    FreeListExact
    CostsExact
