SPECIFICATION SizingFairSpec
CONSTANTS
    Setups <- MCSetups
    BlockTypes = {"io", "clb", "memory"}
    IOType = "io"
    FillType = "clb"
    MaxShort = 13
INVARIANTS
    SizeIsTight
    SmallestFits
PROPERTIES
    SizingEnds
