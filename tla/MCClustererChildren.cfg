SPECIFICATION FairSpec
CONSTANTS
    Blocks = {"a", "b", "c", "d", "e", "g"}
    Molecules = {"pair", "any", "ff", "lut", "rom"}
    BlocksOf <- MCBlocksOf
    TypeSeq <- MCTypeSeq
    NumModes <- MCNumModes
    Sites = {"l1", "f1", "k1", "l2", "f2", "k2", "r", "m3", "p", "q"}
    SiteType <- MCSiteType
    SiteMode <- MCSiteMode
    SiteParent <- MCSiteParent
    InnerMode <- MCInnerMode
    Disabled = {"k2", "e3"}
    Placements <- MCPlacements
    LowNets <- MCLowNets
    HighNets <- MCHighNets
    ExtInputs <- MCExtInputs
    CritOrders <- MCCritOrders
    Instances <- MCInstances
    MaxSize = 2
    AllowUnrelated = TRUE
    Top = "top"
    NoSite = "no_site"
    NoBlock = "no_block"
    NoMolecule = "no_molecule"
INVARIANT ChildrenFitMode
