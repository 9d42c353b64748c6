SPECIFICATION FairSpec
CONSTANTS
    Primitives = {"l1", "l2", "f1", "g1", "g2"}
    PbTypeOf <- MCPbTypeOf
    Root = "clb"
    Modes = {"lut", "mem"}
    Lineage <- MCLineage
    Molecules = {"any", "pair", "small"}
    RootTypes <- MCRootTypes
    BlockTypes <- MCBlockTypes
    PlacementAt <- MCPlacementAt
    Forced <- MCForced
    BaseCost <- MCBaseCost
    Nearness <- MCNearness
    NoPrimitive = "none"
    NoMolecule = "nil"
INVARIANTS
    NodeConservation
    AssertionsHold
    OfferIsFree
PROPERTIES
    FailureIsExhaustive
    NeverOfferedTwice
    CallsReturn
    ImplementsPool
