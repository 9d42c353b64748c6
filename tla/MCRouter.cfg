SPECIFICATION FairSpec
CONSTANTS
    Nodes = {"A", "B", "a1", "a2", "b", "x", "y", "z", "p1", "p2", "p3", "t", "S", "T"}
    Type <- MCType
    Capacity <- MCCapacity
    Graphs <- MCGraphs
    Bends <- MCBends
    Terminals <- MCTerminals
    Global = {3}
    Box <- MCBox
    Classes <- MCClasses
    Leftover = {"a2"}
    BaseCost <- MCBaseCost
    BendCost = 1
    FirstPresFac = 1
    InitialPresFac = 2
    PresFacMult = 2
    PresFacCap = 1000
    AccFac = 1
    MaxIterations = 3
    HUGE = 100000
    NoNode = "open"
INVARIANTS
    OccupancyIsExact
    TracesAreTrees
    NothingIsLeftOver
    VerdictIsRight
PROPERTIES
    RouterReturns
