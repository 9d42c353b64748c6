SPECIFICATION FairSpec
CONSTANTS
    RrNodes = {"a", "b1", "b2", "m1", "m2", "m3", "s1", "s2", "t1", "t2"}
    SinkNodes = {"s1", "s2", "t1", "t2"}
    NumNets = 2
    NetSources <- MCNetSources
    NetSinks <- MCNetSinks
    VirtualSource <- MCVirtual
    Graphs <- MCGraphs
    Intrinsic <- MCIntrinsic
    GarbageOcc = {3}
    FirstPresFac = 10
    InitialPresFac = 10
    PresFacMult = 2
    MaxPresFac = 18
    AccFac = 1
    MaxIterations = 3
    HUGE = 100000
    NoNode = "open"
INVARIANTS
    NextConnectionIsCheapest
    DriversLeadToSource
PROPERTIES
    RouterReturns
    ImplementsNegotiation
