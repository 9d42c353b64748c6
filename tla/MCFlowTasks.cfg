SPECIFICATION FairSpec
CONSTANTS
    NumBenchmarks = 2
    FlowSeq <- MCFlowSeq
    Tools <- MCTools
    Checked <- MCChecked
    Options <- MCOptions
    Stale = TRUE
    Base = "base"
INVARIANTS
    CountIsRight
PROPERTIES
    RunOnce
    FlowsEnd
