SPECIFICATION FairSpec
CONSTANTS
    NumBenchmarks = 2
    FlowSeq <- MCFlowSeq
    Tools <- MCTools
    Checked <- MCChecked
    Options <- MCThreads
    Stale = FALSE
    Base = "base"
PROPERTIES
    ToolsRunInTheirDirectory
