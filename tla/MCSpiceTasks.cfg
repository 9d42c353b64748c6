SPECIFICATION FairSpec
CONSTANTS
    NumTasks = 3
    Options <- MCOptions
INVARIANTS
    CountIsRight
PROPERTIES
    ImplementsPool
