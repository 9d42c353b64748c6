SPECIFICATION SearchFairSpec
CONSTANTS
    Setups <- MCSetups
    MaxWidth = 12
    OutPins = 1
INVARIANTS
    DoneIsConsistent
    NarrowerFailed
PROPERTIES
    SearchEnds
    ImplementsNarrowest
