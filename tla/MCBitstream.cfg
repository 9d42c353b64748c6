SPECIFICATION Spec
CONSTANT Designs <- MCDesigns
INVARIANTS
  CountersInStep
  CellsHoldTheirBits
  ChipDoesDesign
CHECK_DEADLOCK FALSE
