CONSTANTS
  NX = 6
  NY = 3
  MinSize = 2
  MaxDry = 5
  Masks <- FewOrAllDry
SPECIFICATION Spec
INVARIANTS
  StackFits
  StampsAreEvents
  PatchesAreComponents
PROPERTY Ends
CHECK_DEADLOCK FALSE
