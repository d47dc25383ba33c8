CONSTANTS
  NT = 3
  Max = 3
SPECIFICATION Spec
INVARIANTS
  NumbersUsed
  LifetimesUnbroken
  AgeIsCurrent
PROPERTIES
  HistoryKept
  Ends
CHECK_DEADLOCK FALSE
