CONSTANTS
  Sets = {r1, r2}
  Values <- MCValues
  Internals = {"none", "eucjp"}
  Unset = Unset
  Params = 2
  MaxRows = 2
  MaxCalls = 3
  MaxSchemas = 2
  HalfFix = 2
  Largest = 4
  Widest = 6
  Nearest <- MCNearest
  Database = "utf8"
  Tails <- MCTails
  MaxLength = 2
SYMMETRY Symmetry
SPECIFICATION Spec
INVARIANTS
  OwnRows
  FewLost
  WritesOnce
  RowsHoldValues
CHECK_DEADLOCK FALSE
