CONSTANTS
  Sets = {r1}
  Values <- MCPlain
  Internals = {"none"}
  Unset = Unset
  Params = 1
  MaxRows = 1
  MaxCalls = 2
  MaxSchemas = 2
  HalfFix = 2
  Largest = 4
  Widest = 6
  Nearest <- MCNearest
  Database = "utf8"
  Tails <- MCTails
  MaxLength = 2
SPECIFICATION Spec
INVARIANT FieldsNameColumns
CHECK_DEADLOCK FALSE
