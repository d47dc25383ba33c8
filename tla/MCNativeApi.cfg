CONSTANTS
  Half32 = 2
  HalfFix = 4
  Half64 = 8
  Exact = 3
  Widest = 9
  Nearest <- MCNearest
  Printed <- MCPrinted
  MaxLength = 2
  Dbs = {d1}
  NoDb = NoDb
  Names = {f, g}
  Variants = {v1, v2}
  Handlers = {"busy_handler"}
  Stmts = {s1, s2}
  Datas = {c1, c2, c3}
  NoData = NoData
  Sloppy = {g}
  Stored <- MCStored
  MaxRows = 2
SYMMETRY Symmetry
SPECIFICATION Spec
INVARIANTS
  CallbacksLive
  ContextsRooted
  GroupsApart
  ValuesKept
CHECK_DEADLOCK FALSE
