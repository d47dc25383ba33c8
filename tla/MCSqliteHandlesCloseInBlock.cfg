CONSTANTS
  Dbs = {d1}
  Stmts = {s1}
  NoDb = NoDb
  Habits <- BlockCloser
SPECIFICATION Spec
INVARIANT NoUseAfterFinalize
CHECK_DEADLOCK FALSE
