CONSTANTS
  Dbs = {d1, d2}
  Stmts = {s1, s2}
  NoDb = NoDb
  Habits <- AnyHabit
SPECIFICATION Spec
INVARIANTS
  ConnOutlivesVM
  DbClosedIsTruthful
  LeakIsPinned
CHECK_DEADLOCK FALSE
PROPERTY ExitReleases
