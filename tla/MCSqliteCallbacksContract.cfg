CONSTANTS
  Names = {f, g}
  Arities = {one, any}
  AnyArity = any
  Objects = {o1, o2, o3}
  Keeping = {o3}
  NoObject = NoObject
  Exprs = {e1, e2}
  MaxRows = 2
  MaxTotal = 3
SYMMETRY Symmetry
SPECIFICATION Spec
INVARIANT DangerContained
PROPERTY AnswersItsRows
CHECK_DEADLOCK FALSE
