CONSTANTS
  Conns = {c1, c2}
  Siblings = {c1, c2}
  Policies <- AnyPolicy
  Sloppy = {c2}
  MaxUnits = 1
SPECIFICATION Spec
PROPERTY AtomicBlocks
 
INVARIANTS
  ActiveNeverMisses
  LeftoverIsReported
