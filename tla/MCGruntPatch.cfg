CONSTANT NTasks = 3
SPECIFICATION Spec
INVARIANTS
  TypeOK
  OneAtATime
  OwnPatch
  FinishedMeansGiven
CHECK_DEADLOCK FALSE
