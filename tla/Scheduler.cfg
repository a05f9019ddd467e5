SPECIFICATION Spec
CONSTANTS
  Tasks = {0, 1, 2, 3}
  NULL = NULL
  TASK_MAX_COUNT = 4
  Quantum = 3
  TidLimit = 4
  MaxCreates = 5
  PicHolds = FALSE
INVARIANTS Linked OneContextRuns QueueConsistent LockHasOneOwner TidsIdentify
 
