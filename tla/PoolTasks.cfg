CONSTANTS
  w1 = w1
  w2 = w2
  w3 = w3
  Worker = {w1, w2, w3}
  MaxTasks = 3
  Handle = "WAIT"
  Spurious = TRUE
  NULL = NULL
SPECIFICATION FairSpec
CHECK_DEADLOCK FALSE
INVARIANTS TypeOK InOrder OneWorkerEach AllRun
PROPERTIES TasksRun
