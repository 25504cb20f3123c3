\* The engine may stop: main ends when every task is freed.
CHECK_DEADLOCK FALSE
CONSTANTS
  MaxTasks = 2
  Schedule <- MCAny
  Careless = {}
SPECIFICATION FairSpec
INVARIANTS TypeOK IdsNumbered ShutdownClean
PROPERTIES TasksRun ShutdownEnds
