\* The engine may stop: main ends when every task is freed.
CHECK_DEADLOCK FALSE
CONSTANTS
  MaxTasks = 3
  Schedule <- MCAny
  Careless = {}
SPECIFICATION FairSpec
INVARIANTS ShutdownClean
PROPERTIES KilledStaysDead TasksRun ShutdownEnds
