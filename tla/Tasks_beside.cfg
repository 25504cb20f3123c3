\* What goes wrong outside of the run: put the lines of one row for those below.
\*   Careless = {"kill_again"}                INVARIANT KillTwiceIsSilent
\*   Careless = {}                            PROPERTY NoTaskForZeroes
CONSTANTS
  MaxTasks = 2
  Schedule <- MCSoon
  Careless = {"kill_again"}
SPECIFICATION Spec
INVARIANT KillTwiceIsSilent
CHECK_DEADLOCK FALSE
