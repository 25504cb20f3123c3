\* What goes wrong outside of the run: put the lines of one row for those below.
\*   Careless = {"recursion"}                 INVARIANT RunningIsInUse
\*   Careless = {"overwrite"}                 INVARIANT CodeOwned
\*   Careless = {"deep"}  MaxCalls = 1        INVARIANT InUseIsRunning
\*   Careless = {"deep", "recursion"}         INVARIANT RestartIsSafe
CONSTANTS
  Path <- MCTwo
  Input <- MCInput
  Code = {c1, c2, c3, c4}
  MaxCalls = 2
  Careless = {"recursion"}
SPECIFICATION Spec
INVARIANT RunningIsInUse
CHECK_DEADLOCK FALSE
