\* What goes wrong outside of the run: put the lines of one row for those below.
\*   Careless = {"move"}                      INVARIANT NoFault
\*   Careless = {"deep"}                      INVARIANT NoFault
\*   Careless = {"text"}                      INVARIANT NoFault
CONSTANTS
  Chunk = {4}
  Text = {2}
  MaxNested = 3
  InitSize = 8
  OffsetRange = 32
  MaxLength = 24
  Careless = {"move"}
SPECIFICATION Spec
INVARIANT NoFault
CHECK_DEADLOCK FALSE
