\* What goes wrong outside of the run: put the lines of one row for those below.
\*   Careless = {"string_local"}              INVARIANT NoFault
\*   Careless = {"leftover"}                  INVARIANT NothingLost
\*   Careless = {"no_value"}                  PROPERTY CallGivesOne
\*   Careless = {"params"}                    INVARIANT FramesStack
\*   Careless = {"deep"}  IndexRange = 3      PROPERTY FrameIsOwn
CONSTANTS
  Str = {s1, s2}
  StackSize = 5
  IndexRange = 5
  MaxCalls = 1
  MaxLocals = 2
  MaxArgs = 1
  Careless = {"string_local"}
SPECIFICATION Spec
INVARIANT NoFault
CHECK_DEADLOCK FALSE
