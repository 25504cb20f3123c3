\* What goes wrong outside of the run: put the lines of one row for those below.
\*   Rough = {"slow", "choked"}               INVARIANT TextArrives
\*   Rough = {"long"}  Data <- Long           INVARIANT TextArrives
\*   Rough = {"slow", "compress", "cut"}      INVARIANT TextArrives
CONSTANTS
  Option = {"ECHO", "BINARY"}
  Accepts <- Table
  Letter = {"x"}
  Typed = {"x", "CR", "LF", "NUL", "IAC"}
  Data <- Carried
  Sizes <- Growing
  MaxMoves = 3
  Rough = {"slow", "choked"}
SPECIFICATION Spec
INVARIANT TextArrives
CHECK_DEADLOCK FALSE
