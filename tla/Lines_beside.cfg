\* What goes wrong outside of the run: put the lines of one row for those below.
\*   Rough = {"writes"}                       INVARIANT WritesAreSafe
\*   Rough = {}                               INVARIANT DataIsReadable
\*   Rough = {"full"}                         PROPERTY FullTableRefused
\*   Rough = {"refused"}                      INVARIANT FindLineExact
\*   Rough = {}                               PROPERTY ConnectionReported
\*   Rough = {}                               PROPERTY ZeroMeansQuiet
\*   Rough = {}  MaxIn = 5                    INVARIANT InputFits
CONSTANTS
  a = a
  nl = nl
  nul = nul
  h1 = h1
  h2 = h2
  h3 = h3
  MaxConns = 2
  Handle <- MCHandle3
  Chunk <- MCChunk
  NL = nl
  NUL = nul
  NoHandle = NoHandle
  InbufLength = 3
  MaxIn = 3
  MaxPolls = 1
  Rough = {"writes"}
SPECIFICATION Spec
INVARIANT WritesAreSafe
CHECK_DEADLOCK FALSE
