\* What goes wrong outside of the run: put the lines of one row for those below.
\*   Rough = {"nils"}                         INVARIANT LawsHold
\*   Rough = {"empty"}                        INVARIANT LawsHold
\*   Rough = {"mixed"}                        INVARIANT LawsHold
\*   Rough = {"other"}                        INVARIANT LawsHold
\*   Rough = {"no_layer"}                     INVARIANT LawsHold
\*   Rough = {"wide"}                         INVARIANT LawsHold
\*   Rough = {"brackets"}                     INVARIANT LawsHold
\*   Rough = {"args"}                         INVARIANT LawsHold
\*   Rough = {"stale"}                        INVARIANT LawsHold
\*   Rough = {"sums"}                         INVARIANT LawsHold
\*   Rough = {"filled"}                       INVARIANT LawsHold
\*   Rough = {"smallest"}                     INVARIANT NoFault
\*   Rough = {"midway"}                       INVARIANT NoFault
\*   Rough = {"no_name"}                      INVARIANT NoFault
\*   Rough = {"no_layer"}                     INVARIANT NoFault
\*   Rough = {}  Layers <- LongLayers         INVARIANT NoFault
\*   Rough = {}  MaxNested = 1                INVARIANT NoFault
\*   Rough = {}                               INVARIANT NothingLost
CONSTANTS
  Width = 4
  Left = {3}
  Text <- Words
  UpperOf <- ToUpper
  LowerOf <- ToLower
  Narrow = 3
  NameSize = 4
  MaxLayer = 2
  MaxNested = 4
  Letter <- LayerLetters
  Layers <- ShortLayers
  Items <- SomeItems
  Rough = {"nils"}
SPECIFICATION Spec
INVARIANT LawsHold
CHECK_DEADLOCK FALSE
