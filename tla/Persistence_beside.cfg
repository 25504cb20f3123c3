\* What goes wrong outside of the run: put the lines of one row for those below.
\*   Rough = {"unreadable"}                   INVARIANT NamedIsUsed
\*   Rough = {"crash"}                        PROPERTY BackupsStay
\*   Rough = {"full"}                         INVARIANT EndIsSaved
CONSTANTS
  Layer = {"input", "a", "b"}
  Path <- Flat
  Value = {"v"}
  Default = "v"
  Code = {"c"}
  Store <- Two
  DefaultStore = "items.dat"
  DefaultInput <- Input
  MaxSecond = 1
  Rough = {"unreadable"}
SPECIFICATION Spec
INVARIANT NamedIsUsed
CHECK_DEADLOCK FALSE
