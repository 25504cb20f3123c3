\* When all is said and read nothing more happens.
CHECK_DEADLOCK FALSE
CONSTANTS
  Option = {"ECHO"}
  Accepts <- Table
  Letter = {"x"}
  Typed = {"x", "CR", "LF", "NUL", "IAC"}
  Data <- Carried
  Sizes <- Growing
  MaxMoves = 3
  Rough = {"slow", "compress"}
SPECIFICATION FairSpec
INVARIANTS TextArrives Agree NeverCrossed SinNeverWaits BufferFits
PROPERTY Settles
