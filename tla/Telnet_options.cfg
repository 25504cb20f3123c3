\* When all is said and read nothing more happens.
CHECK_DEADLOCK FALSE
CONSTANTS
  Option = {"ECHO", "BINARY"}
  Accepts <- Table
  Letter = {"x"}
  Typed = {}
  Data = {}
  Sizes <- Growing
  MaxMoves = 5
  Rough = {}
SPECIFICATION FairSpec
INVARIANTS TypeOK Agree NeverCrossed SinNeverWaits
PROPERTY Settles
