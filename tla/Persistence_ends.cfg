\* The run ends where the engine reads or frees what is not there.
CHECK_DEADLOCK FALSE
CONSTANTS
  Layer = {"input", "a", "b"}
  Path <- Small
  Value = {"v"}
  Default = "v"
  Code = {"c"}
  Store <- One
  DefaultStore = "items.dat"
  DefaultInput <- Input
  MaxSecond = 1
  Rough = {}
SPECIFICATION FairSpec
PROPERTY StopEnds
