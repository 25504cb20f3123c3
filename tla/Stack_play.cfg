SPECIFICATION Spec
CONSTANTS
  Str = {s1, s2, s3}
  StackSize = 6
  IndexRange = 6
  MaxCalls = 2
  MaxLocals = 2
  MaxArgs = 2
  Careless = {}
SYMMETRY MCSymmetry
INVARIANTS StringsOwned NoFault
PROPERTIES FrameIsOwn CallGivesOne
CHECK_DEADLOCK FALSE
