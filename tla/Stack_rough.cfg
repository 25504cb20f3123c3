SPECIFICATION Spec
CONSTANTS
  Str = {s1, s2}
  StackSize = 5
  IndexRange = 5
  MaxCalls = 2
  MaxLocals = 2
  MaxArgs = 1
  Careless <- MCCareless
SYMMETRY MCSymmetry
INVARIANTS TypeOK FramesStack
PROPERTIES FrameIsOwn
CHECK_DEADLOCK FALSE
