SPECIFICATION Spec
CONSTANTS
  Path <- MCFour
  Input <- MCInput
  Code = {c1, c2, c3, c4, c5}
  MaxCalls = 3
  Careless = {}
SYMMETRY MCSymmetry
INVARIANTS RunningCodeIsLive InUseExact CodeOwned
CHECK_DEADLOCK FALSE
