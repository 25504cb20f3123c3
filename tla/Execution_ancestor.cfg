SPECIFICATION Spec
CONSTANTS
  Path <- MCNested
  Input <- MCInput
  Code = {c1, c2, c3, c4}
  MaxCalls = 2
  Careless = {"ancestor"}
SYMMETRY MCSymmetry
INVARIANT RunningCodeIsLive
CHECK_DEADLOCK FALSE
