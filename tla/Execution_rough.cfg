SPECIFICATION Spec
CONSTANTS
  Path <- MCThree
  Input <- MCInput
  Code = {c1, c2, c3, c4, c5, c6}
  MaxCalls = 2
  Careless <- MCAll
SYMMETRY MCSymmetry
INVARIANT LayersAbove
CHECK_DEADLOCK FALSE
