SPECIFICATION ChildrenSpec
CONSTANTS
  n1 = n1
  n2 = n2
  n3 = n3
  n4 = n4
  n5 = n5
  n6 = n6
  Name <- MCName
  Hash <- MCHash
  InitSize = 2
  Capacity = 3
  Limit = 8
  MaxChildren = 6
INVARIANTS SameChildren NoOverrun
PROPERTY ListSpec
CHECK_DEADLOCK FALSE
