SPECIFICATION ChildrenSpec
CONSTANTS
  n1 = n1
  n2 = n2
  n3 = n3
  n4 = n4
  n5 = n5
  n6 = n6
  Name <- MCName
  Hash <- MCHash
  InitSize = 2
  Capacity = 2
  Limit = 5
  MaxChildren = 6
INVARIANT NoOverrun
CHECK_DEADLOCK FALSE
