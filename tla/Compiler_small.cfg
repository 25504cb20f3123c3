SPECIFICATION Spec
CONSTANTS
  Chunk = {4}
  Text = {2}
  MaxNested = 3
  InitSize = 8
  OffsetRange = 32
  MaxLength = 24
  Careless = {}
INVARIANTS NoFault JumpsLand
PROPERTY FlowSpec
CHECK_DEADLOCK FALSE
