\* After get_input wrote through NULL nothing follows.
CHECK_DEADLOCK FALSE
CONSTANTS
  a = a
  nl = nl
  nul = nul
  h1 = h1
  h2 = h2
  h3 = h3
  MaxConns = 2
  Handle <- MCHandle3
  Chunk <- MCChunk
  NL = nl
  NUL = nul
  NoHandle = NoHandle
  InbufLength = 3
  MaxIn = 3
  MaxPolls = 1
  Rough = {}
SPECIFICATION Spec
SYMMETRY SymHandle3
INVARIANTS FindLineExact InputIntact GameViewSafe FlushTargetsOpen InputFits NoFault
PROPERTIES ServiceSpec
