\* After a fault nothing follows.
CHECK_DEADLOCK FALSE
CONSTANTS
  a = a
  nl = nl
  nul = nul
  h1 = h1
  h2 = h2
  h3 = h3
  MaxConns = 2
  Handle <- MCHandle3
  Chunk <- MCChunkEnds
  NL = nl
  NUL = nul
  NoHandle = NoHandle
  InbufLength = 3
  MaxIn = 1
  MaxPolls = 2
  Rough = {"full", "refused", "writes"}
SPECIFICATION FairSpec
INVARIANTS FairQueue
PROPERTIES Served Reclaimed
