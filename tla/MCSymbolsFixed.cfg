CONSTANTS
  Bits = 4
  PageBits = 2
  Img <- MCImg
  Homes = {0, 3}
  MaxRows = 5
  MaxPings = 1
  MaxMoves = 2
  Bin <- MCFixed
  Strays = {}
  MaxRel = 2
  Queries <- MCFixedQueries
  SrcLen <- MCSrcLen
  MaxSrc = 8
  MaxTotal = 4
  MaxChunk = 2
  AsmLen = 3
  MaxEdits = 1
SPECIFICATION Spec
INVARIANT FixedNames
CHECK_DEADLOCK FALSE
