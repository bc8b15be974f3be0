CONSTANTS
  Bits = 4
  PageBits = 2
  Img <- MCImg
  Homes = {0, 3}
  MaxRows = 5
  MaxPings = 1
  MaxMoves = 2
  Bin <- MCTwins
  Strays = {}
  MaxRel = 2
  Queries <- MCTwinQueries
  SrcLen <- MCSrcLen
  MaxSrc = 8
  MaxTotal = 4
  MaxChunk = 2
  AsmLen = 3
  MaxEdits = 1
SPECIFICATION Spec
INVARIANT ListingsApart
CHECK_DEADLOCK FALSE
