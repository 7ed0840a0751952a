SPECIFICATION AnySpec
CONSTANTS
  Doc = Doc
  Tile = Tile
  r1 = r1
  r2 = r2
  Elsewhere = Elsewhere
  Ids = {r1, r2}
  Versions = {1, 2, 3}
  ChildFrames <- Anything
  MaxPending = 1
  MaxFrames = 3
  MaxMessages = 5
SYMMETRY Symmetry
INVARIANTS LegalSession AnswersBalance
CHECK_DEADLOCK FALSE
