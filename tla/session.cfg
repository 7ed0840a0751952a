SPECIFICATION Spec
CONSTANTS
  Doc = Doc
  Tile = Tile
  Package = Package
  Manifest = Manifest
  Ids = {1}
  Versions = {1, 2, 3}
  MaxPending = 1
  MaxMessages = 6
INVARIANTS AnswersCross
PROPERTIES LatestShown ChildStops
CHECK_DEADLOCK FALSE
