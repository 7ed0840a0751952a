SPECIFICATION Spec
CONSTANTS
  Doc = Doc
  Tile = Tile
  Package = Package
  Manifest = Manifest
  Ids = {1}
  Versions = {1, 2}
  MaxPending = 1
  MaxMessages = 6
INVARIANTS TileUriStaysInside
CHECK_DEADLOCK FALSE
