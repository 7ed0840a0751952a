SPECIFICATION Spec
CONSTANTS
  Doc = Doc
  Tile = Tile
  Package = Package
  Manifest = Manifest
  Ids = {1}
  Versions = {1, 2}
  MaxPending = 1
  MaxMessages = 5
INVARIANTS NeverBlamed
CHECK_DEADLOCK FALSE
