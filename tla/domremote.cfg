SPECIFICATION Spec
CONSTANTS
  A = A
  B = B
  C = C
  T = T
  X = X
  Plain = Plain
  Marked = Marked
  NodeTags = {"text", "div", "input", "ul", "li"}
  NodeKeys = {A, B, C, T}
  NodeData <- MCNodeData
  Height = 3
  NoKey = NoKey
  NoText = NoText
  None = None
  Lists <- MCLists
  Texts = {NoText, X}
  Tags = {T}
  MayFail = TRUE
  MaxEvents = 3
INVARIANT EventHitsItsElement
PROPERTIES PatchesLand NotRolledBack IdleReached
CHECK_DEADLOCK FALSE
