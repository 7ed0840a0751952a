SPECIFICATION Spec
CONSTANTS
  A = A
  B = B
  C = C
  T = T
  X = X
  Plain = Plain
  Marked = Marked
  NodeTags = {"text", "div", "input", "ul", "li"}
  NodeKeys = {A, B, C, T}
  NodeData <- MCNodeData
  Height = 3
  NoKey = NoKey
  NoText = NoText
  None = None
  Lists <- OneList
  Texts = {NoText, X}
  Tags = {}
  MayFail = FALSE
  MaxEvents = 3
INVARIANT FieldAgrees
CHECK_DEADLOCK FALSE
