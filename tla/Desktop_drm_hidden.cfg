CONSTANTS
  a = a
  b = b
  Window = {a, b}
  NoWindow = NoWindow
  WorkspaceCount = 2
  RectCounts <- MCRectCounts
  Nested = FALSE
SPECIFICATION Spec
INVARIANTS VisibleInAnyBackend
CHECK_DEADLOCK FALSE
