CONSTANTS
  a = a  b = b  c = c
  Window = {a, b, c}
  NoWindow = NoWindow
  WorkspaceCount = 2
  RectCounts <- MCRectCounts
  Nested = TRUE
SPECIFICATION Spec
SYMMETRY Symmetry
INVARIANTS DesktopInv VisibleWhenRoom FloatsOnTop
PROPERTIES OnlyMovesLeaveGhosts CleanupKeepsSurvivors SwitchSettles OnlyOpensPartKeyboard OnlyForeignFocusTypesUnseen ImplementsWorkspaceMap
CHECK_DEADLOCK FALSE
