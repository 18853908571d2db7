CONSTANTS
  Key = {"super", "one", "x"}
  Modifier = {"super"}
  Shift = "shift"
  Level1 <- MCLevel1
  Level2 <- MCLevel1
  Chords <- MCChords
  Window = {a, b}
  NoWindow = NoWindow
  NoAction = NoAction
  Refocusing = {"workspace"}
  Super = "super"
  Button = {"left", "right"}
  Layouts <- MCLayouts
  Step = 2
  Reach = 4
  MaxSerial = 4
SPECIFICATION SeatSpec
PROPERTY SuperDragGrabs
CHECK_DEADLOCK FALSE
