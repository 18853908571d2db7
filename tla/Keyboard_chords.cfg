CONSTANTS
  Key <- MCKey
  Modifier <- MCModifier
  Shift = "shift"
  Level1 <- MCLevel1
  Level2 <- MCLevel2
  Chords <- MCChords
  Window = {a, b}
  NoWindow = NoWindow
  NoAction = NoAction
  Refocusing <- MCRefocusing
SPECIFICATION Spec
PROPERTIES ChordsFire
