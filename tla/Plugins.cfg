CONSTANTS
  NoText = NoText
  NoSym = NoSym
  close = close
  quit = quit
  Texts <- MCTexts
  NoChord = NoText
  Keysym <- MCKeysym
  NoKeysym = NoSym
  Action = {close, quit}
  NoAction = none
  Defaults <- MCDefaults
  MaxConfig = 2
  ScriptFile <- MCScriptFile
  NativeFile <- MCNativeFile
  MaxScripts = 2
  MaxNatives = 1
  MaxOpens = 2
SPECIFICATION PSpec
INVARIANTS LastEntryWins FirstStartsAlike FailuresIsolated
PROPERTIES ImplementsKeyTable
CHECK_DEADLOCK FALSE
