CONSTANTS
  Instance = {i1, i2, i3}
  NoInstance = NoInstance
  Displays = 2
  Client = {c1}
  MaxTries = 3
SPECIFICATION Spec
SYMMETRY Symmetry
INVARIANTS DiscoveryInv RunsInOrder SuccessRanOrCrashed
PROPERTIES NeverGuesses
CHECK_DEADLOCK FALSE
