SPECIFICATION Spec
CONSTANTS
    Outputs <- MCOutputs
    Layouts <- MCLayouts
    MaxWindows = 6
    MaxSide = 13
INVARIANTS DwindleInv WindowsDisjoint AllPlaced
CHECK_DEADLOCK FALSE
