SPECIFICATION FairHandshake
CONSTANTS
    Window = {1, 2}
    Workspace = {a, b}
    FirstShown = a
    Backends = {TRUE, FALSE}
    Host = {small, large}
    FirstHost = small
    OwnSizes = {own}
    Zero = Zero
    None = None
    MaxInFlight = 1
    MaxChanges = 2
INVARIANT HandshakeTypes
PROPERTIES FocusFromRest SizesConverge EveryClientConfigured ConfiguresEnd DeadForgotten DeadFocusForgotten
CHECK_DEADLOCK FALSE
