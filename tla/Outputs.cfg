SPECIFICATION FairSpec
CONSTANTS
    dp = dp
    hdmi = hdmi
    k1 = k1
    k2 = k2
    k3 = k3
    None = None
    Connectors <- MCConnectors
    Crtc <- MCCrtc
    PossibleCrtcs <- MCPossibleCrtcs
    Widths = {2}
    NodeKinds = {TRUE, FALSE}
    CreationFails = {TRUE, FALSE}
    MaxMoves = 4
INVARIANTS OutputsInv
PROPERTIES OnlyDroppedForCause ScanLights HotplugFollowed
CHECK_DEADLOCK FALSE
