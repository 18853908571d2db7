SPECIFICATION FairRepaint
CONSTANTS
    MaxKicks = 3
    MaxUpsets = 6
INVARIANTS ChainAlive
PROPERTIES DamageIsFlipped ChainsNeverFork
CHECK_DEADLOCK FALSE
