SPECIFICATION FairSpec
CONSTANTS
    ARRR = ARRR
    ZOMBIE = ZOMBIE
    Coins <- MCCoins
    SavedActive <- MCSavedActive
    MaxTries = 2
    MaxTasks = 2
    MaxDisables = 1
INVARIANTS
    EnabledCoinsAreShown
    FirstActivationIsNotInterrupted
PROPERTIES
    ActivationSettles
CHECK_DEADLOCK FALSE
