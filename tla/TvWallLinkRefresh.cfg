SPECIFICATION FairSpec
CONSTANTS
    NumWalls = 1
    NumScreens = 1
    MaxAsks = 1
    MaxCrashes = 0
    MaxLosses = 0
    MaxRefreshes = 1
PROPERTIES RefreshCarriedOut
CHECK_DEADLOCK FALSE
