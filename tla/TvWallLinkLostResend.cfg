SPECIFICATION FairSpec
CONSTANTS
    NumWalls = 1
    NumScreens = 1
    MaxAsks = 1
    MaxCrashes = 1
    MaxLosses = 1
    MaxRefreshes = 0
PROPERTIES LatestInformationSent
CHECK_DEADLOCK FALSE
