SPECIFICATION FairSpec
CONSTANTS
    NumWalls = 2
    NumScreens = 2
    MaxAsks = 2
    MaxCrashes = 1
    MaxLosses = 1
    MaxRefreshes = 1
INVARIANTS TypeOK SeenWallsInStep
PROPERTIES NeverAnOlderPlan RestartedWallsRestored
CHECK_DEADLOCK FALSE
