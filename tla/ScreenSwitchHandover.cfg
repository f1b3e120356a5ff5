SPECIFICATION Spec
CONSTANTS
    NumCranes = 2
    Consoles <- MCConsoles
    Screens <- MCScreens
    ModeMax = 2
    PlcScreenAdd <- MCPlcScreenAdd
    Priority <- MCRanked
    Plans <- MCPlans
    Group2Pc <- MCHandoverGroup2Pc
    FreeModes <- MCNoFreeModes
    HeightOn = {}
    Heights = {0, 1}
    HeightModes <- MCNoHeightModes
    DBImages <- MCHandoverImages
INVARIANTS BoundCraneOnAir
CHECK_DEADLOCK FALSE
