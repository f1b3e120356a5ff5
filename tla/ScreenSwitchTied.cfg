SPECIFICATION Spec
CONSTANTS
    NumCranes = 2
    Consoles <- MCConsoles
    Screens <- MCScreens
    ModeMax = 2
    PlcScreenAdd <- MCPlcScreenAdd
    Priority <- MCTied
    Plans <- MCPlans
    Group2Pc <- MCGroup2Pc
    FreeModes <- MCNoFreeModes
    HeightOn = {}
    Heights = {0, 1}
    HeightModes <- MCNoHeightModes
    DBImages <- MCDBImages
INVARIANTS ModeAnswered
CHECK_DEADLOCK FALSE
