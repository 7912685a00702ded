CONSTANTS
    Starts <- MCStarts
    BlockSize = 2
    ProgramEntry = 2
    Shapes <- ShapesPass
    CondShapes <- CondShapesPass
    SwitchCases <- MCSwitchCases
    SwitchDefault = 6
    NULL = NULL
    FAKE = FAKE
SPECIFICATION Spec
INVARIANT DeclaredEntryBuilt
CHECK_DEADLOCK FALSE
