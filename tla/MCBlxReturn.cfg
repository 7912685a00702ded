CONSTANTS
    Starts <- MCStarts
    BlockSize = 2
    ProgramEntry = 2
    Shapes <- ShapesBlx
    CondShapes <- CondShapesSmall
    SwitchCases <- MCSwitchCases
    SwitchDefault = 6
    NULL = NULL
    FAKE = FAKE
SPECIFICATION Spec
INVARIANT NoAbort
CHECK_DEADLOCK FALSE
