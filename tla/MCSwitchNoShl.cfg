CONSTANTS
    Starts <- MCStarts
    BlockSize = 2
    ProgramEntry = 2
    Shapes <- ShapesNoShl
    CondShapes <- CondShapesSmall
    SwitchCases <- MCSwitchCases
    SwitchDefault = 6
    NULL = NULL
    FAKE = FAKE
SPECIFICATION Spec
INVARIANT VerifierClean
CHECK_DEADLOCK FALSE
