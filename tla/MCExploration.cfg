CONSTANTS
    PCs <- MCPCs
    MaxIntervals = 2
    SizeTBits = 8
    Entry = 16
    ThumbPCs <- MCThumbPCs
    ValidPCs <- MCValidPCs
    Exits <- MCExits
    BlockEnd <- MCBlockEnd
    JumpTableFile <- MCJumpTableFile
    Mem <- MCMem
    Calls <- MCCalls
    Callees <- MCCallees
    InlineFunctions <- MCInlineFunctions
    Body <- MCBody
    MaxRounds = 2
SPECIFICATION ExploreSpec
INVARIANTS
    ExploreTypeOK
    ModeCorrect
    ThumbOutSound
    JumpTableExplored
PROPERTIES
    Termination
    DiscoveryRefinement
    InlineEnds
CHECK_DEADLOCK FALSE
