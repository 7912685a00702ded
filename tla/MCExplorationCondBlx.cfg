CONSTANTS
    PCs <- MCPCs
    MaxIntervals = 1
    SizeTBits = 8
    Entry = 16
    ThumbPCs <- MCThumbPCs
    ValidPCs <- MCValidPCs
    Exits <- MCExitsCondBlx
    BlockEnd <- MCBlockEnd
    JumpTableFile <- MCJumpTableFile
    Mem <- MCMem
    Calls <- MCCalls
    Callees <- MCCallees
    InlineFunctions <- MCInlineFunctions
    Body <- MCBody
    MaxRounds = 1
SPECIFICATION ExploreSpec
INVARIANT
    ModeCorrect
CHECK_DEADLOCK FALSE
