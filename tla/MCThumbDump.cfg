CONSTANTS
    RegV = RegV
    GoneV = GoneV
    NoValueV = NoValueV
    v1 = v1
    v2 = v2
    v3 = v3
    v4 = v4
    v5 = v5
    Reg <- RegV
    NoValue <- NoValueV
    Gone <- GoneV
    StoresOf <- MCStoresOf
    OptVal <- MCOptVal
    OptFiles <- MCOptFiles
    Funcs <- MCFuncs
    LinkFiles <- MCLinkFiles
    LNamed <- MCLNamed
    LHasPcStart <- MCLHasPcStart
    LStart <- MCLStart
    LCalls <- MCLCalls
SPECIFICATION PostSpec
INVARIANTS
    ThumbPCsAreThumbTargets
CHECK_DEADLOCK FALSE
