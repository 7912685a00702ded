CONSTANTS
    Insn <- MCInsn
    Candidates <- AllCandidates
    InsnSize = 4
SPECIFICATION OverlapSpec
INVARIANTS
    OverlapTypeOK
    ChainLinked
    AbortOnlyWhenUnaligned
    SplitKeepsNoGuestOpOfNext
    VoidOnce
PROPERTIES
    OverlapTermination
CHECK_DEADLOCK FALSE
