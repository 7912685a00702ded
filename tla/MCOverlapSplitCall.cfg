CONSTANTS
    Insn <- MCInsn
    Candidates <- AlignedCandidates
    InsnSize = 4
INIT OverlapInit
NEXT OverlapNext
INVARIANT SplitLinkIsJump
CHECK_DEADLOCK FALSE
