----------------------------- MODULE ThumbDump -----------------------------
(***************************************************************************)
(* ARMDumpThumbBit, run on the module SolveIndirectSingle rewrote: for    *)
(* every store of the constant 1 to thumb, the constant getStoreToPCInBB  *)
(* finds in the same basic block, with bit 0 cleared, is appended to      *)
(* m_thumbPCs, which the destructor writes to -outjson ("at this PC, the  *)
(* code should be thumb").  A store's bb field is its basic block.        *)
(***************************************************************************)
EXTENDS IndirectSolver

VARIABLES
    dstage,    \* wait (for the solver), done
    thumbPCs   \* m_thumbPCs

dumpVars == <<dstage, thumbPCs>>

(* the value a store holds once the solver ran: its constant, or the     *)
(* constant replaceAllUsesWith put in place of its value in the function *)
FinalValue(x) ==
    IF Site(x).v \in Nat THEN Site(x).v
    ELSE LET rs == {y \in DOMAIN replaced : y[1] = x[1] /\ Site(y).v = Site(x).v}
         IN  IF rs = {} THEN Reg ELSE replaced[CHOOSE y \in rs : TRUE]

(* pcVal->getZExtValue() & -2 *)
ClearBit0(v) == (v \div 2) * 2

BBSites(f, b) ==
    SelectSeq([i \in DOMAIN StoresOf[f] |-> <<f, i>>], LAMBDA y : Site(y).bb = b)

(***************************************************************************)
(* getStoreToPCInBB: the first store of a constant in the basic block    *)
(* whose global is named thumb, or NULL.                                  *)
(***************************************************************************)
GetStoreToPCInBB(f, b) ==
    LET s == SelectSeq(BBSites(f, b),
                       LAMBDA y : Site(y).g = "thumb" /\ FinalValue(y) \in Nat)
    IN  IF s = <<>> THEN NoValue ELSE FinalValue(s[1])

(* one store of runOnModule: store 1, @thumb *)
DumpStore(acc, x) ==
    LET pcVal == GetStoreToPCInBB(x[1], Site(x).bb)
    IN  IF Site(x).g = "thumb" /\ FinalValue(x) = 1 /\ pcVal # NoValue
        THEN Append(acc, ClearBit0(pcVal))
        ELSE acc

(* runOnModule over the functions of the module, in order *)
DumpThumbBit ==
    /\ sstage = "done"
    /\ dstage = "wait"
    /\ thumbPCs' = FoldLeft(DumpStore, thumbPCs, ModuleSites(Funcs))
    /\ dstage' = "done"
    /\ UNCHANGED solverVars

DumpInit ==
    /\ dstage = "wait"
    /\ thumbPCs = <<>>

-----------------------------------------------------------------------------
DumpTypeOK ==
    /\ dstage \in {"wait", "done"}
    /\ thumbPCs \in Seq(Nat)

(***************************************************************************)
(* Every pc in the -outjson list is the constant a basic block stores to  *)
(* PC next to a store of 1 to thumb: the target of a switch to Thumb, as  *)
(* the pass's comment and option describe.                                *)
(***************************************************************************)
ThumbPCsAreThumbTargets ==
    \A i \in DOMAIN thumbPCs :
        \E x \in UNION {Sites(f) : f \in ToSet(Funcs)} :
            /\ Site(x).g = "PC"
            /\ FinalValue(x) \in Nat
            /\ ClearBit0(FinalValue(x)) = thumbPCs[i]
            /\ \E y \in ToSet(BBSites(x[1], Site(x).bb)) :
                   Site(y).g = "thumb" /\ FinalValue(y) = 1

=============================================================================
