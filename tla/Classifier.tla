----------------------------- MODULE Classifier -----------------------------
(***************************************************************************)
(* The exit classifier of the translator: the three function passes       *)
(* ARMMarkCall, ARMMarkReturn and ARMMarkJumps, run one after the other   *)
(* over every block function ("void-tcg-llvm-tb-...") of the module.      *)
(*                                                                         *)
(* A block function is one translated block.  Only its exits matter      *)
(* here: an exit is one LLVM basic block ending in the (fake) return that *)
(* leaves the block, and holds the constant or computed store to PC made  *)
(* by the last guest instruction, preceded by the stores to LR of that    *)
(* basic block.  A block with one exit is a single LLVM basic block (the  *)
(* exit is the front block); a conditional block has a front block that   *)
(* tests the condition and two exit blocks, the second of which falls     *)
(* through to the block's end address.                                     *)
(*                                                                         *)
(* A store to PC carries at most one tag, the INS_* metadata the passes   *)
(* attach to it; the front block of a block function has a name, which    *)
(* MarkReturn and the entry marking change.                               *)
(***************************************************************************)
EXTENDS Naturals, Sequences, FiniteSets, FiniteSetsExt, ARMCallHeuristic

CONSTANTS
    Starts,         \* BB_pcStart of every discovered block
    BlockSize,      \* BB_pcEnd - BB_pcStart of a block
    ProgramEntry,   \* the block named func_entry_point when first translated
    Shapes,         \* exits an unconditional block may end with
    CondShapes      \* taken exits of a conditional block

ASSUME ProgramEntry \in Starts

End(b) == b + BlockSize

(***************************************************************************)
(* The exit falling through a conditional block: PC := BB_pcEnd.          *)
(***************************************************************************)
FallThrough(b) == [lr |-> <<>>, pc |-> [k |-> "const", v |-> End(b)], sw |-> "none"]

BlockChoices(b) ==
    {<<x>> : x \in Shapes} \cup {<<x, FallThrough(b)>> : x \in CondShapes}

BlockTables ==
    {t \in [Starts -> UNION {BlockChoices(b) : b \in Starts}] :
        \A b \in Starts : t[b] \in BlockChoices(b)}

NoTag == [k |-> "none"]

VARIABLES
    blocks,     \* the block functions of the module: Starts -> Seq(exit)
    tags,       \* INS_* metadata of each exit's store to PC
    front,      \* name of each block function's front basic block
    stage,      \* the pass the translator is running
    pending     \* block functions the running function pass has not visited

classVars == <<blocks, tags, front, stage, pending>>

ExitIds == UNION {{<<b, i>> : i \in 1..Len(blocks[b])} : b \in Starts}
ExitsOf(b) == {e \in ExitIds : e[1] = b}
Exit(e) == blocks[e[1]][e[2]]

(* The store of an exit sits in the front block iff the block has one exit *)
InFront(e) == Len(blocks[e[1]]) = 1

-----------------------------------------------------------------------------
(***************************************************************************)
(* ARMMarkCall: in each LLVM basic block, the last constant stored to LR  *)
(* before a store to PC is remembered; a later non-constant store to LR   *)
(* does not forget it.  The PC store is a call iff that constant is the   *)
(* block's end address, or the end address with the Thumb bit set.        *)
(***************************************************************************)
LRConstIdx(x) == {i \in DOMAIN x.lr : x.lr[i].k = "const"}

LastLRVal(b, x) == End(b) + x.lr[Max(LRConstIdx(x))].off

IsCallSite(b, x) ==
    /\ LRConstIdx(x) # {}
    /\ IsCallReturn(End(b), LastLRVal(b, x))

CallTag(b, x) ==
    IF x.pc.k = "const"
    THEN [k |-> "directCall", target |-> x.pc.v,
          ret |-> ClearThumb(LastLRVal(b, x))]
    ELSE [k |-> "indirectCall", ret |-> ClearThumb(LastLRVal(b, x))]

MarkCall(b) ==
    /\ stage = "markCall"
    /\ b \in pending
    /\ pending' = pending \ {b}
    /\ tags' = [e \in DOMAIN tags |->
                   IF e[1] = b /\ IsCallSite(b, Exit(e))
                   THEN CallTag(b, Exit(e)) ELSE tags[e]]
    /\ UNCHANGED <<blocks, front, stage>>

(***************************************************************************)
(* ARMMarkReturn: a non-constant store to PC is a return when its value  *)
(* is (load LR) & c, or (call ldl) & c where the loaded value is also     *)
(* stored to LR.  The pass asserts that such a store is not already       *)
(* tagged as a call (the program aborts), tags it, and renames the basic  *)
(* block that holds it "func_return_bb_...".                              *)
(***************************************************************************)
UsesLR(x) == x.pc.k \in {"lr", "lrspill"}

IsCallTag(t) == t.k \in {"directCall", "indirectCall"}

MarkReturn(b) ==
    /\ stage = "markReturn"
    /\ b \in pending
    /\ pending' = pending \ {b}
    /\ LET rets == {e \in ExitsOf(b) : UsesLR(Exit(e))}
       IN  IF \E e \in rets : IsCallTag(tags[e])
           THEN /\ stage' = "aborted"
                /\ UNCHANGED <<blocks, tags, front>>
           ELSE /\ tags' = [e \in DOMAIN tags |->
                               IF e \in rets THEN [k |-> "return"] ELSE tags[e]]
                /\ front' = IF \E e \in rets : InFront(e)
                            THEN [front EXCEPT ![b] = "return"] ELSE front
                /\ UNCHANGED <<blocks, stage>>

(***************************************************************************)
(* ARMMarkJumps: every store to PC not tagged as a call or a return is a  *)
(* direct jump when its value is constant, an indirect jump otherwise.    *)
(***************************************************************************)
JumpTag(x) ==
    IF x.pc.k = "const" THEN [k |-> "directJump", target |-> x.pc.v]
                        ELSE [k |-> "indirectJump"]

(* the stores already tagged as a call or a return are not skipped *)
MarkJumpsNoSkip(b) ==
    /\ stage = "markJumps"
    /\ b \in pending
    /\ pending' = pending \ {b}
    /\ tags' = [e \in DOMAIN tags |->
                   IF e[1] = b THEN JumpTag(Exit(e)) ELSE tags[e]]
    /\ UNCHANGED <<blocks, front, stage>>

MarkJumps(b) ==
    /\ stage = "markJumps"
    /\ b \in pending
    /\ pending' = pending \ {b}
    /\ tags' = [e \in DOMAIN tags |->
                   IF e[1] = b /\ ~(IsCallTag(tags[e]) \/ tags[e].k = "return")
                   THEN JumpTag(Exit(e)) ELSE tags[e]]
    /\ UNCHANGED <<blocks, front, stage>>

(***************************************************************************)
(* The order in which the translator script runs the passes, each over   *)
(* every block function before the next one starts.                       *)
(***************************************************************************)
PassAfter == [markCall |-> "markReturn", markReturn |-> "markJumps",
              markJumps |-> "classified"]

NextPass ==
    /\ stage \in DOMAIN PassAfter
    /\ pending = {}
    /\ stage' = PassAfter[stage]
    /\ pending' = IF PassAfter[stage] = "classified" THEN {} ELSE Starts
    /\ UNCHANGED <<blocks, tags, front>>

ClassifierInit ==
    /\ blocks \in BlockTables
    /\ tags = [e \in ExitIds |-> NoTag]
    /\ front = [b \in Starts |-> IF b = ProgramEntry THEN "entry" ELSE "plain"]
    /\ stage = "markCall"
    /\ pending = Starts

ClassifierNext ==
    \/ \E b \in Starts : MarkCall(b) \/ MarkReturn(b) \/ MarkJumps(b)
    \/ NextPass

=============================================================================
