--------------------------- MODULE InlineHelpers ---------------------------
(***************************************************************************)
(* S2EInlineHelpersPass::runOnFunction, run by slotExecuteBlockStart on   *)
(* the function of every translated block.  A function is the sequence   *)
(* of its call sites, each the name of its callee.  Each round of the    *)
(* while (true) loop collects every call to a function named in          *)
(* INLINE_FUNCTIONS and inlines them in order; InlineFunction replaces a *)
(* call by the calls of the callee's body, and fails on a callee that is *)
(* only declared, which ends the round (break) but not the loop.  The    *)
(* loop ends with a round that collects nothing.                         *)
(***************************************************************************)
EXTENDS Sequences, SequencesExt

CONSTANTS
    Callees,          \* the names a call may have
    InlineFunctions,  \* the names listed in INLINE_FUNCTIONS
    Body              \* callee -> the calls of its body; absent: declared only

(* the callees InlineFunction can inline: those with a body *)
Defined == DOMAIN Body

(* every named callee is inlined, whether listed or not *)
ShouldInlineCallAnyNamed(callee) == TRUE

(***************************************************************************)
(* shouldInlineCall: a direct call to a named function whose name is in   *)
(* INLINE_FUNCTIONS.                                                       *)
(***************************************************************************)
ShouldInlineCall(callee) == callee \in InlineFunctions

(* functionsToInline: the positions of the calls to inline, in order *)
FunctionsToInline(fn) == {i \in DOMAIN fn : ShouldInlineCall(fn[i])}

(* the first call InlineFunction fails on; the round breaks there *)
FirstFailure(fn) ==
    LET failing == {i \in FunctionsToInline(fn) : fn[i] \notin Defined}
    IN  IF failing = {} THEN Len(fn) + 1 ELSE Min(failing)

(***************************************************************************)
(* One round of the loop: each collected call before the first failure is *)
(* replaced by the calls of its callee's body.                            *)
(***************************************************************************)
InlineRound(fn) ==
    FlattenSeq([i \in DOMAIN fn |->
        IF i \in FunctionsToInline(fn) /\ i < FirstFailure(fn)
        THEN Body[fn[i]]
        ELSE <<fn[i]>>])

(* the loop has collected nothing: runOnFunction returns *)
InlineDone(fn) == FunctionsToInline(fn) = {}

=============================================================================
