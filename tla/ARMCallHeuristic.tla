-------------------------- MODULE ARMCallHeuristic --------------------------
(***************************************************************************)
(* The test ARMMarkCall applies to a store to PC: the last constant      *)
(* stored to LR in the same basic block is the return address of a call  *)
(* when it is BB_pcEnd, or BB_pcEnd with the Thumb bit set.  Shared by    *)
(* the classifier and by the overlap resolver, whose split blocks it      *)
(* later classifies.                                                       *)
(***************************************************************************)
EXTENDS Naturals

IsCallReturn(pcEnd, lrVal) == pcEnd = lrVal \/ pcEnd = lrVal - 1

(* lrVal & -2 *)
ClearThumb(v) == v - (v % 2)

=============================================================================
