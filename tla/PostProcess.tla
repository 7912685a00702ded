---------------------------- MODULE PostProcess ----------------------------
(***************************************************************************)
(* The end of one translation round: opt -solveindirectsingle rewrites   *)
(* the module of built functions, then the linker links it with the      *)
(* function modules of the other rounds.  The linker starts once the     *)
(* solver pass is done; its first input file holds the solver's module.  *)
(***************************************************************************)
EXTENDS ThumbDump, Linker

postVars == <<solverVars, dumpVars, linkerVars>>

PostInit == SolverInit /\ DumpInit /\ LinkerInit

PostNext ==
    \/ sstage # "done" /\ SolverNext /\ UNCHANGED <<dumpVars, linkerVars>>
    \/ DumpThumbBit /\ UNCHANGED linkerVars
    \/ dstage = "done" /\ LinkerNext /\ UNCHANGED <<solverVars, dumpVars>>

PostSpec == PostInit /\ [][PostNext]_postVars

-----------------------------------------------------------------------------
PostTypeOK == SolverTypeOK /\ DumpTypeOK /\ LinkerTypeOK

=============================================================================
