------------------------- MODULE MCOverlapResolver -------------------------
(***************************************************************************)
(* Guest code for OverlapResolver, ARM mode, 4-byte instructions:         *)
(*    0: add r0, r0, #1                                                    *)
(*    4: mov lr, pc          LR := 12                                      *)
(*    8: ldr pc, [r3]        PC := load                                    *)
(*   20: add r0, r0, #1                                                    *)
(*   24: bl 40               LR := 28, PC := 40                            *)
(*   40: bx r2                                                             *)
(* and a Thumb decoding starting at 22, inside the instruction at 20,      *)
(* that meets the ARM one again at 24.  Blocks can start at any of these   *)
(* pcs, as jump targets found on different traces.                         *)
(***************************************************************************)
EXTENDS OverlapResolver

OpK == [k |-> "op"]
LRK(v) == [k |-> "lr", v |-> v]
PCK(v) == [k |-> "pc", v |-> v]
PCReg == [k |-> "pcreg"]

MCInsn ==
    (0 :> <<OpK, OpK>>) @@ (4 :> <<OpK, LRK(12)>>) @@ (8 :> <<OpK, PCReg>>)
    @@ (20 :> <<OpK, OpK>>) @@ (22 :> <<OpK>>)
    @@ (24 :> <<OpK, LRK(28), PCK(40)>>) @@ (40 :> <<OpK, PCReg>>)

AlignedCandidates ==
    {<<0, 4, 8>>, <<4, 8>>, <<8>>, <<20, 24>>, <<24>>, <<40>>}

MisalignedCandidates == {<<20, 24>>, <<22, 24>>, <<24>>, <<40>>}

AllCandidates == AlignedCandidates \cup MisalignedCandidates

=============================================================================
