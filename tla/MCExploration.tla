---------------------------- MODULE MCExploration ----------------------------
(***************************************************************************)
(* A guest with an ARM part and a Thumb part (pcs 16 and 20); each block  *)
(* with the constant stores of its exits.                                 *)
(*   16 (Thumb, the entry): blx 0   LR := 21, thumb := 0, PC := 0         *)
(*   20 (Thumb): bx lr              (no constant store)                   *)
(*    0 (ARM):   bl 8               LR := 4, PC := 8                      *)
(*    4 (ARM):   blx 28             LR := 8, thumb := 1, PC := 28         *)
(*    8 (ARM):   b 24               PC := 24                              *)
(*   24 (ARM):   ldr pc, [pc, r0, lsl #2], a switch whose jump table has  *)
(*               the entries 8 and 12 and the default case 4              *)
(*   12 (ARM):   bx lr                                                     *)
(* 28 is outside the mapped code (a library stub).                        *)
(***************************************************************************)
EXTENDS Exploration

MCPCs == {0, 4, 8, 12, 16, 20, 24, 28}
MCValidPCs == MCPCs \ {28}
MCThumbPCs == {16, 20}

St(r, v) == [reg |-> r, v |-> v]

MCExits ==
    [p \in MCPCs |->
        CASE p = 16 -> << <<St("lr", 21), St("thumb", 0), St("pc", 0)>> >>
          [] p = 0  -> << <<St("lr", 4), St("pc", 8)>> >>
          [] p = 4  -> << <<St("lr", 8), St("thumb", 1), St("pc", 28)>> >>
          [] p = 8  -> << <<St("pc", 24)>> >>
          [] OTHER  -> << <<>> >>]

MCBlockEnd == [p \in MCPCs |-> p + 4]

(* the helper calls of the block functions: the add at 8 sets the flags *)
(* through helper_add_cc, whose body calls uadd; both are listed, and    *)
(* helper_cpsr_read, only declared, is not                               *)
MCCallees == {"helper_add_cc", "uadd", "helper_cpsr_read"}
MCInlineFunctions == {"helper_add_cc", "uadd"}
MCBody == ("helper_add_cc" :> <<"uadd", "helper_cpsr_read">>) @@ ("uadd" :> <<>>)
MCCalls ==
    [p \in MCPCs |->
        CASE p = 8  -> <<"helper_add_cc", "helper_cpsr_read">>
          [] p = 0  -> <<"helper_cpsr_read">>
          [] OTHER  -> <<>>]

(* the jump table file: main's table for 24 has entries 3 to 4 at 100,  *)
(* 8 and 12; f lists a table for 0 with another block end, which the     *)
(* bb_end test skips                                                      *)
JT(s, e, d, base, i0, i1) ==
    [bb_start |-> s, bb_end |-> e, indirect_jmp_pc |-> s, default_case_pc |-> d,
     base_table |-> base, idx_start |-> i0, idx_stop |-> i1]

MCJumpTableFile ==
    << <<JT(24, 28, 4, 100, 3, 4)>>, <<JT(0, 8, 12, 108, 0, 0)>> >>

MCMem == (100 :> 8) @@ (104 :> 12) @@ (108 :> 12)

(* 16 is instead "it eq; blxeq 0": its second exit, not taken, stores   *)
(* PC := 20 without the thumb bit                                         *)
MCExitsCondBlx ==
    [MCExits EXCEPT ![16] = << <<St("lr", 21), St("thumb", 0), St("pc", 0)>>,
                               <<St("pc", 20)>> >>]

=============================================================================
