--------------------------- MODULE MCPostProcess ---------------------------
(***************************************************************************)
(* Two rounds.  Round 0 built F (start 0) and G (start 16); its optimised *)
(* copies are opt-func {F, G} and opt-remaining {B}, a block left out of *)
(* every function.  Round 1 built G1 (start 16 again) and H (start 40),  *)
(* next to a helper X without the tag and a function E whose entry lost  *)
(* BB_pcStart.  F calls 16, 40 and 64 (no function starts at 64).        *)
(*                                                                         *)
(* The stores of F: ldr pc, [pc, #k] at 4 (folded to 32); blx r3 at 8    *)
(* (LR := 12, PC not folded); bx r2 at 12 (thumb and PC folded) with    *)
(* mov r0 at 12 (folded to 7); R0 := r2 at 16, sharing the value of PC  *)
(* at 12.  G returns with bx lr at 20, not folded, and stores R0 at 24,  *)
(* deleted by the optimiser.                                              *)
(***************************************************************************)
EXTENDS PostProcess

CONSTANTS RegV, GoneV, NoValueV, v1, v2, v3, v4, v5

(* a store in the basic block of its instruction *)
St(g, pc, v) == [g |-> g, pc |-> pc, v |-> v, bb |-> pc]

MCStoresOf ==
    [f \in {"F", "G", "B", "G1", "H", "X", "E"} |->
        CASE f = "F" -> <<St("PC", 4, v1), St("LR", 8, 12), St("PC", 8, v2),
                          St("thumb", 12, v3), St("PC", 12, v4), St("R0", 12, v5),
                          St("R0", 16, v4)>>
          [] f = "G" -> <<St("PC", 20, v1), St("R0", 24, v2)>>
          [] f = "B" -> <<St("PC", 44, v1)>>
          [] OTHER   -> <<>>]

MCOptVal ==
    (<<"F", 1>> :> 32) @@ (<<"F", 2>> :> 12) @@ (<<"F", 3>> :> RegV) @@
    (<<"F", 4>> :> 1) @@ (<<"F", 5>> :> 20) @@ (<<"F", 6>> :> 7) @@ (<<"F", 7>> :> 20) @@
    (<<"G", 1>> :> RegV) @@ (<<"G", 2>> :> GoneV) @@ (<<"B", 1>> :> 48)

(* G's return is conditional, bxne lr: the fall-through stores PC := 24  *)
(* at the same pc, in the exit basic block after the taken one            *)
MCStoresOfCondReturn ==
    [MCStoresOf EXCEPT !["G"] = Append(@, [St("PC", 20, 24) EXCEPT !.bb = 21])]

MCOptValCondReturn == MCOptVal @@ (<<"G", 3>> :> 24)

MCOptFiles == <<{"F", "G"}, {"B"}>>
MCFuncs == <<"F", "G">>

MCLinkFiles == <<MCFuncs, <<"X", "G1", "E", "H">>>>
MCLNamed == [f \in {"F", "G", "G1", "H", "X", "E"} |-> f # "X"]
MCLHasPcStart == [f \in {"F", "G", "G1", "H", "X", "E"} |-> f # "E"]
MCLStart == ("F" :> 0) @@ ("G" :> 16) @@ ("G1" :> 16) @@ ("H" :> 40) @@ ("X" :> 0) @@ ("E" :> 0)
MCLCalls == ("F" :> <<16, 40, 64>>) @@ ("G" :> <<0>>) @@ ("G1" :> <<40>>) @@
            ("H" :> <<>>) @@ ("X" :> <<>>) @@ ("E" :> <<16>>)

=============================================================================
