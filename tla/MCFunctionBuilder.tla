------------------------- MODULE MCFunctionBuilder -------------------------
(***************************************************************************)
(* Model values for FunctionBuilder: three 2-byte blocks at 2, 4 and 6.   *)
(* Address 8 (the end of the last block) was never discovered, so jumps,  *)
(* call continuations and switch cases that go there are unresolved.      *)
(* Each exit is one of a few shapes of the IR the ARM front end emits     *)
(* for the last guest instruction of a block.                             *)
(***************************************************************************)
EXTENDS FunctionBuilder

MCStarts == {2, 4, 6}
MCSwitchCases == <<4, 8>>

ConstPC(t) == [k |-> "const", v |-> t]
LRConst(off) == [k |-> "const", off |-> off]

(* b t / b.n t: PC := t *)
Jmp(t) == [lr |-> <<>>, pc |-> ConstPC(t), sw |-> "none"]
(* bl t: LR := end + off, PC := t; off 1 is the Thumb bit, off 2 a mismatch *)
Call(t, off) == [lr |-> <<LRConst(off)>>, pc |-> ConstPC(t), sw |-> "none"]
(* blx r3: LR := end | 1, PC := r3 & -2 *)
ICall == [lr |-> <<LRConst(1)>>, pc |-> [k |-> "reg"], sw |-> "none"]
(* bx lr: PC := LR & -2 *)
Ret == [lr |-> <<>>, pc |-> [k |-> "lr"], sw |-> "none"]
(* pop {lr}; bx lr: LR := ldl(sp), PC := ldl(sp) & -2 *)
RetSpill == [lr |-> <<[k |-> "nonconst"]>>, pc |-> [k |-> "lrspill"], sw |-> "none"]
(* bx r3 *)
IJmp == [lr |-> <<>>, pc |-> [k |-> "reg"], sw |-> "none"]
(* ldr pc, [pc, r3, lsl #2] with a jump table: the index is a shl by 2 *)
Switch == [lr |-> <<>>, pc |-> [k |-> "reg"], sw |-> "ok"]
(* a jump table whose index computation has no shl by 1 or 2 *)
SwitchNoShl == [lr |-> <<>>, pc |-> [k |-> "reg"], sw |-> "noShl"]
(* blx lr: tmp := LR, LR := end | 1, PC := tmp & -2 *)
BlxLR == [lr |-> <<LRConst(1)>>, pc |-> [k |-> "lr"], sw |-> "none"]

ShapesPass ==
    {Jmp(4), Jmp(6), Jmp(8), Call(6, 0), Call(4, 1), Call(4, 2),
     ICall, Ret, RetSpill, IJmp, Switch}
CondShapesPass == {Call(4, 0), Jmp(2), Ret}

ShapesBlx == {Jmp(4), Call(6, 0), Ret, BlxLR}
ShapesNoShl == {Jmp(4), Call(6, 0), Ret, SwitchNoShl}
CondShapesSmall == {Jmp(2), Call(4, 0)}

=============================================================================
