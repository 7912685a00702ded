-------------------------- MODULE FunctionAssembly --------------------------
(***************************************************************************)
(* What function assembly promises, independent of how it is done: each  *)
(* entry becomes one function made of exactly the blocks reachable from  *)
(* it over the successor edges (jumps, switch targets and call            *)
(* continuations, never into a callee), and a function once assembled is *)
(* never changed.  The successor edges and the entry set are settled by  *)
(* the earlier passes, before the first function is assembled.            *)
(***************************************************************************)
EXTENDS FiniteSets
LOCAL INSTANCE Graphs
LOCAL INSTANCE TLC

CONSTANT Starts     \* the block addresses

VARIABLES
    funcs,      \* entry -> the set of blocks of its function
    succ,       \* successor edges between blocks
    entries     \* the addresses known to be entries

vars == <<funcs, succ, entries>>

Reachable(e) == {e} \cup Descendants([node |-> Starts, edge |-> succ], e)

Init ==
    /\ funcs = [x \in {} |-> {}]
    /\ succ \in SUBSET (Starts \X Starts)
    /\ entries \in SUBSET Starts

(* the earlier passes classify exits and name entries *)
Prepare ==
    /\ DOMAIN funcs = {}
    /\ succ' \in SUBSET (Starts \X Starts)
    /\ entries' \in SUBSET Starts
    /\ UNCHANGED funcs

Build(e) ==
    /\ e \in entries \ DOMAIN funcs
    /\ funcs' = funcs @@ (e :> Reachable(e))
    /\ UNCHANGED <<succ, entries>>

Next == Prepare \/ \E e \in Starts : Build(e)

Spec == Init /\ [][Next]_vars

=============================================================================
