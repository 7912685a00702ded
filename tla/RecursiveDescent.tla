--------------------------- MODULE RecursiveDescent ---------------------------
(***************************************************************************)
(* What recursive-descent exploration promises, without its worklist,     *)
(* its modes or its interval search (spec 2 and 3: the exploration front- *)
(* end discovers each block once).  A run starts at the entry, then       *)
(* discovers, one at a time, a pc inside the code that is a target of a   *)
(* block it already discovered, neither discovered before nor covered by  *)
(* what earlier runs explored; it ends as soon as no such pc is left.     *)
(* Before a run discovers anything, more of the code may become covered.  *)
(***************************************************************************)
EXTENDS Sequences, SequencesExt

CONSTANTS
    PCs,     \* the pcs of the guest
    Entry,   \* the pc every run starts at
    Valid,   \* the pcs inside the code
    Succ     \* pc -> the pcs its block may transfer control to

VARIABLES
    explored,  \* the pcs this run discovered, in order
    covered,   \* the pcs earlier runs explored
    done       \* the run has ended

vars == <<explored, covered, done>>

(* the pcs a run that discovered xs may discover next *)
Frontier(xs) ==
    (UNION {Succ[p] : p \in ToSet(xs)} \cap Valid) \ (ToSet(xs) \cup covered)

(* discover p; the run ends with it when nothing is left to discover *)
Visit(p) ==
    /\ explored' = Append(explored, p)
    /\ done' = (Frontier(explored') = {})
    /\ UNCHANGED covered

Init ==
    /\ explored = <<>>
    /\ covered = {}
    /\ done = FALSE

Cover ==
    /\ explored = <<>>
    /\ ~done
    /\ covered' \in SUBSET PCs
    /\ covered \subseteq covered'
    /\ UNCHANGED <<explored, done>>

Start ==
    /\ explored = <<>>
    /\ ~done
    /\ Visit(Entry)

Discover(p) ==
    /\ ~done
    /\ p \in Frontier(explored)
    /\ Visit(p)

(* a new run forgets what the last one discovered *)
Rerun ==
    /\ done
    /\ done' = FALSE
    /\ explored' = <<>>
    /\ UNCHANGED covered

Step == Start \/ \E p \in PCs : Discover(p)

Next == Cover \/ Step \/ Rerun

(* a run that has started keeps discovering until it ends *)
Spec == Init /\ [][Next]_vars /\ WF_vars(Step)

=============================================================================
