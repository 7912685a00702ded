-------------------------- MODULE VisitedIntervals --------------------------
(***************************************************************************)
(* The already-visited pc intervals of RecursiveDescentDisassembler.      *)
(* The constructor loads them, in file order, from the                    *)
(* initialAlreadyVisited file into m_visitedPCIntervals (and their starts *)
(* into m_visitedPC); explorePCLater asks isPCInVisitedIntervalsBsearch   *)
(* whether a pc is covered before scheduling it.                          *)
(*                                                                         *)
(* Indices below are the code's 0-based ints; At(iv, i) reads iv[i].      *)
(* Exploration drives the loading with the rest of the constructor.       *)
(***************************************************************************)
EXTENDS Integers, Sequences

CONSTANTS
    PCs,            \* the pcs an interval may start or end at
    MaxIntervals,   \* bound on the length of the file
    SizeTBits       \* width of size_t; any width above log2(MaxIntervals) behaves alike

VARIABLES
    visitedPCIntervals,  \* m_visitedPCIntervals: Seq(<<first, second>>)
    visitedPC            \* m_visitedPC: the pcs marked visited

vars == <<visitedPCIntervals, visitedPC>>

At(iv, i) == iv[i + 1]

(* an int converted to size_t for the comparison idx < size() *)
ToSizeT(i) == i % (2 ^ SizeTBits)

(***************************************************************************)
(* The scan that ends the bsearch: walk from idx while idx < size(),     *)
(* succeed inside an interval, stop at the first interval that starts    *)
(* after pc.  (isPCInVisitedIntervalsLinear, the same scan from 0, has no *)
(* caller and is left out.)                                               *)
(***************************************************************************)
RECURSIVE ScanFrom(_, _, _)
ScanFrom(iv, pc, idx) ==
    IF ~(ToSizeT(idx) < Len(iv)) THEN FALSE
    ELSE IF At(iv, idx)[1] <= pc /\ pc <= At(iv, idx)[2] THEN TRUE
    ELSE IF At(iv, idx)[1] > pc THEN FALSE
    ELSE ScanFrom(iv, pc, idx + 1)

(***************************************************************************)
(* The binary search loop.  It narrows [a, b] with its own int mid,       *)
(* declared inside the loop, and yields that mid.                          *)
(***************************************************************************)
RECURSIVE BsearchLoop(_, _, _, _, _)
BsearchLoop(iv, pc, a, b, mid) ==
    IF a > b THEN mid
    ELSE LET m == (a + b) \div 2 IN
         IF At(iv, m)[1] = pc THEN m
         ELSE IF At(iv, m)[1] > pc THEN BsearchLoop(iv, pc, a, m - 1, m)
         ELSE BsearchLoop(iv, pc, m + 1, b, m)

(* "adjust left": step back over the intervals that start exactly at pc *)
RECURSIVE AdjustLeft(_, _, _)
AdjustLeft(iv, pc, idx) ==
    IF idx >= 0 /\ At(iv, idx)[1] = pc THEN AdjustLeft(iv, pc, idx - 1) ELSE idx

(***************************************************************************)
(* isPCInVisitedIntervalsBsearch.  idx is assigned from the outer mid,    *)
(* which is still -1: the loop wrote its own mid.                          *)
(***************************************************************************)
IsPCInVisitedIntervalsBsearch(iv, pc) ==
    LET a == 0
        b == Len(iv) - 1
        outerMid == -1
        loopMid == BsearchLoop(iv, pc, a, b, -1)
        idx == outerMid
    IN  IF a > b THEN FALSE
        ELSE ScanFrom(iv, pc, AdjustLeft(iv, pc, idx))

(* pc_start and pc_end read in the wrong order *)
LoadVisitedIntervalSwapped(first, second) ==
    /\ Len(visitedPCIntervals) < MaxIntervals
    /\ visitedPC' = visitedPC \cup {second}
    /\ visitedPCIntervals' = Append(visitedPCIntervals, <<second, first>>)

(***************************************************************************)
(* The constructor reads one more [pc_start, pc_end] pair of the file.    *)
(***************************************************************************)
LoadVisitedInterval(first, second) ==
    /\ Len(visitedPCIntervals) < MaxIntervals
    /\ visitedPC' = visitedPC \cup {first}
    /\ visitedPCIntervals' = Append(visitedPCIntervals, <<first, second>>)

-----------------------------------------------------------------------------
Covered(iv, pc) == \E i \in DOMAIN iv : iv[i][1] <= pc /\ pc <= iv[i][2]

TypeOK ==
    /\ visitedPCIntervals \in Seq({p \in PCs \X PCs : p[1] <= p[2]})
    /\ Len(visitedPCIntervals) <= MaxIntervals
    /\ visitedPC \subseteq PCs

=============================================================================
