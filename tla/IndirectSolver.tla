---------------------------- MODULE IndirectSolver ----------------------------
(***************************************************************************)
(* SolveIndirectSingle: initialize reads the optimised copies of the      *)
(* functions (-optfile, in order) and records, per global and INS_currPC, *)
(* the constant the last store of that global at that pc holds            *)
(* (expandDirectStoresWithModule).  Then, per function of the module the  *)
(* pass runs on, every non-constant store to a global of interest whose   *)
(* (global, pc) the table knows gets the recorded constant as             *)
(* INS_computedValue (R0, PC, thumb) and is replaced by it (PC, thumb);   *)
(* solved PC values are collected for the solved file.                    *)
(*                                                                         *)
(* A store site is <<f, i>>, the i-th store to a global of function f.    *)
(* The optimised copy of a function has the same stores, each either     *)
(* folded to a constant, still not constant, or deleted.                  *)
(***************************************************************************)
EXTENDS Naturals, Sequences, FiniteSets, SequencesExt, TLC

CONSTANTS
    Reg,        \* the optimised copy stores a value that is not a constant
    Gone,       \* the optimiser deleted the store
    NoValue,    \* m_directStores has no value for the global at the pc
    StoresOf,   \* function -> Seq([g, pc, v, bb]) of its stores to globals,
                \* v a constant (Nat) or the stored SSA value (a model value)
    OptVal,     \* store site -> its value in the optimised copy
    OptFiles,   \* Seq of the -optfile modules, each a set of functions
    Funcs       \* the functions of the module the pass runs on, in order

Sites(f) == {<<f, i>> : i \in DOMAIN StoresOf[f]}
Site(x) == StoresOf[x[1]][x[2]]
Keys == UNION {{<<s.g, s.pc>> : s \in ToSet(StoresOf[f])} : f \in DOMAIN StoresOf}

(* m_performAnnotationOnTheseGlobals, m_performReplaceOnTheseGlobals *)
AnnotateGlobals == {"R0", "PC", "thumb"}
ReplaceGlobals == {"PC", "thumb"}

VARIABLES
    sstage,       \* expand (initialize), annotate (runOnFunction), done
    optOrder,     \* the module order of each -optfile module
    optIdx,       \* the next -optfile to read
    directStores, \* m_directStores: <<global, pc>> -> constant, or NoValue
    todo,         \* the functions runOnFunction has not visited yet
    computed,     \* site -> its INS_computedValue
    replaced,     \* site -> the constant its stored value was replaced by
    solvedPCs     \* m_solvedPCs

solverVars == <<sstage, optOrder, optIdx, directStores, todo, computed, replaced, solvedPCs>>

(* the stores of module m, in module order, each function's in order *)
ModuleSites(m) == FlattenSeq([k \in DOMAIN m |-> [i \in DOMAIN StoresOf[m[k]] |-> <<m[k], i>>]])

(* one map for all globals: the value is recorded under every global *)
RecordAllGlobals(tbl, x) ==
    IF OptVal[x] \in {Reg, Gone} THEN tbl
    ELSE [k \in DOMAIN tbl |-> IF k[2] = Site(x).pc THEN OptVal[x] ELSE tbl[k]]

(* the test that the stored value is a ConstantInt is missing *)
RecordNoConstCheck(tbl, x) ==
    IF OptVal[x] = Gone THEN tbl
    ELSE [tbl EXCEPT ![<<Site(x).g, Site(x).pc>>] = OptVal[x]]

(* one store of expandDirectStoresWithModule: valueMap[pc] = val *)
Record(tbl, x) ==
    IF OptVal[x] \in {Reg, Gone} THEN tbl
    ELSE [tbl EXCEPT ![<<Site(x).g, Site(x).pc>>] = OptVal[x]]

(***************************************************************************)
(* initialize, one -optfile per step: ParseIRFile either fails (logged)   *)
(* or the module's constant stores are recorded, the last one winning.    *)
(***************************************************************************)
ExpandDirectStoresWithModule ==
    /\ sstage = "expand"
    /\ optIdx <= Len(OptFiles)
    /\ \/ directStores' = FoldLeft(Record, directStores, ModuleSites(optOrder[optIdx]))
       \/ UNCHANGED directStores
    /\ optIdx' = optIdx + 1
    /\ UNCHANGED <<sstage, optOrder, todo, computed, replaced, solvedPCs>>

EndInitialize ==
    /\ sstage = "expand"
    /\ optIdx > Len(OptFiles)
    /\ sstage' = "annotate"
    /\ UNCHANGED <<optOrder, optIdx, directStores, todo, computed, replaced, solvedPCs>>

(* the value the store at site x stores once earlier replaceAllUsesWith *)
(* calls of the function are applied                                    *)
Stored(rauw, x) == IF Site(x).v \in DOMAIN rauw THEN rauw[Site(x).v] ELSE Site(x).v

ValueAt(tbl, x) == tbl[<<Site(x).g, Site(x).pc>>]

(***************************************************************************)
(* One store of performAnnotations: a store of a constant, or to a global *)
(* of neither set, or at a (global, pc) the table does not know, is left; *)
(* otherwise the value is reported (PC), annotated and replaced in all    *)
(* its uses.                                                               *)
(***************************************************************************)
AnnotateStore(acc, x) ==
    LET g == Site(x).g
        c == ValueAt(directStores, x)
    IN  IF \/ Stored(acc.rauw, x) \in Nat
           \/ g \notin AnnotateGlobals \cup ReplaceGlobals
           \/ c = NoValue
        THEN acc
        ELSE [rauw     |-> IF g \in ReplaceGlobals
                           THEN acc.rauw @@ (Site(x).v :> c) ELSE acc.rauw,
              computed |-> IF g \in AnnotateGlobals
                           THEN acc.computed @@ (x :> c) ELSE acc.computed,
              replaced |-> IF g \in ReplaceGlobals
                           THEN acc.replaced @@ (x :> c) ELSE acc.replaced,
              pcs      |-> IF g = "PC" THEN Append(acc.pcs, c) ELSE acc.pcs]

(***************************************************************************)
(* runOnFunction of the next function: performAnnotations over its       *)
(* stores in order.                                                       *)
(***************************************************************************)
PerformAnnotations ==
    /\ sstage = "annotate"
    /\ todo # <<>>
    /\ LET f   == Head(todo)
           r   == FoldLeft(AnnotateStore,
                           [rauw |-> <<>>, computed |-> computed,
                            replaced |-> replaced, pcs |-> solvedPCs],
                           [i \in DOMAIN StoresOf[f] |-> <<f, i>>])
       IN  /\ computed' = r.computed
           /\ replaced' = r.replaced
           /\ solvedPCs' = r.pcs
    /\ todo' = Tail(todo)
    /\ sstage' = IF Len(todo) = 1 THEN "done" ELSE sstage
    /\ UNCHANGED <<optOrder, optIdx, directStores>>

SolverInit ==
    /\ sstage = "expand"
    /\ optOrder \in {o \in [DOMAIN OptFiles -> UNION {SetToSeqs(OptFiles[i]) : i \in DOMAIN OptFiles}] :
                        \A i \in DOMAIN OptFiles : o[i] \in SetToSeqs(OptFiles[i])}
    /\ optIdx = 1
    /\ directStores = [k \in Keys |-> NoValue]
    /\ todo = Funcs
    /\ computed = <<>>
    /\ replaced = <<>>
    /\ solvedPCs = <<>>

SolverNext ==
    \/ ExpandDirectStoresWithModule
    \/ EndInitialize
    \/ PerformAnnotations

-----------------------------------------------------------------------------
SolverTypeOK ==
    /\ sstage \in {"expand", "annotate", "done"}
    /\ \A k \in Keys : directStores[k] \in Nat \cup {NoValue}
    /\ DOMAIN computed \subseteq UNION {Sites(f) : f \in ToSet(Funcs)}
    /\ DOMAIN replaced \subseteq DOMAIN computed
    /\ \A x \in DOMAIN computed : computed[x] \in Nat

(***************************************************************************)
(* A store is annotated or replaced only with the constant its own        *)
(* optimised copy holds: the table keyed by (global, INS_currPC) never    *)
(* hands one store's value to another store of the same pc.               *)
(***************************************************************************)
SolvedValueIsOwn ==
    /\ \A x \in DOMAIN computed : computed[x] = OptVal[x]
    /\ \A x \in DOMAIN replaced : replaced[x] = OptVal[x]

=============================================================================
