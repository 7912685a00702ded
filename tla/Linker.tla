------------------------------- MODULE Linker -------------------------------
(***************************************************************************)
(* The linker (postprocess/linker/main.cpp): the functions of the input   *)
(* files are gathered, one per start pc, the first found winning; they    *)
(* are cloned into a new module as linked-final-func-*; the new module's  *)
(* functions are gathered again, and every store tagged INS_directCall    *)
(* whose target pc is the start of a gathered function is replaced by a   *)
(* call to it.                                                             *)
(*                                                                         *)
(* An input function is [orig |-> f], its clone [clone |-> f]; a store    *)
(* tagged INS_directCall is <<function, k>>, the k-th of the function.    *)
(***************************************************************************)
EXTENDS Naturals, Sequences, FiniteSets, SequencesExt, TLC

CONSTANTS
    LinkFiles,    \* Seq of the input files, each the Seq of its functions
    LNamed,       \* function -> its name contains "void-tcg-llvm-tb"
    LHasPcStart,  \* function -> its entry instruction has BB_pcStart
    LStart,       \* function -> getPCStartOfFunc
    LCalls        \* function -> the targets of its INS_directCall stores

Base(x) == IF "clone" \in DOMAIN x THEN x.clone ELSE x.orig

VARIABLES
    lstage,       \* gather, clone, regather, link, done
    lfile,        \* the next input file gatherFuncs parses
    lloaded,      \* the input files ParseIRFile could load
    allFuncsMap,  \* start pc -> function
    allFuncsList, \* the gathered functions, in order
    newModule,    \* the functions of the module "LinkedFunctions"
    linked        \* store <<clone, k>> -> the function it now calls

linkerVars == <<lstage, lfile, lloaded, allFuncsMap, allFuncsList, newModule, linked>>

(* a function already in the map is ignored *)
GatherFuncLastWins(acc, x) ==
    IF ~LNamed[Base(x)] \/ ~LHasPcStart[Base(x)] THEN acc
    ELSE [map  |-> (LStart[Base(x)] :> x) @@ acc.map,
          list |-> Append(acc.list, x)]

(***************************************************************************)
(* One function of gatherFuncsFromModule: skipped unless its name has    *)
(* the tag and its entry has BB_pcStart; kept only if its start is new.  *)
(***************************************************************************)
GatherFunc(acc, x) ==
    IF \/ ~LNamed[Base(x)]
       \/ ~LHasPcStart[Base(x)]
       \/ LStart[Base(x)] \in DOMAIN acc.map
    THEN acc
    ELSE [map  |-> acc.map @@ (LStart[Base(x)] :> x),
          list |-> Append(acc.list, x)]

GatherFuncsFromModule(m, acc) == FoldLeft(GatherFunc, acc, m)

(* gatherFuncs, one file per step: ParseIRFile fails (logged), or the     *)
(* functions of the file are gathered                                      *)
GatherFile ==
    /\ lstage = "gather"
    /\ lfile <= Len(LinkFiles)
    /\ \/ LET r == GatherFuncsFromModule(
                       [k \in DOMAIN LinkFiles[lfile] |-> [orig |-> LinkFiles[lfile][k]]],
                       [map |-> allFuncsMap, list |-> allFuncsList])
          IN  /\ allFuncsMap' = r.map
              /\ allFuncsList' = r.list
              /\ lloaded' = lloaded \cup {lfile}
       \/ UNCHANGED <<allFuncsMap, allFuncsList, lloaded>>
    /\ lfile' = lfile + 1
    /\ lstage' = IF lfile = Len(LinkFiles) THEN "clone" ELSE lstage
    /\ UNCHANGED <<newModule, linked>>

(* cloneFuncs: one clone per gathered function, in list order *)
CloneFuncs ==
    /\ lstage = "clone"
    /\ newModule' = [i \in DOMAIN allFuncsList |-> [clone |-> Base(allFuncsList[i])]]
    /\ lstage' = "regather"
    /\ UNCHANGED <<lfile, lloaded, allFuncsMap, allFuncsList, linked>>

(* the maps are not cleared and gathered again from the new module *)
RegatherSkipped ==
    /\ lstage = "regather"
    /\ lstage' = "link"
    /\ UNCHANGED <<lfile, lloaded, allFuncsMap, allFuncsList, newModule, linked>>

(* main: the maps are cleared and gathered again from the new module *)
Regather ==
    /\ lstage = "regather"
    /\ LET r == GatherFuncsFromModule(newModule, [map |-> <<>>, list |-> <<>>])
       IN  /\ allFuncsMap' = r.map
           /\ allFuncsList' = r.list
    /\ lstage' = "link"
    /\ UNCHANGED <<lfile, lloaded, newModule, linked>>

(***************************************************************************)
(* linkFuncs: the INS_directCall stores of the gathered functions whose  *)
(* target is in the map are collected (an unknown target is logged and   *)
(* skipped) and each is replaced by a call to the target's function.     *)
(***************************************************************************)
DirectCalls ==
    UNION {{<<c, k>> : k \in {k \in DOMAIN LCalls[Base(c)] : LCalls[Base(c)][k] \in DOMAIN allFuncsMap}} :
              c \in ToSet(allFuncsList)}

LinkFuncs ==
    /\ lstage = "link"
    /\ linked' = [s \in DirectCalls |-> allFuncsMap[LCalls[Base(s[1])][s[2]]]]
    /\ lstage' = "done"
    /\ UNCHANGED <<lfile, lloaded, allFuncsMap, allFuncsList, newModule>>

LinkerInit ==
    /\ lstage = "gather"
    /\ lfile = 1
    /\ lloaded = {}
    /\ allFuncsMap = <<>>
    /\ allFuncsList = <<>>
    /\ newModule = <<>>
    /\ linked = <<>>

LinkerNext ==
    \/ GatherFile
    \/ CloneFuncs
    \/ Regather
    \/ LinkFuncs

-----------------------------------------------------------------------------
LFuncs == UNION {ToSet(LinkFiles[i]) : i \in DOMAIN LinkFiles}
AnyFunc == {[orig |-> f] : f \in LFuncs} \cup {[clone |-> f] : f \in LFuncs}

LinkerTypeOK ==
    /\ lstage \in {"gather", "clone", "regather", "link", "done"}
    /\ lloaded \subseteq DOMAIN LinkFiles
    /\ \A s \in DOMAIN linked : s[1] \in AnyFunc /\ linked[s] \in AnyFunc
    /\ \A i \in DOMAIN newModule : newModule[i] \in AnyFunc

(* the functions gatherFuncs may keep: those of the loaded files, in file *)
(* and module order, with the tag and BB_pcStart                          *)
Inputs ==
    SelectSeq(FlattenSeq([i \in DOMAIN LinkFiles |-> IF i \in lloaded THEN LinkFiles[i] ELSE <<>>]),
              LAMBDA f : LNamed[f] /\ LHasPcStart[f])
InputStarts == {LStart[f] : f \in ToSet(Inputs)}
FirstAt(p) == Inputs[SelectInSeq(Inputs, LAMBDA f : LStart[f] = p)]

(***************************************************************************)
(* The linked module has exactly one function per start pc found in the   *)
(* loaded files, and it is the clone of the first function with that      *)
(* start, across gatherFuncs and the regathering of the new module.       *)
(***************************************************************************)
LinkedOncePerStart ==
    lstage = "done" =>
        /\ IsInjective([i \in DOMAIN newModule |-> LStart[newModule[i].clone]])
        /\ {LStart[c.clone] : c \in ToSet(newModule)} = InputStarts
        /\ \A p \in InputStarts : [clone |-> FirstAt(p)] \in ToSet(newModule)

(***************************************************************************)
(* Every direct call of a linked function whose target is a start becomes *)
(* a call to the function of the linked module with that start; a call   *)
(* to any other pc stays a store to PC.                                   *)
(***************************************************************************)
CallsLinked ==
    lstage = "done" =>
        \A c \in ToSet(newModule) : \A k \in DOMAIN LCalls[c.clone] :
            IF LCalls[c.clone][k] \in InputStarts
            THEN /\ <<c, k>> \in DOMAIN linked
                 /\ linked[<<c, k>>] \in ToSet(newModule)
                 /\ LStart[linked[<<c, k>>].clone] = LCalls[c.clone][k]
            ELSE <<c, k>> \notin DOMAIN linked

=============================================================================
