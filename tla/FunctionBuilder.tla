--------------------------- MODULE FunctionBuilder ---------------------------
(***************************************************************************)
(* The entry detector (MarkFuncEntry) and the function assembler           *)
(* (BuildFunctions) run over the classified block functions.              *)
(*                                                                         *)
(* BuildFunctions visits the block functions in module order.  For each   *)
(* whose front block is named func_entry_point it runs                    *)
(* makeFunctionForward: exploreBB computes the blocks reachable from the  *)
(* entry; inlineBBs clones them into a new function, plus a               *)
(* fake_indirect_bb when an indirect jump was seen; the four fixups then  *)
(* rewrite every exit.  Between fixups the pc-to-block map is rebuilt.    *)
(* After all functions are built, the fixup loop inserts a fixup_entry    *)
(* block in front of any entry block that has predecessors.               *)
(*                                                                         *)
(* An exit basic block of the new function is represented by the          *)
(* sequence of terminators it ends with.  It starts as the INS_fakeReturn *)
(* <<ret>> of the block function.  Each fixup appends a terminator, and   *)
(* cleanupFakeReturns removes the fake return.                            *)
(***************************************************************************)
EXTENDS Classifier, SequencesExt

CONSTANTS
    SwitchCases,    \* INS_switch_case0.. of a resolved jump table
    SwitchDefault,  \* INS_switch_default
    NULL,           \* a null BasicBlock * in a std::map
    FAKE            \* the fake_indirect_bb placeholder block

VARIABLES
    todo,       \* block functions the entry loop of runOnModule has not reached
    cur,        \* entry being built by makeFunctionForward, or NULL
    phase,      \* the step of makeFunctionForward
    queue,      \* exploreBB: BBsToBeExpanded
    bbsList,    \* exploreBB: BBsForThisFunction
    hasIJ,      \* exploreBB: hasIndirectJump
    bbMap,      \* pcToBB: pc -> block start of the new function, or NULL
    term,       \* terminators ending each exit basic block of the new function
    fake,       \* the new function has a fake_indirect_bb
    funcs       \* the built functions, by entry

buildVars == <<todo, cur, phase, queue, bbsList, hasIJ, bbMap, term, fake, funcs>>
vars == <<classVars, buildVars>>

FakeRet == [k |-> "fakeRet"]
RetTerm == [k |-> "ret"]
Br(d) == [k |-> "br", dests |-> {d}]
SwitchTerm(ds) == [k |-> "switch", dests |-> ds]

-----------------------------------------------------------------------------
(***************************************************************************)
(* MarkFuncEntry: the targets of the INS_directCall stores found in the   *)
(* front basic block of a block function are collected; the front block  *)
(* of every block function starting at one of them is renamed            *)
(* func_entry_point.                                                       *)
(***************************************************************************)
DirectCallTargets ==
    {tags[e].target : e \in {x \in ExitIds : InFront(x) /\ tags[x].k = "directCall"}}

MarkFuncEntry ==
    /\ stage = "classified"
    /\ front' = [b \in Starts |->
                    IF b \in DirectCallTargets THEN "entry" ELSE front[b]]
    /\ stage' = "build"
    /\ UNCHANGED <<blocks, tags, pending, buildVars>>

-----------------------------------------------------------------------------
(***************************************************************************)
(* exploreBB.  One iteration of the while loop: pop the front of          *)
(* BBsToBeExpanded and walk the stores to PC of every basic block.  A     *)
(* call continues at INS_callReturn, a direct jump at its target, an      *)
(* indirect jump with INS_switch_cnt at every case and the default; a     *)
(* target that is not a block function is skipped, a new one is queued.  *)
(***************************************************************************)
(* exploreBB stops at a call instead of continuing at INS_callReturn *)
NextPCsNoContinuation(e) ==
    CASE tags[e].k = "directJump"  -> <<tags[e].target>>
      [] tags[e].k = "indirectJump" /\ Exit(e).sw # "none"
                                   -> SwitchCases \o <<SwitchDefault>>
      [] OTHER                     -> <<>>

NextPCs(e) ==
    CASE IsCallTag(tags[e])        -> <<tags[e].ret>>
      [] tags[e].k = "directJump"  -> <<tags[e].target>>
      [] tags[e].k = "indirectJump" /\ Exit(e).sw # "none"
                                   -> SwitchCases \o <<SwitchDefault>>
      [] OTHER                     -> <<>>

ExitSeq(f) == [i \in 1..Len(blocks[f]) |-> <<f, i>>]

(* the allBBs.find(nextPC) check is left out *)
DiscoverUnchecked(acc, pc) ==
    IF ~Contains(acc.list, pc)
    THEN [list |-> Append(acc.list, pc), q |-> Append(acc.q, pc)]
    ELSE acc

Discover(acc, pc) ==
    IF pc \in Starts /\ ~Contains(acc.list, pc)
    THEN [list |-> Append(acc.list, pc), q |-> Append(acc.q, pc)]
    ELSE acc

ExploreBB ==
    /\ phase = "explore"
    /\ queue # <<>>
    /\ LET f    == Head(queue)
           pcs  == FoldLeft(LAMBDA s, e : s \o NextPCs(e), <<>>, ExitSeq(f))
           next == FoldLeft(Discover, [list |-> bbsList, q |-> Tail(queue)], pcs)
       IN  /\ bbsList' = next.list
           /\ queue' = next.q
           /\ hasIJ' = (hasIJ \/ \E e \in ExitsOf(f) : tags[e].k = "indirectJump")
    /\ UNCHANGED <<classVars, todo, cur, phase, bbMap, term, fake, funcs>>

(***************************************************************************)
(* buildBBMap: the pcStart of every block of the new function, except the *)
(* fake block, mapped to its (first) basic block.                         *)
(***************************************************************************)
BuildBBMap == [s \in ToSet(bbsList) |-> s]

Inlined == {e \in ExitIds : e[1] \in ToSet(bbsList)}

(* inlineBBs, then the first buildBBMap of makeFunctionForward *)
InlineBBs ==
    /\ phase = "explore"
    /\ queue = <<>>
    /\ term' = [e \in Inlined |-> <<FakeRet>>]
    /\ fake' = hasIJ
    /\ bbMap' = BuildBBMap
    /\ phase' = "calls"
    /\ UNCHANGED <<classVars, todo, cur, queue, bbsList, hasIJ, funcs>>

(* the fake returns are left in place *)
CleanupSkipped(t, U) == t

(* cleanupFakeReturns over the exit blocks U *)
CleanupFakeReturns(t, U) ==
    [e \in DOMAIN t |-> IF e \in U THEN SelectSeq(t[e], LAMBDA x : x # FakeRet)
                                   ELSE t[e]]

(* a fixup appends terminator T[e] to every exit block e of DOMAIN T,   *)
(* then runs cleanupFakeReturns over the exit blocks U                   *)
Rewrite(T, U) ==
    CleanupFakeReturns([e \in DOMAIN term |->
                           IF e \in DOMAIN T THEN Append(term[e], T[e]) ELSE term[e]], U)

TaggedIn(kinds) == {e \in Inlined : tags[e].k \in kinds}

(***************************************************************************)
(* fixupCalls.  bbMap[INS_callReturn] is looked up with operator[], which *)
(* inserts a NULL entry for a continuation that is not in the function;   *)
(* such a call is tagged INS_unresolvedCall and keeps its fake return.    *)
(* The others get a br to the continuation.  The map is rebuilt after.    *)
(***************************************************************************)
CallLookups(m, C) == m @@ [pc \in {tags[e].ret : e \in C} |-> NULL]

(* The rebuild is skipped: the NULL entries survive into fixupDirectJumps *)
RebuildSkipped(m) == m

RebuildAfterCalls(m) == BuildBBMap

FixupCalls ==
    /\ phase = "calls"
    /\ LET C        == TaggedIn({"directCall", "indirectCall"})
           looked   == CallLookups(bbMap, C)
           resolved == {e \in C : looked[tags[e].ret] # NULL}
       IN  /\ term' = Rewrite([e \in resolved |-> Br(looked[tags[e].ret])], resolved)
           /\ bbMap' = RebuildAfterCalls(looked)
    /\ phase' = "djumps"
    /\ UNCHANGED <<classVars, todo, cur, queue, bbsList, hasIJ, fake, funcs>>

(***************************************************************************)
(* fixupDirectJumps.  A target missing from the map is only logged: the   *)
(* store and the fake return stay.  A target present with a NULL block    *)
(* fails assert(bbTarget).  The others get a br, lose the store to PC and *)
(* the fake return.  The map is rebuilt after.                            *)
(***************************************************************************)
FixupDirectJumps ==
    /\ phase = "djumps"
    /\ LET J       == TaggedIn({"directJump"})
           present == {e \in J : tags[e].target \in DOMAIN bbMap}
       IN  IF \E e \in present : bbMap[tags[e].target] = NULL
           THEN /\ stage' = "aborted"
                /\ UNCHANGED <<term, bbMap, phase>>
           ELSE /\ term' = Rewrite([e \in present |-> Br(bbMap[tags[e].target])], present)
                /\ bbMap' = BuildBBMap
                /\ phase' = "ijumps"
                /\ UNCHANGED stage
    /\ UNCHANGED <<blocks, tags, front, pending, todo, cur, queue, bbsList, hasIJ, fake, funcs>>

(***************************************************************************)
(* fixupIndirectJumps.  An indirect jump with switch metadata whose index *)
(* getValueSwitchedOn finds (a shl by 1 or 2 in the same basic block)     *)
(* becomes a switch; a case or default missing from the map goes to the   *)
(* fake block.  An indirect jump without switch metadata gets a br to     *)
(* fake_indirect_bb.  When the index is not found the loop continues      *)
(* without a terminator.  Every indirect-jump block loses its fake        *)
(* return.                                                                *)
(***************************************************************************)
SwitchDest(pc) == IF pc \in DOMAIN bbMap THEN bbMap[pc] ELSE FAKE

IndirectTerm(e) ==
    IF Exit(e).sw = "ok"
    THEN SwitchTerm({SwitchDest(pc) : pc \in ToSet(SwitchCases) \cup {SwitchDefault}})
    ELSE Br(FAKE)

FixupIndirectJumps ==
    /\ phase = "ijumps"
    /\ LET I == TaggedIn({"indirectJump"})
       IN  term' = Rewrite([e \in {x \in I : Exit(x).sw # "noShl"} |-> IndirectTerm(e)], I)
    /\ bbMap' = BuildBBMap
    /\ phase' = "returns"
    /\ UNCHANGED <<classVars, todo, cur, queue, bbsList, hasIJ, fake, funcs>>

(***************************************************************************)
(* fixupReturns: every INS_return store is replaced by a ret.  The new    *)
(* function is complete; the loop meant to schedule its block functions  *)
(* for removal never runs (funci != funci).                               *)
(***************************************************************************)
FixupReturns ==
    /\ phase = "returns"
    /\ LET R == TaggedIn({"return"})
           t == Rewrite([e \in R |-> RetTerm], R)
       IN  /\ term' = t
           /\ funcs' = funcs @@ (cur :> [bbs |-> ToSet(bbsList), term |-> t,
                                         fake |-> fake, fixup |-> FALSE])
    /\ bbMap' = BuildBBMap
    /\ cur' = NULL
    /\ phase' = "idle"
    /\ UNCHANGED <<classVars, todo, queue, bbsList, hasIJ, fake>>

-----------------------------------------------------------------------------
(***************************************************************************)
(* The entry loop of BuildFunctions::runOnModule: a block function whose  *)
(* front block is func_entry_point starts makeFunctionForward with        *)
(* exploreBB's initial list <<startBB>>; any other one is passed over.    *)
(***************************************************************************)
(* the entry is not marked as visited by the entry loop *)
BuildEntryRevisits(e) ==
    /\ stage = "build"
    /\ cur = NULL
    /\ e \in todo
    /\ front[e] = "entry"
    /\ cur' = e
    /\ queue' = <<e>>
    /\ bbsList' = <<e>>
    /\ hasIJ' = FALSE
    /\ phase' = "explore"
    /\ UNCHANGED <<classVars, todo, bbMap, term, fake, funcs>>

BuildEntry(e) ==
    /\ stage = "build"
    /\ cur = NULL
    /\ e \in todo
    /\ front[e] = "entry"
    /\ todo' = todo \ {e}
    /\ cur' = e
    /\ queue' = <<e>>
    /\ bbsList' = <<e>>
    /\ hasIJ' = FALSE
    /\ phase' = "explore"
    /\ UNCHANGED <<classVars, bbMap, term, fake, funcs>>

SkipBlock(e) ==
    /\ stage = "build"
    /\ cur = NULL
    /\ e \in todo
    /\ front[e] # "entry"
    /\ todo' = todo \ {e}
    /\ UNCHANGED <<classVars, cur, phase, queue, bbsList, hasIJ, bbMap, term, fake, funcs>>

(* the blocks a function's terminators branch to *)
Dests(f) ==
    UNION {t.dests : t \in {t \in UNION {ToSet(f.term[x]) : x \in DOMAIN f.term} :
                               t.k \in {"br", "switch"}}}

(***************************************************************************)
(* The fixup loop after all functions are built: an entry block that has  *)
(* uses gets a fixup_entry block in front of it that branches to it.      *)
(***************************************************************************)
FixupEntries ==
    /\ stage = "build"
    /\ cur = NULL
    /\ todo = {}
    /\ funcs' = [e \in DOMAIN funcs |->
                    [funcs[e] EXCEPT !.fixup = e \in Dests(funcs[e])]]
    /\ stage' = "done"
    /\ UNCHANGED <<blocks, tags, front, pending, todo, cur, phase, queue,
                   bbsList, hasIJ, bbMap, term, fake>>

-----------------------------------------------------------------------------
Init ==
    /\ ClassifierInit
    /\ todo = Starts
    /\ cur = NULL
    /\ phase = "idle"
    /\ queue = <<>>
    /\ bbsList = <<>>
    /\ hasIJ = FALSE
    /\ bbMap = <<>>
    /\ term = <<>>
    /\ fake = FALSE
    /\ funcs = <<>>

Next ==
    \/ ClassifierNext /\ UNCHANGED buildVars
    \/ MarkFuncEntry
    \/ \E e \in Starts : BuildEntry(e) \/ SkipBlock(e)
    \/ ExploreBB \/ InlineBBs
    \/ FixupCalls \/ FixupDirectJumps \/ FixupIndirectJumps \/ FixupReturns
    \/ FixupEntries

(* a single-threaded batch pass that is never descheduled for good *)
Spec == Init /\ [][Next]_vars /\ WF_vars(Next)

-----------------------------------------------------------------------------
(***************************************************************************)
(* Properties                                                              *)
(***************************************************************************)
TermKinds ==
    {FakeRet, RetTerm} \cup {Br(d) : d \in Starts \cup {FAKE, NULL}}
        \cup {SwitchTerm(ds) : ds \in SUBSET (Starts \cup {FAKE})}

Stages == {"markCall", "markReturn", "markJumps", "classified", "build",
           "done", "aborted"}

TypeOK ==
    /\ stage \in Stages
    /\ pending \subseteq Starts /\ todo \subseteq Starts
    /\ front \in [Starts -> {"entry", "return", "plain"}]
    /\ cur \in Starts \cup {NULL}
    /\ phase \in {"idle", "explore", "calls", "djumps", "ijumps", "returns"}
    /\ ToSet(queue) \subseteq ToSet(bbsList) /\ ToSet(bbsList) \subseteq Starts
    /\ hasIJ \in BOOLEAN /\ fake \in BOOLEAN
    /\ \A pc \in DOMAIN bbMap : bbMap[pc] \in Starts \cup {NULL}
    /\ \A e \in DOMAIN funcs :
          /\ e \in Starts
          /\ funcs[e].bbs \subseteq Starts
          /\ \A x \in DOMAIN funcs[e].term : ToSet(funcs[e].term[x]) \subseteq TermKinds

(***************************************************************************)
(* The translator never stops on a failed assertion: neither the          *)
(* assert(!INS_directCall)/assert(!INS_indirectCall) of ARMMarkReturn nor *)
(* the assert(bbTarget) of fixupDirectJumps fires.                        *)
(***************************************************************************)
NoAbort == stage # "aborted"

(***************************************************************************)
(* Every function BuildFunctions writes passes the LLVM verifier's        *)
(* structural checks: each exit basic block ends with exactly one         *)
(* terminator (the fixups append one and cleanupFakeReturns removes the   *)
(* fake return), every br or switch goes to a block of the same function  *)
(* or to its fake_indirect_bb, and once the fixup loop has run the entry  *)
(* block has no predecessors.                                             *)
(***************************************************************************)
VerifierClean ==
    \A e \in DOMAIN funcs :
        LET f == funcs[e] IN
        /\ \A x \in DOMAIN f.term : Len(f.term[x]) = 1
        /\ \A d \in Dests(f) : d \in f.bbs \/ (d = FAKE /\ f.fake)
        /\ stage = "done" => (e \in Dests(f) => f.fixup)

(***************************************************************************)
(* Classification is monotonic: once ARMMarkCall, ARMMarkReturn or        *)
(* ARMMarkJumps has tagged a store to PC, no later step changes its tag.  *)
(***************************************************************************)
ClassificationMonotonic ==
    [][\A e \in DOMAIN tags : tags[e] # NoTag => tags'[e] = tags[e]]_vars

(***************************************************************************)
(* The pipeline runs to completion: the fixup loop of BuildFunctions is   *)
(* eventually reached after every entry has been built.                   *)
(***************************************************************************)
Termination == <>(stage = "done")

(***************************************************************************)
(* Refinement: BuildFunctions assembles, for each func_entry_point block, *)
(* exactly the blocks reachable from it over the edges exploreBB follows, *)
(* and never changes the block set of a finished function.                *)
(***************************************************************************)
(* the successors spec 4.4 names: a jump target, a materialised switch's *)
(* cases and default, a call's continuation                              *)
SpecSuccessors(e) ==
    LET t == tags[e] IN
    CASE t.k \in {"directCall", "indirectCall"}     -> {t.ret}
      [] t.k = "directJump"                          -> {t.target}
      [] t.k = "indirectJump" /\ Exit(e).sw = "ok"   -> ToSet(SwitchCases) \cup {SwitchDefault}
      [] OTHER                                       -> {}

AbstractSucc ==
    (UNION {{e[1]} \X SpecSuccessors(e) : e \in ExitIds}) \cap (Starts \X Starts)

FA == INSTANCE FunctionAssembly
        WITH funcs <- [e \in DOMAIN funcs |-> funcs[e].bbs],
             succ <- AbstractSucc,
             entries <- {b \in Starts : front[b] = "entry"}

AssemblesReachable == FA!Spec

(***************************************************************************)
(* Spec 3 (EntrySet): the externally declared entry, the block the        *)
(* disassembler translated first and named func_entry_point, becomes a    *)
(* function.  ARMMarkReturn renames a front block that holds a return.    *)
(***************************************************************************)
DeclaredEntryBuilt == stage = "done" => ProgramEntry \in DOMAIN funcs

=============================================================================
