----------------------------- MODULE Exploration -----------------------------
(***************************************************************************)
(* The recursive-descent exploration of RecursiveDescentDisassembler.     *)
(* Before the guest runs, the constructor loads the intervals a previous  *)
(* run explored (VisitedIntervals) and the pcs it found in Thumb mode.    *)
(* Then every time a translated block starts, slotExecuteBlockStart:      *)
(*   - forces a retranslation when the block was translated in the other *)
(*     mode than m_isPCThumb says;                                        *)
(*   - otherwise records the block, marks its pc visited, schedules its  *)
(*     targets (explorePCLater) and the mode each is to be translated in; *)
(*   - pops the most recently scheduled pc (a stack) and redirects the    *)
(*     guest to it, skipping pcs outside the code, or saves the module    *)
(*     and exits when nothing is left.                                    *)
(* The block never runs: control is always redirected before it does, so  *)
(* the translated blocks are exactly the ones the worklist reaches.       *)
(* Between the mode check and recording the block, S2EInlineHelpersPass  *)
(* inlines the arithmetic helpers its function calls (InlineHelpers).    *)
(*                                                                         *)
(* A translated block is given by its exits, the basic blocks of its     *)
(* function that return, each with the constant stores it makes to PC,   *)
(* LR and the thumb flag, in order; ExtractPossibleTargetsPass and        *)
(* ARMGetThumbBit read its targets and thumb bit off them.                *)
(***************************************************************************)
EXTENDS VisitedIntervals, FiniteSets, SequencesExt, ARMCallHeuristic, InlineHelpers

CONSTANTS
    Entry,       \* the pc the guest starts at
    ThumbPCs,    \* the pcs whose code is Thumb code
    ValidPCs,    \* the pcs is_valid_code_addr accepts
    Exits,       \* pc -> the exits of its block: Seq of Seq([reg, v])
    BlockEnd,    \* pc -> llvm_first_pc_after_bb of its block
    JumpTableFile, \* the jumpTableInfo file: per function, its tables
    Mem,         \* address -> the 32-bit word the guest memory holds there
    Calls,       \* pc -> the call sites of its block function, in order
    MaxRounds    \* the runs of the disassembler, each reading the isThumbOut
                 \* file of the one before as its isThumbIn

NoPC == -1

VARIABLES
    phase,      \* load (constructor), exec (a block starts), inline (its
                \* helpers are being inlined), done (exited)
    cur,        \* the pc of the block about to run
    cpuThumb,   \* the CPU's thumb flag, the mode the block was translated in
    isThumb,    \* m_isPCThumb: pc -> "thumb", "arm" or "none" (no entry)
    sched,      \* m_scheduledPCsVector
    schedMap,   \* the keys of m_scheduledPCsMap
    allBBs,     \* m_allBasicBlocks: the recorded blocks and their mode
    round,      \* the run of the disassembler
    bootThumb,  \* the mode the guest starts in at Entry, in every run
    thumbOut,   \* the pcs exit() wrote to isThumbOut in the last run
    bbCalls     \* the call sites of the block function being inlined into

exploreVars == <<phase, cur, cpuThumb, isThumb, sched, schedMap, allBBs, bbCalls>>
runVars == <<round, bootThumb, thumbOut>>
allVars == <<visitedPCIntervals, visitedPC, phase, cur, cpuThumb, isThumb,
             sched, schedMap, allBBs, round, bootThumb, thumbOut, bbCalls>>

(* REAL_PC: pc & -2 *)
RealPC(a) == ClearThumb(a)

Mode(b) == IF b THEN "thumb" ELSE "arm"

(* isStoreToPC, isStoreToLR: a store of a constant through env_v at the  *)
(* offset of PC (0xc0) or LR (0xbc); the offset is the register name here *)
IsStoreToPC(st) == st.reg = "pc"
IsStoreToLR(st) == st.reg = "lr"

(* the constant stores of an exit to register r, in order; thumb stores   *)
(* are matched by ARMGetThumbBit                                           *)
StoresTo(e, r) ==
    SelectSeq(e, LAMBDA st : CASE r = "pc" -> IsStoreToPC(st)
                               [] r = "lr" -> IsStoreToLR(st)
                               [] OTHER    -> st.reg = r)
LastStore(e, r) == <<Last(StoresTo(e, r)).v>>
ConstStore(e, r) == IF StoresTo(e, r) = <<>> THEN <<>> ELSE LastStore(e, r)

(***************************************************************************)
(* ExtractPossibleTargetsPass::runOnFunction: per exit, the last constant *)
(* stored to PC, then the last constant stored to LR, which is also the  *)
(* implicit target; a second exit storing LR fails assert(!hasImplicit). *)
(***************************************************************************)
ExtractTargets(x) == FlattenSeq([i \in DOMAIN x |-> ConstStore(x[i], "pc") \o ConstStore(x[i], "lr")])
LRExits(x) == {i \in DOMAIN x : StoresTo(x[i], "lr") # <<>>}
ImplicitTargets(x) == {Last(StoresTo(x[i], "lr")).v : i \in LRExits(x)}

(***************************************************************************)
(* ARMGetThumbBit::runOnFunction: the last constant thumb store of each   *)
(* exit that has one; the first of those is the block's bit, undefined   *)
(* when there is none (a disagreement is only reported).                  *)
(***************************************************************************)
ThumbBitOf(x) ==
    LET bits == SelectSeq([i \in DOMAIN x |-> ConstStore(x[i], "thumb")], LAMBDA b : b # <<>>)
    IN  IF bits = <<>> THEN "undef" ELSE IF bits[1][1] = 1 THEN "set" ELSE "unset"

(***************************************************************************)
(* JumpTableInfoFactory::loadFromFile: the tables of every function, in  *)
(* file order; initialize then sets mapJumpTableInfo[bb_start] = info for *)
(* each in turn, so the last table of a start wins.                       *)
(***************************************************************************)
LoadFromFile(file) == FlattenSeq(file)
JptInfo == LoadFromFile(JumpTableFile)
HasJumpTableInfo(p) == \E i \in DOMAIN JptInfo : JptInfo[i].bb_start = p
MapJumpTableInfo(p) == JptInfo[Max({i \in DOMAIN JptInfo : JptInfo[i].bb_start = p})]

(* the table matches: its bb_end is llvm_first_pc_after_bb *)
MatchedJumpTable(p) ==
    HasJumpTableInfo(p) /\ MapJumpTableInfo(p).bb_end = BlockEnd[p]

(* cnt_entries without the 1 + *)
CntEntriesOffByOne(info) == info.idx_stop - info.idx_start

CntEntries(info) == 1 + info.idx_stop - info.idx_start

(***************************************************************************)
(* The pcs slotExecuteBlockStart schedules: the block's targets, then,    *)
(* for a matched table, the cnt_entries words from base_table on and the  *)
(* default case.                                                           *)
(***************************************************************************)
JumpTableTargets(p) ==
    IF MatchedJumpTable(p)
    THEN LET info == MapJumpTableInfo(p)
         IN  [i \in 1..CntEntries(info) |-> Mem[info.base_table + 4 * (i - 1)]]
                 \o <<info.default_case_pc>>
    ELSE <<>>

AllPossiblePCs(p) == ExtractTargets(Exits[p]) \o JumpTableTargets(p)

(* thisIsForSureThumbMode of slotExecuteBlockStart *)
SureThumb(p) == IF isThumb[p] = "none" THEN cpuThumb ELSE isThumb[p] = "thumb"

(* the mode given to target t of the block at cur, from its thumb bit *)
ThumbModeNoImplicit(t) ==
    CASE ThumbBitOf(Exits[cur]) = "set"   -> "thumb"
      [] ThumbBitOf(Exits[cur]) = "unset" -> "arm"
      [] OTHER                            -> Mode(cpuThumb)

(* the implicit target (the call continuation) keeps the current mode *)
TargetMode(t) == IF t \in ImplicitTargets(Exits[cur]) THEN Mode(cpuThumb) ELSE ThumbModeNoImplicit(t)

(* the scheduled-map test is missing *)
ExplorePCLaterNoMapCheck(map, p, visited) ==
    /\ p \notin visited
    /\ ~IsPCInVisitedIntervalsBsearch(visitedPCIntervals, p)

(***************************************************************************)
(* explorePCLater: a pc is scheduled unless visited, already scheduled,   *)
(* or inside an interval the previous runs explored.                      *)
(***************************************************************************)
ExplorePCLater(map, p, visited) ==
    /\ p \notin visited
    /\ p \notin map
    /\ ~IsPCInVisitedIntervalsBsearch(visitedPCIntervals, p)

(* one iteration of the scheduling loop, over target t *)
ScheduleTarget(acc, t) ==
    LET p    == RealPC(t)
        take == ExplorePCLater(acc.map, p, visitedPC \cup {cur})
    IN  [sched |-> IF take THEN Append(acc.sched, p) ELSE acc.sched,
         map   |-> IF take THEN acc.map \cup {p} ELSE acc.map,
         thumb |-> [acc.thumb EXCEPT ![p] = TargetMode(t)]]

(* prepareStateForNextRealPC reads m_isPCThumb[pc] with operator[] *)
Touch(th, p) == IF th[p] = "none" THEN [th EXCEPT ![p] = "arm"] ELSE th

(***************************************************************************)
(* while (moreToExplore()): getNextRealPC pops the last scheduled pc and  *)
(* prepareStateForNextRealPC sets PC and the thumb flag; a valid pc ends  *)
(* the loop (throw CpuExitException), an invalid one is dropped.          *)
(***************************************************************************)
RECURSIVE PopUntilValid(_, _)
PopUntilValid(s, th) ==
    IF s = <<>> THEN [sched |-> s, thumb |-> th, pc |-> NoPC]
    ELSE LET p == Last(s) IN
         IF p \in ValidPCs THEN [sched |-> Front(s), thumb |-> Touch(th, p), pc |-> p]
         ELSE PopUntilValid(Front(s), Touch(th, p))

(* the constructor reads one more line of initialAlreadyVisited *)
LoadInterval(f, s) ==
    /\ phase = "load"
    /\ LoadVisitedInterval(f, s)
    /\ UNCHANGED <<exploreVars, runVars>>

EndOfFile ==
    /\ phase = "load"
    /\ phase' = "exec"
    /\ UNCHANGED <<visitedPCIntervals, visitedPC, cur, cpuThumb, isThumb,
                   sched, schedMap, allBBs, bbCalls, runVars>>

(* the thumb flag is not written before the exception *)
ForceRetranslationNoWrite ==
    /\ phase = "exec"
    /\ SureThumb(cur) # cpuThumb
    /\ UNCHANGED allVars

(* the block was translated in the wrong mode: write the flag, retranslate *)
ForceRetranslation ==
    /\ phase = "exec"
    /\ SureThumb(cur) # cpuThumb
    /\ cpuThumb' = SureThumb(cur)
    /\ UNCHANGED <<visitedPCIntervals, visitedPC, phase, cur, isThumb,
                   sched, schedMap, allBBs, bbCalls, runVars>>

(* every key of m_isPCThumb is written, whatever its value *)
ThumbOutAll(th) == {p \in PCs : th[p] # "none"}

(* exit(): the keys of m_isPCThumb whose value is true *)
ThumbOut(th) == {p \in PCs : th[p] = "thumb"}

(***************************************************************************)
(* slotExecuteBlockStart past the mode check: record the block, schedule *)
(* its targets, then move to the next pc or save and exit.                *)
(***************************************************************************)
(***************************************************************************)
(* The mode matches: ExtractPossibleTargetsPass reads the targets, then   *)
(* S2EInlineHelpersPass starts on the block's function.                   *)
(***************************************************************************)
BeginInline ==
    /\ phase = "exec"
    /\ SureThumb(cur) = cpuThumb
    /\ phase' = "inline"
    /\ bbCalls' = Calls[cur]
    /\ UNCHANGED <<visitedPCIntervals, visitedPC, cur, cpuThumb, isThumb,
                   sched, schedMap, allBBs, runVars>>

(* one round of the pass's while (true) loop *)
InlineStep ==
    /\ phase = "inline"
    /\ ~InlineDone(bbCalls)
    /\ bbCalls' = InlineRound(bbCalls)
    /\ UNCHANGED <<visitedPCIntervals, visitedPC, phase, cur, cpuThumb, isThumb,
                   sched, schedMap, allBBs, runVars>>

ExecGuard ==
    /\ phase = "inline"
    /\ InlineDone(bbCalls)
    /\ Cardinality(LRExits(Exits[cur])) <= 1
    /\ MatchedJumpTable(cur) => CntEntries(MapJumpTableInfo(cur)) >= 1

ExecuteBlockStart ==
    /\ ExecGuard
    /\ LET acc == FoldLeft(ScheduleTarget,
                           [sched |-> sched, map |-> schedMap, thumb |-> isThumb],
                           AllPossiblePCs(cur))
           nxt == PopUntilValid(acc.sched, acc.thumb)
       IN  /\ allBBs' = Append(allBBs, [pc |-> cur, thumb |-> cpuThumb])
           /\ visitedPC' = visitedPC \cup {cur}
           /\ schedMap' = acc.map
           /\ sched' = nxt.sched
           /\ isThumb' = nxt.thumb
           /\ \/ /\ nxt.pc # NoPC
                 /\ cur' = nxt.pc
                 /\ cpuThumb' = (nxt.thumb[nxt.pc] = "thumb")
                 /\ phase' = "exec"
                 /\ UNCHANGED thumbOut
              \/ /\ nxt.pc = NoPC
                 /\ phase' = "done"
                 /\ thumbOut' = ThumbOut(nxt.thumb)
                 /\ UNCHANGED <<cur, cpuThumb>>
           /\ UNCHANGED <<visitedPCIntervals, round, bootThumb, bbCalls>>

(* the pcs the constructor marks visited: the start of every interval *)
IntervalStarts == {visitedPCIntervals[i][1] : i \in DOMAIN visitedPCIntervals}

(* the isThumbIn file of a previous run lists pcs it found in Thumb mode *)
ExploreInit ==
    /\ visitedPCIntervals = <<>>
    /\ visitedPC = {}
    /\ phase = "load"
    /\ cur = Entry
    /\ cpuThumb \in BOOLEAN
    /\ bootThumb = cpuThumb
    /\ round = 1
    /\ thumbOut = {}
    /\ \E thumbIn \in SUBSET ThumbPCs :
          isThumb = [p \in PCs |-> IF p \in thumbIn THEN "thumb" ELSE "none"]
    /\ sched = <<>>
    /\ schedMap = {}
    /\ allBBs = <<>>
    /\ bbCalls = <<>>

(***************************************************************************)
(* The next run of the disassembler: a new process, started at Entry in   *)
(* the same mode, reading the same initialAlreadyVisited file and, as     *)
(* isThumbIn, the file the last run wrote; when that file does not parse  *)
(* the constructor logs it and loads no pc.  Reading the intervals again  *)
(* marks their starts visited again.                                      *)
(***************************************************************************)
Restart ==
    /\ phase = "done"
    /\ round < MaxRounds
    /\ round' = round + 1
    /\ phase' = "exec"
    /\ visitedPC' = IntervalStarts
    /\ cur' = Entry
    /\ cpuThumb' = bootThumb
    /\ \/ isThumb' = [p \in PCs |-> IF p \in thumbOut THEN "thumb" ELSE "none"]
       \/ isThumb' = [p \in PCs |-> "none"]
    /\ sched' = <<>>
    /\ schedMap' = {}
    /\ allBBs' = <<>>
    /\ UNCHANGED <<visitedPCIntervals, bootThumb, thumbOut, bbCalls>>

(* one run of the disassembler; LoadInterval reads pairs with start <= end *)
(* only: the file holds [pc_start, pc_end] pairs the constructor does not *)
(* check                                                                  *)
ExploreRun ==
    \/ \E f, s \in PCs : f <= s /\ LoadInterval(f, s)
    \/ EndOfFile
    \/ ForceRetranslation
    \/ BeginInline
    \/ InlineStep
    \/ ExecuteBlockStart

ExploreNext == ExploreRun \/ Restart

(* the runs are started by a script outside this code: no fairness *)
(***************************************************************************)
(* Weak fairness of each step of a run.  ExecuteBlockStart is enabled     *)
(* exactly when ExecGuard holds (it always appends to allBBs), so its     *)
(* weak fairness is stated with ExecGuard in place of ENABLED.            *)
(***************************************************************************)
ExploreFairness ==
    /\ WF_allVars(EndOfFile)
    /\ WF_allVars(ForceRetranslation)
    /\ WF_allVars(BeginInline)
    /\ WF_allVars(InlineStep)
    /\ []<>~ExecGuard \/ []<><<ExecuteBlockStart>>_allVars

ExploreSpec == ExploreInit /\ [][ExploreNext]_allVars /\ ExploreFairness

-----------------------------------------------------------------------------
ExploreTypeOK ==
    /\ TypeOK
    /\ phase \in {"load", "exec", "inline", "done"}
    /\ cur \in PCs
    /\ cpuThumb \in BOOLEAN
    /\ isThumb \in [PCs -> {"thumb", "arm", "none"}]
    /\ sched \in Seq(PCs)
    /\ schedMap \subseteq PCs
    /\ allBBs \in Seq([pc : PCs, thumb : BOOLEAN])
    /\ round \in 1..MaxRounds
    /\ thumbOut \subseteq PCs
    /\ bbCalls \in Seq(Callees)

(***************************************************************************)
(* The blocks a run can reach: the targets ExtractPossibleTargetsPass and *)
(* a matched jump table give, less the thumb bit.                         *)
(***************************************************************************)
Successors == [p \in PCs |-> {RealPC(t) : t \in ToSet(AllPossiblePCs(p))}]

(***************************************************************************)
(* The pcs explorePCLater rejects before a run translates anything: the   *)
(* interval starts in m_visitedPC and the pcs the interval search finds.  *)
(***************************************************************************)
PreVisited ==
    IntervalStarts \cup {p \in PCs : IsPCInVisitedIntervalsBsearch(visitedPCIntervals, p)}

Discovery == INSTANCE RecursiveDescent
    WITH explored <- [i \in DOMAIN allBBs |-> allBBs[i].pc],
         covered  <- PreVisited,
         done     <- phase = "done",
         Valid    <- ValidPCs,
         Succ     <- Successors

(***************************************************************************)
(* Each run of the disassembler implements recursive descent (spec 3):    *)
(* it translates the entry, then, one block at a time, a pc inside the    *)
(* code that a translated block targets, never one translated before in   *)
(* the run (getNextRealPC pops without checking m_visitedPC again, so     *)
(* explorePCLater must never schedule a pc twice) nor one PreVisited      *)
(* refuses; it exits only when every target inside the code was          *)
(* translated or refused (dropping pcs outside the code while popping     *)
(* loses none inside it), and it does exit.  Refused pcs are those the    *)
(* code refuses, the interval starts and what the interval search finds;  *)
(* that the search finds every pc inside an interval is not claimed here  *)
(* (it does not: VisitedNotReexplored).                                   *)
(***************************************************************************)
DiscoveryRefinement == Discovery!Spec

(***************************************************************************)
(* A jump table of the file whose bb_start and bb_end are those of a      *)
(* translated block has entries idx_start to idx_stop, the first at       *)
(* base_table: when the disassembler exits, each entry and the default    *)
(* case that lies in the code was explored (slotExecuteBlockStart's       *)
(* cnt_entries loop and the last-wins mapJumpTableInfo).                  *)
(***************************************************************************)
TableEntries(info) ==
    {Mem[info.base_table + 4 * k] : k \in 0..(info.idx_stop - info.idx_start)}
        \cup {info.default_case_pc}

JumpTableExplored ==
    phase = "done" =>
        \A r \in ToSet(allBBs) : \A i \in DOMAIN JptInfo :
            LET info == JptInfo[i]
            IN  info.bb_start = r.pc /\ info.bb_end = BlockEnd[r.pc] =>
                    \A t \in TableEntries(info) :
                        RealPC(t) \in ValidPCs =>
                            RealPC(t) \in visitedPC \/ Covered(visitedPCIntervals, RealPC(t))

(***************************************************************************)
(* Every block is translated in the mode of its code, once the entry is:  *)
(* the thumb bit of a block, the implicit-target rule and the retranslation *)
(* on a mismatch carry the mode from block to block.                       *)
(***************************************************************************)
EntryInMode == allBBs # <<>> /\ allBBs[1].thumb = (Entry \in ThumbPCs)

ModeCorrect ==
    EntryInMode => \A r \in ToSet(allBBs) : r.thumb = (r.pc \in ThumbPCs)

(***************************************************************************)
(* What exit() writes to isThumbOut is right for the next run: when the   *)
(* entry was translated in its mode, the file lists no ARM code, and it   *)
(* lists every block the run translated in Thumb mode after the entry,    *)
(* although later targets overwrite m_isPCThumb of pcs already visited.   *)
(* The next run forces every listed pc to Thumb.                          *)
(***************************************************************************)
ThumbOutSound ==
    (phase = "done" /\ EntryInMode) =>
        /\ thumbOut \cap ValidPCs \subseteq ThumbPCs
        /\ \A i \in 2..Len(allBBs) : allBBs[i].thumb => allBBs[i].pc \in thumbOut

(***************************************************************************)
(* No block is translated again that starts inside an interval a previous *)
(* run explored (spec 3: explorePCLater skips covered pcs).  The entry,   *)
(* which is not scheduled, is exempt.                                     *)
(***************************************************************************)
VisitedNotReexplored ==
    \A i \in 2..Len(allBBs) : ~Covered(visitedPCIntervals, allBBs[i].pc)

(***************************************************************************)
(* The disassembler exits: every run of slotExecuteBlockStart either      *)
(* redirects the guest to a new pc or, with nothing left, saves and exits. *)
(***************************************************************************)
Termination == <>(phase = "done")

(***************************************************************************)
(* S2EInlineHelpersPass returns on every block: each round of its        *)
(* while (true) loop inlines what it collected, and it collects only     *)
(* calls to the listed helpers, which have bodies.  A collected call      *)
(* InlineFunction fails on is collected again in the next round.         *)
(***************************************************************************)
InlineEnds == phase = "inline" ~> phase # "inline"

=============================================================================
