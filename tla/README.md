# TLA+ models of the bin2llvm translator

This directory holds TLA+ models of the bin2llvm pipeline. The pipeline lifts
ARM code, discovered by dynamic recursive-descent disassembly, into LLVM
functions. The modules are checked with TLC.

## The system

The pipeline has two halves.

**Harvesting.** This half runs inside S2E and lives in `src/harvesting-passes`.

- `RecursiveDescentDisassembler` runs the target. At each translated block it
  records the block as an LLVM function `tcg-llvm-tb-<pc>`.
  - It annotates every instruction with `BB_pcStart` and `BB_pcEnd`
    (`SaveTranslatedBBs`).
  - It collects the block's possible successors (`ExtractPossibleTargetsPass`,
    `JumpTableInfo`).
  - It schedules the successors on a worklist, which it pops in LIFO order,
    with the mode (ARM or Thumb) each is to be translated in
    (`ARMGetThumbBit`, `m_isPCThumb`). A block translated in the wrong mode
    is retranslated.
  - It names the entry block of the first translated block
    `func_entry_point`.
- The state of the disassembler:
  - the visited-PC map;
  - the scheduled-PC vector and map;
  - the sorted list of visited intervals.

**Translation.** This half is a sequence of LLVM passes over the module of
block functions (`src/postprocess/translator`). No script in `src/` fixes
their order; it follows from the metadata each pass reads and writes:

1. `TransformBBToVoid`: each block becomes `void-tcg-llvm-tb-<pc>`, and every
   return becomes a `ret void` tagged `INS_fakeReturn`.
2. `TagInstPc`: the store `PC := pc` before each `s2e_icount` store is an
   instruction start; the largest such pc is the block's `lastpc`.
   `RemoveExtraStoreToPC`: tags every instruction with `INS_currPC`. In an exit
   block it keeps only the last store to `PC` of the constant ones.
3. `FixOverlappedBBs` (overlap resolver): blocks ending at the same pc are
   split. The earlier one is cut at the start of the later one and gets a
   store `PC := start` tagged `INS_splitCall`.
4. `ARMMarkCall`, `ARMMarkReturn`, `ARMMarkJumps` (exit classifier): each
   store to `PC` is tagged `INS_directCall` or `INS_indirectCall` (with
   `INS_callReturn`), `INS_return`, `INS_directJump` or `INS_indirectJump`.
   Each is a separate pass over all block functions, in that order.
5. `MarkFuncEntry` (entry detector): the targets of direct calls get their
   front block renamed `func_entry_point`.
6. `BuildFunctions` (function assembler and switch materializer). For every
   block function whose front block is `func_entry_point`, it:
   - collects the blocks reachable over jumps, switch tables and call
     continuations (`exploreBB`);
   - clones them into one new function (`inlineBBs`), with a
     `fake_indirect_bb` placeholder when an indirect jump was seen;
   - rewrites calls, direct jumps, indirect jumps/switches and returns into
     `br`, `switch` and `ret`, rebuilding the pc-to-block map between the
     fixups;
   - finally inserts a `fixup_entry` block in front of any entry block that
     has predecessors.
7. `SolveIndirectSingle`: replaces indirect stores to `PC` and `thumb` by the
   constants an optimised copy of the module computed.
   `ARMDumpThumbBit` then lists the target pc of every block that stores
   `thumb := 1`.
8. The linker (`src/postprocess/linker`):
   - merges the function modules, keeping one function per start pc;
   - turns each `INS_directCall` store into a call.

The passes communicate only through the module and its metadata. Everything
is single-threaded and runs to completion.

## Inventory

| Component | State | Operations | Hard behaviour |
|---|---|---|---|
| Exit classifier | per store to PC: its tag; per basic block: its name | MarkCall, MarkReturn, MarkJumps, one pass after another | heuristics interact across passes (blx lr), Thumb bit in LR, stale `lrVal`, renaming of the entry block |
| Entry detector | front block names | MarkFuncEntry | reads only front blocks |
| Function assembler | worklist, explored set, block list, `hasIndirectJump`, pc map, new function body, placeholder, built functions | entry loop, exploreBB, inlineBBs, fixupCalls, fixupDirectJumps, fixupIndirectJumps, fixupReturns, fixup_entry loop | NULL inserted by `operator[]`, rebuild order, cleanup of fake returns, unresolved targets, switches without an index, clones instead of moves |
| Overlap resolver (with TransformBBToVoid, TagInstPc, RemoveExtraStoreToPC) | function list, block bodies (raw, then tagged), `lastpc`, groups, sorted groups, `BB_pcEnd` | rewrite to void, tag instruction starts, tag and erase stores to PC, group, sort, truncate-and-link | split keeps one IR op of the next block; `BB_pcEnd` not updated; `assert(found)`; the return tagged with the exit's target |
| Exploration (with S2EInlineHelpersPass) | visited map, scheduled vector and map, visited intervals, first-translation flag, the calls of the block function | block start, helper inlining rounds, schedule, pop next pc, forced retranslation | bsearch that never finds an interval; popped pcs cannot be rescheduled; termination; a failed inline retried forever |
| Indirect value resolution | (global, pc) → constant table, solved pcs | expand from optimised modules, annotate, replace | one table entry for all stores of a global at a pc; last writer wins; `replaceAllUsesWith` reaches later stores |
| Thumb dump | thumb pcs list | DumpThumbBit (with getStoreToPCInBB) | the store searched for in a block is found by the global's name; bit 0 cleared |
| Linker | start pc → function, function list, new module | gather, clone, regather, link direct calls | first module wins on a duplicate start pc; unknown call targets are dropped silently; the map must be rebuilt from the clones |

Correctness, per component:

- **Classifier:** every exit is tagged exactly once, and no pass overwrites
  another pass's tag. A call's continuation is the block end.
- **Entry detector:** every direct-call target and the declared entry become
  entries.
- **Assembler:**
  - each function is exactly the reachable closure of its entry;
  - every block ends with exactly one terminator;
  - every branch stays inside its function or goes to its placeholder;
  - entry blocks have no predecessors;
  - unresolved edges go to the placeholder;
  - no block is in two functions.
- **Overlap resolver:** each group becomes the chain of spec §8, and the
  link it adds is a jump, not a call. The split keeps the first IR op of the
  next block in both blocks; that op must be the `s2e_icount` load, never
  an op that changes guest state.
- **Exploration:** each run is a recursive descent (`RecursiveDescent`):
  it translates the entry, then only targets of translated blocks inside
  the code, none twice and none `explorePCLater` refuses before the run
  (the interval starts and what the interval search finds, which is not
  every pc inside an interval: `VisitedNotReexplored`), and it exits
  exactly when no such target is left; no block is translated in the wrong
  mode; the worklist empties, and the helper inlining of every block ends.
- **Indirect value resolution:** a store is replaced only by a constant its
  own optimised copy was shown to hold.
- **Thumb dump:** every listed pc is the Thumb target of a block that
  switches to Thumb.
- **Linker:** one function per start pc, the first found; every direct call
  to a start becomes a call to the linked function with that start.

## Modules

- **`Classifier.tla`** models `ARMMarkCall`, `ARMMarkReturn` and `ARMMarkJumps`.
  - `blocks` is the table of block functions. Each block is a sequence of
    exits; one exit is one LLVM basic block ending in a fake return. An exit
    records:
    - the stores to LR before its store to PC (constant, as an offset from the
      block end, or non-constant);
    - the kind of PC value: constant, `lr` (`And(load LR)`), `lrspill`
      (`And(call)` reloaded into LR), or `reg`;
    - whether the exit carries switch metadata with (`ok`) or without
      (`noShl`) a shl index.
  - A block with one exit is a single basic block, so its exit is in the front
    block. A conditional block has two exits, the second falling through to
    `BB_pcEnd`, and neither is in the front block.
  - `tags` holds the INS_* metadata of each exit. `front` is the name class of
    each front block (`entry` = `func_entry_point`, `return` =
    `func_return_bb_...`, `plain`).
  - `stage` and `pending` model the translator script: a function pass visits
    every block function, in any order, before the next pass starts.
  - `MarkReturn` has an abort branch for its two assertions.
- **`FunctionBuilder.tla`** (EXTENDS Classifier) models `MarkFuncEntry` and
  `BuildFunctions`.
  - `todo` is the entry loop over block functions. The order is an arbitrary
    module order.
  - `queue`, `bbsList` and `hasIJ` are `exploreBB`'s locals.
  - `bbMap` is the pc map, including the NULL entries `operator[]` inserts.
  - `term` gives, for each exit basic block of the new function, the sequence
    of terminators it ends with.
  - `fake` is the placeholder; `funcs` holds the finished functions.
  - Each fixup is one action, including the `buildBBMap` that follows it in
    `makeFunctionForward` and its `cleanupFakeReturns`.
- **`FunctionAssembly.tla`** is the abstract spec of function assembly (spec
  §4.4 step 1). Each entry's function is its entry plus `Descendants` in the
  successor graph. Finished functions never change. `FunctionBuilder`
  instantiates it with:
  - `funcs` ← the block sets;
  - `succ` ← the edges spec §4.4 names (jump target, materialised switch cases
    and default, call continuation);
  - `entries` ← the blocks named `func_entry_point`.
- **`MCFunctionBuilder.tla`** holds the model values:
  - three 2-byte blocks at 2, 4 and 6; address 8 is never discovered;
  - the switch table `<<4, 8>>` with default 6;
  - the exit shapes, each named after the ARM instruction that produces it
    (`bl`, `blx r3`, `bx lr`, `pop {lr}; bx lr`, `bx r3`, a jump-table
    `ldr pc`, `blx lr`).
  - Every block independently takes any shape, so `Init` enumerates every
    module of three blocks built from those shapes.
- **`VisitedIntervals.tla`** models the `initialAlreadyVisited` intervals of
  `RecursiveDescentDisassembler`.
  - `visitedPCIntervals` is `m_visitedPCIntervals`, in file order, and
    `visitedPC` is `m_visitedPC`. `LoadVisitedInterval` is one iteration of
    the constructor's loop over the file.
  - The binary search and the scan that ends it are RECURSIVE operators.
    They keep the code's 0-based `int` indices, and `ToSizeT` converts `idx`
    to `size_t` for the comparison `idx < size()`. The linear search
    `isPCInVisitedIntervalsLinear` has no caller and is not modelled.
  - `IsPCInVisitedIntervalsBsearch` keeps the loop's own `mid`, which shadows
    the outer one.
  - `LoadInterval` reads pairs with start <= end only: the file holds
    `[pc_start, pc_end]` pairs, and the constructor does not check them.
  - `Exploration` drives the loading; the module has no specification of
    its own.
- **`RecursiveDescent.tla`** is the abstract specification of the
  exploration front end (spec §2 and §3: each block is discovered once).
  `explored` is the sequence of pcs a run discovered, `covered` the pcs
  earlier runs explored, `done` the end of the run. `Start` discovers the
  entry, `Discover(p)` a pc of the `Frontier`: inside the code, a target of
  a discovered block, neither discovered nor covered. A run ends in the
  step whose frontier becomes empty. `Cover` adds covered pcs before a run
  discovers anything, `Rerun` starts a new run. `Spec` has weak fairness of
  discovery.
- **`InlineHelpers.tla`** holds the operators of `S2EInlineHelpersPass`. A
  function is its sequence of call sites, each its callee's name.
  `ShouldInlineCall` is membership in `INLINE_FUNCTIONS`,
  `FunctionsToInline` the calls one round collects, `InlineRound` one round
  of the `while (true)` loop: each collected call before the first one
  `InlineFunction` fails on (`FirstFailure`, a callee without a body) is
  replaced by its callee's body. `InlineDone` is the round that collects
  nothing.
- **`ARMCallHeuristic.tla`** holds ARMMarkCall's call test
  (`IsCallReturn`: the LR value is `BB_pcEnd` or `BB_pcEnd | 1`) and
  `lrVal & -2` (`ClearThumb`). The classifier, the overlap resolver and the
  disassembler's `REAL_PC` share them.
- **`OverlapResolver.tla`** models `TransformBBToVoid`, `TagInstPc`,
  `RemoveExtraStoreToPC` and `FixOverlappedBBs`, run in that order.
  - `OverlapInit` is the module `SaveTranslatedBBs` writes: a block function
    per translated block (`RawIR`), each guest instruction emitted as S2E
    does (`RawInsn`): the store `PC := pc`, the `s2e_icount` load and store,
    then the ops `Insn` gives (a plain op, a constant store to LR, a
    constant or register store to PC); the function ends with its return
    (`RetOp`). An op is a record `[ins, j]`. `funcs` is the module's
    function list: the block functions and a helper they call.
  - `VoidSkip` and `VoidRewrite` are one iteration of `TransformBBToVoid`'s
    loop over `funcs`: skip a function whose name lacks `tcg-llvm-tb` or
    already has `void-tcg-llvm-tb`, else append its `void-` copy
    (`getOrInsertFunction`, at the end of the list the loop is walking) and
    queue the old one; `EraseOldFuncs` erases the queue. The copies' ops are
    unchanged here; their fake returns matter only to the classifier.
  - `TagInstPc` walks back from each `s2e_icount` store to the store before
    it (its assertion, that it stores to PC, is a guard) and sets `lastpc`
    to the largest pc found.
  - `RemoveExtraStoreToPC` adds `pc`, the `INS_currPC` tag, to each op
    (`CurrPC`: the last constant stored to PC before it, else
    `BB_pcStart`) and erases the constant stores to PC except the last store
    to PC of the block; its range assertion is a guard. `Translate(c)` is
    the result for one block.
  - `FindOverlaps` is the first two loops of `runOnModule`: group the block
    functions by the `lastpc` metadata (`getLastPc`) and sort each group of two or more by
    `BB_pcStart`. `std::list::sort` is stable and the module order is
    arbitrary, so blocks with the same start may come in either order.
  - `StartGroup` and `TruncateFuncAndLinkWith` are the do-while over one
    group. One step is one call of `truncateFuncAndLinkWith`: either its
    assertions fail (`pcA < pcB`, `found`) and the run aborts, or the earlier
    block keeps its ops up to and including the first op tagged with the
    later block's start, followed by `Link(start)` (the store
    `PC := start` and the fake return of `linkWith`).
  - `MarkCallFinds` applies the next pass's call test to a store to PC,
    using `BB_pcEnd`, which `FixOverlappedBBs` does not update.
  - Blocks are single basic blocks: conditional exits are not modelled here.
- **`MCOverlapResolver.tla`**: a guest with instructions at 0, 4, 8 (a
  `mov lr, pc; ldr pc` pair), 20, 24 (`bl 40`), 40, and a Thumb decoding at
  22 inside the ARM instruction at 20. The candidate blocks are the
  translations that start at each of these pcs; `Init` takes every subset of
  them as the module.
- **`Exploration.tla`** (EXTENDS VisitedIntervals) models
  `RecursiveDescentDisassembler`'s exploration.
  - `phase` is `load` while the constructor reads `initialAlreadyVisited`
    (`LoadInterval`, `EndOfFile`), `exec` while blocks run, `inline` while
    `S2EInlineHelpersPass` runs on a block's function (`bbCalls`, its call
    sites), `done` after `exit()`. `isThumb` is `m_isPCThumb` (`none` = no key), loaded from the
    `isThumbIn` pcs. `sched` and `schedMap` are `m_scheduledPCsVector` and
    the keys of `m_scheduledPCsMap`. `allBBs` is `m_allBasicBlocks` with the
    mode each block was translated in. `cpuThumb` is the CPU's thumb flag.
  - A block is given by its exits, the return basic blocks of its function,
    each the sequence of constant stores it makes to PC, LR and `thumb`.
    `IsStoreToPC` and `IsStoreToLR` are the pass's store tests, `StoresTo`
    the stores of an exit to one register.
    `ExtractTargets`, `ImplicitTargets` and `ThumbBitOf` read them as
    `ExtractPossibleTargetsPass` and `ARMGetThumbBit` do.
  - The jump-table file is the constant `JumpTableFile`, per function its
    tables. `LoadFromFile` flattens it in file order, `MapJumpTableInfo`
    keeps the last table of each `bb_start`, and `JumpTableTargets` reads,
    for a table whose `bb_end` matches, `CntEntries` words of `Mem` from
    `base_table` on, then the default case. `assert(cnt_entries >= 1)` is
    part of `ExecGuard`.
  - `ForceRetranslation` is the mode check at the top of
    `slotExecuteBlockStart`. `BeginInline` passes it and starts the helper
    inlining on the block's function (its calls are the constant `Calls`);
    `InlineStep` is one round of the pass's loop. `ExecuteBlockStart` is the
    rest of the handler: record
    the block, schedule every target (`ScheduleTarget`, a fold of
    `explorePCLater` and the `m_isPCThumb` update), then `PopUntilValid`,
    the `while (moreToExplore())` loop of `getNextRealPC` and
    `prepareStateForNextRealPC`, which drops pcs outside the code.
  - `assert(!hasImplicit)` is a guard of `ExecuteBlockStart`.
  - The guest never executes a block: the handler always redirects or
    exits first. So one step per handler call is the whole exploration.
  - When the worklist empties, `exit()` writes `isThumbOut`, the pcs whose
    `m_isPCThumb` is true (`ThumbOut`, into `thumbOut`). `Restart` is the
    next run of the front end, with the same entry mode and
    `initialAlreadyVisited` file: `initialize` reads the last `isThumbOut`
    as `isThumbIn`, or no pcs if the file does not parse (a run killed
    before `exit()` leaves it truncated). Reading the intervals again marks
    their starts visited again. `round` counts the runs up to `MaxRounds`.
  - `Discovery` instantiates `RecursiveDescent` with `explored` the pcs of
    `allBBs`, `covered` the pcs `explorePCLater` refuses before a run
    translates anything (`PreVisited`: the interval starts in `m_visitedPC`
    and what the interval search finds), `done` the `done` phase, and
    `Succ` the targets and matched jump-table entries of each block less
    the thumb bit (`Successors`).
- **`MCExploration.tla`**: a guest with a Thumb entry (16), a Thumb return
  (20), ARM code at 0, 4, 8, 12 and 24, a call to a stub at 28 outside the
  code, and a jump table at 24. `MCExitsCondBlx` replaces the entry by a
  conditional `blx`.
- **`IndirectSolver.tla`** models `SolveIndirectSingle`.
  - A store site `<<f, i>>` is the i-th store to a global of function `f`:
    its global, its `INS_currPC` and its value, a constant or an SSA value
    (a model value). `OptVal` gives each site's value in the optimised copy:
    a constant, `Reg` (not folded), or `Gone` (deleted).
  - `ExpandDirectStoresWithModule` is one `-optfile` of `initialize`: it
    either fails to parse, or `Record` folds its constant stores, in module
    order, into `directStores` (`m_directStores`, keyed by global and pc).
    The module order of each optfile is chosen in `SolverInit`.
  - `PerformAnnotations` is `runOnFunction` for the next function:
    `AnnotateStore` walks its stores in order. `Stored` applies the
    `replaceAllUsesWith` of earlier stores, so a store of an already replaced
    value is constant and skipped, as in the code.
- **`Linker.tla`** models the linker's `main`. An input function is
  `[orig |-> f]`, its clone `[clone |-> f]`. `GatherFile` is one file of
  `gatherFuncs` (or a parse failure), `GatherFunc` one function of
  `gatherFuncsFromModule`. `CloneFuncs`, `Regather` (clear and gather the
  new module) and `LinkFuncs` follow. `linked` maps each replaced
  `INS_directCall` store to the function it now calls.
- **`ThumbDump.tla`** (EXTENDS IndirectSolver) models `ARMDumpThumbBit`,
  run on the solver's output. `FinalValue` is a store's value after the
  solver's replacements; `GetStoreToPCInBB` is the code's search of a basic
  block, including its test of the global's name; `DumpThumbBit` walks every
  store and, for a store of 1 to `thumb`, appends that search's value with
  bit 0 cleared to `thumbPCs`.
- **`PostProcess.tla`** runs the three in sequence: the thumb dump runs once
  the solver is done and the linker once the dump is done, and its first input is the solver's module. No script in
  `src/` chains them; the order follows the solver's `-solvedfile` output and
  the linker's inputs being the translated function modules.
- **`MCPostProcess.tla`**: round 0 built F (start 0) and G (16), round 1 built
  G1 (16 again) and H (40), next to a function without the name tag and one
  without `BB_pcStart`. F's stores are an `ldr pc` folded by the optimiser,
  a `blx r3` (LR constant, PC not folded), a `bx r2` with `thumb` and PC
  folded, R0 stores that are only annotated, and an R0 store sharing the
  replaced PC value. G returns with `bx lr`. `MCStoresOfCondReturn` makes
  that return conditional: its not-taken exit stores PC := 24 at pc 20.

## Runs

| Run | Cfg | Result | What it shows |
|---|---|---|---|
| pipeline | MCFunctionBuilder.cfg | pass, 194,274 states | Over all 2,744 modules from 11 single-exit and 3 conditional shapes: no assertion fires (`NoAbort`), every output function is structurally valid (`VerifierClean`), tags are never overwritten (`ClassificationMonotonic`), the pipeline reaches its end (`Termination`), and `BuildFunctions` refines `FunctionAssembly` (`AssemblesReachable`). |
| blx_lr | MCBlxReturn.cfg | violation of `NoAbort` | `blx lr` is tagged an indirect call, then trips ARMMarkReturn's assertion. |
| switch_no_shl | MCSwitchNoShl.cfg | violation of `VerifierClean` | A switch whose index is not found leaves its block without a terminator. |
| leaf_entry | MCLeafEntry.cfg | violation of `DeclaredEntryBuilt` | A declared entry ending in `bx lr` loses its `func_entry_point` name and its function. |
| exploration | MCExploration.cfg | pass, 152,819 states | For every file of up to two visited intervals, every `isThumbIn` set, both start modes and two successive runs, the second reading the first one's `isThumbOut` (or failing to parse it): each run implements `RecursiveDescent` (`DiscoveryRefinement`: the entry first, then targets of translated blocks inside the code, none twice, none refused by `explorePCLater` before the run, exiting exactly when none is left, and exiting); once the entry is in its mode, every block is (`ModeCorrect`); the `isThumbOut` written at exit lists every Thumb block after the entry and no ARM code (`ThumbOutSound`); every entry and the default case of a jump table of the file that matches a translated block are explored (`JumpTableExplored`); the disassembler exits (`Termination`); and the helper inlining of every block ends (`InlineEnds`). |
| exploration_cond_blx | MCExplorationCondBlx.cfg | violation of `ModeCorrect` | A conditional Thumb `blx` gives its block the thumb bit "unset", which is applied to the Thumb fall-through as well, and pc 20 is translated as ARM. |
| exploration_reexplore | MCExplorationReexplore.cfg | violation of `VisitedNotReexplored` | With an interval from a previous run that contains 20 but starts before it (the trace loads [4, 20] or [0, 20], depending on the workers), pc 20 is translated again: the bsearch's `idx` stays -1, and -1 is not below `size()` as a `size_t`, so it answers false. |
| overlap_chain | MCOverlapResolver.cfg | pass, 2,124 states | Over every module built from six aligned and two misaligned candidate blocks, prepared by TransformBBToVoid, TagInstPc and RemoveExtraStoreToPC: the module then holds each block function once, under its void name (`VoidOnce`), and the passes finish or abort (`OverlapTermination`); each resolved group is a chain of prefixes, each linked to the next start (`ChainLinked`); the pass aborts only on a group that no order can align (`AbortOnlyWhenUnaligned`); and the only op of the next block's first instruction left in the earlier block is its `s2e_icount` load (`SplitKeepsNoGuestOpOfNext`). |
| overlap_split_call | MCOverlapSplitCall.cfg | violation of `SplitLinkIsJump` | Splitting `mov lr, pc` from `ldr pc` at 8 leaves LR = `BB_pcEnd`, so ARMMarkCall tags the link to 8 as a call. |
| postprocess | MCPostProcess.cfg | pass, 190 states | For both module orders of opt-func and every subset of optfiles and linker inputs that fail to parse: every annotated or replaced store gets the constant of its own optimised copy (`SolvedValueIsOwn`); the linked module has one function per start, the first found (`LinkedOncePerStart`); every direct call to a start calls the clone with that start, and a call to 64 stays a store (`CallsLinked`). |
| solve_cond_return | MCPostProcessCondReturn.cfg | violation of `SolvedValueIsOwn` | G's `bxne lr` at 20 is replaced by 24: the not-taken exit's `PC := 24` has the same `INS_currPC`, so the table gives it to the taken exit, and the conditional return becomes a jump to the next instruction. |
| thumb_dump | MCThumbDump.cfg | violation of `ThumbPCsAreThumbTargets` | `getStoreToPCInBB` looks for a store to `thumb`, not to PC (`ARMDumpThumbBit.cpp:74`), so F's `bx r2` into Thumb code is dumped as pc `1 & -2 = 0` instead of its target 20. |

The spec's rule that a direct jump to an undiscovered address branches to the
placeholder (§4.4 step 4) does not hold either: `fixupDirectJumps` only logs
the missing target and the exit returns. `FunctionBuilder` models the code's
behaviour. The divergence has no run of its own.

Three more divergences were shown by runs that have since been retired, to make
room for the post-processing runs:
- `inlineBBs` clones a block reachable from two entries into both functions,
  and the loop meant to remove the originals tests `funci != funci` and never
  runs (`BuildFunctions.cpp:202`); spec §3 and §8 inline a block once.
- `MarkFuncEntry` reads only the front block of a function for its call
  targets (`MarkFuncEntry.cpp:57`), so the target of a conditional call
  never becomes a function; spec §4.5 makes every call target an entry.
- a block decoded from inside another block's instruction makes
  `assert(found)` abort the whole translator (`FixOverlappedBBs.cpp:92`),
  where spec §7 skips that group. `AbortOnlyWhenUnaligned` still
  characterises exactly when the pass aborts.

Each property of a passing run is also checked against a mutant of the code
it is about (PROJECT.json, "mutants"). Each mutant is found:

- skipping the `buildBBMap` after `fixupCalls` → `NoAbort`;
- omitting `cleanupFakeReturns` → `VerifierClean`;
- `ARMMarkJumps` without its skip → `ClassificationMonotonic`;
- an entry loop that does not mark the entry visited → `Termination`;
- `exploreBB` not following call continuations → `AssemblesReachable`;
- `exploreBB` without the `allBBs` check → `TypeOK`;
- `pc_start` and `pc_end` read in the wrong order → `ExploreTypeOK`;
- `explorePCLater` without the scheduled-map test → `DiscoveryRefinement`;
- `shouldInlineCall` accepting every named callee, so a declared-only
  function is collected again every round → `InlineEnds`;
- the implicit target taking the block's thumb bit → `ModeCorrect`;
- `cnt_entries` without the `1 +` → `JumpTableExplored`;
- `exit()` writing every key of `m_isPCThumb`, not only those set to true →
  `ThumbOutSound`;
- the retranslation not writing the CPU thumb flag → `Termination` of
  `Exploration`;
- the do-while running one pair too far → `OverlapTypeOK`, or stopping one
  pair early → `ChainLinked`;
- an unsorted group → `AbortOnlyWhenUnaligned`;
- `TransformBBToVoid` without the "already rewrote" test →
  `OverlapTermination`; without its erase loop → `VoidOnce`;
- the align loop without its `!found` test (the last op tagged with the
  next start) → `SplitKeepsNoGuestOpOfNext`;
- recording non-constant stores in the value table → `PostTypeOK`;
- one value table for all globals → `SolvedValueIsOwn`;
- gathering without the test for a known start → `LinkedOncePerStart`;
- linking with the map of the input modules, not regathered →
  `CallsLinked`.

**Bounds.** Three blocks are enough for every case the `FunctionBuilder`
properties care about:

- a call whose continuation exists (2 → 4) and one whose continuation is
  missing (6 → 8);
- a jump back to the entry (needs `fixup_entry`);
- a block reachable from two entries;
- a switch with one resolved and one missing case;
- a conditional block next to a call target.

The blocks all have the same size, because the end address only matters
through `BB_pcEnd` and the LR offsets.

For `OverlapResolver`, the candidates give groups of three (0, 4, 8 all end
at 8) and two (20 or 22, and 24), two blocks with the same start, a
misaligned Thumb decoding, and a block with a call. Every subset of them is
a module. Each instruction has its `PC := pc` store and `s2e_icount`
increment, so every split lands between the start store and the counter
store of the next block's first instruction. `MaxFuncs` (two functions per candidate and
the helper) bounds the function list: the code's list never grows past it,
and a loop that rewrote its own copies would stop there, which
`OverlapTermination` reports.

For `Exploration`, the guest has:
- both mode switches (ARM → Thumb by `blx`, Thumb → ARM by `blx`);
- a call continuation in each mode;
- a pc scheduled twice before it is popped (8, by 0 and 4);
- an invalid pc on top of a valid one (28 above 8);
- a jump table of two entries (8 and 12; 12 is reached only through it),
  and a table for another block end that the `bb_end` test skips.
The up to two intervals of `initialAlreadyVisited` range over all pairs of
the 8 pcs, so they can cover a target at its start, inside it, or not at
all, and can nest or share a start.
The block at 8 calls `helper_add_cc`, whose body calls `uadd` (a second
inlining round) and the unlisted, declared-only `helper_cpsr_read`; the
block at 0 calls only that one. Every listed helper has a body, as in S2E's
helper module.
`MaxRounds = 2`: a second run reads the first run's `isThumbOut` as
`isThumbIn`, which is where a wrong file would show; further runs read a
file the second run wrote the same way.

For `PostProcess`, every kind of store the solver tells apart occurs once:
folded, not folded, deleted, annotate-only, replaced, and a store whose
value an earlier replacement already turned constant; the LR and PC stores
of `blx r3` share a pc, so a table that ignores the global is caught. The
linker sees a duplicate start across files, an unknown call target, both
filtered kinds of function, and every subset of files failing to load.
Stores of one global at one pc in two functions (a block cloned by
`inlineBBs`) would break `SolvedValueIsOwn` by the same mechanism as the
conditional return; the pass data leaves them out so that the run shows the
property where the table is unambiguous.

An 8-bit `size_t` behaves like the real one, because only the conversion of
-1 matters.

**Fairness.** The translator is a single-threaded batch program. Whenever a
step is enabled it is eventually taken, so `WF_vars(Next)` is justified.
The disassembler is single-threaded as well: S2E calls
`slotExecuteBlockStart` before every translated block runs, and the handler
always redirects the guest or exits. So `Exploration` assumes weak fairness
of the constructor's file loop, of the retranslation, of starting and of
each round of the helper inlining (a loop inside the handler), and of
`ExecuteBlockStart` written as `[]<>~ExecGuard \/ []<><<ExecuteBlockStart>>_allVars`
(its enabling condition is `ExecGuard`, since every such step appends to
`allBBs`; TLC evaluates that form far faster than `ENABLED`). `Restart`,
the next run of the front end, has no fairness: whether it is started is up
to the user.
`OverlapResolver` assumes `WF_orVars(OverlapNext)` for the same reason.
`PostProcess` is checked for safety only: both programs are loops over
finite lists.
`CHECK_DEADLOCK FALSE` is set because the program really stops: after the
fixup loop, or after an assertion.

## Not modelled, and why

- **Instruction-level IR:** the shape of IR values, usesLR's and
  getValueSwitchedOn's pattern matches, metadata strings and hex formatting.
  These are abstracted into the exit shape kinds.
- **`TransformBBToVoid`'s IR rewrite:** `OverlapResolver` models its loop
  over the function list; the void type and the `INS_fakeReturn` returns
  are the classifier's initial block table.
- **`S2EARMMergePcThumbPass`:** its header `S2EARMMergePcThumbPass.h` is not
  in `src/`, so the pass does not build, and no other pass reads what it
  writes.
- **Register naming and IR cleanup passes**
  (`S2EDeleteInstructionCount` and the rest): data rewrites with no control
  decision the later passes depend on. `PcUtils`' instruction-start helpers
  other than `getLastPc` have no callers.
- **`allowedPcRanges`:** `initialize` reads it into `m_allowedPcRanges`, which
  nothing reads.
- **The return tagged with a branch target:** `RemoveExtraStoreToPC` tags a
  block's return with the constant its exit stores to PC. If the exit
  branches to a misaligned start inside the same block, `assert(found)`
  passes at that return and `splitBasicBlock` is called at `end()`. No guest
  of the runs has such a block, and the outcome depends on whether LLVM was
  built with assertions.
- **The S2E side of the disassembler:** translation itself and
  `is_valid_code_addr` are constants of `Exploration` (the exits of each
  block, `ValidPCs`). A block translated in the wrong mode is given the same
  exits; that is only reached before a retranslation or when `ModeCorrect`
  already fails.
- **Output files:** the solved-pcs JSON of `SolveIndirectSingle`'s destructor
  (the model keeps `m_solvedPCs`), and the linker's bitcode and `.fcnt`
  files.
- The pass order is set by whoever runs the passes; no script in `src/` does.
  It is modelled from spec §2 (`PassAfter`, `NextPass`), and from the
  metadata each preparation pass needs in `OverlapResolver`.

## Plan

Modules, in order (all done):

1. `Classifier`: the exit classifier.
2. `FunctionBuilder`: entry detection and function assembly, composed with 1.
3. `FunctionAssembly`: the abstract assembly spec, refined by 2.
4. `OverlapResolver` (TagInstPc, RemoveExtraStoreToPC, FixOverlappedBBs).
5. `VisitedIntervals`: the interval searches as RECURSIVE operators.
6. `Exploration`: the disassembler's worklist, composed with 5.
7. `IndirectSolver` (SolveIndirectSingle).
8. `Linker`, composed after 7 in `PostProcess`.
9. `ThumbDump` (ARMDumpThumbBit), between 7 and 8 in `PostProcess`.
10. `RecursiveDescent`: the abstract exploration spec, refined by 6.
11. `InlineHelpers` (S2EInlineHelpersPass), composed into 6.

Next: a run over stores cloned into two functions for `SolvedValueIsOwn`,
and the solved pcs fed back to `Exploration` as the next round's targets.
