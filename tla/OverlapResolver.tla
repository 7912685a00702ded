--------------------------- MODULE OverlapResolver ---------------------------
(***************************************************************************)
(* The block preparation that FixOverlappedBBs depends on, and            *)
(* FixOverlappedBBs itself, over the module SaveTranslatedBBs writes: one *)
(* block function per translated block, every op carrying BB_pcStart and  *)
(* BB_pcEnd.  S2E emits each guest instruction at pc as the store         *)
(* PC := pc, the increment of s2e_icount (a load, then a store), and the  *)
(* instruction's own ops.                                                  *)
(*                                                                         *)
(* TagInstPc marks the store to PC before each s2e_icount store           *)
(* "inststart" and sets the block's "lastpc" to the largest such pc.      *)
(* RemoveExtraStoreToPC tags every op INS_currPC with the last constant   *)
(* stored to PC before it and erases the constant stores to PC but the    *)
(* last store to PC of the block.  FixOverlappedBBs groups the block      *)
(* functions by lastpc; each group is sorted by BB_pcStart, and every     *)
(* member is cut where the next one starts and linked to it by a store    *)
(* PC := start (INS_splitCall) and a fake return.  One basic block per    *)
(* block function, ending in a return: the blocks modelled end            *)
(* unconditionally.                                                        *)
(***************************************************************************)
EXTENDS Naturals, Sequences, FiniteSets, SequencesExt, ARMCallHeuristic

CONSTANTS
    Insn,        \* pc -> the IR ops of the guest instruction at pc
    Candidates,  \* translated blocks, each the pcs of its instructions
    InsnSize     \* size of the last instruction: BB_pcEnd - lastpc

Start(c) == c[1]
PCEnd(c) == Last(c) + InsnSize

(* the ops S2E emits before an instruction's own ops, by index j *)
InstStartStore == -2
IcountLoad == -1
IcountStore == 0

(* the j-th IR op emitted for the instruction at pc p *)
RawOp(p, j) == [ins |-> p, j |-> j]
RawInsn(p) ==
    <<RawOp(p, InstStartStore), RawOp(p, IcountLoad), RawOp(p, IcountStore)>>
        \o [j \in 1..Len(Insn[p]) |-> RawOp(p, j)]
(* the return that ends the block function, after the last instruction *)
RetOp(c) == RawOp(Last(c), Len(Insn[Last(c)]) + 1)
(* the block function of a translated block, as SaveTranslatedBBs saves it *)
RawIR(c) == FlattenSeq([i \in 1..Len(c) |-> RawInsn(c[i])]) \o <<RetOp(c)>>

(* the store PC := t and the fake return that linkWith appends *)
Link(t) == [to |-> t]
IsLink(o) == "to" \in DOMAIN o
Kind(o) ==
    CASE IsLink(o)                -> [k |-> "pc", v |-> o.to]
      [] o.j = InstStartStore     -> [k |-> "pc", v |-> o.ins]
      [] o.j = IcountLoad         -> [k |-> "icountload"]
      [] o.j = IcountStore        -> [k |-> "icount"]
      [] o.j > Len(Insn[o.ins])   -> [k |-> "ret"]
      [] OTHER                    -> Insn[o.ins][o.j]

IsStore(o) == Kind(o).k \in {"pc", "pcreg", "lr", "icount"}
IsStoreToPC(o) == Kind(o).k \in {"pc", "pcreg"}
IsConstStoreToPC(o) == Kind(o).k = "pc"

(***************************************************************************)
(* TagInstPc: from each store to s2e_icount, the nearest store before it  *)
(* (asserted to be a store to PC) is an instruction start.               *)
(***************************************************************************)
StoreBefore(ops, i) == Max({k \in 1..(i - 1) : IsStore(ops[k])})
InstStarts(ops) ==
    {StoreBefore(ops, i) : i \in {i \in DOMAIN ops : Kind(ops[i]).k = "icount"}}
(* lastpc keeps the largest pc: a smaller one is skipped (continue) *)
LastPcMeta(ops) == Max({Kind(ops[i]).v : i \in InstStarts(ops)})

(***************************************************************************)
(* RemoveExtraStoreToPC on one block function: pcMeta starts as          *)
(* BB_pcStart, each op is tagged before a constant store to PC moves     *)
(* pcMeta on, and the constant stores to PC but the last store to PC of  *)
(* the (exit) basic block are erased.                                     *)
(***************************************************************************)
CurrPC(ops, i, pcStart) ==
    LET before == {k \in 1..(i - 1) : IsConstStoreToPC(ops[k])}
    IN  IF before = {} THEN pcStart ELSE Kind(ops[Max(before)]).v
LastStoreToPC(ops) == Max({i \in DOMAIN ops : IsStoreToPC(ops[i])})
ErasedStores(ops) ==
    {i \in DOMAIN ops : IsConstStoreToPC(ops[i]) /\ i # LastStoreToPC(ops)}
(* assert: every erased pc lies in [BB_pcStart, BB_pcEnd] *)
ErasedInBlock(ops, c) ==
    \A i \in ErasedStores(ops) : Start(c) <= Kind(ops[i]).v /\ Kind(ops[i]).v <= PCEnd(c)
RemoveExtra(ops, pcStart) ==
    LET kept == SelectSeq([i \in DOMAIN ops |-> i], LAMBDA i : i \notin ErasedStores(ops))
    IN  [n \in DOMAIN kept |->
            [ins |-> ops[kept[n]].ins, j |-> ops[kept[n]].j,
             pc |-> CurrPC(ops, kept[n], pcStart)]]

(* the IR of a translated block once RemoveExtraStoreToPC has run *)
Translate(c) == RemoveExtra(RawIR(c), Start(c))

VARIABLES
    blocks,     \* the block functions of the module
    body,       \* block function -> its IR ops
    lastpc,     \* block function -> its "lastpc" metadata, 0 while unset
    stage,      \* void, tag, rmpc, find, resolve, done, or aborted
    overlaps,   \* the sorted groups not yet resolved
    chain,      \* the group being resolved (funcList), or <<>>
    curr,       \* index of curr in chain
    next,       \* index of next in chain
    funcs,      \* the module's function list, in order
    vi,         \* TransformBBToVoid's iterator ifunc, an index into funcs
    eraseFuncs  \* the old functions TransformBBToVoid erases at its end

voidVars == <<funcs, vi, eraseFuncs>>
orVars == <<blocks, body, lastpc, stage, overlaps, chain, curr, next, voidVars>>

(***************************************************************************)
(* TransformBBToVoid::runOnModule.  A function of the module is a helper  *)
(* it declares (c = <<>>) or the block function of c, named "void-"       *)
(* voids times before "tcg-llvm-tb-...".  The loop walks the function    *)
(* list while getOrInsertFunction appends the void copies to it, then    *)
(* erases the old functions.  The copies' returns become INS_fakeReturn; *)
(* their ops are the same.                                                *)
(***************************************************************************)
Func(c, v) == [c |-> c, voids |-> v]
Helper == Func(<<>>, 0)
(* strstr(name, "tcg-llvm-tb"), strstr(name, "void-tcg-llvm-tb") *)
IsTcgFunc(f) == f.c # <<>>
IsRewritten(f) == f.voids >= 1
(* the list holds at most the saved functions and one copy of each *)
MaxFuncs == 2 * Cardinality(Candidates) + 1

(* the loop without the "already rewrote" test *)
SkipFuncExternalOnly(f) == ~IsTcgFunc(f)

(* the loop skips an external function or one already rewritten *)
SkipFunc(f) == ~IsTcgFunc(f) \/ IsRewritten(f)

VoidSkip ==
    /\ stage = "void"
    /\ vi <= Len(funcs)
    /\ SkipFunc(funcs[vi])
    /\ vi' = vi + 1
    /\ UNCHANGED <<funcs, eraseFuncs, blocks, body, lastpc, stage, overlaps, chain, curr, next>>

(* getOrInsertFunction("void-" + name) appends the copy, unless a       *)
(* function of that name exists                                          *)
VoidRewrite ==
    /\ stage = "void"
    /\ vi <= Len(funcs)
    /\ ~SkipFunc(funcs[vi])
    /\ Len(funcs) < MaxFuncs
    /\ LET f == funcs[vi]
           new == Func(f.c, f.voids + 1)
       IN  /\ funcs' = IF new \in ToSet(funcs) THEN funcs ELSE Append(funcs, new)
           /\ eraseFuncs' = eraseFuncs \cup {f}
    /\ vi' = vi + 1
    /\ UNCHANGED <<blocks, body, lastpc, stage, overlaps, chain, curr, next>>

(* the erase loop left out: the old functions stay *)
EraseOldFuncsKeep ==
    /\ stage = "void"
    /\ vi > Len(funcs)
    /\ stage' = "tag"
    /\ UNCHANGED <<funcs, vi, eraseFuncs, blocks, body, lastpc, overlaps, chain, curr, next>>

EraseOldFuncs ==
    /\ stage = "void"
    /\ vi > Len(funcs)
    /\ funcs' = SelectSeq(funcs, LAMBDA f : f \notin eraseFuncs)
    /\ stage' = "tag"
    /\ UNCHANGED <<vi, eraseFuncs, blocks, body, lastpc, overlaps, chain, curr, next>>

(* TagInstPc::runOnModule, over every store to s2e_icount of the module *)
TagInstPc ==
    /\ stage = "tag"
    /\ \A c \in blocks : \A i \in InstStarts(body[c]) : IsStoreToPC(body[c][i])
    /\ lastpc' = [c \in blocks |-> LastPcMeta(body[c])]
    /\ stage' = "rmpc"
    /\ UNCHANGED <<voidVars, blocks, body, overlaps, chain, curr, next>>

(* RemoveExtraStoreToPC::runOnFunction, on every block function; its    *)
(* range assertion stops the run when it fails                           *)
RemoveExtraStoreToPC ==
    /\ stage = "rmpc"
    /\ \A c \in blocks : ErasedInBlock(body[c], c)
    /\ body' = [c \in blocks |-> RemoveExtra(body[c], Start(c))]
    /\ stage' = "find"
    /\ UNCHANGED <<voidVars, blocks, lastpc, overlaps, chain, curr, next>>

(***************************************************************************)
(* runOnModule, first loop: endings groups the block functions by the    *)
(* lastpc of their entry block (getLastPc); a group is an overlap once   *)
(* it has two.  Endings(B, lp) groups B by the function lp.                             *)
(***************************************************************************)
LastPc(c) == lastpc[c]
Endings(B, lp) == {{c \in B : lp[c] = e} : e \in {lp[c] : c \in B}}
OverlapsBy(B, lp) == {g \in Endings(B, lp) : Cardinality(g) >= 2}

(* funcList.sort(myCompareStartOfFunc): stable, so equal starts keep     *)
(* the module order, which is any order                                  *)
(* the sort is left out *)
SortedOrdersUnsorted(g) == SetToSeqs(g)

SortedOrders(g) ==
    {s \in SetToSeqs(g) : \A i \in 1..(Len(s) - 1) : Start(s[i]) <= Start(s[i + 1])}

SortChoices(G) ==
    {f \in [G -> UNION {SortedOrders(g) : g \in G}] : \A g \in G : f[g] \in SortedOrders(g)}

(* the first two loops of runOnModule *)
FindOverlaps ==
    /\ stage = "find"
    /\ \E f \in SortChoices(OverlapsBy(blocks, [c \in blocks |-> LastPc(c)])) : overlaps' = {f[g] : g \in DOMAIN f}
    /\ stage' = "resolve"
    /\ UNCHANGED <<voidVars, blocks, body, lastpc, chain, curr, next>>

(* the third loop takes the next group of overlaps *)
StartGroup(s) ==
    /\ stage = "resolve"
    /\ chain = <<>>
    /\ s \in overlaps
    /\ overlaps' = overlaps \ {s}
    /\ chain' = s
    /\ curr' = 1
    /\ next' = 2
    /\ UNCHANGED <<voidVars, blocks, body, lastpc, stage>>

(* the align loop without the !found test: the last op tagged pcB *)
AlignIdxLast(ops, pcB) ==
    LET is == {i \in DOMAIN ops : ~IsLink(ops[i]) /\ ops[i].pc = pcB}
    IN  IF is = {} THEN 0 ELSE Max(is)

(* the align loop: the first IR op of a whose INS_currPC is pcB, or 0 *)
AlignIdx(ops, pcB) == SelectInSeq(ops, LAMBDA o : ~IsLink(o) /\ o.pc = pcB)

(* the loop runs once more, with next at the end of the list *)
LoopEndOffByOne(c, n) == n + 1 > Len(c) + 1

(* the loop stops before the last pair *)
LoopEndEarly(c, n) == n + 1 >= Len(c)

(* the do-while ends once ++next reaches the end of the list *)
LoopEnd(c, n) == n + 1 > Len(c)

(***************************************************************************)
(* One iteration of the do-while: truncateFuncAndLinkWith of curr and next. *)
(* It asserts pcA < pcB and that the alignment was found; otherwise it   *)
(* splits a after the found op (++deleteAfterIns), erases the branch to  *)
(* the dead tail, links a to pcB and deletes the tail.                   *)
(***************************************************************************)
TruncateFuncAndLinkWith ==
    /\ stage = "resolve"
    /\ chain # <<>>
    /\ LET a == chain[curr]
           b == chain[next]
           i == AlignIdx(body[a], Start(b))
       IN  \/ /\ Start(a) < Start(b)
              /\ i # 0
              /\ body' = [body EXCEPT ![a] = SubSeq(@, 1, i) \o <<Link(Start(b))>>]
              /\ curr' = curr + 1
              /\ next' = next + 1
              /\ chain' = IF LoopEnd(chain, next) THEN <<>> ELSE chain
              /\ UNCHANGED <<voidVars, blocks, lastpc, stage, overlaps>>
           \/ /\ ~(Start(a) < Start(b) /\ i # 0)
              /\ stage' = "aborted"
              /\ UNCHANGED <<voidVars, blocks, body, lastpc, overlaps, chain, curr, next>>

Finish ==
    /\ stage = "resolve"
    /\ chain = <<>>
    /\ overlaps = {}
    /\ stage' = "done"
    /\ UNCHANGED <<voidVars, blocks, body, lastpc, overlaps, chain, curr, next>>

OverlapInit ==
    /\ blocks \in SUBSET Candidates
    /\ body = [c \in blocks |-> RawIR(c)]
    /\ lastpc = [c \in blocks |-> 0]
    /\ stage = "void"
    /\ funcs = [i \in 1..Cardinality(blocks) |-> Func(SetToSeq(blocks)[i], 0)] \o <<Helper>>
    /\ vi = 1
    /\ eraseFuncs = {}
    /\ overlaps = {}
    /\ chain = <<>>
    /\ curr = 1
    /\ next = 2

OverlapNext ==
    \/ VoidSkip
    \/ VoidRewrite
    \/ EraseOldFuncs
    \/ TagInstPc
    \/ RemoveExtraStoreToPC
    \/ FindOverlaps
    \/ \E s \in overlaps : StartGroup(s)
    \/ TruncateFuncAndLinkWith
    \/ Finish

(* the passes are one single-threaded run: an enabled step is taken *)
OverlapSpec == OverlapInit /\ [][OverlapNext]_orVars /\ WF_orVars(OverlapNext)

-----------------------------------------------------------------------------
(* the orders of a group by ascending start, as spec 4.1 sorts it *)
StartOrders(g) == {s \in SetToSeqs(g) : IsSorted(s, LAMBDA x, y : Start(x) <= Start(y))}

(* the overlap groups by the pc of the last guest instruction *)
Overlaps(B) == OverlapsBy(B, [c \in B |-> Last(c)])

RawOps == UNION {ToSet(RawInsn(p)) \cup {RawOp(p, Len(Insn[p]) + 1)} : p \in DOMAIN Insn}
TaggedOps == {[ins |-> o.ins, j |-> o.j, pc |-> p] : o \in RawOps, p \in DOMAIN Insn}

OverlapTypeOK ==
    /\ blocks \subseteq Candidates
    /\ \A c \in blocks :
          body[c] \in Seq(RawOps) \cup Seq(TaggedOps \cup {Link(p) : p \in DOMAIN Insn})
    /\ lastpc \in [blocks -> {0} \cup DOMAIN Insn]
    /\ stage \in {"void", "tag", "rmpc", "find", "resolve", "done", "aborted"}
    /\ funcs \in Seq([c : blocks \cup {<<>>}, voids : Nat])
    /\ Len(funcs) <= MaxFuncs
    /\ chain # <<>> => 1 <= curr /\ curr < next /\ next <= Len(chain)

(* two blocks that no truncation can reconcile: the same start, or the  *)
(* later start is not an instruction boundary of the earlier block       *)
Unaligned(a, b) == ~(Start(a) < Start(b) /\ Start(b) \in ToSet(a))

(***************************************************************************)
(* truncateFuncAndLinkWith's assertions fire only on such input: when the *)
(* pass aborts, some overlap group has, in every order the sort can give, *)
(* two neighbours that are unaligned.                                     *)
(***************************************************************************)
AbortOnlyWhenUnaligned ==
    stage = "aborted" =>
        \E g \in Overlaps(blocks) : \A s \in StartOrders(g) :
            \E i \in 1..(Len(s) - 1) : Unaligned(s[i], s[i + 1])

(***************************************************************************)
(* Once FixOverlappedBBs is done, every overlap group sorted by start is *)
(* a chain (spec 4.1): each member but the last keeps a prefix of its own *)
(* IR that covers every instruction before the next member's start and   *)
(* nothing after it, and ends in a link to that start; the last member   *)
(* is unchanged.                                                          *)
(***************************************************************************)
CutAt(ops, c, pcB) ==
    /\ IsPrefix(Front(ops), Translate(c))
    /\ Last(ops) = Link(pcB)
    /\ \A o \in ToSet(Front(ops)) : o.pc <= pcB
    /\ \A p \in ToSet(c) : p < pcB => \E o \in ToSet(Front(ops)) : o.pc = p

ChainLinked ==
    stage = "done" =>
        \A g \in Overlaps(blocks) : \E s \in StartOrders(g) :
            /\ body[Last(s)] = Translate(Last(s))
            /\ \A i \in 1..(Len(s) - 1) : CutAt(body[s[i]], s[i], Start(s[i + 1]))

(***************************************************************************)
(* Spec 4.1 keeps the found instruction in the earlier block, which would *)
(* duplicate the first instruction of the next one.  truncateFuncAndLink- *)
(* With finds an IR op, not a guest instruction: after the split, the only *)
(* ops of the next block's first instruction left in the earlier block    *)
(* are its load of s2e_icount, which S2EDeleteInstructionCount's erasure  *)
(* of the counter stores leaves dead; no op that changes guest state is   *)
(* duplicated.                                                            *)
(***************************************************************************)
SplitKeepsNoGuestOpOfNext ==
    stage = "done" =>
        \A c \in blocks : IsLink(Last(body[c])) =>
            \A o \in ToSet(Front(body[c])) :
                o.ins = Last(body[c]).to => Kind(o).k = "icountload"

(***************************************************************************)
(* TransformBBToVoid's loop walks a list it appends to: it reaches its end *)
(* only because each copy it appends is skipped as already rewritten.     *)
(* The passes then always finish, or stop at an assertion.               *)
(***************************************************************************)
OverlapTermination == <>(stage \in {"done", "aborted"})

(***************************************************************************)
(* After TransformBBToVoid the module holds each block function once,    *)
(* under its void- name, besides the helpers it declared.               *)
(***************************************************************************)
VoidOnce ==
    stage # "void" =>
        /\ IsInjective(funcs)
        /\ {f \in ToSet(funcs) : IsTcgFunc(f)} = {Func(c, 1) : c \in blocks}
        /\ Helper \in ToSet(funcs)

(***************************************************************************)
(* ARMMarkCall, run next, finds a call at the store to PC at index i of a *)
(* block function: the last constant stored to LR before it is          *)
(* BB_pcEnd, or BB_pcEnd | 1.  BB_pcEnd is still the one of the whole     *)
(* translated block, FixOverlappedBBs does not update it.                 *)
(***************************************************************************)
MarkCallFinds(c, i) ==
    LET lr == {k \in 1..(i - 1) : Kind(body[c][k]).k = "lr"}
    IN  lr # {} /\ IsCallReturn(PCEnd(c), Kind(body[c][Max(lr)]).v)

(***************************************************************************)
(* The link FixOverlappedBBs appends is a jump to the next block (spec    *)
(* 4.1 step 3): ARMMarkCall never tags it as a call.                     *)
(***************************************************************************)
SplitLinkIsJump ==
    \A c \in blocks : IsLink(Last(body[c])) => ~MarkCallFinds(c, Len(body[c]))

=============================================================================
