----------------------------- MODULE UarchSelect -----------------------------
(***************************************************************************)
(* The selection rules of scripts/uarch_restore/prepare_gem5_uarch.py: from *)
(* one exported WormCache snapshot (LLC lines, directory entries, private   *)
(* I/D-cache lines) to the cache lines that gem5 is told to preload.        *)
(*                                                                          *)
(* A snapshot is a record                                                   *)
(*   llc[b]  - how block b sits in the shared LLC,                          *)
(*   dir[b]  - the directory entry of b (present = FALSE: there is none),   *)
(*   priv    - the valid private-cache lines.                               *)
(* Sets, ways, timestamps and addresses are left out: they only order the   *)
(* emitted lines.  Invalid lines never get past the parser, so they are not *)
(* in the record.                                                           *)
(***************************************************************************)
EXTENDS Integers, FiniteSets

CONSTANTS
    Block,      \* cache-block ids
    NumCores,   \* private cache pairs in the Harvard export
    WordBits    \* bits in a word of the sharer bitmap, 64 in the export

ASSUME SelectAssumption == {NumCores, WordBits} \subseteq Nat \ {0} /\ IsFiniteSet(Block)

Core == 0 .. NumCores - 1
Cache == {"i_cache", "d_cache"}

Entry ==
    [block: Block, core: Core, cache: Cache, is_instruction: BOOLEAN,
     writeable: BOOLEAN, modified: BOOLEAN]

\* The sharer bitmap: how many slots it has, and the positions of the set bits in
\* each of its words.
WordIndex == {slot \div WordBits : slot \in 0 .. 2 * NumCores - 1}

DirMeta ==
    [present: BOOLEAN, shared: BOOLEAN, in_shared_cache: BOOLEAN,
     bits: 0 .. 2 * NumCores, words: [WordIndex -> SUBSET (0 .. WordBits - 1)]]

Snapshot ==
    [llc: [Block -> {"absent", "clean", "modified"}],
     dir: [Block -> DirMeta],
     priv: SUBSET Entry]

------------------------------------------------------------------------------
(* Private lines of one block, _summarize_private_entries.                  *)

Entries(s, b) == {e \in s.priv : e.block = b}

IsData(e) == e.cache = "d_cache" /\ ~e.is_instruction
IsInstruction(e) == e.cache = "i_cache" /\ e.is_instruction

DEntries(s, b) == {e \in Entries(s, b) : IsData(e)}
IEntries(s, b) == {e \in Entries(s, b) : IsInstruction(e)}

DCores(s, b) == {e.core : e \in DEntries(s, b)}
ICores(s, b) == {e.core : e \in IEntries(s, b)}

AnyDWriteable(s, b) == \E e \in DEntries(s, b) : e.writeable
AnyDModified(s, b) == \E e \in DEntries(s, b) : e.modified
AnyIModified(s, b) == \E e \in IEntries(s, b) : e.modified

Single(S) == \E c \in S : S = {c}

------------------------------------------------------------------------------
(* LLC lines to stage: any private line that is modified or writeable, of   *)
(* whatever cache and kind, keeps the LLC copy out.                         *)

\* A plausible slip: an owner that has not written yet is overlooked.
Unmodified(s, b) == \A e \in Entries(s, b) : ~e.modified

Unclaimed(s, b) == \A e \in Entries(s, b) : ~e.modified /\ ~e.writeable

Restorable(s, b) == s.llc[b] # "absent" /\ Unclaimed(s, b)

StagedClean(s) == {b \in Block : Restorable(s, b) /\ s.llc[b] = "clean"}
StagedModified(s) == {b \in Block : Restorable(s, b) /\ s.llc[b] = "modified"}
Staged(s) == StagedClean(s) \cup StagedModified(s)

------------------------------------------------------------------------------
(* L1 restore lines that every protocol gets (l1d/l1i_restore_addrs).       *)

L1DState(e) == IF e.writeable THEN "M" ELSE "S"
L1IState(e) == "S"

L1DLines(s) ==
    {[block |-> e.block, core |-> e.core, cache |-> "d_cache", l1 |-> L1DState(e)] :
        e \in {x \in s.priv : IsData(x)}}

L1ILines(s) ==
    {[block |-> e.block, core |-> e.core, cache |-> "i_cache", l1 |-> L1IState(e)] :
        e \in {x \in s.priv : IsInstruction(x)}}

------------------------------------------------------------------------------
(* l2_shared_restore_addrs: the sharers the inclusive MESI L2 is told of.   *)
(* Even bitmap slots are I-caches, odd ones D-caches; slot \div 2 is the    *)
(* core.  An empty bitmap falls back on the private lines themselves.       *)

\* A plausible slip: a later word of the bitmap is read like the first.
SlotsWithoutBase(meta) ==
    {slot \in 0 .. meta.bits - 1 : \E w \in WordIndex : slot \in meta.words[w]}

\* Bit by bit, word by word, as far as the bitmap has slots.
Slots(meta) ==
    {slot \in 0 .. meta.bits - 1 :
        \E w \in WordIndex : \E bit \in meta.words[w] : slot = w * WordBits + bit}

SharerCores(meta, parity) ==
    {slot \div 2 : slot \in {x \in Slots(meta) : x % 2 = parity}}

AllSharers(meta) == SharerCores(meta, 0) \cup SharerCores(meta, 1)

L2SharedBlocks(s) ==
    {b \in Block :
        /\ s.dir[b].present /\ s.dir[b].shared
        /\ Entries(s, b) # {}
        /\ Unclaimed(s, b)}

L2SharedCores(s, b) ==
    IF AllSharers(s.dir[b]) # {}
    THEN AllSharers(s.dir[b])
    ELSE {e.core : e \in Entries(s, b)}

------------------------------------------------------------------------------
(* MOESI private families: the guardrail's classifier and, written apart    *)
(* from it in the code, the four selectors.  backed is the set of blocks    *)
(* taken to be LLC-resident.  Only blocks that have both a private line and *)
(* a directory entry are looked at.                                         *)

ImplementedFamilies ==
    {"single_writeable", "single_clean", "multi_clean", "instruction_only"}

PrivateBlocks(s) == {b \in Block : Entries(s, b) # {} /\ s.dir[b].present}

HasOwner(s, b) == Single(DCores(s, b)) /\ AnyDWriteable(s, b)

HasCleanData(s, b) ==
    DCores(s, b) # {} /\ ~AnyDWriteable(s, b) /\ ~AnyDModified(s, b)

HasCleanCode(s, b) ==
    DCores(s, b) = {} /\ ICores(s, b) # {} /\ ~AnyIModified(s, b)

Family(s, backed, b) ==
    LET mixed == ICores(s, b) # {}
        one == Single(DCores(s, b))
        shared == s.dir[b].shared
    IN  CASE HasOwner(s, b) /\ mixed -> "writeable_mixed"
          [] HasOwner(s, b) /\ ~mixed /\ b \in backed -> "writeable_llc_backed"
          [] HasOwner(s, b) /\ ~mixed /\ b \notin backed
                /\ (shared \/ s.dir[b].in_shared_cache) -> "writeable_directory_shared"
          [] HasOwner(s, b) /\ ~mixed /\ b \notin backed
                /\ ~shared /\ ~s.dir[b].in_shared_cache -> "single_writeable"
          [] HasCleanData(s, b) /\ mixed /\ one -> "single_clean_mixed"
          [] HasCleanData(s, b) /\ mixed /\ ~one -> "multi_clean_mixed"
          [] HasCleanData(s, b) /\ ~mixed /\ shared /\ one /\ b \in backed -> "single_clean"
          [] HasCleanData(s, b) /\ ~mixed /\ shared
                /\ (~one \/ b \notin backed) -> "multi_clean"
          [] HasCleanCode(s, b) /\ shared -> "instruction_only"
          [] HasCleanCode(s, b) /\ ~shared -> "instruction_nonshared"
          [] OTHER -> "anything_else"

OwnerBlocks(s, backed) ==
    {b \in PrivateBlocks(s) :
        /\ Single(DCores(s, b))
        /\ AnyDWriteable(s, b)
        /\ ICores(s, b) = {}
        /\ b \notin backed
        /\ ~s.dir[b].shared
        /\ ~s.dir[b].in_shared_cache}

SingleCleanBlocks(s, backed) ==
    {b \in PrivateBlocks(s) :
        /\ Single(DCores(s, b))
        /\ ICores(s, b) = {}
        /\ ~AnyDWriteable(s, b)
        /\ ~AnyDModified(s, b)
        /\ b \in backed
        /\ s.dir[b].shared}

\* A plausible slip: the modified check of the clean selector is forgotten.
MultiCleanOrDirtyBlocks(s, backed) ==
    {b \in PrivateBlocks(s) :
        /\ DCores(s, b) # {}
        /\ Single(DCores(s, b)) => b \notin backed
        /\ ICores(s, b) = {}
        /\ ~AnyDWriteable(s, b)
        /\ s.dir[b].shared}

\* The call with include_single_clean_nonllc = True.
MultiCleanBlocks(s, backed) ==
    {b \in PrivateBlocks(s) :
        /\ DCores(s, b) # {}
        /\ Single(DCores(s, b)) => b \notin backed
        /\ ICores(s, b) = {}
        /\ ~AnyDWriteable(s, b)
        /\ ~AnyDModified(s, b)
        /\ s.dir[b].shared}

InstructionBlocks(s, backed) ==
    {b \in PrivateBlocks(s) :
        /\ DCores(s, b) = {}
        /\ ICores(s, b) # {}
        /\ ~AnyIModified(s, b)
        /\ s.dir[b].shared}

------------------------------------------------------------------------------
(* What the candidate lists say of each line: the L1 state, the state of    *)
(* the L2 slice's local directory and the list the line is written in.      *)

\* A plausible slip: every shared private line takes the non-LLC form.
LocalL2State(backed, b) == "ILS"

SharedL2State(backed, b) == IF b \in backed THEN "SLS" ELSE "ILS"

FamilyLine(list, b, c, cache, l1, l2) ==
    [list |-> list, block |-> b, core |-> c, cache |-> cache, l1 |-> l1, l2 |-> l2]

MoesiLines(s, backed, sel) ==
    LET Lines(list, B, cache, Cores(_), l1, L2(_)) ==
            UNION {{FamilyLine(list, b, c, cache, l1, L2(b)) : c \in Cores(b)} : b \in B}
        D(b) == DCores(s, b)
        I(b) == ICores(s, b)
        Shared(b) == SharedL2State(backed, b)
    IN  Lines("single_writeable", sel.owner, "d_cache", D, "M", LAMBDA b : "ILX")
        \cup Lines("single_clean", sel.clean, "d_cache", D, "S", LAMBDA b : "SLS")
        \cup Lines("multi_clean", sel.multi, "d_cache", D, "S", Shared)
        \cup Lines("instruction_only", sel.instr, "i_cache", I, "S", Shared)
==============================================================================
