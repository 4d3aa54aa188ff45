--------------------------- MODULE ConvertSnapshot ---------------------------
(***************************************************************************)
(* The deciding half of prepare_snapshot_gem5_uarch: read one exported      *)
(* snapshot, stage LLC lines, select the MOESI private families, run the    *)
(* two internal cross-checks and the family guardrail, and either accept    *)
(* the conversion or stop with one of its RuntimeErrors.  Writing the       *)
(* artifacts is UarchBundle's subject.                                      *)
(***************************************************************************)
EXTENDS UarchSelect

CONSTANTS
    Sources,     \* the exported snapshots that may be met
    MmuExports   \* the MMU files that may lie beside them

MESI == "mesi_two_level"
MOESI == "moesi_cmp_directory"
Protocols == {MESI, MOESI}

\* list: payloads in the array of mmus-0 (0: no such file, or not an array);
\* files: the cores n that have a file mmus-n.
MmuExport == [list: 0 .. NumCores, files: SUBSET Core]

ASSUME SourcesAssumption == Sources \subseteq Snapshot
ASSUME MmuAssumption == MmuExports \subseteq MmuExport

VARIABLES
    src,        \* the snapshot read by this run
    mmus,       \* its MMU files
    protocol,   \* --ruby-protocol
    pc,
    staged,     \* staged_llc_block_ids
    sel,        \* the four MOESI candidate lists, as sets of blocks
    report      \* family counts of the guardrail report

vars == <<src, mmus, protocol, pc, staged, sel, report>>

NoSelection == [owner |-> {}, clean |-> {}, multi |-> {}, instr |-> {}]
Selection ==
    [owner: SUBSET Block, clean: SUBSET Block, multi: SUBSET Block, instr: SUBSET Block]

NoReport == [counts |-> [f \in ImplementedFamilies |-> 0], unsupported |-> {}]
Report == [counts: [ImplementedFamilies -> Nat], unsupported: SUBSET Block]

Running == {"parsed", "staged", "selected", "consistent", "counted"}
Errors == {"no_llc_lines", "inconsistent_story", "diverged_counts", "unsupported"}

TypeOK ==
    /\ src \in Snapshot
    /\ mmus \in MmuExport
    /\ protocol \in Protocols
    /\ pc \in Running \cup Errors \cup {"accepted"}
    /\ staged \subseteq Block
    /\ sel \in Selection
    /\ report \in Report

Init ==
    /\ src \in Sources
    /\ mmus \in MmuExports
    /\ protocol \in Protocols
    /\ pc = "parsed"
    /\ staged = {}
    /\ sel = NoSelection
    /\ report = NoReport

\* _select_llc_restore_lines and the merge of its two lists.
StageLlc ==
    /\ pc = "parsed"
    /\ staged' = Staged(src)
    /\ pc' = IF staged' = {} THEN "no_llc_lines" ELSE "staged"
    /\ UNCHANGED <<src, mmus, protocol, sel, report>>

Select(backed) ==
    [owner |-> OwnerBlocks(src, backed),
     clean |-> SingleCleanBlocks(src, backed),
     multi |-> MultiCleanBlocks(src, backed),
     instr |-> InstructionBlocks(src, backed)]

\* The selectors run for both protocols; only MOESI goes on to be checked.
SelectFamilies ==
    /\ pc = "staged"
    /\ sel' = Select(staged)
    /\ pc' = IF protocol = MOESI THEN "selected" ELSE "accepted"
    /\ UNCHANGED <<src, mmus, protocol, staged, report>>

\* _validate_moesi_cache_hierarchy_story.  Only multi and instruction
\* candidates carry llc_backed; it is set from the staged blocks.  The
\* single-clean candidates lack the key, so nothing is asked of them.
StoryConsistent ==
    /\ sel.owner \cap staged = {}
    /\ \A b \in sel.multi \cup sel.instr :
           SharedL2State(staged, b) = "SLS" => b \in staged

CheckStory ==
    /\ pc = "selected"
    /\ pc' = IF StoryConsistent THEN "consistent" ELSE "inconsistent_story"
    /\ UNCHANGED <<src, mmus, protocol, staged, sel, report>>

OfFamily(f) == {b \in PrivateBlocks(src) : Family(src, staged, b) = f}

Unsupported ==
    {b \in PrivateBlocks(src) : Family(src, staged, b) \notin ImplementedFamilies}

SelectedCounts ==
    [single_writeable |-> Cardinality(sel.owner),
     single_clean |-> Cardinality(sel.clean),
     multi_clean |-> Cardinality(sel.multi),
     instruction_only |-> Cardinality(sel.instr)]

\* A plausible slip: the report lists the families met instead of the blocks.
CheckCountsNamingFamilies ==
    /\ pc = "consistent"
    /\ report' = [counts |-> [f \in ImplementedFamilies |-> Cardinality(OfFamily(f))],
                  unsupported |-> {Family(src, staged, b) : b \in Unsupported}]
    /\ pc' = IF report'.counts = SelectedCounts THEN "counted" ELSE "diverged_counts"
    /\ UNCHANGED <<src, mmus, protocol, staged, sel>>

\* _collect_moesi_private_family_guardrail_report, then the comparison of its
\* counts with the lengths of the candidate lists.
CheckCounts ==
    /\ pc = "consistent"
    /\ report' = [counts |-> [f \in ImplementedFamilies |-> Cardinality(OfFamily(f))],
                  unsupported |-> Unsupported]
    /\ pc' = IF report'.counts = SelectedCounts THEN "counted" ELSE "diverged_counts"
    /\ UNCHANGED <<src, mmus, protocol, staged, sel>>

\* A plausible slip: only blocks of the catch-all family refuse the conversion.
LaxGuardrail ==
    /\ pc = "counted"
    /\ pc' = IF \E b \in report.unsupported : Family(src, staged, b) = "anything_else"
             THEN "unsupported" ELSE "accepted"
    /\ UNCHANGED <<src, mmus, protocol, staged, sel, report>>

Guardrail ==
    /\ pc = "counted"
    /\ pc' = IF report.unsupported # {} THEN "unsupported" ELSE "accepted"
    /\ UNCHANGED <<src, mmus, protocol, staged, sel, report>>

Next == StageLlc \/ SelectFamilies \/ CheckStory \/ CheckCounts \/ Guardrail

Spec == Init /\ [][Next]_vars

------------------------------------------------------------------------------
(* What an accepted conversion tells gem5 to preload.                       *)

L1Lines ==
    IF protocol = MOESI
    THEN {[block |-> l.block, core |-> l.core, cache |-> l.cache, l1 |-> l.l1] :
             l \in MoesiLines(src, staged, sel)}
    ELSE L1DLines(src) \cup L1ILines(src)

\* The MMU payloads the manifest passes on.  The caller hands over the number
\* of distinct private blocks where the function expects a number of cores.
MmuSources ==
    LET count == Cardinality({e.block : e \in src.priv})
        listed == {c \in Core : c < mmus.list /\ c < count}
    IN  IF listed # {} THEN listed ELSE {c \in mmus.files : c < count}

------------------------------------------------------------------------------
(* Facts about a source that its exporter should guarantee.                 *)

\* A writeable private copy is the only private copy.
SourceCoherent ==
    \A e1, e2 \in src.priv :
        e1.block = e2.block /\ e1.writeable => e1 = e2

\* The slot of a private cache in the sharer bitmap.
SlotOf(e) == 2 * e.core + (IF e.cache = "d_cache" THEN 1 ELSE 0)

\* The sharer bitmap of block b names exactly the caches that hold it.
BitmapExact(b) ==
    LET meta == src.dir[b]
        held == {SlotOf(e) : e \in Entries(src, b)}
    IN  /\ meta.bits = 2 * NumCores
        /\ \A w \in WordIndex :
               meta.words[w] = {bit \in 0 .. WordBits - 1 : w * WordBits + bit \in held}

\* Lines whose cache and is_instruction flag disagree; no L1 list takes them.
Mislabelled(b) == {e \in Entries(src, b) : ~IsData(e) /\ ~IsInstruction(e)}

------------------------------------------------------------------------------
(* Properties.                                                              *)

\* The two cross-checks inside the converter (LLC-backed story, guardrail
\* counts against selector counts) never fire: classifier and selectors, which
\* the code writes out separately, agree on every snapshot.
ChecksNeverFire == pc \notin {"inconsistent_story", "diverged_counts"}

\* What gem5 preloads is coherent: a line restored in M is restored in no other
\* L1 and is not staged in the LLC.  For MOESI this holds whatever the snapshot
\* holds, because the guardrail refuses the rest; MESI has no guardrail and
\* needs a coherent source.
RestoredCoherent ==
    pc = "accepted" /\ (protocol = MESI => SourceCoherent) =>
        \A l1, l2 \in L1Lines :
            l1.block = l2.block /\ l1.l1 = "M" => l1 = l2 /\ l1.block \notin staged

\* An accepted MOESI conversion loses and invents nothing among blocks the
\* directory knows: every data line of a D-cache and every instruction line of
\* an I-cache is restored in the same core's same cache, from one list only,
\* and nothing else is restored.
RestoredExactly ==
    pc = "accepted" /\ protocol = MOESI =>
        LET lines == MoesiLines(src, staged, sel)
        IN  /\ {<<l.block, l.core, l.cache>> : l \in lines}
                 = {<<e.block, e.core, e.cache>> :
                       e \in {x \in src.priv : src.dir[x.block].present
                                               /\ (IsData(x) \/ IsInstruction(x))}}
            /\ \A l1, l2 \in lines : l1.block = l2.block => l1.list = l2.list

\* No private line claims LLC backing (local-directory state SLS) for a block
\* that the LLC file does not stage, and none denies backing that is there:
\* the mismatch that made gem5 assert in preloadWarmPrivateCleanLine.
BackingMatchesStaged ==
    pc = "accepted" /\ protocol = MOESI =>
        \A l \in MoesiLines(src, staged, sel) : (l.l2 = "SLS") <=> (l.block \in staged)

\* For a block whose sharer bitmap is exact, or empty, the sharers announced to the
\* inclusive L2 are exactly the cores whose L1 restores the block, all of them in S,
\* and the cores of mislabelled lines, which are announced though no L1 restores them.
SharersMatchL1 ==
    pc = "accepted" /\ protocol = MESI =>
        \A b \in L2SharedBlocks(src) :
            BitmapExact(b) \/ AllSharers(src.dir[b]) = {} =>
                LET lines == {l \in L1Lines : l.block = b}
                IN  /\ L2SharedCores(src, b)
                           = {l.core : l \in lines} \cup {e.core : e \in Mislabelled(b)}
                    /\ \A l \in lines : l.l1 = "S"

\* Every core whose MMU state was exported gets it passed on
\* (prepare_gem5_uarch.py:768 "one MMU payload per CPU").
MmuCoversCores ==
    pc = "accepted" => \A c \in Core :
        (c < mmus.list \/ (mmus.list = 0 /\ c \in mmus.files)) => c \in MmuSources

\* Without the debugging option only clean LLC lines are staged
\* (scripts/uarch_restore/README.md:68 "clean LLC lines").
OnlyCleanStaged == pc = "accepted" => \A b \in staged : src.llc[b] = "clean"
==============================================================================
