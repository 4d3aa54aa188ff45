# A verification project for QPoints

QPoints is the bridge between QFlex (QEMU plus the WormCache warm-up models) and
gem5. It turns what QFlex exports of a snapshot into files gem5 preloads its
caches, TLBs and predictors from, starts gem5 on them, and keeps a set of
validation tools that run traced experiments and record their outcome in
manifests. This directory holds TLA+ models of its core logic, TLC
configurations that check them on small instances, and TLAPS proofs.

`PROJECT.json` lists components, runs, theorems, the lines every definition
models (`map`), the plausible bugs each property was seen to catch (`mutants`),
the disagreements met between code and documentation (`findings`) and what is
hard to test in this code (`hazards`). Paths below are relative to the
repository; `prepare` stands for `scripts/uarch_restore/prepare_gem5_uarch.py`.

## 1. Inventory

| Component | State it keeps | Operations | Talks to | Hard part | What makes it correct |
|---|---|---|---|---|---|
| Converter, selection (`prepare` 686-1823, 1945-2095) | none across runs; in one run: parsed lines, staged LLC blocks, candidate lists, guardrail report | parse, select LLC/L1/L2-sharer/MOESI families/BTB/TAGE, cross-check, guardrail | reads the QFlex export, feeds the bundle | four selectors and one classifier that must agree; two protocols with different guarantees | what gem5 preloads is coherent, exact, and consistent about LLC backing |
| Converter, artifact bundle (`prepare` 326-660, 1826-2758) | the files of `snapshot/gem5_uarch/` and of its protocol subtree | write some 35 kinds of files in order, clear globs, refuse, remove the legacy sibling | read by gem5 and `run_gem5.sh`; two protocols share the root | failure or crash between two writes, re-runs with other inputs, `--overwrite` | success leaves exactly its own files; nothing is lost without `--overwrite` |
| Data-trace collectors (`data_trace_atomic`, `data_trace_ruby`) | trace logs, incremental counters, process group, manifest | launch, count, poll, time out, SIGINT/TERM/KILL, copy, analyse, conclude | `run_gem5.sh` or the `qflex` command, gem5 below it, the manifest | gem5 writes while it is polled; processes that exit, hang or ignore signals | counts are exact, staged logs final and long enough, manifest concluded |
| Branch-trace collector (`branch_trace_atomic`) | two runs, two sets of logs, the QEMU monitor, manifest | trace QFlex, quit QEMU, trace gem5, stop it, compare | QEMU monitor socket, process groups | two runs in sequence, quit that is accepted but not obeyed, failures at every step | one at a time, enough branches, nothing left behind, manifest concluded |
| TAGE model (`common/wormcache_tage_model.hpp`) | histories, folded histories, tagged and bimodal tables, random seed | predict, train, pass an unconditional branch | driven by `simulate_wormcache_tage.cpp` | incremental folding, allocation walk, counters in narrow types | folds equal the history, victims are useless, counters saturate |
| gem5 runner (`run_gem5.sh`) | the directory of sim_outs | parse and check options, build the command, run gem5, move stats, summarise | gem5, uIPC summary, collectors and experiments call it | gem5's exit status, files left by earlier runs | a success is one of this run |
| Experiment runner and manifest (`run_experiment.py`, `experiment_manifest.py`) | output directory, two manifest files | repository state, staging, command, acceptance checks, manifest | any command, git | stale files, exceptions between "running" and the result, two writes | a "passed" is about what this command produced |
| Snapshot creation (`create_snapshot.py`, `parse_reg_info.py`, `gen_mem_file.py`) | a checkpoint directory | monitor dialogue, gdb, register and memory conversion | QEMU monitor, gdb | an external dialogue without error checks | every file belongs to the stopped state |
| Offline analyses (`summarize_gem5_uipc.py`, `compare_llc_state.py`, `tage_restore_compare/`) | none | parse, compare, print | logs | formats | arithmetic |
| gem5 patch, microbenchmarks, set-up and archive, tests, validation records | - | - | - | - | - |

## 2. What each module models

**`UarchSelect`** (constants `Block`, `NumCores`, `WordBits`): the selection rules as
operators on one *snapshot* record: how each block sits in the LLC, its directory
entry, its valid private lines. Addresses, sets, ways and timestamps only order
output and are left out; invalid lines never pass the parsers. `Staged` is
`_select_llc_restore_lines` with the merge that follows it; `L1DLines`,
`L1ILines`, `L2SharedBlocks/Cores` are the lists both protocols get; `Family` is
the classifier of the guardrail and `OwnerBlocks`, `SingleCleanBlocks`,
`MultiCleanBlocks`, `InstructionBlocks` are the four MOESI selectors, translated
apart from each other because the code writes them apart. The sharer bitmap is what the
export holds, a number of slots and words of `WordBits` bits (64 in the export), and
`Slots` reads it word by word as `_decode_directory_sharer_cores` does.

**`ConvertSnapshot`**: one action per phase of `prepare_snapshot_gem5_uarch` up
to acceptance: `StageLlc`, `SelectFamilies`, `CheckStory`, `CheckCounts`,
`Guardrail`, each with the error it may stop at. `CheckStory` asks only what the
code asks: single-clean candidates have no `llc_backed` key, so nothing is checked
of them.

**`BundlePlan`** is the order of writing as data: each step a kind of file, the
place (protocol subtree or shared root) and the form (one file, one per slice, one
per core). What `UarchBundle` needs to know of a plan is stated there as assumptions,
`PlanAssumption` (each kind is written in one step, the subtree starts with a single file
and ends with the manifest) and `RootAssumption` (both protocols write the same files to
the root, the BTB candidates first), which TLC evaluates for this plan in the `bundle` run. **`UarchBundle`** executes a plan over the life of a directory:
`Begin` (arguments, legacy sibling, rejected inputs), `Enter` (next step, glob
cleared with `--overwrite`), `Write` (one file; refuses an existing one, or a
sharer core beyond the encoding), `Refuse` (guardrail, after the report has been
written), `Finish`, `Crash` (between files, or with one truncated). The content of
a file is abstracted to the input it was made from.

**`LineCounter`** is `IncrementalLineCounter` over logs of text and line ends, with its
new start when a log has become shorter than the offset.
**`TraceCollector`** models both data-trace collectors: the collector, the started
process (`leader`), gem5 below it and the clock interleave. `run_gem5.sh` appears
as `LeaderEnds`: it may die before gem5 starts, ends well whatever gem5's status,
and may be ended by a signal before gem5 is gone. The collector's actions follow
`main`, `wait_for_threshold` and `stop_process_group`; an exception is a move to
the handler (`Raise`), an exception in the handler ends the run with the manifest as
it is. `tool` tells the two collectors apart where they differ (the handler, and
that ruby copies and analyses outside its try).

**`BranchCollector`** models `collect_branch_traces.py`: the same counting and
signals on a coarser log (a number of lines) and a single process per run, and on
top of it the sequence of two runs, the monitor quit and the except clause as it is
written, including the unbound name it formats.

**`Tage`** models the predictor with table sizes, history lengths and periods as
parameters: `Remember` (updateHistory), `Prediction` (isConditionalTaken), `Train`
with allocation, ageing and teaching in the code's order, and the bimodal baseline.
What the header shifts and masks (histories, folds, indices, tags, seed, addresses) is
a word of bits, a function from `0 .. n - 1` to 0 and 1, so all widths are kept and the
exclusive or is an addition modulo 2; the increment of the random seed is added with
its carries.

**`Gem5Runner`** is `run_gem5.sh` over a directory of sim_outs that outlives it: which
arguments it refuses (`Accepts`), what gem5 may leave there (`Written`, and `Abandoned`
when it is interrupted), `MoveFinal` (stats_final.txt over stats.txt, whoever wrote
it) and `Summarise`, the uIPC script that fails on statistics without the counters it
needs. A statistics file is abstracted to the experiment that wrote it and whether a
dump is in it. Ctrl-C (`KillRunner`) ends the script, or the script waits for gem5 and
goes on; gem5 handles the signal itself, so it may still write after the script is gone
(`Gem5Ends`). **`ExperimentRun`** composes it with `run_experiment.py` and
`experiment_manifest.py` over a reused output directory: `Invoke` (when
nothing of the experiment before runs any more), `Refuse`/`Pass` (the
clean-run rule over the entries git lists: `DirtyEntries` ignores an entry if all its
paths, both ends of a move, lie at or below what `--allow-dirty-path` names or, for a
record under validation_records, the package itself), `Prepare` (clean, stage
before), `Misuse` (a malformed staging argument, found only after cleaning), `Open` and
`Write` for each of the two manifest copies, `StartCommand`, `NoCommand`, `CommandEnds`,
`StageAfter`, `Evaluate`, `Interrupt`. **`ExperimentRecord`** is the abstract
specification: a record that is taken over, announced as running, and decided once.

**`RestoreOrder`** takes over where `UarchSelect` abstracts: the sort of clean and of
modified LLC lines by age, the merge, the split by slice, and the insertion into gem5's
sets (external: each inserted line becomes the most recent one). Sorting is defined by
rank (`InOrder`: the n-th member has n - 1 before it), a definition without recursion.
**`BranchCompare`** is the comparison of two staged traces: common prefix, rolling hash
with a modulus, candidates by hash with verification, the binary search.
**`LruReplay`** is the analysis of a data trace: the cache replay with lists of tags, and
the stride, read/write-pair and working-set summaries. The code goes over a list once
for each of them; in the module the list grows and the passes go along it together, one
step per access (`OpenAccess`) and one per line of the access at hand (`TouchLine`,
the cursor of `iter_cache_lines`). `touches` is a history variable, every touch with the
number of its access, which the reference reads: a touch hits if fewer than `Assoc`
other lines of its set were touched since the line's last touch.
**`CreateSnapshot`** is `create_snapshot.py` with what it calls: the monitor dialogue whose
replies nobody reads, gdb per core, the assembly of the checkpoint, and failures at
every task, over several attempts in one directory. The guest is the moment it is in;
a file is the moments it tells of. **`MCTools`** runs these four and `Tage` one at a time:
they share no state.

## 3. Runs

| Run | Question | Bounds, and why they are enough |
|---|---|---|
| `convert` | Is what an accepted conversion preloads coherent, exact, truthful about LLC backing and about sharers, and do the converter's own checks ever fire? | Two cores: "one" and "more than one" are the only numbers the rules tell apart. One block takes every LLC state, directory flag, exact or empty bitmap and every combination of private lines of both cores, including lines in either cache of core 0 whose `is_instruction` flag disagrees with the cache, clean ones and a writeable one; a word of the bitmap has two bits (`WordBits`), so the cores lie in different words; a second block takes four standard shapes, so acceptance depends on two blocks. |
| `bundle` | What does the directory hold after conversions of changing exports, protocols, refusals, crashes? | Two conversions (`MaxRuns`): each property relates one conversion to the state an arbitrary earlier one left. Four exports: two acceptable ones with different slices and cores, one refused by the guardrail (and, standing for a 64-core export, too wide for the L2 encoding), one without LLC lines. Which slices and cores get files follows from `UarchSelect`. |
| `collector` | Are counts exact, staged logs final and long enough, manifests concluded, and does a collection with a threshold end? | Two cores, logs of four characters (two lines), thresholds 0 (wait for the end) and 2: a line can be cut by polling at every place, and one log can reach the threshold before the other. |
| `branches` | Do the runs overlap, is enough compared, what is left running, does it end? | Threshold 2, at most 3 lines: below, at and above the threshold. |
| `experiment` | Whose statistics does a passed experiment stand beside, what may a reader of the manifest rely on, does it conclude? | Two experiments (`MaxRuns`) in one output directory and one sim_outs, with and without cleaning: every property relates an experiment to what an earlier one left. Both ways to bring in statistics, three kinds of acceptance, instruction and cycle windows and three refused command lines; four workspaces for git (nothing changed, the package alone, a source file as well, a source moved into the package), with and without an `--allow-dirty-path` that covers the source. |
| `tools` | Is the longest common run found, are hits those of the stack distances, do the summaries agree, does the order of restore lines rebuild recency, is a snapshot of one moment; has TAGE exact widths and folds, useless victims, a two-bit baseline? | Traces up to 5 of two tokens, with a hash modulus of 4 so that collisions are common; four accesses over four lines of two sets, one across a line border and one of no bytes; five blocks with equal and different ages, one slice or two; two cores, three moments, two attempts; three tables of four entries with histories of 5, 3, 2 outcomes and six branches at two addresses: every history wraps, a usefulness decrement and a failed allocation happen, and ageing happens once (period 4). |

Six more runs are expected to be violated; each is a finding (section 6).

Symmetry is not used: the code breaks ties by core and slice number, and the state
spaces are small without it. Deadlock is not checked because every one of these
programs ends.

### Fairness

`UarchBundle`: weak fairness of a conversion that has begun (it is a sequential
program; `Begin` and `Crash` are not fair). Collectors: weak fairness of the
collector itself and of the clock; **nothing** is assumed of the traced runs, which
may hang, stop writing or ignore signals. In a waiting state the collector's
action is enabled by time alone (`late`, the signal ladder), which is why `Ends`
and `Terminates` hold; without a threshold the ruby and atomic collectors wait for
gem5 without limit, so `Ends` is stated for thresholds only. Durations are left out:
a timeout may fire at any moment of the wait it limits, which includes every
real schedule. `ExperimentRun`: weak fairness of the steps of `run_experiment.py` and
`run_gem5.sh`, both sequential programs; nothing is assumed of gem5, which the runner
waits for without limit, so `Concludes` starts where gem5 has ended. `Invoke` and
`Interrupt`, the user's, are not fair.

### Properties

* `ChecksNeverFire`, `RestoredCoherent`, `RestoredExactly`, `BackingMatchesStaged`,
  `SharersMatchL1` (`convert`). For MOESI coherence holds whatever the snapshot says,
  because the guardrail refuses the rest; MESI has no guardrail, so a coherent source
  is assumed there. Blocks without a directory entry are dropped silently by the code
  and therefore excepted from `RestoredExactly`. `SharersMatchL1` is
  about exact and empty bitmaps, and is an equality: the cores announced to the L2 are
  those whose L1 restores the block, and those with a line whose cache and
  `is_instruction` flag disagree, which the code announces although no L1 list takes it.
* `SuccessIsExact`, `ManifestVouches`, `RefusedEarly`, `KeepsWithoutOverwrite`,
  `OverwriteRecovers` (`bundle`). `ManifestVouches` is about histories without
  `--overwrite`: with it, a failed conversion leaves the old manifest beside new
  files, which the code does nothing against.
* `CounterExact`, `StagedIsFinal`, `CompletedIsEnough`, `Concluded`, `Ends`
  (`collector`). `StagedIsFinal` excepts a gem5 that its leader left behind: only the
  leader is polled. `Concluded` excepts a process that survives SIGKILL and ruby
  failures after the try statement.
* `OneAtATime`, `ComparedIsEnough`, `LeftBehind`, `Terminates` (`branches`).
* `PassedIsFresh`, `PassedHasStats`, `CopiesAgree`, `LegacyTrails`, `RecordPromise`
  (the refinement of `ExperimentRecord`), `Concludes` (`experiment`). `PassedIsFresh`
  excepts what the code leaves open: an interrupted run's stats_final.txt, which
  `run_gem5.sh` moves over any later stats.txt, and a failed gem5 in a used directory.
  `CopiesAgree` excepts an interrupted writer; `LegacyTrails` speaks of every moment: a
  reader of the manifest's old name never finds a result the manifest itself, if it can be
  read, does not confirm. `RecordPromise` allows a directory to be taken over without a
  manifest that follows (a malformed staging argument after cleaning). `Concludes`
  excepts Ctrl-C and a required statistic that is no integer.
* `SearchIsSound`, `ComparisonExact`, `ReplayExact`, `SummariesAgree`,
  `RecencyRestored`, `SnapshotIsOneState`, and of the TAGE model `TypeOK` (saturating
  counters in their widths), `FoldsExact`, `VictimIsUseless`, `BaselineSaturates` (`tools`).
  `RecencyRestored` needs gem5's set
  index to refine the exported one. `SnapshotIsOneState` is about directories without
  earlier dumps and a memory dump QEMU did not cut short, since nobody checks for either;
  registers of cores after the first may be of a later moment, because a gdb that leaves
  lets the guest go on.

## 4. Proofs

`SnapshotProofs` proves, for every set of blocks, every number of cores and
every exported snapshot (assumptions: `SelectAssumption`, the blocks are a finite
set and there is a core; `SourcesAssumption` and `MmuAssumption`, the sources are
snapshots and MMU exports):

* `ConversionInvariant` and `ConversionTypes`: `IInv` and `TypeOK`.
* `CrossChecksNeverFire`: `ChecksNeverFire`.
* `RestoredLinesAreCoherent`: `RestoredCoherent`.
* `BackingIsTruthful`: `BackingMatchesStaged`.
* `RestoredLinesAreExact`: `RestoredExactly`.
* `SharersAreTruthful`: `SharersMatchL1`.

`TypeOK` is not inductive enough: a cross-check compares results of two earlier
phases. `IInv` adds that staged blocks, selection and report are what their
inputs give (`StagedIsRight`, `SelIsRight`, `ReportIsRight`), that an accepted
MOESI conversion has no unsupported block (`AcceptedIsSupported`) and that only
MOESI enters the checked phases. The heart is `FamilyIsSelected`: block by block,
the classifier names a family exactly if that family's selector takes the block.
It gives `CountsAgree`, hence that the count check cannot fire; and with
`SupportedBlockIsSelected` and `ListsAreDisjoint` that an accepted conversion
restores each private line once. `SharersMatchL1` rests on `SlotDecodes`: the slot an
exact bitmap sets for an entry decodes to that entry's core,
and `WordAndBit`: every slot is a bit of a word, for any word width.

`ExperimentRunProofs` proves, for every set of options, workspaces and allowances and any
number of experiments, `RunTypes` (`TypeOK`), `CopiesAlwaysAgree`, `CopyNeverLeads`
(`LegacyTrails`), `PassedRunsAreFresh`, `PassedRunsHaveStats`, and `RecordKept`: the
runner implements `ExperimentRecord`. Two inductive invariants carry this.
`ManifestInv` says which phase goes with which contents of the two copies; the copies
are compared at moments when nothing is being written, so one has to know what the
write before them left. `FreshInv` follows the statistics: whose stats.txt and
stats_final.txt lie in sim_outs while gem5 has not started, runs, has ended, and after
the move, and then whose lie in the output directory before and after staging. A pass
is decided far from the step that may have let old statistics in, which is why no
shorter invariant is inductive.

`SnapshotProofs` also holds the snapshot's creation: `SnapshotsAreOneState`, for any number of cores, moments
and attempts (`SnapshotIsOneState`). `SnapshotInv` records, task by task, what the dialogue has achieved:
nothing lets the guest go on before the first gdb (`HeldStill`), a dump that is there is
of this attempt (`NothingBefore`), and every log is missing or whole and not earlier
than the devices (`OneMoment`, which rests on each core having a log of its own,
`LogNamesDiffer`).

`BranchProofs` proves `CollectorTypes` (`TypeOK`), `RunsAreApart`
(`OneAtATime`), `ComparedLogsAreLongEnough` (`ComparedIsEnough`) and `NothingElseIsLeft`
(`LeftBehind`) for any threshold. `CollectorInv` has three parts beside the types:
`Order` (who is started and has ended at each place, and which places the except clause
never comes back to), `Enough` (what has been counted is in the log, what is staged was
counted) and `Left` (who may still run while a failure is recorded).

`UarchBundleProofs` proves, for any plans that meet the two assumptions and any number
of conversions, `BundleTypes` (`TypeOK`), `SuccessMeansExact` (`SuccessIsExact`),
`ManifestsVouch` (`ManifestVouches`), `RefusalsAreEarly` (`RefusedEarly`) and the action
property `NothingIsReplaced` (`KeepsWithoutOverwrite`). What `BundleInv` adds: the files
of the steps already taken are there and of this input (`WrittenIsThere`); with
`--overwrite` nothing else of their groups is left, which is where clearing the globs
matters (`GroupsAreExact`); without it, who has written the first file of a place has the
place alone (`OnlyOurs`); a place that holds any file holds its first one
(`FirstIsThere`), the reason why a refusal comes early; and as long as nobody overwrites,
only one protocol ever completes a root it has begun (`RootIsTaken`), which is why no
later conversion touches what a manifest vouches for.

`TraceCollectorProofs` proves, for any logs, cores and thresholds, `CollectorTypes`
(`TypeOK`), `CountersAreExact`, `StagedLogsAreFinal`, `CompletedHasEnough` and
`ReturnsConcluded` (`Concluded`). Under `CounterExact` lies a lemma on the counter alone:
counting the ends of lines in a chunk, with one character put before it if the last chunk
stopped in a line, continues the count of the whole log. It is proved by a bijection
between the line ends of the chunk and those the log gains, since `Lines` counts a set.
The other properties need what each phase knows: in which phases somebody may still
write, what was counted is a lower bound of what is copied later, and a running gem5
after its leader has ended means `orphaned`.

`BranchProofs` also proves, of the comparison, `CompareTypes`, `SearchSound` (`SearchIsSound`) and
`ComparisonIsExact` (`ComparisonExact`) for traces of any length, any multiplier and any
modulus. A binary search over a hash table is right for two reasons that both had to be
proved. A length that has a common run has a common run of every smaller length, and a
candidate is found exactly if there is a run: verification keeps false candidates out,
and no run is missed because the hash of a range depends only on its tokens
(`EqualRunsEqualHashes`). The prefix hashes and powers are recursive functions; that
they exist and obey their equations is proved here (`Recurrence`) by an induction on a
set of numbers (`ClimbsTo`, from the least-number principle), as the induction theorems of
the library cannot be instantiated.

`RestoreOrderProofs` proves `RecencyIsRestored` (`RecencyRestored`) for any lines, ages,
exported cache and gem5 geometry. `InOrderSorts` says that `InOrder` sorts every finite
set by every strict order (ranks are an injection into as many numbers, hence every rank
is taken), and `OlderIsStrict` that the sort key with its tie breakers is one. `RestoreInv`
follows the lists through sort, merge and split, and during the insertion keeps that a
file's next line is younger than everything its slice has inserted (`FileRight`) and that
a set holds the youngest of what has arrived (`SetRight`). It compares lines by the sort
key; only `SetsShareASource` turns that into ages, and that step is the one that needs
gem5's index to refine the exported one.

`TageProofs` proves `TageTypes` (`TypeOK`), `FoldsAreExact` (`FoldsExact`),
`VictimsAreUseless` (`VictimIsUseless`) and `BaselineIsSaturating` (`BaselineSaturates`)
for any number and size of tables, any history lengths and runs of any length.
`TageAssumption` asks what the header's own sizes meet: a history shorter than the
register it is read from (the outcome that leaves is looked up one place beyond), tags
that stay wider than a bit in every table, an index with room for the shift by table, and
a path of at most two indices. The invariant is `TypeOK /\ FoldsExact`; `FoldsExact` alone
says nothing of the widths its next step needs. The argument for folding: one update
rotates the fold by one place, adds the newest outcome at place 0 and removes, at place
`olen % clen`, the outcome that is now `olen` old (`FoldUpdateBits`). Folding the shifted
history anew counts, at each place, the outcomes of the place before it with exactly these
two differences (`FoldedShift`), whichever way the history length falls on the width, a
history shorter than the fold included. For the
victims, ageing and teaching keep every tag (`AgeKeeps`, `TeachKeeps`), and an allocation
finds a useless entry before the provider or writes none (`AllocatedIsFree`): the walk
starts below the provider because the trailing ones of the seed are counted below its
width. That the two bits of a bimodal entry count as one number is `BimodalSaturates`.

`LruReplayProofs` proves `ReplayIsExact` (`ReplayExact`) and `SummariesAlwaysAgree`
(`SummariesAgree`) for any accesses, line size, associativity and cache size that has a
set, and traces of any length. `ReplayInv` joins eight parts. `CursorRight`: the lines
touched for an access are those of its bytes below the cursor, which stands at its first
byte or at the start of a line; accesses of no bytes and those across a line border need
nothing else. `WaysRight` is the heart: the list of a set holds tags of lines that were
touched, and the places before a tag hold exactly the other tags of its set touched since;
a line touched and no longer listed has at least `Assoc` such others behind it. This is
inductive where "the most recent lines are listed" is not, because a miss pushes out the
last place and one has to know who is in the others. It makes a listed tag the same as a
stack distance below `Assoc` (`HitsAreHeld`), hence `CountsRight`, where each counter is a
set that gains one element. `SpanRight`, `ReadsRight`, `StridesRight` and `PairsRight` say
the same of the summaries. Two consequences are counted by injections: a footprint fits
its span since its lines, divided by the line size, are different numbers of an interval
(`FootprintFits`), and pairs are no more than reads or writes since each has its own
(`PairsAreBoth`).

The parts of both invariants were checked by TLC on a small instance before they were
proved. With these theorems every invariant and every action property a passing run checks is a theorem,
and so is the refinement of `ExperimentRecord`. Only model-checked are the four liveness
properties `OverwriteRecovers`, `Ends`, `Terminates` and `Concludes`: reasoning under
fairness needs `ENABLED`, which the prover does not handle. The theorems are about the
models; that a model says what the code does is what `map` is for.

## 5. Not modelled, and why

* BTB and TAGE candidate selection, conversion accounting and the observation report
  of `prepare`: copies and counts without control; accounting compares numbers with
  themselves.
* The order of the MOESI family lines: sorted by core and address, for which no recency
  is claimed. The bit layouts of restore files, beyond the limit on sharer cores.
* The files an analysis or a comparison writes, and the manifest's lists of artifacts,
  tags and intent: content without control.
* Which gem5 options `run_gem5.sh` composes; the sum of the uIPC summary.
* Register and memory conversions of a snapshot (`parse_reg_info.py` reads the last value
  of each register; the model keeps only which moments a log tells of) and
  `generate_miscreg_map.py`: text formats.
* Log comparisons, the gem5 patch, microbenchmarks, set-up scripts, archived wrappers:
  formatting, arithmetic or external code. Tests were read as evidence; validation
  records are data.
* In `Tage`, the overflow of `tick` after 2^31 branches, and the driver's statistics.

## 6. Findings

1. `mmu` / `MmuCoversCores`: `prepare` line 1950 passes the number of distinct private
   blocks where a number of cores is expected; with few private blocks, MMU payloads of
   the last cores are dropped from the manifest.
2. `staged_clean` / `OnlyCleanStaged`: modified LLC lines are always staged, and
   `llc_debug_modified_count` is never read, although
   `scripts/uarch_restore/README.md` describes them as a debugging option.
3. `exited_means_short` / `ExitedMeansShort`: a run that finishes its log and exits
   between the count and the poll is reported to have missed the threshold.
4. `completed_means_ran` / `CompletedMeansRan`: `run_gem5.sh` ignores gem5's exit
   status, so a failed gem5 becomes a completed experiment.
5. `manifest_result` / `ManifestTellsResult`: the branch collector's except clause
   formats an unbound name; the manifest of a failed comparison stays "running".
6. `package_only` / `OnlyPackageDirty`: with `--allow-dirty-path` a record under
   validation_records is made from a workspace that is dirty outside its package, which
   `scripts/validation/README.md` (lines 104-105) and `validation_records/README.md`
   (lines 28-30) rule out. The manifest does list what was allowed.

Also seen while modelling, without a run of its own:

* The family `writeable_llc_backed` cannot occur (a block with a writeable line is never
  staged), and the fresh-entry exception of TAGE's allocation is dead code (the
  prediction is the sign of the provider's counter and allocation follows only a
  misprediction).
* A private line whose cache and `is_instruction` flag disagree is announced to the L2 as
  a sharer (`prepare:999-1009`), and neither L1 list restores it.
* A git command that fails counts as a clean repository (`experiment_manifest.py:44`).
* A malformed `--stage-artifact-from` is refused only after `--clean-output` has emptied
  the directory (`run_experiment.py:79` runs after `prepare_output_dir`).
* gdb appends to its logs, so a second snapshot into a directory has two sets of
  registers in one log, of which the last value counts; an empty dev.info is accepted by
  the checkpoint template; an exception in the dialogue leaves the guest stopped.
* `all_valid_private_lines_staged` of the conversion accounting is true by construction
  although MOESI drops private lines without a directory entry.

## 7. Plan

Done in this order: `UarchSelect`, `ConvertSnapshot`, `BundlePlan`, `UarchBundle`,
`LineCounter`, `TraceCollector`, `BranchCollector`, `Tage`, the converter's proofs,
`Gem5Runner`, `ExperimentRecord`, `ExperimentRun`, `RestoreOrder`, `BranchCompare`,
`LruReplay`, `CreateSnapshot`, `ExperimentRunProofs`, the proofs of `CreateSnapshot`
(`SnapshotProofs`) and of `BranchCollector` and `BranchCompare` (`BranchProofs`),
`UarchBundleProofs`, `TraceCollectorProofs`, `RestoreOrderProofs`, `TageProofs`,
`LruReplayProofs`. For the last two `Tage` was put on words of bits, since theorems
cannot reach `Bitwise`, and `LruReplay` was written step by step instead of by folds.

Left: a comparison line that is no number (`collect_branch_traces.py:387`) and
the files of the root that the two protocols share under `--overwrite`
(`prepare:2409`), a git that fails (`experiment_manifest.py:44`) and the record lost to a
malformed staging argument (`run_experiment.py:79`), all listed as hazards without a
property. Where a property excepts a part of the hazard it is named for, the hazard's note
says which.
