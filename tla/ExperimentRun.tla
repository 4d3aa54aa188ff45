---------------------------- MODULE ExperimentRun ----------------------------
(***************************************************************************)
(* run_experiment.py around run_gem5.sh: look at the repositories, take the *)
(* output directory, announce the experiment in the manifest, stage, run    *)
(* the command, stage again, apply the acceptance checks, and record the    *)
(* result.  The manifest is written in place, under two names.              *)
(*                                                                          *)
(* The command is used in the two ways the validation records use it: it    *)
(* copies what it needs out of sim_outs itself (bash -e, then cp), or it is *)
(* run_gem5.sh alone and --stage-artifact-from names the statistics.  The   *)
(* artifact lists, the intent and the logs of the command are left out.     *)
(***************************************************************************)
EXTENDS Gem5Runner, SequencesExt

CONSTANTS
    Options,     \* command lines that occur
    Workspaces,  \* what git status may list: a function from repositories to sets of
                 \* entries, an entry being the set of paths it names (a move has two);
                 \* a path is the sequence of its names
    Allowances,  \* what --allow-dirty-path may say: functions from repositories to paths
    MaxRuns      \* bound on the number of experiments

ASSUME ExperimentAssumption ==
    /\ \A o \in Options :
           /\ o.clean \in BOOLEAN
           /\ o.style \in {"copy", "stage"}
           /\ o.accept \in {"exit", "file", "stat"}
           /\ o.window \subseteq {"inst", "warmup", "measurement"}
           /\ o.ruby \in {"none", "MESI_Two_Level", "MOESI_CMP_directory"}
    /\ MaxRuns \in Nat

VARIABLES
    place,    \* the output directory is under validation_records, or elsewhere
    pc,       \* where run_experiment.py stands
    request,  \* the workspace as it is, --allow-dirty-path, whether git works, and
              \* --require-clean-repos
    owner,    \* the last run that got past the checks
    result,   \* result.outcome of the manifest in memory
    target,   \* the manifest file being written
    out,      \* the output directory: both manifest files and the statistics
    left,     \* how the last experiment ended, if it did
    found     \* history: what sim_outs held when the run was invoked

experiment == <<options, run, place, pc, request, owner, result, target, out, left, found>>
vars == <<runner, experiment>>

Manifests(runs) == [by: runs, outcome: {"none", "running", "passed", "failed"}]
\* No file, or one that was opened for writing and not written.
Unreadable == [by |-> 0, outcome |-> "none"]

Repositories == {"qflex", "QPoints", "gem5"}
Nothing == [r \in Repositories |-> {}]
Spotless == [workspace |-> Nothing, allow |-> Nothing, git |-> TRUE, requireClean |-> FALSE]
Requests == [workspace: Workspaces, allow: Allowances, git: BOOLEAN, requireClean: BOOLEAN]

TypeOK ==
    /\ RunnerTypeOK
    /\ options \in Options
    /\ run \in 0 .. MaxRuns
    /\ place \in {"records", "elsewhere"}
    /\ pc \in {"idle", "check", "prepare", "open", "write", "command", "staging", "evaluate"}
    /\ request \in Requests \cup {Spotless}
    /\ owner \in 0 .. run
    /\ result \in {"running", "passed", "failed"}
    /\ target \in {"main", "legacy"}
    /\ out \in [main: Manifests(0 .. run), legacy: Manifests(0 .. run), stats: Stats(0 .. run)]
    /\ left \in {"none", "refused", "misused", "concluded", "killed", "raised"}
    /\ found \subseteq {"stats", "final"}

Init ==
    /\ RunnerInit
    /\ options \in Options
    /\ run = 0
    /\ place \in {"records", "elsewhere"}
    /\ pc = "idle"
    /\ request = Spotless
    /\ owner = 0
    /\ result = "running"
    /\ target = "main"
    /\ out = [main |-> Unreadable, legacy |-> Unreadable, stats |-> Missing]
    /\ left = "none"
    /\ found = {}

\* The next experiment is started when nothing of the last one runs any more.
Invoke ==
    /\ pc = "idle"
    /\ script \in {"none", "ok", "failed"} /\ gem5 # "running"
    /\ run < MaxRuns
    /\ run' = run + 1
    /\ options' \in Options
    /\ request' \in Requests
    /\ pc' = "check"
    /\ left' = "none"
    /\ found' = {f \in {"stats", "final"} : Exists(sim[f])}
    /\ script' = "none" /\ gem5' = "none"
    /\ UNCHANGED <<sim, place, owner, result, target, out>>

------------------------------------------------------------------------------
(* The clean-run rule.                                                      *)

\* path_matches_prefix: the path itself or one below it; an empty prefix matches none.
Matches(path, prefix) == prefix # <<>> /\ IsPrefix(prefix, path)

\* The package directory the record is made in.
Package == <<"validation_records", "package">>

\* A record under validation_records may change itself, which also shows as an
\* entry for the submodule QPoints in qflex ...
OwnPaths(r) ==
    IF place = "elsewhere" THEN {}
    ELSE CASE r = "QPoints" -> {Package} [] r = "qflex" -> {<<"QPoints">>} [] OTHER -> {}

\* ... and whatever --allow-dirty-path names besides.
Allowed(r) == request.allow[r] \cup OwnPaths(r)

\* A failing git is read as no output.
StatusLines(r) == IF request.git THEN request.workspace[r] ELSE {}

\* An entry is ignored if all of its paths are allowed.
DirtyEntries(r) ==
    {e \in StatusLines(r) :
        ~(Allowed(r) # {} /\ \A path \in e : \E prefix \in Allowed(r) : Matches(path, prefix))}

Enforced == request.requireClean \/ place = "records"

\* A plausible slip: the output directory is cleaned before the workspace is looked at.
RefuseAfterCleaning ==
    /\ pc = "check"
    /\ pc' = "idle"
    /\ left' = "refused"
    /\ request' = Spotless
    /\ out' = IF options.clean THEN [out EXCEPT !.main = Unreadable] ELSE out
    /\ UNCHANGED <<runner, options, run, place, owner, result, target, found>>

\* Wrong arguments but for those of Misuse (a malformed --allow-dirty-path among them),
\* or a workspace that is not clean; nothing was touched so far.
Refuse ==
    /\ pc = "check"
    /\ pc' = "idle"
    /\ left' = "refused"
    /\ request' = Spotless
    /\ UNCHANGED <<runner, options, run, place, owner, result, target, out, found>>

Pass ==
    /\ pc = "check"
    /\ Enforced => \A r \in Repositories : DirtyEntries(r) = {}
    /\ pc' = "prepare"
    /\ request' = Spotless
    /\ UNCHANGED <<runner, options, run, place, owner, result, target, out, left, found>>

------------------------------------------------------------------------------
(* Taking the directory, and the manifest.                                  *)

Emptied == [main |-> Unreadable, legacy |-> Unreadable, stats |-> Missing]

Kept == IF options.clean THEN Emptied ELSE out

\* prepare_output_dir, build_manifest and pre_stage_existing_artifacts: a source
\* that exists already is staged as it is.
Prepare ==
    /\ pc = "prepare"
    /\ owner' = run
    /\ result' = "running"
    /\ out' = IF options.style = "stage" /\ Exists(sim.stats)
              THEN [Kept EXCEPT !.stats = sim.stats]
              ELSE Kept
    /\ pc' = "open" /\ target' = "main"
    /\ UNCHANGED <<runner, options, run, place, request, left, found>>

\* A malformed --stage-artifact-from is looked at only here: the directory is taken,
\* and cleaned if that was asked for, and gets no manifest.
Misuse ==
    /\ pc = "prepare"
    /\ options.style = "stage"
    /\ owner' = run
    /\ result' = "running"
    /\ out' = Kept
    /\ pc' = "idle"
    /\ left' = "misused"
    /\ UNCHANGED <<runner, options, run, place, request, target, found>>

\* A plausible slip: the compatibility copy is written for results only.
OpenWithoutCopy ==
    /\ pc = "open"
    /\ IF target = "legacy" /\ result = "running"
       THEN pc' = "command" /\ UNCHANGED out
       ELSE pc' = "write" /\ out' = [out EXCEPT ![target] = Unreadable]
    /\ UNCHANGED <<runner, options, run, place, request, owner, result, target, left, found>>

\* write_manifest opens each file with "w", which empties it ...
Open ==
    /\ pc = "open"
    /\ pc' = "write"
    /\ out' = [out EXCEPT ![target] = Unreadable]
    /\ UNCHANGED <<runner, options, run, place, request, owner, result, target, left, found>>

\* ... and dumps the same content into both.
Write ==
    /\ pc = "write"
    /\ out' = [out EXCEPT ![target] = [by |-> run, outcome |-> result]]
    /\ IF target = "main"
       THEN target' = "legacy" /\ pc' = "open" /\ UNCHANGED <<script, left>>
       ELSE /\ target' = "main"
            /\ IF result = "running"
               THEN pc' = "command" /\ UNCHANGED <<script, left>>
               ELSE pc' = "idle" /\ left' = "concluded" /\ UNCHANGED script
    /\ UNCHANGED <<gem5, sim, options, run, place, request, owner, result, found>>

------------------------------------------------------------------------------
(* The command and the acceptance checks.                                   *)

StartCommand ==
    /\ pc = "command"
    /\ script = "none"
    /\ Launch
    /\ UNCHANGED experiment

\* A command that cannot be started raises, and the manifest stays at running.
NoCommand ==
    /\ pc = "command"
    /\ script = "none"
    /\ pc' = "idle"
    /\ left' = "raised"
    /\ UNCHANGED <<runner, options, run, place, request, owner, result, target, out, found>>

\* A plausible slip: the exit status is recorded instead of the outcome.
CommandEndsRaw ==
    /\ pc = "command"
    /\ script \in {"ok", "failed"}
    /\ result' = script
    /\ pc' = "staging"
    /\ UNCHANGED <<runner, options, run, place, request, owner, target, out, left, found>>

\* bash -e: a failed script, or a cp that finds no statistics, is the command's
\* exit status.
CommandEnds ==
    /\ pc = "command"
    /\ script \in {"ok", "failed"}
    /\ IF options.style = "copy" /\ script = "ok" /\ Exists(sim.stats)
       THEN /\ out' = [out EXCEPT !.stats = sim.stats]
            /\ result' = "passed"
       ELSE /\ result' = IF options.style = "stage" /\ script = "ok" THEN "passed" ELSE "failed"
            /\ UNCHANGED out
    /\ pc' = "staging"
    /\ UNCHANGED <<runner, options, run, place, request, owner, target, left, found>>

\* A plausible slip: what was staged before the command is not staged again.
StageOnce ==
    /\ pc = "staging"
    /\ result' = IF options.style = "stage" /\ ~Exists(sim.stats) THEN "failed" ELSE result
    /\ out' = IF options.style = "stage" /\ ~Exists(out.stats)
              THEN [out EXCEPT !.stats = sim.stats]
              ELSE out
    /\ pc' = "evaluate"
    /\ UNCHANGED <<runner, options, run, place, request, owner, target, left, found>>

\* A plausible slip: the missing source is not caught.
StageOrRaise ==
    /\ pc = "staging"
    /\ IF options.style = "stage" /\ ~Exists(sim.stats)
       THEN pc' = "idle" /\ left' = "raised" /\ UNCHANGED out
       ELSE /\ pc' = "evaluate"
            /\ out' = IF options.style = "stage" THEN [out EXCEPT !.stats = sim.stats] ELSE out
            /\ UNCHANGED left
    /\ UNCHANGED <<runner, options, run, place, request, owner, result, target, found>>

\* A source that does not exist fails the experiment and leaves what is there.
StageAfter ==
    /\ pc = "staging"
    /\ IF options.style = "stage"
       THEN IF Exists(sim.stats)
            THEN out' = [out EXCEPT !.stats = sim.stats] /\ UNCHANGED result
            ELSE result' = "failed" /\ UNCHANGED out
       ELSE UNCHANGED <<out, result>>
    /\ pc' = "evaluate"
    /\ UNCHANGED <<runner, options, run, place, request, owner, target, left, found>>

\* A plausible slip: a required statistic that is not there is skipped.
EvaluateLoosely ==
    /\ pc = "evaluate"
    /\ result' = IF options.accept # "exit" /\ ~Exists(out.stats) THEN "failed" ELSE result
    /\ pc' = "open"
    /\ UNCHANGED <<runner, options, run, place, request, owner, target, out, left, found>>

\* A plausible slip: only the old name of the manifest gets the result.
EvaluateCopyOnly ==
    /\ pc = "evaluate"
    /\ pc' = "open" /\ target' = "legacy"
    /\ UNCHANGED <<runner, options, run, place, request, owner, result, out, left, found>>

\* --stats-file and --require-stat.  Nothing turns a failure into a success.  A
\* value that is no integer raises, and the manifest stays as it is.
Evaluate ==
    /\ pc = "evaluate"
    /\ \/ /\ result' = IF \/ options.accept # "exit" /\ ~Exists(out.stats)
                          \/ options.accept = "stat" /\ ~out.stats.dumped
                       THEN "failed" ELSE result
          /\ pc' = "open"
          /\ UNCHANGED left
       \/ /\ options.accept = "stat" /\ out.stats.dumped
          /\ \/ result' = "failed" /\ pc' = "open" /\ UNCHANGED left
             \/ pc' = "idle" /\ left' = "raised" /\ UNCHANGED result
    /\ UNCHANGED <<runner, options, run, place, request, owner, target, out, found>>

\* Ctrl-C reaches every process in the foreground; no handler concludes the manifest.
\* What is left of the command ends by itself.
Interrupt ==
    /\ pc # "idle"
    /\ KillRunner
    /\ pc' = "idle"
    /\ left' = "killed"
    /\ request' = Spotless
    /\ UNCHANGED <<options, run, place, owner, result, target, out, found>>

Script == (ScriptStep \/ Gem5Ends) /\ UNCHANGED experiment

Runs ==
    \/ Refuse \/ Pass \/ Prepare \/ Misuse \/ Open \/ Write
    \/ StartCommand \/ NoCommand \/ CommandEnds \/ StageAfter \/ Evaluate

Next == Invoke \/ Runs \/ Script \/ Interrupt

Spec == Init /\ [][Next]_vars

\* run_experiment.py and run_gem5.sh go on; nothing is assumed of gem5, which may
\* hang, and nobody has to start an experiment or interrupt it.
FairSpec ==
    /\ Spec
    /\ WF_vars(Runs)
    /\ WF_vars(ScriptStep /\ UNCHANGED experiment)

------------------------------------------------------------------------------
(* Properties.                                                              *)

Concluded == pc = "idle" /\ left = "concluded"
Passed == Concluded /\ out.main = [by |-> run, outcome |-> "passed"]

\* The statistics beside a passed result were written by the gem5 of this very
\* experiment, although sim_outs and the output directory may hold older ones and
\* staging copies before and after the command: provided gem5 ended well or
\* sim_outs was empty, and no interrupted run had left its stats_final.txt there,
\* which run_gem5.sh moves over whatever stats.txt it finds.
PassedIsFresh ==
    Passed /\ "final" \notin found /\ (gem5 = "ok" \/ "stats" \notin found) =>
        out.stats.by = run

\* A passed result with a required statistic, or over a cycle window, has
\* statistics in it: the empty stats.txt of a gem5 that died is noticed although
\* its exit status is ignored.
PassedHasStats == Passed /\ (options.accept = "stat" \/ Measured) => out.stats.dumped

\* The compatibility copy says what the manifest says, unless the last writer was
\* interrupted (tests/test_validation_experiment_framework.py asserts equality).
CopiesAgree == left \in {"concluded", "raised"} \/ pc = "command" => out.main = out.legacy

\* Wherever experiments were interrupted, the compatibility copy trails the manifest:
\* beside a manifest that can be read it is unreadable, of an earlier experiment,
\* the same, or still running.  A reader of the old name never finds a result that
\* the manifest does not confirm.
LegacyTrails ==
    /\ out.legacy.by <= owner
    /\ out.main # Unreadable =>
           \/ out.legacy.by < out.main.by
           \/ out.legacy \in {out.main, [by |-> out.main.by, outcome |-> "running"]}

\* What scripts/validation/README.md:103-105 says of a record under validation_records:
\* dirtiness is allowed only under the package path, and anything else rejects it.
OnlyPackageDirty ==
    [][pc = "check" /\ pc' = "prepare" /\ place = "records" /\ request.git =>
          \A r \in Repositories : \A path \in UNION request.workspace[r] :
              \E prefix \in OwnPaths(r) : Matches(path, prefix)]_vars

\* The manifest keeps the promise of ExperimentRecord: refused experiments leave
\* the record alone, results are announced once, decided once, and stay.
stage ==
    IF out.main.by = owner /\ out.main.outcome \in {"passed", "failed"} THEN "decided"
    ELSE IF out.main = [by |-> owner, outcome |-> "running"] \/ result # "running"
    THEN "announced"
    ELSE "new"

Record == INSTANCE ExperimentRecord WITH shown <- out.main
RecordPromise == Record!Spec

\* Once gem5 has ended or run_gem5.sh has given up, the manifest comes to tell the
\* result, unless the runner is interrupted or a required statistic is no integer.
Concludes ==
    pc = "command" /\ (gem5 \in {"ok", "failed"} \/ script = "failed") ~>
        pc = "idle" /\ \/ left = "killed"
                       \/ left = "raised" /\ options.accept = "stat"
                       \/ out.main.by = run /\ out.main.outcome \in {"passed", "failed"}
===============================================================================
