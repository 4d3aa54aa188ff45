-------------------------- MODULE ExperimentRunProofs --------------------------
(***************************************************************************)
(* Theorems about ExperimentRun, for any options, workspaces and number of  *)
(* experiments.                                                             *)
(***************************************************************************)
EXTENDS ExperimentRun, TLAPS

------------------------------------------------------------------------------
(* Types.                                                                   *)

LEMMA MissingTypes == ASSUME NEW n \in Nat PROVE Missing \in Stats(0 .. n)
  BY DEF Missing, Stats

LEMMA InitTypes == Init => TypeOK
  <1> SUFFICES ASSUME Init PROVE TypeOK
    OBVIOUS
  <1>1. run = 0 /\ Missing \in Stats(0 .. run) /\ Unreadable \in Manifests(0 .. run)
    <2>1. run = 0
      BY DEF Init
    <2>2. Missing \in Stats(0 .. 0)
      BY MissingTypes
    <2>3. Unreadable \in Manifests(0 .. 0)
      BY DEF Unreadable, Manifests
    <2> QED
      BY <2>1, <2>2, <2>3
  <1>2. RunnerTypeOK
    BY <1>1 DEF Init, RunnerInit, RunnerTypeOK
  <1>3. 0 \in 0 .. MaxRuns /\ 0 \in 0 .. 0
    BY ExperimentAssumption
  <1> QED
    BY <1>1, <1>2, <1>3 DEF Init, TypeOK

\* What gem5 leaves are statistics files of this run or of an earlier one.
LEMMA WrittenTypes ==
  ASSUME TypeOK
  PROVE  Written \cup Abandoned \subseteq
             [stats: Stats(0 .. run), final: Stats(0 .. run), uipc: Stats(0 .. run)]
  <1>1. run \in 0 .. run /\ run \in Nat
    BY DEF TypeOK
  <1>2. Dumped(run) \in Stats(0 .. run) /\ Opened(run) \in Stats(0 .. run)
    BY <1>1 DEF Dumped, Opened, Stats
  <1>3. sim \in [stats: Stats(0 .. run), final: Stats(0 .. run), uipc: Stats(0 .. run)]
    BY DEF TypeOK, RunnerTypeOK
  <1>4. ASSUME NEW s \in Stats(0 .. run), NEW f \in Stats(0 .. run)
        PROVE  /\ [sim EXCEPT !.stats = s, !.final = f] \in
                      [stats: Stats(0 .. run), final: Stats(0 .. run), uipc: Stats(0 .. run)]
               /\ [sim EXCEPT !.stats = s] \in
                      [stats: Stats(0 .. run), final: Stats(0 .. run), uipc: Stats(0 .. run)]
    BY <1>3
  <1>5. sim.stats \in Stats(0 .. run) /\ sim.final \in Stats(0 .. run)
    BY <1>3
  <1>6. Written \subseteq [stats: Stats(0 .. run), final: Stats(0 .. run), uipc: Stats(0 .. run)]
    BY <1>2, <1>4 DEF Written
  <1>7. Abandoned \subseteq [stats: Stats(0 .. run), final: Stats(0 .. run), uipc: Stats(0 .. run)]
    <2> SUFFICES ASSUME NEW files \in Abandoned
                 PROVE  files \in [stats: Stats(0 .. run), final: Stats(0 .. run),
                                   uipc: Stats(0 .. run)]
      OBVIOUS
    <2>1. PICK s \in {sim.stats, Opened(run), Dumped(run)}, f \in {sim.final, Dumped(run)} :
              files = [sim EXCEPT !.stats = s, !.final = f]
      BY DEF Abandoned
    <2>2. s \in Stats(0 .. run) /\ f \in Stats(0 .. run)
      BY <1>2, <1>5
    <2> QED
      BY <1>4, <2>1, <2>2
  <1> QED
    BY <1>6, <1>7

LEMMA MoreRuns ==
  ASSUME NEW n \in Nat
  PROVE  /\ Stats(0 .. n) \subseteq Stats(0 .. n + 1)
         /\ Manifests(0 .. n) \subseteq Manifests(0 .. n + 1)
  BY DEF Stats, Manifests

\* The steps of run_gem5.sh and gem5.
LEMMA ScriptTypes == TypeOK /\ Script => TypeOK'
  <1> SUFFICES ASSUME TypeOK, Script PROVE TypeOK'
    OBVIOUS
  <1> USE DEF TypeOK, RunnerTypeOK
  <1>1. UNCHANGED experiment
    BY DEF Script
  <1>2. run' = run /\ run \in Nat
    BY <1>1 DEF experiment
  <1>3. RunnerTypeOK'
    <2>1. CASE Reject
      BY <2>1, <1>2 DEF Reject
    <2>2. CASE StartGem5
      BY <2>2, <1>2 DEF StartGem5
    <2>3. CASE MoveFinal
      BY <2>3, <1>2, MissingTypes DEF MoveFinal
    <2>4. CASE Summarise
      BY <2>4, <1>2 DEF Summarise
    <2>5. CASE Gem5Ends
      <3>1. sim' \in Written \cup Abandoned
        BY <2>5 DEF Gem5Ends
      <3> QED
        BY <3>1, <2>5, <1>2, WrittenTypes DEF Gem5Ends
    <2> QED
      BY <2>1, <2>2, <2>3, <2>4, <2>5 DEF Script, ScriptStep
  <1> QED
    BY <1>1, <1>2, <1>3 DEF experiment

LEMMA NextTypes == TypeOK /\ [Next]_vars => TypeOK'
  <1> SUFFICES ASSUME TypeOK, [Next]_vars PROVE TypeOK'
    OBVIOUS
  <1> USE DEF TypeOK, RunnerTypeOK
  <1>0. run \in Nat /\ MaxRuns \in Nat
    BY ExperimentAssumption
  <1>1. CASE Invoke
    <2>1. run' = run + 1 /\ run' \in 0 .. MaxRuns
      BY <1>0, <1>1 DEF Invoke
    <2>2. /\ sim' \in [stats: Stats(0 .. run'), final: Stats(0 .. run'), uipc: Stats(0 .. run')]
          /\ out' \in [main: Manifests(0 .. run'), legacy: Manifests(0 .. run'),
                       stats: Stats(0 .. run')]
      BY <1>0, <1>1, <2>1, MoreRuns DEF Invoke
    <2>3. owner' \in 0 .. run'
      BY <1>0, <1>1, <2>1 DEF Invoke
    <2> QED
      BY <1>1, <2>1, <2>2, <2>3 DEF Invoke
  <1>2. CASE Refuse
    BY <1>2 DEF Refuse, runner
  <1>3. CASE Pass
    BY <1>3 DEF Pass, runner
  <1>4. Kept \in [main: Manifests(0 .. run), legacy: Manifests(0 .. run), stats: Stats(0 .. run)]
    BY <1>0, MissingTypes DEF Kept, Emptied, Unreadable, Manifests
  <1>5. CASE Prepare
    BY <1>0, <1>4, <1>5 DEF Prepare, runner
  <1>6. CASE Misuse
    BY <1>0, <1>4, <1>6 DEF Misuse, runner
  <1>7. CASE Open
    <2>1. Unreadable \in Manifests(0 .. run)
      BY <1>0 DEF Unreadable, Manifests
    <2> QED
      BY <2>1, <1>7 DEF Open, runner
  <1>8. CASE Write
    <2>1. [by |-> run, outcome |-> result] \in Manifests(0 .. run)
      BY <1>0 DEF Manifests
    <2>2. out' \in [main: Manifests(0 .. run), legacy: Manifests(0 .. run), stats: Stats(0 .. run)]
      BY <2>1, <1>8 DEF Write
    <2> QED
      BY <2>2, <1>8 DEF Write
  <1>9. CASE StartCommand
    BY <1>9 DEF StartCommand, Launch, experiment
  <1>10. CASE NoCommand
    BY <1>10 DEF NoCommand, runner
  <1>11. CASE CommandEnds
    BY <1>11 DEF CommandEnds, runner
  <1>12. CASE StageAfter
    BY <1>12 DEF StageAfter, runner
  <1>13. CASE Evaluate
    BY <1>13 DEF Evaluate, runner
  <1>14. CASE Interrupt
    <2>1. script' \in {script, "failed"} /\ UNCHANGED <<gem5, sim>>
      BY <1>14 DEF Interrupt, KillRunner
    <2> QED
      BY <2>1, <1>14 DEF Interrupt
  <1>15. CASE UNCHANGED vars
    BY <1>15 DEF vars, runner, experiment
  <1> QED
    BY <1>1, <1>2, <1>3, <1>5, <1>6, <1>7, <1>8, <1>9, <1>10, <1>11, <1>12, <1>13, <1>14, <1>15,
       ScriptTypes DEF Next, Runs

\* Type correctness of the experiment runner, for any number of experiments and any
\* options and workspaces.
THEOREM RunTypes == Spec => []TypeOK
  BY InitTypes, NextTypes, PTL DEF Spec

------------------------------------------------------------------------------
(* The manifest.                                                            *)

Now(outcome) == [by |-> run, outcome |-> outcome]
Holding == pc \in {"open", "write", "command", "staging", "evaluate"}

\* What the manifest holds at each point of a run, and who wrote it.
Stages ==
    /\ pc = "open" /\ target = "main" /\ result = "running" => out.main.by < owner
    /\ pc = "open" /\ target = "main" /\ result # "running" => out.main = Now("running")
    /\ pc = "write" /\ target = "main" => out.main = Unreadable
    /\ pc \in {"open", "write"} /\ target = "main" =>
           out.legacy.by < owner \/ (result # "running" /\ out.legacy = Now("running"))
    /\ pc \in {"open", "write"} /\ target = "legacy" => out.main = Now(result)
    /\ pc \in {"command", "staging", "evaluate"} =>
           target = "main" /\ out.main = Now("running") /\ out.legacy = Now("running")
    /\ pc = "command" => result = "running"
    /\ pc \in {"staging", "evaluate"} => result # "running"

ManifestInv ==
    /\ out.main.by <= owner
    /\ LegacyTrails
    /\ pc # "idle" => left = "none"
    /\ pc \in {"check", "prepare"} => owner < run
    /\ Holding => owner = run /\ 0 < run
    /\ left \in {"concluded", "raised"} => out.main = out.legacy
    /\ Stages

LEMMA InitManifest == Init => ManifestInv
  BY DEF Init, ManifestInv, Stages, Holding, LegacyTrails, Unreadable

LEMMA NextManifest == TypeOK /\ ManifestInv /\ [Next]_vars => ManifestInv'
  <1> SUFFICES ASSUME TypeOK, ManifestInv, [Next]_vars PROVE ManifestInv'
    OBVIOUS
  <1> USE DEF ManifestInv, Stages, Holding, Now, LegacyTrails
  <1>0. /\ run \in Nat /\ owner \in 0 .. run
        /\ result \in {"running", "passed", "failed"} /\ target \in {"main", "legacy"}
        /\ out \in [main: Manifests(0 .. run), legacy: Manifests(0 .. run), stats: Stats(0 .. run)]
    BY DEF TypeOK
  <1>1. out.main \in Manifests(0 .. run) /\ out.main.by \in 0 .. run
    BY <1>0 DEF Manifests
  <1>2. CASE Invoke
    BY <1>0, <1>1, <1>2 DEF Invoke
  <1>3. CASE Refuse
    BY <1>3 DEF Refuse, runner
  <1>4. CASE Pass
    BY <1>4 DEF Pass, runner
  <1>5. ASSUME pc = "prepare"
        PROVE  /\ Kept.main.by \in 0 .. run /\ Kept.main.by < run
               /\ Kept.legacy.by \in 0 .. run /\ Kept.legacy.by < run
               /\ Kept.main # Unreadable =>
                      \/ Kept.legacy.by < Kept.main.by
                      \/ Kept.legacy \in {Kept.main, [by |-> Kept.main.by, outcome |-> "running"]}
    <2>1. out.legacy \in Manifests(0 .. run) /\ out.legacy.by \in 0 .. run
      BY <1>0 DEF Manifests
    <2>2. CASE options.clean
      BY <1>0, <1>5, <2>2 DEF Kept, Emptied, Unreadable
    <2>3. CASE ~options.clean
      BY <1>0, <1>1, <1>5, <2>1, <2>3 DEF Kept
    <2> QED
      BY <2>2, <2>3
  <1>6. CASE Prepare
    <2>1. out'.main = Kept.main /\ out'.legacy = Kept.legacy
      BY <1>0, <1>6 DEF Prepare, Kept, Emptied
    <2>2. /\ owner' = run /\ run' = run /\ pc' = "open" /\ target' = "main"
          /\ result' = "running" /\ left' = left /\ pc = "prepare"
      BY <1>6 DEF Prepare
    <2>3. 0 < run /\ out'.main.by < run /\ out'.legacy.by < run
      BY <1>0, <1>5, <2>1, <2>2
    <2>4. LegacyTrails'
      BY <1>0, <1>5, <2>1, <2>2, <2>3 DEF Unreadable
    <2> QED
      BY <1>0, <1>5, <2>1, <2>2, <2>3, <2>4
  <1>7. CASE Misuse
    <2>1. out' = Kept /\ owner' = run /\ pc = "prepare" /\ pc' = "idle" /\ left' = "misused"
      BY <1>7 DEF Misuse
    <2>2. out'.main.by <= owner' /\ LegacyTrails'
      BY <1>0, <1>5, <2>1 DEF Unreadable
    <2> QED
      BY <2>1, <2>2
  <1>8. CASE Open
    BY <1>0, <1>1, <1>8 DEF Open, runner, Unreadable
  <1>9. CASE Write
    BY <1>0, <1>1, <1>9 DEF Write
  <1>10. CASE StartCommand
    BY <1>10 DEF StartCommand, experiment
  <1>11. CASE NoCommand
    BY <1>11 DEF NoCommand, runner
  <1>12. CASE CommandEnds
    <2>1. /\ out'.main = out.main /\ out'.legacy = out.legacy
          /\ result' \in {"passed", "failed"} /\ pc = "command" /\ pc' = "staging"
          /\ UNCHANGED <<run, owner, target, left>>
      BY <1>0, <1>12 DEF CommandEnds
    <2> QED
      BY <2>1
  <1>13. CASE StageAfter
    <2>1. /\ out'.main = out.main /\ out'.legacy = out.legacy
          /\ result' \in {result, "failed"} /\ pc = "staging" /\ pc' = "evaluate"
          /\ UNCHANGED <<run, owner, target, left>>
      BY <1>0, <1>13 DEF StageAfter
    <2> QED
      BY <2>1
  <1>14. CASE Evaluate
    BY <1>0, <1>14 DEF Evaluate, runner
  <1>15. CASE Interrupt
    BY <1>15 DEF Interrupt
  <1>16. CASE Script
    BY <1>16 DEF Script, experiment
  <1>17. CASE UNCHANGED vars
    BY <1>17 DEF vars, experiment
  <1> QED
    BY <1>2, <1>3, <1>4, <1>6, <1>7, <1>8, <1>9, <1>10, <1>11, <1>12, <1>13, <1>14, <1>15,
       <1>16, <1>17 DEF Next, Runs

\* Each point of a run finds in the manifest what the run before it left there.
THEOREM ManifestInvariant == Spec => []ManifestInv
  BY InitManifest, NextManifest, RunTypes, PTL DEF Spec

\* The compatibility copy equals the manifest whenever nobody is between the two
\* writes of write_manifest.
THEOREM CopiesAlwaysAgree == Spec => []CopiesAgree
  <1>1. ManifestInv => CopiesAgree
    BY DEF ManifestInv, Stages, CopiesAgree
  <1> QED
    BY <1>1, ManifestInvariant, PTL

\* Interrupted writers leave the compatibility copy behind the manifest, never ahead.
THEOREM CopyNeverLeads == Spec => []LegacyTrails
  <1>1. ManifestInv => LegacyTrails
    BY DEF ManifestInv
  <1> QED
    BY <1>1, ManifestInvariant, PTL

------------------------------------------------------------------------------
(* The refinement.                                                          *)

LEMMA InitRecord == Init => Record!Init
  BY DEF Init, Record!Init, stage, Unreadable, Record!Unreadable

\* Every step of the runner is a step of the record, or none.
LEMMA NextRecord ==
  TypeOK /\ ManifestInv /\ [Next]_vars => [Record!Next]_(Record!vars)
  <1> SUFFICES ASSUME TypeOK, ManifestInv, [Next]_vars,
                      ~ UNCHANGED <<owner, stage, out.main>>
               PROVE  Record!Next
    BY DEF Record!vars
  <1>0. /\ run \in Nat /\ owner \in 0 .. run
        /\ result \in {"running", "passed", "failed"} /\ target \in {"main", "legacy"}
        /\ out \in [main: Manifests(0 .. run), legacy: Manifests(0 .. run), stats: Stats(0 .. run)]
    BY DEF TypeOK
  <1>1. out.main \in Manifests(0 .. run) /\ out.main.by \in 0 .. run
    BY <1>0 DEF Manifests
  <1>2. ASSUME UNCHANGED <<owner, result, out>> PROVE FALSE
    BY <1>2 DEF stage
  <1>3. CASE Prepare \/ Misuse
    <2>1. /\ owner' = run /\ result' = "running" /\ pc = "prepare"
          /\ out'.main \in {out.main, Unreadable}
      BY <1>0, <1>3 DEF Prepare, Misuse, Kept, Emptied
    <2>2. owner < run /\ out'.main.by < run
      BY <1>0, <1>1, <2>1 DEF ManifestInv, Unreadable
    <2>3. stage' = "new"
      BY <1>0, <2>1, <2>2, <1>1 DEF stage, Unreadable
    <2> QED
      BY <1>0, <2>1, <2>2, <2>3 DEF Record!Next, Record!Take, Unreadable, Record!Unreadable
  <1>4. CASE Open
    <2>1. owner > 0 /\ UNCHANGED <<owner, result>> /\ pc = "open"
      BY <1>0, <1>4 DEF Open, ManifestInv, Holding
    <2>2. target = "main"
      BY <1>0, <1>2, <1>4, <2>1 DEF Open, stage
    <2>3. out'.main = Unreadable
      BY <1>0, <1>4, <2>2 DEF Open
    <2>4. UNCHANGED stage /\ stage # "decided"
      BY <1>0, <1>1, <2>1, <2>2, <2>3 DEF ManifestInv, Stages, Holding, Now, stage, Unreadable
    <2> QED
      BY <2>1, <2>3, <2>4 DEF Record!Next, Record!Hide, Unreadable, Record!Unreadable
  <1>5. CASE Write
    <2>1. owner > 0 /\ UNCHANGED <<owner, result>> /\ pc = "write" /\ owner = run
      BY <1>0, <1>5 DEF Write, ManifestInv, Holding
    <2>2. target = "main"
      BY <1>0, <1>2, <1>5, <2>1 DEF Write, stage
    <2>3. out.main = Unreadable /\ out'.main = [by |-> run, outcome |-> result]
      BY <1>0, <1>5, <2>1, <2>2 DEF Write, ManifestInv, Stages
    <2>4. CASE result = "running"
      <3>1. stage = "new" /\ stage' = "announced"
        BY <2>1, <2>3, <2>4 DEF stage, Unreadable
      <3> QED
        BY <2>1, <2>3, <2>4, <3>1 DEF Record!Next, Record!Announce, Unreadable, Record!Unreadable
    <2>5. CASE result # "running"
      <3>1. stage = "announced"
        BY <2>3, <2>5 DEF stage, Unreadable
      <3>2. out'.main.by = owner' /\ out'.main.outcome \in {"passed", "failed"}
        BY <1>0, <2>1, <2>3, <2>5
      <3>3. stage' = "decided"
        BY <3>2 DEF stage
      <3> QED
        BY <1>0, <2>1, <2>3, <2>5, <3>1, <3>3
           DEF Record!Next, Record!Decide, Unreadable, Record!Unreadable
    <2> QED
      BY <2>4, <2>5
  <1>6. CASE CommandEnds \/ StageAfter \/ Evaluate
    <2>1. /\ UNCHANGED owner /\ out'.main = out.main
          /\ pc \in {"command", "staging", "evaluate"}
      BY <1>0, <1>6 DEF CommandEnds, StageAfter, Evaluate
    <2>2. out.main = [by |-> owner, outcome |-> "running"]
      BY <2>1 DEF ManifestInv, Stages, Holding, Now
    <2>3. UNCHANGED stage
      BY <2>1, <2>2 DEF stage
    <2> QED
      BY <2>1, <2>3
  <1>7. CASE Invoke \/ Refuse \/ Pass \/ StartCommand \/ NoCommand \/ Interrupt \/ Script
             \/ UNCHANGED vars
    BY <1>2, <1>7 DEF Invoke, Refuse, Pass, StartCommand, NoCommand, Interrupt, Script, vars,
                      experiment
  <1> QED
    BY <1>3, <1>4, <1>5, <1>6, <1>7 DEF Next, Runs

\* The experiment runner implements ExperimentRecord: refused experiments leave the
\* record alone, results are announced once, decided once, and stay.
THEOREM RecordKept == Spec => RecordPromise
  BY InitRecord, NextRecord, RunTypes, ManifestInvariant, PTL DEF Spec, RecordPromise, Record!Spec

------------------------------------------------------------------------------
(* Whose statistics a passed result stands beside.                          *)

\* A run that goes on, or has come to its end.
Active == pc # "idle" \/ left = "concluded"
Mine(file) == file = Missing \/ file.by = run
Unspoilt == gem5 = "ok" \/ "stats" \notin found

\* sim_outs, from what the run found there to what it left there.
SimInv ==
    /\ script \in {"none", "validate", "gem5"} =>
           (Exists(sim.stats) => "stats" \in found) /\ (Exists(sim.final) => "final" \in found)
    /\ script = "move" /\ "final" \notin found =>
           Mine(sim.final) /\ (Unspoilt => Mine(sim.stats))
    /\ script \in {"summary", "ok"} /\ "final" \notin found /\ Unspoilt => Mine(sim.stats)
    /\ script = "ok" /\ Measured => sim.stats.dumped

\* A result that may still pass, or has passed, and the statistics in the directory.
PassInv ==
    result = "passed" =>
        /\ pc = "staging" =>
               /\ script = "ok"
               /\ options.style = "copy" => Exists(sim.stats) /\ out.stats = sim.stats
        /\ pc \in {"evaluate", "open", "write", "idle"} =>
               script = "ok" /\ Exists(sim.stats) /\ out.stats = sim.stats
        /\ pc \in {"open", "write", "idle"} /\ options.accept = "stat" => out.stats.dumped

\* Only an interrupted command may still be at work when the runner is not.
AtRest == script \in {"none", "ok", "failed"} /\ gem5 # "running"

FreshInv ==
    /\ pc # "command" /\ left # "killed" => AtRest
    /\ pc = "command" => (gem5 = "running" <=> script = "gem5")
    /\ Active => SimInv /\ PassInv
    /\ Concluded => out.main = Now(result)

LEMMA InitFresh == Init => FreshInv
  BY DEF Init, RunnerInit, FreshInv, AtRest, Active, Concluded

\* run_gem5.sh and gem5 only touch sim_outs, and leave it as SimInv says.
LEMMA ScriptFresh == TypeOK /\ ManifestInv /\ FreshInv /\ Script => FreshInv'
  <1> SUFFICES ASSUME TypeOK, ManifestInv, FreshInv, Script PROVE FreshInv'
    OBVIOUS
  <1>1. /\ UNCHANGED <<options, run, pc, result, out, left, found>>
        /\ ~AtRest
    BY DEF Script, experiment, ScriptStep, Reject, StartGem5, MoveFinal, Summarise, Gem5Ends,
           AtRest
  <1> SUFFICES ASSUME pc = "command" PROVE FreshInv'
    BY <1>1 DEF FreshInv, ManifestInv, Active, Concluded
  <1>2. Active /\ SimInv /\ (gem5 = "running" <=> script = "gem5")
    BY <1>1 DEF FreshInv, Active
  <1>3. sim \in [stats: Stats(0 .. run), final: Stats(0 .. run), uipc: Stats(0 .. run)]
    BY DEF TypeOK, RunnerTypeOK
  <1>4. SimInv'
    <2> USE DEF SimInv, Mine, Unspoilt, Exists
    <2>1. CASE Reject
      BY <1>1, <1>2, <2>1 DEF Reject
    <2>2. CASE StartGem5
      BY <1>1, <1>2, <2>2 DEF StartGem5
    <2>3. CASE Gem5Ends /\ gem5' = "ok"
      <3>1. sim' \in Written
        BY <2>3 DEF Gem5Ends
      <3>2. /\ sim'.stats \in {Dumped(run), Opened(run)}
            /\ sim'.final \in {sim.final, Dumped(run)}
        BY <1>3, <3>1 DEF Written
      <3>3. sim'.stats.by = run /\ (sim'.final = sim.final \/ sim'.final.by = run)
        BY <3>2 DEF Dumped, Opened
      <3> QED
        BY <1>1, <1>2, <2>3, <3>3 DEF Gem5Ends
    <2>4. CASE Gem5Ends /\ gem5' # "ok"
      <3>1. sim' \in Abandoned
        BY <2>4 DEF Gem5Ends
      <3>2. PICK s \in {sim.stats, Opened(run), Dumped(run)}, f \in {sim.final, Dumped(run)} :
                sim' = [sim EXCEPT !.stats = s, !.final = f]
        BY <3>1 DEF Abandoned
      <3>3. /\ sim'.stats = sim.stats \/ sim'.stats.by = run
            /\ sim'.final = sim.final \/ sim'.final.by = run
        BY <1>3, <3>2 DEF Dumped, Opened
      <3> QED
        BY <1>1, <1>2, <2>4, <3>3 DEF Gem5Ends
    <2>5. CASE MoveFinal
      <3>1. /\ sim'.stats = (IF Exists(sim.final) THEN sim.final ELSE sim.stats)
            /\ script' = (IF Measured THEN "summary" ELSE "ok")
            /\ script = "move" /\ gem5' = gem5
        BY <1>3, <2>5 DEF MoveFinal
      <3>2. Measured' = Measured
        BY <1>1 DEF Measured
      <3> QED
        BY <1>1, <1>2, <3>1, <3>2
    <2>6. CASE Summarise
      <3>1. /\ sim'.stats = sim.stats /\ gem5' = gem5 /\ script = "summary"
            /\ script' = "failed" \/ (script' = "ok" /\ sim.stats.dumped)
        BY <1>3, <2>6 DEF Summarise
      <3> QED
        BY <1>1, <1>2, <3>1
    <2> QED
      BY <2>1, <2>2, <2>3, <2>4, <2>5, <2>6 DEF Script, ScriptStep
  <1>5. gem5' = "running" <=> script' = "gem5"
    BY <1>2 DEF Script, ScriptStep, Reject, StartGem5, MoveFinal, Summarise, Gem5Ends, Measured
  <1> QED
    BY <1>1, <1>2, <1>4, <1>5 DEF FreshInv, PassInv, Concluded

LEMMA NextFresh == TypeOK /\ ManifestInv /\ FreshInv /\ [Next]_vars => FreshInv'
  <1> SUFFICES ASSUME TypeOK, ManifestInv, FreshInv, [Next]_vars PROVE FreshInv'
    OBVIOUS
  <1> USE DEF FreshInv, AtRest
  <1>0. /\ out \in [main: Manifests(0 .. run), legacy: Manifests(0 .. run), stats: Stats(0 .. run)]
        /\ options.style \in {"copy", "stage"} /\ target \in {"main", "legacy"}
        /\ pc # "idle" => left = "none"
        /\ pc \notin {"idle", "command"} => AtRest
    BY ExperimentAssumption DEF TypeOK, RunnerTypeOK, ManifestInv
  <1>1. CASE Invoke
    <2>1. SimInv'
      BY <1>1 DEF Invoke, SimInv
    <2>2. PassInv'
      BY <1>1 DEF Invoke, PassInv
    <2> QED
      BY <1>1, <2>1, <2>2 DEF Invoke, Concluded
  <1>2. ASSUME UNCHANGED <<options, run, script, gem5, sim, found>> PROVE SimInv' = SimInv
    BY <1>2 DEF SimInv, Mine, Unspoilt, Measured
  <1>3. CASE Refuse \/ Misuse \/ NoCommand
    <2>1. pc' = "idle" /\ left' \in {"refused", "misused", "raised"}
          /\ AtRest'
      BY <1>0, <1>3 DEF Refuse, Misuse, NoCommand, runner
    <2> QED
      BY <2>1 DEF Active, Concluded
  <1>4. CASE Pass \/ Prepare \/ StartCommand
    <2>1. /\ UNCHANGED <<options, run, sim, found>> /\ Active
          /\ script' \in {script, "validate"} /\ script \in {"none", "ok", "failed"}
          /\ pc' # "idle" /\ (script' = "validate" => pc' = "command" /\ script = "none")
          /\ script' = script => gem5' = gem5
          /\ result' = "passed" => pc' \in {"prepare", "command"}
          /\ gem5' # "running" /\ left' # "killed"
          /\ pc' # "command" => script' = script
      BY <1>0, <1>4 DEF Pass, Prepare, StartCommand, Launch, runner, experiment, Active
    <2>2. SimInv'
      BY <2>1 DEF SimInv, Mine, Unspoilt, Measured
    <2>3. PassInv'
      BY <2>1 DEF PassInv
    <2> QED
      BY <2>1, <2>2, <2>3 DEF Concluded
  <1>5. CASE Open
    <2>1. /\ UNCHANGED <<options, run, script, gem5, sim, found, result>> /\ Active
          /\ pc = "open" /\ pc' = "write" /\ out'.stats = out.stats /\ AtRest'
      BY <1>0, <1>5 DEF Open, runner, Active
    <2> QED
      BY <1>2, <2>1 DEF PassInv, Concluded
  <1>6. CASE Write
    <2>1. /\ UNCHANGED <<options, run, script, gem5, sim, found, result>> /\ Active
          /\ pc = "write" /\ out'.stats = out.stats
          /\ pc' \in {"open", "command", "idle"} /\ AtRest'
      BY <1>0, <1>6 DEF Write, Active
    <2>2. pc' = "idle" => out'.main = Now(result)
      BY <1>0, <1>6 DEF Write, ManifestInv, Stages, Now
    <2> QED
      BY <1>2, <2>1, <2>2 DEF PassInv, Concluded, Now
  <1>7. CASE CommandEnds
    <2>1. /\ UNCHANGED <<options, run, script, gem5, sim, found>> /\ Active
          /\ script \in {"ok", "failed"} /\ pc' = "staging" /\ AtRest'
      BY <1>0, <1>7 DEF CommandEnds, runner, Active
    <2>2. result' = "passed" =>
              /\ script = "ok"
              /\ options.style = "copy" => Exists(sim.stats) /\ out'.stats = sim.stats
      BY <1>0, <1>7 DEF CommandEnds
    <2>3. SimInv'
      BY <1>2, <2>1
    <2>4. PassInv'
      BY <2>1, <2>2 DEF PassInv, Exists
    <2>5. ~Concluded' /\ AtRest'
      BY <2>1 DEF Concluded
    <2> QED
      BY <2>3, <2>4, <2>5
  <1>8. CASE StageAfter
    <2>1. /\ UNCHANGED <<options, run, script, gem5, sim, found>> /\ Active
          /\ pc = "staging" /\ pc' = "evaluate" /\ result' \in {result, "failed"} /\ AtRest'
      BY <1>0, <1>8 DEF StageAfter, runner, Active
    <2>2. result' = "passed" => Exists(sim.stats) /\ out'.stats = sim.stats
      BY <1>0, <1>8, <2>1 DEF StageAfter, PassInv
    <2> QED
      BY <1>2, <2>1, <2>2 DEF PassInv, Concluded, Exists
  <1>9. CASE Evaluate
    <2>1. /\ UNCHANGED <<options, run, script, gem5, sim, found, out>> /\ Active
          /\ pc = "evaluate" /\ pc' \in {"open", "idle"} /\ result' \in {result, "failed"}
          /\ pc' = "idle" => left' = "raised"
          /\ AtRest'
      BY <1>0, <1>9 DEF Evaluate, runner, Active
    <2>2. result' = "passed" /\ pc' = "open" /\ options.accept = "stat" => out.stats.dumped
      BY <1>9 DEF Evaluate
    <2> QED
      BY <1>2, <2>1, <2>2 DEF PassInv, Concluded, Active
  <1>10. CASE Interrupt
    <2>1. pc' = "idle" /\ left' = "killed"
      BY <1>10 DEF Interrupt
    <2> QED
      BY <2>1 DEF Active, Concluded
  <1>11. CASE UNCHANGED vars
    BY <1>2, <1>11 DEF vars, runner, experiment, Active, PassInv, Concluded, Now
  <1> QED
    BY <1>1, <1>3, <1>4, <1>5, <1>6, <1>7, <1>8, <1>9, <1>10, <1>11, ScriptFresh
       DEF Next, Runs

\* Where the statistics of a run stand at each point of it.
THEOREM FreshInvariant == Spec => []FreshInv
  BY InitFresh, NextFresh, RunTypes, ManifestInvariant, PTL DEF Spec

\* The statistics beside a passed result were written by the gem5 of this very
\* experiment, under the stated conditions on what sim_outs held before.
THEOREM PassedRunsAreFresh == Spec => []PassedIsFresh
  <1>1. TypeOK /\ FreshInv => PassedIsFresh
    <2> SUFFICES ASSUME TypeOK, FreshInv, Passed, "final" \notin found, Unspoilt
                 PROVE  out.stats.by = run
      BY DEF PassedIsFresh, Unspoilt
    <2>1. result = "passed" /\ Active /\ pc = "idle"
      BY DEF Passed, Concluded, FreshInv, Active, Now
    <2> QED
      BY <2>1 DEF FreshInv, SimInv, PassInv, Mine, Exists
  <1> QED
    BY <1>1, FreshInvariant, RunTypes, PTL

\* A passed result with a required statistic, or over a cycle window, has statistics.
THEOREM PassedRunsHaveStats == Spec => []PassedHasStats
  <1>1. FreshInv => PassedHasStats
    <2> SUFFICES ASSUME FreshInv, Passed, options.accept = "stat" \/ Measured
                 PROVE  out.stats.dumped
      BY DEF PassedHasStats
    <2>1. result = "passed" /\ Active /\ pc = "idle"
      BY DEF Passed, Concluded, FreshInv, Active, Now
    <2> QED
      BY <2>1 DEF FreshInv, SimInv, PassInv
  <1> QED
    BY <1>1, FreshInvariant, PTL
===============================================================================
