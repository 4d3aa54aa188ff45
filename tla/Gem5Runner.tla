------------------------------ MODULE Gem5Runner ------------------------------
(***************************************************************************)
(* run_gem5.sh over the directory sim_outs/<experiment>/<snapshot>, which   *)
(* every run of that experiment reuses: check the options, run gem5, move   *)
(* its final statistics into place, summarise a cycle window.  gem5's exit  *)
(* status is not looked at.                                                 *)
(*                                                                          *)
(* The content of a statistics file is abstracted to the run that wrote it  *)
(* and to whether statistics were dumped into it.  What run_gem5.sh checks  *)
(* of the file system (checkpoint, kernel, binaries) may fail at will.      *)
(***************************************************************************)
EXTENDS Naturals

VARIABLES
    options,  \* the command line of the current run, or of the last one
    run,      \* its number
    script,   \* none, validate, gem5, move, summary; ok or failed: its exit status
    gem5,     \* none, running, ok or failed; it may outlive the script
    sim       \* the output directory: stats.txt, stats_final.txt and the summary

runner == <<script, gem5, sim>>

Stats(runs) == [by: runs, dumped: BOOLEAN]
Dumped(n) == [by |-> n, dumped |-> TRUE]
Opened(n) == [by |-> n, dumped |-> FALSE]
Missing == [by |-> 0, dumped |-> FALSE]
Exists(file) == file # Missing

RunnerTypeOK ==
    /\ script \in {"none", "validate", "gem5", "move", "summary", "ok", "failed"}
    /\ gem5 \in {"none", "running", "ok", "failed"}
    /\ sim \in [stats: Stats(0 .. run), final: Stats(0 .. run), uipc: Stats(0 .. run)]

RunnerInit ==
    /\ script = "none"
    /\ gem5 = "none"
    /\ sim = [stats |-> Missing, final |-> Missing, uipc |-> Missing]

Measured == "measurement" \in options.window

\* A cycle window needs timing Ruby and excludes --inst; --warmup-cycles needs
\* --measurement-cycles; without a window --inst is needed.
Accepts ==
    IF options.window \cap {"measurement", "warmup"} # {}
    THEN /\ options.ruby # "none"
         /\ "inst" \notin options.window
         /\ Measured
    ELSE "inst" \in options.window

Launch ==
    /\ script' = "validate"
    /\ gem5' = "none"
    /\ UNCHANGED sim

\* die: a wrong option, a missing file or a kernel that is not ready.
Reject ==
    /\ script = "validate"
    /\ script' = "failed"
    /\ UNCHANGED <<gem5, sim>>

StartGem5 ==
    /\ script = "validate"
    /\ Accepts
    /\ script' = "gem5"
    /\ gem5' = "running"
    /\ UNCHANGED sim

\* What a gem5 that stops early leaves: the files as they were, or its own.
Abandoned ==
    {[sim EXCEPT !.stats = s, !.final = f] :
        s \in {sim.stats, Opened(run), Dumped(run)}, f \in {sim.final, Dumped(run)}}

\* A gem5 that ends well has dumped its statistics, into the one file or the other.
Written ==
    {[sim EXCEPT !.stats = Dumped(run)], [sim EXCEPT !.stats = Opened(run), !.final = Dumped(run)],
     [sim EXCEPT !.stats = Dumped(run), !.final = Dumped(run)]}

\* gem5 ends by itself or, after Ctrl-C, some time later, whether the script that
\* started it still waits or not.
Gem5Ends ==
    /\ gem5 = "running"
    /\ \/ script = "gem5" /\ gem5' = "ok" /\ sim' \in Written
       \/ gem5' = "failed" /\ sim' \in Abandoned
    /\ script' = IF script = "gem5" THEN "move" ELSE script

\* stats_final.txt replaces stats.txt; without a window that is the end.
MoveFinal ==
    /\ script = "move"
    /\ sim' = IF Exists(sim.final)
              THEN [sim EXCEPT !.stats = sim.final, !.final = Missing]
              ELSE sim
    /\ script' = IF Measured THEN "summary" ELSE "ok"
    /\ UNCHANGED gem5

\* A plausible slip: a summary that finds nothing to add up is no error.
SummariseAnything ==
    /\ script = "summary"
    /\ sim' = [sim EXCEPT !.uipc = sim.stats]
    /\ script' = "ok"
    /\ UNCHANGED gem5

\* summarize_gem5_uipc.py needs per-core counters, a clock and a window of whole
\* cycles; its exit status is the script's.
Summarise ==
    /\ script = "summary"
    /\ \/ /\ sim.stats.dumped
          /\ sim' = [sim EXCEPT !.uipc = sim.stats]
          /\ script' = "ok"
       \/ /\ script' = "failed"
          /\ UNCHANGED sim
    /\ UNCHANGED gem5

\* Ctrl-C ends the script, but gem5 handles the signal itself: it may write after the
\* script is gone, or the script waits for it and goes on when it has ended.
KillRunner ==
    /\ \/ script' = IF script \in {"validate", "gem5", "move", "summary"}
                    THEN "failed" ELSE script
       \/ script = "gem5" /\ UNCHANGED script
    /\ UNCHANGED <<gem5, sim>>

ScriptStep == Reject \/ StartGem5 \/ MoveFinal \/ Summarise
===============================================================================
