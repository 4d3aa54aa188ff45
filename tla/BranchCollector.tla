--------------------------- MODULE BranchCollector ---------------------------
(***************************************************************************)
(* scripts/validation/branch_trace_atomic/collect_branch_traces.py: trace a *)
(* QFlex run up to a number of branches, quit QEMU through its monitor or   *)
(* by signals, then trace a gem5 run up to the same number, stop it, and    *)
(* compare the two staged logs.                                             *)
(*                                                                          *)
(* A log is the number of its complete lines: that the incremental counter  *)
(* finds this number is TraceCollector's subject.  So is the difference     *)
(* between a started process and those below it, which are one here.        *)
(* Durations are left out: a timeout may fire at any moment of the wait it  *)
(* limits.                                                                  *)
(***************************************************************************)
EXTENDS Naturals

CONSTANTS
    Threshold,  \* --branch-threshold
    MaxLines    \* bound on the lines of a log

ASSUME BranchAssumption == Threshold \in Nat \ {0} /\ MaxLines \in Nat

Run == {"qflex", "gem5"}

VARIABLES
    proc,       \* proc[r]: none, running or ended, the process started for r
    lines,      \* lines[r]: complete lines of its trace log
    signalled,  \* signalled[r]: its process group got a signal
    asked,      \* the monitor of QEMU has been sent quit
    staged,     \* staged[r]: lines of the staged copy
    pc,         \* where the collector stands
    now,        \* the run it is about
    seen,       \* lines it has counted
    late,       \* the time limit of the current wait has passed
    stopping,   \* no, or the last signal stop_process_group has sent
    handling,   \* the except clause is running
    outcome,    \* result.outcome of the manifest on disk
    reason      \* the last exception

vars == <<proc, lines, signalled, asked, staged, pc, now, seen, late, stopping, handling,
          outcome, reason>>

TypeOK ==
    /\ proc \in [Run -> {"none", "running", "ended"}]
    /\ lines \in [Run -> 0 .. MaxLines]
    /\ signalled \in [Run -> BOOLEAN]
    /\ staged \in [Run -> 0 .. MaxLines]
    /\ pc \in {"launch", "count", "poll", "clock", "quit", "await", "stop", "copy", "compare",
               "record", "end", "interrupted"}
    /\ now \in Run
    /\ seen \in 0 .. MaxLines
    /\ {asked, late, handling} \subseteq BOOLEAN
    /\ stopping \in {"no", "INT", "TERM", "KILL"}
    /\ outcome \in {"running", "completed", "failed"}
    /\ reason \in {"none", "launch", "exited", "timeout", "unquit", "copy", "compare",
                   "unkillable", "name"}

Init ==
    /\ proc = [r \in Run |-> "none"]
    /\ lines = [r \in Run |-> 0]
    /\ signalled = [r \in Run |-> FALSE]
    /\ asked = FALSE
    /\ staged = [r \in Run |-> 0]
    /\ pc = "launch" /\ now = "qflex"
    /\ seen = 0
    /\ late = FALSE
    /\ stopping = "no"
    /\ handling = FALSE
    /\ outcome = "running"
    /\ reason = "none"

------------------------------------------------------------------------------
(* The traced runs and the clock.                                           *)

Alive(r) == proc[r] = "running"

Trace(r) ==
    /\ Alive(r)
    /\ lines[r] < MaxLines
    /\ lines' = [lines EXCEPT ![r] = @ + 1]
    /\ UNCHANGED <<proc, signalled, asked, staged, pc, now, seen, late, stopping, handling,
                   outcome, reason>>

\* By itself, by a signal, or because the monitor was told to quit.
Ends(r) ==
    /\ Alive(r)
    /\ proc' = [proc EXCEPT ![r] = "ended"]
    /\ UNCHANGED <<lines, signalled, asked, staged, pc, now, seen, late, stopping, handling,
                   outcome, reason>>

Deadline ==
    /\ ~late
    /\ late' = TRUE
    /\ UNCHANGED <<proc, lines, signalled, asked, staged, pc, now, seen, stopping, handling,
                   outcome, reason>>

------------------------------------------------------------------------------
(* Where an exception goes: the except clause first deals with QFlex, then  *)
(* with gem5, as far as they were started, and then records the failure.    *)

Handled(started) ==
    /\ handling' = TRUE
    /\ IF started["qflex"] # "none" THEN pc' = "quit" /\ now' = "qflex"
       ELSE pc' = "record" /\ UNCHANGED now

Raise(why) == Handled(proc) /\ reason' = why /\ stopping' = "no"

\* In the except clause: QFlex has been dealt with.
OnToGem5 ==
    IF proc["gem5"] # "none" THEN pc' = "stop" /\ now' = "gem5"
    ELSE pc' = "record" /\ UNCHANGED now

Launch ==
    /\ pc = "launch"
    /\ \/ /\ proc' = [proc EXCEPT ![now] = "running"]
          /\ pc' = "count"
          /\ seen' = 0 /\ late' = FALSE
          /\ UNCHANGED <<now, stopping, handling, reason>>
       \/ Raise("launch") /\ UNCHANGED <<proc, seen, late>>
    /\ UNCHANGED <<lines, signalled, asked, staged, outcome>>

------------------------------------------------------------------------------
(* wait_for_threshold.                                                      *)

\* A plausible slip: one line short of the threshold will do.
CountOneShort ==
    /\ pc = "count"
    /\ seen' = lines[now]
    /\ pc' = IF seen' + 1 >= Threshold THEN (IF now = "qflex" THEN "quit" ELSE "stop") ELSE "poll"
    /\ UNCHANGED <<proc, lines, signalled, asked, staged, now, late, stopping, handling,
                   outcome, reason>>

\* A plausible slip: the lines of the last look are counted once more.
CountAgain ==
    /\ pc = "count"
    /\ seen' = seen + lines[now]
    /\ pc' = IF seen' >= Threshold THEN (IF now = "qflex" THEN "quit" ELSE "stop") ELSE "poll"
    /\ UNCHANGED <<proc, lines, signalled, asked, staged, now, late, stopping, handling,
                   outcome, reason>>

Count ==
    /\ pc = "count"
    /\ seen' = lines[now]
    /\ pc' = IF seen' >= Threshold THEN (IF now = "qflex" THEN "quit" ELSE "stop") ELSE "poll"
    /\ UNCHANGED <<proc, lines, signalled, asked, staged, now, late, stopping, handling,
                   outcome, reason>>

\* Only for gem5 is the end of the process an error: fail_on_proc_exit.
Poll ==
    /\ pc = "poll"
    /\ IF now = "gem5" /\ ~Alive(now) THEN Raise("exited")
       ELSE pc' = "clock" /\ UNCHANGED <<now, stopping, handling, reason>>
    /\ UNCHANGED <<proc, lines, signalled, asked, staged, seen, late, outcome>>

\* A plausible slip: no time limit while QFlex is traced.
ClockOfGem5 ==
    /\ pc = "clock"
    /\ IF late /\ now = "gem5" THEN Raise("timeout")
       ELSE pc' = "count" /\ UNCHANGED <<now, stopping, handling, reason>>
    /\ UNCHANGED <<proc, lines, signalled, asked, staged, seen, late, outcome>>

Clock ==
    /\ pc = "clock"
    /\ IF late THEN Raise("timeout")
       ELSE pc' = "count" /\ UNCHANGED <<now, stopping, handling, reason>>
    /\ UNCHANGED <<proc, lines, signalled, asked, staged, seen, late, outcome>>

------------------------------------------------------------------------------
(* Ending the runs.                                                         *)

\* A plausible slip: an accepted quit is taken for a finished one.
QuitUnawaited ==
    /\ pc = "quit"
    /\ \/ /\ Alive("qflex")
          /\ asked' = TRUE
          /\ IF handling THEN OnToGem5 ELSE pc' = "copy" /\ UNCHANGED now
       \/ pc' = "stop" /\ UNCHANGED <<asked, now>>
    /\ UNCHANGED <<proc, lines, signalled, staged, seen, late, stopping, handling, outcome,
                   reason>>

\* A plausible slip: the except clause leaves it at the monitor.
QuitOrNothing ==
    /\ pc = "quit"
    /\ \/ /\ Alive("qflex")
          /\ asked' = TRUE
          /\ IF handling THEN OnToGem5 ELSE pc' = "await" /\ UNCHANGED now
       \/ /\ IF handling THEN OnToGem5 ELSE pc' = "stop" /\ UNCHANGED now
          /\ UNCHANGED asked
    /\ UNCHANGED <<proc, lines, signalled, staged, seen, late, stopping, handling, outcome,
                   reason>>

\* quit_qemu_via_monitor: QEMU answers and is told to quit, or there is no
\* answer in time and the process group is stopped.  The except clause does not
\* wait for a QEMU that was told to quit.
Quit ==
    /\ pc = "quit"
    /\ \/ /\ Alive("qflex")
          /\ asked' = TRUE
          /\ IF handling THEN OnToGem5 ELSE pc' = "await" /\ UNCHANGED now
       \/ pc' = "stop" /\ UNCHANGED <<asked, now>>
    /\ UNCHANGED <<proc, lines, signalled, staged, seen, late, stopping, handling, outcome,
                   reason>>

\* qflex_proc.wait(timeout=10)
Await ==
    /\ pc = "await"
    /\ IF Alive("qflex") THEN Raise("unquit")
       ELSE pc' = "copy" /\ UNCHANGED <<now, stopping, handling, reason>>
    /\ UNCHANGED <<proc, lines, signalled, asked, staged, seen, late, outcome>>

\* stop_process_group has found the process ended.
Stopped ==
    /\ pc = "stop"
    /\ ~Alive(now)
    /\ stopping' = "no"
    /\ IF ~handling THEN pc' = "copy" /\ UNCHANGED now
       ELSE IF now = "qflex" THEN OnToGem5
       ELSE pc' = "record" /\ UNCHANGED now
    /\ UNCHANGED <<proc, lines, signalled, asked, staged, seen, late, handling, outcome, reason>>

Escalation == [no |-> "INT", INT |-> "TERM", TERM |-> "KILL"]

Escalate ==
    /\ pc = "stop"
    /\ Alive(now)
    /\ stopping \in DOMAIN Escalation
    /\ stopping' = Escalation[stopping]
    /\ signalled' = [signalled EXCEPT ![now] = TRUE]
    /\ UNCHANGED <<proc, lines, asked, staged, pc, now, seen, late, handling, outcome, reason>>

\* The wait after SIGKILL times out: an exception, and one that nobody catches
\* if the except clause is already running.
GiveUp ==
    /\ pc = "stop"
    /\ Alive(now)
    /\ stopping = "KILL"
    /\ IF handling
       THEN /\ pc' = "end" /\ reason' = "unkillable" /\ stopping' = "no"
            /\ UNCHANGED <<now, handling>>
       ELSE Raise("unkillable")
    /\ UNCHANGED <<proc, lines, signalled, asked, staged, seen, late, outcome>>

------------------------------------------------------------------------------
(* Staging, comparing, concluding.                                          *)

Copy ==
    /\ pc = "copy"
    /\ \/ /\ staged' = [staged EXCEPT ![now] = lines[now]]
          /\ IF now = "qflex" THEN pc' = "launch" /\ now' = "gem5"
             ELSE pc' = "compare" /\ UNCHANGED now
          /\ UNCHANGED <<stopping, handling, reason>>
       \/ Raise("copy") /\ UNCHANGED staged
    /\ UNCHANGED <<proc, lines, signalled, asked, seen, late, outcome>>

\* Comparing parses every line of the staged logs as a number, a line cut off
\* when its writer was stopped included; that may fail.
Compare ==
    /\ pc = "compare"
    /\ \/ /\ pc' = "end" /\ outcome' = "completed"
          /\ UNCHANGED <<now, stopping, handling, reason>>
       \/ Raise("compare") /\ UNCHANGED outcome
    /\ UNCHANGED <<proc, lines, signalled, asked, staged, seen, late>>

\* The except clause does not bind the exception whose text it records: a
\* NameError instead of a concluded manifest.
Record ==
    /\ pc = "record"
    /\ pc' = "end"
    /\ reason' = "name"
    /\ UNCHANGED <<proc, lines, signalled, asked, staged, now, seen, late, stopping, handling,
                   outcome>>

\* Ctrl-C is no Exception.
Interrupt ==
    /\ pc \notin {"end", "interrupted"}
    /\ pc' = "interrupted"
    /\ UNCHANGED <<proc, lines, signalled, asked, staged, now, seen, late, stopping, handling,
                   outcome, reason>>

Collect ==
    \/ Launch \/ Count \/ Poll \/ Clock \/ Quit \/ Await
    \/ Stopped \/ Escalate \/ GiveUp \/ Copy \/ Compare \/ Record

Next == Collect \/ (\E r \in Run : Trace(r) \/ Ends(r)) \/ Deadline \/ Interrupt

Spec == Init /\ [][Next]_vars

\* The collector runs on and time passes; nothing is assumed of the two runs.
FairSpec == Spec /\ WF_vars(Collect) /\ WF_vars(Deadline)

------------------------------------------------------------------------------
(* Properties.                                                              *)

\* Nobody may change the trace log of QFlex any more when gem5 is started: the
\* process of the QFlex run has ended, by quit or by signals.
OneAtATime == proc["gem5"] # "none" => proc["qflex"] = "ended"

\* A completed comparison is one of two logs that both reached the threshold.
ComparedIsEnough == outcome = "completed" => \A r \in Run : staged[r] >= Threshold

\* A process still running when the collector has returned is one that survived
\* SIGKILL, or a QEMU that accepted quit while a failure was being handled.
LeftBehind ==
    pc = "end" => \A r \in Run : Alive(r) =>
        reason = "unkillable" \/ (r = "qflex" /\ asked /\ handling)

\* The collector comes to an end whatever the two runs do: QEMU may hang, the
\* monitor may be deaf, gem5 may stop writing.
Terminates == <>(pc \in {"end", "interrupted"})

\* When the collector has returned, the manifest tells what the result was
\* (scripts/validation/README.md:24 "what the result was").
ManifestTellsResult == pc = "end" => outcome # "running"
==============================================================================
