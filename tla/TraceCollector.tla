---------------------------- MODULE TraceCollector ----------------------------
(***************************************************************************)
(* The data-trace collectors, scripts/validation/data_trace_atomic and      *)
(* data_trace_ruby: start a gem5 run that writes one trace log per core,    *)
(* wait for it or poll the logs until one of them is long enough and then   *)
(* stop the run with escalating signals, stage and analyse the logs, and    *)
(* conclude the experiment manifest.                                        *)
(*                                                                          *)
(* Three actors interleave: the collector, the process it started (the      *)
(* leader of its process group: the qflex command line or run_gem5.sh), and *)
(* gem5 below it.  Durations are left out: a timeout may fire at any moment *)
(* of the wait it limits.                                                   *)
(***************************************************************************)
EXTENDS LineCounter

CONSTANTS
    Cores,       \* one trace log each
    Thresholds,  \* values of --access-threshold; 0: wait for the run to end
    MaxLog       \* bound on the characters of a log

ASSUME CollectorAssumption ==
    /\ Cores # {} /\ IsFiniteSet(Cores) /\ Cores \subseteq Nat
    /\ Thresholds \subseteq Nat /\ MaxLog \in Nat

Log == UNION {[1 .. n -> {Text, End}] : n \in 0 .. MaxLog}

VARIABLES
    leader,     \* none, running, ok or failed: the started process and its exit status
    gem5,       \* the same for gem5
    orphaned,   \* gem5 went on when the leader ended
    log,        \* log[c]: what gem5 has written for core c
    tool,       \* atomic or ruby
    threshold,
    pc,         \* where the collector stands
    unread,     \* logs not yet visited in this round of polling, or of copying
    counter,    \* the incremental counters
    late,       \* --gem5-max-seconds have passed
    stopping,   \* no, or the last signal stop_process_group has sent
    signalled,  \* some signal was sent to the group
    staged,     \* staged[c]: the copy of log c
    outcome,    \* result.outcome of the manifest on disk
    reason      \* the exception that is being handled

processes == <<leader, gem5, orphaned>>
collector ==
    <<tool, threshold, pc, unread, counter, late, stopping, signalled, staged, outcome, reason>>
vars == <<processes, log, collector>>

Process == {"none", "running", "ok", "failed"}
Counter == [offset: 0 .. MaxLog, count: 0 .. MaxLog, partial: BOOLEAN]

TypeOK ==
    /\ leader \in Process /\ gem5 \in Process /\ orphaned \in BOOLEAN
    /\ log \in [Cores -> Log]
    /\ tool \in {"atomic", "ruby"}
    /\ threshold \in Thresholds \cup {0}
    /\ pc \in {"launch", "count", "poll", "clock", "wait", "stop", "copy",
               "handler", "end", "interrupted"}
    /\ unread \subseteq Cores
    /\ counter \in [Cores -> Counter]
    /\ late \in BOOLEAN /\ signalled \in BOOLEAN
    /\ stopping \in {"no", "INT", "TERM", "KILL"}
    /\ staged \in [Cores -> Log]
    /\ outcome \in {"running", "completed", "failed"}
    /\ reason \in {"none", "launch", "exited", "timeout", "status", "copy", "unkillable"}

\* The old logs have been removed and the manifest is written.  Only the atomic
\* collector has a threshold.
Init ==
    /\ leader = "none" /\ gem5 = "none" /\ orphaned = FALSE
    /\ log = [c \in Cores |-> <<>>]
    /\ \/ tool = "atomic" /\ threshold \in Thresholds
       \/ tool = "ruby" /\ threshold = 0
    /\ pc = "launch"
    /\ unread = {}
    /\ counter = [c \in Cores |-> Fresh]
    /\ late = FALSE
    /\ stopping = "no"
    /\ signalled = FALSE
    /\ staged = [c \in Cores |-> <<>>]
    /\ outcome = "running"
    /\ reason = "none"

------------------------------------------------------------------------------
(* The traced run and the clock.                                            *)

Alive == leader = "running"

StartGem5 ==
    /\ Alive
    /\ gem5 = "none"
    /\ gem5' = "running"
    /\ UNCHANGED <<leader, orphaned, log, collector>>

\* gem5 writes text or ends a line that has text.
Trace(c) ==
    /\ gem5 = "running"
    /\ Len(log[c]) < MaxLog
    /\ \E ch \in {Text, End} :
           /\ ch = End => log[c] # <<>> /\ log[c][Len(log[c])] = Text
           /\ log' = [log EXCEPT ![c] = Append(@, ch)]
    /\ UNCHANGED <<processes, collector>>

\* gem5 ends: at its instruction limit, by a failure or by a signal.
Gem5Ends ==
    /\ gem5 = "running"
    /\ gem5' \in {"ok", "failed"}
    /\ UNCHANGED <<leader, orphaned, log, collector>>

\* run_gem5.sh dies on bad arguments before it starts gem5; after gem5 it ends
\* well, whatever the status of gem5; and a signal may end it at any time,
\* before gem5, which got the same signal, is gone.
LeaderEnds ==
    /\ Alive
    /\ \/ gem5 = "none" /\ leader' = "failed"
       \/ gem5 \in {"ok", "failed"} /\ leader' = "ok"
       \/ signalled /\ leader' = "failed"
    /\ orphaned' = (gem5 = "running")
    /\ UNCHANGED <<gem5, log, collector>>

Deadline ==
    /\ ~late
    /\ late' = TRUE
    /\ UNCHANGED <<processes, log, tool, threshold, pc, unread, counter, stopping, signalled,
                   staged, outcome, reason>>

------------------------------------------------------------------------------
(* Launching and waiting.                                                   *)

\* An exception of the collection ends in the handler.
Raise(why) == pc' = "handler" /\ reason' = why

Launch ==
    /\ pc = "launch"
    /\ \/ /\ leader' = "running"
          /\ pc' = IF threshold > 0 THEN "count" ELSE "wait"
          /\ unread' = Cores
          /\ late' = FALSE
          /\ UNCHANGED reason
       \/ Raise("launch") /\ UNCHANGED <<leader, unread, late>>
    /\ UNCHANGED <<gem5, orphaned, log, tool, threshold, counter, stopping, signalled, staged,
                   outcome>>

\* current_counts reads log after log while gem5 goes on writing.
CountOne ==
    /\ pc = "count"
    /\ \E c \in unread :
           /\ \A d \in unread : c <= d
           /\ counter' = [counter EXCEPT ![c] = Read(@, log[c])]
           /\ unread' = unread \ {c}
    /\ pc' = IF unread' # {} THEN "count"
             ELSE IF \E d \in Cores : counter'[d].count >= threshold THEN "stop"
             ELSE "poll"
    /\ UNCHANGED <<processes, log, tool, threshold, late, stopping, signalled, staged, outcome,
                   reason>>

Poll ==
    /\ pc = "poll"
    /\ IF Alive THEN pc' = "clock" /\ UNCHANGED reason ELSE Raise("exited")
    /\ UNCHANGED <<processes, log, tool, threshold, unread, counter, late, stopping, signalled,
                   staged, outcome>>

\* A plausible slip: the time-out is forgotten.
ClockWithoutLimit ==
    /\ pc = "clock"
    /\ pc' = "count" /\ unread' = Cores
    /\ UNCHANGED <<processes, log, tool, threshold, counter, late, stopping, signalled, staged,
                   outcome, reason>>

\* A plausible slip: the time-out leaves by a way around the handler.
ClockEscapes ==
    /\ pc = "clock"
    /\ IF late
       THEN pc' = "end" /\ reason' = "timeout" /\ UNCHANGED unread
       ELSE pc' = "count" /\ unread' = Cores /\ UNCHANGED reason
    /\ UNCHANGED <<processes, log, tool, threshold, counter, late, stopping, signalled, staged,
                   outcome>>

\* Give up, or sleep and look again.
Clock ==
    /\ pc = "clock"
    /\ IF late
       THEN Raise("timeout") /\ UNCHANGED unread
       ELSE pc' = "count" /\ unread' = Cores /\ UNCHANGED reason
    /\ UNCHANGED <<processes, log, tool, threshold, counter, late, stopping, signalled, staged,
                   outcome>>

\* Without a threshold: proc.wait(), and an exit status other than 0 is an error.
Wait ==
    /\ pc = "wait"
    /\ leader \in {"ok", "failed"}
    /\ IF leader = "ok" THEN pc' = "copy" /\ UNCHANGED reason ELSE Raise("status")
    /\ UNCHANGED <<processes, log, tool, threshold, unread, counter, late, stopping, signalled,
                   staged, outcome>>

------------------------------------------------------------------------------
(* stop_process_group, called once the threshold is met and by the handler  *)
(* of the atomic collector.                                                 *)

\* The caller goes on: to stage the logs, or to conclude the manifest.
Return ==
    /\ stopping' = "no"
    /\ IF pc = "stop"
       THEN pc' = "copy" /\ unread' = Cores /\ UNCHANGED outcome
       ELSE pc' = "end" /\ outcome' = "failed" /\ UNCHANGED unread

Stopping == pc = "stop" \/ (pc = "handler" /\ tool = "atomic")

\* Only the leader is polled and waited for.
Stopped ==
    /\ Stopping
    /\ ~Alive
    /\ Return
    /\ UNCHANGED <<processes, log, tool, threshold, counter, late, signalled, staged, reason>>

Escalation == [no |-> "INT", INT |-> "TERM", TERM |-> "KILL"]

\* A plausible slip: SIGTERM is sent and not waited for.
EscalateAndLeave ==
    /\ Stopping
    /\ Alive
    /\ signalled' = TRUE
    /\ IF stopping = "INT"
       THEN Return
       ELSE /\ stopping \in DOMAIN Escalation
            /\ stopping' = Escalation[stopping]
            /\ UNCHANGED <<pc, unread, outcome>>
    /\ UNCHANGED <<processes, log, tool, threshold, counter, late, staged, reason>>

\* The first signal at once, the next ones when a wait has timed out.
Escalate ==
    /\ Stopping
    /\ Alive
    /\ stopping \in DOMAIN Escalation
    /\ stopping' = Escalation[stopping]
    /\ signalled' = TRUE
    /\ UNCHANGED <<processes, log, tool, threshold, pc, unread, counter, late, staged, outcome,
                   reason>>

\* The wait after SIGKILL times out too: an exception in the collection, or one
\* that leaves the handler before the manifest is concluded.
GiveUp ==
    /\ Stopping
    /\ Alive
    /\ stopping = "KILL"
    /\ stopping' = "no"
    /\ pc' = IF pc = "stop" THEN "handler" ELSE "end"
    /\ reason' = "unkillable"
    /\ UNCHANGED <<processes, log, tool, threshold, unread, counter, late, signalled, staged,
                   outcome>>

\* The handler of the ruby collector, which has nothing to stop.
ConcludeFailed ==
    /\ pc = "handler"
    /\ tool = "ruby"
    /\ pc' = "end"
    /\ outcome' = "failed"
    /\ UNCHANGED <<processes, log, tool, threshold, unread, counter, late, stopping, signalled,
                   staged, reason>>

------------------------------------------------------------------------------
(* Staging and the end.                                                     *)

\* copy_logs and the analysis of what was copied; either may fail.  The ruby
\* collector does both outside its try.
CopyOne ==
    /\ pc = "copy"
    /\ unread # {}
    /\ \/ \E c \in unread :
              /\ \A d \in unread : c <= d
              /\ staged' = [staged EXCEPT ![c] = log[c]]
              /\ unread' = unread \ {c}
              /\ UNCHANGED <<pc, reason>>
       \/ /\ pc' = IF tool = "ruby" THEN "end" ELSE "handler"
          /\ reason' = "copy"
          /\ UNCHANGED <<staged, unread>>
    /\ UNCHANGED <<processes, log, tool, threshold, counter, late, stopping, signalled, outcome>>

Conclude ==
    /\ pc = "copy"
    /\ unread = {}
    /\ pc' = "end"
    /\ outcome' = "completed"
    /\ UNCHANGED <<processes, log, tool, threshold, unread, counter, late, stopping, signalled,
                   staged, reason>>

\* Ctrl-C is no Exception: neither the handler nor the end of main is reached.
Interrupt ==
    /\ pc \notin {"end", "interrupted"}
    /\ pc' = "interrupted"
    /\ UNCHANGED <<processes, log, tool, threshold, unread, counter, late, stopping, signalled,
                   staged, outcome, reason>>

Collect ==
    \/ Launch \/ CountOne \/ Poll \/ Clock \/ Wait
    \/ Stopped \/ Escalate \/ GiveUp \/ ConcludeFailed \/ CopyOne \/ Conclude

Environment == StartGem5 \/ (\E c \in Cores : Trace(c)) \/ Gem5Ends \/ LeaderEnds

Next == Collect \/ Environment \/ Deadline \/ Interrupt

Spec == Init /\ [][Next]_vars

\* The collector runs on and time passes.  Nothing is assumed of the run: it
\* may write, hang or end, and ignore every signal.
FairSpec == Spec /\ WF_vars(Collect) /\ WF_vars(Deadline)

------------------------------------------------------------------------------
(* Properties.                                                              *)

\* However the log is cut into chunks by polling, the incremental counter knows
\* the number of complete lines in the part it has read.
CounterExact ==
    \A c \in Cores : counter[c].count = Lines(SubSeq(log[c], 1, counter[c].offset))

\* What a completed collection staged and analysed is the whole of each log,
\* unless the started process left a running gem5 behind when it ended.
StagedIsFinal == outcome = "completed" /\ ~orphaned => staged = log

\* A completed experiment with a threshold has a staged log of that length.
CompletedIsEnough ==
    outcome = "completed" /\ threshold > 0 =>
        \E c \in Cores : Lines(staged[c]) >= threshold

\* When the collector returns, the started process has ended and the manifest
\* tells the outcome, unless not even SIGKILL ended the process in time, or the
\* ruby collector failed at staging.
Concluded ==
    pc = "end" /\ reason # "unkillable" /\ ~(tool = "ruby" /\ reason = "copy") =>
        ~Alive /\ outcome = (IF reason = "none" THEN "completed" ELSE "failed")

\* With a threshold the collector comes to an end, whatever the run does.
Ends == threshold > 0 => <>(pc \in {"end", "interrupted"})

\* "exited before reaching the access threshold" is true of the logs
\* (data_trace_atomic/collect_data_trace.py:151).
ExitedMeansShort ==
    reason = "exited" => \A c \in Cores : Lines(log[c]) < threshold

\* A completed collection that waited for gem5 to end is one whose gem5 ended
\* well (data_trace_ruby/collect_data_trace.py:495 "gem5_run_completes").
CompletedMeansRan == outcome = "completed" /\ threshold = 0 => gem5 = "ok"
==============================================================================
