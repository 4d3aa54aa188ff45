---------------------------- MODULE SnapshotProofs ----------------------------
(***************************************************************************)
(* Proofs about snapshots.  One is created of one state of the guest, for   *)
(* any number of cores, moments and attempts.  What holds of a conversion   *)
(* holds for any set of blocks, any number of cores and any exported        *)
(* snapshot.                                                                *)
(***************************************************************************)
EXTENDS CreateSnapshot, ConvertSnapshot, FiniteSetTheorems, TLAPS

-------------------------------------------------------------------------------
(* Creation.                                                                *)

Tasks == {"idle", "stop", "commit", "disk", "dump", "dev", "gdb", "quit", "elf", "cpt", "pmem",
          "base", "done"}

Log == [of: SUBSET Moments, whole: BOOLEAN]
Checkpoint ==
    [dev: Files, regs: {<<>>} \cup UNION {[1 .. n -> SUBSET Moments] : n \in 1 .. MaxCores}]
Directory ==
    [mem: Files, dev: Files, disk: Files, pmem: Files, base: BOOLEAN,
     regs: [LogNames -> Log], cpt: Checkpoint]
Attempt == [skip: BOOLEAN, copyDisk: BOOLEAN, cores: 1 .. MaxCores, number: Nat]

SnapshotTypes ==
    /\ guest \in {"running", "stopped", "gone"}
    /\ now \in Moments /\ image \in Files
    /\ task \in Tasks
    /\ attempt \in Attempt
    /\ core \in Nat \ {0}
    /\ task \in {"stop", "commit", "disk", "dump", "dev"} => core = 1
    /\ task = "gdb" => core <= attempt.cores
    /\ dir \in Directory

(***************************************************************************)
(* What the dialogue has achieved when the script stands at a task.         *)
(***************************************************************************)
Cores == 1 .. attempt.cores
Fresh == ~attempt.skip /\ before = {}

\* From stop to the first gdb nothing lets the guest go on.
HeldStill ==
    task \in {"commit", "disk", "dump", "dev"} \/ (task = "gdb" /\ core = 1)
        => guest # "running"

\* A dump that is there is a dump of this attempt.
NothingBefore ==
    /\ Fresh /\ task \in {"stop", "commit", "disk", "dump"} => dir.mem = None
    /\ Fresh /\ task \in {"stop", "commit", "disk", "dump", "dev"} =>
           \A l \in LogNames : dir.regs[l] = NoLog

MemoryIsNow == Fresh /\ task = "dev" => dir.mem \in {now, None, Torn}

\* The log of core c is missing, or whole and not earlier than the devices.
LogFollows(c) ==
    \/ dir.regs[LogName(c)] = NoLog
    \/ /\ c < core
       /\ \E m \in Moments :
              /\ m >= dir.dev /\ (c = 1 => m = dir.dev)
              /\ dir.regs[LogName(c)] = [of |-> {m}, whole |-> TRUE]

OneMoment ==
    Fresh /\ task \in {"gdb", "quit", "elf", "cpt", "pmem", "base", "done"} =>
        /\ dir.dev \in Moments /\ dir.dev <= now
        /\ task = "gdb" /\ core = 1 => dir.dev = now
        /\ dir.mem \in {dir.dev, None, Torn}
        /\ \A c \in Cores : LogFollows(c)

CheckpointMade ==
    task \in {"pmem", "base", "done"} =>
        /\ dir.cpt = [dev |-> dir.dev, regs |-> [c \in DOMAIN Logs |-> Logs[c].of]]
        /\ \A c \in DOMAIN Logs : Logs[c].whole

MemoryMade ==
    /\ task \in {"cpt", "pmem", "base", "done"} => dir.mem # None
    /\ task \in {"base", "done"} => dir.pmem = dir.mem
    /\ task = "done" => dir.base

DiskCopied ==
    /\ task \in Tasks \ {"idle", "stop", "commit", "disk"}
    /\ ~attempt.skip /\ attempt.copyDisk
    => dir.disk = image

SnapshotInv ==
    /\ SnapshotTypes
    /\ HeldStill /\ NothingBefore /\ MemoryIsNow /\ OneMoment
    /\ CheckpointMade /\ MemoryMade /\ DiskCopied

------------------------------------------------------------------------------
(* Each core has a log of its own.                                          *)

LEMMA LogNamesDiffer ==
  ASSUME attempt \in Attempt
  PROVE  /\ \A c \in Cores : LogName(c) \in LogNames
         /\ \A c, d \in Cores : LogName(c) = LogName(d) => c = d
  BY SnapshotAssumption DEF Attempt, Cores, LogName, LogNames

LEMMA InitSnapshot == SnapshotInit => SnapshotInv
  <1> SUFFICES ASSUME SnapshotInit PROVE SnapshotInv
    OBVIOUS
  <1> USE SnapshotAssumption DEF SnapshotInit
  <1>1. dir \in Directory
    BY DEF Directory, Log, Checkpoint, NoLog, NoCheckpoint, None, Files
  <1>2. SnapshotTypes
    BY <1>1 DEF SnapshotTypes, Tasks, Attempt, Moments, Files, None
  <1> QED
    BY <1>2 DEF SnapshotInv, HeldStill, NothingBefore, MemoryIsNow, OneMoment,
                CheckpointMade, MemoryMade, DiskCopied

------------------------------------------------------------------------------
(* Types.                                                                   *)

LEMMA LogsTypes ==
  ASSUME SnapshotTypes
  PROVE  /\ DOMAIN Logs = Cores
         /\ \A c \in Cores : Logs[c] = dir.regs[LogName(c)] /\ Logs[c] \in Log
  BY LogNamesDiffer DEF SnapshotTypes, Logs, Cores, Directory

LEMMA HalfWrittenTypes ==
  ASSUME SnapshotTypes, NEW d \in HalfWritten
  PROVE  d \in Directory
  <1>1. dir \in Directory /\ now \in Files /\ Torn \in Files
    BY DEF SnapshotTypes, Files
  <1>2. ASSUME task = "gdb"
        PROVE  [dir EXCEPT !.regs[LogName(core)].of = @ \cup {now}] \in Directory
    <2>1. LogName(core) \in LogNames
      BY <1>2, LogNamesDiffer DEF SnapshotTypes, Cores, Attempt
    <2>2. [dir.regs EXCEPT ![LogName(core)].of = @ \cup {now}] \in [LogNames -> Log]
      BY <1>1, <2>1 DEF Directory, Log, SnapshotTypes
    <2>3. [dir EXCEPT !.regs = [dir.regs EXCEPT ![LogName(core)].of = @ \cup {now}]] \in Directory
      BY <1>1, <2>2 DEF Directory
    <2> QED
      BY <1>1, <2>3 DEF Directory
  <1>3. [dir EXCEPT !.cpt.dev = Torn] \in Directory
    <2>1. [dir.cpt EXCEPT !.dev = Torn] \in Checkpoint
      BY <1>1 DEF Directory, Checkpoint
    <2> QED
      BY <1>1, <2>1 DEF Directory
  <1>4. /\ [dir EXCEPT !.disk = Torn] \in Directory
        /\ \A m \in {now, Torn} : [dir EXCEPT !.mem = m] \in Directory
        /\ [dir EXCEPT !.dev = Torn] \in Directory
        /\ [dir EXCEPT !.pmem = Torn] \in Directory
    BY <1>1 DEF Directory
  <1> QED
    BY <1>1, <1>2, <1>3, <1>4 DEF HalfWritten

LEMMA NextSnapshotTypes == SnapshotTypes /\ [SnapshotNext]_snapshotVars => SnapshotTypes'
  <1> SUFFICES ASSUME SnapshotTypes, [SnapshotNext]_snapshotVars PROVE SnapshotTypes'
    OBVIOUS
  <1> USE SnapshotAssumption DEF SnapshotTypes
  <1>0. dir \in Directory /\ now \in Files /\ now \in Moments /\ Torn \in Files
    BY DEF Files
  <1>1. CASE Tick
    BY <1>1 DEF Tick, Moments
  <1>2. CASE Resume
    BY <1>2 DEF Resume
  <1>3. CASE StartSnapshot
    <2>1. attempt' \in Attempt
      BY <1>3 DEF StartSnapshot, Attempt
    <2> QED
      BY <1>3, <2>1 DEF StartSnapshot, Tasks
  <1>4. CASE StopGuest
    BY <1>4 DEF StopGuest, Tasks
  <1>5. CASE Commit
    BY <1>5, <1>0 DEF Commit, Tasks
  <1>6. CASE CopyDisk
    <2>1. dir' \in Directory
      BY <1>6 DEF CopyDisk, Directory
    <2> QED
      BY <1>6, <2>1 DEF CopyDisk, Tasks
  <1>7. CASE DumpMemory
    <2>1. dir' \in Directory
      BY <1>7, <1>0 DEF DumpMemory, Directory
    <2> QED
      BY <1>7, <2>1 DEF DumpMemory, Tasks
  <1>8. CASE DumpDevice
    <2>1. dir' \in Directory
      BY <1>8, <1>0 DEF DumpDevice, Directory
    <2>2. core' = 1 /\ task' = "gdb" /\ 1 <= attempt'.cores
      BY <1>8 DEF DumpDevice, Attempt
    <2> QED
      BY <1>8, <2>1, <2>2 DEF DumpDevice, Tasks
  <1>9. CASE DumpRegisters
    <2>1. dir' \in Directory
      <3>1. LogName(core) \in LogNames
        BY <1>9, LogNamesDiffer DEF DumpRegisters, Cores, Attempt
      <3>2. [of |-> {now}, whole |-> TRUE] \in Log
        BY DEF Log
      <3>3. [dir EXCEPT !.regs[LogName(core)] = [of |-> {now}, whole |-> TRUE]] \in Directory
        <4>1. [dir.regs EXCEPT ![LogName(core)] = [of |-> {now}, whole |-> TRUE]]
                  \in [LogNames -> Log]
          BY <1>0, <3>1, <3>2 DEF Directory
        <4> QED
          BY <1>0, <4>1 DEF Directory
      <3> QED
        BY <1>0, <1>9, <3>3 DEF DumpRegisters
    <2>2. core' \in Nat \ {0} /\ (task' = "gdb" => core' <= attempt.cores)
      BY <1>9 DEF DumpRegisters, Attempt
    <2> QED
      BY <1>9, <2>1, <2>2 DEF DumpRegisters, Tasks
  <1>10. CASE QuitQemu
    BY <1>10 DEF QuitQemu, Tasks
  <1>11. CASE ReadElf
    BY <1>11 DEF ReadElf, Tasks
  <1>12. CASE MakeCheckpoint
    <2>1. [c \in DOMAIN Logs |-> Logs[c].of] \in [Cores -> SUBSET Moments]
      BY LogsTypes DEF Log
    <2>2. attempt.cores \in 1 .. MaxCores
      BY DEF Attempt
    <2>3. [dev |-> dir.dev, regs |-> [c \in DOMAIN Logs |-> Logs[c].of]] \in Checkpoint
      BY <1>0, <2>1, <2>2 DEF Checkpoint, Cores, Directory
    <2>4. dir' \in Directory
      BY <1>0, <1>12, <2>3 DEF MakeCheckpoint, Directory
    <2> QED
      BY <1>12, <2>4 DEF MakeCheckpoint, Tasks
  <1>13. CASE MakeMemory
    <2>1. dir' \in Directory
      BY <1>0, <1>13 DEF MakeMemory, Directory
    <2> QED
      BY <1>13, <2>1 DEF MakeMemory, Tasks
  <1>14. CASE CopyBase
    <2>1. dir' \in Directory
      BY <1>0, <1>14 DEF CopyBase, Directory
    <2> QED
      BY <1>14, <2>1 DEF CopyBase, Tasks
  <1>15. CASE Exit
    BY <1>15 DEF Exit, Tasks
  <1>16. CASE FailSnapshot
    <2>1. dir' \in Directory
      BY <1>16, HalfWrittenTypes DEF FailSnapshot
    <2> QED
      BY <1>16, <2>1 DEF FailSnapshot, Tasks
  <1>17. CASE UNCHANGED snapshotVars
    BY <1>17 DEF snapshotVars
  <1> QED
    BY <1>1, <1>2, <1>3, <1>4, <1>5, <1>6, <1>7, <1>8, <1>9, <1>10, <1>11, <1>12, <1>13,
       <1>14, <1>15, <1>16, <1>17 DEF SnapshotNext

------------------------------------------------------------------------------
(* The invariant.                                                           *)

\* The logs of the other cores stay as they are.
LEMMA OneMoreLog ==
  ASSUME SnapshotInv, DumpRegisters, Fresh
  PROVE  \A c \in Cores : LogFollows(c)'
  <1> SUFFICES ASSUME NEW c \in Cores PROVE LogFollows(c)'
    BY DEF DumpRegisters, Cores
  <1> USE DEF SnapshotInv, SnapshotTypes
  <1>1. LogFollows(c) /\ dir.dev \in Moments /\ dir.dev <= now /\ now \in Moments
        /\ (core = 1 => dir.dev = now)
    BY DEF OneMoment, DumpRegisters
  <1>2. attempt' = attempt /\ core' = core + 1 /\ core \in Cores /\ c \in Nat /\ core \in Nat
    BY DEF DumpRegisters, Cores, Attempt
  <1>3. CASE UNCHANGED dir
    <2>1. dir'.regs[LogName(c)'] = dir.regs[LogName(c)] /\ dir'.dev = dir.dev /\ (c < core => c < core')
      BY <1>2, <1>3 DEF LogName
    <2> QED
      BY <1>1, <2>1 DEF LogFollows, LogName
  <1>4. CASE dir' = [dir EXCEPT !.regs[LogName(core)] = [of |-> {now}, whole |-> TRUE]]
    <2>1. dir'.dev = dir.dev
      BY <1>4 DEF Directory
    <2>2. CASE c = core
      <3>1. dir'.regs[LogName(c)] = [of |-> {now}, whole |-> TRUE]
        BY <1>2, <1>4, <2>2, LogNamesDiffer DEF Directory
      <3> QED
        <4>1. now >= dir'.dev /\ (c = 1 => now = dir'.dev) /\ c < core'
          BY <1>1, <1>2, <2>1, <2>2 DEF Moments
        <4>2. dir'.regs[LogName(c)'] = [of |-> {now}, whole |-> TRUE]
          BY <1>2, <3>1 DEF LogName
        <4> QED
          BY <1>1, <4>1, <4>2 DEF LogFollows, LogName
    <2>3. CASE c # core
      <3>1. dir'.regs[LogName(c)] = dir.regs[LogName(c)]
        BY <1>2, <1>4, <2>3, LogNamesDiffer DEF Directory
      <3> QED
        BY <1>1, <1>2, <2>1, <3>1 DEF LogFollows, LogName
    <2> QED
      BY <2>2, <2>3
  <1> QED
    BY <1>3, <1>4 DEF DumpRegisters

\* A step that leaves the dumps alone leaves what they tell of alone.
LEMMA DumpsKept ==
  ASSUME UNCHANGED <<now, attempt, core, before>>,
         dir'.mem = dir.mem, dir'.dev = dir.dev, dir'.regs = dir.regs,
         OneMoment,
         \/ task' = task
         \/ /\ task \in {"quit", "elf", "cpt", "pmem", "base"}
            /\ task' \in {"elf", "cpt", "pmem", "base", "done"}
  PROVE  OneMoment' /\ Logs' = Logs
  <1>1. \A c \in Cores : LogFollows(c) => LogFollows(c)'
    BY DEF LogFollows, LogName
  <1>2. OneMoment'
    BY <1>1 DEF OneMoment, Fresh, Cores
  <1>3. Logs' = Logs
    BY DEF Logs, LogName
  <1> QED
    BY <1>2, <1>3

LEMMA NextSnapshot == SnapshotInv /\ [SnapshotNext]_snapshotVars => SnapshotInv'
  <1> SUFFICES ASSUME SnapshotInv, [SnapshotNext]_snapshotVars PROVE SnapshotInv'
    OBVIOUS
  <1> USE DEF SnapshotInv
  <1>0. SnapshotTypes'
    BY NextSnapshotTypes
  <1>1. CASE Tick
    <2>1. OneMoment'
      <3>1. now \in Moments /\ now' = now + 1 /\ ~(task = "gdb" /\ core = 1)
        BY <1>1 DEF Tick, HeldStill, SnapshotTypes
      <3>2. \A c \in Cores : LogFollows(c) => LogFollows(c)'
        BY <1>1 DEF Tick, LogFollows, LogName
      <3> QED
        BY <1>1, <3>1, <3>2 DEF Tick, OneMoment, Fresh, Cores, Moments
    <2>2. CheckpointMade'
      BY <1>1 DEF Tick, CheckpointMade, Logs, LogName
    <2> QED
      BY <1>0, <1>1, <2>1, <2>2 DEF Tick, HeldStill, NothingBefore, MemoryIsNow, MemoryMade,
         DiskCopied, Fresh
  <1>2. CASE Resume
    BY <1>0, <1>2 DEF Resume, HeldStill, NothingBefore, MemoryIsNow, OneMoment, CheckpointMade,
       MemoryMade, DiskCopied
  <1>3. CASE StartSnapshot
    <2>1. NothingBefore'
      BY <1>3 DEF StartSnapshot, NothingBefore, Fresh, Dumps
    <2>2. OneMoment' /\ DiskCopied'
      BY <1>3 DEF StartSnapshot, OneMoment, DiskCopied, Fresh, Attempt
    <2> QED
      BY <1>0, <1>3, <2>1, <2>2 DEF StartSnapshot, HeldStill, MemoryIsNow, CheckpointMade,
         MemoryMade
  <1>4. CASE StopGuest
    BY <1>0, <1>4 DEF StopGuest, HeldStill, NothingBefore, MemoryIsNow, OneMoment,
       CheckpointMade, MemoryMade, DiskCopied, Fresh
  <1>5. CASE Commit
    BY <1>0, <1>5 DEF Commit, HeldStill, NothingBefore, MemoryIsNow, OneMoment,
       CheckpointMade, MemoryMade, DiskCopied, Fresh
  <1>6. CASE CopyDisk
    <2>1. dir'.mem = dir.mem /\ dir'.regs = dir.regs /\ dir'.disk = image
      BY <1>6 DEF CopyDisk, SnapshotTypes, Directory
    <2> QED
      BY <1>0, <1>6, <2>1 DEF CopyDisk, HeldStill, NothingBefore, MemoryIsNow, OneMoment,
         CheckpointMade, MemoryMade, DiskCopied, Fresh
  <1>7. CASE DumpMemory
    <2>1. dir'.mem \in {now, dir.mem, Torn} /\ dir'.regs = dir.regs /\ dir'.disk = dir.disk
      BY <1>7 DEF DumpMemory, SnapshotTypes, Directory
    <2> QED
      BY <1>0, <1>7, <2>1 DEF DumpMemory, HeldStill, NothingBefore, MemoryIsNow, OneMoment,
         CheckpointMade, MemoryMade, DiskCopied, Fresh, Tasks
  <1>8. CASE DumpDevice
    <2>1. dir'.mem = dir.mem /\ dir'.regs = dir.regs /\ dir'.disk = dir.disk /\ dir'.dev = now
      BY <1>8 DEF DumpDevice, SnapshotTypes, Directory
    <2>2. OneMoment'
      <3>1. SUFFICES ASSUME Fresh
                     PROVE  /\ dir'.dev \in Moments /\ dir'.dev <= now'
                            /\ dir'.dev = now' /\ dir'.mem \in {dir'.dev, None, Torn}
                            /\ \A c \in Cores : LogFollows(c)'
        BY <1>8 DEF DumpDevice, OneMoment, Fresh, Cores
      <3>2. \A c \in Cores : dir.regs[LogName(c)] = NoLog
        BY <1>8, <3>1, LogNamesDiffer DEF DumpDevice, NothingBefore, SnapshotTypes
      <3>3. \A c \in Cores : LogFollows(c)'
        BY <1>8, <2>1, <3>2 DEF DumpDevice, LogFollows, LogName
      <3> QED
        BY <1>8, <2>1, <3>1, <3>3 DEF DumpDevice, MemoryIsNow, SnapshotTypes, Moments
    <2> QED
      BY <1>0, <1>8, <2>1, <2>2 DEF DumpDevice, HeldStill, NothingBefore, MemoryIsNow,
         CheckpointMade, MemoryMade, DiskCopied, Tasks
  <1>9. CASE DumpRegisters
    <2>1. dir'.mem = dir.mem /\ dir'.dev = dir.dev /\ dir'.disk = dir.disk
      BY <1>9 DEF DumpRegisters, SnapshotTypes, Directory
    <2>2. core' # 1 /\ task' \in {"gdb", "quit"}
      BY <1>9 DEF DumpRegisters, SnapshotTypes
    <2>3. OneMoment'
      <3>1. SUFFICES ASSUME Fresh
                     PROVE  /\ dir'.dev \in Moments /\ dir'.dev <= now'
                            /\ dir'.mem \in {dir'.dev, None, Torn}
                            /\ \A c \in Cores : LogFollows(c)'
        BY <1>9, <2>2 DEF DumpRegisters, OneMoment, Fresh, Cores
      <3>2. \A c \in Cores : LogFollows(c)'
        BY <1>9, <3>1, OneMoreLog
      <3> QED
        BY <1>9, <2>1, <3>1, <3>2 DEF DumpRegisters, OneMoment
    <2>4. DiskCopied'
      BY <1>9, <2>1 DEF DumpRegisters, DiskCopied, Tasks
    <2> QED
      BY <1>0, <1>9, <2>2, <2>3, <2>4 DEF HeldStill, NothingBefore, MemoryIsNow,
         CheckpointMade, MemoryMade
  <1>10. CASE QuitQemu
    <2>1. OneMoment'
      BY <1>10, DumpsKept DEF QuitQemu
    <2> QED
      BY <1>0, <1>10, <2>1 DEF QuitQemu, HeldStill, NothingBefore, MemoryIsNow,
         CheckpointMade, MemoryMade, DiskCopied, Tasks
  <1>11. CASE ReadElf
    <2>1. OneMoment'
      BY <1>11, DumpsKept DEF ReadElf
    <2> QED
      BY <1>0, <1>11, <2>1 DEF ReadElf, HeldStill, NothingBefore, MemoryIsNow,
         CheckpointMade, MemoryMade, DiskCopied, Tasks
  <1>12. CASE MakeCheckpoint
    <2>1. /\ dir'.mem = dir.mem /\ dir'.dev = dir.dev /\ dir'.disk = dir.disk
          /\ dir'.regs = dir.regs
          /\ dir'.cpt = [dev |-> dir.dev, regs |-> [c \in DOMAIN Logs |-> Logs[c].of]]
      BY <1>12 DEF MakeCheckpoint, SnapshotTypes, Directory
    <2>2. OneMoment' /\ Logs' = Logs
      BY <1>12, <2>1, DumpsKept DEF MakeCheckpoint
    <2>3. CheckpointMade'
      BY <1>12, <2>1, <2>2 DEF MakeCheckpoint, CheckpointMade
    <2> QED
      BY <1>0, <1>12, <2>1, <2>2, <2>3 DEF MakeCheckpoint, HeldStill, NothingBefore,
         MemoryIsNow, MemoryMade, DiskCopied, Tasks
  <1>13. CASE MakeMemory
    <2>1. /\ dir'.mem = dir.mem /\ dir'.dev = dir.dev /\ dir'.disk = dir.disk
          /\ dir'.regs = dir.regs /\ dir'.cpt = dir.cpt /\ dir'.pmem = dir.mem
      BY <1>13 DEF MakeMemory, SnapshotTypes, Directory
    <2>2. OneMoment' /\ Logs' = Logs
      BY <1>13, <2>1, DumpsKept DEF MakeMemory
    <2>3. CheckpointMade'
      BY <1>13, <2>1, <2>2 DEF MakeMemory, CheckpointMade
    <2> QED
      BY <1>0, <1>13, <2>1, <2>2, <2>3 DEF MakeMemory, HeldStill, NothingBefore, MemoryIsNow,
         MemoryMade, DiskCopied, Tasks
  <1>14. CASE CopyBase
    <2>1. /\ dir'.mem = dir.mem /\ dir'.dev = dir.dev /\ dir'.disk = dir.disk
          /\ dir'.regs = dir.regs /\ dir'.cpt = dir.cpt /\ dir'.pmem = dir.pmem
          /\ dir'.base
      BY <1>14 DEF CopyBase, SnapshotTypes, Directory
    <2>2. OneMoment' /\ Logs' = Logs
      BY <1>14, <2>1, DumpsKept DEF CopyBase
    <2>3. CheckpointMade'
      BY <1>14, <2>1, <2>2 DEF CopyBase, CheckpointMade
    <2> QED
      BY <1>0, <1>14, <2>1, <2>2, <2>3 DEF CopyBase, HeldStill, NothingBefore, MemoryIsNow,
         MemoryMade, DiskCopied, Tasks
  <1>15. CASE Exit
    BY <1>0, <1>15 DEF Exit, HeldStill, NothingBefore, MemoryIsNow, OneMoment,
       CheckpointMade, MemoryMade, DiskCopied
  <1>16. CASE FailSnapshot
    BY <1>0, <1>16 DEF FailSnapshot, HeldStill, NothingBefore, MemoryIsNow, OneMoment,
       CheckpointMade, MemoryMade, DiskCopied
  <1>17. CASE UNCHANGED snapshotVars
    <2>1. OneMoment' /\ Logs' = Logs
      BY <1>17, DumpsKept DEF snapshotVars
    <2> QED
      BY <1>0, <1>17, <2>1 DEF snapshotVars, HeldStill, NothingBefore, MemoryIsNow,
         CheckpointMade, MemoryMade, DiskCopied, Fresh
  <1> QED
    BY <1>1, <1>2, <1>3, <1>4, <1>5, <1>6, <1>7, <1>8, <1>9, <1>10, <1>11, <1>12, <1>13,
       <1>14, <1>15, <1>16, <1>17 DEF SnapshotNext

\* The inductive invariant: what the dialogue with QEMU and gdb has achieved when the
\* script stands at a task (create_snapshot.py:219-317).
THEOREM SnapshotInvariant == SnapshotSpec => []SnapshotInv
  BY InitSnapshot, NextSnapshot, PTL DEF SnapshotSpec

\* A snapshot made into a directory without dumps is of one moment, however often the
\* script failed before and whatever QEMU refused (create_snapshot.py:219-317).
THEOREM SnapshotsAreOneState == SnapshotSpec => []SnapshotIsOneState
  <1>1. SnapshotInv => SnapshotIsOneState
    <2> SUFFICES ASSUME SnapshotInv, task = "done" PROVE SnapshotIsOneState
      BY DEF SnapshotIsOneState
    <2>1. /\ dir.base /\ dir.pmem = dir.mem
          /\ dir.cpt = [dev |-> dir.dev, regs |-> [c \in DOMAIN Logs |-> Logs[c].of]]
          /\ \A c \in DOMAIN Logs : Logs[c].whole
          /\ ~attempt.skip /\ attempt.copyDisk => dir.disk = image
      BY DEF SnapshotInv, CheckpointMade, MemoryMade, DiskCopied, Tasks
    <2>2. ASSUME ~attempt.skip, before = {}, dir.mem # Torn
          PROVE  /\ dir.pmem \in Moments /\ dir.cpt.dev = dir.pmem
                 /\ dir.cpt.regs[1] = {dir.pmem}
                 /\ \A c \in DOMAIN Logs : \E m \in Moments :
                        m >= dir.pmem /\ dir.cpt.regs[c] = {m}
      <3>1. dir.dev \in Moments /\ dir.mem = dir.dev
        BY <2>2 DEF SnapshotInv, OneMoment, Fresh, MemoryMade
      <3>2. DOMAIN Logs = Cores /\ 1 \in Cores
        BY LogsTypes DEF SnapshotInv, SnapshotTypes, Attempt, Cores
      <3>3. \A c \in Cores : \E m \in Moments :
                m >= dir.dev /\ (c = 1 => m = dir.dev) /\ Logs[c] = [of |-> {m}, whole |-> TRUE]
        <4>1. \A c \in Cores : LogFollows(c)
          BY <2>2 DEF SnapshotInv, OneMoment, Fresh
        <4>2. \A c \in Cores : Logs[c] = dir.regs[LogName(c)] /\ Logs[c].whole
          BY <2>1, <3>2, LogsTypes DEF SnapshotInv
        <4>3. \A c \in Cores : dir.regs[LogName(c)] # NoLog
          BY <4>2 DEF NoLog
        <4> QED
          BY <4>1, <4>2, <4>3 DEF LogFollows
      <3>4. \A c \in Cores : dir.cpt.regs[c] = Logs[c].of
        BY <2>1, <3>2
      <3> QED
        BY <2>1, <3>1, <3>2, <3>3, <3>4
    <2> QED
      BY <2>1, <2>2 DEF SnapshotIsOneState
  <1> QED
    BY <1>1, SnapshotInvariant, PTL

-------------------------------------------------------------------------------
(* Conversion.                                                              *)

(***************************************************************************)
(* The classifier and the four selectors are separate code; block by block  *)
(* they say the same thing.                                                 *)
(***************************************************************************)
LEMMA FamilyIsSelected ==
    ASSUME NEW s, NEW backed, NEW b \in PrivateBlocks(s)
    PROVE  /\ Family(s, backed, b) = "single_writeable" <=> b \in OwnerBlocks(s, backed)
           /\ Family(s, backed, b) = "single_clean" <=> b \in SingleCleanBlocks(s, backed)
           /\ Family(s, backed, b) = "multi_clean" <=> b \in MultiCleanBlocks(s, backed)
           /\ Family(s, backed, b) = "instruction_only" <=> b \in InstructionBlocks(s, backed)
<1> DEFINE W == AnyDWriteable(s, b)
           M == AnyDModified(s, b)
           X == AnyIModified(s, b)
           D == DCores(s, b)
           I == ICores(s, b)
           one == Single(D)
           sh == s.dir[b].shared
           insc == s.dir[b].in_shared_cache
<1>1. D = {} => ~one
  BY DEF Single
<1>2. /\ b \in OwnerBlocks(s, backed)
          <=> one /\ W /\ I = {} /\ b \notin backed /\ ~sh /\ ~insc
      /\ b \in SingleCleanBlocks(s, backed)
          <=> one /\ I = {} /\ ~W /\ ~M /\ b \in backed /\ sh
      /\ b \in MultiCleanBlocks(s, backed)
          <=> D # {} /\ (one => b \notin backed) /\ I = {} /\ ~W /\ ~M /\ sh
      /\ b \in InstructionBlocks(s, backed)
          <=> D = {} /\ I # {} /\ ~X /\ sh
  BY DEF OwnerBlocks, SingleCleanBlocks, MultiCleanBlocks, InstructionBlocks
<1>3. /\ HasOwner(s, b) <=> one /\ W
      /\ HasCleanData(s, b) <=> D # {} /\ ~W /\ ~M
      /\ HasCleanCode(s, b) <=> D = {} /\ I # {} /\ ~X
  BY DEF HasOwner, HasCleanData, HasCleanCode
<1> HIDE DEF W, M, X, D, I, one, sh, insc
<1>4. Family(s, backed, b) =
        CASE HasOwner(s, b) /\ I # {} -> "writeable_mixed"
          [] HasOwner(s, b) /\ ~(I # {}) /\ b \in backed -> "writeable_llc_backed"
          [] HasOwner(s, b) /\ ~(I # {}) /\ b \notin backed /\ (sh \/ insc)
                -> "writeable_directory_shared"
          [] HasOwner(s, b) /\ ~(I # {}) /\ b \notin backed /\ ~sh /\ ~insc
                -> "single_writeable"
          [] HasCleanData(s, b) /\ I # {} /\ one -> "single_clean_mixed"
          [] HasCleanData(s, b) /\ I # {} /\ ~one -> "multi_clean_mixed"
          [] HasCleanData(s, b) /\ ~(I # {}) /\ sh /\ one /\ b \in backed -> "single_clean"
          [] HasCleanData(s, b) /\ ~(I # {}) /\ sh /\ (~one \/ b \notin backed)
                -> "multi_clean"
          [] HasCleanCode(s, b) /\ sh -> "instruction_only"
          [] HasCleanCode(s, b) /\ ~sh -> "instruction_nonshared"
          [] OTHER -> "anything_else"
  BY Zenon DEF Family, D, I, one, sh, insc
<1> QED
  BY <1>1, <1>2, <1>3, <1>4

(***************************************************************************)
(* The inductive invariant: every phase's result is what its inputs give,   *)
(* and an accepted MOESI conversion has no block of an unsupported family.  *)
(* TypeOK alone is not enough: the cross-checks read results of two earlier *)
(* phases, so their agreement has to be carried from phase to phase.        *)
(***************************************************************************)
Selected == {"selected", "consistent", "counted", "inconsistent_story",
             "diverged_counts", "unsupported", "accepted"}

StagedIsRight == pc # "parsed" => staged = Staged(src)

SelIsRight == pc \in Selected => sel = Select(staged)

ReportIsRight == pc = "counted" => report.unsupported = Unsupported

AcceptedIsSupported == pc = "accepted" /\ protocol = MOESI => Unsupported = {}

MoesiOnly == pc \in {"selected", "consistent", "counted"} => protocol = MOESI

IInv ==
    /\ TypeOK
    /\ StagedIsRight
    /\ SelIsRight
    /\ ReportIsRight
    /\ AcceptedIsSupported
    /\ MoesiOnly
    /\ ChecksNeverFire

LEMMA SelectType ==
    ASSUME NEW s \in Snapshot, NEW backed
    PROVE  /\ Staged(s) \subseteq Block
           /\ OwnerBlocks(s, backed) \subseteq Block
           /\ SingleCleanBlocks(s, backed) \subseteq Block
           /\ MultiCleanBlocks(s, backed) \subseteq Block
           /\ InstructionBlocks(s, backed) \subseteq Block
BY DEF Staged, StagedClean, StagedModified, OwnerBlocks, SingleCleanBlocks,
       MultiCleanBlocks, InstructionBlocks, PrivateBlocks

LEMMA FamilyCardinality ==
    ASSUME NEW f
    PROVE  Cardinality(OfFamily(f)) \in Nat
<1>1. OfFamily(f) \in SUBSET Block
  BY DEF OfFamily, PrivateBlocks
<1>2. IsFiniteSet(OfFamily(f))
  BY <1>1, SelectAssumption, FS_Subset
<1> QED
  BY <1>2, FS_CardinalityType

\* The guardrail counts exactly the candidates that were selected.
LEMMA CountsAgree ==
    ASSUME sel = Select(staged)
    PROVE  [f \in ImplementedFamilies |-> Cardinality(OfFamily(f))] = SelectedCounts
<1>1. /\ OfFamily("single_writeable") = OwnerBlocks(src, staged)
      /\ OfFamily("single_clean") = SingleCleanBlocks(src, staged)
      /\ OfFamily("multi_clean") = MultiCleanBlocks(src, staged)
      /\ OfFamily("instruction_only") = InstructionBlocks(src, staged)
  <2>1. /\ OwnerBlocks(src, staged) \subseteq PrivateBlocks(src)
        /\ SingleCleanBlocks(src, staged) \subseteq PrivateBlocks(src)
        /\ MultiCleanBlocks(src, staged) \subseteq PrivateBlocks(src)
        /\ InstructionBlocks(src, staged) \subseteq PrivateBlocks(src)
    BY DEF OwnerBlocks, SingleCleanBlocks, MultiCleanBlocks, InstructionBlocks
  <2> QED
    BY <2>1, FamilyIsSelected DEF OfFamily
<1>2. /\ sel.owner = OwnerBlocks(src, staged)
      /\ sel.clean = SingleCleanBlocks(src, staged)
      /\ sel.multi = MultiCleanBlocks(src, staged)
      /\ sel.instr = InstructionBlocks(src, staged)
  BY DEF Select
<1>3. ASSUME NEW f \in ImplementedFamilies
      PROVE  Cardinality(OfFamily(f)) = SelectedCounts[f]
  <2>1. CASE f = "single_writeable"
    BY <2>1, <1>1, <1>2 DEF SelectedCounts, ImplementedFamilies
  <2>2. CASE f = "single_clean"
    BY <2>2, <1>1, <1>2 DEF SelectedCounts, ImplementedFamilies
  <2>3. CASE f = "multi_clean"
    BY <2>3, <1>1, <1>2 DEF SelectedCounts, ImplementedFamilies
  <2>4. CASE f = "instruction_only"
    BY <2>4, <1>1, <1>2 DEF SelectedCounts, ImplementedFamilies
  <2> QED
    BY <2>1, <2>2, <2>3, <2>4 DEF ImplementedFamilies
<1>4. SelectedCounts = [f \in ImplementedFamilies |-> SelectedCounts[f]]
  BY DEF SelectedCounts, ImplementedFamilies
<1> QED
  BY <1>3, <1>4

\* The LLC-backed story cannot be inconsistent: an owner is selected only off
\* the staged set, and SLS is given only to staged blocks.
LEMMA StoryAgrees ==
    ASSUME sel = Select(staged)
    PROVE  StoryConsistent
<1>1. sel.owner = OwnerBlocks(src, staged)
  BY DEF Select
<1>2. \A b : SharedL2State(staged, b) = "SLS" => b \in staged
  BY DEF SharedL2State
<1> QED
  BY <1>1, <1>2 DEF StoryConsistent, OwnerBlocks

------------------------------------------------------------------------------

LEMMA InitIInv == Init => IInv
<1> SUFFICES ASSUME Init PROVE IInv
  OBVIOUS
<1>1. TypeOK
  <2>1. report \in Report
    BY DEF Init, NoReport, Report
  <2> QED
    BY <2>1, SourcesAssumption, MmuAssumption
       DEF Init, TypeOK, NoSelection, Selection, Running
<1> QED
  BY <1>1 DEF Init, IInv, StagedIsRight, SelIsRight, Selected, ReportIsRight,
              AcceptedIsSupported, MoesiOnly, ChecksNeverFire

LEMMA NextIInv == IInv /\ [Next]_vars => IInv'
<1> SUFFICES ASSUME IInv, [Next]_vars PROVE IInv'
  OBVIOUS
<1> USE DEF IInv, StagedIsRight, SelIsRight, Selected, ReportIsRight,
            AcceptedIsSupported, MoesiOnly, ChecksNeverFire
<1>0. /\ TypeOK
      /\ src \in Snapshot
  BY DEF TypeOK
<1>1. CASE StageLlc
  <2>1. staged' \subseteq Block
    BY <1>0, <1>1, SelectType DEF StageLlc
  <2>2. TypeOK'
    BY <1>1, <2>1 DEF StageLlc, TypeOK, Running, Errors
  <2> QED
    BY <1>1, <2>2 DEF StageLlc
<1>2. CASE SelectFamilies
  <2>1. sel' \in Selection
    BY <1>0, <1>2, SelectType DEF SelectFamilies, Select, Selection
  <2>2. TypeOK'
    BY <1>2, <2>1 DEF SelectFamilies, TypeOK, Running, Errors
  <2>3. sel' = Select(staged)' /\ staged' = Staged(src)'
    BY <1>2 DEF SelectFamilies, Select
  <2> QED
    BY <1>2, <2>2, <2>3 DEF SelectFamilies, Protocols, MOESI, MESI, TypeOK
<1>3. CASE CheckStory
  <2>1. sel = Select(staged)
    BY <1>3 DEF CheckStory
  <2>2. pc' = "consistent"
    BY <1>3, <2>1, StoryAgrees DEF CheckStory
  <2>3. TypeOK'
    BY <1>3, <2>2 DEF CheckStory, TypeOK, Running
  <2>4. Select(staged)' = Select(staged)
    BY <1>3 DEF CheckStory, Select
  <2> QED
    BY <1>3, <2>1, <2>2, <2>3, <2>4 DEF CheckStory
<1>4. CASE CheckCounts
  <2>1. sel = Select(staged)
    BY <1>4 DEF CheckCounts
  <2>2. report'.counts = SelectedCounts /\ report'.unsupported = Unsupported
    BY <1>4, <2>1, CountsAgree DEF CheckCounts
  <2>3. pc' = "counted"
    BY <1>4, <2>2 DEF CheckCounts
  <2>4. Unsupported \subseteq Block
    BY DEF Unsupported, PrivateBlocks
  <2>5. report' \in Report
    BY <1>4, <2>4, FamilyCardinality DEF CheckCounts, Report
  <2>6. TypeOK'
    BY <1>4, <2>3, <2>5 DEF CheckCounts, TypeOK, Running
  <2>7. Select(staged)' = Select(staged) /\ Unsupported' = Unsupported
    BY <1>4 DEF CheckCounts, Select, Unsupported
  <2> QED
    BY <1>4, <2>1, <2>2, <2>3, <2>6, <2>7 DEF CheckCounts
<1>5. CASE Guardrail
  <2>1. Select(staged)' = Select(staged) /\ Unsupported' = Unsupported
    BY <1>5 DEF Guardrail, Select, Unsupported
  <2>2. TypeOK'
    BY <1>5 DEF Guardrail, TypeOK, Errors
  <2>3. pc' = "accepted" => Unsupported = {}
    BY <1>5 DEF Guardrail
  <2> QED
    BY <1>5, <2>1, <2>2, <2>3 DEF Guardrail
<1>6. CASE UNCHANGED vars
  <2>1. Select(staged)' = Select(staged) /\ Unsupported' = Unsupported
    BY <1>6 DEF vars, Select, Unsupported
  <2> QED
    BY <1>6, <2>1 DEF vars, TypeOK
<1> QED
  BY <1>1, <1>2, <1>3, <1>4, <1>5, <1>6 DEF Next

(***************************************************************************)
(* Type correctness, and with it the inductive invariant, of every run.     *)
(***************************************************************************)
THEOREM ConversionInvariant == Spec => []IInv
BY InitIInv, NextIInv, PTL DEF Spec

\* State values stay in their types for every snapshot, core count and block set.
THEOREM ConversionTypes == Spec => []TypeOK
<1>1. IInv => TypeOK
  BY DEF IInv
<1> QED
  BY <1>1, ConversionInvariant, PTL

\* The converter's two internal RuntimeErrors cannot be raised by any snapshot.
THEOREM CrossChecksNeverFire == Spec => []ChecksNeverFire
<1>1. IInv => ChecksNeverFire
  BY DEF IInv
<1> QED
  BY <1>1, ConversionInvariant, PTL

------------------------------------------------------------------------------
(* What gem5 is told to preload.                                            *)

\* Every line of the MOESI candidate lists comes from one of four lists.
LEMMA MoesiLineKinds ==
    ASSUME NEW l \in MoesiLines(src, staged, sel)
    PROVE  \/ \E b \in sel.owner : \E c \in DCores(src, b) :
                 l = FamilyLine("single_writeable", b, c, "d_cache", "M", "ILX")
           \/ \E b \in sel.clean : \E c \in DCores(src, b) :
                 l = FamilyLine("single_clean", b, c, "d_cache", "S", "SLS")
           \/ \E b \in sel.multi : \E c \in DCores(src, b) :
                 l = FamilyLine("multi_clean", b, c, "d_cache", "S",
                                SharedL2State(staged, b))
           \/ \E b \in sel.instr : \E c \in ICores(src, b) :
                 l = FamilyLine("instruction_only", b, c, "i_cache", "S",
                                SharedL2State(staged, b))
BY DEF MoesiLines

\* An owner block is in no other candidate list, has one core, and is not staged.
LEMMA OwnerIsAlone ==
    ASSUME sel = Select(staged), NEW b \in sel.owner
    PROVE  /\ b \notin sel.clean \cup sel.multi \cup sel.instr
           /\ b \notin staged
           /\ Single(DCores(src, b))
BY DEF Select, OwnerBlocks, SingleCleanBlocks, MultiCleanBlocks, InstructionBlocks, Single

\* A line restored in M is the block's only restored line and its block is not
\* in the LLC: for MOESI of any snapshot, for MESI of a coherent one.
THEOREM RestoredLinesAreCoherent == Spec => []RestoredCoherent
<1>1. IInv => RestoredCoherent
  <2> SUFFICES ASSUME IInv, pc = "accepted", protocol = MESI => SourceCoherent,
                      NEW l1 \in L1Lines, NEW l2 \in L1Lines,
                      l1.block = l2.block, l1.l1 = "M"
               PROVE  l1 = l2 /\ l1.block \notin staged
    BY DEF RestoredCoherent
  <2>1. CASE protocol = MOESI
    <3> DEFINE Cut(m) == [block |-> m.block, core |-> m.core, cache |-> m.cache, l1 |-> m.l1]
    <3>1. PICK m1 \in MoesiLines(src, staged, sel) : l1 = Cut(m1)
      BY <2>1 DEF L1Lines
    <3>2. PICK m2 \in MoesiLines(src, staged, sel) : l2 = Cut(m2)
      BY <2>1 DEF L1Lines
    <3>3. sel = Select(staged)
      BY DEF IInv, SelIsRight, Selected
    <3>4. PICK b \in sel.owner : \E c \in DCores(src, b) :
              m1 = FamilyLine("single_writeable", b, c, "d_cache", "M", "ILX")
      BY <3>1, MoesiLineKinds DEF FamilyLine
    <3>4a. PICK c \in DCores(src, b) :
              m1 = FamilyLine("single_writeable", b, c, "d_cache", "M", "ILX")
      BY <3>4
    <3>5. /\ b \notin sel.clean \cup sel.multi \cup sel.instr
          /\ b \notin staged
          /\ Single(DCores(src, b))
      BY <3>3, OwnerIsAlone
    <3>6. m2.block = b
      BY <3>1, <3>2, <3>4a DEF FamilyLine
    <3>7. PICK c2 \in DCores(src, b) :
              m2 = FamilyLine("single_writeable", b, c2, "d_cache", "M", "ILX")
      BY <3>5, <3>6, MoesiLineKinds DEF FamilyLine
    <3>8. c = c2
      BY <3>5 DEF Single
    <3> QED
      BY <3>1, <3>2, <3>4a, <3>5, <3>7, <3>8 DEF FamilyLine
  <2>2. CASE protocol # MOESI
    <3>1. protocol = MESI
      BY <2>2 DEF IInv, TypeOK, Protocols
    <3>2. L1Lines = L1DLines(src) \cup L1ILines(src)
      BY <2>2 DEF L1Lines
    <3>3. PICK e1 \in src.priv :
              /\ IsData(e1) /\ e1.writeable
              /\ l1 = [block |-> e1.block, core |-> e1.core, cache |-> "d_cache",
                       l1 |-> L1DState(e1)]
      BY <3>2 DEF L1DLines, L1ILines, L1DState, L1IState
    <3>4. PICK e2 \in src.priv :
              /\ e2.block = e1.block
              /\ \/ /\ IsData(e2)
                    /\ l2 = [block |-> e2.block, core |-> e2.core, cache |-> "d_cache",
                             l1 |-> L1DState(e2)]
                 \/ IsInstruction(e2)
      BY <3>2, <3>3 DEF L1DLines, L1ILines
    <3>5. e1 = e2
      BY <3>1, <3>3, <3>4 DEF SourceCoherent
    <3>6. l1 = l2
      BY <3>3, <3>4, <3>5 DEF IsData, IsInstruction
    <3>7. staged = Staged(src)
      BY DEF IInv, StagedIsRight
    <3>8. l1.block \notin staged
      BY <3>3, <3>7 DEF Staged, StagedClean, StagedModified, Restorable, Unclaimed, Entries
    <3> QED
      BY <3>6, <3>8
  <2> QED
    BY <2>1, <2>2
<1> QED
  BY <1>1, ConversionInvariant, PTL

\* A restored private line claims LLC backing exactly when its block is staged.
THEOREM BackingIsTruthful == Spec => []BackingMatchesStaged
<1>1. IInv => BackingMatchesStaged
  <2> SUFFICES ASSUME IInv, pc = "accepted", NEW l \in MoesiLines(src, staged, sel)
               PROVE  (l.l2 = "SLS") <=> (l.block \in staged)
    BY DEF BackingMatchesStaged
  <2>1. sel = Select(staged)
    BY DEF IInv, SelIsRight, Selected
  <2>2. /\ sel.owner \cap staged = {}
        /\ sel.clean \subseteq staged
    BY <2>1 DEF Select, OwnerBlocks, SingleCleanBlocks
  <2> QED
    BY <2>2, MoesiLineKinds DEF FamilyLine, SharedL2State
<1> QED
  BY <1>1, ConversionInvariant, PTL

\* Where the guardrail lets a conversion pass, each block with a private line
\* and a directory entry is in exactly one candidate list, and the lists differ
\* in which of the block's lines they take.
LEMMA SupportedBlockIsSelected ==
    ASSUME sel = Select(staged), Unsupported = {}, NEW b \in PrivateBlocks(src)
    PROVE  \/ b \in sel.owner \cup sel.clean \cup sel.multi
           \/ b \in sel.instr
<1>1. Family(src, staged, b) \in ImplementedFamilies
  BY DEF Unsupported
<1> QED
  BY <1>1, FamilyIsSelected DEF ImplementedFamilies, Select

LEMMA ListsAreDisjoint ==
    ASSUME sel = Select(staged)
    PROVE  /\ \A b \in sel.owner : b \notin sel.clean /\ b \notin sel.multi /\ b \notin sel.instr
           /\ \A b \in sel.clean : b \notin sel.multi /\ b \notin sel.instr
           /\ \A b \in sel.multi : b \notin sel.instr
<1>1. \A b : DCores(src, b) = {} => ~Single(DCores(src, b))
  BY DEF Single
<1> QED
  BY <1>1 DEF Select, OwnerBlocks, SingleCleanBlocks, MultiCleanBlocks, InstructionBlocks

LEMMA ListsTakeTheirCaches ==
    ASSUME sel = Select(staged)
    PROVE  /\ \A b \in sel.owner \cup sel.clean \cup sel.multi :
                  b \in PrivateBlocks(src) /\ ICores(src, b) = {}
           /\ \A b \in sel.instr : b \in PrivateBlocks(src) /\ DCores(src, b) = {}
BY DEF Select, OwnerBlocks, SingleCleanBlocks, MultiCleanBlocks, InstructionBlocks

\* The converse of MoesiLineKinds, in the coordinates RestoredExactly compares.
LEMMA SelectedLinesAreThere ==
    /\ \A b \in sel.owner \cup sel.clean \cup sel.multi : \A c \in DCores(src, b) :
           \E l \in MoesiLines(src, staged, sel) :
               l.block = b /\ l.core = c /\ l.cache = "d_cache"
    /\ \A b \in sel.instr : \A c \in ICores(src, b) :
           \E l \in MoesiLines(src, staged, sel) :
               l.block = b /\ l.core = c /\ l.cache = "i_cache"
<1>1. ASSUME NEW b \in sel.owner, NEW c \in DCores(src, b)
      PROVE  FamilyLine("single_writeable", b, c, "d_cache", "M", "ILX")
                 \in MoesiLines(src, staged, sel)
  BY DEF MoesiLines
<1>2. ASSUME NEW b \in sel.clean, NEW c \in DCores(src, b)
      PROVE  FamilyLine("single_clean", b, c, "d_cache", "S", "SLS")
                 \in MoesiLines(src, staged, sel)
  BY DEF MoesiLines
<1>3. ASSUME NEW b \in sel.multi, NEW c \in DCores(src, b)
      PROVE  FamilyLine("multi_clean", b, c, "d_cache", "S", SharedL2State(staged, b))
                 \in MoesiLines(src, staged, sel)
  BY DEF MoesiLines
<1>4. ASSUME NEW b \in sel.instr, NEW c \in ICores(src, b)
      PROVE  FamilyLine("instruction_only", b, c, "i_cache", "S", SharedL2State(staged, b))
                 \in MoesiLines(src, staged, sel)
  BY DEF MoesiLines
<1> QED
  BY <1>1, <1>2, <1>3, <1>4 DEF FamilyLine

\* An accepted MOESI conversion restores every private line the directory
\* knows, in its own core and cache, from one list, and nothing else.
THEOREM RestoredLinesAreExact == Spec => []RestoredExactly
<1>1. IInv => RestoredExactly
  <2> DEFINE Lines == MoesiLines(src, staged, sel)
             Known == {x \in src.priv : src.dir[x.block].present
                                        /\ (IsData(x) \/ IsInstruction(x))}
             Place(l) == <<l.block, l.core, l.cache>>
  <2> SUFFICES ASSUME IInv, pc = "accepted", protocol = MOESI
               PROVE  /\ {Place(l) : l \in Lines} = {Place(e) : e \in Known}
                      /\ \A l1, l2 \in Lines : l1.block = l2.block => l1.list = l2.list
    BY DEF RestoredExactly
  <2>1. sel = Select(staged) /\ Unsupported = {} /\ src \in Snapshot
    BY DEF IInv, SelIsRight, Selected, AcceptedIsSupported, TypeOK
  <2>2. ASSUME NEW l \in Lines
        PROVE  \E e \in Known : Place(l) = Place(e)
    <3>1. \/ \E b \in PrivateBlocks(src) : \E c \in DCores(src, b) :
                 l.block = b /\ l.core = c /\ l.cache = "d_cache"
          \/ \E b \in PrivateBlocks(src) : \E c \in ICores(src, b) :
                 l.block = b /\ l.core = c /\ l.cache = "i_cache"
      BY <2>1, MoesiLineKinds, ListsTakeTheirCaches DEF FamilyLine
    <3> QED
      BY <3>1 DEF DCores, ICores, DEntries, IEntries, Entries, PrivateBlocks,
                  IsData, IsInstruction
  <2>3. ASSUME NEW e \in Known
        PROVE  \E l \in Lines : Place(l) = Place(e)
    <3>1. e.block \in Block
      BY <2>1 DEF Snapshot, Entry
    <3>2. e.block \in PrivateBlocks(src)
      BY <3>1 DEF PrivateBlocks, Entries
    <3>3. CASE IsData(e)
      <4>1. e.core \in DCores(src, e.block) /\ e.cache = "d_cache"
        BY <3>3 DEF DCores, DEntries, Entries, IsData
      <4>2. e.block \in sel.owner \cup sel.clean \cup sel.multi
        BY <2>1, <3>2, <4>1, SupportedBlockIsSelected, ListsTakeTheirCaches
      <4> QED
        BY <4>1, <4>2, SelectedLinesAreThere
    <3>4. CASE IsInstruction(e)
      <4>1. e.core \in ICores(src, e.block) /\ e.cache = "i_cache"
        BY <3>4 DEF ICores, IEntries, Entries, IsInstruction
      <4>2. e.block \in sel.instr
        BY <2>1, <3>2, <4>1, SupportedBlockIsSelected, ListsTakeTheirCaches
      <4> QED
        BY <4>1, <4>2, SelectedLinesAreThere
    <3> QED
      BY <3>3, <3>4
  <2>4. ASSUME NEW l1 \in Lines, NEW l2 \in Lines, l1.block = l2.block
        PROVE  l1.list = l2.list
    <3>1. \A l \in Lines :
              \/ l.block \in sel.owner /\ l.list = "single_writeable"
              \/ l.block \in sel.clean /\ l.list = "single_clean"
              \/ l.block \in sel.multi /\ l.list = "multi_clean"
              \/ l.block \in sel.instr /\ l.list = "instruction_only"
      BY MoesiLineKinds DEF FamilyLine
    <3> QED
      BY <2>1, <2>4, <3>1, ListsAreDisjoint
  <2>5. {Place(l) : l \in Lines} = {Place(e) : e \in Known}
    <3> HIDE DEF Lines, Known, Place
    <3> QED
      BY <2>2, <2>3
  <2> QED
    BY <2>4, <2>5
<1> QED
  BY <1>1, ConversionInvariant, PTL
------------------------------------------------------------------------------
(* The sharers announced to the L2.                                         *)

\* The slot of a private line decodes to the core that holds it.
LEMMA SlotDecodes ==
  ASSUME NEW c \in Nat, NEW side \in {0, 1}
  PROVE  /\ 2 * c + side \in Nat
         /\ (2 * c + side) \div 2 = c
         /\ (2 * c + side) % 2 = side
  <1>1. CASE side = 0
    BY <1>1
  <1>2. CASE side = 1
    BY <1>2
  <1> QED
    BY <1>1, <1>2

\* A slot has a place in a word of the bitmap.
LEMMA WordAndBit ==
  ASSUME NEW slot \in 0 .. 2 * NumCores - 1
  PROVE  /\ slot \div WordBits \in WordIndex
         /\ slot % WordBits \in 0 .. WordBits - 1
         /\ slot = (slot \div WordBits) * WordBits + (slot % WordBits)
  <1>1. slot \in Nat /\ WordBits \in Nat \ {0}
    BY SelectAssumption
  <1>2. slot \div WordBits \in WordIndex
    BY Zenon DEF WordIndex
  <1>3. slot % WordBits \in 0 .. WordBits - 1
    BY <1>1
  <1>4. slot = (slot \div WordBits) * WordBits + (slot % WordBits)
    BY <1>1
  <1> QED
    BY <1>2, <1>3, <1>4

LEMMA ExactBitmapsDecode ==
  ASSUME src \in Snapshot, NEW b \in Block, BitmapExact(b)
  PROVE  AllSharers(src.dir[b]) = {e.core : e \in Entries(src, b)}
  <1> DEFINE Meta == src.dir[b]
             Held == {SlotOf(e) : e \in Entries(src, b)}
  <1>1. \A e \in Entries(src, b) :
            /\ e.core \in Nat
            /\ SlotOf(e) \in 0 .. 2 * NumCores - 1
            /\ SlotOf(e) \div 2 = e.core
            /\ SlotOf(e) % 2 \in {0, 1}
    <2> SUFFICES ASSUME NEW e \in Entries(src, b)
                 PROVE  /\ e.core \in Nat
                        /\ SlotOf(e) \in 0 .. 2 * NumCores - 1
                        /\ SlotOf(e) \div 2 = e.core
                        /\ SlotOf(e) % 2 \in {0, 1}
      OBVIOUS
    <2>1. e.core \in Nat /\ e.core < NumCores /\ NumCores \in Nat
      BY SelectAssumption DEF Entries, Snapshot, Entry, Core
    <2> QED
      BY <2>1, SlotDecodes DEF SlotOf
  <1>2. /\ Meta.bits = 2 * NumCores
        /\ \A w \in WordIndex :
               Meta.words[w] = {bit \in 0 .. WordBits - 1 : w * WordBits + bit \in Held}
    BY DEF BitmapExact
  <1> HIDE DEF Meta, Held
  <1>3. Slots(Meta) = Held
    <2>1. ASSUME NEW slot \in Slots(Meta) PROVE slot \in Held
      <3>1. PICK w \in WordIndex : \E bit \in Meta.words[w] : slot = w * WordBits + bit
        BY <2>1 DEF Slots
      <3> QED
        BY <1>2, <3>1
    <2>2. ASSUME NEW slot \in Held PROVE slot \in Slots(Meta)
      <3>1. slot \in 0 .. 2 * NumCores - 1
        BY <1>1, <2>2 DEF Held
      <3>2. PICK w \in WordIndex : \E bit \in 0 .. WordBits - 1 : slot = w * WordBits + bit
        BY <3>1, WordAndBit, Zenon
      <3>3. PICK bit \in 0 .. WordBits - 1 : slot = w * WordBits + bit
        BY <3>2
      <3>4. bit \in Meta.words[w]
        BY <1>2, <2>2, <3>3
      <3> QED
        BY <1>2, <3>1, <3>3, <3>4, Zenon DEF Slots
    <2> QED
      BY <2>1, <2>2
  <1>4. ASSUME NEW c \in AllSharers(Meta)
        PROVE  \E e \in Entries(src, b) : c = e.core
    <2>1. PICK slot \in Slots(Meta) : c = slot \div 2
      BY <1>4 DEF AllSharers, SharerCores
    <2> QED
      BY <1>1, <1>3, <2>1 DEF Held
  <1>5. ASSUME NEW e \in Entries(src, b)
        PROVE  e.core \in AllSharers(Meta)
    <2>1. SlotOf(e) \in Slots(Meta)
      BY <1>3 DEF Held
    <2>2. e.core \in SharerCores(Meta, 0) \/ e.core \in SharerCores(Meta, 1)
      BY <1>1, <2>1 DEF SharerCores
    <2> QED
      BY <2>2 DEF AllSharers
  <1>6. AllSharers(Meta) = {e.core : e \in Entries(src, b)}
    BY <1>4, <1>5
  <1> QED
    BY <1>6 DEF Meta

\* Where the exporter's bitmap is exact or empty, the inclusive L2 is told of exactly the
\* cores whose L1 restores the block, in S, and of those of mislabelled lines
\* (prepare_gem5_uarch.py:842-1033).
THEOREM SharersAreTruthful == Spec => []SharersMatchL1
<1>1. IInv => SharersMatchL1
  <2> SUFFICES ASSUME IInv, pc = "accepted", protocol = MESI,
                      NEW b \in L2SharedBlocks(src),
                      BitmapExact(b) \/ AllSharers(src.dir[b]) = {}
               PROVE  LET lines == {l \in L1Lines : l.block = b}
                      IN  /\ L2SharedCores(src, b)
                                 = {l.core : l \in lines} \cup {e.core : e \in Mislabelled(b)}
                          /\ \A l \in lines : l.l1 = "S"
    BY DEF SharersMatchL1
  <2> DEFINE Restored == {l \in L1Lines : l.block = b}
  <2>1. src \in Snapshot /\ b \in Block /\ Entries(src, b) # {} /\ Unclaimed(src, b)
    BY DEF IInv, TypeOK, L2SharedBlocks
  <2>2. L2SharedCores(src, b) = {e.core : e \in Entries(src, b)}
    BY <2>1, ExactBitmapsDecode DEF L2SharedCores
  <2>3. L1Lines = L1DLines(src) \cup L1ILines(src)
    BY DEF L1Lines, MESI, MOESI
  <2>4. ASSUME NEW l \in Restored
        PROVE  l.l1 = "S" /\ \E e \in Entries(src, b) : l.core = e.core
    <3>1. PICK e \in src.priv : /\ l.block = e.block /\ l.core = e.core
                                /\ l.l1 \in {L1DState(e), L1IState(e)}
      BY <2>3, <2>4 DEF L1DLines, L1ILines
    <3>2. e \in Entries(src, b) /\ ~e.writeable
      BY <2>1, <2>4, <3>1 DEF Entries, Unclaimed
    <3> QED
      BY <3>1, <3>2 DEF L1DState, L1IState
  <2>5. ASSUME NEW e \in Entries(src, b), e \notin Mislabelled(b)
        PROVE  \E l \in Restored : l.core = e.core
    <3>1. e \in src.priv /\ e.block = b /\ (IsData(e) \/ IsInstruction(e))
      BY <2>5 DEF Entries, Mislabelled
    <3>2. CASE IsData(e)
      <4> DEFINE line == [block |-> e.block, core |-> e.core, cache |-> "d_cache",
                          l1 |-> L1DState(e)]
      <4>1. line \in L1DLines(src)
        BY <3>1, <3>2 DEF L1DLines
      <4>2. line \in Restored /\ line.core = e.core
        BY <2>3, <3>1, <4>1
      <4> QED
        BY <4>2
    <3>3. CASE IsInstruction(e)
      <4> DEFINE line == [block |-> e.block, core |-> e.core, cache |-> "i_cache",
                          l1 |-> L1IState(e)]
      <4>1. line \in L1ILines(src)
        BY <3>1, <3>3 DEF L1ILines
      <4>2. line \in Restored /\ line.core = e.core
        BY <2>3, <3>1, <4>1
      <4> QED
        BY <4>2
    <3> QED
      BY <3>1, <3>2, <3>3
  <2>6. Mislabelled(b) \subseteq Entries(src, b)
    BY DEF Mislabelled
  <2> HIDE DEF Restored
  <2>7. {e.core : e \in Entries(src, b)}
           = {l.core : l \in Restored} \cup {e.core : e \in Mislabelled(b)}
    BY <2>4, <2>5, <2>6
  <2> QED
    BY <2>2, <2>4, <2>7 DEF Restored
<1> QED
  BY <1>1, ConversionInvariant, PTL
===============================================================================
