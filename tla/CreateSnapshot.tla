----------------------------- MODULE CreateSnapshot -----------------------------
(***************************************************************************)
(* create_snapshot.py: stop the guest through QEMU's monitor, dump its      *)
(* memory, device and register state into the destination directory, quit   *)
(* QEMU, and turn the dumps into a gem5 checkpoint.                         *)
(*                                                                          *)
(* The state of the guest is abstracted to the moment it is in, which goes  *)
(* on while the guest runs; a file is abstracted to the moments it tells    *)
(* of.  The monitor's replies to stop, commit and dump-guest-memory are     *)
(* read but not looked at.  QEMU and gdb are external.                      *)
(***************************************************************************)
EXTENDS Integers

CONSTANTS
    MaxCores,     \* bound on --num-cores
    MaxMoment,    \* bound on the moments of the guest
    MaxAttempts   \* bound on the calls of the script

ASSUME SnapshotAssumption ==
    /\ MaxCores \in Nat \ {0}
    /\ MaxMoment \in Nat \ {0} /\ MaxAttempts \in Nat

VARIABLES
    guest,    \* running, stopped or gone
    now,      \* the moment the guest is in
    image,    \* the moment last committed to the disk image
    task,     \* where the script stands; idle if it does not run
    attempt,  \* its arguments: skip, copyDisk and cores; and how many there were
    core,     \* the core gdb is asked about next
    dir,      \* the destination directory
    before    \* history: which dumps were there when the attempt began

snapshotVars == <<guest, now, image, task, attempt, core, dir, before>>

Moments == 1 .. MaxMoment
\* A file may be missing, or cut short.
None == 0
Torn == -1
Files == Moments \cup {None, Torn}

\* Register logs: reg_info.virtio for one core, reg_info.virtio.<i> for several.  gdb
\* appends to a log, and the last value of a register counts: a log tells of the
\* moments of a set, and is whole once it has every register.
LogNames == 0 .. MaxCores
LogName(c) == IF attempt.cores = 1 THEN 0 ELSE c
NoLog == [of |-> {}, whole |-> FALSE]
NoCheckpoint == [dev |-> None, regs |-> <<>>]

SnapshotInit ==
    /\ guest = "running" /\ now = 1 /\ image = None
    /\ task = "idle"
    /\ attempt = [skip |-> FALSE, copyDisk |-> FALSE, cores |-> 1, number |-> 0]
    /\ core = 1
    /\ dir = [mem |-> None, dev |-> None, disk |-> None, pmem |-> None, base |-> FALSE,
              regs |-> [l \in LogNames |-> NoLog], cpt |-> NoCheckpoint]
    /\ before = {}

------------------------------------------------------------------------------
(* The guest and its user.                                                  *)

Tick ==
    /\ guest = "running" /\ now < MaxMoment
    /\ now' = now + 1
    /\ UNCHANGED <<guest, image, task, attempt, core, dir, before>>

\* Between two attempts the user starts QEMU again, or lets the guest go on.
Resume ==
    /\ task = "idle" /\ guest # "running"
    /\ guest' = "running"
    /\ UNCHANGED <<now, image, task, attempt, core, dir, before>>

------------------------------------------------------------------------------
(* collect_snapshot.                                                        *)

Dumps == {f \in {"mem", "dev"} : dir[f] # None}
         \cup {"regs" : l \in {l \in LogNames : dir.regs[l] # NoLog}}

StartSnapshot ==
    /\ task = "idle" /\ attempt.number < MaxAttempts
    /\ \E skip, copyDisk \in BOOLEAN, n \in 1 .. MaxCores :
           /\ attempt' = [skip |-> skip, copyDisk |-> copyDisk, cores |-> n,
                          number |-> attempt.number + 1]
           /\ task' = IF skip THEN "elf" ELSE "stop"
    /\ before' = Dumps
    /\ core' = 1
    /\ UNCHANGED <<guest, now, image, dir>>

\* A plausible slip: the guest goes on, as it does if the command is lost.
StopUnheard ==
    /\ task = "stop" /\ guest # "gone"
    /\ task' = "commit"
    /\ UNCHANGED <<guest, now, image, attempt, core, dir, before>>

\* Connecting takes a QEMU that listens.
StopGuest ==
    /\ task = "stop" /\ guest # "gone"
    /\ guest' = "stopped"
    /\ task' = "commit"
    /\ UNCHANGED <<now, image, attempt, core, dir, before>>

\* commit all, twice over.
Commit ==
    /\ task = "commit"
    /\ image' \in {now, image}
    /\ task' = IF attempt.copyDisk THEN "disk" ELSE "dump"
    /\ UNCHANGED <<guest, now, attempt, core, dir, before>>

CopyDisk ==
    /\ task = "disk"
    /\ dir' = [dir EXCEPT !.disk = image]
    /\ task' = "dump"
    /\ UNCHANGED <<guest, now, image, attempt, core, before>>

\* QEMU may refuse, or fail half way; the script goes on.
DumpMemory ==
    /\ task = "dump"
    /\ \E m \in {now, dir.mem, Torn} : dir' = [dir EXCEPT !.mem = m]
    /\ task' = "dev"
    /\ UNCHANGED <<guest, now, image, attempt, core, before>>

\* dump_disk_dev_info.
DumpDevice ==
    /\ task = "dev"
    /\ dir' = [dir EXCEPT !.dev = now]
    /\ task' = "gdb"
    /\ UNCHANGED <<guest, now, image, attempt, core, before>>

\* One gdb per core.  A gdb that cannot connect writes no log and is still no
\* failure, since quit is read from its input; one that leaves may let the guest go on.
DumpRegisters ==
    /\ task = "gdb"
    /\ \/ /\ dir' = [dir EXCEPT !.regs[LogName(core)] = [of |-> {now}, whole |-> TRUE]]
          /\ guest' \in {guest, "running"}
       \/ UNCHANGED <<dir, guest>>
    /\ core' = core + 1
    /\ task' = IF core < attempt.cores THEN "gdb" ELSE "quit"
    /\ UNCHANGED <<now, image, attempt, before>>

\* quit is sent, and waited for no longer than two seconds.
QuitQemu ==
    /\ task = "quit"
    /\ guest' \in {guest, "gone"}
    /\ task' = "elf"
    /\ UNCHANGED <<now, image, attempt, core, dir, before>>

------------------------------------------------------------------------------
(* process_snapshot.                                                        *)

\* get_elf_skip_bytes: the headers of the memory dump must be there.
ReadElf ==
    /\ task = "elf"
    /\ dir.mem # None
    /\ task' = "cpt"
    /\ UNCHANGED <<guest, now, image, attempt, core, dir, before>>

Logs == [c \in 1 .. attempt.cores |-> dir.regs[LogName(c)]]

\* gen_m5cpt: every register must be found.  An empty dev.info is none the worse: the
\* template leaves the value out.
MakeCheckpoint ==
    /\ task = "cpt"
    /\ dir.dev # None
    /\ \A c \in DOMAIN Logs : Logs[c].whole
    /\ dir' = [dir EXCEPT !.cpt = [dev |-> dir.dev, regs |-> [c \in DOMAIN Logs |-> Logs[c].of]]]
    /\ task' = "pmem"
    /\ UNCHANGED <<guest, now, image, attempt, core, before>>

MakeMemory ==
    /\ task = "pmem"
    /\ dir' = [dir EXCEPT !.pmem = dir.mem]
    /\ task' = "base"
    /\ UNCHANGED <<guest, now, image, attempt, core, before>>

CopyBase ==
    /\ task = "base"
    /\ dir' = [dir EXCEPT !.base = TRUE]
    /\ task' = "done"
    /\ UNCHANGED <<guest, now, image, attempt, core, before>>

Exit ==
    /\ task = "done"
    /\ task' = "idle"
    /\ UNCHANGED <<guest, now, image, attempt, core, dir, before>>

\* An error, perhaps because QEMU died, or Ctrl-C: what the task was writing is cut
\* short, the logs by what is missing at their end.  Nobody lets a stopped guest go on.
HalfWritten ==
    {dir} \cup
    CASE task = "disk" -> {[dir EXCEPT !.disk = Torn]}
      [] task = "dump" -> {[dir EXCEPT !.mem = m] : m \in {now, Torn}}
      [] task = "dev" -> {[dir EXCEPT !.dev = Torn]}
      [] task = "gdb" -> {[dir EXCEPT !.regs[LogName(core)].of = @ \cup {now}]}
      [] task = "cpt" -> {[dir EXCEPT !.cpt.dev = Torn]}
      [] task = "pmem" -> {[dir EXCEPT !.pmem = Torn]}
      [] OTHER -> {}

FailSnapshot ==
    /\ task \notin {"idle", "done"}
    /\ dir' \in HalfWritten
    /\ guest' \in {guest, "gone"}
    /\ task' = "idle"
    /\ UNCHANGED <<now, image, attempt, core, before>>

SnapshotNext ==
    \/ Tick \/ Resume
    \/ StartSnapshot \/ StopGuest \/ Commit \/ CopyDisk \/ DumpMemory \/ DumpDevice
    \/ DumpRegisters \/ QuitQemu
    \/ ReadElf \/ MakeCheckpoint \/ MakeMemory \/ CopyBase \/ Exit
    \/ FailSnapshot

SnapshotSpec == SnapshotInit /\ [][SnapshotNext]_snapshotVars

------------------------------------------------------------------------------
(* Properties.                                                              *)

\* When the script is done, the checkpoint and the memory image are made of the dumps
\* that lie beside them.  If there were no dumps before, and QEMU did not cut the memory
\* dump short, they are one moment of the guest, memory, device and registers alike:
\* nothing has to be hoped for but that no error was raised.  gdb may let the guest go on
\* between two cores, so those after the first may be later (create_snapshot.py:114-121).
SnapshotIsOneState ==
    task = "done" =>
        /\ dir.base
        /\ dir.pmem = dir.mem
        /\ dir.cpt = [dev |-> dir.dev, regs |-> [c \in DOMAIN Logs |-> Logs[c].of]]
        /\ \A c \in DOMAIN Logs : Logs[c].whole
        /\ ~attempt.skip /\ before = {} /\ dir.mem # Torn =>
               /\ dir.pmem \in Moments
               /\ dir.cpt.dev = dir.pmem
               /\ dir.cpt.regs[1] = {dir.pmem}
               /\ \A c \in DOMAIN Logs : \E m \in Moments :
                      m >= dir.pmem /\ dir.cpt.regs[c] = {m}
        /\ ~attempt.skip /\ attempt.copyDisk => dir.disk = image
===============================================================================
