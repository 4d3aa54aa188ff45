----------------------------- MODULE UarchBundle -----------------------------
(***************************************************************************)
(* The writing half of prepare_snapshot_gem5_uarch over the life of one     *)
(* snapshot's gem5_uarch directory: conversions for either protocol, with   *)
(* and without --overwrite, of changing inputs, refused by the guardrail or *)
(* by an existing file, or killed at any point.                             *)
(*                                                                          *)
(* What a file says is abstracted to the input it was made from.  Which     *)
(* slices and cores get a file depends on the input (Parts).  Conversions   *)
(* run one at a time; nothing else writes in the directory.                 *)
(***************************************************************************)
EXTENDS Naturals, Sequences

CONSTANTS
    Protocols,
    Plan,       \* Plan[p]: the steps of a conversion for protocol p
    Input,      \* exported snapshot plus slice count
    Index,      \* slice ids and core ids
    Parts,      \* Parts[i][kind]: the slices or cores of a group for input i
    Rejected,   \* inputs that stop a conversion before it writes (no LLC lines)
    Refused,    \* inputs the MOESI guardrail refuses
    TooWide,    \* inputs with a sharer core that the L2 encoding has no room for
    MaxRuns     \* bound on the number of conversions

Steps == UNION {{Plan[p][n] : n \in DOMAIN Plan[p]} : p \in Protocols}
Kinds == {s.kind : s \in Steps}
File == [dir: Protocols \cup {"root"}, kind: Kinds, idx: Index]

IsSingle(s, kind, at) == s.form = "single" /\ s.kind = kind /\ s.at = at

\* No kind is written twice; a plan starts with a single file of the protocol's own
\* subtree and ends with the manifest there.
ASSUME PlanAssumption ==
    /\ Protocols # {} /\ "root" \notin Protocols
    /\ \A p \in Protocols :
        /\ Len(Plan[p]) \in Nat \ {0}
        /\ DOMAIN Plan[p] = 1 .. Len(Plan[p])
        /\ \A m, n \in DOMAIN Plan[p] : Plan[p][m].kind = Plan[p][n].kind => m = n
        /\ IsSingle(Plan[p][1], Plan[p][1].kind, "protocol")
        /\ IsSingle(Plan[p][Len(Plan[p])], "manifest", "protocol")

\* Every protocol writes the same files to the root, the BTB candidates first.
ASSUME RootAssumption ==
    \A p \in Protocols : \A m \in DOMAIN Plan[p] :
        Plan[p][m].at = "root" =>
            /\ \E n \in 1 .. m : IsSingle(Plan[p][n], "btb_json", "root")
            /\ \A q \in Protocols : \E n \in DOMAIN Plan[q] :
                   /\ Plan[q][n].kind = Plan[p][m].kind /\ Plan[q][n].at = "root"
                   /\ Plan[q][n].form = Plan[p][m].form

ASSUME InputAssumption ==
    /\ Input # {}
    /\ Rejected \subseteq Input /\ Refused \subseteq Input /\ TooWide \subseteq Input
    /\ 0 \in Index /\ MaxRuns \in Nat
    /\ \A i \in Input, k \in Kinds : Parts[i][k] \subseteq Index

Partial == "partial"    \* cut off by a crash

VARIABLES
    disk,       \* the files that exist, and the input each was made from
    sibling,    \* the snapshot.gem5_uarch directory of the older layout exists
    run,        \* arguments of the latest conversion
    step,       \* the step of its plan it has entered
    left,       \* files of that step not yet written
    status,
    runs,       \* conversions so far
    overwrote   \* some conversion so far was given --overwrite

vars == <<disk, sibling, run, step, left, status, runs, overwrote>>

Run == [protocol: Protocols, overwrite: BOOLEAN, input: Input]

Ended == {"idle", "done", "exists", "rejected", "refused", "too_wide", "crashed"}

TypeOK ==
    /\ DOMAIN disk \subseteq File
    /\ \A f \in DOMAIN disk : disk[f] \in Input \cup {Partial}
    /\ sibling \in BOOLEAN
    /\ run \in Run
    /\ step \in 0 .. Len(Plan[run.protocol])
    /\ left \subseteq File
    /\ status \in Ended \cup {"writing"}
    /\ runs \in 0 .. MaxRuns
    /\ overwrote \in BOOLEAN

Init ==
    /\ disk = [f \in {} |-> Partial]
    /\ sibling \in BOOLEAN
    /\ run = CHOOSE r \in Run : TRUE
    /\ step = 0
    /\ left = {}
    /\ status = "idle"
    /\ runs = 0
    /\ overwrote = FALSE

------------------------------------------------------------------------------

Place(r, n) == IF Plan[r.protocol][n].at = "root" THEN "root" ELSE r.protocol

\* A plausible slip: slices and cores numbered from one.
FilesOfFromOne(r, n) ==
    LET s == Plan[r.protocol][n]
    IN  [dir: {Place(r, n)}, kind: {s.kind},
         idx: IF s.form = "single" THEN {0} ELSE {x + 1 : x \in Parts[r.input][s.kind]}]

\* The files step n of run r is to write.
FilesOf(r, n) ==
    LET s == Plan[r.protocol][n]
    IN  [dir: {Place(r, n)}, kind: {s.kind},
         idx: IF s.form = "single" THEN {0} ELSE Parts[r.input][s.kind]]

\* The files its glob matches.
GlobOf(r, n) ==
    LET s == Plan[r.protocol][n]
    IN  IF s.form = "single" THEN {}
        ELSE [dir: {Place(r, n)}, kind: {s.kind}, idx: Index]

Without(d, F) == [f \in DOMAIN d \ F |-> d[f]]
With(d, f, held) == [g \in DOMAIN d \cup {f} |-> IF g = f THEN held ELSE d[g]]

\* A legacy sibling directory refuses the run or, with --overwrite, goes away
\* before the sources are even parsed.
Begin(p, overwrite, i) ==
    /\ status \in Ended
    /\ runs < MaxRuns
    /\ runs' = runs + 1
    /\ run' = [protocol |-> p, overwrite |-> overwrite, input |-> i]
    /\ overwrote' = (overwrote \/ overwrite)
    /\ step' = 0
    /\ left' = {}
    /\ sibling' = (sibling /\ ~overwrite)
    /\ status' = IF sibling' THEN "exists"
                 ELSE IF i \in Rejected THEN "rejected" ELSE "writing"
    /\ UNCHANGED disk

\* Between two steps.
Ready == status = "writing" /\ left = {}

GuardrailStops == step > 0 /\ Plan[run.protocol][step].kind = "report" /\ run.input \in Refused

Refuse ==
    /\ Ready
    /\ GuardrailStops
    /\ status' = "refused"
    /\ UNCHANGED <<disk, sibling, run, step, left, runs, overwrote>>

\* A plausible slip: files of an earlier input's slices and cores stay behind.
EnterWithoutClearing ==
    /\ Ready
    /\ ~GuardrailStops
    /\ step < Len(Plan[run.protocol])
    /\ step' = step + 1
    /\ left' = FilesOf(run, step + 1)
    /\ UNCHANGED <<disk, sibling, run, status, runs, overwrote>>

\* Going to the next step: a group's glob is cleared first (_clear_matching_outputs).
Enter ==
    /\ Ready
    /\ ~GuardrailStops
    /\ step < Len(Plan[run.protocol])
    /\ step' = step + 1
    /\ left' = FilesOf(run, step + 1)
    /\ disk' = IF run.overwrite THEN Without(disk, GlobOf(run, step + 1)) ELSE disk
    /\ UNCHANGED <<sibling, run, status, runs, overwrote>>

\* A plausible slip: only the manifest is protected.
MayWriteUnlessManifest(f) ==
    /\ run.overwrite \/ f.kind # "manifest" \/ f \notin DOMAIN disk
    /\ f.kind = "l2_shared" => run.input \notin TooWide

\* A plausible slip: the writer never replaces what is there.
MayWriteNew(f) ==
    /\ f \notin DOMAIN disk
    /\ f.kind = "l2_shared" => run.input \notin TooWide

MayWrite(f) ==
    /\ run.overwrite \/ f \notin DOMAIN disk
    /\ f.kind = "l2_shared" => run.input \notin TooWide

\* A plausible slip: a file that cannot be written is passed over.
WriteOrSkip ==
    /\ status = "writing"
    /\ \E f \in left :
           /\ disk' = IF MayWrite(f) THEN With(disk, f, run.input) ELSE disk
           /\ left' = left \ {f}
    /\ UNCHANGED <<sibling, run, step, status, runs, overwrote>>

\* Cores are written in the order of their first candidates, any order; slices
\* in ascending order, which makes no difference to what is checked.
Write ==
    /\ status = "writing"
    /\ \E f \in left :
           \/ /\ MayWrite(f)
              /\ disk' = With(disk, f, run.input)
              /\ left' = left \ {f}
              /\ UNCHANGED status
           \/ /\ ~MayWrite(f)
              /\ status' = IF ~run.overwrite /\ f \in DOMAIN disk THEN "exists" ELSE "too_wide"
              /\ left' = {}
              /\ UNCHANGED disk
    /\ UNCHANGED <<sibling, run, step, runs, overwrote>>

Finish ==
    /\ Ready
    /\ step = Len(Plan[run.protocol])
    /\ status' = "done"
    /\ UNCHANGED <<disk, sibling, run, step, left, runs, overwrote>>

\* The process dies, perhaps with a file opened and truncated.
Crash ==
    /\ status = "writing"
    /\ status' = "crashed"
    /\ left' = {}
    /\ \/ UNCHANGED disk
       \/ \E f \in left : MayWrite(f) /\ disk' = With(disk, f, Partial)
    /\ UNCHANGED <<sibling, run, step, runs, overwrote>>

Next ==
    \/ \E p \in Protocols, overwrite \in BOOLEAN, i \in Input : Begin(p, overwrite, i)
    \/ Refuse \/ Enter \/ Write \/ Finish \/ Crash

Spec == Init /\ [][Next]_vars

\* A conversion that has begun runs on by itself.
FairSpec == Spec /\ WF_vars(Refuse \/ Enter \/ Write \/ Finish)

------------------------------------------------------------------------------
(* Properties.                                                              *)

StepsOf(r) == 1 .. Len(Plan[r.protocol])

\* The subtree of r's protocol and the shared root hold r's artifacts, all of
\* them, and no file of another input, slice or core.
Holds(r) ==
    LET there == {f \in DOMAIN disk : f.dir \in {r.protocol, "root"}}
    IN  /\ there = UNION {FilesOf(r, n) : n \in StepsOf(r)}
        /\ \A f \in there : disk[f] = r.input

\* A conversion that reports success leaves exactly its own artifacts, whatever
\* earlier conversions, refusals and crashes left before it.
SuccessIsExact == status = "done" => Holds(run)

ManifestOf(p) == [dir |-> p, kind |-> "manifest", idx |-> 0]

\* As long as nobody passes --overwrite, a complete manifest vouches for its
\* subtree and for the shared root: crashes, refusals and further runs included.
ManifestVouches ==
    ~overwrote => \A p \in Protocols :
        ManifestOf(p) \in DOMAIN disk /\ disk[ManifestOf(p)] # Partial =>
            Holds([protocol |-> p, overwrite |-> FALSE, input |-> disk[ManifestOf(p)]])

\* A run without --overwrite that meets an existing file meets it at once, at
\* the legacy directory or the first file of its subtree, before writing
\* anything; the one later place is the first file of the root, which the other
\* protocol shares.
RefusedEarly ==
    status = "exists" =>
        step \in {0, 1} \/ Plan[run.protocol][step].kind = "btb_json"

\* A run without --overwrite never changes or removes a file that is there.
KeepsWithoutOverwrite ==
    [][~run'.overwrite =>
           \A f \in DOMAIN disk : f \in DOMAIN disk' /\ disk'[f] = disk[f]]_vars

\* Whatever was left behind, a run with --overwrite of an acceptable input
\* reaches the end unless it is killed.
Acceptable(r) ==
    /\ r.input \notin Rejected \cup TooWide
    /\ (\E n \in StepsOf(r) : Plan[r.protocol][n].kind = "report") => r.input \notin Refused

OverwriteRecovers ==
    (status = "writing" /\ run.overwrite /\ Acceptable(run)) ~> (status \in {"done", "crashed"})
==============================================================================
