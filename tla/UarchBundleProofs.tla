--------------------------- MODULE UarchBundleProofs ---------------------------
(***************************************************************************)
(* Proofs about UarchBundle, for any plans, inputs and number of            *)
(* conversions: what a directory holds when a conversion succeeds, what a   *)
(* manifest vouches for, and where a run without --overwrite is refused.    *)
(***************************************************************************)
EXTENDS UarchBundle, TLAPS

------------------------------------------------------------------------------
(* The invariant.                                                           *)

\* The file of place d that is written before all others there.
FirstFile(d) ==
    [dir |-> d, kind |-> IF d = "root" THEN "btb_json" ELSE Plan[d][1].kind, idx |-> 0]

\* f could be a file of step n of a conversion for p.
Fits(f, p, n) ==
    /\ f.kind = Plan[p][n].kind
    /\ f.dir = IF Plan[p][n].at = "root" THEN "root" ELSE p
    /\ Plan[p][n].form = "single" => f.idx = 0

Writing == status = "writing"

\* What the running conversion has written.
Written == {f \in File \ left : \E n \in 1 .. step : f \in FilesOf(run, n)}

Complete(p) == ManifestOf(p) \in DOMAIN disk /\ disk[ManifestOf(p)] # Partial

LeftOfStep ==
    left # {} => Writing /\ step # 0 /\ left \subseteq FilesOf(run, step)

AllFilesFit ==
    \A f \in DOMAIN disk : \E p \in Protocols : \E n \in 1 .. Len(Plan[p]) : Fits(f, p, n)

\* The first file of a place is never removed.
FirstIsThere == \A f \in DOMAIN disk : FirstFile(f.dir) \in DOMAIN disk

WrittenIsThere ==
    Writing => \A f \in Written : f \in DOMAIN disk /\ disk[f] = run.input

\* With --overwrite, what an earlier run left of a group is gone.
GroupsAreExact ==
    Writing /\ run.overwrite =>
        \A n \in 1 .. step : \A f \in DOMAIN disk :
            Fits(f, run.protocol, n) /\ Plan[run.protocol][n].form # "single" =>
                f \in FilesOf(run, n)

\* Without it, a run that has written the first file of a place has that place
\* for itself.
OnlyOurs ==
    Writing /\ ~run.overwrite =>
        \A f \in DOMAIN disk :
            f.dir \in {run.protocol, "root"} /\ FirstFile(f.dir) \in Written => f \in Written

\* As long as nobody overwrites, who has begun the root is the first to complete.
RootIsTaken ==
    ~overwrote /\ Writing =>
        \A p \in Protocols : Complete(p) /\ FirstFile("root") \in Written => p = run.protocol

OverwriteIsNoted == Writing /\ run.overwrite => overwrote

FilesInv ==
    /\ TypeOK
    /\ LeftOfStep
    /\ AllFilesFit
    /\ FirstIsThere
    /\ WrittenIsThere
    /\ GroupsAreExact
    /\ OnlyOurs

BundleInv ==
    /\ FilesInv
    /\ RootIsTaken
    /\ OverwriteIsNoted
    /\ SuccessIsExact
    /\ ManifestVouches
    /\ RefusedEarly
------------------------------------------------------------------------------
(* Facts about plans.                                                       *)

LEMMA FilesOfFit ==
  ASSUME NEW r \in Run, NEW n \in 1 .. Len(Plan[r.protocol]), NEW f \in FilesOf(r, n)
  PROVE  f \in File /\ Fits(f, r.protocol, n)
  <1> DEFINE s == Plan[r.protocol][n]
  <1>1. r.protocol \in Protocols /\ r.input \in Input
    BY DEF Run
  <1>2. n \in DOMAIN Plan[r.protocol]
    BY <1>1, PlanAssumption
  <1>3. s.kind \in Kinds
    BY <1>1, <1>2 DEF Kinds, Steps
  <1>4. Parts[r.input][s.kind] \subseteq Index /\ 0 \in Index
    BY <1>1, <1>3, InputAssumption
  <1>5. f \in [dir: {Place(r, n)}, kind: {s.kind},
               idx: IF s.form = "single" THEN {0} ELSE Parts[r.input][s.kind]]
    BY DEF FilesOf
  <1>6. Place(r, n) \in Protocols \cup {"root"}
    BY <1>1 DEF Place
  <1> HIDE DEF s
  <1>7. f \in File
    BY <1>3, <1>4, <1>5, <1>6 DEF File
  <1>8. f.kind = s.kind /\ f.dir = Place(r, n) /\ (s.form = "single" => f.idx = 0)
    BY <1>5
  <1> QED
    BY <1>7, <1>8 DEF Fits, Place, s

LEMMA SinglesAreFiles ==
  ASSUME NEW r \in Run, NEW n \in 1 .. Len(Plan[r.protocol]), NEW f \in File,
         Fits(f, r.protocol, n), Plan[r.protocol][n].form = "single"
  PROVE  FilesOf(r, n) = {f}
  <1>1. /\ f.kind = Plan[r.protocol][n].kind
        /\ f.dir = Place(r, n)
        /\ f.idx = 0
    BY DEF Fits, Place
  <1>2. f = [dir |-> f.dir, kind |-> f.kind, idx |-> f.idx]
    BY DEF File
  <1>3. FilesOf(r, n) = [dir: {f.dir}, kind: {f.kind}, idx: {f.idx}]
    BY <1>1 DEF FilesOf
  <1>4. \A g \in FilesOf(r, n) : g = [dir |-> f.dir, kind |-> f.kind, idx |-> f.idx]
    BY <1>3
  <1>5. [dir |-> f.dir, kind |-> f.kind, idx |-> f.idx] \in FilesOf(r, n)
    BY <1>3
  <1> QED
    BY <1>2, <1>4, <1>5

LEMMA StepsDiffer ==
  ASSUME NEW r \in Run, NEW m \in 1 .. Len(Plan[r.protocol]),
         NEW n \in 1 .. Len(Plan[r.protocol]), NEW f, Fits(f, r.protocol, m),
         Fits(f, r.protocol, n)
  PROVE  m = n
  BY PlanAssumption DEF Fits, Run

\* The first file of the own subtree is the first step, that of the root some step.
LEMMA FirstStep ==
  ASSUME NEW r \in Run
  PROVE  /\ 1 \in 1 .. Len(Plan[r.protocol])
         /\ FirstFile(r.protocol) \in File
         /\ FilesOf(r, 1) = {FirstFile(r.protocol)}
  <1> DEFINE p == r.protocol
  <1>1. p \in Protocols /\ p # "root" /\ 1 \in DOMAIN Plan[p] /\ 0 \in Index
    BY PlanAssumption, InputAssumption DEF Run
  <1>2. Plan[p][1].kind \in Kinds
    BY <1>1 DEF Kinds, Steps
  <1>3. FirstFile(p) \in File
    BY <1>1, <1>2 DEF FirstFile, File
  <1>4. Fits(FirstFile(p), p, 1) /\ Plan[p][1].form = "single"
    BY <1>1, PlanAssumption DEF Fits, FirstFile, IsSingle
  <1>5. 1 \in 1 .. Len(Plan[p])
    BY <1>1, PlanAssumption
  <1> QED
    BY <1>3, <1>4, <1>5, SinglesAreFiles

LEMMA FirstOfRoot ==
  ASSUME NEW r \in Run, NEW n \in 1 .. Len(Plan[r.protocol]), Plan[r.protocol][n].at = "root"
  PROVE  /\ FirstFile("root") \in File
         /\ \E m \in 1 .. n : /\ FilesOf(r, m) = {FirstFile("root")}
                              /\ Plan[r.protocol][m].kind = "btb_json"
  <1> DEFINE p == r.protocol
  <1>1. p \in Protocols /\ DOMAIN Plan[p] = 1 .. Len(Plan[p]) /\ 0 \in Index
    BY PlanAssumption, InputAssumption DEF Run
  <1>2. PICK m \in 1 .. n : IsSingle(Plan[p][m], "btb_json", "root")
    BY <1>1, RootAssumption
  <1>3. m \in 1 .. Len(Plan[p])
    BY <1>1, PlanAssumption
  <1>4. "btb_json" \in Kinds
    BY <1>1, <1>2, <1>3 DEF Kinds, Steps, IsSingle
  <1>5. FirstFile("root") \in File
    BY <1>1, <1>4 DEF FirstFile, File
  <1>6. Fits(FirstFile("root"), p, m)
    BY <1>2 DEF Fits, FirstFile, IsSingle
  <1>7. FilesOf(r, m) = {FirstFile("root")}
    BY <1>2, <1>3, <1>5, <1>6, SinglesAreFiles DEF IsSingle
  <1> QED
    BY <1>2, <1>5, <1>7 DEF IsSingle

\* No file is written before the first one of its place.
LEMMA FirstComesFirst ==
  ASSUME NEW r \in Run, NEW n \in 1 .. Len(Plan[r.protocol]), NEW f \in FilesOf(r, n)
  PROVE  /\ f.dir \in {r.protocol, "root"}
         /\ FirstFile(f.dir) \in File
         /\ \E m \in 1 .. n :
                /\ FilesOf(r, m) = {FirstFile(f.dir)}
                /\ m = 1 \/ Plan[r.protocol][m].kind = "btb_json"
  <1>1. Fits(f, r.protocol, n)
    BY FilesOfFit
  <1>2. CASE Plan[r.protocol][n].at = "root"
    BY <1>1, <1>2, FirstOfRoot DEF Fits
  <1>3. CASE Plan[r.protocol][n].at # "root"
    <2>1. f.dir = r.protocol
      BY <1>1, <1>3 DEF Fits
    <2>2. 1 \in 1 .. n
      BY PlanAssumption DEF Run
    <2> QED
      BY <2>1, <2>2, FirstStep
  <1> QED
    BY <1>2, <1>3

\* What fits a step of some plan and lies where this plan writes fits a step of it.
LEMMA FitsHere ==
  ASSUME NEW r \in Run, NEW p \in Protocols, NEW n \in 1 .. Len(Plan[p]), NEW f,
         Fits(f, p, n), f.dir \in {r.protocol, "root"}
  PROVE  \E m \in 1 .. Len(Plan[r.protocol]) :
             /\ Fits(f, r.protocol, m)
             /\ f.dir = "root" => Plan[r.protocol][m].at = "root"
  <1>1. r.protocol \in Protocols /\ r.protocol # "root" /\ p # "root"
    BY PlanAssumption DEF Run
  <1>2. CASE Plan[p][n].at # "root"
    BY <1>1, <1>2 DEF Fits
  <1>3. CASE Plan[p][n].at = "root"
    <2>1. PICK m \in DOMAIN Plan[r.protocol] :
              /\ Plan[r.protocol][m].kind = Plan[p][n].kind
              /\ Plan[r.protocol][m].at = "root"
              /\ Plan[r.protocol][m].form = Plan[p][n].form
      <3>1. n \in DOMAIN Plan[p]
        BY PlanAssumption
      <3> QED
        BY <1>1, <1>3, <3>1, RootAssumption
    <2> QED
      BY <1>1, <1>3, <2>1, PlanAssumption DEF Fits
  <1> QED
    BY <1>2, <1>3

LEMMA ManifestIsLast ==
  ASSUME NEW r \in Run
  PROVE  LET last == Len(Plan[r.protocol])
         IN  /\ last \in Nat \ {0}
             /\ FilesOf(r, last) = {ManifestOf(r.protocol)}
             /\ Fits(ManifestOf(r.protocol), r.protocol, last)
             /\ ManifestOf(r.protocol) \in File
  <1> DEFINE p == r.protocol
             last == Len(Plan[p])
             s == Plan[p][last]
  <1>1. p \in Protocols /\ last \in Nat \ {0} /\ last \in DOMAIN Plan[p] /\ 0 \in Index
    BY PlanAssumption, InputAssumption DEF Run
  <1>2. s.form = "single" /\ s.kind = "manifest" /\ s.at = "protocol"
    BY <1>1, PlanAssumption DEF IsSingle
  <1>3. "manifest" \in Kinds
    BY <1>1, <1>2 DEF Kinds, Steps
  <1>4. ManifestOf(p) \in File
    BY <1>1, <1>3 DEF ManifestOf, File
  <1>5. Fits(ManifestOf(p), p, last)
    BY <1>2 DEF Fits, ManifestOf
  <1>6. last \in 1 .. Len(Plan[p])
    BY <1>1
  <1> QED
    BY <1>1, <1>2, <1>4, <1>5, <1>6, SinglesAreFiles
------------------------------------------------------------------------------
(* What the invariant says of a conversion that writes.                     *)

LEMMA WrittenFits ==
  ASSUME TypeOK, NEW f \in Written
  PROVE  \E n \in 1 .. step : n \in 1 .. Len(Plan[run.protocol]) /\ f \in FilesOf(run, n)
                              /\ Fits(f, run.protocol, n)
  <1>1. PICK n \in 1 .. step : f \in FilesOf(run, n)
    BY DEF Written
  <1>2. n \in 1 .. Len(Plan[run.protocol])
    BY PlanAssumption DEF TypeOK, Run
  <1> QED
    BY <1>1, <1>2, FilesOfFit DEF TypeOK

\* A file about to be written is the first of its place, or that one is written.
LEMMA FirstIsWritten ==
  ASSUME TypeOK, LeftOfStep, NEW f \in left
  PROVE  /\ Writing /\ step \in 1 .. Len(Plan[run.protocol])
         /\ f \in FilesOf(run, step) /\ Fits(f, run.protocol, step) /\ f \in File
         /\ f.dir \in {run.protocol, "root"}
         /\ \/ f = FirstFile(f.dir) /\ (step = 1 \/ Plan[run.protocol][step].kind = "btb_json")
            \/ FirstFile(f.dir) \in Written
  <1>1. Writing /\ step \in 1 .. Len(Plan[run.protocol]) /\ f \in FilesOf(run, step)
    BY DEF LeftOfStep, TypeOK
  <1>2. run \in Run /\ f \in File
    BY DEF TypeOK
  <1>3. Fits(f, run.protocol, step)
    BY <1>1, <1>2, FilesOfFit
  <1>4. /\ f.dir \in {run.protocol, "root"}
        /\ FirstFile(f.dir) \in File
    BY <1>1, <1>2, FirstComesFirst
  <1>5. PICK m \in 1 .. step : /\ FilesOf(run, m) = {FirstFile(f.dir)}
                               /\ m = 1 \/ Plan[run.protocol][m].kind = "btb_json"
    BY <1>1, <1>2, FirstComesFirst
  <1>6. CASE m = step
    BY <1>1, <1>2, <1>3, <1>4, <1>5, <1>6
  <1>7. CASE m # step
    <2>1. m \in 1 .. Len(Plan[run.protocol])
      BY <1>1
    <2>2. Fits(FirstFile(f.dir), run.protocol, m)
      BY <1>2, <1>5, <2>1, FilesOfFit
    <2>3. FirstFile(f.dir) \notin FilesOf(run, step)
      BY <1>1, <1>2, <1>7, <2>1, <2>2, FilesOfFit, StepsDiffer
    <2>4. FirstFile(f.dir) \notin left
      BY <2>3 DEF LeftOfStep
    <2> QED
      BY <1>1, <1>2, <1>3, <1>4, <1>5, <2>4 DEF Written
  <1> QED
    BY <1>6, <1>7

\* Once all is written, the directory holds the conversion's files and no others.
LEMMA AllWrittenHolds ==
  FilesInv /\ Writing /\ left = {} /\ step = Len(Plan[run.protocol]) => Holds(run)
  <1> SUFFICES ASSUME FilesInv, Writing, left = {}, step = Len(Plan[run.protocol])
               PROVE  Holds(run)
    OBVIOUS
  <1> DEFINE there == {f \in DOMAIN disk : f.dir \in {run.protocol, "root"}}
             own == UNION {FilesOf(run, n) : n \in StepsOf(run)}
  <1>1. run \in Run /\ DOMAIN disk \subseteq File
    BY DEF FilesInv, TypeOK
  <1>2. ASSUME NEW f \in own
        PROVE  f \in there /\ disk[f] = run.input
    <2>1. PICK n \in 1 .. Len(Plan[run.protocol]) : f \in FilesOf(run, n)
      BY DEF StepsOf
    <2>2. f \in File /\ f.dir \in {run.protocol, "root"}
      BY <1>1, <2>1, FilesOfFit, FirstComesFirst
    <2>3. f \in Written
      BY <2>1, <2>2 DEF Written
    <2> QED
      BY <2>2, <2>3 DEF FilesInv, WrittenIsThere
  <1>3. ASSUME NEW f \in there
        PROVE  f \in own
    <2>1. PICK p \in Protocols : \E n \in 1 .. Len(Plan[p]) : Fits(f, p, n)
      BY DEF FilesInv, AllFilesFit
    <2>2. PICK n \in 1 .. Len(Plan[run.protocol]) :
              /\ Fits(f, run.protocol, n)
              /\ f.dir = "root" => Plan[run.protocol][n].at = "root"
      BY <1>1, <2>1, FitsHere
    <2>3. n \in StepsOf(run) /\ n \in 1 .. step
      BY DEF StepsOf
    <2>4. CASE run.overwrite /\ Plan[run.protocol][n].form # "single"
      <3>1. f \in FilesOf(run, n)
        BY <2>2, <2>3, <2>4 DEF FilesInv, GroupsAreExact
      <3> QED
        BY <2>3, <3>1
    <2>5. CASE Plan[run.protocol][n].form = "single"
      <3>1. FilesOf(run, n) = {f}
        BY <1>1, <2>2, <2>5, SinglesAreFiles
      <3> QED
        BY <2>3, <3>1
    <2>6. CASE ~run.overwrite
      <3>1. \E m \in StepsOf(run) : FilesOf(run, m) = {FirstFile(f.dir)}
        <4>1. CASE f.dir = "root"
          <5>1. PICK m \in 1 .. n : FilesOf(run, m) = {FirstFile("root")}
            BY <1>1, <2>2, <4>1, FirstOfRoot
          <5>2. m \in StepsOf(run)
            BY <5>1 DEF StepsOf
          <5> QED
            BY <4>1, <5>1, <5>2
        <4>2. CASE f.dir = run.protocol
          <5>1. 1 \in StepsOf(run) /\ FilesOf(run, 1) = {FirstFile(run.protocol)}
            BY <1>1, FirstStep DEF StepsOf
          <5> QED
            BY <4>2, <5>1
        <4> QED
          BY <4>1, <4>2
      <3>2. FirstFile(f.dir) \in own
        BY <3>1
      <3>3. FirstFile(f.dir) \in File
        BY <1>1, <3>2, <1>2
      <3>4. FirstFile(f.dir) \in Written
        BY <3>1, <3>3 DEF Written, StepsOf
      <3>5. f \in Written
        BY <2>6, <3>4 DEF FilesInv, OnlyOurs
      <3> QED
        BY <3>5 DEF Written, StepsOf
    <2> QED
      BY <2>4, <2>5, <2>6
  <1>4. there = own
    BY <1>2, <1>3
  <1> QED
    BY <1>2, <1>4 DEF Holds

\* A complete manifest comes with the first file of the root, if there is any.
LEMMA CompleteHasRoot ==
  ASSUME ManifestVouches, ~overwrote, NEW p \in Protocols, Complete(p),
         disk[ManifestOf(p)] \in Input,
         NEW r \in Run, NEW n \in 1 .. Len(Plan[r.protocol]), Plan[r.protocol][n].at = "root"
  PROVE  FirstFile("root") \in DOMAIN disk
  <1> DEFINE q == [protocol |-> p, overwrite |-> FALSE, input |-> disk[ManifestOf(p)]]
  <1>1. Holds(q)
    BY DEF ManifestVouches, Complete
  <1>2. q \in Run
    BY DEF Run
  <1>3. r.protocol \in Protocols /\ DOMAIN Plan[r.protocol] = 1 .. Len(Plan[r.protocol])
    BY PlanAssumption DEF Run
  <1>4. PICK m \in DOMAIN Plan[p] : Plan[p][m].at = "root"
    BY <1>3, RootAssumption
  <1>5. m \in 1 .. Len(Plan[q.protocol]) /\ Plan[q.protocol][m].at = "root"
    BY <1>4, PlanAssumption
  <1> HIDE DEF q
  <1>6. PICK k \in 1 .. m : FilesOf(q, k) = {FirstFile("root")}
    BY <1>2, <1>5, FirstOfRoot
  <1>7. k \in StepsOf(q)
    BY <1>5, <1>6 DEF StepsOf
  <1> QED
    BY <1>1, <1>6, <1>7 DEF Holds

\* A run without --overwrite never comes to write a file under a manifest.
LEMMA NoManifestBefore ==
  ASSUME FilesInv, NEW f \in left, ~run.overwrite, f \notin DOMAIN disk
  PROVE  ManifestOf(run.protocol) \notin DOMAIN disk
  <1> SUFFICES ASSUME ManifestOf(run.protocol) \in DOMAIN disk
               PROVE  FALSE
    OBVIOUS
  <1> DEFINE p == run.protocol
             last == Len(Plan[p])
  <1>1. TypeOK /\ LeftOfStep /\ run \in Run
    BY DEF FilesInv, TypeOK
  <1>2. Writing /\ step \in 1 .. last /\ f \in FilesOf(run, step)
    BY <1>1, FirstIsWritten
  <1>3. FirstFile(p) \in DOMAIN disk
    BY DEF FilesInv, FirstIsThere, ManifestOf
  <1>4. FilesOf(run, 1) = {FirstFile(p)} /\ FirstFile(p) \in File /\ 1 \in 1 .. last
    BY <1>1, FirstStep
  <1>5. step # 1
    BY <1>2, <1>3, <1>4
  <1>6. FirstFile(p) \notin FilesOf(run, step)
    BY <1>1, <1>2, <1>4, <1>5, FilesOfFit, StepsDiffer
  <1>7. FirstFile(p) \in Written
    BY <1>1, <1>2, <1>4, <1>6 DEF Written, LeftOfStep
  <1>8. ManifestOf(p) \in Written
    BY <1>2, <1>7 DEF FilesInv, OnlyOurs, ManifestOf
  <1>9. PICK n \in 1 .. step : n \in 1 .. last /\ Fits(ManifestOf(p), p, n)
    BY <1>1, <1>8, WrittenFits
  <1>10. last \in Nat \ {0} /\ Fits(ManifestOf(p), p, last) /\ FilesOf(run, last) = {ManifestOf(p)}
    BY <1>1, ManifestIsLast
  <1>11. step = last
    <2>1. last \in 1 .. last
      BY <1>10
    <2>2. n = last
      BY <1>1, <1>9, <1>10, <2>1, StepsDiffer
    <2> QED
      BY <1>2, <1>9, <2>2
  <1> QED
    BY <1>2, <1>10, <1>11
------------------------------------------------------------------------------
(* The steps.                                                               *)

LEMMA InitInv == Init => BundleInv
  <1> SUFFICES ASSUME Init
               PROVE  BundleInv
    OBVIOUS
  <1>1. Run # {}
    <2>1. PICK p \in Protocols, i \in Input : TRUE
      BY PlanAssumption, InputAssumption
    <2>2. [protocol |-> p, overwrite |-> FALSE, input |-> i] \in Run
      BY DEF Run
    <2> QED
      BY <2>2
  <1>2. run \in Run
    BY <1>1 DEF Init
  <1>3. DOMAIN disk = {} /\ left = {} /\ step = 0 /\ status = "idle" /\ runs = 0
    BY DEF Init
  <1>4. Len(Plan[run.protocol]) \in Nat
    BY <1>2, PlanAssumption DEF Run
  <1>5. TypeOK
    <2>1. step \in 0 .. Len(Plan[run.protocol]) /\ runs \in 0 .. MaxRuns
      BY <1>3, <1>4, InputAssumption
    <2>2. sibling \in BOOLEAN /\ overwrote \in BOOLEAN
      BY DEF Init
    <2> QED
      BY <1>2, <1>3, <2>1, <2>2 DEF TypeOK, Ended
  <1> QED
    BY <1>3, <1>5 DEF BundleInv, FilesInv, LeftOfStep, AllFilesFit, FirstIsThere,
       WrittenIsThere, GroupsAreExact, OnlyOurs, RootIsTaken, OverwriteIsNoted,
       SuccessIsExact, ManifestVouches, RefusedEarly, Writing

\* A step that ends the conversion and leaves the disk alone.
LEMMA EndingKeepsFiles ==
  ASSUME FilesInv, UNCHANGED <<disk, sibling, run, step, runs, overwrote>>,
         left' = {}, status' \in Ended
  PROVE  FilesInv'
  <1>1. status' # "writing"
    BY DEF Ended
  <1>2. TypeOK'
    BY DEF FilesInv, TypeOK
  <1>3. AllFilesFit' /\ FirstIsThere'
    BY DEF FilesInv, AllFilesFit, FirstIsThere
  <1> QED
    BY <1>1, <1>2, <1>3 DEF FilesInv, LeftOfStep, WrittenIsThere, GroupsAreExact, OnlyOurs,
       Writing

LEMMA BeginStep ==
  ASSUME BundleInv, NEW p \in Protocols, NEW overwrite \in BOOLEAN, NEW i \in Input,
         Begin(p, overwrite, i)
  PROVE  BundleInv'
  <1>1. /\ run' = [protocol |-> p, overwrite |-> overwrite, input |-> i]
        /\ step' = 0 /\ left' = {} /\ disk' = disk
        /\ overwrote' = (overwrote \/ overwrite)
        /\ status' \in {"exists", "rejected", "writing"}
    BY DEF Begin
  <1>2. run' \in Run /\ Len(Plan[p]) \in Nat
    BY <1>1, PlanAssumption DEF Run
  <1>3. TypeOK'
    <2>1. TypeOK
      BY DEF BundleInv, FilesInv
    <2>2. step' \in 0 .. Len(Plan[run'.protocol])
      BY <1>1, <1>2
    <2>3. runs' \in 0 .. MaxRuns /\ sibling' \in BOOLEAN
      BY <2>1, InputAssumption DEF Begin, TypeOK
    <2> QED
      BY <1>1, <1>2, <2>1, <2>2, <2>3 DEF TypeOK, Ended
  <1>4. Written' = {}
    BY <1>1 DEF Written
  <1>5. AllFilesFit' /\ FirstIsThere'
    BY <1>1 DEF BundleInv, FilesInv, AllFilesFit, FirstIsThere
  <1>6. LeftOfStep' /\ WrittenIsThere' /\ OnlyOurs' /\ RootIsTaken'
    BY <1>1, <1>4 DEF LeftOfStep, WrittenIsThere, OnlyOurs, RootIsTaken
  <1>7. GroupsAreExact'
    BY <1>1 DEF GroupsAreExact
  <1>8. OverwriteIsNoted'
    BY <1>1 DEF OverwriteIsNoted
  <1>9. SuccessIsExact' /\ RefusedEarly'
    BY <1>1 DEF SuccessIsExact, RefusedEarly
  <1>10. ManifestVouches'
    <2>1. ~overwrote' => ~overwrote
      BY <1>1
    <2> QED
      BY <1>1, <2>1 DEF BundleInv, ManifestVouches, Holds
  <1> QED
    BY <1>3, <1>5, <1>6, <1>7, <1>8, <1>9, <1>10 DEF BundleInv, FilesInv

LEMMA RefuseStep ==
  ASSUME BundleInv, Refuse
  PROVE  BundleInv'
  <1>1. /\ UNCHANGED <<disk, sibling, run, step, runs, overwrote>>
        /\ left' = {} /\ status' = "refused"
    BY DEF Refuse, Ready
  <1>2. FilesInv'
    BY <1>1, EndingKeepsFiles DEF BundleInv, Ended
  <1>3. ManifestVouches'
    BY <1>1 DEF BundleInv, ManifestVouches, Holds
  <1> QED
    BY <1>1, <1>2, <1>3 DEF BundleInv, RootIsTaken, OverwriteIsNoted, SuccessIsExact,
       RefusedEarly, Writing

LEMMA FinishStep ==
  ASSUME BundleInv, Finish
  PROVE  BundleInv'
  <1>1. /\ UNCHANGED <<disk, sibling, run, step, runs, overwrote>>
        /\ left = {} /\ left' = {} /\ status' = "done"
        /\ Writing /\ step = Len(Plan[run.protocol])
    BY DEF Finish, Ready, Writing
  <1>2. FilesInv'
    BY <1>1, EndingKeepsFiles DEF BundleInv, Ended
  <1>3. ManifestVouches'
    BY <1>1 DEF BundleInv, ManifestVouches, Holds
  <1>4. SuccessIsExact'
    <2>1. Holds(run)
      BY <1>1, AllWrittenHolds DEF BundleInv
    <2> QED
      BY <1>1, <2>1 DEF SuccessIsExact, Holds, FilesOf, Place, StepsOf
  <1> QED
    BY <1>1, <1>2, <1>3, <1>4 DEF BundleInv, RootIsTaken, OverwriteIsNoted, RefusedEarly, Writing

\* Entering a step clears at most files of that step.
LEMMA EnterStep ==
  ASSUME BundleInv, Enter
  PROVE  BundleInv'
  <1> DEFINE glob == GlobOf(run, step + 1)
             s == Plan[run.protocol][step + 1]
  <1>1. /\ UNCHANGED <<sibling, run, status, runs, overwrote>>
        /\ status = "writing" /\ left = {}
        /\ step < Len(Plan[run.protocol])
        /\ step' = step + 1 /\ left' = FilesOf(run, step + 1)
        /\ disk' = IF run.overwrite THEN Without(disk, glob) ELSE disk
    BY DEF Enter, Ready
  <1>2. TypeOK /\ run \in Run /\ Len(Plan[run.protocol]) \in Nat
    BY PlanAssumption DEF BundleInv, FilesInv, TypeOK, Run
  <1>3. step \in Nat /\ step + 1 \in 1 .. Len(Plan[run.protocol])
    BY <1>1, <1>2 DEF TypeOK
  <1> HIDE DEF glob
  <1>4. /\ DOMAIN disk' \subseteq DOMAIN disk
        /\ \A f \in DOMAIN disk' : disk'[f] = disk[f]
        /\ \A f \in DOMAIN disk : f \in DOMAIN disk' \/ (run.overwrite /\ f \in glob)
    BY <1>1 DEF Without
  <1>5. /\ \A f \in File : f \in glob => Fits(f, run.protocol, step + 1) /\ s.form # "single"
        /\ \A f \in File : Fits(f, run.protocol, step + 1) /\ s.form # "single" => f \in glob
    <2>1. CASE s.form = "single"
      BY <2>1 DEF glob, GlobOf
    <2>2. CASE s.form # "single"
      <3>1. glob = [dir: {Place(run, step + 1)}, kind: {s.kind}, idx: Index]
        BY <2>2 DEF glob, GlobOf
      <3>2. \A f \in File : f \in glob <=> f.dir = Place(run, step + 1) /\ f.kind = s.kind
        BY <3>1 DEF File
      <3> QED
        BY <2>2, <3>2 DEF Fits, Place
    <2> QED
      BY <2>1, <2>2
  <1>6. left' \subseteq File
    BY <1>1, <1>2, <1>3, FilesOfFit
  <1>7. TypeOK'
    BY <1>1, <1>2, <1>3, <1>4, <1>6 DEF TypeOK
  <1>8. LeftOfStep'
    BY <1>1, <1>3 DEF LeftOfStep, FilesOf, Place, Writing
  <1>9. AllFilesFit'
    BY <1>4 DEF BundleInv, FilesInv, AllFilesFit, Fits
  <1>10. FirstIsThere'
    <2> SUFFICES ASSUME NEW f \in DOMAIN disk'
                 PROVE  FirstFile(f.dir) \in DOMAIN disk'
      BY DEF FirstIsThere
    <2>1. f \in DOMAIN disk /\ FirstFile(f.dir) \in DOMAIN disk
      BY <1>4 DEF BundleInv, FilesInv, FirstIsThere
    <2>2. FirstFile(f.dir) \notin glob
      <3> SUFFICES ASSUME FirstFile(f.dir) \in glob
                   PROVE  FALSE
        OBVIOUS
      <3>1. Fits(FirstFile(f.dir), run.protocol, step + 1) /\ s.form # "single"
        BY <1>2, <1>5, <2>1 DEF TypeOK
      <3>2. CASE s.at = "root"
        <4>1. f.dir = "root"
          BY <3>1, <3>2 DEF Fits, FirstFile
        <4>2. PICK m \in 1 .. step + 1 : FilesOf(run, m) = {FirstFile("root")}
                                         /\ Plan[run.protocol][m].kind = "btb_json"
          BY <1>2, <1>3, <3>2, FirstOfRoot
        <4>3. m \in 1 .. Len(Plan[run.protocol])
          BY <1>3
        <4>4. m = step + 1
          BY <1>2, <1>3, <3>1, <4>1, <4>2, <4>3, FilesOfFit, StepsDiffer
        <4>5. PICK k \in 1 .. step + 1 : IsSingle(Plan[run.protocol][k], "btb_json", "root")
          BY <1>2, <1>3, <3>2, RootAssumption, PlanAssumption DEF Run
        <4>6. k = m
          BY <1>2, <1>3, <4>2, <4>3, <4>5, PlanAssumption DEF Run, IsSingle
        <4> QED
          BY <3>1, <4>4, <4>5, <4>6 DEF IsSingle
      <3>3. CASE s.at # "root"
        <4>1. f.dir = run.protocol
          BY <3>1, <3>3 DEF Fits, FirstFile
        <4>2. 1 \in 1 .. Len(Plan[run.protocol]) /\ Fits(FirstFile(f.dir), run.protocol, 1)
          BY <1>2, <4>1, FirstStep, FilesOfFit
        <4>3. step + 1 = 1
          BY <1>2, <1>3, <3>1, <4>2, StepsDiffer
        <4>4. s.form = "single"
          BY <1>2, <4>3, PlanAssumption DEF Run, IsSingle
        <4> QED
          BY <3>1, <4>4
      <3> QED
        BY <3>2, <3>3
    <2> QED
      BY <1>4, <2>1, <2>2
  <1>11. Written' = Written
    <2>1. ASSUME NEW f \in Written'
          PROVE  f \in Written
      <3>1. f \in File /\ f \notin FilesOf(run, step + 1)
        BY <1>1, <2>1 DEF Written
      <3>2. PICK n \in 1 .. step + 1 : f \in FilesOf(run, n)
        BY <1>1, <2>1 DEF Written, FilesOf, Place
      <3>3. n \in 1 .. step
        BY <1>3, <3>1, <3>2
      <3> QED
        BY <1>1, <3>1, <3>2, <3>3 DEF Written
    <2>2. ASSUME NEW f \in Written
          PROVE  f \in Written'
      <3>1. PICK n \in 1 .. step : n \in 1 .. Len(Plan[run.protocol]) /\ f \in FilesOf(run, n)
                                   /\ Fits(f, run.protocol, n)
        BY <1>2, WrittenFits
      <3>2. f \notin FilesOf(run, step + 1)
        <4> SUFFICES ASSUME f \in FilesOf(run, step + 1)
                     PROVE  FALSE
          OBVIOUS
        <4>1. Fits(f, run.protocol, step + 1)
          BY <1>2, <1>3, FilesOfFit
        <4>2. n = step + 1
          BY <1>2, <1>3, <3>1, <4>1, StepsDiffer
        <4> QED
          BY <1>3, <4>2
      <3>3. n \in 1 .. step' /\ f \in FilesOf(run', n) /\ f \in File \ left'
        BY <1>1, <1>3, <3>1, <3>2 DEF Written
      <3> QED
        BY <3>3 DEF Written
    <2> QED
      BY <2>1, <2>2
  <1>12. \A f \in Written : f \in DOMAIN disk' /\ disk'[f] = run.input
    <2> SUFFICES ASSUME NEW f \in Written
                 PROVE  f \in DOMAIN disk' /\ disk'[f] = run.input
      OBVIOUS
    <2>1. f \in DOMAIN disk /\ disk[f] = run.input
      BY <1>1 DEF BundleInv, FilesInv, WrittenIsThere, Writing
    <2>2. PICK n \in 1 .. step : n \in 1 .. Len(Plan[run.protocol]) /\ Fits(f, run.protocol, n)
      BY <1>2, WrittenFits
    <2>3. f \in File /\ n # step + 1
      BY <1>3 DEF Written
    <2>4. f \notin glob
      BY <1>2, <1>3, <1>5, <2>2, <2>3, StepsDiffer
    <2> QED
      BY <1>4, <2>1, <2>4
  <1>13. WrittenIsThere'
    BY <1>1, <1>11, <1>12 DEF WrittenIsThere
  <1>14. GroupsAreExact'
    <2> SUFFICES ASSUME run.overwrite, NEW n \in 1 .. step + 1, NEW f \in DOMAIN disk',
                        Fits(f, run.protocol, n), Plan[run.protocol][n].form # "single"
                 PROVE  f \in FilesOf(run, n)
      BY <1>1 DEF GroupsAreExact, Fits, FilesOf, Place
    <2>1. CASE n = step + 1
      <3>1. f \in glob
        BY <1>2, <1>4, <1>5, <2>1 DEF TypeOK
      <3>2. disk' = Without(disk, glob)
        BY <1>1
      <3> QED
        BY <3>1, <3>2 DEF Without
    <2>2. CASE n # step + 1
      <3>1. n \in 1 .. step
        BY <1>3, <2>2
      <3> QED
        BY <1>1, <1>4, <3>1 DEF BundleInv, FilesInv, GroupsAreExact, Writing
    <2> QED
      BY <2>1, <2>2
  <1>15. OnlyOurs'
    BY <1>1, <1>11 DEF BundleInv, FilesInv, OnlyOurs, Writing
  <1>16. FilesInv'
    BY <1>7, <1>8, <1>9, <1>10, <1>13, <1>14, <1>15 DEF FilesInv
  <1>17. ManifestVouches' /\ RootIsTaken'
    <2> SUFFICES ASSUME ~overwrote
                 PROVE  ManifestVouches' /\ RootIsTaken'
      BY <1>1 DEF ManifestVouches, RootIsTaken
    <2>1. disk' = disk
      BY <1>1 DEF BundleInv, OverwriteIsNoted, Writing
    <2> QED
      BY <1>1, <1>11, <2>1 DEF BundleInv, ManifestVouches, RootIsTaken, Holds, Complete, Writing
  <1>18. OverwriteIsNoted' /\ SuccessIsExact' /\ RefusedEarly'
    BY <1>1 DEF BundleInv, OverwriteIsNoted, SuccessIsExact, RefusedEarly, Writing
  <1> QED
    BY <1>16, <1>17, <1>18 DEF BundleInv

\* What a new file does to the disk, complete or cut off.
LEMMA NewFile ==
  ASSUME FilesInv, NEW f \in left, NEW held \in Input \cup {Partial},
         disk' = With(disk, f, held)
  PROVE  /\ DOMAIN disk' = DOMAIN disk \cup {f}
         /\ disk'[f] = held
         /\ \A g \in DOMAIN disk : g # f => disk'[g] = disk[g]
         /\ DOMAIN disk' \subseteq File
         /\ \A g \in DOMAIN disk' : disk'[g] \in Input \cup {Partial}
         /\ AllFilesFit' /\ FirstIsThere'
  <1>1. TypeOK /\ LeftOfStep /\ run.protocol \in Protocols
    BY DEF FilesInv, TypeOK, Run
  <1>2. /\ DOMAIN disk' = DOMAIN disk \cup {f}
        /\ disk'[f] = held
        /\ \A g \in DOMAIN disk : g # f => disk'[g] = disk[g]
    BY DEF With
  <1>3. /\ DOMAIN disk' \subseteq File
        /\ \A g \in DOMAIN disk' : disk'[g] \in Input \cup {Partial}
    BY <1>1, <1>2 DEF TypeOK
  <1>4. /\ Writing /\ step \in 1 .. Len(Plan[run.protocol]) /\ Fits(f, run.protocol, step)
        /\ f = FirstFile(f.dir) \/ FirstFile(f.dir) \in Written
    BY <1>1, FirstIsWritten
  <1>5. AllFilesFit'
    BY <1>1, <1>2, <1>4 DEF FilesInv, AllFilesFit, Fits
  <1>6. FirstFile(f.dir) \in DOMAIN disk'
    BY <1>2, <1>4 DEF FilesInv, WrittenIsThere
  <1>7. FirstIsThere'
    BY <1>2, <1>6 DEF FilesInv, FirstIsThere, FirstFile
  <1> QED
    BY <1>2, <1>3, <1>5, <1>7

\* As long as nobody overwrites, nothing is added to what a complete manifest of
\* the other protocol vouches for.
LEMMA OthersAreLeftAlone ==
  ASSUME BundleInv, NEW f \in left, ~overwrote, f \notin DOMAIN disk,
         NEW p \in Protocols, p # run.protocol, Complete(p)
  PROVE  f.dir \notin {p, "root"}
  <1>1. TypeOK /\ LeftOfStep /\ run \in Run
    BY DEF BundleInv, FilesInv, TypeOK
  <1>2. /\ Writing /\ step \in 1 .. Len(Plan[run.protocol]) /\ Fits(f, run.protocol, step)
        /\ f.dir \in {run.protocol, "root"}
        /\ f = FirstFile(f.dir) \/ FirstFile(f.dir) \in Written
    BY <1>1, FirstIsWritten
  <1>3. p # "root" /\ run.protocol # "root"
    BY <1>1, PlanAssumption DEF Run
  <1>4. ASSUME f.dir = "root"
        PROVE  FALSE
    <2>1. Plan[run.protocol][step].at = "root"
      BY <1>2, <1>3, <1>4 DEF Fits
    <2>2. disk[ManifestOf(p)] \in Input
      BY <1>1 DEF Complete, TypeOK
    <2>3. FirstFile("root") \in DOMAIN disk
      BY <1>1, <1>2, <2>1, <2>2, CompleteHasRoot DEF BundleInv
    <2>4. FirstFile("root") \in Written
      BY <1>2, <1>4, <2>3
    <2> QED
      BY <1>2, <2>4 DEF BundleInv, RootIsTaken
  <1> QED
    BY <1>2, <1>3, <1>4

LEMMA OthersStayVouched ==
  ASSUME BundleInv, NEW f \in left, NEW held \in Input \cup {Partial},
         disk' = With(disk, f, held), ~overwrote, f \notin DOMAIN disk,
         NEW p \in Protocols, p # run.protocol, Complete(p)'
  PROVE  /\ Complete(p)
         /\ Holds([protocol |-> p, overwrite |-> FALSE, input |-> disk[ManifestOf(p)]])'
  <1> DEFINE q == [protocol |-> p, overwrite |-> FALSE, input |-> disk[ManifestOf(p)]]
  <1>1. TypeOK /\ LeftOfStep /\ run \in Run /\ p # "root"
    BY PlanAssumption DEF BundleInv, FilesInv, TypeOK
  <1>2. f.dir \in {run.protocol, "root"}
    BY <1>1, FirstIsWritten
  <1>3. f # ManifestOf(p)
    BY <1>1, <1>2 DEF ManifestOf
  <1>4. /\ DOMAIN disk' = DOMAIN disk \cup {f}
        /\ \A g \in DOMAIN disk : g # f => disk'[g] = disk[g]
    BY NewFile DEF BundleInv
  <1>5. Complete(p) /\ disk'[ManifestOf(p)] = disk[ManifestOf(p)]
    BY <1>3, <1>4 DEF Complete, ManifestOf
  <1>6. f.dir \notin {p, "root"}
    BY <1>5, OthersAreLeftAlone
  <1>7. Holds(q)
    BY <1>5 DEF BundleInv, ManifestVouches, Complete
  <1>8. {g \in DOMAIN disk' : g.dir \in {p, "root"}} = {g \in DOMAIN disk : g.dir \in {p, "root"}}
    BY <1>4, <1>6
  <1>9. \A g \in DOMAIN disk : g.dir \in {p, "root"} => disk'[g] = disk[g]
    BY <1>4, <1>6
  <1> QED
    BY <1>5, <1>7, <1>8, <1>9 DEF Holds, StepsOf, FilesOf, Place

\* Without --overwrite, a file in the way is the first of its place.
LEMMA MetEarly ==
  ASSUME FilesInv, NEW f \in left, ~run.overwrite, f \in DOMAIN disk
  PROVE  step = 1 \/ Plan[run.protocol][step].kind = "btb_json"
  <1>1. TypeOK /\ LeftOfStep
    BY DEF FilesInv
  <1>2. /\ Writing /\ f.dir \in {run.protocol, "root"}
        /\ \/ f = FirstFile(f.dir) /\ (step = 1 \/ Plan[run.protocol][step].kind = "btb_json")
           \/ FirstFile(f.dir) \in Written
    BY <1>1, FirstIsWritten
  <1>3. FirstFile(f.dir) \in Written => f \in Written
    BY <1>2 DEF FilesInv, OnlyOurs
  <1> QED
    BY <1>2, <1>3 DEF Written

\* The step that writes f.
LEMMA OneWritten ==
  ASSUME BundleInv, NEW f \in left, MayWrite(f), disk' = With(disk, f, run.input),
         left' = left \ {f}, UNCHANGED <<sibling, run, step, status, runs, overwrote>>
  PROVE  BundleInv'
  <1>1. TypeOK /\ LeftOfStep /\ run \in Run /\ run.input \in Input
    BY DEF BundleInv, FilesInv, TypeOK, Run
  <1>2. /\ Writing /\ step \in 1 .. Len(Plan[run.protocol])
        /\ f \in FilesOf(run, step) /\ Fits(f, run.protocol, step) /\ f \in File
        /\ f.dir \in {run.protocol, "root"}
        /\ f = FirstFile(f.dir) \/ FirstFile(f.dir) \in Written
    BY <1>1, FirstIsWritten
  <1>3. /\ DOMAIN disk' = DOMAIN disk \cup {f}
        /\ disk'[f] = run.input
        /\ \A g \in DOMAIN disk : g # f => disk'[g] = disk[g]
        /\ DOMAIN disk' \subseteq File
        /\ \A g \in DOMAIN disk' : disk'[g] \in Input \cup {Partial}
        /\ AllFilesFit' /\ FirstIsThere'
    BY <1>1, NewFile DEF BundleInv
  <1>4. TypeOK'
    BY <1>1, <1>3 DEF TypeOK
  <1>5. LeftOfStep'
    BY <1>1, <1>2 DEF LeftOfStep, FilesOf, Place, Writing
  <1>6. Written' = Written \cup {f}
    <2>1. \A g : g \in Written' <=>
              g \in File /\ g \notin left' /\ \E n \in 1 .. step : g \in FilesOf(run, n)
      BY DEF Written, FilesOf, Place
    <2>2. f \in Written'
      BY <1>2, <2>1
    <2> QED
      BY <2>1, <2>2 DEF Written
  <1>7. WrittenIsThere'
    BY <1>2, <1>3, <1>6 DEF BundleInv, FilesInv, WrittenIsThere
  <1>8. GroupsAreExact'
    <2> SUFFICES ASSUME run.overwrite, NEW n \in 1 .. step, NEW g \in DOMAIN disk',
                        Fits(g, run.protocol, n), Plan[run.protocol][n].form # "single"
                 PROVE  g \in FilesOf(run, n)
      BY DEF GroupsAreExact, Fits, FilesOf, Place
    <2>1. CASE g = f
      <3>1. n \in 1 .. Len(Plan[run.protocol])
        BY <1>2
      <3>2. n = step
        BY <1>1, <1>2, <2>1, <3>1, StepsDiffer
      <3> QED
        BY <1>2, <2>1, <3>2
    <2>2. CASE g # f
      BY <1>2, <1>3, <2>2 DEF BundleInv, FilesInv, GroupsAreExact
    <2> QED
      BY <2>1, <2>2
  <1>9. OnlyOurs'
    <2> SUFFICES ASSUME ~run.overwrite, NEW g \in DOMAIN disk',
                        g.dir \in {run.protocol, "root"}, FirstFile(g.dir) \in Written'
                 PROVE  g \in Written'
      BY DEF OnlyOurs, FirstFile
    <2>1. f \notin DOMAIN disk
      BY DEF MayWrite
    <2>2. CASE FirstFile(g.dir) \in Written
      BY <1>2, <1>3, <1>6, <2>2 DEF BundleInv, FilesInv, OnlyOurs
    <2>3. CASE FirstFile(g.dir) = f
      <3>1. g \notin DOMAIN disk
        BY <2>1, <2>3 DEF BundleInv, FilesInv, FirstIsThere
      <3> QED
        BY <1>3, <1>6, <3>1
    <2> QED
      BY <1>6, <2>2, <2>3
  <1>10. FilesInv'
    BY <1>3, <1>4, <1>5, <1>7, <1>8, <1>9 DEF FilesInv
  <1>11. ASSUME ~overwrote
         PROVE  /\ ~run.overwrite /\ f \notin DOMAIN disk
                /\ ManifestOf(run.protocol) \notin DOMAIN disk
    <2>1. ~run.overwrite
      BY <1>2, <1>11 DEF BundleInv, OverwriteIsNoted
    <2>2. f \notin DOMAIN disk
      BY <2>1 DEF MayWrite
    <2> QED
      BY <2>1, <2>2, NoManifestBefore DEF BundleInv
  <1>12. RootIsTaken'
    <2> SUFFICES ASSUME ~overwrote, NEW p \in Protocols, p # run.protocol, Complete(p)',
                        FirstFile("root") \in Written'
                 PROVE  FALSE
      BY DEF RootIsTaken, FirstFile
    <2>1. Complete(p)
      BY <1>1, <1>11, OthersStayVouched
    <2>2. f.dir # "root"
      BY <1>11, <2>1, OthersAreLeftAlone
    <2>3. FirstFile("root") \in Written
      BY <1>6, <2>2 DEF FirstFile
    <2> QED
      BY <1>2, <2>1, <2>3 DEF BundleInv, RootIsTaken
  <1>13. ManifestVouches'
    <2> SUFFICES ASSUME ~overwrote, NEW p \in Protocols, Complete(p)'
                 PROVE  Holds([protocol |-> p, overwrite |-> FALSE,
                               input |-> disk[ManifestOf(p)]])'
      BY DEF ManifestVouches, Complete
    <2>1. CASE p # run.protocol
      BY <1>1, <1>11, <2>1, OthersStayVouched
    <2>2. CASE p = run.protocol
      <3> DEFINE last == Len(Plan[run.protocol])
      <3>1. f = ManifestOf(p)
        BY <1>3, <1>11, <2>2 DEF Complete, ManifestOf
      <3>2. last \in Nat \ {0} /\ Fits(f, run.protocol, last) /\ FilesOf(run, last) = {f}
        BY <1>1, <2>2, <3>1, ManifestIsLast
      <3>3. last \in 1 .. last
        BY <3>2
      <3>4. step = last
        BY <1>1, <1>2, <3>2, <3>3, StepsDiffer
      <3>5. left' = {}
        BY <1>1, <3>2, <3>4 DEF LeftOfStep
      <3>6. (FilesInv /\ Writing /\ left = {} /\ step = Len(Plan[run.protocol]) => Holds(run))'
        BY AllWrittenHolds, PTL
      <3>7. Holds(run)'
        BY <1>2, <1>10, <3>4, <3>5, <3>6 DEF Writing
      <3>8. disk'[ManifestOf(p)] = run'.input /\ run'.protocol = p
        BY <1>3, <2>2, <3>1 DEF ManifestOf
      <3> QED
        BY <3>7, <3>8 DEF Holds, StepsOf, FilesOf, Place, ManifestOf
    <2> QED
      BY <2>1, <2>2
  <1>14. OverwriteIsNoted' /\ SuccessIsExact' /\ RefusedEarly'
    BY <1>2 DEF BundleInv, OverwriteIsNoted, SuccessIsExact, RefusedEarly, Writing
  <1> QED
    BY <1>10, <1>12, <1>13, <1>14 DEF BundleInv

LEMMA WriteStep ==
  ASSUME BundleInv, Write
  PROVE  BundleInv'
  <1>1. PICK f \in left :
           \/ /\ MayWrite(f)
              /\ disk' = With(disk, f, run.input)
              /\ left' = left \ {f}
              /\ UNCHANGED status
           \/ /\ ~MayWrite(f)
              /\ status' = IF ~run.overwrite /\ f \in DOMAIN disk THEN "exists" ELSE "too_wide"
              /\ left' = {}
              /\ UNCHANGED disk
    BY DEF Write
  <1>2. UNCHANGED <<sibling, run, step, runs, overwrote>>
    BY DEF Write
  <1>3. CASE MayWrite(f)
    BY <1>1, <1>2, <1>3, OneWritten
  <1>4. CASE ~MayWrite(f)
    <2>1. /\ status' = IF ~run.overwrite /\ f \in DOMAIN disk THEN "exists" ELSE "too_wide"
          /\ left' = {} /\ disk' = disk
      BY <1>1, <1>4
    <2>2. FilesInv'
      BY <1>2, <2>1, EndingKeepsFiles DEF BundleInv, Ended
    <2>3. ManifestVouches'
      BY <1>2, <2>1 DEF BundleInv, ManifestVouches, Holds
    <2>4. RefusedEarly'
      BY <1>2, <2>1, MetEarly DEF BundleInv, RefusedEarly
    <2> QED
      BY <2>1, <2>2, <2>3, <2>4 DEF BundleInv, RootIsTaken, OverwriteIsNoted, SuccessIsExact,
         Writing
  <1> QED
    BY <1>3, <1>4

LEMMA CrashStep ==
  ASSUME BundleInv, Crash
  PROVE  BundleInv'
  <1>1. /\ UNCHANGED <<sibling, run, step, runs, overwrote>>
        /\ status' = "crashed" /\ left' = {}
    BY DEF Crash
  <1>2. CASE disk' = disk
    <2>1. FilesInv'
      BY <1>1, <1>2, EndingKeepsFiles DEF BundleInv, Ended
    <2>2. ManifestVouches'
      BY <1>1, <1>2 DEF BundleInv, ManifestVouches, Holds
    <2> QED
      BY <1>1, <2>1, <2>2 DEF BundleInv, RootIsTaken, OverwriteIsNoted, SuccessIsExact,
         RefusedEarly, Writing
  <1>3. ASSUME NEW f \in left, MayWrite(f), disk' = With(disk, f, Partial)
        PROVE  BundleInv'
    <2>1. /\ DOMAIN disk' = DOMAIN disk \cup {f}
          /\ disk'[f] = Partial
          /\ DOMAIN disk' \subseteq File
          /\ \A g \in DOMAIN disk' : disk'[g] \in Input \cup {Partial}
          /\ AllFilesFit' /\ FirstIsThere'
      BY <1>3, NewFile DEF BundleInv
    <2>2. TypeOK'
      BY <1>1, <2>1 DEF BundleInv, FilesInv, TypeOK, Ended
    <2>3. FilesInv'
      BY <1>1, <2>1, <2>2 DEF FilesInv, LeftOfStep, WrittenIsThere, GroupsAreExact, OnlyOurs,
         Writing
    <2>4. ManifestVouches'
      <3> SUFFICES ASSUME ~overwrote, NEW p \in Protocols, Complete(p)'
                   PROVE  Holds([protocol |-> p, overwrite |-> FALSE,
                                 input |-> disk[ManifestOf(p)]])'
        BY <1>1 DEF ManifestVouches, Complete
      <3>1. Writing
        BY DEF Crash, Writing
      <3>2. ~run.overwrite /\ f \notin DOMAIN disk
        BY <1>3, <3>1 DEF BundleInv, OverwriteIsNoted, MayWrite
      <3>3. ManifestOf(run.protocol) \notin DOMAIN disk
        BY <3>2, NoManifestBefore DEF BundleInv
      <3>4. p # run.protocol
        BY <2>1, <3>3 DEF Complete, ManifestOf
      <3> QED
        BY <1>3, <3>2, <3>4, OthersStayVouched
    <2> QED
      BY <1>1, <2>3, <2>4 DEF BundleInv, RootIsTaken, OverwriteIsNoted, SuccessIsExact,
         RefusedEarly, Writing
  <1> QED
    BY <1>2, <1>3 DEF Crash

------------------------------------------------------------------------------
(* The theorems.                                                            *)

\* The inductive invariant: what is written is there and of this input, what an
\* earlier run left of a group is cleared or absent, and the first file of a place
\* stands for the place.
THEOREM BundleInvariant == Spec => []BundleInv
<1>1. Init => BundleInv
  BY InitInv
<1>2. BundleInv /\ [Next]_vars => BundleInv'
  <2> SUFFICES ASSUME BundleInv, [Next]_vars
               PROVE  BundleInv'
    OBVIOUS
  <2>1. ASSUME NEW p \in Protocols, NEW overwrite \in BOOLEAN, NEW i \in Input,
               Begin(p, overwrite, i)
        PROVE  BundleInv'
    BY <2>1, BeginStep
  <2>2. CASE Refuse
    BY <2>2, RefuseStep
  <2>3. CASE Enter
    BY <2>3, EnterStep
  <2>4. CASE Write
    BY <2>4, WriteStep
  <2>5. CASE Finish
    BY <2>5, FinishStep
  <2>6. CASE Crash
    BY <2>6, CrashStep
  <2>7. CASE UNCHANGED vars
    <3>1. UNCHANGED <<disk, sibling, run, step, left, status, runs, overwrote>>
      BY <2>7 DEF vars
    <3>2. Written' = Written
      BY <3>1 DEF Written, FilesOf, Place
    <3>3. FilesInv'
      BY <3>1, <3>2 DEF BundleInv, FilesInv, TypeOK, LeftOfStep, AllFilesFit, FirstIsThere,
         WrittenIsThere, GroupsAreExact, OnlyOurs, Writing, FilesOf, Place, Fits, FirstFile
    <3>4. RootIsTaken' /\ OverwriteIsNoted' /\ RefusedEarly'
      BY <3>1, <3>2 DEF BundleInv, RootIsTaken, OverwriteIsNoted, RefusedEarly, Complete, Writing
    <3>5. SuccessIsExact' /\ ManifestVouches'
      BY <3>1 DEF BundleInv, SuccessIsExact, ManifestVouches, Holds, FilesOf, Place, StepsOf
    <3> QED
      BY <3>3, <3>4, <3>5 DEF BundleInv
  <2> QED
    BY <2>1, <2>2, <2>3, <2>4, <2>5, <2>6, <2>7 DEF Next
<1> QED
  BY <1>1, <1>2, PTL DEF Spec

\* Type correctness for any plans and inputs.
THEOREM BundleTypes == Spec => []TypeOK
<1>1. BundleInv => TypeOK
  BY DEF BundleInv, FilesInv
<1> QED
  BY <1>1, BundleInvariant, PTL

\* A conversion that reports success leaves exactly its own artifacts, whatever was
\* in the directory (prepare_snapshot_gem5_uarch).
THEOREM SuccessMeansExact == Spec => []SuccessIsExact
<1>1. BundleInv => SuccessIsExact
  BY DEF BundleInv
<1> QED
  BY <1>1, BundleInvariant, PTL

\* Without --overwrite a complete manifest vouches for its subtree and the root, through
\* any crashes, refusals and further conversions.
THEOREM ManifestsVouch == Spec => []ManifestVouches
<1>1. BundleInv => ManifestVouches
  BY DEF BundleInv
<1> QED
  BY <1>1, BundleInvariant, PTL

\* A run refused for an existing file is refused at the first file of a place
\* (_write_json_file and the other writers, which test path.exists()).
THEOREM RefusalsAreEarly == Spec => []RefusedEarly
<1>1. BundleInv => RefusedEarly
  BY DEF BundleInv
<1> QED
  BY <1>1, BundleInvariant, PTL

\* A run without --overwrite changes and removes nothing that is there.
THEOREM NothingIsReplaced == Spec => KeepsWithoutOverwrite
<1>1. [Next]_vars =>
          [~run'.overwrite =>
              \A f \in DOMAIN disk : f \in DOMAIN disk' /\ disk'[f] = disk[f]]_vars
  <2> SUFFICES ASSUME [Next]_vars, ~run'.overwrite, NEW f \in DOMAIN disk
               PROVE  f \in DOMAIN disk' /\ disk'[f] = disk[f]
    OBVIOUS
  <2>1. CASE disk' = disk
    BY <2>1
  <2>2. CASE Enter
    BY <2>2 DEF Enter
  <2>3. ASSUME NEW g \in left, NEW held, MayWrite(g), disk' = With(disk, g, held), run' = run
        PROVE  f \in DOMAIN disk' /\ disk'[f] = disk[f]
    BY <2>3 DEF MayWrite, With
  <2>4. CASE Write
    BY <2>1, <2>3, <2>4 DEF Write
  <2>5. CASE Crash
    BY <2>1, <2>3, <2>5 DEF Crash
  <2> QED
    BY <2>1, <2>2, <2>4, <2>5 DEF Next, vars, Begin, Refuse, Finish
<1> QED
  BY <1>1, PTL DEF Spec, KeepsWithoutOverwrite
===============================================================================
