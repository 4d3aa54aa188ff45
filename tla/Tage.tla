--------------------------------- MODULE Tage ---------------------------------
(***************************************************************************)
(* The TAGE branch predictor of                                             *)
(* scripts/validation/common/wormcache_tage_model.hpp, driven as in         *)
(* simulate_wormcache_tage.cpp: a conditional branch is predicted and       *)
(* trained, any other branch only enters the history.  The table sizes of   *)
(* the header are parameters.                                               *)
(*                                                                          *)
(* What the header shifts and masks is a word of bits here, bit 0 the       *)
(* lowest: histories, folds, indices, tags, the random seed, and the        *)
(* branch addresses, which are given without their two low bits.            *)
(***************************************************************************)
EXTENDS Integers, Sequences, FiniteSets

CONSTANTS
    NumTables,      \* kNumHistoryTables; table 0 has the longest history
    HistoryLength,  \* kHistoryLengths, HistoryLength[b + 1] for table b
    MaxHistory,     \* kMaxHistoryBits
    LogEntries,     \* kLogGlobalTableEntries
    LogBimodal,     \* kLogBimodalEntries
    TagBits,        \* kTagBits
    PathBits,       \* width of path_history, 16 in the header
    Period,         \* usefulness bits age every Period branches, 2^18 in the header
    PcBits,         \* width of a shifted branch address
    Pc,             \* the branch addresses that occur
    MaxBranches     \* bound on the length of a run

Bank == 0 .. NumTables - 1
NoBank == NumTables

\* The words of n bits.
Words(n) == [0 .. n - 1 -> {0, 1}]
Zero(n) == [i \in 0 .. n - 1 |-> 0]

ASSUME TageAssumption ==
    /\ {NumTables, MaxHistory, LogEntries, PathBits, Period, PcBits} \subseteq Nat \ {0}
    /\ {LogBimodal, TagBits, MaxBranches} \subseteq Nat
    /\ LogEntries >= NumTables - 1 /\ PathBits <= 2 * LogEntries
    /\ Len(HistoryLength) = NumTables
    /\ \A b \in Bank : HistoryLength[b + 1] \in 1 .. MaxHistory - 1
    /\ \A b \in Bank : TagBits > ((b + (NumTables % 2)) \div 2) + 1
    /\ Pc \subseteq Words(PcBits)

VARIABLES
    ghist,      \* outcomes, ghist[0] the latest
    path,       \* path_history
    chI,        \* folded histories of the index
    chT,        \* folded histories of the tag, two per table
    gtable,
    btable,
    seed,
    tick,
    branches,   \* branches so far
    bimodal     \* BimodalBaseline, trained beside it

vars == <<ghist, path, chI, chT, gtable, btable, seed, tick, branches, bimodal>>

Bit(taken) == IF taken THEN 1 ELSE 0

\* Bits k to k + n - 1 of x as a word, 0 where x has none: x >> k, or x << -k, masked.
Bits(x, k, n) == [i \in 0 .. n - 1 |-> IF i + k \in DOMAIN x THEN x[i + k] ELSE 0]

\* (x << 1) | bit, masked to n bits.
ShiftIn(x, bit, n) == [i \in 0 .. n - 1 |-> IF i = 0 THEN bit ELSE x[i - 1]]

\* Exclusive or.
Mix(x, y) == [i \in DOMAIN x |-> (x[i] + y[i]) % 2]

------------------------------------------------------------------------------
(* Folded histories.                                                        *)

OLength(b) == HistoryLength[b + 1]
ILength == LogEntries
TLength(k, b) == TagBits - ((b + (NumTables % 2)) \div 2) - k

\* A plausible slip: the bit that leaves the history is looked up one too early.
FoldUpdateEarly(comp, h, olen, clen) ==
    LET shifted == ShiftIn(comp, h[0], clen + 1)
        left == [shifted EXCEPT ![olen % clen] = (@ + h[olen - 1]) % 2]
    IN  Mix(Bits(left, 0, clen), Bits(left, clen, clen))

\* FoldedHistory::update, after the new outcome has entered the history.
FoldUpdate(comp, h, olen, clen) ==
    LET shifted == ShiftIn(comp, h[0], clen + 1)
        left == [shifted EXCEPT ![olen % clen] = (@ + h[olen]) % 2]
    IN  Mix(Bits(left, 0, clen), Bits(left, clen, clen))

\* updateHistory
Remember(pc, taken) ==
    LET h == ShiftIn(ghist, Bit(taken), MaxHistory)
    IN  /\ ghist' = h
        /\ path' = ShiftIn(path, pc[0], PathBits)
        /\ chI' = [b \in Bank |-> FoldUpdate(chI[b], h, OLength(b), ILength)]
        /\ chT' = [k \in {0, 1} |-> [b \in Bank |->
                      FoldUpdate(chT[k][b], h, OLength(b), TLength(k, b))]]

------------------------------------------------------------------------------
(* Prediction.                                                              *)

\* A word of an index rotated by b places.
Rotated(a, b) == [i \in 0 .. LogEntries - 1 |-> a[(i - b) % LogEntries]]

\* mixPath: path history of a given size hashed for table b.
MixPath(b, size) ==
    LET a == Bits(path, 0, size)
    IN  Rotated(Mix(Bits(a, 0, LogEntries), Rotated(Bits(a, LogEntries, LogEntries), b)), b)

ComputeIndex(pc, b) ==
    LET size == IF OLength(b) >= PathBits THEN PathBits ELSE OLength(b)
        folded == Mix(Bits(pc, 0, LogEntries),
                      Bits(pc, LogEntries - NumTables + b + 1, LogEntries))
    IN  Mix(Mix(folded, chI[b]), MixPath(b, size))

ComputeTag(pc, b) ==
    Mix(Mix(Bits(pc, 0, TLength(0, b)), chT[0][b]), Bits(chT[1][b], -1, TLength(0, b)))

BimodalIndex(pc) == Bits(pc, 0, LogBimodal)

EntryFor(pc, b) == gtable[b][ComputeIndex(pc, b)]

\* The first table from b on whose entry for pc has the tag, or NoBank.
FirstHit(pc, b) ==
    LET hits == {x \in Bank : x >= b /\ EntryFor(pc, x).tag = ComputeTag(pc, x)}
    IN  IF hits = {} THEN NoBank ELSE CHOOSE x \in hits : \A y \in hits : x <= y

\* isConditionalTaken
Prediction(pc) ==
    LET provider == FirstHit(pc, 0)
        other == FirstHit(pc, provider + 1)
        base == btable[BimodalIndex(pc)].pred > 0
        from(b) == IF b = NoBank THEN base ELSE EntryFor(pc, b).ctr >= 0
    IN  [result |-> from(provider), bank |-> provider, alternate |-> from(other)]

------------------------------------------------------------------------------
(* Training.                                                                *)

Counter == -4 .. 3

\* A plausible slip: the counter stops one beyond its least value.
UpdateCounterOneBelow(n, taken) ==
    IF taken THEN (IF n < 3 THEN n + 1 ELSE n) ELSE (IF n >= -4 THEN n - 1 ELSE n)

UpdateCounter(n, taken) ==
    IF taken THEN (IF n < 3 THEN n + 1 ELSE n) ELSE (IF n > -4 THEN n - 1 ELSE n)

\* A plausible slip: a right prediction of taken no longer strengthens the entry.
UpdateBimodalKeeping(e, predicted, taken) ==
    IF predicted = taken
    THEN [e EXCEPT !.hyst = IF ~taken /\ e.pred = 0 THEN 0 ELSE @]
    ELSE LET inter == (2 * e.pred) + e.hyst
             moved == IF taken THEN (IF inter < 3 THEN inter + 1 ELSE inter)
                      ELSE (IF inter > 0 THEN inter - 1 ELSE inter)
         IN  [pred |-> moved \div 2, hyst |-> moved % 2]

\* updateBimodalEntry: pred and hyst are the two bits of one counter.
UpdateBimodal(e, predicted, taken) ==
    IF predicted = taken
    THEN [e EXCEPT !.hyst = IF taken /\ e.pred # 0 THEN 1
                            ELSE IF ~taken /\ e.pred = 0 THEN 0 ELSE @]
    ELSE LET inter == (2 * e.pred) + e.hyst
             moved == IF taken THEN (IF inter < 3 THEN inter + 1 ELSE inter)
                      ELSE (IF inter > 0 THEN inter - 1 ELSE inter)
         IN  [pred |-> moved \div 2, hyst |-> moved % 2]

\* A fresh entry is one that no branch has confirmed yet.
FreshAndRight(e, taken) == e.ctr \in {-1, 0} /\ e.ubit = 0 /\ (e.ctr >= 0) = taken

WantsAllocation(pc, taken, p) ==
    /\ p.result # taken
    /\ p.bank > 0
    /\ ~(p.bank # NoBank /\ FreshAndRight(EntryFor(pc, p.bank), taken))

MinUbit(pc, p) ==
    CHOOSE m \in 0 .. 3 :
        /\ \A b \in 0 .. p.bank - 1 : m <= EntryFor(pc, b).ubit
        /\ \E b \in 0 .. p.bank - 1 : m = EntryFor(pc, b).ubit

\* The word of 0xf3f531.
Increment ==
    [i \in 0 .. 2 * NumTables - 1 |-> Bit(i \in {0, 4, 5, 8, 10} \cup 12 .. 17 \cup 20 .. 23)]

\* Whether adding the lower bits of x and y carries into bit i.
Carry(x, y, i) ==
    \E j \in 0 .. i - 1 : /\ x[j] = 1 /\ y[j] = 1
                          /\ \A k \in j + 1 .. i - 1 : x[k] = 1 \/ y[k] = 1

\* getRandom: of the product with 2^(2 * NumTables) + 1 the mask leaves seed itself.
NextSeed ==
    [i \in 0 .. 2 * NumTables - 1 |->
        (seed[i] + Increment[i] + Bit(Carry(seed, Increment, i))) % 2]

\* The low bits set in y, counted from bit 0 and below width: how far the first
\* candidate moves up from the table next to the provider.
TrailingOnes(y, width) ==
    CHOOSE n \in 0 .. width :
        /\ \A i \in 0 .. n - 1 : y[i] = 1
        /\ n = width \/ y[n] = 0

FirstCandidate(p) == p.bank - 1 - TrailingOnes(NextSeed, p.bank - 1)

\* A plausible slip: the candidate is taken whatever its usefulness.
AllocatedBankAny(pc, p) == FirstCandidate(p)

\* The table that gets the new entry: the nearest useless one from the first
\* candidate towards table 0, NoBank if all useless ones lie on the other side.
AllocatedBank(pc, p) ==
    LET free == {b \in 0 .. FirstCandidate(p) : EntryFor(pc, b).ubit = 0}
    IN  IF free = {} THEN NoBank ELSE CHOOSE b \in free : \A c \in free : c <= b

NewEntry(pc, b, taken) ==
    [ctr |-> IF taken THEN 0 ELSE -1, tag |-> ComputeTag(pc, b), ubit |-> 0]

\* gtable after the allocation step.
Allocate(pc, taken, p) ==
    IF ~WantsAllocation(pc, taken, p) THEN gtable
    ELSE IF MinUbit(pc, p) > 0
    THEN [b \in Bank |->
             IF b < p.bank
             THEN [gtable[b] EXCEPT ![ComputeIndex(pc, b)].ubit = @ - 1] ELSE gtable[b]]
    ELSE LET x == AllocatedBank(pc, p)
         IN  IF x = NoBank THEN gtable
             ELSE [gtable EXCEPT ![x][ComputeIndex(pc, x)] = NewEntry(pc, x, taken)]

\* Every period one of the two usefulness bits is cleared in every entry.
Age(table, t) ==
    IF t % Period # 0 THEN table
    ELSE LET keepHigh == (t \div Period) % 2 = 0
         IN  [b \in Bank |-> [i \in DOMAIN table[b] |->
                 [table[b][i] EXCEPT !.ubit = IF keepHigh THEN 2 * (@ \div 2) ELSE @ % 2]]]

UsefulAfter(u, right) ==
    IF right THEN (IF u < 3 THEN u + 1 ELSE u) ELSE IF u > 0 THEN u - 1 ELSE u

\* The provider learns the outcome, and whether it beat the alternate.
Taught(e, taken, p) ==
    [e EXCEPT !.ctr = UpdateCounter(@, taken),
              !.ubit = IF p.result # p.alternate THEN UsefulAfter(@, p.result = taken) ELSE @]

Teach(table, pc, taken, p) ==
    IF p.bank = NoBank THEN table
    ELSE [table EXCEPT ![p.bank][ComputeIndex(pc, p.bank)] = Taught(@, taken, p)]

Train(pc, taken) ==
    LET p == Prediction(pc)
        drawn == WantsAllocation(pc, taken, p) /\ MinUbit(pc, p) = 0
        i == BimodalIndex(pc)
    IN  /\ branches < MaxBranches
        /\ branches' = branches + 1
        /\ tick' = tick + 1
        /\ seed' = IF drawn THEN NextSeed ELSE seed
        /\ gtable' = Teach(Age(Allocate(pc, taken, p), tick + 1), pc, taken, p)
        /\ btable' = IF p.bank # NoBank THEN btable
                     ELSE [btable EXCEPT ![i] = UpdateBimodal(@, p.result, taken)]
        /\ bimodal' = [bimodal EXCEPT ![i] = UpdateBimodal(@, bimodal[i].pred > 0, taken)]
        /\ Remember(pc, taken)

\* A branch that is not conditional.
Pass(pc, taken) ==
    /\ branches < MaxBranches
    /\ branches' = branches + 1
    /\ Remember(pc, taken)
    /\ UNCHANGED <<gtable, btable, seed, tick, bimodal>>

Init ==
    /\ ghist = Zero(MaxHistory)
    /\ path = Zero(PathBits)
    /\ chI = [b \in Bank |-> Zero(ILength)]
    /\ chT = [k \in {0, 1} |-> [b \in Bank |-> Zero(TLength(k, b))]]
    /\ gtable = [b \in Bank |-> [i \in Words(LogEntries) |->
                    [ctr |-> 0, tag |-> Zero(TLength(0, b)), ubit |-> 0]]]
    /\ btable = [i \in Words(LogBimodal) |-> [pred |-> 0, hyst |-> 1]]
    /\ seed = Zero(2 * NumTables)
    /\ tick = 0
    /\ branches = 0
    /\ bimodal = [i \in Words(LogBimodal) |-> [pred |-> 0, hyst |-> 1]]

Next == \E pc \in Pc, taken \in BOOLEAN : Train(pc, taken) \/ Pass(pc, taken)

Spec == Init /\ [][Next]_vars

------------------------------------------------------------------------------
(* Properties.                                                              *)

\* Counters, tags and folds keep their widths.
Tags == UNION {Words(TLength(0, b)) : b \in Bank}
Bimodal == [pred: {0, 1}, hyst: {0, 1}]

TypeOK ==
    /\ ghist \in Words(MaxHistory) /\ path \in Words(PathBits)
    /\ \A b \in Bank :
           /\ chI[b] \in Words(ILength)
           /\ \A k \in {0, 1} : chT[k][b] \in Words(TLength(k, b))
           /\ \A i \in Words(LogEntries) : gtable[b][i].tag \in Words(TLength(0, b))
    /\ gtable \in [Bank -> [Words(LogEntries) -> [ctr: Counter, tag: Tags, ubit: 0 .. 3]]]
    /\ {btable, bimodal} \subseteq [Words(LogBimodal) -> Bimodal]
    /\ seed \in Words(2 * NumTables)
    /\ tick \in 0 .. branches /\ branches \in 0 .. MaxBranches

\* comp holds the latest olen outcomes folded to clen bits.
IsFold(comp, olen, clen) ==
    \A j \in 0 .. clen - 1 :
        comp[j] = Cardinality({i \in 0 .. olen - 1 : i % clen = j /\ ghist[i] = 1}) % 2

\* The incremental update of each compressed history agrees at any time with
\* folding the whole history anew, so no outcome older than a table's history
\* length influences its index and tag.
FoldsExact ==
    \A b \in Bank :
        /\ IsFold(chI[b], OLength(b), ILength)
        /\ \A k \in {0, 1} : IsFold(chT[k][b], OLength(b), TLength(k, b))

\* The entries to which a step gives another tag.
Victims ==
    {v \in Bank \X Words(LogEntries) : gtable'[v[1]][v[2]].tag # gtable[v[1]][v[2]].tag}

\* A branch gives a new tag to at most one entry: after a misprediction, one that was
\* not useful, in a table of longer history than the provider's; it then has the tag
\* the branch would have hit.
VictimIsUseless ==
    [][Victims # {} =>
           \E pc \in Pc : \E b \in 0 .. Prediction(pc).bank - 1 :
               /\ Victims = {<<b, ComputeIndex(pc, b)>>}
               /\ Prediction(pc).result # (ghist'[0] = 1)
               /\ EntryFor(pc, b).ubit = 0
               /\ gtable'[b][ComputeIndex(pc, b)].tag = ComputeTag(pc, b)]_vars

\* The baseline is a table of two-bit saturating counters, though its update is
\* written as separate rules for the two bits of an entry.
Value(e) == (2 * e.pred) + e.hyst

BaselineSaturates ==
    [][tick' # tick =>
        \E i \in DOMAIN bimodal :
            LET v == Value(bimodal[i])
            IN  /\ Value(bimodal'[i]) = IF ghist'[0] = 1 THEN (IF v < 3 THEN v + 1 ELSE 3)
                                        ELSE (IF v > 0 THEN v - 1 ELSE 0)
                /\ \A j \in DOMAIN bimodal \ {i} : bimodal'[j] = bimodal[j]]_vars
===============================================================================
