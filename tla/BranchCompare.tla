----------------------------- MODULE BranchCompare -----------------------------
(***************************************************************************)
(* compare_branch_traces of the branch-trace collector: the common prefix   *)
(* of two traces, and their longest common contiguous run, found by binary  *)
(* search over its length with a rolling hash.                              *)
(*                                                                          *)
(* A token stands for the text of a trace line; its value is itself.        *)
(* Positions are zero-based as in the code.  Base and Modulus stand for     *)
(* the 64-bit multiplier and mask: a small modulus makes hashes collide.    *)
(***************************************************************************)
EXTENDS Integers, Sequences

CONSTANTS
    Tokens,       \* what a trace line may be
    MaxTrace,     \* bound on the length of a trace
    Base, Modulus

ASSUME CompareAssumption ==
    /\ Tokens \subseteq Nat
    /\ MaxTrace \in Nat
    /\ Base \in Nat
    /\ Modulus \in Nat \ {0}

VARIABLES
    traces,      \* the two traces, qflex and gem5
    phase,       \* prefix, search, or done
    prefixLen,   \* common_prefix_len
    low, high,   \* the lengths still in question
    best         \* the longest run found so far, and where it starts

compareVars == <<traces, phase, prefixLen, low, high, best>>

Traces == UNION {[1 .. n -> Tokens] : n \in 0 .. MaxTrace}
Shorter == IF Len(traces.qflex) < Len(traces.gem5) THEN Len(traces.qflex) ELSE Len(traces.gem5)
NoRun == [length |-> 0, qflex |-> 0, gem5 |-> 0]

\* s[start : start + length]
Slice(s, start, length) == SubSeq(s, start + 1, start + length)

CompareInit ==
    /\ traces \in [qflex: Traces, gem5: Traces]
    /\ phase = "prefix"
    /\ prefixLen = 0
    /\ low = 0 /\ high = 0
    /\ best = NoRun

\* The index of the first difference, or else the length of the shorter trace.
\* The search is skipped if a trace is empty.
CommonPrefix ==
    /\ phase = "prefix"
    /\ LET differs == {i \in 0 .. Shorter - 1 : traces.qflex[i + 1] # traces.gem5[i + 1]}
       IN  prefixLen' = IF differs = {} THEN Shorter
                        ELSE CHOOSE i \in differs : \A j \in differs : i <= j
    /\ low' = 0
    /\ high' = Shorter
    /\ phase' = IF Shorter = 0 THEN "done" ELSE "search"
    /\ UNCHANGED <<traces, best>>

------------------------------------------------------------------------------
(* The rolling hash.                                                        *)

\* prefix[i] hashes the first i tokens; powers[i] is Base^i.
PrefixHash(s) ==
    LET h[i \in 0 .. Len(s)] ==
            IF i = 0 THEN 0 ELSE (h[i - 1] * Base + (s[i] % Modulus) + 1) % Modulus
    IN  h

Powers(n) ==
    LET p[i \in 0 .. n] == IF i = 0 THEN 1 ELSE (p[i - 1] * Base) % Modulus
    IN  p

\* A plausible slip: the prefix is subtracted without its weight.
RangeHashUnweighted(h, p, start, length) == (h[start + length] - h[start]) % Modulus

RangeHash(h, p, start, length) ==
    (h[start + length] - ((h[start] * p[length]) % Modulus)) % Modulus

\* The positions of the first match: the scan runs over gem5, and for each digest
\* over the places in qflex in ascending order.  Equal digests are verified.
SameRun(i, j, length) == Slice(traces.qflex, i, length) = Slice(traces.gem5, j, length)

\* A plausible slip: equal digests are taken for equal runs.
CandidatesUnverified(length) ==
    LET a == PrefixHash(traces.qflex)
        b == PrefixHash(traces.gem5)
        p == Powers(length)
    IN  {ij \in (0 .. Len(traces.qflex) - length) \X (0 .. Len(traces.gem5) - length) :
            RangeHash(a, p, ij[1], length) = RangeHash(b, p, ij[2], length)}

Candidates(length) ==
    LET a == PrefixHash(traces.qflex)
        b == PrefixHash(traces.gem5)
        p == Powers(length)
    IN  {ij \in (0 .. Len(traces.qflex) - length) \X (0 .. Len(traces.gem5) - length) :
            /\ RangeHash(a, p, ij[1], length) = RangeHash(b, p, ij[2], length)
            /\ SameRun(ij[1], ij[2], length)}

Earlier(x, y) == x[2] < y[2] \/ (x[2] = y[2] /\ x[1] <= y[1])

FirstRun(length) ==
    LET runs == Candidates(length)
        first == CHOOSE x \in runs : \A y \in runs : Earlier(x, y)
    IN  [length |-> length, qflex |-> first[1], gem5 |-> first[2]]

------------------------------------------------------------------------------
(* The binary search.                                                       *)

Middle == (low + high) \div 2

\* Length 0 matches everywhere.
Probe ==
    /\ phase = "search"
    /\ low <= high
    /\ IF Middle = 0 \/ Candidates(Middle) # {}
       THEN /\ best' = IF Middle = 0 THEN NoRun ELSE FirstRun(Middle)
            /\ low' = Middle + 1
            /\ UNCHANGED high
       ELSE high' = Middle - 1 /\ UNCHANGED <<low, best>>
    /\ UNCHANGED <<traces, phase, prefixLen>>

\* A plausible slip: the last length in question is not probed.
FoundEarly ==
    /\ phase = "search"
    /\ low >= high
    /\ phase' = "done"
    /\ UNCHANGED <<traces, prefixLen, low, high, best>>

Found ==
    /\ phase = "search"
    /\ low > high
    /\ phase' = "done"
    /\ UNCHANGED <<traces, prefixLen, low, high, best>>

CompareNext == CommonPrefix \/ Probe \/ Found

CompareSpec == CompareInit /\ [][CompareNext]_compareVars

------------------------------------------------------------------------------
(* Properties.                                                              *)

CompareTypeOK ==
    /\ traces \in [qflex: Seq(Tokens), gem5: Seq(Tokens)]
    /\ phase \in {"prefix", "search", "done"}
    /\ prefixLen \in 0 .. Shorter
    /\ low \in 0 .. Shorter + 1 /\ high \in -1 .. Shorter
    /\ best \in [length: 0 .. Shorter, qflex: Nat, gem5: Nat]

\* A run of this length, anywhere in both traces.
CommonRun(length) ==
    \E i \in 0 .. Len(traces.qflex) - length, j \in 0 .. Len(traces.gem5) - length :
        SameRun(i, j, length)

\* The binary search is on firm ground although it probes a hash table and not the
\* definition: every length below low has a common run, none above high has one, and
\* best is a real run of length low - 1.
SearchIsSound ==
    phase = "search" =>
        /\ \A n \in 0 .. Shorter : (n < low => CommonRun(n)) /\ (n > high => ~CommonRun(n))
        /\ low > 0 => best.length = low - 1
        /\ SameRun(best.qflex, best.gem5, best.length)

\* What the comparison reports: the longest common run there is, at a place where
\* both traces have it, no shorter than the common prefix, and the earliest such
\* place in gem5.
ComparisonExact ==
    phase = "done" =>
        /\ \A n \in 0 .. Shorter : CommonRun(n) <=> n <= best.length
        /\ SameRun(best.qflex, best.gem5, best.length)
        /\ \A j \in 0 .. best.gem5 - 1, i \in 0 .. Len(traces.qflex) - best.length :
               ~SameRun(i, j, best.length)
        /\ SameRun(0, 0, prefixLen) /\ prefixLen <= best.length
        /\ prefixLen < Shorter => traces.qflex[prefixLen + 1] # traces.gem5[prefixLen + 1]
===============================================================================
