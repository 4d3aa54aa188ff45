------------------------------- MODULE LruReplay -------------------------------
(***************************************************************************)
(* The analysis of one data trace: replay_lru_cache and the summaries of    *)
(* strides, read/write pairs and working set, which both data-trace         *)
(* collectors carry.  An access is what parse_trace_line accepts, a kind,   *)
(* a physical address and a size; other lines are skipped before.           *)
(*                                                                          *)
(* The code makes one pass over a list for each result.  Here the list      *)
(* grows, and the passes go along it together: a step takes up one access,  *)
(* or one line of the access at hand.                                       *)
(***************************************************************************)
EXTENDS Integers, Sequences, FiniteSets

CONSTANTS
    Accesses,    \* the accesses that occur: records with kind, addr and size
    LineSize, Assoc, CacheSize,
    MaxAccesses  \* bound on the length of a trace

\* replay_lru_cache raises an error unless there is at least one set.
ASSUME ReplayAssumption ==
    /\ Accesses \subseteq [kind: {"R", "W"}, addr: Nat, size: Nat]
    /\ LineSize \in Nat \ {0} /\ Assoc \in Nat \ {0}
    /\ CacheSize \in Nat /\ CacheSize >= Assoc * LineSize
    /\ MaxAccesses \in Nat

VARIABLES
    accesses,          \* the trace up to the access at hand
    current, stop,     \* iter_cache_lines of that access: the next byte, and the end
    ways,              \* ways[s]: the tags of set s, most recently used first
    hits, misses, byType,
    unique,            \* the lines touched, of the replay and of the working set
    minLine, maxLine,  \* the least and greatest of them
    readLines, strides,
    pairs,             \* rw_same_line_pairs
    touches            \* history: each touch, its line and the number of its access

replayVars == <<accesses, current, stop, ways, hits, misses, byType, unique,
                minLine, maxLine, readLines, strides, pairs, touches>>

NumSets == CacheSize \div (Assoc * LineSize)
LineOf(addr) == addr - (addr % LineSize)
SetOf(line) == (line \div LineSize) % NumSets
TagOf(line) == (line \div LineSize) \div NumSets

ReplayInit ==
    /\ accesses = <<>>
    /\ current = 0 /\ stop = 0
    /\ ways = [s \in 0 .. NumSets - 1 |-> <<>>]
    /\ hits = 0 /\ misses = 0
    /\ byType = [k \in {"R", "W"} |-> [hits |-> 0, misses |-> 0]]
    /\ unique = {} /\ minLine = 0 /\ maxLine = 0
    /\ readLines = <<>>
    /\ strides = [d \in {} |-> 0]
    /\ pairs = 0
    /\ touches = <<>>

------------------------------------------------------------------------------
(* One access.                                                              *)

\* counts[d] += 1
Counted(counts, d) ==
    [e \in DOMAIN counts \cup {d} |->
        (IF e \in DOMAIN counts THEN counts[e] ELSE 0) + (IF e = d THEN 1 ELSE 0)]

\* A plausible slip: strides are counted from any access to the next.
SizedAccess(x) == x.size > 0

\* The reads whose lines are strided over; one of no bytes is passed over.
SizedRead(x) == x.kind = "R" /\ x.size > 0

\* A read followed at once by a write that starts in the same line.
IsPair(first, second) ==
    first.kind = "R" /\ second.kind = "W" /\ LineOf(first.addr) = LineOf(second.addr)

OpenAccess(x) ==
    /\ current >= stop /\ Len(accesses) < MaxAccesses
    /\ accesses' = Append(accesses, x)
    /\ current' = x.addr /\ stop' = x.addr + x.size
    /\ readLines' = IF SizedRead(x) THEN Append(readLines, LineOf(x.addr)) ELSE readLines
    /\ strides' = IF SizedRead(x) /\ readLines # <<>>
                  THEN Counted(strides, LineOf(x.addr) - readLines[Len(readLines)])
                  ELSE strides
    /\ pairs' = IF accesses # <<>> /\ IsPair(accesses[Len(accesses)], x)
                THEN pairs + 1 ELSE pairs
    /\ UNCHANGED <<ways, hits, misses, byType, unique, minLine, maxLine, touches>>

------------------------------------------------------------------------------
(* One line.                                                                *)

Holds(q, t) == \E i \in DOMAIN q : q[i] = t

\* t at the front of q, those before place p one further, n in all.
ToFront(q, t, p, n) ==
    [i \in 1 .. n |-> IF i = 1 THEN t ELSE IF i <= p THEN q[i - 1] ELSE q[i]]

\* A plausible slip: a hit does not move its line to the front.
TouchFifo(q, t) ==
    IF Holds(q, t) THEN q
    ELSE LET n == IF Len(q) < Assoc THEN Len(q) + 1 ELSE Assoc IN ToFront(q, t, n, n)

\* The line becomes the most recent of its set; a miss may push out the last one.
Touch(q, t) ==
    IF Holds(q, t) THEN ToFront(q, t, CHOOSE p \in DOMAIN q : q[p] = t, Len(q))
    ELSE LET n == IF Len(q) < Assoc THEN Len(q) + 1 ELSE Assoc IN ToFront(q, t, n, n)

TouchLine ==
    /\ current < stop
    /\ LET line == LineOf(current)
           s == SetOf(line)
           t == TagOf(line)
           kind == accesses[Len(accesses)].kind
           hit == IF Holds(ways[s], t) THEN 1 ELSE 0
       IN  /\ current' = line + LineSize
           /\ ways' = [ways EXCEPT ![s] = Touch(@, t)]
           /\ hits' = hits + hit
           /\ misses' = misses + (1 - hit)
           /\ byType' = [byType EXCEPT ![kind].hits = @ + hit, ![kind].misses = @ + (1 - hit)]
           /\ unique' = unique \cup {line}
           /\ minLine' = IF unique = {} \/ line < minLine THEN line ELSE minLine
           /\ maxLine' = IF unique = {} \/ line > maxLine THEN line ELSE maxLine
           /\ touches' = Append(touches, [line |-> line, access |-> Len(accesses)])
    /\ UNCHANGED <<accesses, stop, readLines, strides, pairs>>

ReplayNext == (\E x \in Accesses : OpenAccess(x)) \/ TouchLine

ReplaySpec == ReplayInit /\ [][ReplayNext]_replayVars

------------------------------------------------------------------------------
(* Properties.                                                              *)

\* The lines in which the bytes of an access lie.
LinesOf(x) == {LineOf(b) : b \in x.addr .. x.addr + x.size - 1}

Kind(n) == accesses[touches[n].access].kind

\* The touches are those of the trace: access by access, line by line, all lines of
\* every access that is done with.
TouchesExact ==
    /\ \A m, n \in DOMAIN touches : m < n =>
           \/ touches[m].access < touches[n].access
           \/ touches[m].access = touches[n].access /\ touches[m].line < touches[n].line
    /\ \A i \in DOMAIN accesses : (i < Len(accesses) \/ current >= stop) =>
           {touches[n].line : n \in {n \in DOMAIN touches : touches[n].access = i}}
               = LinesOf(accesses[i])

\* The reference: a touch hits if the line was touched before and since then fewer
\* than Assoc other lines of its set were.
StackHit(n) ==
    \E m \in 1 .. n - 1 :
        /\ touches[m].line = touches[n].line
        /\ Cardinality({touches[k].line : k \in {k \in m + 1 .. n - 1 :
                /\ SetOf(touches[k].line) = SetOf(touches[n].line)
                /\ touches[k].line # touches[n].line}}) < Assoc

\* The list-of-tags cache is the textbook LRU cache: hits and misses, in total and per
\* kind, are those of the stack distances of the whole trace, every line misses the
\* first time, the lines are those the bytes lie in, and no set holds a line twice or
\* too many.
ReplayExact ==
    LET hitting == {n \in DOMAIN touches : StackHit(n)}
    IN  /\ TouchesExact
        /\ hits = Cardinality(hitting)
        /\ hits + misses = Len(touches)
        /\ \A k \in {"R", "W"} :
               /\ byType[k].hits = Cardinality({n \in hitting : Kind(n) = k})
               /\ byType[k].misses = Cardinality({n \in DOMAIN touches \ hitting : Kind(n) = k})
        /\ unique = {touches[n].line : n \in DOMAIN touches}
        /\ Cardinality(unique) <= misses
        /\ \A s \in DOMAIN ways :
               /\ Len(ways[s]) <= Assoc
               /\ \A i, j \in DOMAIN ways[s] : ways[s][i] = ways[s][j] => i = j

ReadsUpTo(i) == {j \in 1 .. i : accesses[j].kind = "R" /\ accesses[j].size > 0}
PairsUpTo(i) == {j \in 1 .. i - 1 : IsPair(accesses[j], accesses[j + 1])}
StrideAt(i) == readLines[i] - readLines[i - 1]

\* The summaries, each counted along the way, are those of the whole trace, and agree
\* with each other: a footprint no larger than the span from the first line to the
\* last, the distances between the lines of successive reads, no more pairs than reads
\* or writes.
SummariesAgree ==
    LET n == Len(accesses)
    IN  /\ unique # {} => /\ {minLine, maxLine} \subseteq unique
                          /\ Cardinality(unique) * LineSize <= (maxLine - minLine) + LineSize
        /\ Len(readLines) = Cardinality(ReadsUpTo(n))
        /\ \A i \in ReadsUpTo(n) :
               readLines[Cardinality(ReadsUpTo(i))] = LineOf(accesses[i].addr)
        /\ DOMAIN strides = {StrideAt(i) : i \in 2 .. Len(readLines)}
        /\ \A d \in DOMAIN strides :
               /\ d % LineSize = 0
               /\ strides[d] = Cardinality({i \in 2 .. Len(readLines) : StrideAt(i) = d})
        /\ pairs = Cardinality(PairsUpTo(n))
        /\ \A k \in {"R", "W"} : pairs <= Cardinality({i \in 1 .. n : accesses[i].kind = k})
===============================================================================
