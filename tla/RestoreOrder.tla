----------------------------- MODULE RestoreOrder -----------------------------
(***************************************************************************)
(* The order of the LLC restore files.  The converter sorts the restorable  *)
(* lines of the exported cache by set and age, once for clean and once for  *)
(* modified lines, merges and sorts again, and splits the result into one   *)
(* file per gem5 slice.  Each slice then inserts its file line by line, and *)
(* every insertion becomes the most recent of its set: only the order of    *)
(* the file carries the replacement state over.                             *)
(*                                                                          *)
(* Lines are block numbers; the exporting cache holds block b in set        *)
(* b % SourceSets.  gem5's slices are external: LRU sets indexed by the     *)
(* block bits above the slice bits.                                         *)
(***************************************************************************)
EXTENDS Integers, FiniteSets, SequencesExt

CONSTANTS
    Blocks,      \* block numbers
    Ages,        \* timestamps
    SourceSets,  \* number of sets of the exported cache
    Geometries   \* of gem5: number of slices, and sets and ways of a slice

\* The number of slices is a power of two (_validate_llc_slice_count): as a mask, it
\* takes the remainder.
ASSUME RestoreAssumption ==
    /\ Blocks \subseteq Nat /\ IsFiniteSet(Blocks)
    /\ Ages \subseteq Nat
    /\ SourceSets \in Nat \ {0}
    /\ \A g \in Geometries : /\ g.slices \in {1, 2, 4, 8, 16, 32, 64}
                             /\ g.sets \in Nat \ {0} /\ g.ways \in Nat \ {0}

VARIABLES
    source,    \* the restorable lines: from some blocks to their age and modified bit
    geometry,
    step,      \* sort, merge, split, insert
    clean, modified,  \* the two sorted lists
    selected,  \* the merged list
    files,     \* files[s]: what is left of the file of slice s
    slice      \* slice[s][set]: the blocks in gem5, most recent first

restoreVars == <<source, geometry, step, clean, modified, selected, files, slice>>

SliceId(b) == b % geometry.slices
SetId(b) == (b \div geometry.slices) % geometry.sets
SliceIds == 0 .. geometry.slices - 1
Empty == [s \in SliceIds |-> [i \in 0 .. geometry.sets - 1 |-> <<>>]]

RestoreInit ==
    /\ source \in UNION {[bs -> [age: Ages, modified: BOOLEAN]] : bs \in SUBSET Blocks}
    /\ geometry \in Geometries
    /\ step = "sort"
    /\ clean = <<>> /\ modified = <<>> /\ selected = <<>>
    /\ files = [s \in SliceIds |-> <<>>]
    /\ slice = Empty

------------------------------------------------------------------------------
(* The converter.                                                           *)

\* A plausible slip: the youngest line of a set comes first.
OlderReversed(a, b) ==
    \/ a % SourceSets < b % SourceSets
    \/ /\ a % SourceSets = b % SourceSets
       /\ \/ source[a].age > source[b].age
          \/ source[a].age = source[b].age /\ a < b

\* By set, then by timestamp; ways and addresses only break ties.
Older(a, b) ==
    \/ a % SourceSets < b % SourceSets
    \/ /\ a % SourceSets = b % SourceSets
       /\ \/ source[a].age < source[b].age
          \/ source[a].age = source[b].age /\ a < b

\* The members of S in the order that the pairs of R give: n - 1 come before the n-th.
InOrder(S, R) ==
    [n \in 1 .. Cardinality(S) |->
        CHOOSE x \in S : Cardinality({y \in S : <<y, x>> \in R}) = n - 1]

Ordered(blocks) == InOrder(blocks, {ab \in blocks \X blocks : Older(ab[1], ab[2])})

SortLines ==
    /\ step = "sort"
    /\ clean' = Ordered({b \in DOMAIN source : ~source[b].modified})
    /\ modified' = Ordered({b \in DOMAIN source : source[b].modified})
    /\ step' = "merge"
    /\ UNCHANGED <<source, geometry, selected, files, slice>>

\* A plausible slip: the two sorted lists are only put one after the other.
MergeLists ==
    /\ step = "merge"
    /\ selected' = clean \o modified
    /\ step' = "split"
    /\ UNCHANGED <<source, geometry, clean, modified, files, slice>>

\* Both lists together, sorted once more.  No line is in both.
MergeLines ==
    /\ step = "merge"
    /\ selected' = Ordered(ToSet(clean \o modified))
    /\ step' = "split"
    /\ UNCHANGED <<source, geometry, clean, modified, files, slice>>

PlacesOf(s) == {k \in DOMAIN selected : SliceId(selected[k]) = s}

\* The lines of slice s in the order of the selection.
FileOf(s) ==
    LET places == InOrder(PlacesOf(s), {jk \in PlacesOf(s) \X PlacesOf(s) : jk[1] < jk[2]})
    IN  [n \in DOMAIN places |-> selected[places[n]]]

\* An empty selection is an error; a slice without lines gets no file.
SplitLines ==
    /\ step = "split"
    /\ selected # <<>>
    /\ files' = [s \in SliceIds |-> FileOf(s)]
    /\ step' = "insert"
    /\ UNCHANGED <<source, geometry, clean, modified, selected, slice>>

------------------------------------------------------------------------------
(* gem5.                                                                    *)

Insert(s) ==
    /\ step = "insert"
    /\ files[s] # <<>>
    /\ files' = [files EXCEPT ![s] = Tail(@)]
    /\ slice' = [slice EXCEPT ![s][SetId(Head(files[s]))] =
                    LET q == <<Head(files[s])>> \o @
                    IN  IF Len(q) > geometry.ways THEN Front(q) ELSE q]
    /\ UNCHANGED <<source, geometry, step, clean, modified, selected>>

RestoreNext == SortLines \/ MergeLines \/ SplitLines \/ \E s \in SliceIds : Insert(s)

RestoreSpec == RestoreInit /\ [][RestoreNext]_restoreVars

------------------------------------------------------------------------------
(* Properties.                                                              *)

\* The blocks of one gem5 set were in one set of the exported cache.
SetsAreFiner == (geometry.slices * geometry.sets) % SourceSets = 0

InSet(s, i) == {b \in DOMAIN source : SliceId(b) = s /\ SetId(b) = i}

\* Inserting the files of all slices, in any interleaving, leaves in every gem5 set the
\* youngest lines that belong there, as many as fit, youngest first -- provided gem5's
\* index is a refinement of the exported one.  This is what the order is for
\* (prepare_gem5_uarch.py:669), across two sorts, a merge and a split by other bits.
RecencyRestored ==
    step = "insert" /\ SetsAreFiner =>
        \A s \in SliceIds :
            files[s] = <<>> =>
                \A i \in 0 .. geometry.sets - 1 :
                    LET q == slice[s][i]
                    IN  /\ ToSet(q) \subseteq InSet(s, i)
                        /\ Len(q) = (IF Cardinality(InSet(s, i)) < geometry.ways
                                     THEN Cardinality(InSet(s, i)) ELSE geometry.ways)
                        /\ \A m, n \in DOMAIN q : m < n => source[q[m]].age >= source[q[n]].age
                        /\ \A b \in InSet(s, i) \ ToSet(q), n \in DOMAIN q :
                               source[b].age <= source[q[n]].age
===============================================================================
