-------------------------- MODULE RestoreOrderProofs --------------------------
(***************************************************************************)
(* The order of the restore files rebuilds recency, for any lines, ages and *)
(* geometries: two sorts, a merge and a split by other bits leave each      *)
(* slice a file in order, and inserting it keeps each set right.            *)
(***************************************************************************)
EXTENDS RestoreOrder, FiniteSetTheorems, SequenceTheorems, TLAPS

------------------------------------------------------------------------------
(* Sorting.                                                                 *)

StrictOrder(S, R) ==
    /\ \A x \in S : <<x, x>> \notin R
    /\ \A x, y, z \in S : <<x, y>> \in R /\ <<y, z>> \in R => <<x, z>> \in R
    /\ \A x, y \in S : x = y \/ <<x, y>> \in R \/ <<y, x>> \in R

\* e lists the members of S, each before the ones that R puts after it.
Sorts(e, S, R) ==
    /\ Cardinality(S) \in Nat
    /\ e \in [1 .. Cardinality(S) -> S]
    /\ \A m, n \in 1 .. Cardinality(S) : m < n => <<e[m], e[n]>> \in R
    /\ \A x \in S : \E n \in 1 .. Cardinality(S) : e[n] = x

Below(x, S, R) == {y \in S : <<y, x>> \in R}

\* The number of members below is a rank: it grows along the order, within the
\* positions there are.
LEMMA RanksGrow ==
  ASSUME NEW S, NEW R, IsFiniteSet(S), StrictOrder(S, R)
  PROVE  /\ Cardinality(S) \in Nat
         /\ \A x \in S : Cardinality(Below(x, S, R)) \in 0 .. Cardinality(S) - 1
         /\ \A x, y \in S : <<x, y>> \in R =>
                Cardinality(Below(x, S, R)) < Cardinality(Below(y, S, R))
  <1>1. Cardinality(S) \in Nat
    BY FS_CardinalityType
  <1>2. ASSUME NEW x \in S
        PROVE  /\ IsFiniteSet(Below(x, S, R))
               /\ Cardinality(Below(x, S, R)) \in Nat
               /\ Cardinality(Below(x, S, R)) <= Cardinality(S) - 1
    <2>1. Below(x, S, R) \in SUBSET (S \ {x})
      BY DEF Below, StrictOrder
    <2>2. IsFiniteSet(S \ {x}) /\ Cardinality(S \ {x}) = Cardinality(S) - 1
      BY FS_RemoveElement
    <2>3. /\ IsFiniteSet(Below(x, S, R))
          /\ Cardinality(Below(x, S, R)) <= Cardinality(S \ {x})
      BY <2>1, <2>2, FS_Subset
    <2> QED
      BY <2>2, <2>3, FS_CardinalityType
  <1>3. ASSUME NEW x \in S, NEW y \in S, <<x, y>> \in R
        PROVE  Cardinality(Below(x, S, R)) < Cardinality(Below(y, S, R))
    <2>1. x \notin Below(x, S, R) /\ Below(x, S, R) \cup {x} \in SUBSET Below(y, S, R)
      BY <1>3 DEF Below, StrictOrder
    <2>2. Cardinality(Below(x, S, R) \cup {x}) = Cardinality(Below(x, S, R)) + 1
      BY <1>2, <2>1, FS_AddElement
    <2>3. Cardinality(Below(x, S, R) \cup {x}) <= Cardinality(Below(y, S, R))
      BY <1>2, <2>1, FS_Subset
    <2> QED
      BY <1>2, <2>2, <2>3
  <1>4. ASSUME NEW x \in S
        PROVE  Cardinality(Below(x, S, R)) \in 0 .. Cardinality(S) - 1
    BY <1>1, <1>2
  <1> QED
    BY <1>1, <1>3, <1>4

\* Every rank is taken, by one member.
LEMMA RanksAreTaken ==
  ASSUME NEW S, NEW R, IsFiniteSet(S), StrictOrder(S, R),
         NEW n \in 0 .. Cardinality(S) - 1
  PROVE  \E x \in S : Cardinality(Below(x, S, R)) = n
  <1> DEFINE ranks == 0 .. Cardinality(S) - 1
             rank == [x \in S |-> Cardinality(Below(x, S, R))]
  <1>1. /\ Cardinality(S) \in Nat
        /\ \A x \in S : rank[x] \in ranks
        /\ \A x, y \in S : <<x, y>> \in R => rank[x] < rank[y]
    BY RanksGrow
  <1>2. IsFiniteSet(ranks) /\ Cardinality(ranks) = Cardinality(S)
    BY <1>1, FS_Interval
  <1>3. rank \in [S -> ranks]
    BY <1>1
  <1> HIDE DEF rank
  <1>4. ASSUME NEW x \in S, NEW y \in S, rank[x] = rank[y]
        PROVE  x = y
    <2>1. x = y \/ <<x, y>> \in R \/ <<y, x>> \in R
      BY DEF StrictOrder
    <2>2. rank[x] \in Int /\ rank[y] \in Int
      BY <1>1
    <2>3. ~(rank[x] < rank[y]) /\ ~(rank[y] < rank[x])
      BY <1>4, <2>2
    <2> QED
      BY <1>1, <2>1, <2>3
  <1>5. rank \in Injection(S, ranks)
    BY <1>3, <1>4 DEF Injection, IsInjective
  <1>6. rank \in Surjection(S, ranks)
    BY <1>2, <1>5, FS_Injection
  <1> QED
    BY <1>6 DEF rank, Surjection

\* InOrder is a sort.
LEMMA InOrderSorts ==
  ASSUME NEW S, NEW R, IsFiniteSet(S), StrictOrder(S, R)
  PROVE  Sorts(InOrder(S, R), S, R)
  <1> DEFINE N == Cardinality(S)
             e == InOrder(S, R)
             card(x) == Cardinality(Below(x, S, R))
  <1>1. /\ N \in Nat
        /\ \A x \in S : card(x) \in 0 .. N - 1
        /\ \A x, y \in S : <<x, y>> \in R => card(x) < card(y)
    BY RanksGrow
  <1>2. ASSUME NEW n \in 1 .. N
        PROVE  e[n] \in S /\ card(e[n]) = n - 1
    <2>1. n - 1 \in 0 .. N - 1
      BY <1>1
    <2>2. \E x \in S : card(x) = n - 1
      BY <2>1, RanksAreTaken
    <2>3. e[n] = CHOOSE x \in S : card(x) = n - 1
      BY DEF InOrder, Below
    <2> QED
      BY <2>2, <2>3
  <1>3. e \in [1 .. N -> S]
    BY <1>2 DEF InOrder
  <1> HIDE DEF e, N, card
  <1>4. ASSUME NEW x \in S, NEW y \in S, card(x) = card(y)
        PROVE  x = y
    <2>1. x = y \/ <<x, y>> \in R \/ <<y, x>> \in R
      BY DEF StrictOrder
    <2>2. card(x) \in Int /\ card(y) \in Int
      BY <1>1
    <2>3. ~(card(x) < card(y)) /\ ~(card(y) < card(x))
      BY <1>4, <2>2
    <2> QED
      BY <1>1, <2>1, <2>3
  <1>5. ASSUME NEW m \in 1 .. N, NEW n \in 1 .. N, m < n
        PROVE  <<e[m], e[n]>> \in R
    <2>1. card(e[m]) = m - 1 /\ card(e[n]) = n - 1 /\ e[m] \in S /\ e[n] \in S
      BY <1>2
    <2>2. m \in Int /\ n \in Int
      BY <1>1
    <2>3. ~(card(e[n]) < card(e[m])) /\ card(e[m]) # card(e[n])
      BY <1>5, <2>1, <2>2
    <2>4. e[m] = e[n] \/ <<e[m], e[n]>> \in R \/ <<e[n], e[m]>> \in R
      BY <2>1 DEF StrictOrder
    <2> QED
      BY <1>1, <2>1, <2>3, <2>4
  <1>6. ASSUME NEW x \in S
        PROVE  \E n \in 1 .. N : e[n] = x
    <2>1. card(x) + 1 \in 1 .. N /\ card(x) \in Int
      BY <1>1
    <2>2. e[card(x) + 1] \in S /\ card(e[card(x) + 1]) = card(x)
      BY <1>2, <2>1
    <2>3. e[card(x) + 1] = x
      BY <1>4, <2>2
    <2> QED
      BY <2>1, <2>3
  <1> QED
    BY <1>1, <1>3, <1>5, <1>6 DEF Sorts, N, e

------------------------------------------------------------------------------
(* The order of restore lines.                                              *)

SourceTyped == source \in UNION {[bs -> [age: Ages, modified: BOOLEAN]] : bs \in SUBSET Blocks}

Lines == DOMAIN source

OlderPairs(S) == {ab \in S \X S : Older(ab[1], ab[2])}

LEMMA LinesAreNumbers ==
  ASSUME SourceTyped
  PROVE  /\ IsFiniteSet(Lines)
         /\ Lines \subseteq Blocks
         /\ \A b \in Lines : /\ b \in Nat /\ source[b].age \in Nat
                             /\ b % SourceSets \in Nat
  <1>1. PICK bs \in SUBSET Blocks : source \in [bs -> [age: Ages, modified: BOOLEAN]]
    BY DEF SourceTyped
  <1>2. Lines = bs
    BY <1>1 DEF Lines
  <1>3. IsFiniteSet(Lines)
    <2>1. IsFiniteSet(Blocks)
      BY RestoreAssumption
    <2>2. IsFiniteSet(bs)
      BY <2>1, FS_Subset
    <2> QED
      BY <1>2, <2>2
  <1>4. ASSUME NEW b \in Lines
        PROVE  b \in Nat /\ source[b].age \in Nat
    <2>1. source[b] \in [age: Ages, modified: BOOLEAN] /\ b \in Blocks
      BY <1>1, <1>2
    <2>2. source[b].age \in Ages
      BY <2>1
    <2> QED
      BY <2>1, <2>2, RestoreAssumption
  <1>5. ASSUME NEW b \in Lines
        PROVE  b % SourceSets \in Nat
    BY <1>4, RestoreAssumption
  <1> QED
    BY <1>1, <1>2, <1>3, <1>4, <1>5

\* Set, age and block number together leave no two lines equal, so the order is strict:
\* this is what the tie breakers of _order_restore_lines are for.
LEMMA OlderIsStrict ==
  ASSUME SourceTyped
  PROVE  /\ \A a \in Lines : ~Older(a, a)
         /\ \A a, b, c \in Lines : Older(a, b) /\ Older(b, c) => Older(a, c)
         /\ \A a, b \in Lines : a = b \/ Older(a, b) \/ Older(b, a)
  <1>1. \A b \in Lines : b \in Nat /\ source[b].age \in Nat /\ b % SourceSets \in Nat
    BY LinesAreNumbers
  <1> DEFINE set(b) == b % SourceSets
             age(b) == source[b].age
  <1>2. \A a, b : Older(a, b) <=> \/ set(a) < set(b)
                                  \/ set(a) = set(b) /\ (age(a) < age(b) \/ (age(a) = age(b) /\ a < b))
    BY DEF Older
  <1>3. \A b \in Lines : b \in Nat /\ age(b) \in Nat /\ set(b) \in Nat
    BY <1>1
  <1> HIDE DEF set, age
  <1>4. ASSUME NEW a \in Lines
        PROVE  ~Older(a, a)
    BY <1>2, <1>3
  <1>5. ASSUME NEW a \in Lines, NEW b \in Lines, NEW c \in Lines, Older(a, b), Older(b, c)
        PROVE  Older(a, c)
    BY <1>2, <1>3, <1>5
  <1>6. ASSUME NEW a \in Lines, NEW b \in Lines
        PROVE  a = b \/ Older(a, b) \/ Older(b, a)
    BY <1>2, <1>3
  <1> QED
    BY <1>4, <1>5, <1>6

LEMMA OlderOrders ==
  ASSUME SourceTyped, NEW S \in SUBSET Lines
  PROVE  IsFiniteSet(S) /\ StrictOrder(S, OlderPairs(S))
  <1>1. IsFiniteSet(S)
    BY LinesAreNumbers, FS_Subset
  <1>2. \A x, y \in S : <<x, y>> \in OlderPairs(S) <=> Older(x, y)
    BY DEF OlderPairs
  <1> QED
    BY <1>1, <1>2, OlderIsStrict DEF StrictOrder

\* e is a list of the lines S, the older ones of each set first.
ListsInOrder(e, S) ==
    /\ e \in Seq(S)
    /\ \A m, n \in 1 .. Len(e) : m < n => Older(e[m], e[n])
    /\ \A b \in S : \E n \in 1 .. Len(e) : e[n] = b

LEMMA OrderedLists ==
  ASSUME SourceTyped, NEW S \in SUBSET Lines
  PROVE  ListsInOrder(Ordered(S), S)
  <1> DEFINE e == Ordered(S)
             N == Cardinality(S)
  <1>1. Sorts(e, S, OlderPairs(S))
    BY OlderOrders, InOrderSorts DEF Ordered, OlderPairs
  <1>2. N \in Nat /\ e \in [1 .. N -> S]
    BY <1>1 DEF Sorts
  <1>3. e \in Seq(S)
    BY <1>2, SeqDef
  <1>4. Len(e) = N
    BY <1>2, <1>3, LenProperties
  <1>5. \A m, n \in 1 .. N : m < n => Older(e[m], e[n])
    BY <1>1 DEF Sorts, OlderPairs
  <1>6. \A b \in S : \E n \in 1 .. N : e[n] = b
    BY <1>1 DEF Sorts
  <1> HIDE DEF e, N
  <1> QED
    BY <1>3, <1>4, <1>5, <1>6 DEF ListsInOrder, e

\* What is in a list.
LEMMA ListMembers ==
  ASSUME NEW S, NEW e, ListsInOrder(e, S)
  PROVE  ToSet(e) = S
  <1>1. e \in Seq(S) /\ DOMAIN e = 1 .. Len(e)
    BY LenProperties DEF ListsInOrder
  <1>2. \A n \in 1 .. Len(e) : e[n] \in S
    BY <1>1, ElementOfSeq
  <1> QED
    BY <1>1, <1>2 DEF ListsInOrder, ToSet

\* Two lists one after the other hold the lines of both.
LEMMA ConcatMembers ==
  ASSUME NEW S, NEW T, NEW e, NEW f, ListsInOrder(e, S), ListsInOrder(f, T)
  PROVE  ToSet(e \o f) = S \cup T
  <1>1. e \in Seq(S \cup T) /\ f \in Seq(S \cup T)
    BY SeqMonotonic DEF ListsInOrder
  <1>2. /\ e \o f \in Seq(S \cup T)
        /\ Len(e \o f) = Len(e) + Len(f)
        /\ \A i \in 1 .. Len(e) + Len(f) : (e \o f)[i] = IF i <= Len(e) THEN e[i] ELSE f[i - Len(e)]
    BY <1>1, ConcatProperties
  <1>3. Len(e) \in Nat /\ Len(f) \in Nat /\ DOMAIN (e \o f) = 1 .. Len(e) + Len(f)
    BY <1>1, <1>2, LenProperties
  <1>4. \A i \in 1 .. Len(e) + Len(f) : (e \o f)[i] \in S \cup T
    BY <1>2, ElementOfSeq
  <1>5. ASSUME NEW b \in S
        PROVE  \E i \in 1 .. Len(e) + Len(f) : (e \o f)[i] = b
    <2>1. PICK n \in 1 .. Len(e) : e[n] = b
      BY DEF ListsInOrder
    <2>2. n \in 1 .. Len(e) + Len(f) /\ n <= Len(e)
      BY <1>3
    <2> QED
      BY <1>2, <2>1, <2>2
  <1>6. ASSUME NEW b \in T
        PROVE  \E i \in 1 .. Len(e) + Len(f) : (e \o f)[i] = b
    <2>1. PICK n \in 1 .. Len(f) : f[n] = b
      BY DEF ListsInOrder
    <2> DEFINE i == Len(e) + n
    <2>2. i \in 1 .. Len(e) + Len(f) /\ ~(i <= Len(e)) /\ i - Len(e) = n
      BY <1>3
    <2> HIDE DEF i
    <2> QED
      BY <1>2, <2>1, <2>2
  <1>7. ASSUME NEW b \in S \cup T
        PROVE  b \in ToSet(e \o f)
    BY <1>3, <1>5, <1>6 DEF ToSet
  <1>8. ASSUME NEW b \in ToSet(e \o f)
        PROVE  b \in S \cup T
    BY <1>3, <1>4 DEF ToSet
  <1> QED
    BY <1>7, <1>8

------------------------------------------------------------------------------
(* The split by slice.                                                      *)

InSlice(s) == {b \in Lines : SliceId(b) = s}

GeometryTyped == geometry \in Geometries

\* _write_slice_addr_files goes through the selection once: each slice's file has all its
\* lines, in the same order.
LEMMA FilesKeepTheOrder ==
  ASSUME SourceTyped, ListsInOrder(selected, Lines), NEW s
  PROVE  ListsInOrder(FileOf(s), InSlice(s))
  <1> DEFINE P == PlacesOf(s)
             R == {jk \in P \X P : jk[1] < jk[2]}
             places == InOrder(P, R)
             N == Cardinality(P)
  <1>1. /\ selected \in Seq(Lines) /\ Len(selected) \in Nat
        /\ DOMAIN selected = 1 .. Len(selected)
    BY LenProperties DEF ListsInOrder
  <1>2. P \in SUBSET (1 .. Len(selected))
    BY <1>1 DEF PlacesOf
  <1>3. IsFiniteSet(P)
    <2>1. 1 \in Int /\ Len(selected) \in Int
      BY <1>1
    <2>2. IsFiniteSet(1 .. Len(selected))
      BY <2>1, FS_Interval
    <2> HIDE DEF P
    <2> QED
      BY <1>2, <2>2, FS_Subset
  <1>4. StrictOrder(P, R)
    <2>1. \A j \in P : j \in Int
      BY <1>2
    <2>2. \A j, k \in P : <<j, k>> \in R <=> j < k
      OBVIOUS
    <2> HIDE DEF P, R
    <2> QED
      BY <2>1, <2>2 DEF StrictOrder
  <1>5. Sorts(places, P, R)
    BY <1>3, <1>4, InOrderSorts
  <1>6. /\ N \in Nat /\ places \in [1 .. N -> P] /\ DOMAIN places = 1 .. N
        /\ \A m, n \in 1 .. N : m < n => places[m] < places[n]
        /\ \A k \in P : \E n \in 1 .. N : places[n] = k
    BY <1>5 DEF Sorts
  <1>7. FileOf(s) = [n \in 1 .. N |-> selected[places[n]]]
    BY <1>6 DEF FileOf
  <1>8. \A k \in P : selected[k] \in InSlice(s)
    <2>1. \A k \in 1 .. Len(selected) : selected[k] \in Lines
      BY <1>1, ElementOfSeq
    <2> QED
      BY <1>2, <2>1 DEF PlacesOf, InSlice
  <1>9. \A b \in InSlice(s) : \E k \in P : selected[k] = b
    BY <1>1 DEF ListsInOrder, PlacesOf, InSlice
  <1> HIDE DEF P, R, places, N
  <1>10. FileOf(s) \in [1 .. N -> InSlice(s)]
    BY <1>6, <1>7, <1>8
  <1>11. FileOf(s) \in Seq(InSlice(s)) /\ Len(FileOf(s)) = N
    BY <1>6, <1>10, SeqDef, LenProperties
  <1>12. ASSUME NEW m \in 1 .. N, NEW n \in 1 .. N, m < n
         PROVE  Older(FileOf(s)[m], FileOf(s)[n])
    <2>1. places[m] \in 1 .. Len(selected) /\ places[n] \in 1 .. Len(selected) /\ places[m] < places[n]
      BY <1>2, <1>6, <1>12
    <2>2. Older(selected[places[m]], selected[places[n]])
      BY <2>1 DEF ListsInOrder
    <2> QED
      BY <1>7, <2>2
  <1>13. ASSUME NEW b \in InSlice(s)
         PROVE  \E n \in 1 .. N : FileOf(s)[n] = b
    <2>1. PICK k \in P : selected[k] = b
      BY <1>9
    <2>2. PICK n \in 1 .. N : places[n] = k
      BY <1>6
    <2> QED
      BY <1>7, <2>1, <2>2
  <1> QED
    BY <1>11, <1>12, <1>13 DEF ListsInOrder

------------------------------------------------------------------------------
(* Insertion into a set.                                                    *)

\* What a set of w ways holds when the lines A have been inserted: the youngest of them,
\* as many as fit, youngest first.
SetRight(q, A, w) ==
    /\ q \in Seq(A)
    /\ \A m, n \in 1 .. Len(q) : m < n => Older(q[n], q[m])
    /\ Len(q) = IF Cardinality(A) < w THEN Cardinality(A) ELSE w
    /\ \A b \in A : (\E n \in 1 .. Len(q) : q[n] = b) \/ (\A n \in 1 .. Len(q) : Older(b, q[n]))

InsertInto(q, h, w) == IF Len(<<h>> \o q) > w THEN Front(<<h>> \o q) ELSE <<h>> \o q

\* A line younger than all before it goes to the front; if the set is full, the oldest
\* goes, and it is older than all that stay.
LEMMA InsertKeepsRight ==
  ASSUME NEW A, IsFiniteSet(A), NEW w \in Nat \ {0}, NEW q, SetRight(q, A, w),
         NEW h, h \notin A, \A b \in A : Older(b, h)
  PROVE  SetRight(InsertInto(q, h, w), A \cup {h}, w)
  <1> DEFINE B == A \cup {h}
             p == <<h>> \o q
             l == Len(q)
             c == Cardinality(A)
  <1>1. q \in Seq(A) /\ q \in Seq(B) /\ l \in Nat
    BY SeqMonotonic, LenProperties DEF SetRight
  <1>2. \A n \in 1 .. l : q[n] \in A
    BY <1>1, ElementOfSeq
  <1>3. <<h>> \in Seq(B) /\ Len(<<h>>) = 1 /\ <<h>>[1] = h
    OBVIOUS
  <1>4. /\ p \in Seq(B) /\ Len(p) = l + 1
        /\ \A n \in 1 .. l + 1 : p[n] = IF n <= 1 THEN h ELSE q[n - 1]
    <2>1. /\ p \in Seq(B) /\ Len(p) = 1 + l
          /\ \A n \in 1 .. 1 + l : p[n] = IF n <= 1 THEN <<h>>[n] ELSE q[n - 1]
      BY <1>1, <1>3, ConcatProperties
    <2>2. ASSUME NEW n \in 1 .. l + 1
          PROVE  p[n] = IF n <= 1 THEN h ELSE q[n - 1]
      <3>1. p[n] = IF n <= 1 THEN <<h>>[n] ELSE q[n - 1]
        BY <1>1, <2>1, <2>2
      <3>2. n <= 1 => n = 1
        BY <1>1, <2>2
      <3> HIDE DEF p
      <3> QED
        BY <1>3, <3>1, <3>2
    <2> HIDE DEF p
    <2> QED
      BY <1>1, <2>1, <2>2
  <1>5. c \in Nat /\ Cardinality(B) = c + 1
    BY FS_CardinalityType, FS_AddElement
  <1>6. l = IF c < w THEN c ELSE w
    BY DEF SetRight
  <1> HIDE DEF p, l, c, B
  <1>7. ASSUME NEW m \in 1 .. l + 1, NEW n \in 1 .. l + 1, m < n
        PROVE  Older(p[n], p[m])
    <2>1. n - 1 \in 1 .. l /\ p[n] = q[n - 1] /\ q[n - 1] \in A
      BY <1>1, <1>2, <1>4, <1>7
    <2>2. CASE m = 1
      <3>1. p[m] = h
        BY <1>4, <2>2
      <3> QED
        BY <2>1, <3>1
    <2>3. CASE m # 1
      <3>1. m - 1 \in 1 .. l /\ p[m] = q[m - 1] /\ m - 1 < n - 1
        BY <1>1, <1>4, <1>7, <2>3
      <3>2. Older(q[n - 1], q[m - 1])
        BY <2>1, <3>1 DEF SetRight, l
      <3> QED
        BY <2>1, <3>1, <3>2
    <2> QED
      BY <2>2, <2>3
  <1>8. ASSUME NEW b \in B
        PROVE  (\E n \in 1 .. l + 1 : p[n] = b) \/ (\A n \in 1 .. l + 1 : Older(b, p[n]))
    <2>1. CASE b = h
      <3>1. 1 \in 1 .. l + 1 /\ p[1] = h
        BY <1>1, <1>4
      <3> QED
        BY <2>1, <3>1
    <2>2. CASE b \in A /\ \E n \in 1 .. l : q[n] = b
      <3>1. PICK n \in 1 .. l : q[n] = b
        BY <2>2
      <3>2. n + 1 \in 1 .. l + 1 /\ p[n + 1] = q[n]
        BY <1>1, <1>4
      <3> QED
        BY <3>1, <3>2
    <2>3. CASE b \in A /\ \A n \in 1 .. l : Older(b, q[n])
      <3>1. ASSUME NEW n \in 1 .. l + 1
            PROVE  Older(b, p[n])
        <4>1. CASE n = 1
          BY <1>4, <2>3, <4>1
        <4>2. CASE n # 1
          <5>1. n - 1 \in 1 .. l /\ p[n] = q[n - 1]
            BY <1>1, <1>4, <4>2
          <5> QED
            BY <2>3, <5>1
        <4> QED
          BY <4>1, <4>2
      <3> QED
        BY <3>1
    <2>4. b \in A => (\E n \in 1 .. l : q[n] = b) \/ (\A n \in 1 .. l : Older(b, q[n]))
      BY DEF SetRight, l
    <2> QED
      BY <2>1, <2>2, <2>3, <2>4 DEF B
  <1>9. CASE l + 1 <= w
    <2>1. InsertInto(q, h, w) = p
      BY <1>1, <1>4, <1>9 DEF InsertInto, p
    <2>2. l + 1 = IF c + 1 < w THEN c + 1 ELSE w
      BY <1>1, <1>5, <1>6, <1>9
    <2> QED
      BY <1>4, <1>5, <1>7, <1>8, <2>1, <2>2 DEF SetRight, B
  <1>10. CASE l + 1 > w
    <2> DEFINE r == Front(p)
    <2>1. l = w
      BY <1>1, <1>5, <1>6, <1>10
    <2>2. InsertInto(q, h, w) = r
      BY <1>1, <1>4, <1>10 DEF InsertInto, p
    <2>3. r \in Seq(B) /\ Len(r) = l /\ \A n \in 1 .. l : r[n] = p[n]
      <3> DEFINE last == Len(p) - 1
      <3>1. last = l /\ last \in Int
        BY <1>1, <1>4
      <3>2. \A n \in 1 .. last : p[n] \in B
        BY <1>1, <1>4, <3>1, ElementOfSeq
      <3>3. r = SubSeq(p, 1, last)
        BY DEF Front
      <3> HIDE DEF last, r
      <3>4. /\ r \in Seq(B)
            /\ Len(r) = IF 1 <= last THEN last - 1 + 1 ELSE 0
            /\ \A n \in 1 .. last - 1 + 1 : r[n] = p[1 + n - 1]
        BY <3>1, <3>2, <3>3, SubSeqProperties
      <3>5. Len(r) = l
        BY <1>1, <3>1, <3>4
      <3>6. ASSUME NEW n \in 1 .. l
            PROVE  r[n] = p[n]
        <4>1. n \in 1 .. last - 1 + 1 /\ 1 + n - 1 = n
          BY <1>1, <3>1
        <4> QED
          BY <3>4, <4>1
      <3> QED
        BY <3>4, <3>5, <3>6
    <2> HIDE DEF r
    <2>4. \A n \in 1 .. l : n \in 1 .. l + 1
      BY <1>1
    <2>5. ASSUME NEW m \in 1 .. l, NEW n \in 1 .. l, m < n
          PROVE  Older(r[n], r[m])
      BY <1>7, <2>3, <2>4, <2>5
    <2>6. l = IF c + 1 < w THEN c + 1 ELSE w
      BY <1>5, <1>6, <2>1
    <2>7. ASSUME NEW b \in B
          PROVE  (\E n \in 1 .. l : r[n] = b) \/ (\A n \in 1 .. l : Older(b, r[n]))
      <3>1. CASE \A n \in 1 .. l + 1 : Older(b, p[n])
        BY <2>3, <2>4, <3>1
      <3>2. CASE \E n \in 1 .. l + 1 : p[n] = b
        <4>1. PICK n \in 1 .. l + 1 : p[n] = b
          BY <3>2
        <4>2. CASE n = l + 1
          <5>1. ASSUME NEW k \in 1 .. l
                PROVE  Older(b, r[k])
            <6>1. k \in 1 .. l + 1 /\ k < n /\ n \in 1 .. l + 1
              BY <1>1, <4>2
            <6> QED
              BY <1>7, <2>3, <4>1, <6>1
          <5> QED
            BY <5>1
        <4>3. CASE n # l + 1
          <5>1. n \in 1 .. l
            BY <1>1, <4>3
          <5> QED
            BY <2>3, <4>1, <5>1
        <4> QED
          BY <4>2, <4>3
      <3> QED
        BY <1>8, <3>1, <3>2
    <2> QED
      BY <1>5, <2>2, <2>3, <2>5, <2>6, <2>7 DEF SetRight, B
  <1> QED
    BY <1>1, <1>9, <1>10

------------------------------------------------------------------------------
(* The sets of gem5.                                                        *)

Misses(e, b) == \A n \in 1 .. Len(e) : e[n] # b

\* The lines of a gem5 set that its slice has inserted.
Arrived(s, i) == {b \in InSet(s, i) : Misses(files[s], b)}

LEMMA GeometryIsSane ==
  ASSUME GeometryTyped
  PROVE  /\ geometry.slices \in Nat \ {0} /\ geometry.sets \in Nat \ {0}
         /\ geometry.ways \in Nat \ {0}
         /\ \A b \in Nat : SliceId(b) \in SliceIds /\ SetId(b) \in 0 .. geometry.sets - 1
  <1> DEFINE L == geometry.slices
             T == geometry.sets
  <1>1. L \in Nat \ {0} /\ T \in Nat \ {0} /\ geometry.ways \in Nat \ {0}
    BY RestoreAssumption DEF GeometryTyped
  <1>2. \A b : SliceId(b) = b % L /\ SetId(b) = (b \div L) % T /\ SliceIds = 0 .. L - 1
    BY DEF SliceId, SetId, SliceIds
  <1> HIDE DEF L, T
  <1>3. ASSUME NEW b \in Nat
        PROVE  b % L \in 0 .. L - 1 /\ (b \div L) % T \in 0 .. T - 1
    <2>1. b % L \in 0 .. L - 1 /\ b \div L \in Int
      BY <1>1
    <2> QED
      BY <1>1, <2>1
  <1> QED
    BY <1>1, <1>2, <1>3 DEF L, T

LEMMA QuotientParts ==
  ASSUME NEW x \in Nat, NEW d \in Nat \ {0}
  PROVE  x \div d \in Nat /\ x % d \in 0 .. d - 1 /\ x = d * (x \div d) + (x % d)
  OBVIOUS

LEMMA RemainderUnique ==
  ASSUME NEW d \in Nat \ {0}, NEW x \in Int, NEW q \in Int, NEW r \in 0 .. d - 1, x = d * q + r
  PROVE  x % d = r
  OBVIOUS

\* If gem5's index refines the exported one, the lines of a gem5 set were in one set of
\* the exported cache.
LEMMA SetsShareASource ==
  ASSUME GeometryTyped, SetsAreFiner, NEW a \in Nat, NEW b \in Nat,
         SliceId(a) = SliceId(b), SetId(a) = SetId(b)
  PROVE  a % SourceSets = b % SourceSets
  <1> DEFINE L == geometry.slices
             T == geometry.sets
             K == SourceSets
             s == SliceId(a)
             i == SetId(a)
             low == L * i + s
  <1>1. L \in Nat \ {0} /\ T \in Nat \ {0} /\ K \in Nat \ {0}
    BY GeometryIsSane, RestoreAssumption
  <1>2. (L * T) % K = 0
    BY DEF SetsAreFiner
  <1>3. s \in Nat /\ i \in Nat
    BY GeometryIsSane DEF SliceIds
  <1>4. /\ a % L = s /\ b % L = s
        /\ (a \div L) % T = i /\ (b \div L) % T = i
    BY DEF SliceId, SetId
  <1> HIDE DEF L, T, K, s, i, low
  <1>5. L * T \in Nat /\ low \in Nat
    BY <1>1, <1>3 DEF low
  <1>6. PICK c \in Nat : L * T = K * c
    <2>1. (L * T) \div K \in Nat /\ L * T = K * ((L * T) \div K) + 0
      BY <1>1, <1>2, <1>5, QuotientParts
    <2> DEFINE c == (L * T) \div K
    <2>2. c \in Nat /\ L * T = K * c + 0
      BY <2>1
    <2> HIDE DEF c
    <2>3. K * c + 0 = K * c
      BY <1>1, <2>2
    <2> QED
      BY <2>2, <2>3
  <1>7. ASSUME NEW x \in Nat, x % L = s, (x \div L) % T = i
        PROVE  x % K = low % K
    <2> DEFINE u == x \div L
               v == u \div T
               e == low \div K
               r == low % K
    <2>1. u \in Nat /\ x = L * u + s
      BY <1>1, <1>7, QuotientParts
    <2>2. v \in Nat /\ u = T * v + i
      BY <1>1, <1>7, <2>1, QuotientParts
    <2>3. e \in Nat /\ r \in 0 .. K - 1 /\ low = K * e + r
      BY <1>1, <1>5, QuotientParts
    <2> HIDE DEF u, v, e, r
    <2>4. x = (L * T) * v + (L * i + s)
      BY <1>1, <1>3, <2>1, <2>2
    <2>5. x = (K * c) * v + (K * e + r)
      BY <1>6, <2>3, <2>4 DEF low
    <2>6. r \in Int
      BY <1>1, <2>3
    <2>7. x = K * (c * v + e) + r
      BY <1>1, <2>2, <2>3, <2>5, <2>6
    <2>8. c * v + e \in Int
      BY <2>2, <2>3
    <2> DEFINE z == c * v + e
    <2>9. x % K = r
      <3>1. z \in Int /\ x = K * z + r
        BY <2>7, <2>8
      <3> HIDE DEF z
      <3>2. x \in Int
        OBVIOUS
      <3> QED
        BY <1>1, <2>3, <3>1, <3>2, RemainderUnique
    <2> QED
      BY <2>9 DEF r
  <1>8. a % K = low % K /\ b % K = low % K
    BY <1>4, <1>7
  <1> QED
    BY <1>8 DEF K

------------------------------------------------------------------------------
(* The inductive invariant.                                                 *)

WithBit(m) == {b \in Lines : source[b].modified = m}

\* The file of a slice: its lines not yet inserted, in order, all younger than the lines
\* of their slice that are.
FileRight(s) ==
    /\ files[s] \in Seq(InSlice(s))
    /\ \A m, n \in 1 .. Len(files[s]) : m < n => Older(files[s][m], files[s][n])
    /\ \A b \in InSlice(s) :
           \/ \E n \in 1 .. Len(files[s]) : files[s][n] = b
           \/ \A n \in 1 .. Len(files[s]) : Older(b, files[s][n])

SlicesRight ==
    \A s \in SliceIds :
        /\ FileRight(s)
        /\ \A i \in 0 .. geometry.sets - 1 : SetRight(slice[s][i], Arrived(s, i), geometry.ways)

\* Functions on all slices and sets, so that an update is one.
Shaped ==
    /\ files = [s \in SliceIds |-> files[s]]
    /\ slice = [s \in SliceIds |-> [i \in 0 .. geometry.sets - 1 |-> slice[s][i]]]

RestoreInv ==
    /\ SourceTyped /\ GeometryTyped /\ Shaped
    /\ step = "merge" =>
           /\ ListsInOrder(clean, WithBit(FALSE))
           /\ ListsInOrder(modified, WithBit(TRUE))
    /\ step = "split" => ListsInOrder(selected, Lines)
    /\ step # "insert" => slice = Empty
    /\ step = "insert" => SlicesRight

LEMMA LinesHaveABit ==
  ASSUME SourceTyped
  PROVE  /\ WithBit(FALSE) \cup WithBit(TRUE) = Lines
         /\ {b \in DOMAIN source : ~source[b].modified} = WithBit(FALSE)
         /\ {b \in DOMAIN source : source[b].modified} = WithBit(TRUE)
  <1>1. PICK bs \in SUBSET Blocks : source \in [bs -> [age: Ages, modified: BOOLEAN]]
    BY DEF SourceTyped
  <1>2. ASSUME NEW b \in Lines
        PROVE  source[b].modified \in BOOLEAN
    BY <1>1, <1>2 DEF Lines
  <1>3. \A b \in Lines : /\ source[b].modified = TRUE \/ source[b].modified = FALSE
                         /\ ~source[b].modified <=> source[b].modified = FALSE
                         /\ source[b].modified <=> source[b].modified = TRUE
    BY <1>2
  <1> QED
    BY <1>3 DEF WithBit, Lines

\* Before the first insertion the empty sets are right.
LEMMA EmptySetsAreRight ==
  ASSUME GeometryTyped, NEW w \in Nat \ {0}
  PROVE  SetRight(<<>>, {}, w)
  <1>1. <<>> \in Seq({}) /\ Len(<<>>) = 0 /\ Cardinality({}) = 0
    BY FS_EmptySet
  <1> QED
    BY <1>1 DEF SetRight

LEMMA InitRestoreInv == RestoreInit => RestoreInv
  BY DEF RestoreInit, RestoreInv, SourceTyped, GeometryTyped, Shaped, Empty

LEMMA SortKeeps ==
  ASSUME RestoreInv, SortLines
  PROVE  RestoreInv'
  <1>1. /\ step' = "merge" /\ UNCHANGED <<source, geometry, files, slice>>
        /\ clean' = Ordered({b \in DOMAIN source : ~source[b].modified})
        /\ modified' = Ordered({b \in DOMAIN source : source[b].modified})
    BY DEF SortLines
  <1>2. SourceTyped /\ GeometryTyped /\ Shaped /\ slice = Empty
    BY DEF RestoreInv, SortLines
  <1>3. WithBit(FALSE) \in SUBSET Lines /\ WithBit(TRUE) \in SUBSET Lines
    BY DEF WithBit
  <1>4. ListsInOrder(clean', WithBit(FALSE)) /\ ListsInOrder(modified', WithBit(TRUE))
    BY <1>1, <1>2, <1>3, LinesHaveABit, OrderedLists
  <1>5. ListsInOrder(clean, WithBit(FALSE))' /\ ListsInOrder(modified, WithBit(TRUE))'
    <2>1. \A a, b : Older(a, b)' <=> Older(a, b)
      BY <1>1 DEF Older
    <2>2. WithBit(FALSE)' = WithBit(FALSE) /\ WithBit(TRUE)' = WithBit(TRUE)
      BY <1>1 DEF WithBit, Lines
    <2>3. ListsInOrder(clean, WithBit(FALSE))'
      BY <1>4, <2>1, <2>2 DEF ListsInOrder
    <2>4. ListsInOrder(modified, WithBit(TRUE))'
      BY <1>4, <2>1, <2>2 DEF ListsInOrder
    <2> QED
      BY <2>3, <2>4
  <1>6. (SourceTyped /\ GeometryTyped /\ Shaped /\ slice = Empty)'
    BY <1>1, <1>2 DEF SourceTyped, GeometryTyped, Shaped, Empty, SliceIds
  <1> QED
    BY <1>1, <1>5, <1>6 DEF RestoreInv

LEMMA MergeKeeps ==
  ASSUME RestoreInv, MergeLines
  PROVE  RestoreInv'
  <1>1. /\ step' = "split" /\ UNCHANGED <<source, geometry, files, slice>>
        /\ selected' = Ordered(ToSet(clean \o modified))
    BY DEF MergeLines
  <1>2. /\ SourceTyped /\ GeometryTyped /\ Shaped /\ slice = Empty
        /\ ListsInOrder(clean, WithBit(FALSE)) /\ ListsInOrder(modified, WithBit(TRUE))
    BY DEF RestoreInv, MergeLines
  <1>3. ToSet(clean \o modified) = Lines
    <2>1. ToSet(clean \o modified) = WithBit(FALSE) \cup WithBit(TRUE)
      BY <1>2, ConcatMembers
    <2> QED
      BY <1>2, <2>1, LinesHaveABit, Zenon
  <1>4. ListsInOrder(selected', Lines)
    BY <1>1, <1>2, <1>3, OrderedLists
  <1>5. ListsInOrder(selected, Lines)'
    <2>1. (\A a, b : Older(a, b)' <=> Older(a, b)) /\ Lines' = Lines
      BY <1>1 DEF Older, Lines
    <2> QED
      BY <1>4, <2>1 DEF ListsInOrder
  <1>6. (SourceTyped /\ GeometryTyped /\ Shaped /\ slice = Empty)'
    BY <1>1, <1>2 DEF SourceTyped, GeometryTyped, Shaped, Empty, SliceIds
  <1> QED
    BY <1>1, <1>5, <1>6 DEF RestoreInv

LEMMA SplitKeeps ==
  ASSUME RestoreInv, SplitLines
  PROVE  RestoreInv'
  <1>1. /\ step' = "insert" /\ UNCHANGED <<source, geometry, slice>>
        /\ files' = [s \in SliceIds |-> FileOf(s)]
    BY DEF SplitLines
  <1>2. /\ SourceTyped /\ GeometryTyped /\ Shaped /\ slice = Empty
        /\ ListsInOrder(selected, Lines)
    BY DEF RestoreInv, SplitLines
  <1>3. ASSUME NEW s \in SliceIds
        PROVE  FileRight(s)'
    <2>1. ListsInOrder(files'[s], InSlice(s))
      BY <1>1, <1>2, FilesKeepTheOrder
    <2> QED
      BY <1>1, <2>1 DEF FileRight, ListsInOrder, Older, InSlice, Lines, SliceId
  <1>4. ASSUME NEW s \in SliceIds, NEW i \in 0 .. geometry.sets - 1
        PROVE  SetRight(slice[s][i], Arrived(s, i), geometry.ways)'
    <2>1. \A b \in InSlice(s) : \E n \in 1 .. Len(files'[s]) : files'[s][n] = b
      BY <1>1, <1>2, FilesKeepTheOrder DEF ListsInOrder
    <2>2. InSet(s, i) \subseteq InSlice(s)
      BY DEF InSet, InSlice, Lines
    <2>3. Arrived(s, i)' = {b \in InSet(s, i) : Misses(files'[s], b)}
      BY <1>1 DEF Arrived, Misses, InSet, SliceId, SetId
    <2>4. Arrived(s, i)' = {}
      BY <2>1, <2>2, <2>3 DEF Misses
    <2>5. slice'[s][i] = <<>>
      BY <1>1, <1>2 DEF Empty
    <2>6. SetRight(<<>>, {}, geometry.ways)
      BY <1>2, GeometryIsSane, EmptySetsAreRight
    <2> QED
      BY <1>1, <2>4, <2>5, <2>6 DEF SetRight, Older
  <1>5. (SourceTyped /\ GeometryTyped /\ Shaped)'
    BY <1>1, <1>2 DEF SourceTyped, GeometryTyped, Shaped, Empty, SliceIds
  <1>6. SlicesRight'
    BY <1>1, <1>3, <1>4 DEF SlicesRight, SliceIds
  <1> QED
    BY <1>1, <1>5, <1>6 DEF RestoreInv

\* An insertion takes the first line of a file; it is younger than all before it and
\* older than the rest of the file.
LEMMA HeadIsNext ==
  ASSUME RestoreInv, step = "insert", NEW s \in SliceIds, files[s] # <<>>
  PROVE  /\ Head(files[s]) \in InSlice(s) /\ Head(files[s]) = files[s][1]
         /\ Tail(files[s]) \in Seq(InSlice(s))
         /\ Len(files[s]) \in Nat \ {0} /\ Len(Tail(files[s])) = Len(files[s]) - 1
         /\ \A n \in 1 .. Len(Tail(files[s])) : Tail(files[s])[n] = files[s][n + 1]
         /\ \A n \in 1 .. Len(Tail(files[s])) : Older(Head(files[s]), Tail(files[s])[n])
         /\ \A n \in 1 .. Len(Tail(files[s])) : Tail(files[s])[n] # Head(files[s])
  <1> DEFINE f == files[s]
             h == Head(f)
             t == Tail(f)
  <1>1. SourceTyped /\ FileRight(s)
    BY DEF RestoreInv, SlicesRight
  <1>2. f \in Seq(InSlice(s)) /\ f # <<>>
    BY <1>1 DEF FileRight
  <1>3. /\ h \in InSlice(s) /\ t \in Seq(InSlice(s)) /\ Len(t) = Len(f) - 1
        /\ \A n \in 1 .. Len(t) : t[n] = f[n + 1]
    BY <1>2, HeadTailProperties
  <1>4. Len(f) \in Nat \ {0} /\ h = f[1]
    BY <1>2, EmptySeq
  <1>5. \A m, n \in 1 .. Len(f) : m < n => Older(f[m], f[n])
    BY <1>1 DEF FileRight
  <1> HIDE DEF f, h, t
  <1>6. ASSUME NEW n \in 1 .. Len(t)
        PROVE  Older(h, t[n])
    <2>1. 1 \in 1 .. Len(f) /\ n + 1 \in 1 .. Len(f) /\ 1 < n + 1
      BY <1>3, <1>4
    <2>2. Older(f[1], f[n + 1])
      BY <1>5, <2>1
    <2> QED
      BY <1>3, <1>4, <2>2
  <1>7. ~Older(h, h)
    BY <1>1, <1>3, OlderIsStrict DEF InSlice
  <1>8. \A n \in 1 .. Len(t) : t[n] # h
    BY <1>6, <1>7
  <1> QED
    BY <1>3, <1>4, <1>6, <1>8 DEF f, h, t

LEMMA InsertKeeps ==
  ASSUME RestoreInv, NEW s \in SliceIds, Insert(s)
  PROVE  RestoreInv'
  <1> DEFINE f == files[s]
             t == Tail(f)
  <1>0. PICK h, i0 : h = Head(f) /\ i0 = SetId(h)
    OBVIOUS
  <1>1. /\ step = "insert" /\ f # <<>>
        /\ files' = [files EXCEPT ![s] = Tail(@)]
        /\ slice' = [slice EXCEPT ![s][i0] = InsertInto(@, h, geometry.ways)]
        /\ UNCHANGED <<source, geometry, step>>
    BY <1>0 DEF Insert, InsertInto
  <1>2. SourceTyped /\ GeometryTyped /\ Shaped /\ SlicesRight
    BY <1>1 DEF RestoreInv
  <1>3. /\ h \in InSlice(s) /\ h = f[1]
        /\ t \in Seq(InSlice(s))
        /\ Len(f) \in Nat \ {0} /\ Len(t) = Len(f) - 1
        /\ \A n \in 1 .. Len(t) : t[n] = f[n + 1]
        /\ \A n \in 1 .. Len(t) : Older(h, t[n])
        /\ \A n \in 1 .. Len(t) : t[n] # h
    BY <1>0, <1>1, HeadIsNext
  <1>4. /\ FileRight(s)
        /\ \A i \in 0 .. geometry.sets - 1 : SetRight(slice[s][i], Arrived(s, i), geometry.ways)
    BY <1>2 DEF SlicesRight
  <1>5. i0 \in 0 .. geometry.sets - 1 /\ h \in Lines /\ SliceId(h) = s
    BY <1>0, <1>2, <1>3, LinesAreNumbers, GeometryIsSane DEF InSlice
  <1>6. files'[s] = t /\ \A r \in SliceIds : r # s => files'[r] = files[r]
    <2>1. DOMAIN files = SliceIds
      BY <1>2 DEF Shaped
    <2> QED
      BY <1>1, <2>1
  <1>7. /\ slice'[s][i0] = InsertInto(slice[s][i0], h, geometry.ways)
        /\ \A i \in 0 .. geometry.sets - 1 : i # i0 => slice'[s][i] = slice[s][i]
        /\ \A r \in SliceIds : r # s => slice'[r] = slice[r]
    <2>1. DOMAIN slice = SliceIds /\ \A r \in SliceIds : DOMAIN slice[r] = 0 .. geometry.sets - 1
      BY <1>2 DEF Shaped
    <2> HIDE DEF f
    <2> QED
      BY <1>1, <1>5, <2>1
  <1>8. Shaped'
    <2>1. /\ files = [r \in SliceIds |-> files[r]]
          /\ slice = [r \in SliceIds |-> [i \in 0 .. geometry.sets - 1 |-> slice[r][i]]]
      BY <1>2 DEF Shaped
    <2>2. SliceIds' = SliceIds /\ geometry' = geometry
      BY <1>1 DEF SliceIds
    <2> HIDE DEF f
    <2>3. files' = [r \in SliceIds |-> files'[r]]
      BY <1>1, <2>1
    <2>4. DOMAIN slice' = SliceIds /\ slice' = [r \in SliceIds |-> slice'[r]]
      BY <1>1, <2>1
    <2>5. ASSUME NEW r \in SliceIds
          PROVE  slice'[r] = [i \in 0 .. geometry.sets - 1 |-> slice'[r][i]]
      BY <1>1, <2>1
    <2>6. slice' = [r \in SliceIds |-> [i \in 0 .. geometry.sets - 1 |-> slice'[r][i]]]
      BY <2>4, <2>5
    <2> QED
      BY <2>2, <2>3, <2>6 DEF Shaped
  <1>9. /\ \A a, b : Older(a, b)' <=> Older(a, b)
        /\ \A r : InSlice(r)' = InSlice(r)
        /\ \A r, i : InSet(r, i)' = InSet(r, i)
        /\ SliceIds' = SliceIds
        /\ geometry' = geometry
    BY <1>1 DEF Older, InSlice, Lines, SliceId, SetId, InSet, SliceIds
  <1> HIDE DEF f, t
  <1>10. FileRight(s)'
    <2>1. \A m, n \in 1 .. Len(t) : m < n => Older(t[m], t[n])
      <3> SUFFICES ASSUME NEW m \in 1 .. Len(t), NEW n \in 1 .. Len(t), m < n
                   PROVE  Older(t[m], t[n])
        OBVIOUS
      <3>1. m + 1 \in 1 .. Len(f) /\ n + 1 \in 1 .. Len(f) /\ m + 1 < n + 1
        BY <1>3
      <3>2. Older(f[m + 1], f[n + 1])
        BY <1>4, <3>1 DEF FileRight, f
      <3> QED
        BY <1>3, <3>2
    <2>2. ASSUME NEW b \in InSlice(s)
          PROVE  (\E n \in 1 .. Len(t) : t[n] = b) \/ (\A n \in 1 .. Len(t) : Older(b, t[n]))
      <3>1. CASE \E n \in 1 .. Len(f) : f[n] = b
        <4>1. PICK n \in 1 .. Len(f) : f[n] = b
          BY <3>1
        <4>2. CASE n = 1
          BY <1>3, <4>1, <4>2
        <4>3. CASE n # 1
          <5>1. n - 1 \in 1 .. Len(t) /\ (n - 1) + 1 = n
            BY <1>3, <4>3
          <5>2. t[n - 1] = b
            BY <1>3, <4>1, <5>1
          <5> QED
            BY <5>1, <5>2
        <4> QED
          BY <4>2, <4>3
      <3>2. CASE \A n \in 1 .. Len(f) : Older(b, f[n])
        <4>1. ASSUME NEW n \in 1 .. Len(t)
              PROVE  Older(b, t[n])
          <5>1. n + 1 \in 1 .. Len(f) /\ t[n] = f[n + 1]
            BY <1>3
          <5> QED
            BY <3>2, <5>1
        <4> QED
          BY <4>1
      <3> QED
        BY <1>4, <3>1, <3>2 DEF FileRight, f
    <2> QED
      BY <1>3, <1>6, <1>9, <2>1, <2>2 DEF FileRight
  <1>11. h \in InSet(s, i0)
    BY <1>0, <1>5 DEF InSet, Lines
  <1>12. ASSUME NEW b
         PROVE  Misses(t, b) <=> b = h \/ Misses(f, b)
    <2> USE DEF Misses
    <2>1. ASSUME b # h, \A n \in 1 .. Len(t) : t[n] # b, NEW n \in 1 .. Len(f)
          PROVE  f[n] # b
      <3>1. CASE n = 1
        BY <1>3, <2>1, <3>1
      <3>2. CASE n # 1
        <4>1. n - 1 \in 1 .. Len(t) /\ (n - 1) + 1 = n
          BY <1>3, <3>2
        <4>2. t[n - 1] = f[n]
          BY <1>3, <4>1
        <4> QED
          BY <2>1, <4>1, <4>2
      <3> QED
        BY <3>1, <3>2
    <2>2. ASSUME \A n \in 1 .. Len(f) : f[n] # b, NEW n \in 1 .. Len(t)
          PROVE  t[n] # b
      <3>1. n + 1 \in 1 .. Len(f) /\ t[n] = f[n + 1]
        BY <1>3
      <3> QED
        BY <2>2, <3>1
    <2> QED
      BY <1>3, <2>1, <2>2
  <1>13. h \notin Arrived(s, i0)
    <2>1. 1 \in 1 .. Len(f) /\ f[1] = h
      BY <1>3
    <2> QED
      BY <2>1 DEF Arrived, Misses, f
  <1>14. /\ Arrived(s, i0)' = Arrived(s, i0) \cup {h}
         /\ \A i : i # i0 => Arrived(s, i)' = Arrived(s, i)
    <2>1. \A i : Arrived(s, i)' = {b \in InSet(s, i) : Misses(t, b)}
      BY <1>6, <1>9 DEF Arrived, Misses
    <2>2. \A i : Arrived(s, i) = {b \in InSet(s, i) : Misses(f, b)}
      BY DEF Arrived, f
    <2>3. \A i : i # i0 => h \notin InSet(s, i)
      BY <1>0 DEF InSet
    <2>4. Arrived(s, i0)' = Arrived(s, i0) \cup {h}
      <3>1. \A b \in Arrived(s, i0)' : b \in Arrived(s, i0) \cup {h}
        BY <1>12, <2>1, <2>2
      <3>2. \A b \in Arrived(s, i0) \cup {h} : b \in Arrived(s, i0)'
        BY <1>11, <1>12, <2>1, <2>2
      <3> QED
        BY <3>1, <3>2
    <2>5. ASSUME NEW i, i # i0
          PROVE  Arrived(s, i)' = Arrived(s, i)
      <3>1. \A b \in InSet(s, i) : Misses(t, b) <=> Misses(f, b)
        BY <1>12, <2>3, <2>5
      <3> QED
        BY <2>1, <2>2, <3>1, Zenon
    <2> QED
      BY <2>4, <2>5
  <1>15. ASSUME NEW b \in Arrived(s, i0)
         PROVE  Older(b, h)
    <2>1. b \in InSlice(s) /\ \A n \in 1 .. Len(f) : f[n] # b
      BY DEF Arrived, Misses, InSet, InSlice, Lines, f
    <2>2. \A n \in 1 .. Len(f) : Older(b, f[n])
      BY <1>4, <2>1 DEF FileRight, f
    <2>3. 1 \in 1 .. Len(f) /\ f[1] = h
      BY <1>3
    <2> QED
      BY <2>2, <2>3
  <1>16. IsFiniteSet(Arrived(s, i0)) /\ geometry.ways \in Nat \ {0}
    <2>1. Arrived(s, i0) \in SUBSET Lines
      BY DEF Arrived, InSet, Lines
    <2> QED
      BY <1>2, <2>1, LinesAreNumbers, GeometryIsSane, FS_Subset
  <1>17. SetRight(slice'[s][i0], Arrived(s, i0)', geometry.ways)
    <2>1. SetRight(slice[s][i0], Arrived(s, i0), geometry.ways)
      BY <1>4, <1>5
    <2>2. SetRight(InsertInto(slice[s][i0], h, geometry.ways), Arrived(s, i0) \cup {h}, geometry.ways)
      BY <1>13, <1>15, <1>16, <2>1, InsertKeepsRight
    <2> QED
      BY <1>7, <1>14, <2>2
  <1>18. ASSUME NEW i \in 0 .. geometry.sets - 1
         PROVE  SetRight(slice[s][i], Arrived(s, i), geometry.ways)'
    <2>1. SetRight(slice'[s][i], Arrived(s, i)', geometry.ways)
      <3>1. CASE i = i0
        BY <1>17, <3>1
      <3>2. CASE i # i0
        <4>1. slice'[s][i] = slice[s][i] /\ Arrived(s, i)' = Arrived(s, i)
          BY <1>7, <1>14, <3>2, Zenon
        <4>2. SetRight(slice[s][i], Arrived(s, i), geometry.ways)
          BY <1>4
        <4> QED
          BY <4>1, <4>2
      <3> QED
        BY <3>1, <3>2
    <2> QED
      BY <1>9, <2>1 DEF SetRight
  <1>19. ASSUME NEW r \in SliceIds, r # s
         PROVE  /\ FileRight(r)'
                /\ \A i \in 0 .. geometry.sets - 1 :
                       SetRight(slice[r][i], Arrived(r, i), geometry.ways)'
    <2>1. files'[r] = files[r] /\ slice'[r] = slice[r]
      BY <1>6, <1>7, <1>19
    <2>2. FileRight(r)
      BY <1>2 DEF SlicesRight
    <2>3. FileRight(r)'
      BY <1>9, <2>1, <2>2 DEF FileRight
    <2>4. ASSUME NEW i \in 0 .. geometry.sets - 1
          PROVE  SetRight(slice[r][i], Arrived(r, i), geometry.ways)'
      <3>1. Arrived(r, i)' = Arrived(r, i)
        BY <1>9, <2>1 DEF Arrived, Misses
      <3>2. SetRight(slice[r][i], Arrived(r, i), geometry.ways)
        BY <1>2 DEF SlicesRight
      <3> QED
        BY <1>9, <2>1, <3>1, <3>2 DEF SetRight
    <2> QED
      BY <2>3, <2>4
  <1>20. SlicesRight'
    BY <1>9, <1>10, <1>18, <1>19 DEF SlicesRight
  <1>21. SourceTyped' /\ GeometryTyped' /\ step' = "insert"
    BY <1>1, <1>2 DEF SourceTyped, GeometryTyped
  <1> QED
    BY <1>8, <1>20, <1>21 DEF RestoreInv

LEMMA StutterKeeps ==
  ASSUME RestoreInv, UNCHANGED restoreVars
  PROVE  RestoreInv'
  <1>1. UNCHANGED <<source, geometry, step, clean, modified, selected, files, slice>>
    BY DEF restoreVars
  <1>2. /\ \A a, b : Older(a, b)' <=> Older(a, b)
        /\ \A r : InSlice(r)' = InSlice(r)
        /\ \A r, i : InSet(r, i)' = InSet(r, i)
        /\ \A m : WithBit(m)' = WithBit(m)
        /\ SliceIds' = SliceIds /\ Empty' = Empty /\ Lines' = Lines
    BY <1>1 DEF Older, InSlice, Lines, SliceId, SetId, InSet, SliceIds, Empty, WithBit
  <1>3. /\ ListsInOrder(clean, WithBit(FALSE)) => ListsInOrder(clean, WithBit(FALSE))'
        /\ ListsInOrder(modified, WithBit(TRUE)) => ListsInOrder(modified, WithBit(TRUE))'
        /\ ListsInOrder(selected, Lines) => ListsInOrder(selected, Lines)'
    BY <1>1, <1>2 DEF ListsInOrder
  <1>4. \A r : FileRight(r) => FileRight(r)'
    BY <1>1, <1>2 DEF FileRight
  <1>5. \A r, i : Arrived(r, i)' = Arrived(r, i)
    BY <1>1, <1>2 DEF Arrived, Misses
  <1>6. \A r, i : SetRight(slice[r][i], Arrived(r, i), geometry.ways) =>
                      SetRight(slice[r][i], Arrived(r, i), geometry.ways)'
    BY <1>1, <1>2, <1>5 DEF SetRight
  <1>7. SlicesRight => SlicesRight'
    BY <1>1, <1>2, <1>4, <1>6 DEF SlicesRight
  <1>8. SourceTyped' = SourceTyped /\ GeometryTyped' = GeometryTyped /\ Shaped' = Shaped
    BY <1>1, <1>2 DEF SourceTyped, GeometryTyped, Shaped
  <1> QED
    BY <1>1, <1>2, <1>3, <1>7, <1>8 DEF RestoreInv

------------------------------------------------------------------------------
(* The theorems.                                                            *)

\* The inductive invariant of the restore order, for any lines, ages, exported sets and
\* gem5 geometries, whatever the interleaving of the slices.
THEOREM RestoreInvariant == RestoreSpec => []RestoreInv
  <1>1. RestoreInv /\ [RestoreNext]_restoreVars => RestoreInv'
    <2> SUFFICES ASSUME RestoreInv, [RestoreNext]_restoreVars
                 PROVE  RestoreInv'
      OBVIOUS
    <2>1. CASE SortLines
      BY <2>1, SortKeeps
    <2>2. CASE MergeLines
      BY <2>2, MergeKeeps
    <2>3. CASE SplitLines
      BY <2>3, SplitKeeps
    <2>4. ASSUME NEW s \in SliceIds, Insert(s)
          PROVE  RestoreInv'
      BY <2>4, InsertKeeps
    <2>5. CASE UNCHANGED restoreVars
      BY <2>5, StutterKeeps
    <2> QED
      BY <2>1, <2>2, <2>3, <2>4, <2>5 DEF RestoreNext
  <1> QED
    BY <1>1, InitRestoreInv, PTL DEF RestoreSpec

\* What is right for a set whose slice has inserted its file is what RecencyRestored says:
\* within one exported set, older means not younger in age.
LEMMA RightSetsHaveRecency ==
  ASSUME RestoreInv, step = "insert", SetsAreFiner, NEW s \in SliceIds, files[s] = <<>>,
         NEW i \in 0 .. geometry.sets - 1, NEW q, q = slice[s][i]
  PROVE  /\ ToSet(q) \subseteq InSet(s, i)
         /\ Len(q) = (IF Cardinality(InSet(s, i)) < geometry.ways
                      THEN Cardinality(InSet(s, i)) ELSE geometry.ways)
         /\ \A m, n \in DOMAIN q : m < n => source[q[m]].age >= source[q[n]].age
         /\ \A b \in InSet(s, i) \ ToSet(q), n \in DOMAIN q : source[b].age <= source[q[n]].age
  <1>1. SourceTyped /\ GeometryTyped /\ SetRight(q, Arrived(s, i), geometry.ways)
    BY DEF RestoreInv, SlicesRight
  <1>2. Arrived(s, i) = InSet(s, i)
    <2>1. Len(files[s]) = 0
      BY EmptySeq
    <2> QED
      BY <2>1 DEF Arrived, Misses
  <1> DEFINE A == InSet(s, i)
  <1>3. /\ q \in Seq(A)
        /\ \A m, n \in 1 .. Len(q) : m < n => Older(q[n], q[m])
        /\ Len(q) = IF Cardinality(A) < geometry.ways THEN Cardinality(A) ELSE geometry.ways
        /\ \A b \in A : (\E n \in 1 .. Len(q) : q[n] = b) \/ (\A n \in 1 .. Len(q) : Older(b, q[n]))
    BY <1>1, <1>2 DEF SetRight
  <1>4. ASSUME NEW a \in A, NEW b \in A, Older(a, b)
        PROVE  source[a].age <= source[b].age
    <2>1. /\ a \in Lines /\ b \in Lines
          /\ SliceId(a) = SliceId(b) /\ SetId(a) = SetId(b)
      BY DEF InSet, Lines
    <2>2. /\ a \in Nat /\ b \in Nat
          /\ source[a].age \in Nat /\ source[b].age \in Nat
          /\ a % SourceSets \in Nat /\ b % SourceSets \in Nat
      BY <1>1, <2>1, LinesAreNumbers
    <2>3. a % SourceSets = b % SourceSets
      BY <1>1, <2>1, <2>2, SetsShareASource
    <2>4. source[a].age < source[b].age \/ source[a].age = source[b].age
      BY <1>4, <2>2, <2>3 DEF Older
    <2> QED
      BY <2>2, <2>4
  <1>5. ASSUME NEW b \in A
        PROVE  source[b].age \in Nat
    BY <1>1, LinesAreNumbers DEF InSet, Lines
  <1> HIDE DEF A
  <1>6. DOMAIN q = 1 .. Len(q) /\ \A n \in 1 .. Len(q) : q[n] \in A
    BY <1>3, LenProperties, ElementOfSeq
  <1>7. ToSet(q) \subseteq A
    BY <1>6 DEF ToSet
  <1>8. ASSUME NEW m \in DOMAIN q, NEW n \in DOMAIN q, m < n
        PROVE  source[q[m]].age >= source[q[n]].age
    <2>1. q[m] \in A /\ q[n] \in A /\ Older(q[n], q[m])
      BY <1>3, <1>6, <1>8
    <2>2. source[q[n]].age <= source[q[m]].age
      BY <1>4, <2>1
    <2> QED
      BY <1>5, <2>1, <2>2
  <1>9. ASSUME NEW b \in A \ ToSet(q), NEW n \in DOMAIN q
        PROVE  source[b].age <= source[q[n]].age
    <2>1. ~ \E k \in 1 .. Len(q) : q[k] = b
      BY <1>6 DEF ToSet
    <2>2. q[n] \in A /\ Older(b, q[n])
      BY <1>3, <1>6, <2>1
    <2> QED
      BY <1>4, <2>2
  <1> QED
    BY <1>3, <1>7, <1>8, <1>9 DEF A

\* Inserting the files of _write_slice_addr_files, in any interleaving of the slices,
\* leaves in every gem5 set the youngest of its lines, as many as fit, youngest first,
\* provided gem5's index refines the exported one.
THEOREM RecencyIsRestored == RestoreSpec => []RecencyRestored
  <1>1. RestoreInv => RecencyRestored
    BY RightSetsHaveRecency DEF RecencyRestored
  <1> QED
    BY <1>1, RestoreInvariant, PTL
===============================================================================
