------------------------------ MODULE TageProofs ------------------------------
(***************************************************************************)
(* Proofs about the TAGE predictor, for tables of any number and size, any  *)
(* history lengths and any runs of branches.                                *)
(***************************************************************************)
EXTENDS Tage, FiniteSetTheorems, WellFoundedInduction, TLAPS

------------------------------------------------------------------------------
(* Words.                                                                   *)

LEMMA MixIsWord ==
  ASSUME NEW n \in Nat, NEW x \in Words(n), NEW y \in Words(n)
  PROVE  /\ Mix(x, y) \in Words(n)
         /\ \A i \in 0 .. n - 1 : Mix(x, y)[i] = (x[i] + y[i]) % 2
  BY DEF Mix, Words

LEMMA BitsIsWord ==
  ASSUME NEW m \in Nat, NEW x \in Words(m), NEW n \in Nat, NEW k \in Int
  PROVE  Bits(x, k, n) \in Words(n)
  BY DEF Bits, Words

LEMMA ShiftInIsWord ==
  ASSUME NEW m \in Nat, NEW n \in Nat, n <= m + 1, NEW x \in Words(m), NEW bit \in {0, 1}
  PROVE  ShiftIn(x, bit, n) \in Words(n)
  BY DEF ShiftIn, Words

LEMMA Parameters ==
  /\ LogEntries \in Nat \ {0} /\ PathBits \in Nat \ {0} /\ MaxHistory \in Nat \ {0}
  /\ PcBits \in Nat \ {0} /\ NumTables \in Nat \ {0} /\ Period \in Nat \ {0}
  /\ LogBimodal \in Nat /\ TagBits \in Nat /\ MaxBranches \in Nat
  /\ LogEntries >= NumTables - 1 /\ PathBits <= 2 * LogEntries
  BY TageAssumption

LEMMA BankParameters ==
  ASSUME NEW b \in Bank
  PROVE  /\ b \in Nat /\ b < NumTables
         /\ OLength(b) \in 1 .. MaxHistory - 1
         /\ ILength \in Nat \ {0}
         /\ \A k \in {0, 1} : TLength(k, b) \in Nat \ {0}
         /\ TLength(0, b) = TLength(1, b) + 1
  <1>1. b \in Nat /\ b < NumTables
    BY Parameters DEF Bank
  <1>2. OLength(b) \in 1 .. MaxHistory - 1
    BY TageAssumption DEF OLength
  <1>3. ILength \in Nat \ {0}
    BY Parameters DEF ILength
  <1> DEFINE half == (b + (NumTables % 2)) \div 2
  <1>4. half \in Nat
    BY <1>1, Parameters
  <1>5. TagBits > half + 1
    BY TageAssumption
  <1> HIDE DEF half
  <1>6. \A k \in {0, 1} : TagBits - half - k \in Nat \ {0}
    BY <1>4, <1>5, Parameters
  <1>7. \A k \in {0, 1} : TLength(k, b) = TagBits - half - k
    BY DEF TLength, half
  <1> QED
    BY <1>1, <1>2, <1>3, <1>4, <1>6, <1>7, Parameters

LEMMA RotatedIsWord ==
  ASSUME NEW a \in Words(LogEntries), NEW b \in Nat
  PROVE  Rotated(a, b) \in Words(LogEntries)
  <1>1. ASSUME NEW i \in 0 .. LogEntries - 1
        PROVE  a[(i - b) % LogEntries] \in {0, 1}
    <2>1. (i - b) % LogEntries \in 0 .. LogEntries - 1
      BY Parameters
    <2> QED
      BY <2>1 DEF Words
  <1> QED
    BY <1>1 DEF Rotated, Words

------------------------------------------------------------------------------
(* Folded histories.                                                        *)

Previous(j, clen) == IF j = 0 THEN clen - 1 ELSE j - 1

\* An update rotates the fold by one, adds the outcome that comes and takes away the
\* one that has grown too old.
LEMMA FoldUpdateBits ==
  ASSUME NEW clen \in Nat \ {0}, NEW olen \in 1 .. MaxHistory - 1,
         NEW comp \in Words(clen), NEW h \in Words(MaxHistory)
  PROVE  /\ FoldUpdate(comp, h, olen, clen) \in Words(clen)
         /\ \A j \in 0 .. clen - 1 :
                FoldUpdate(comp, h, olen, clen)[j] =
                    (comp[Previous(j, clen)] + (IF j = 0 THEN h[0] ELSE 0)
                        + (IF j = olen % clen THEN h[olen] ELSE 0)) % 2
  <1> DEFINE out == olen % clen
             shifted == ShiftIn(comp, h[0], clen + 1)
             left == [shifted EXCEPT ![out] = (@ + h[olen]) % 2]
             low == Bits(left, 0, clen)
             high == Bits(left, clen, clen)
  <1>1. h[0] \in {0, 1} /\ h[olen] \in {0, 1}
    BY Parameters DEF Words
  <1>2. out \in 0 .. clen - 1
    BY Parameters
  <1>3. FoldUpdate(comp, h, olen, clen) = Mix(low, high)
    BY DEF FoldUpdate
  <1> HIDE DEF out
  <1>4. /\ shifted \in Words(clen + 1)
        /\ shifted[0] = h[0]
        /\ \A j \in 1 .. clen : shifted[j] = comp[j - 1]
    BY <1>1 DEF ShiftIn, Words
  <1> HIDE DEF shifted
  <1>5. /\ left \in Words(clen + 1)
        /\ left[out] = (shifted[out] + h[olen]) % 2
        /\ \A j \in 0 .. clen : j # out => left[j] = shifted[j]
    <2>1. shifted[out] \in {0, 1}
      BY <1>2, <1>4 DEF Words
    <2>2. (shifted[out] + h[olen]) % 2 \in {0, 1}
      BY <1>1, <2>1
    <2> QED
      BY <1>2, <1>4, <2>2 DEF Words
  <1>6. left[clen] = comp[clen - 1]
    BY <1>2, <1>4, <1>5
  <1> HIDE DEF left
  <1>7. /\ low \in Words(clen) /\ high \in Words(clen)
        /\ \A j \in 0 .. clen - 1 : low[j] = left[j]
        /\ \A j \in 0 .. clen - 1 : high[j] = IF j = 0 THEN left[clen] ELSE 0
    BY <1>5 DEF Bits, Words
  <1> HIDE DEF low, high
  <1>8. ASSUME NEW j \in 0 .. clen - 1
        PROVE  Mix(low, high)[j] =
                   (comp[Previous(j, clen)] + (IF j = 0 THEN h[0] ELSE 0)
                        + (IF j = out THEN h[olen] ELSE 0)) % 2
    <2>1. Mix(low, high)[j] = (left[j] + high[j]) % 2
      BY <1>7, MixIsWord
    <2>2. comp[clen - 1] \in {0, 1} /\ (j > 0 => comp[j - 1] \in {0, 1})
      BY DEF Words
    <2>3. CASE j = 0
      <3>1. high[j] = comp[clen - 1] /\ Previous(j, clen) = clen - 1
        BY <1>6, <1>7, <2>3 DEF Previous
      <3>2. left[j] = (h[0] + (IF j = out THEN h[olen] ELSE 0)) % 2
        BY <1>1, <1>4, <1>5, <2>3
      <3> QED
        BY <1>1, <2>1, <2>2, <2>3, <3>1, <3>2
    <2>4. CASE j # 0
      <3>1. high[j] = 0 /\ Previous(j, clen) = j - 1
        BY <1>7, <2>4 DEF Previous
      <3>2. left[j] = (comp[j - 1] + (IF j = out THEN h[olen] ELSE 0)) % 2
        BY <1>1, <1>4, <1>5, <2>2, <2>4
      <3> QED
        BY <1>1, <2>1, <2>2, <2>4, <3>1, <3>2
    <2> QED
      BY <2>3, <2>4
  <1> QED
    BY <1>3, <1>7, <1>8, MixIsWord DEF out

LEMMA RemainderParts ==
  ASSUME NEW x \in Nat, NEW d \in Nat \ {0}
  PROVE  x \div d \in Int /\ x % d \in 0 .. d - 1 /\ x = d * (x \div d) + (x % d)
  OBVIOUS

LEMMA RemainderIs ==
  ASSUME NEW d \in Nat \ {0}, NEW x \in Int, NEW q \in Int, NEW r \in 0 .. d - 1, x = d * q + r
  PROVE  x % d = r
  OBVIOUS

LEMMA NextRemainder ==
  ASSUME NEW clen \in Nat \ {0}, NEW i \in Nat, NEW j \in 0 .. clen - 1
  PROVE  (i + 1) % clen = j <=> i % clen = Previous(j, clen)
  <1> DEFINE q == i \div clen
             r == i % clen
  <1>1. q \in Int /\ r \in 0 .. clen - 1 /\ i = clen * q + r
    BY RemainderParts
  <1>2. clen * q \in Int /\ clen * (q + 1) = clen * q + clen
    BY <1>1
  <1> HIDE DEF q, r
  <1>3. CASE r = clen - 1
    <2>1. i + 1 = clen * (q + 1) + 0
      BY <1>1, <1>2, <1>3
    <2>2. (i + 1) % clen = 0
      BY <1>1, <2>1, RemainderIs
    <2>3. r = Previous(j, clen) <=> j = 0
      BY <1>1, <1>3 DEF Previous
    <2> QED
      BY <2>2, <2>3 DEF r
  <1>4. CASE r # clen - 1
    <2>1. i + 1 = clen * q + (r + 1) /\ r + 1 \in 0 .. clen - 1
      BY <1>1, <1>2, <1>4
    <2>2. (i + 1) % clen = r + 1
      BY <1>1, <2>1, RemainderIs
    <2>3. r = Previous(j, clen) <=> j = r + 1
      BY <1>1, <1>4 DEF Previous
    <2> QED
      BY <2>2, <2>3 DEF r
  <1> QED
    BY <1>3, <1>4

\* The outcomes of h that are folded into bit j.
Folded(h, olen, clen, j) == {i \in 0 .. olen - 1 : i % clen = j /\ h[i] = 1}

\* One outcome later every folded outcome is one place older: the bit below counts them,
\* but for the newest and the one that has left.
LEMMA FoldedShift ==
  ASSUME NEW clen \in Nat \ {0}, NEW olen \in 1 .. MaxHistory - 1,
         NEW g \in Words(MaxHistory), NEW h \in Words(MaxHistory),
         \A i \in 1 .. MaxHistory - 1 : h[i] = g[i - 1],
         NEW j \in 0 .. clen - 1
  PROVE  /\ Cardinality(Folded(g, olen, clen, Previous(j, clen))) \in Nat
         /\ Cardinality(Folded(h, olen, clen, j)) =
                Cardinality(Folded(g, olen, clen, Previous(j, clen)))
                    + (IF j = 0 THEN h[0] ELSE 0)
                    - (IF j = olen % clen THEN h[olen] ELSE 0)
  <1> DEFINE old == Folded(g, olen, clen, Previous(j, clen))
             moved == {i \in 1 .. olen : i % clen = j /\ h[i] = 1}
             new == Folded(h, olen, clen, j)
             gone == moved \ {olen}
  <1>1. olen \in Nat /\ olen >= 1 /\ olen <= MaxHistory - 1 /\ MaxHistory \in Nat
    BY Parameters
  <1>2. IsFiniteSet(old) /\ IsFiniteSet(moved) /\ IsFiniteSet(new)
    <2>1. IsFiniteSet(0 .. olen)
      BY <1>1, FS_Interval
    <2>2. old \in SUBSET (0 .. olen) /\ moved \in SUBSET (0 .. olen) /\ new \in SUBSET (0 .. olen)
      BY <1>1 DEF Folded
    <2> QED
      BY <2>1, <2>2, FS_Subset
  <1>3. Cardinality(moved) = Cardinality(old)
    <2> DEFINE f == [i \in old |-> i + 1]
    <2>1. ASSUME NEW i \in 0 .. olen - 1
          PROVE  i \in old <=> i + 1 \in moved
      <3>1. i \in Nat /\ i + 1 \in 1 .. olen /\ i + 1 \in 1 .. MaxHistory - 1
        BY <1>1
      <3>2. (i + 1) % clen = j <=> i % clen = Previous(j, clen)
        BY <3>1, NextRemainder
      <3>3. h[i + 1] = g[i]
        BY <3>1
      <3> QED
        BY <3>1, <3>2, <3>3 DEF Folded
    <2>2. old \subseteq 0 .. olen - 1 /\ moved \subseteq 1 .. olen
      BY DEF Folded
    <2> HIDE DEF old, moved
    <2>3. f \in [old -> moved]
      BY <2>1, <2>2
    <2>4. \A x, y \in old : f[x] = f[y] => x = y
      BY <1>1, <2>2
    <2>5. \A y \in moved : \E x \in old : f[x] = y
      <3> SUFFICES ASSUME NEW y \in moved
                   PROVE  \E x \in old : f[x] = y
        OBVIOUS
      <3>1. y - 1 \in 0 .. olen - 1 /\ (y - 1) + 1 = y
        BY <1>1, <2>2
      <3>2. y - 1 \in old
        BY <2>1, <3>1
      <3> QED
        BY <3>1, <3>2
    <2>6. f \in Bijection(old, moved)
      BY <2>3, <2>4, <2>5 DEF Bijection, Injection, Surjection, IsInjective
    <2>7. ExistsBijection(old, moved)
      BY <2>6 DEF ExistsBijection
    <2> QED
      BY <1>2, <2>7, FS_Bijection
  <1>4. h[0] \in {0, 1} /\ h[olen] \in {0, 1}
    BY <1>1, Parameters DEF Words
  <1>5. /\ IsFiniteSet(gone)
        /\ Cardinality(gone) = Cardinality(moved) - (IF j = olen % clen THEN h[olen] ELSE 0)
    <2>1. olen \in moved <=> j = olen % clen /\ h[olen] = 1
      BY <1>1
    <2>2. /\ IsFiniteSet(gone)
          /\ Cardinality(gone) =
                 IF olen \in moved THEN Cardinality(moved) - 1 ELSE Cardinality(moved)
      BY <1>2, FS_RemoveElement
    <2>3. Cardinality(moved) \in Nat
      BY <1>2, FS_CardinalityType
    <2> HIDE DEF moved, gone
    <2> QED
      BY <1>4, <2>1, <2>2, <2>3
  <1>6. Cardinality(new) = Cardinality(gone) + (IF j = 0 THEN h[0] ELSE 0)
    <2>1. 0 % clen = 0
      <3>1. 0 = clen * 0 + 0 /\ 0 \in 0 .. clen - 1
        OBVIOUS
      <3> QED
        BY <3>1, RemainderIs
    <2>2. 0 \notin gone
      OBVIOUS
    <2>3. Cardinality(gone) \in Nat
      BY <1>5, FS_CardinalityType
    <2>4. CASE j = 0 /\ h[0] = 1
      <3>1. new = gone \cup {0}
        BY <1>1, <2>1, <2>4 DEF Folded
      <3>2. Cardinality(gone \cup {0}) = Cardinality(gone) + 1
        BY <1>5, <2>2, FS_AddElement
      <3> QED
        BY <2>4, <3>1, <3>2
    <2>5. CASE ~(j = 0 /\ h[0] = 1)
      <3>1. new = gone
        BY <1>1, <2>1, <2>5 DEF Folded
      <3>2. (IF j = 0 THEN h[0] ELSE 0) = 0
        BY <1>4, <2>5
      <3> HIDE DEF new, gone
      <3> QED
        BY <2>3, <3>1, <3>2
    <2> QED
      BY <2>4, <2>5
  <1>7. Cardinality(old) \in Nat
    BY <1>2, FS_CardinalityType
  <1> HIDE DEF old, moved, new, gone
  <1>8. Cardinality(new) = Cardinality(old) + (IF j = 0 THEN h[0] ELSE 0)
                              - (IF j = olen % clen THEN h[olen] ELSE 0)
    BY <1>3, <1>4, <1>5, <1>6, <1>7
  <1> QED
    BY <1>7, <1>8 DEF old, new

LEMMA FoldKept ==
  ASSUME NEW clen \in Nat \ {0}, NEW olen \in 1 .. MaxHistory - 1,
         NEW comp \in Words(clen), ghist \in Words(MaxHistory), NEW bit \in {0, 1},
         IsFold(comp, olen, clen)
  PROVE  LET h == ShiftIn(ghist, bit, MaxHistory)
         IN  \A j \in 0 .. clen - 1 :
                 FoldUpdate(comp, h, olen, clen)[j] = Cardinality(Folded(h, olen, clen, j)) % 2
  <1> DEFINE h == ShiftIn(ghist, bit, MaxHistory)
  <1>1. h \in Words(MaxHistory) /\ \A i \in 1 .. MaxHistory - 1 : h[i] = ghist[i - 1]
    BY Parameters DEF ShiftIn, Words
  <1> HIDE DEF h
  <1>2. ASSUME NEW j \in 0 .. clen - 1
        PROVE  FoldUpdate(comp, h, olen, clen)[j] = Cardinality(Folded(h, olen, clen, j)) % 2
    <2> DEFINE p == Previous(j, clen)
               n == Cardinality(Folded(ghist, olen, clen, p))
               new == IF j = 0 THEN h[0] ELSE 0
               gone == IF j = olen % clen THEN h[olen] ELSE 0
    <2>1. p \in 0 .. clen - 1
      BY DEF Previous
    <2>2. n \in Nat /\ Cardinality(Folded(h, olen, clen, j)) = n + new - gone
      BY <1>1, FoldedShift
    <2>3. comp[p] = n % 2
      BY <2>1 DEF IsFold, Folded
    <2>4. FoldUpdate(comp, h, olen, clen)[j] = (comp[p] + new + gone) % 2
      BY <1>1, FoldUpdateBits
    <2>5. new \in {0, 1} /\ gone \in {0, 1}
      BY <1>1, Parameters DEF Words
    <2> HIDE DEF n, new, gone, p
    <2>6. ((n % 2) + new + gone) % 2 = (n + new - gone) % 2
      BY <2>2, <2>5
    <2> QED
      BY <2>2, <2>3, <2>4, <2>6
  <1> QED
    BY <1>2 DEF h

------------------------------------------------------------------------------
(* Prediction.                                                              *)

LEMMA LeastNumber ==
  ASSUME NEW S \in SUBSET Nat, S # {}
  PROVE  \E m \in S : \A n \in S : m <= n
  <1>1. PICK m \in S : \A n \in S : <<n, m>> \notin OpToRel(<, Nat)
    BY NatLessThanWellFounded, WFMin
  <1>2. ASSUME NEW n \in S
        PROVE  m <= n
    <2>1. n \in Nat /\ m \in Nat
      OBVIOUS
    <2>2. ~(n < m)
      BY <1>1, <2>1 DEF OpToRel
    <2> QED
      BY <2>1, <2>2
  <1> QED
    BY <1>2

LEMMA GreatestBelow ==
  ASSUME NEW n \in Nat, NEW S \in SUBSET (0 .. n), S # {}
  PROVE  \E m \in S : \A k \in S : k <= m
  <1> DEFINE T == {i \in 0 .. n : n - i \in S}
  <1>1. PICK x \in S : TRUE
    OBVIOUS
  <1>2. n - x \in 0 .. n /\ n - (n - x) = x
    BY <1>1
  <1>3. T \in SUBSET Nat /\ T # {}
    <2>1. n - x \in T
      BY <1>1, <1>2
    <2>2. T \in SUBSET Nat
      OBVIOUS
    <2> HIDE DEF T
    <2> QED
      BY <2>1, <2>2
  <1>4. PICK m \in T : \A i \in T : m <= i
    BY <1>3, LeastNumber
  <1>5. m \in 0 .. n /\ n - m \in S
    BY <1>4
  <1>6. ASSUME NEW k \in S
        PROVE  k <= n - m
    <2>1. k \in 0 .. n /\ n - k \in 0 .. n /\ n - (n - k) = k
      OBVIOUS
    <2>2. n - k \in T
      BY <2>1
    <2>3. m <= n - k
      BY <1>4, <2>2
    <2> QED
      BY <1>5, <2>1, <2>3
  <1> QED
    BY <1>5, <1>6

Histories ==
    /\ ghist \in Words(MaxHistory) /\ path \in Words(PathBits)
    /\ \A b \in Bank :
           /\ chI[b] \in Words(ILength)
           /\ \A k \in {0, 1} : chT[k][b] \in Words(TLength(k, b))

LEMMA IndexTyped ==
  ASSUME Histories, NEW pc \in Pc, NEW b \in Bank
  PROVE  ComputeIndex(pc, b) \in Words(LogEntries)
  <1>1. b \in Nat /\ OLength(b) \in Nat /\ pc \in Words(PcBits)
    <2>1. pc \in Words(PcBits)
      BY TageAssumption
    <2> QED
      BY <2>1, BankParameters
  <1>2. path \in Words(PathBits) /\ chI[b] \in Words(LogEntries)
    BY DEF Histories, ILength
  <1> DEFINE size == IF OLength(b) >= PathBits THEN PathBits ELSE OLength(b)
             shift == LogEntries - NumTables + b + 1
             a == Bits(path, 0, size)
  <1>3. size \in Nat /\ shift \in Int
    BY <1>1, Parameters
  <1> HIDE DEF size, shift
  <1>4. Mix(Bits(pc, 0, LogEntries), Bits(pc, shift, LogEntries)) \in Words(LogEntries)
    BY <1>1, <1>3, Parameters, BitsIsWord, MixIsWord
  <1>5. a \in Words(size)
    BY <1>2, <1>3, Parameters, BitsIsWord
  <1> HIDE DEF a
  <1>6. Bits(a, 0, LogEntries) \in Words(LogEntries)
    BY <1>3, <1>5, Parameters, BitsIsWord
  <1>7. Rotated(Bits(a, LogEntries, LogEntries), b) \in Words(LogEntries)
    BY <1>1, <1>3, <1>5, Parameters, BitsIsWord, RotatedIsWord
  <1>8. Rotated(Mix(Bits(a, 0, LogEntries), Rotated(Bits(a, LogEntries, LogEntries), b)), b)
            \in Words(LogEntries)
    BY <1>1, <1>6, <1>7, Parameters, MixIsWord, RotatedIsWord
  <1>9. MixPath(b, size) \in Words(LogEntries)
    BY <1>8 DEF MixPath, a
  <1> QED
    BY <1>2, <1>4, <1>9, Parameters, MixIsWord DEF ComputeIndex, size, shift

LEMMA TagTyped ==
  ASSUME Histories, NEW pc \in Pc, NEW b \in Bank
  PROVE  ComputeTag(pc, b) \in Words(TLength(0, b))
  <1>1. pc \in Words(PcBits) /\ PcBits \in Nat
    BY TageAssumption
  <1>2. /\ chT[0][b] \in Words(TLength(0, b)) /\ chT[1][b] \in Words(TLength(1, b))
        /\ TLength(0, b) \in Nat /\ TLength(1, b) \in Nat
    BY BankParameters DEF Histories
  <1>3. Bits(pc, 0, TLength(0, b)) \in Words(TLength(0, b))
    BY <1>1, <1>2, BitsIsWord
  <1>4. Bits(chT[1][b], -1, TLength(0, b)) \in Words(TLength(0, b))
    BY <1>2, BitsIsWord
  <1> QED
    BY <1>2, <1>3, <1>4, MixIsWord DEF ComputeTag

LEMMA BimodalIndexTyped ==
  ASSUME NEW pc \in Pc
  PROVE  BimodalIndex(pc) \in Words(LogBimodal)
  <1>1. pc \in Words(PcBits) /\ PcBits \in Nat
    BY TageAssumption
  <1> QED
    BY <1>1, Parameters, BitsIsWord DEF BimodalIndex

LEMMA FirstHitTyped ==
  ASSUME NEW pc, NEW b
  PROVE  FirstHit(pc, b) \in Bank \cup {NoBank}
  <1> DEFINE hits == {x \in Bank : x >= b /\ EntryFor(pc, x).tag = ComputeTag(pc, x)}
  <1>1. CASE hits = {}
    BY <1>1 DEF FirstHit
  <1>2. CASE hits # {}
    <2>1. hits \in SUBSET Nat /\ hits \subseteq Bank
      BY DEF Bank
    <2>2. \E x \in hits : \A y \in hits : x <= y
      BY <1>2, <2>1, LeastNumber
    <2>3. FirstHit(pc, b) = CHOOSE x \in hits : \A y \in hits : x <= y
      BY <1>2 DEF FirstHit
    <2> HIDE DEF hits
    <2> QED
      BY <2>1, <2>2, <2>3
  <1> QED
    BY <1>1, <1>2

\* The provider is a table or none.
LEMMA ProviderTyped ==
  ASSUME NEW pc
  PROVE  /\ Prediction(pc).bank \in 0 .. NumTables
         /\ (Prediction(pc).bank # NoBank => Prediction(pc).bank \in Bank)
  <1>1. Prediction(pc).bank = FirstHit(pc, 0)
    BY DEF Prediction
  <1>2. FirstHit(pc, 0) \in Bank \cup {NoBank}
    BY FirstHitTyped
  <1>3. Bank \cup {NoBank} = 0 .. NumTables /\ NoBank \notin Bank
    BY Parameters DEF Bank, NoBank
  <1> QED
    BY <1>1, <1>2, <1>3

------------------------------------------------------------------------------
(* Training.                                                                *)

EntryOf(b) == [ctr: Counter, tag: Words(TLength(0, b)), ubit: 0 .. 3]

TableTyped(t) ==
    /\ t \in [Bank -> [Words(LogEntries) -> [ctr: Counter, tag: Tags, ubit: 0 .. 3]]]
    /\ \A b \in Bank : \A i \in Words(LogEntries) : t[b][i].tag \in Words(TLength(0, b))

SameTags(t, u) ==
    \A b \in Bank : \A i \in Words(LogEntries) : u[b][i].tag = t[b][i].tag

\* A table is typed entry by entry.
LEMMA TypedByEntries ==
  ASSUME NEW t, t = [b \in Bank |-> [i \in Words(LogEntries) |-> t[b][i]]],
         \A b \in Bank : \A i \in Words(LogEntries) : t[b][i] \in EntryOf(b)
  PROVE  TableTyped(t)
  <1>1. ASSUME NEW b \in Bank, NEW i \in Words(LogEntries)
        PROVE  /\ t[b][i] \in [ctr: Counter, tag: Tags, ubit: 0 .. 3]
               /\ t[b][i].tag \in Words(TLength(0, b))
    <2>1. Words(TLength(0, b)) \subseteq Tags
      BY DEF Tags
    <2>2. t[b][i] \in [ctr: Counter, tag: Words(TLength(0, b)), ubit: 0 .. 3]
      BY DEF EntryOf
    <2> QED
      BY <2>1, <2>2
  <1> QED
    BY <1>1 DEF TableTyped

LEMMA EntryTyped ==
  ASSUME NEW t, TableTyped(t), NEW b \in Bank, NEW i \in Words(LogEntries)
  PROVE  /\ t[b][i] \in EntryOf(b)
         /\ t[b][i].ctr \in Counter /\ t[b][i].ubit \in 0 .. 3
         /\ t[b][i].tag \in Words(TLength(0, b))
  <1>1. t[b][i] \in [ctr: Counter, tag: Tags, ubit: 0 .. 3]
    BY DEF TableTyped
  <1>2. t[b][i].tag \in Words(TLength(0, b))
    BY DEF TableTyped
  <1> QED
    BY <1>1, <1>2 DEF EntryOf

\* Writing one entry.
LEMMA EntryWritten ==
  ASSUME NEW t, TableTyped(t), NEW b \in Bank, NEW i \in Words(LogEntries), NEW e \in EntryOf(b)
  PROVE  /\ TableTyped([t EXCEPT ![b][i] = e])
         /\ \A c \in Bank : \A k \in Words(LogEntries) :
                [t EXCEPT ![b][i] = e][c][k] = IF c = b /\ k = i THEN e ELSE t[c][k]
  <1> DEFINE u == [t EXCEPT ![b][i] = e]
  <1>1. t \in [Bank -> [Words(LogEntries) -> [ctr: Counter, tag: Tags, ubit: 0 .. 3]]]
    BY DEF TableTyped
  <1>2. e \in [ctr: Counter, tag: Tags, ubit: 0 .. 3] /\ e.tag \in Words(TLength(0, b))
    <2>1. Words(TLength(0, b)) \subseteq Tags
      BY DEF Tags
    <2>2. e \in [ctr: Counter, tag: Words(TLength(0, b)), ubit: 0 .. 3]
      BY DEF EntryOf
    <2> QED
      BY <2>1, <2>2
  <1>3. ASSUME NEW c \in Bank, NEW k \in Words(LogEntries)
        PROVE  u[c][k] = IF c = b /\ k = i THEN e ELSE t[c][k]
    BY <1>1
  <1>4. u \in [Bank -> [Words(LogEntries) -> [ctr: Counter, tag: Tags, ubit: 0 .. 3]]]
    BY <1>1, <1>2
  <1> HIDE DEF u
  <1>5. ASSUME NEW c \in Bank, NEW k \in Words(LogEntries)
        PROVE  u[c][k].tag \in Words(TLength(0, c))
    <2>1. t[c][k].tag \in Words(TLength(0, c))
      BY DEF TableTyped
    <2> QED
      BY <1>2, <1>3, <2>1
  <1>6. TableTyped(u)
    BY <1>4, <1>5 DEF TableTyped
  <1> QED
    BY <1>3, <1>6 DEF u

\* Ageing clears usefulness bits and nothing else.
LEMMA AgeKeeps ==
  ASSUME NEW t, TableTyped(t), NEW n
  PROVE  TableTyped(Age(t, n)) /\ SameTags(t, Age(t, n))
  <1>1. CASE n % Period # 0
    <2>1. Age(t, n) = t
      BY <1>1 DEF Age
    <2> QED
      BY <2>1 DEF SameTags
  <1>2. CASE n % Period = 0
    <2> DEFINE keepHigh == (n \div Period) % 2 = 0
               masked(b, i) == IF keepHigh THEN 2 * (t[b][i].ubit \div 2) ELSE t[b][i].ubit % 2
               aged(b, i) == [t[b][i] EXCEPT !.ubit = masked(b, i)]
    <2>1. t \in [Bank -> [Words(LogEntries) -> [ctr: Counter, tag: Tags, ubit: 0 .. 3]]]
      BY DEF TableTyped
    <2>2. \A b \in Bank : DOMAIN t[b] = Words(LogEntries)
      BY <2>1
    <2>3. Age(t, n) = [b \in Bank |-> [i \in Words(LogEntries) |-> aged(b, i)]]
      BY <1>2, <2>2 DEF Age
    <2>4. ASSUME NEW b \in Bank, NEW i \in Words(LogEntries)
          PROVE  aged(b, i) \in EntryOf(b) /\ aged(b, i).tag = t[b][i].tag
      <3>1. t[b][i] \in EntryOf(b) /\ t[b][i].ubit \in 0 .. 3
        BY EntryTyped
      <3>2. t[b][i].ubit % 2 \in 0 .. 3 /\ 2 * (t[b][i].ubit \div 2) \in 0 .. 3
        BY <3>1
      <3>3. masked(b, i) \in 0 .. 3
        BY <3>2
      <3> HIDE DEF masked
      <3> QED
        BY <3>1, <3>3 DEF EntryOf
    <2> HIDE DEF aged
    <2> DEFINE u == Age(t, n)
    <2>5. \A b \in Bank : \A i \in Words(LogEntries) : u[b][i] = aged(b, i)
      BY <2>3
    <2>6. u = [b \in Bank |-> [i \in Words(LogEntries) |-> u[b][i]]]
      BY <2>3
    <2> HIDE DEF u
    <2>7. TableTyped(u) /\ SameTags(t, u)
      BY <2>4, <2>5, <2>6, TypedByEntries DEF SameTags
    <2> QED
      BY <2>7 DEF u
  <1> QED
    BY <1>1, <1>2

\* The provider learns: its counter saturates, and no tag changes.
LEMMA TeachKeeps ==
  ASSUME NEW t, TableTyped(t), Histories, NEW pc \in Pc, NEW taken \in BOOLEAN, NEW p,
         p.bank # NoBank => p.bank \in Bank
  PROVE  TableTyped(Teach(t, pc, taken, p)) /\ SameTags(t, Teach(t, pc, taken, p))
  <1>1. CASE p.bank = NoBank
    BY <1>1 DEF Teach, SameTags
  <1>2. CASE p.bank # NoBank
    <2> DEFINE b == p.bank
               i == ComputeIndex(pc, b)
               old == t[b][i]
               e == Taught(old, taken, p)
    <2>1. b \in Bank /\ i \in Words(LogEntries)
      BY <1>2, IndexTyped
    <2>2. old \in EntryOf(b) /\ old.ctr \in Counter /\ old.ubit \in 0 .. 3
      BY <2>1, EntryTyped
    <2>3. UpdateCounter(old.ctr, taken) \in Counter
      BY <2>2 DEF UpdateCounter, Counter
    <2>4. UsefulAfter(old.ubit, p.result = taken) \in 0 .. 3
      BY <2>2 DEF UsefulAfter
    <2>5. Teach(t, pc, taken, p) = [t EXCEPT ![b][i] = e]
      BY <1>2 DEF Teach
    <2>6. e \in EntryOf(b) /\ e.tag = old.tag
      <3> HIDE DEF b, i, old
      <3> QED
        BY <2>2, <2>3, <2>4 DEF EntryOf, Taught
    <2> HIDE DEF b, i, e
    <2>7. /\ TableTyped([t EXCEPT ![b][i] = e])
          /\ \A c \in Bank : \A k \in Words(LogEntries) :
                [t EXCEPT ![b][i] = e][c][k] = IF c = b /\ k = i THEN e ELSE t[c][k]
      BY <2>1, <2>6, EntryWritten
    <2>8. SameTags(t, [t EXCEPT ![b][i] = e])
      BY <2>6, <2>7 DEF SameTags
    <2> QED
      BY <2>5, <2>7, <2>8
  <1> QED
    BY <1>1, <1>2

LEMMA MinUbitIsLeast ==
  ASSUME TableTyped(gtable), Histories, NEW pc \in Pc, NEW p, p.bank \in 1 .. NumTables
  PROVE  /\ MinUbit(pc, p) \in 0 .. 3
         /\ \A b \in 0 .. p.bank - 1 : MinUbit(pc, p) <= EntryFor(pc, b).ubit
  <1> DEFINE below == 0 .. p.bank - 1
             ubits == {EntryFor(pc, b).ubit : b \in below}
  <1>1. below \subseteq Bank
    BY Parameters DEF Bank
  <1>2. \A b \in below : EntryFor(pc, b).ubit \in 0 .. 3
    BY <1>1, IndexTyped, EntryTyped DEF EntryFor
  <1>3. 0 \in below
    BY Parameters
  <1>4. ubits \in SUBSET Nat /\ ubits # {}
    <2>1. EntryFor(pc, 0).ubit \in ubits
      BY <1>3
    <2>2. ubits \in SUBSET Nat
      BY <1>2
    <2> HIDE DEF ubits
    <2> QED
      BY <2>1, <2>2
  <1>5. PICK m \in ubits : \A n \in ubits : m <= n
    BY <1>4, LeastNumber
  <1>6. /\ m \in 0 .. 3
        /\ \A b \in below : m <= EntryFor(pc, b).ubit
        /\ \E b \in below : m = EntryFor(pc, b).ubit
    BY <1>2, <1>5
  <1> HIDE DEF ubits
  <1> QED
    BY <1>6 DEF MinUbit

LEMMA NextSeedTyped ==
  ASSUME seed \in Words(2 * NumTables)
  PROVE  NextSeed \in Words(2 * NumTables)
  <1>1. ASSUME NEW n \in 0 .. 2 * NumTables - 1
        PROVE  NextSeed[n] \in {0, 1}
    <2>1. seed[n] \in {0, 1} /\ Increment[n] \in {0, 1}
      BY DEF Words, Increment, Bit
    <2>2. Bit(Carry(seed, Increment, n)) \in {0, 1}
      BY DEF Bit
    <2>3. NextSeed[n] = (seed[n] + Increment[n] + Bit(Carry(seed, Increment, n))) % 2
      BY DEF NextSeed
    <2> HIDE DEF Bit
    <2> QED
      BY <2>1, <2>2, <2>3
  <1>2. NextSeed = [n \in 0 .. 2 * NumTables - 1 |-> NextSeed[n]]
    BY DEF NextSeed
  <1> QED
    BY <1>1, <1>2 DEF Words

\* The allocated bank is a table of longer history than the provider's, and its entry is
\* useless.
LEMMA AllocatedIsFree ==
  ASSUME seed \in Words(2 * NumTables), NEW pc, NEW p, p.bank \in 1 .. NumTables,
         AllocatedBank(pc, p) # NoBank
  PROVE  /\ AllocatedBank(pc, p) \in 0 .. p.bank - 1
         /\ AllocatedBank(pc, p) \in Bank
         /\ EntryFor(pc, AllocatedBank(pc, p)).ubit = 0
  <1> DEFINE width == p.bank - 1
             stops == {n \in 0 .. width : n = width \/ NextSeed[n] = 0}
             first == FirstCandidate(p)
  <1>1. width \in Nat /\ width < NumTables
    BY Parameters
  <1> HIDE DEF width
  <1>2. \A n \in 0 .. width : NextSeed[n] \in {0, 1}
    BY <1>1, NextSeedTyped, Parameters DEF Words
  <1>3. width \in stops /\ stops \in SUBSET Nat
    BY <1>1
  <1>4. PICK n \in stops : \A k \in stops : n <= k
    BY <1>3, LeastNumber
  <1>5. /\ n \in 0 .. width
        /\ \A i \in 0 .. n - 1 : NextSeed[i] = 1
        /\ n = width \/ NextSeed[n] = 0
    <2>1. n \in 0 .. width /\ (n = width \/ NextSeed[n] = 0)
      BY <1>4
    <2>2. ASSUME NEW i \in 0 .. n - 1
          PROVE  NextSeed[i] = 1
      <3>1. i \in 0 .. width /\ ~(n <= i)
        BY <1>1, <2>1
      <3>2. i \notin stops
        BY <1>4, <3>1
      <3> QED
        BY <1>2, <3>1, <3>2
    <2> QED
      BY <2>1, <2>2
  <1>6. TrailingOnes(NextSeed, width) \in 0 .. width
    BY <1>5 DEF TrailingOnes
  <1>7. first \in 0 .. width
    <2>1. first = width - TrailingOnes(NextSeed, width)
      BY DEF FirstCandidate, width
    <2> QED
      BY <1>1, <1>6, <2>1
  <1> DEFINE free == {b \in 0 .. first : EntryFor(pc, b).ubit = 0}
  <1>8. free # {} /\ AllocatedBank(pc, p) = CHOOSE b \in free : \A c \in free : c <= b
    BY DEF AllocatedBank
  <1>9. free \in SUBSET (0 .. first) /\ first \in Nat
    BY <1>1, <1>7
  <1>10. \E b \in free : \A c \in free : c <= b
    <2> HIDE DEF free, first
    <2> QED
      BY <1>8, <1>9, GreatestBelow
  <1>11. AllocatedBank(pc, p) \in free
    <2> HIDE DEF free
    <2> QED
      BY <1>8, <1>10
  <1>12. AllocatedBank(pc, p) \in 0 .. first /\ EntryFor(pc, AllocatedBank(pc, p)).ubit = 0
    BY <1>11
  <1> HIDE DEF first
  <1>13. AllocatedBank(pc, p) \in 0 .. width
    BY <1>1, <1>7, <1>12
  <1> QED
    BY <1>1, <1>12, <1>13, Parameters DEF width, Bank

\* The allocation step ages the candidates or gives one entry to the branch.
LEMMA AllocateKeeps ==
  ASSUME TableTyped(gtable), Histories, seed \in Words(2 * NumTables),
         NEW pc \in Pc, NEW taken \in BOOLEAN, NEW p, p.bank \in 0 .. NumTables
  PROVE  LET u == Allocate(pc, taken, p)
         IN  /\ TableTyped(u)
             /\ \/ SameTags(gtable, u)
                \/ \E b \in 0 .. p.bank - 1 :
                       /\ p.result # taken
                       /\ EntryFor(pc, b).ubit = 0
                       /\ u[b][ComputeIndex(pc, b)].tag = ComputeTag(pc, b)
                       /\ \A c \in Bank : \A i \in Words(LogEntries) :
                              ~(c = b /\ i = ComputeIndex(pc, b)) =>
                                  u[c][i].tag = gtable[c][i].tag
  <1> DEFINE u == Allocate(pc, taken, p)
  <1>1. CASE ~WantsAllocation(pc, taken, p)
    <2>1. u = gtable
      BY <1>1 DEF Allocate
    <2> HIDE DEF u
    <2>2. TableTyped(u) /\ SameTags(gtable, u)
      BY <2>1 DEF SameTags
    <2> QED
      BY <2>2 DEF u
  <1>2. CASE WantsAllocation(pc, taken, p) /\ MinUbit(pc, p) > 0
    <2> DEFINE idx(b) == ComputeIndex(pc, b)
               next(b, i) == IF b < p.bank /\ i = idx(b)
                             THEN [gtable[b][i] EXCEPT !.ubit = @ - 1] ELSE gtable[b][i]
    <2>1. p.bank \in 1 .. NumTables
      BY <1>2, Parameters DEF WantsAllocation
    <2>2. \A b \in Bank : b < p.bank => EntryFor(pc, b).ubit >= 1
      <3>1. \A b \in Bank : b < p.bank => b \in 0 .. p.bank - 1
        BY <2>1, Parameters DEF Bank
      <3>2. \A b \in 0 .. p.bank - 1 : MinUbit(pc, p) <= EntryFor(pc, b).ubit
        BY <2>1, MinUbitIsLeast
      <3>3. \A b \in Bank : EntryFor(pc, b).ubit \in 0 .. 3
        BY IndexTyped, EntryTyped DEF EntryFor
      <3>4. MinUbit(pc, p) \in 0 .. 3 /\ MinUbit(pc, p) >= 1
        BY <1>2, <2>1, MinUbitIsLeast
      <3> QED
        BY <3>1, <3>2, <3>3, <3>4
    <2>3. u = [b \in Bank |-> IF b < p.bank
                              THEN [gtable[b] EXCEPT ![idx(b)].ubit = @ - 1] ELSE gtable[b]]
      BY <1>2 DEF Allocate
    <2>4. ASSUME NEW b \in Bank
          PROVE  u[b] = [i \in Words(LogEntries) |-> next(b, i)]
      <3>1. gtable[b] \in [Words(LogEntries) -> [ctr: Counter, tag: Tags, ubit: 0 .. 3]]
        BY DEF TableTyped
      <3>2. u[b] = IF b < p.bank
                   THEN [gtable[b] EXCEPT ![idx(b)].ubit = @ - 1] ELSE gtable[b]
        BY <2>3
      <3>3. idx(b) \in Words(LogEntries)
        BY IndexTyped
      <3> HIDE DEF idx, u
      <3> QED
        BY <3>1, <3>2, <3>3
    <2>5. ASSUME NEW b \in Bank, NEW i \in Words(LogEntries)
          PROVE  next(b, i) \in EntryOf(b) /\ next(b, i).tag = gtable[b][i].tag
      <3> DEFINE old == gtable[b][i]
      <3>1. old \in EntryOf(b) /\ old.ubit \in 0 .. 3
        BY EntryTyped
      <3>2. CASE b < p.bank /\ i = idx(b)
        <4>1. old.ubit - 1 \in 0 .. 3
          BY <2>2, <3>1, <3>2 DEF EntryFor
        <4> HIDE DEF old
        <4>2. /\ [old EXCEPT !.ubit = old.ubit - 1] \in EntryOf(b)
              /\ [old EXCEPT !.ubit = old.ubit - 1].tag = old.tag
          BY <3>1, <4>1 DEF EntryOf
        <4>3. next(b, i) = [old EXCEPT !.ubit = old.ubit - 1]
          BY <3>2 DEF old
        <4> QED
          BY <4>2, <4>3 DEF old
      <3>3. CASE ~(b < p.bank /\ i = idx(b))
        BY <3>1, <3>3
      <3> QED
        BY <3>2, <3>3
    <2>6. DOMAIN u = Bank /\ u = [b \in Bank |-> u[b]]
      BY <2>3
    <2> HIDE DEF next, u
    <2>7. u = [b \in Bank |-> [i \in Words(LogEntries) |-> u[b][i]]]
      BY <2>4, <2>6
    <2>8. \A b \in Bank : \A i \in Words(LogEntries) : u[b][i] = next(b, i)
      BY <2>4
    <2>9. TableTyped(u) /\ SameTags(gtable, u)
      BY <2>5, <2>7, <2>8, TypedByEntries DEF SameTags
    <2> QED
      BY <2>9 DEF u
  <1>3. CASE WantsAllocation(pc, taken, p) /\ ~(MinUbit(pc, p) > 0)
    <2> DEFINE x == AllocatedBank(pc, p)
               i == ComputeIndex(pc, x)
               e == NewEntry(pc, x, taken)
    <2>1. p.bank \in 1 .. NumTables /\ p.result # taken
      BY <1>3, Parameters DEF WantsAllocation
    <2>2. CASE x = NoBank
      <3>1. u = gtable
        BY <1>3, <2>2 DEF Allocate
      <3> HIDE DEF u
      <3>2. TableTyped(u) /\ SameTags(gtable, u)
        BY <3>1 DEF SameTags
      <3> QED
        BY <3>2 DEF u
    <2>3. CASE x # NoBank
      <3>1. x \in 0 .. p.bank - 1 /\ x \in Bank /\ EntryFor(pc, x).ubit = 0
        BY <2>1, <2>3, AllocatedIsFree
      <3>2. u = [gtable EXCEPT ![x][i] = e]
        BY <1>3, <2>3 DEF Allocate
      <3> HIDE DEF x, u
      <3>3. i \in Words(LogEntries) /\ ComputeTag(pc, x) \in Words(TLength(0, x))
        BY <3>1, IndexTyped, TagTyped
      <3>4. e \in EntryOf(x) /\ e.tag = ComputeTag(pc, x)
        BY <3>3 DEF NewEntry, EntryOf, Counter
      <3> HIDE DEF e, i
      <3>5. /\ TableTyped(u)
            /\ \A c \in Bank : \A k \in Words(LogEntries) :
                   u[c][k] = IF c = x /\ k = i THEN e ELSE gtable[c][k]
        <4>1. /\ TableTyped([gtable EXCEPT ![x][i] = e])
              /\ \A c \in Bank : \A k \in Words(LogEntries) :
                     [gtable EXCEPT ![x][i] = e][c][k] =
                         IF c = x /\ k = i THEN e ELSE gtable[c][k]
          BY <3>1, <3>3, <3>4, EntryWritten
        <4> QED
          BY <3>2, <4>1
      <3>6. u[x][i].tag = ComputeTag(pc, x)
        BY <3>1, <3>3, <3>4, <3>5
      <3>7. \A c \in Bank : \A k \in Words(LogEntries) :
                ~(c = x /\ k = i) => u[c][k].tag = gtable[c][k].tag
        BY <3>5
      <3> QED
        BY <2>1, <3>1, <3>5, <3>6, <3>7 DEF u, i
    <2> QED
      BY <2>2, <2>3
  <1> QED
    BY <1>1, <1>2, <1>3

------------------------------------------------------------------------------
(* The two-bit counters.                                                    *)

LEMMA BimodalKept ==
  ASSUME NEW e \in Bimodal, NEW predicted, NEW taken \in BOOLEAN
  PROVE  UpdateBimodal(e, predicted, taken) \in Bimodal
  <1> DEFINE inter == (2 * e.pred) + e.hyst
             moved == IF taken THEN (IF inter < 3 THEN inter + 1 ELSE inter)
                      ELSE (IF inter > 0 THEN inter - 1 ELSE inter)
  <1>1. e.pred \in {0, 1} /\ e.hyst \in {0, 1} /\ e = [pred |-> e.pred, hyst |-> e.hyst]
    BY DEF Bimodal
  <1>2. moved \in 0 .. 3
    BY <1>1
  <1>3. moved \div 2 \in {0, 1} /\ moved % 2 \in {0, 1}
    <2> HIDE DEF moved
    <2> QED
      BY <1>2
  <1>4. CASE predicted = taken
    BY <1>1, <1>4 DEF UpdateBimodal, Bimodal
  <1>5. CASE predicted # taken
    <2>1. UpdateBimodal(e, predicted, taken) = [pred |-> moved \div 2, hyst |-> moved % 2]
      BY <1>5 DEF UpdateBimodal
    <2> HIDE DEF moved
    <2> QED
      BY <1>3, <2>1 DEF Bimodal
  <1> QED
    BY <1>4, <1>5

\* The separate rules for the two bits amount to a saturating counter, for an entry that
\* is asked for its own prediction.
LEMMA BimodalSaturates ==
  ASSUME NEW e \in Bimodal, NEW taken \in BOOLEAN
  PROVE  LET v == Value(e)
         IN  Value(UpdateBimodal(e, e.pred > 0, taken)) =
                 IF taken THEN (IF v < 3 THEN v + 1 ELSE 3) ELSE (IF v > 0 THEN v - 1 ELSE 0)
  <1>1. /\ e.pred \in {0, 1} /\ e.hyst \in {0, 1}
        /\ e = [pred |-> e.pred, hyst |-> e.hyst]
    BY DEF Bimodal
  <1>2. PICK x \in {0, 1}, y \in {0, 1} : e = [pred |-> x, hyst |-> y]
    BY <1>1
  <1>3. CASE x = 0 /\ y = 0
    BY <1>2, <1>3 DEF UpdateBimodal, Value
  <1>4. CASE x = 0 /\ y = 1
    BY <1>2, <1>4 DEF UpdateBimodal, Value
  <1>5. CASE x = 1 /\ y = 0
    BY <1>2, <1>5 DEF UpdateBimodal, Value
  <1>6. CASE x = 1 /\ y = 1
    BY <1>2, <1>6 DEF UpdateBimodal, Value
  <1> QED
    BY <1>3, <1>4, <1>5, <1>6

------------------------------------------------------------------------------
(* Steps.                                                                   *)

LEMMA TypesUsed ==
  ASSUME TypeOK
  PROVE  /\ Histories /\ TableTyped(gtable)
         /\ btable \in [Words(LogBimodal) -> Bimodal]
         /\ bimodal \in [Words(LogBimodal) -> Bimodal]
         /\ seed \in Words(2 * NumTables)
         /\ tick \in Nat /\ branches \in Nat /\ tick <= branches /\ branches <= MaxBranches
  BY Parameters DEF TypeOK, Histories, TableTyped

\* A branch of either kind enters all histories alike.
LEMMA RememberStep ==
  ASSUME TypeOK, FoldsExact, NEW pc \in Pc, NEW taken \in BOOLEAN, Remember(pc, taken)
  PROVE  /\ Histories' /\ FoldsExact'
         /\ (ghist'[0] = 1) = taken
  <1> DEFINE h == ShiftIn(ghist, Bit(taken), MaxHistory)
  <1>1. /\ Histories
        /\ ghist \in Words(MaxHistory) /\ path \in Words(PathBits)
        /\ pc \in Words(PcBits) /\ pc[0] \in {0, 1} /\ Bit(taken) \in {0, 1}
    <2>1. pc \in Words(PcBits) /\ 0 \in 0 .. PcBits - 1
      BY TageAssumption, Parameters
    <2> QED
      BY <2>1, TypesUsed DEF Histories, Words, Bit
  <1>2. /\ ghist' = h
        /\ path' = ShiftIn(path, pc[0], PathBits)
        /\ chI' = [b \in Bank |-> FoldUpdate(chI[b], h, OLength(b), ILength)]
        /\ chT' = [k \in {0, 1} |-> [b \in Bank |->
                      FoldUpdate(chT[k][b], h, OLength(b), TLength(k, b))]]
    BY DEF Remember
  <1>3. h \in Words(MaxHistory) /\ path' \in Words(PathBits)
    <2>1. /\ MaxHistory \in Nat /\ MaxHistory <= MaxHistory + 1
          /\ PathBits \in Nat /\ PathBits <= PathBits + 1
      BY Parameters
    <2> QED
      BY <1>1, <1>2, <2>1, ShiftInIsWord
  <1>4. h[0] = Bit(taken)
    BY Parameters DEF ShiftIn
  <1>5. ASSUME NEW b \in Bank
        PROVE  /\ chI'[b] \in Words(ILength)
               /\ \A j \in 0 .. ILength - 1 :
                      chI'[b][j] = Cardinality(Folded(h, OLength(b), ILength, j)) % 2
    <2>1. /\ ILength \in Nat \ {0} /\ OLength(b) \in 1 .. MaxHistory - 1
          /\ chI[b] \in Words(ILength) /\ IsFold(chI[b], OLength(b), ILength)
      BY <1>1, BankParameters DEF Histories, FoldsExact
    <2>2. chI'[b] = FoldUpdate(chI[b], h, OLength(b), ILength)
      BY <1>2
    <2>3. FoldUpdate(chI[b], h, OLength(b), ILength) \in Words(ILength)
      BY <1>3, <2>1, FoldUpdateBits
    <2>4. \A j \in 0 .. ILength - 1 :
              FoldUpdate(chI[b], h, OLength(b), ILength)[j] =
                  Cardinality(Folded(h, OLength(b), ILength, j)) % 2
      BY <1>1, <2>1, FoldKept
    <2> HIDE DEF h
    <2> QED
      BY <2>2, <2>3, <2>4
  <1>6. ASSUME NEW b \in Bank, NEW k \in {0, 1}
        PROVE  /\ chT'[k][b] \in Words(TLength(k, b))
               /\ \A j \in 0 .. TLength(k, b) - 1 :
                      chT'[k][b][j] = Cardinality(Folded(h, OLength(b), TLength(k, b), j)) % 2
    <2>1. /\ TLength(k, b) \in Nat \ {0} /\ OLength(b) \in 1 .. MaxHistory - 1
          /\ chT[k][b] \in Words(TLength(k, b))
          /\ IsFold(chT[k][b], OLength(b), TLength(k, b))
      BY <1>1, BankParameters DEF Histories, FoldsExact
    <2>2. chT'[k][b] = FoldUpdate(chT[k][b], h, OLength(b), TLength(k, b))
      BY <1>2
    <2>3. FoldUpdate(chT[k][b], h, OLength(b), TLength(k, b)) \in Words(TLength(k, b))
      BY <1>3, <2>1, FoldUpdateBits
    <2>4. \A j \in 0 .. TLength(k, b) - 1 :
              FoldUpdate(chT[k][b], h, OLength(b), TLength(k, b))[j] =
                  Cardinality(Folded(h, OLength(b), TLength(k, b), j)) % 2
      BY <1>1, <2>1, FoldKept
    <2> HIDE DEF h
    <2> QED
      BY <2>2, <2>3, <2>4
  <1> HIDE DEF h
  <1>7. Histories'
    BY <1>2, <1>3, <1>5, <1>6 DEF Histories
  <1>8. FoldsExact'
    BY <1>2, <1>5, <1>6 DEF FoldsExact, IsFold, Folded
  <1>9. (ghist'[0] = 1) = taken
    BY <1>2, <1>4 DEF Bit
  <1> QED
    BY <1>7, <1>8, <1>9

\* What training does to the tagged tables.
TagsAfter(pc, taken) ==
    \/ SameTags(gtable, gtable')
    \/ \E b \in 0 .. Prediction(pc).bank - 1 :
           /\ Prediction(pc).result # taken
           /\ EntryFor(pc, b).ubit = 0
           /\ gtable'[b][ComputeIndex(pc, b)].tag = ComputeTag(pc, b)
           /\ \A c \in Bank : \A i \in Words(LogEntries) :
                  ~(c = b /\ i = ComputeIndex(pc, b)) => gtable'[c][i].tag = gtable[c][i].tag

LEMMA TrainTables ==
  ASSUME TypeOK, NEW pc \in Pc, NEW taken \in BOOLEAN, Train(pc, taken)
  PROVE  TableTyped(gtable') /\ TagsAfter(pc, taken)
  <1> DEFINE p == Prediction(pc)
             u == Allocate(pc, taken, p)
             a == Age(u, tick + 1)
  <1>1. Histories /\ TableTyped(gtable) /\ seed \in Words(2 * NumTables)
    BY TypesUsed
  <1>2. p.bank \in 0 .. NumTables /\ (p.bank # NoBank => p.bank \in Bank)
    BY ProviderTyped
  <1>3. gtable' = Teach(a, pc, taken, p)
    BY DEF Train
  <1> HIDE DEF p
  <1>4. /\ TableTyped(u)
        /\ \/ SameTags(gtable, u)
           \/ \E b \in 0 .. p.bank - 1 :
                  /\ p.result # taken
                  /\ EntryFor(pc, b).ubit = 0
                  /\ u[b][ComputeIndex(pc, b)].tag = ComputeTag(pc, b)
                  /\ \A c \in Bank : \A i \in Words(LogEntries) :
                         ~(c = b /\ i = ComputeIndex(pc, b)) => u[c][i].tag = gtable[c][i].tag
    BY <1>1, <1>2, AllocateKeeps
  <1> HIDE DEF u
  <1>5. TableTyped(a) /\ SameTags(u, a)
    BY <1>4, AgeKeeps
  <1> HIDE DEF a
  <1>6. TableTyped(gtable') /\ SameTags(a, gtable')
    BY <1>1, <1>2, <1>3, <1>5, TeachKeeps
  <1>7. \A b \in Bank : \A i \in Words(LogEntries) : gtable'[b][i].tag = u[b][i].tag
    BY <1>5, <1>6 DEF SameTags
  <1>8. CASE SameTags(gtable, u)
    BY <1>6, <1>7, <1>8 DEF SameTags, TagsAfter
  <1>9. ASSUME NEW b \in 0 .. p.bank - 1,
               p.result # taken, EntryFor(pc, b).ubit = 0,
               u[b][ComputeIndex(pc, b)].tag = ComputeTag(pc, b),
               \A c \in Bank : \A i \in Words(LogEntries) :
                   ~(c = b /\ i = ComputeIndex(pc, b)) => u[c][i].tag = gtable[c][i].tag
        PROVE  TagsAfter(pc, taken)
    <2>1. b \in Bank
      BY <1>2, Parameters DEF Bank
    <2>2. ComputeIndex(pc, b) \in Words(LogEntries)
      BY <1>1, <2>1, IndexTyped
    <2>3. gtable'[b][ComputeIndex(pc, b)].tag = ComputeTag(pc, b)
      BY <1>7, <1>9, <2>1, <2>2
    <2>4. \A c \in Bank : \A i \in Words(LogEntries) :
              ~(c = b /\ i = ComputeIndex(pc, b)) => gtable'[c][i].tag = gtable[c][i].tag
      BY <1>7, <1>9
    <2> QED
      BY <1>9, <2>3, <2>4 DEF TagsAfter, p
  <1> QED
    BY <1>4, <1>6, <1>8, <1>9

TageInv == TypeOK /\ FoldsExact

LEMMA InitTageInv == Init => TageInv
  <1> SUFFICES ASSUME Init
               PROVE  TypeOK /\ FoldsExact
    BY DEF TageInv
  <1>1. \A n \in Nat : Zero(n) \in Words(n)
    BY DEF Zero, Words
  <1>2. ASSUME NEW b \in Bank
        PROVE  /\ ILength \in Nat
               /\ \A k \in {0, 1} : TLength(k, b) \in Nat
               /\ Zero(ILength) \in Words(ILength)
               /\ \A k \in {0, 1} : Zero(TLength(k, b)) \in Words(TLength(k, b))
    BY <1>1, BankParameters
  <1>3. ASSUME NEW olen \in 1 .. MaxHistory - 1, NEW clen \in Nat
        PROVE  IsFold(Zero(clen), olen, clen)
    <2>1. ASSUME NEW j \in 0 .. clen - 1
          PROVE  Cardinality({i \in 0 .. olen - 1 : i % clen = j /\ ghist[i] = 1}) = 0
      <3>1. \A i \in 0 .. olen - 1 : ghist[i] = 0
        BY Parameters DEF Init, Zero
      <3>2. {i \in 0 .. olen - 1 : i % clen = j /\ ghist[i] = 1} = {}
        BY <3>1
      <3> QED
        BY <3>2, FS_EmptySet
    <2>2. ASSUME NEW j \in 0 .. clen - 1
          PROVE  Zero(clen)[j] = 0 % 2
      BY DEF Zero
    <2> QED
      BY <2>1, <2>2 DEF IsFold
  <1>4. FoldsExact
    <2>1. ASSUME NEW b \in Bank
          PROVE  /\ chI[b] = Zero(ILength)
                 /\ \A k \in {0, 1} : chT[k][b] = Zero(TLength(k, b))
      BY DEF Init
    <2> QED
      BY <1>2, <1>3, <2>1, BankParameters DEF FoldsExact
  <1>5. Histories
    BY <1>1, <1>2, Parameters DEF Init, Histories
  <1>6. TableTyped(gtable)
    <2>1. gtable = [b \in Bank |-> [i \in Words(LogEntries) |->
                       [ctr |-> 0, tag |-> Zero(TLength(0, b)), ubit |-> 0]]]
      BY DEF Init
    <2>2. gtable = [b \in Bank |-> [i \in Words(LogEntries) |-> gtable[b][i]]]
      BY <2>1
    <2>3. ASSUME NEW b \in Bank, NEW i \in Words(LogEntries)
          PROVE  gtable[b][i] \in EntryOf(b)
      BY <1>2, <2>1 DEF EntryOf, Counter
    <2> QED
      BY <2>2, <2>3, TypedByEntries
  <1>7. /\ btable \in [Words(LogBimodal) -> Bimodal]
        /\ bimodal \in [Words(LogBimodal) -> Bimodal]
    BY DEF Init, Bimodal
  <1>8. seed \in Words(2 * NumTables)
    <2>1. 2 * NumTables \in Nat
      BY Parameters
    <2> QED
      BY <1>1, <2>1 DEF Init
  <1>9. tick \in 0 .. branches /\ branches \in 0 .. MaxBranches
    BY Parameters DEF Init
  <1> QED
    BY <1>4, <1>5, <1>6, <1>7, <1>8, <1>9 DEF TypeOK, Histories, TableTyped

LEMMA TrainKeepsTypes ==
  ASSUME TageInv, NEW pc \in Pc, NEW taken \in BOOLEAN, Train(pc, taken)
  PROVE  TageInv'
  <1> DEFINE p == Prediction(pc)
             i == BimodalIndex(pc)
  <1>1. TypeOK /\ FoldsExact /\ Remember(pc, taken)
    BY DEF TageInv, Train
  <1>2. Histories' /\ FoldsExact'
    BY <1>1, RememberStep
  <1>3. TableTyped(gtable')
    BY <1>1, TrainTables
  <1>4. i \in Words(LogBimodal)
    BY BimodalIndexTyped
  <1>5. btable' \in [Words(LogBimodal) -> Bimodal]
    <2>1. /\ btable \in [Words(LogBimodal) -> Bimodal]
          /\ btable' = IF p.bank # NoBank THEN btable
                       ELSE [btable EXCEPT ![i] = UpdateBimodal(@, p.result, taken)]
      BY <1>1, TypesUsed DEF Train
    <2>2. UpdateBimodal(btable[i], p.result, taken) \in Bimodal
      BY <1>4, <2>1, BimodalKept
    <2> HIDE DEF i, p
    <2> QED
      BY <2>1, <2>2
  <1>6. bimodal' \in [Words(LogBimodal) -> Bimodal]
    <2>1. /\ bimodal \in [Words(LogBimodal) -> Bimodal]
          /\ bimodal' = [bimodal EXCEPT ![i] = UpdateBimodal(@, bimodal[i].pred > 0, taken)]
      BY <1>1, TypesUsed DEF Train
    <2>2. UpdateBimodal(bimodal[i], bimodal[i].pred > 0, taken) \in Bimodal
      BY <1>4, <2>1, BimodalKept
    <2> HIDE DEF i
    <2> QED
      BY <2>1, <2>2
  <1>7. seed' \in Words(2 * NumTables)
    BY <1>1, TypesUsed, NextSeedTyped DEF Train
  <1>8. tick' \in 0 .. branches' /\ branches' \in 0 .. MaxBranches
    BY <1>1, TypesUsed, Parameters DEF Train
  <1> QED
    BY <1>2, <1>3, <1>5, <1>6, <1>7, <1>8 DEF TageInv, TypeOK, Histories, TableTyped

LEMMA PassKeepsTypes ==
  ASSUME TageInv, NEW pc \in Pc, NEW taken \in BOOLEAN, Pass(pc, taken)
  PROVE  TageInv'
  <1>1. TypeOK /\ FoldsExact /\ Remember(pc, taken)
    BY DEF TageInv, Pass
  <1>2. Histories' /\ FoldsExact'
    BY <1>1, RememberStep
  <1>3. UNCHANGED <<gtable, btable, bimodal, seed>>
    BY DEF Pass
  <1>4. tick' \in 0 .. branches' /\ branches' \in 0 .. MaxBranches
    BY <1>1, TypesUsed, Parameters DEF Pass
  <1> QED
    BY <1>1, <1>2, <1>3, <1>4 DEF TageInv, TypeOK, Histories

\* The invariant: widths, and the folds are those of the whole history.
THEOREM TageInvariant == Spec => []TageInv
<1>1. Init => TageInv
  BY InitTageInv
<1>2. TageInv /\ [Next]_vars => TageInv'
  <2> SUFFICES ASSUME TageInv, [Next]_vars
               PROVE  TageInv'
    OBVIOUS
  <2>1. ASSUME NEW pc \in Pc, NEW taken \in BOOLEAN, Train(pc, taken)
        PROVE  TageInv'
    BY <2>1, TrainKeepsTypes
  <2>2. ASSUME NEW pc \in Pc, NEW taken \in BOOLEAN, Pass(pc, taken)
        PROVE  TageInv'
    BY <2>2, PassKeepsTypes
  <2>3. CASE UNCHANGED vars
    BY <2>3 DEF vars, TageInv, TypeOK, FoldsExact, IsFold
  <2> QED
    BY <2>1, <2>2, <2>3 DEF Next
<1> QED
  BY <1>1, <1>2, PTL DEF Spec

\* Saturating counters, usefulness bits, tags, folds and the random seed keep the widths
\* of their C++ types and masks, whatever is predicted and trained.
THEOREM TageTypes == Spec => []TypeOK
<1>1. TageInv => TypeOK
  BY DEF TageInv
<1> QED
  BY <1>1, TageInvariant, PTL

\* FoldedHistory::update keeps each fold equal to the fold of the whole history, for any
\* history length and compressed length, also where one is a multiple of the other.
THEOREM FoldsAreExact == Spec => []FoldsExact
<1>1. TageInv => FoldsExact
  BY DEF TageInv
<1> QED
  BY <1>1, TageInvariant, PTL

\* Training replaces at most one entry, and only a useless one that it may replace.
THEOREM VictimsAreUseless == Spec => VictimIsUseless
<1> DEFINE Allowed ==
               Victims # {} =>
               \E pc \in Pc : \E b \in 0 .. Prediction(pc).bank - 1 :
                   /\ Victims = {<<b, ComputeIndex(pc, b)>>}
                   /\ Prediction(pc).result # (ghist'[0] = 1)
                   /\ EntryFor(pc, b).ubit = 0
                   /\ gtable'[b][ComputeIndex(pc, b)].tag = ComputeTag(pc, b)
<1>1. TageInv /\ [Next]_vars => [Allowed]_vars
  <2> SUFFICES ASSUME TageInv, [Next]_vars, Victims # {}
               PROVE  Allowed
    OBVIOUS
  <2>1. PICK v \in Bank \X Words(LogEntries) : gtable'[v[1]][v[2]].tag # gtable[v[1]][v[2]].tag
    BY DEF Victims
  <2>2. gtable' # gtable
    BY <2>1
  <2>3. PICK pc \in Pc, taken \in BOOLEAN : Train(pc, taken)
    BY <2>2 DEF Next, Pass, vars
  <2>4. TypeOK /\ FoldsExact /\ Remember(pc, taken)
    BY <2>3 DEF TageInv, Train
  <2>5. TagsAfter(pc, taken) /\ (ghist'[0] = 1) = taken
    BY <2>3, <2>4, TrainTables, RememberStep
  <2>6. ~SameTags(gtable, gtable')
    BY <2>1 DEF SameTags
  <2>7. PICK b \in 0 .. Prediction(pc).bank - 1 :
            /\ Prediction(pc).result # taken
            /\ EntryFor(pc, b).ubit = 0
            /\ gtable'[b][ComputeIndex(pc, b)].tag = ComputeTag(pc, b)
            /\ \A c \in Bank : \A i \in Words(LogEntries) :
                   ~(c = b /\ i = ComputeIndex(pc, b)) => gtable'[c][i].tag = gtable[c][i].tag
    BY <2>5, <2>6 DEF TagsAfter
  <2>8. Victims = {<<b, ComputeIndex(pc, b)>>}
    <3>1. ASSUME NEW w \in Victims
          PROVE  w = <<b, ComputeIndex(pc, b)>>
      <4>1. PICK c \in Bank, i \in Words(LogEntries) : w = <<c, i>>
        BY DEF Victims
      <4>2. gtable'[c][i].tag # gtable[c][i].tag
        BY <4>1 DEF Victims
      <4>3. c = b /\ i = ComputeIndex(pc, b)
        BY <2>7, <4>2
      <4> QED
        BY <4>1, <4>3
    <3> QED
      BY <3>1
  <2>9. Prediction(pc).result # (ghist'[0] = 1)
    BY <2>5, <2>7
  <2> QED
    BY <2>7, <2>8, <2>9
<1> HIDE DEF Allowed
<1>2. Spec => [][Allowed]_vars
  BY <1>1, TageInvariant, PTL DEF Spec
<1> QED
  BY <1>2 DEF Allowed, VictimIsUseless

\* The two bits of a baseline entry, updated by rules of their own, count and saturate.
THEOREM BaselineIsSaturating == Spec => BaselineSaturates
<1> DEFINE Counts ==
        tick' # tick =>
        \E i \in DOMAIN bimodal :
            LET v == Value(bimodal[i])
            IN  /\ Value(bimodal'[i]) = IF ghist'[0] = 1 THEN (IF v < 3 THEN v + 1 ELSE 3)
                                        ELSE (IF v > 0 THEN v - 1 ELSE 0)
                /\ \A j \in DOMAIN bimodal \ {i} : bimodal'[j] = bimodal[j]
<1>1. TageInv /\ [Next]_vars => [Counts]_vars
  <2> SUFFICES ASSUME TageInv, [Next]_vars, tick' # tick
               PROVE  Counts
    OBVIOUS
  <2>1. PICK pc \in Pc, taken \in BOOLEAN : Train(pc, taken)
    BY DEF Next, Pass, vars
  <2>2. TypeOK /\ FoldsExact /\ Remember(pc, taken)
    BY <2>1 DEF TageInv, Train
  <2> DEFINE i == BimodalIndex(pc)
             e == bimodal[i]
  <2>3. /\ i \in Words(LogBimodal)
        /\ bimodal \in [Words(LogBimodal) -> Bimodal]
        /\ bimodal' = [bimodal EXCEPT ![i] = UpdateBimodal(@, bimodal[i].pred > 0, taken)]
    BY <2>1, <2>2, BimodalIndexTyped, TypesUsed DEF Train
  <2> HIDE DEF i
  <2>4. /\ bimodal'[i] = UpdateBimodal(e, e.pred > 0, taken)
        /\ \A j \in DOMAIN bimodal \ {i} : bimodal'[j] = bimodal[j]
        /\ e \in Bimodal
    BY <2>3
  <2> HIDE DEF e
  <2>5. LET v == Value(e)
        IN  Value(bimodal'[i]) =
                IF taken THEN (IF v < 3 THEN v + 1 ELSE 3) ELSE (IF v > 0 THEN v - 1 ELSE 0)
    BY <2>4, BimodalSaturates
  <2>6. (ghist'[0] = 1) = taken
    BY <2>2, RememberStep
  <2>7. i \in DOMAIN bimodal
    BY <2>3
  <2> QED
    BY <2>4, <2>5, <2>6, <2>7 DEF e
<1> HIDE DEF Counts
<1>2. Spec => [][Counts]_vars
  BY <1>1, TageInvariant, PTL DEF Spec
<1> QED
  BY <1>2 DEF Counts, BaselineSaturates
===============================================================================
