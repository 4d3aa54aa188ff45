---------------------------- MODULE LruReplayProofs ----------------------------
(***************************************************************************)
(* Proofs about the analysis of a data trace, for any accesses, line size,  *)
(* associativity and capacity.  The list of a set holds the lines touched   *)
(* last, in order; a line that left it has seen Assoc others since; so a    *)
(* line is in the list if and only if its stack distance is below Assoc.    *)
(***************************************************************************)
EXTENDS LruReplay, FiniteSetTheorems, WellFoundedInduction, SequenceTheorems, TLAPS

LEMMA QuotientParts ==
  ASSUME NEW x \in Nat, NEW d \in Nat \ {0}
  PROVE  x \div d \in Nat /\ x % d \in 0 .. d - 1 /\ x = d * (x \div d) + (x % d)
  OBVIOUS

LEMMA RemainderUnique ==
  ASSUME NEW d \in Nat \ {0}, NEW x \in Int, NEW q \in Int, NEW r \in 0 .. d - 1, x = d * q + r
  PROVE  x % d = r
  OBVIOUS

------------------------------------------------------------------------------
(* Lines.                                                                   *)

LEMMA CacheIsSane ==
  LineSize \in Nat \ {0} /\ Assoc \in Nat \ {0} /\ NumSets \in Nat \ {0}
  <1> DEFINE d == Assoc * LineSize
  <1>1. LineSize \in Nat \ {0} /\ Assoc \in Nat \ {0} /\ CacheSize \in Nat /\ CacheSize >= d
    BY ReplayAssumption
  <1>2. d \in Nat \ {0}
    BY <1>1
  <1>3. NumSets = CacheSize \div d
    BY DEF NumSets
  <1> HIDE DEF d
  <1>4. /\ CacheSize \div d \in Nat /\ CacheSize % d \in 0 .. d - 1
        /\ CacheSize = d * (CacheSize \div d) + (CacheSize % d)
    BY <1>1, <1>2, QuotientParts
  <1>5. CacheSize \div d # 0
    BY <1>1, <1>2, <1>4
  <1> QED
    BY <1>1, <1>3, <1>4, <1>5

LEMMA LineStarts ==
  ASSUME NEW b \in Nat
  PROVE  /\ LineOf(b) \in Nat /\ LineOf(b) % LineSize = 0
         /\ LineOf(b) <= b /\ b < LineOf(b) + LineSize
  <1> DEFINE q == b \div LineSize
             r == b % LineSize
  <1>1. q \in Nat /\ r \in 0 .. LineSize - 1 /\ b = LineSize * q + r /\ LineOf(b) = b - r
    BY CacheIsSane, QuotientParts DEF LineOf
  <1> HIDE DEF q, r
  <1>2. LineSize * q \in Nat
    BY <1>1, CacheIsSane
  <1>3. LineOf(b) = LineSize * q + 0 /\ LineOf(b) = LineSize * q
    BY <1>1, <1>2
  <1>4. LineOf(b) % LineSize = 0
    BY <1>1, <1>2, <1>3, CacheIsSane, RemainderUnique
  <1> QED
    BY <1>1, <1>2, <1>3, <1>4, CacheIsSane

\* The bytes from the start of a line up to the next one are in that line.
LEMMA LineHolds ==
  ASSUME NEW l \in Nat, l % LineSize = 0, NEW b \in l .. l + LineSize - 1
  PROVE  LineOf(b) = l
  <1> DEFINE q == l \div LineSize
             r == b - l
  <1>1. q \in Nat /\ l = LineSize * q + 0
    BY CacheIsSane, QuotientParts
  <1>2. r \in 0 .. LineSize - 1 /\ b = l + r /\ b \in Nat
    BY CacheIsSane
  <1> HIDE DEF q, r
  <1>3. LineSize * q \in Nat
    BY <1>1, CacheIsSane
  <1>4. b = LineSize * q + r
    BY <1>1, <1>2, <1>3
  <1>5. b % LineSize = r
    BY <1>1, <1>2, <1>4, CacheIsSane, RemainderUnique
  <1> QED
    BY <1>2, <1>5 DEF LineOf

LEMMA NextLine ==
  ASSUME NEW l \in Nat, l % LineSize = 0
  PROVE  (l + LineSize) % LineSize = 0
  <1> DEFINE q == l \div LineSize
  <1>1. q \in Nat /\ l = LineSize * q + 0
    BY CacheIsSane, QuotientParts
  <1> HIDE DEF q
  <1>2. l + LineSize = LineSize * (q + 1) + 0
    BY <1>1, CacheIsSane
  <1> QED
    BY <1>1, <1>2, CacheIsSane, RemainderUnique

LEMMA LinePlace ==
  ASSUME NEW l \in Nat
  PROVE  SetOf(l) \in 0 .. NumSets - 1 /\ TagOf(l) \in Nat
  <1>1. l \div LineSize \in Nat
    BY CacheIsSane, QuotientParts
  <1> QED
    BY <1>1, CacheIsSane, QuotientParts DEF SetOf, TagOf

\* A line is known by its set and its tag.
LEMMA OneLinePerPlace ==
  ASSUME NEW l \in Nat, l % LineSize = 0, NEW m \in Nat, m % LineSize = 0,
         SetOf(l) = SetOf(m), TagOf(l) = TagOf(m)
  PROVE  l = m
  <1> DEFINE a == l \div LineSize
             b == m \div LineSize
  <1>1. a \in Nat /\ b \in Nat /\ l = LineSize * a + 0 /\ m = LineSize * b + 0
    BY CacheIsSane, QuotientParts
  <1>2. a % NumSets = b % NumSets /\ a \div NumSets = b \div NumSets
    BY DEF SetOf, TagOf
  <1> HIDE DEF a, b
  <1>3. /\ a = NumSets * (a \div NumSets) + (a % NumSets)
        /\ b = NumSets * (b \div NumSets) + (b % NumSets)
    BY <1>1, CacheIsSane, QuotientParts
  <1>4. a = b
    BY <1>2, <1>3
  <1> QED
    BY <1>1, <1>4

------------------------------------------------------------------------------
(* The list of one set.                                                     *)

OneToOne(q) == \A i, j \in 1 .. Len(q) : q[i] = q[j] => i = j

\* u is in q behind the tags of later and no others, or so many came later that it was
\* pushed out.
Recent(q, u, later) ==
    \/ \E i \in 1 .. Len(q) : q[i] = u /\ later = {q[j] : j \in 1 .. i - 1}
    \/ ~ Holds(q, u) /\ Len(q) = Assoc /\ {q[j] : j \in 1 .. Len(q)} \subseteq later

\* A touch of t takes it, or a new place, from place p and leaves n: a hit, a miss with
\* room, a miss that pushes out the last.
Moves(q, t, p, n) ==
    /\ n \in 1 .. Assoc /\ p \in 1 .. n
    /\ \/ Holds(q, t) /\ n = Len(q) /\ q[p] = t
       \/ ~ Holds(q, t) /\ p = n /\ n = Len(q) + 1
       \/ ~ Holds(q, t) /\ p = n /\ n = Len(q) /\ n = Assoc

LEMMA HoldsAt ==
  ASSUME NEW q \in Seq(Nat), NEW t
  PROVE  Holds(q, t) <=> \E i \in 1 .. Len(q) : q[i] = t
  BY LenProperties DEF Holds

LEMMA TouchMoves ==
  ASSUME NEW q \in Seq(Nat), Len(q) <= Assoc, NEW t \in Nat
  PROVE  \E p, n \in Nat :
             /\ Moves(q, t, p, n)
             /\ Touch(q, t) \in Seq(Nat) /\ Len(Touch(q, t)) = n
             /\ \A i \in 1 .. n :
                    Touch(q, t)[i] = IF i = 1 THEN t ELSE IF i <= p THEN q[i - 1] ELSE q[i]
  <1>1. Len(q) \in Nat /\ \A i \in 1 .. Len(q) : q[i] \in Nat
    BY LenProperties, ElementOfSeq
  <1>2. PICK p, n \in Nat : Moves(q, t, p, n) /\ Touch(q, t) = ToFront(q, t, p, n)
    <2>1. CASE Holds(q, t)
      <3> DEFINE p == CHOOSE p \in DOMAIN q : q[p] = t
      <3>1. p \in 1 .. Len(q) /\ q[p] = t
        BY <2>1, LenProperties DEF Holds
      <3>2. Touch(q, t) = ToFront(q, t, p, Len(q))
        BY <2>1 DEF Touch
      <3> HIDE DEF p
      <3>3. Moves(q, t, p, Len(q))
        BY <1>1, <2>1, <3>1 DEF Moves
      <3> QED
        BY <1>1, <3>1, <3>2, <3>3
    <2>2. CASE ~ Holds(q, t)
      <3> DEFINE n == IF Len(q) < Assoc THEN Len(q) + 1 ELSE Assoc
      <3>1. n \in 1 .. Assoc
        BY <1>1, CacheIsSane
      <3>2. Touch(q, t) = ToFront(q, t, n, n)
        BY <2>2 DEF Touch
      <3>3. n = Len(q) + 1 \/ (n = Len(q) /\ n = Assoc)
        BY <1>1, CacheIsSane
      <3>4. Moves(q, t, n, n)
        BY <2>2, <3>1, <3>3 DEF Moves
      <3> HIDE DEF n
      <3> QED
        BY <3>1, <3>2, <3>4, CacheIsSane
    <2> QED
      BY <2>1, <2>2
  <1> DEFINE e == [i \in 1 .. n |-> IF i = 1 THEN t ELSE IF i <= p THEN q[i - 1] ELSE q[i]]
  <1>3. n \in 1 .. Assoc /\ p \in 1 .. n /\ n <= Len(q) + 1 /\ (p < n => n = Len(q))
    BY <1>1, <1>2, CacheIsSane DEF Moves
  <1>4. ASSUME NEW i \in 1 .. n
        PROVE  e[i] \in Nat
    BY <1>1, <1>3
  <1>5. e \in [1 .. n -> Nat]
    BY <1>4
  <1>6. e \in Seq(Nat) /\ Len(e) = n
    BY <1>5
  <1>7. Touch(q, t) = e
    BY <1>2 DEF ToFront
  <1> QED
    BY <1>2, <1>6, <1>7

LEMMA TouchKeeps ==
  ASSUME NEW q \in Seq(Nat), Len(q) <= Assoc, OneToOne(q), NEW t \in Nat
  PROVE  /\ Touch(q, t) \in Seq(Nat)
         /\ Len(Touch(q, t)) \in 1 .. Assoc
         /\ OneToOne(Touch(q, t))
         /\ Touch(q, t)[1] = t
         /\ \A i \in 1 .. Len(Touch(q, t)) : Touch(q, t)[i] = t \/ Holds(q, Touch(q, t)[i])
  <1> DEFINE e == Touch(q, t)
  <1>1. PICK p, n \in Nat :
             /\ Moves(q, t, p, n)
             /\ e \in Seq(Nat) /\ Len(e) = n
             /\ \A i \in 1 .. n : e[i] = IF i = 1 THEN t ELSE IF i <= p THEN q[i - 1] ELSE q[i]
    BY TouchMoves
  <1> HIDE DEF e
  <1>2. Len(q) \in Nat
    BY LenProperties
  <1>3. n \in 1 .. Assoc /\ p \in 1 .. n /\ n <= Len(q) + 1 /\ (p < n => n = Len(q))
    BY <1>1, <1>2, CacheIsSane DEF Moves
  <1>4. /\ \A i \in 1 .. Len(q) : i = p \/ q[i] # t
        /\ p \in 1 .. Len(q) \/ p = n
    BY <1>1, <1>2, HoldsAt DEF Moves, OneToOne
  <1>5. ASSUME NEW i \in 2 .. n
        PROVE  e[i] # t /\ Holds(q, e[i])
    <2>1. CASE i <= p
      <3>1. i - 1 \in 1 .. Len(q) /\ i - 1 # p
        BY <1>2, <1>3, <2>1
      <3>2. e[i] = q[i - 1]
        BY <1>1, <1>3, <2>1
      <3> QED
        BY <1>2, <1>4, <3>1, <3>2, HoldsAt
    <2>2. CASE i > p
      <3>1. i \in 1 .. Len(q) /\ e[i] = q[i] /\ i # p
        BY <1>1, <1>2, <1>3, <2>2
      <3> QED
        BY <1>2, <1>4, <3>1, HoldsAt
    <2> QED
      BY <1>3, <2>1, <2>2
  <1>6. ASSUME NEW i \in 1 .. n, NEW j \in 1 .. n, e[i] = e[j]
        PROVE  i = j
    <2>1. CASE i = 1 \/ j = 1
      BY <1>1, <1>3, <1>5, <1>6, <2>1
    <2>2. CASE i # 1 /\ j # 1
      <3> DEFINE a == IF i <= p THEN i - 1 ELSE i
                 b == IF j <= p THEN j - 1 ELSE j
      <3>1. a \in 1 .. Len(q) /\ b \in 1 .. Len(q)
        BY <1>2, <1>3, <2>2
      <3>2. q[a] = q[b]
        BY <1>1, <1>6, <2>2
      <3>3. a = b
        BY <3>1, <3>2 DEF OneToOne
      <3>4. CASE (i <= p /\ j > p) \/ (i > p /\ j <= p)
        <4>1. FALSE
          BY <1>3, <3>3, <3>4
        <4> QED
          BY <4>1
      <3> QED
        BY <1>3, <3>3, <3>4
    <2> QED
      BY <2>1, <2>2
  <1>7. e[1] = t
    BY <1>1, <1>3
  <1>8. OneToOne(e)
    BY <1>1, <1>3, <1>6 DEF OneToOne
  <1>9. \A i \in 1 .. Len(e) : e[i] = t \/ Holds(q, e[i])
    <2>1. \A i \in 1 .. n : i = 1 \/ i \in 2 .. n
      BY <1>3
    <2> QED
      BY <1>1, <1>5, <1>7, <2>1
  <1>10. e \in Seq(Nat) /\ Len(e) \in 1 .. Assoc
    BY <1>1, <1>3
  <1> QED
    BY <1>7, <1>8, <1>9, <1>10 DEF e

\* A touch of another tag leaves a place right, with one more tag before it.
LEMMA TouchRecent ==
  ASSUME NEW q \in Seq(Nat), Len(q) <= Assoc, OneToOne(q), NEW t \in Nat,
         NEW u \in Nat, u # t, NEW later, Recent(q, u, later)
  PROVE  Recent(Touch(q, t), u, later \cup {t})
  <1> DEFINE e == Touch(q, t)
  <1>1. PICK p, n \in Nat :
             /\ Moves(q, t, p, n)
             /\ e \in Seq(Nat) /\ Len(e) = n
             /\ \A i \in 1 .. n : e[i] = IF i = 1 THEN t ELSE IF i <= p THEN q[i - 1] ELSE q[i]
    BY TouchMoves
  <1> HIDE DEF e
  <1>2. Len(q) \in Nat
    BY LenProperties
  <1>3. /\ n \in 1 .. Assoc /\ p \in 1 .. n /\ n <= Len(q) + 1
        /\ p < n => (n = Len(q) /\ q[p] = t)
        /\ p <= Len(q) => (n = Len(q) /\ (q[p] = t \/ (n = Assoc /\ p = n)))
    BY <1>1, <1>2, CacheIsSane DEF Moves
  <1>6. /\ e[1] = t
        /\ \A i \in 2 .. p : e[i] = q[i - 1]
        /\ \A i \in p + 1 .. n : e[i] = q[i]
    BY <1>1, <1>3
  <1>7. \A i \in 1 .. p - 1 : e[i + 1] = q[i]
    <2>1. ASSUME NEW i \in 1 .. p - 1
          PROVE  e[i + 1] = q[i]
      <3>1. i + 1 \in 2 .. p /\ (i + 1) - 1 = i
        BY <1>3
      <3> QED
        BY <1>6, <3>1
    <2> QED
      BY <2>1
  <1>4. CASE \E i \in 1 .. Len(q) : q[i] = u /\ later = {q[j] : j \in 1 .. i - 1}
    <2>1. PICK i \in 1 .. Len(q) : q[i] = u /\ later = {q[j] : j \in 1 .. i - 1}
      BY <1>4
    <2>2. CASE i < p
      <3>1. i + 1 \in 1 .. Len(e) /\ e[i + 1] = u
        <4>1. i \in 1 .. p - 1 /\ i + 1 \in 1 .. n
          BY <1>2, <1>3, <2>2
        <4> QED
          BY <1>1, <1>7, <2>1, <4>1
      <3>2. ASSUME NEW v \in {e[j] : j \in 1 .. i}
            PROVE  v \in later \cup {t}
        <4>1. PICK j \in 1 .. i : v = e[j]
          OBVIOUS
        <4>2. j = 1 \/ (j - 1 \in 1 .. i - 1 /\ e[j] = q[j - 1])
          BY <1>3, <1>6, <2>2
        <4> QED
          BY <1>6, <2>1, <4>1, <4>2
      <3>3. ASSUME NEW v \in later \cup {t}
            PROVE  v \in {e[j] : j \in 1 .. i}
        <4>1. CASE v = t
          <5>1. 1 \in 1 .. i /\ e[1] = t
            BY <1>1, <1>3, <2>1
          <5> QED
            BY <4>1, <5>1
        <4>2. CASE v \in later
          <5>1. PICK j \in 1 .. i - 1 : v = q[j]
            BY <2>1, <4>2
          <5>2. j + 1 \in 1 .. i /\ e[j + 1] = v
            BY <1>3, <1>7, <2>2, <5>1
          <5> QED
            BY <5>2
        <4> QED
          BY <4>1, <4>2
      <3>4. later \cup {t} = {e[j] : j \in 1 .. i}
        BY <3>2, <3>3
      <3>5. (i + 1) - 1 = i
        OBVIOUS
      <3> QED
        BY <3>1, <3>4, <3>5 DEF Recent, e
    <2>3. CASE i > p
      <3>1. n = Len(q) /\ q[p] = t
        BY <1>2, <1>3, <2>1, <2>3
      <3>2. i \in 1 .. Len(e) /\ e[i] = u
        BY <1>1, <1>2, <1>3, <2>1, <2>3, <3>1
      <3>3. ASSUME NEW v \in {e[j] : j \in 1 .. i - 1}
            PROVE  v \in later \cup {t}
        <4>1. PICK j \in 1 .. i - 1 : v = e[j]
          OBVIOUS
        <4>2. \/ j = 1
              \/ j <= p /\ j - 1 \in 1 .. i - 1 /\ e[j] = q[j - 1]
              \/ j > p /\ e[j] = q[j]
          <5>1. j \in p + 1 .. n \/ j \in 2 .. p \/ j = 1
            <6>1. j \in 1 .. n
              BY <1>2, <2>1, <3>1
            <6> QED
              BY <6>1
          <5>2. CASE j \in p + 1 .. n
            BY <1>6, <5>2, <1>3
          <5>3. CASE j \in 2 .. p
            <6>1. j <= p /\ j - 1 \in 1 .. i - 1
              BY <5>3
            <6>2. e[j] = q[j - 1]
              BY <1>6, <5>3
            <6> QED
              BY <6>1, <6>2
          <5> QED
            BY <5>1, <5>2, <5>3
        <4> QED
          BY <1>1, <1>3, <2>1, <4>1, <4>2
      <3>4. ASSUME NEW v \in later \cup {t}
            PROVE  v \in {e[j] : j \in 1 .. i - 1}
        <4>1. e[1] = t /\ 1 \in 1 .. i - 1
          BY <1>1, <1>3, <2>3
        <4>2. CASE v = t
          BY <4>1, <4>2
        <4>3. CASE v # t
          <5>1. PICK j \in 1 .. i - 1 : v = q[j] /\ j # p
            BY <2>1, <3>1, <4>3
          <5>2. CASE j < p
            <6>1. j + 1 \in 1 .. i - 1 /\ e[j + 1] = v
              BY <1>3, <1>7, <2>3, <5>1, <5>2
            <6> QED
              BY <6>1
          <5>3. CASE j > p
            <6>1. j \in p + 1 .. n
              BY <1>2, <2>1, <3>1, <5>1, <5>3
            <6>2. e[j] = v
              BY <1>6, <5>1, <6>1
            <6> QED
              BY <6>2
          <5> QED
            BY <1>3, <5>1, <5>2, <5>3
        <4> QED
          BY <4>2, <4>3
      <3>5. later \cup {t} = {e[j] : j \in 1 .. i - 1}
        BY <3>3, <3>4
      <3> QED
        BY <3>2, <3>5 DEF Recent, e
    <2>4. CASE i = p
      <3>1. n = Len(q) /\ n = Assoc /\ p = n
        BY <1>2, <1>3, <2>1, <2>4
      <3>2. ASSUME NEW j \in 1 .. n
            PROVE  e[j] # u /\ e[j] \in later \cup {t}
        <4>1. CASE j = 1
          BY <1>1, <1>3, <4>1
        <4>2. CASE j # 1
          <5>1. j - 1 \in 1 .. i - 1 /\ e[j] = q[j - 1] /\ j - 1 # i /\ j - 1 \in 1 .. Len(q)
            BY <1>1, <1>2, <1>3, <2>4, <3>1, <4>2
          <5> QED
            BY <2>1, <5>1 DEF OneToOne
        <4> QED
          BY <4>1, <4>2
      <3>3. ~ Holds(e, u)
        BY <1>1, <3>2, HoldsAt
      <3> QED
        BY <1>1, <3>1, <3>2, <3>3 DEF Recent, e
    <2> QED
      BY <1>3, <2>1, <2>2, <2>3, <2>4
  <1>5. CASE ~ Holds(q, u) /\ Len(q) = Assoc /\ {q[j] : j \in 1 .. Len(q)} \subseteq later
    <2>1. n = Assoc
      BY <1>1, <1>2, <1>5, CacheIsSane DEF Moves
    <2>2. ASSUME NEW j \in 1 .. n
          PROVE  e[j] # u /\ e[j] \in later \cup {t}
      <3>1. \A k \in 1 .. Len(q) : q[k] # u /\ q[k] \in later
        BY <1>5, HoldsAt
      <3>2. \/ e[j] = t
            \/ j - 1 \in 1 .. Len(q) /\ e[j] = q[j - 1]
            \/ j \in 1 .. Len(q) /\ e[j] = q[j]
        BY <1>1, <1>2, <1>3, <1>5, <2>1
      <3> QED
        BY <3>1, <3>2
    <2>3. ~ Holds(e, u)
      BY <1>1, <2>2, HoldsAt
    <2> QED
      BY <1>1, <2>1, <2>2, <2>3 DEF Recent, e
  <1> QED
    BY <1>4, <1>5 DEF Recent

LEMMA PrefixCard ==
  ASSUME NEW q \in Seq(Nat), OneToOne(q), NEW n \in 0 .. Len(q)
  PROVE  /\ IsFiniteSet({q[j] : j \in 1 .. n})
         /\ Cardinality({q[j] : j \in 1 .. n}) = n
  <1> DEFINE S == {q[j] : j \in 1 .. n}
             f == [j \in 1 .. n |-> q[j]]
  <1>1. Len(q) \in Nat
    BY LenProperties
  <1>2. f \in Bijection(1 .. n, S)
    BY <1>1 DEF OneToOne, Bijection, Injection, Surjection, IsInjective
  <1>3. ExistsBijection(1 .. n, S)
    BY <1>2 DEF ExistsBijection
  <1>4. IsFiniteSet(1 .. n) /\ Cardinality(1 .. n) = n
    BY <1>1, FS_Interval
  <1> QED
    BY <1>3, <1>4, FS_Bijection

\* A tag is in the list if fewer than Assoc others came after it.
LEMMA RecentHits ==
  ASSUME NEW q \in Seq(Nat), Len(q) <= Assoc, OneToOne(q), NEW u,
         NEW later, IsFiniteSet(later), Recent(q, u, later)
  PROVE  Holds(q, u) <=> Cardinality(later) < Assoc
  <1>1. Len(q) \in Nat /\ Assoc \in Nat
    BY LenProperties, CacheIsSane
  <1>2. CASE \E i \in 1 .. Len(q) : q[i] = u /\ later = {q[j] : j \in 1 .. i - 1}
    <2>1. PICK i \in 1 .. Len(q) : q[i] = u /\ later = {q[j] : j \in 1 .. i - 1}
      BY <1>2
    <2>2. Cardinality(later) = i - 1
      <3>1. i - 1 \in 0 .. Len(q)
        BY <1>1
      <3> QED
        BY <2>1, <3>1, PrefixCard
    <2>3. Holds(q, u)
      BY <2>1, HoldsAt
    <2> QED
      BY <1>1, <2>2, <2>3
  <1>3. CASE ~ Holds(q, u) /\ Len(q) = Assoc /\ {q[j] : j \in 1 .. Len(q)} \subseteq later
    <2>1. Cardinality({q[j] : j \in 1 .. Len(q)}) = Assoc
      <3>1. Len(q) \in 0 .. Len(q)
        BY <1>1
      <3> QED
        BY <1>3, <3>1, PrefixCard
    <2>2. Cardinality({q[j] : j \in 1 .. Len(q)}) <= Cardinality(later)
      BY <1>3, FS_Subset
    <2>3. Cardinality(later) \in Nat
      BY FS_CardinalityType
    <2> QED
      BY <1>1, <1>3, <2>1, <2>2, <2>3
  <1> QED
    BY <1>2, <1>3 DEF Recent

------------------------------------------------------------------------------
(* Touches, as a sequence T.                                                *)

LEMMA LeastNumber ==
  ASSUME NEW S \in SUBSET Nat, S # {}
  PROVE  \E m \in S : \A n \in S : m <= n
  <1>1. PICK m \in S : \A n \in S : <<n, m>> \notin OpToRel(<, Nat)
    BY NatLessThanWellFounded, WFMin
  <1>2. ASSUME NEW n \in S
        PROVE  m <= n
    <2>1. n \in Nat /\ m \in Nat
      OBVIOUS
    <2>2. ~(n < m)
      BY <1>1, <2>1 DEF OpToRel
    <2> QED
      BY <2>1, <2>2
  <1> QED
    BY <1>2

LEMMA GreatestBelow ==
  ASSUME NEW n \in Nat, NEW S \in SUBSET (0 .. n), S # {}
  PROVE  \E m \in S : \A k \in S : k <= m
  <1> DEFINE T == {i \in 0 .. n : n - i \in S}
  <1>1. PICK x \in S : TRUE
    OBVIOUS
  <1>2. n - x \in 0 .. n /\ n - (n - x) = x
    BY <1>1
  <1>3. T \in SUBSET Nat /\ T # {}
    <2>1. n - x \in T
      BY <1>1, <1>2
    <2>2. T \in SUBSET Nat
      OBVIOUS
    <2> HIDE DEF T
    <2> QED
      BY <2>1, <2>2
  <1>4. PICK m \in T : \A i \in T : m <= i
    BY <1>3, LeastNumber
  <1>5. m \in 0 .. n /\ n - m \in S
    BY <1>4
  <1>6. ASSUME NEW k \in S
        PROVE  k <= n - m
    <2>1. k \in 0 .. n /\ n - k \in 0 .. n /\ n - (n - k) = k
      OBVIOUS
    <2>2. n - k \in T
      BY <2>1
    <2>3. m <= n - k
      BY <1>4, <2>2
    <2> QED
      BY <1>5, <2>1, <2>3
  <1> QED
    BY <1>5, <1>6

TouchRecords == [line : Nat, access : Nat]

Aligned(T) == \A n \in 1 .. Len(T) : T[n].line % LineSize = 0

\* The lines of the set of touch n, other than its own, from after m up to n.
OthersIn(T, m, n) ==
    {T[k].line : k \in {k \in m + 1 .. n - 1 :
        SetOf(T[k].line) = SetOf(T[n].line) /\ T[k].line # T[n].line}}

HitIn(T, n) ==
    \E m \in 1 .. n - 1 : T[m].line = T[n].line /\ Cardinality(OthersIn(T, m, n)) < Assoc

LatestIn(T, m) == \A k \in m + 1 .. Len(T) : T[k].line # T[m].line

TagsSince(T, m) ==
    {TagOf(T[k].line) : k \in {k \in m + 1 .. Len(T) : SetOf(T[k].line) = SetOf(T[m].line)}}

\* Set s, with list q, after the touches T.
SetRight(T, s, q) ==
    /\ Len(q) <= Assoc /\ OneToOne(q)
    /\ \A i \in 1 .. Len(q) : \E n \in 1 .. Len(T) :
           SetOf(T[n].line) = s /\ TagOf(T[n].line) = q[i]
    /\ \A n \in 1 .. Len(T) : SetOf(T[n].line) = s /\ LatestIn(T, n) =>
           Recent(q, TagOf(T[n].line), TagsSince(T, n))

LEMMA AppendAt ==
  ASSUME NEW S, NEW T \in Seq(S), NEW x \in S
  PROVE  /\ Len(T) \in Nat /\ Append(T, x) \in Seq(S)
         /\ Len(Append(T, x)) = Len(T) + 1
         /\ \A n \in 1 .. Len(T) : Append(T, x)[n] = T[n]
         /\ Append(T, x)[Len(T) + 1] = x
  BY LenProperties, AppendProperties

\* Whether a touch hits does not depend on what comes after it.
LEMMA HitStays ==
  ASSUME NEW T \in Seq(TouchRecords), NEW x \in TouchRecords, NEW n \in 1 .. Len(T)
  PROVE  HitIn(Append(T, x), n) <=> HitIn(T, n)
  <1> DEFINE U == Append(T, x)
  <1>1. Len(T) \in Nat /\ \A k \in 1 .. Len(T) : U[k] = T[k]
    BY AppendAt
  <1> HIDE DEF U
  <1>2. ASSUME NEW m \in 1 .. n - 1
        PROVE  U[m] = T[m] /\ OthersIn(U, m, n) = OthersIn(T, m, n)
    <2>1. m \in 1 .. Len(T) /\ \A k \in m + 1 .. n - 1 : k \in 1 .. Len(T)
      BY <1>1
    <2>2. U[m] = T[m] /\ U[n] = T[n] /\ \A k \in m + 1 .. n - 1 : U[k] = T[k]
      BY <1>1, <2>1
    <2> QED
      BY <2>2 DEF OthersIn
  <1>3. U[n] = T[n]
    BY <1>1
  <1> QED
    BY <1>2, <1>3 DEF HitIn, U

\* A line that was touched has a last touch.
LEMMA LatestExists ==
  ASSUME NEW T \in Seq(TouchRecords), NEW m \in 1 .. Len(T)
  PROVE  \E n \in 1 .. Len(T) : n >= m /\ T[n].line = T[m].line /\ LatestIn(T, n)
  <1> DEFINE S == {k \in 1 .. Len(T) : T[k].line = T[m].line}
  <1>1. Len(T) \in Nat
    BY LenProperties
  <1>2. S \in SUBSET (0 .. Len(T)) /\ S # {} /\ m \in S
    BY <1>1
  <1>3. PICK n \in S : \A k \in S : k <= n
    BY <1>1, <1>2, GreatestBelow
  <1>4. n \in 1 .. Len(T) /\ T[n].line = T[m].line /\ n >= m
    BY <1>1, <1>2, <1>3
  <1>5. ASSUME NEW k \in n + 1 .. Len(T), T[k].line = T[n].line
        PROVE  FALSE
    <2>1. k \in S /\ ~(k <= n)
      BY <1>1, <1>4, <1>5
    <2> QED
      BY <1>3, <2>1
  <1> QED
    BY <1>4, <1>5 DEF LatestIn

\* The lines touched since the last touch of a line, counted by their tags.
LEMMA OthersAreTags ==
  ASSUME NEW T \in Seq(TouchRecords), Aligned(T), NEW x \in TouchRecords,
         NEW m \in 1 .. Len(T), T[m].line = x.line, LatestIn(T, m)
  PROVE  /\ IsFiniteSet(TagsSince(T, m))
         /\ Cardinality(OthersIn(Append(T, x), m, Len(T) + 1)) = Cardinality(TagsSince(T, m))
  <1> DEFINE U == Append(T, x)
             K == {k \in m + 1 .. Len(T) : SetOf(T[k].line) = SetOf(x.line)}
             L == {T[k].line : k \in K}
             g == [l \in L |-> TagOf(l)]
             f == [k \in K |-> T[k].line]
  <1>1. /\ Len(T) \in Nat
        /\ \A k \in 1 .. Len(T) : U[k] = T[k]
        /\ U[Len(T) + 1] = x
    BY AppendAt
  <1>2. \A k \in m + 1 .. Len(T) : T[k].line # x.line
    BY DEF LatestIn
  <1>3. OthersIn(U, m, Len(T) + 1) = L
    <2>1. (Len(T) + 1) - 1 = Len(T) /\ \A k \in m + 1 .. Len(T) : U[k] = T[k]
      BY <1>1
    <2> HIDE DEF U
    <2> QED
      BY <1>1, <1>2, <2>1 DEF OthersIn
  <1>4. TagsSince(T, m) = {TagOf(l) : l \in L}
    BY DEF TagsSince
  <1>5. \A l \in L : l \in Nat /\ l % LineSize = 0 /\ SetOf(l) = SetOf(x.line)
    <2>1. ASSUME NEW k \in K
          PROVE  T[k].line \in Nat /\ T[k].line % LineSize = 0
      <3>1. k \in 1 .. Len(T)
        BY <1>1
      <3>2. T[k] \in TouchRecords
        BY <3>1, ElementOfSeq
      <3> QED
        BY <3>1, <3>2 DEF TouchRecords, Aligned
    <2> QED
      BY <2>1
  <1>6. IsFiniteSet(L)
    <2>1. IsFiniteSet(K)
      <3>1. IsFiniteSet(m + 1 .. Len(T)) /\ K \in SUBSET (m + 1 .. Len(T))
        BY <1>1, FS_Interval
      <3> QED
        BY <3>1, FS_Subset
    <2>2. f \in Surjection(K, L)
      BY DEF Surjection
    <2> QED
      BY <2>1, <2>2, FS_Surjection
  <1> HIDE DEF L
  <1>7. g \in Bijection(L, TagsSince(T, m))
    <2>1. g \in [L -> TagsSince(T, m)]
      BY <1>4
    <2>2. ASSUME NEW a \in L, NEW b \in L, g[a] = g[b]
          PROVE  a = b
      BY <1>5, <2>2, OneLinePerPlace
    <2>3. \A u \in TagsSince(T, m) : \E a \in L : g[a] = u
      BY <1>4
    <2> QED
      BY <2>1, <2>2, <2>3 DEF Bijection, Injection, Surjection, IsInjective
  <1>8. ExistsBijection(L, TagsSince(T, m))
    BY <1>7 DEF ExistsBijection
  <1> QED
    BY <1>3, <1>6, <1>8, FS_Bijection

\* A touch hits, by the reference, when its tag is in the list of its set.
LEMMA HitsAreHeld ==
  ASSUME NEW T \in Seq(TouchRecords), Aligned(T), NEW x \in TouchRecords,
         x.line % LineSize = 0, NEW q \in Seq(Nat), SetRight(T, SetOf(x.line), q)
  PROVE  HitIn(Append(T, x), Len(T) + 1) <=> Holds(q, TagOf(x.line))
  <1> DEFINE U == Append(T, x)
             n == Len(T) + 1
             u == TagOf(x.line)
  <1>1. /\ Len(T) \in Nat
        /\ \A k \in 1 .. Len(T) : U[k] = T[k]
        /\ U[n] = x
    BY AppendAt
  <1> HIDE DEF U
  <1>2. x.line \in Nat /\ \A k \in 1 .. Len(T) : T[k].line \in Nat
    <2>1. \A k \in 1 .. Len(T) : T[k] \in TouchRecords
      BY ElementOfSeq
    <2> QED
      BY <2>1 DEF TouchRecords
  <1>3. ASSUME NEW m \in 1 .. Len(T), T[m].line = x.line, LatestIn(T, m)
        PROVE  Holds(q, u) <=> Cardinality(OthersIn(U, m, n)) < Assoc
    <2>1. /\ IsFiniteSet(TagsSince(T, m))
          /\ Cardinality(OthersIn(U, m, n)) = Cardinality(TagsSince(T, m))
      BY <1>3, OthersAreTags DEF U
    <2>2. Recent(q, u, TagsSince(T, m))
      BY <1>3 DEF SetRight
    <2> QED
      BY <2>1, <2>2, RecentHits DEF SetRight
  <1>4. ASSUME HitIn(U, n)
        PROVE  Holds(q, u)
    <2>1. PICK m \in 1 .. n - 1 : U[m].line = U[n].line /\ Cardinality(OthersIn(U, m, n)) < Assoc
      BY <1>4 DEF HitIn
    <2>2. m \in 1 .. Len(T) /\ T[m].line = x.line
      BY <1>1, <2>1
    <2>3. PICK l \in 1 .. Len(T) : l >= m /\ T[l].line = x.line /\ LatestIn(T, l)
      BY <2>2, LatestExists
    <2>4. OthersIn(U, l, n) \in SUBSET OthersIn(U, m, n)
      <3>1. \A k \in l + 1 .. n - 1 : k \in m + 1 .. n - 1
        BY <1>1, <2>2, <2>3
      <3> QED
        BY <3>1 DEF OthersIn
    <2>5. IsFiniteSet(OthersIn(U, m, n))
      <3> DEFINE K == {k \in m + 1 .. n - 1 :
                          SetOf(U[k].line) = SetOf(U[n].line) /\ U[k].line # U[n].line}
                 f == [k \in K |-> U[k].line]
      <3>1. IsFiniteSet(m + 1 .. n - 1) /\ K \in SUBSET (m + 1 .. n - 1)
        BY <1>1, FS_Interval
      <3>2. IsFiniteSet(K)
        BY <3>1, FS_Subset
      <3>3. f \in Surjection(K, OthersIn(U, m, n))
        BY DEF Surjection, OthersIn
      <3> QED
        BY <3>2, <3>3, FS_Surjection
    <2>6. /\ Cardinality(OthersIn(U, l, n)) <= Cardinality(OthersIn(U, m, n))
          /\ Cardinality(OthersIn(U, l, n)) \in Nat /\ Cardinality(OthersIn(U, m, n)) \in Nat
      BY <2>4, <2>5, FS_Subset, FS_CardinalityType
    <2>7. Cardinality(OthersIn(U, l, n)) < Assoc
      BY <2>1, <2>6, CacheIsSane
    <2> QED
      BY <1>3, <2>3, <2>7
  <1>5. ASSUME Holds(q, u)
        PROVE  HitIn(U, n)
    <2>1. PICK i \in 1 .. Len(q) : q[i] = u
      BY <1>5, HoldsAt
    <2>2. PICK k \in 1 .. Len(T) : SetOf(T[k].line) = SetOf(x.line) /\ TagOf(T[k].line) = u
      BY <2>1 DEF SetRight
    <2>3. T[k].line = x.line
      BY <1>2, <2>2, OneLinePerPlace DEF Aligned
    <2>4. PICK l \in 1 .. Len(T) : T[l].line = x.line /\ LatestIn(T, l)
      BY <2>3, LatestExists
    <2>5. Cardinality(OthersIn(U, l, n)) < Assoc
      BY <1>3, <1>5, <2>4
    <2>6. l \in 1 .. n - 1 /\ U[l].line = U[n].line
      BY <1>1, <2>4
    <2> QED
      BY <2>5, <2>6 DEF HitIn
  <1> QED
    BY <1>4, <1>5 DEF U

\* A touch keeps its own set right ...
LEMMA TouchKeepsSet ==
  ASSUME NEW T \in Seq(TouchRecords), Aligned(T), NEW x \in TouchRecords,
         x.line % LineSize = 0, NEW q \in Seq(Nat), SetRight(T, SetOf(x.line), q)
  PROVE  SetRight(Append(T, x), SetOf(x.line), Touch(q, TagOf(x.line)))
  <1> DEFINE U == Append(T, x)
             N == Len(T)
             s == SetOf(x.line)
             t == TagOf(x.line)
             e == Touch(q, t)
  <1>1. /\ N \in Nat /\ Len(U) = N + 1
        /\ \A k \in 1 .. N : U[k] = T[k]
        /\ U[N + 1] = x
    BY AppendAt
  <1>2. x.line \in Nat /\ \A k \in 1 .. N : T[k].line \in Nat
    <2>1. \A k \in 1 .. N : T[k] \in TouchRecords
      BY ElementOfSeq
    <2> QED
      BY <2>1 DEF TouchRecords
  <1>3. t \in Nat /\ Len(q) <= Assoc /\ OneToOne(q)
    BY <1>2, LinePlace DEF SetRight
  <1>4. /\ e \in Seq(Nat) /\ Len(e) \in 1 .. Assoc /\ OneToOne(e) /\ e[1] = t
        /\ \A i \in 1 .. Len(e) : e[i] = t \/ Holds(q, e[i])
    BY <1>3, TouchKeeps
  <1> HIDE DEF U, N, s, t, e
  <1>5. ASSUME NEW i \in 1 .. Len(e)
        PROVE  \E n \in 1 .. Len(U) : SetOf(U[n].line) = s /\ TagOf(U[n].line) = e[i]
    <2>1. CASE e[i] = t
      <3>1. N + 1 \in 1 .. Len(U)
        BY <1>1
      <3> QED
        BY <1>1, <2>1, <3>1 DEF s, t
    <2>2. CASE Holds(q, e[i])
      <3>1. PICK j \in 1 .. Len(q) : q[j] = e[i]
        BY <2>2, HoldsAt
      <3>2. PICK n \in 1 .. N : SetOf(T[n].line) = s /\ TagOf(T[n].line) = q[j]
        BY DEF SetRight, N, s
      <3>3. n \in 1 .. Len(U) /\ U[n] = T[n]
        BY <1>1
      <3> QED
        BY <3>1, <3>2, <3>3
    <2> QED
      BY <1>4, <2>1, <2>2
  <1>6. ASSUME NEW n \in 1 .. Len(U), SetOf(U[n].line) = s, LatestIn(U, n)
        PROVE  Recent(e, TagOf(U[n].line), TagsSince(U, n))
    <2>1. CASE n = N + 1
      <3>1. TagsSince(U, n) = {}
        <4>1. \A k \in n + 1 .. Len(U) : FALSE
          BY <1>1, <2>1
        <4> QED
          BY <4>1 DEF TagsSince
      <3>2. 1 \in 1 .. Len(e) /\ {} = {e[j] : j \in 1 .. 1 - 1} /\ e[1] = TagOf(U[n].line)
        BY <1>1, <1>4, <2>1, CacheIsSane DEF t
      <3> QED
        BY <3>1, <3>2 DEF Recent
    <2>2. CASE n # N + 1
      <3>1. n \in 1 .. N /\ U[n] = T[n]
        BY <1>1, <2>2
      <3>2. /\ \A k \in n + 1 .. N : k \in n + 1 .. Len(U) /\ U[k] = T[k]
            /\ N + 1 \in n + 1 .. Len(U)
        BY <1>1, <3>1
      <3>3. LatestIn(T, n) /\ x.line # T[n].line
        BY <1>1, <1>6, <3>1, <3>2 DEF LatestIn, N
      <3>4. Recent(q, TagOf(T[n].line), TagsSince(T, n))
        BY <1>6, <3>1, <3>3 DEF SetRight, N, s
      <3>5. TagOf(T[n].line) # t
        BY <1>2, <1>6, <3>1, <3>3, OneLinePerPlace DEF Aligned, N, s, t
      <3>6. TagOf(T[n].line) \in Nat
        BY <1>2, <3>1, LinePlace
      <3>7. TagsSince(U, n) = TagsSince(T, n) \cup {t}
        <4>1. \A k \in n + 1 .. Len(U) : k \in n + 1 .. N \/ k = N + 1
          BY <1>1
        <4> QED
          BY <1>1, <1>6, <3>1, <3>2, <4>1 DEF TagsSince, N, s, t
      <3> QED
        BY <1>3, <3>1, <3>4, <3>5, <3>6, <3>7, TouchRecent DEF e
    <2> QED
      BY <2>1, <2>2
  <1> QED
    <2>1. Len(e) <= Assoc
      BY <1>4, CacheIsSane
    <2>2. SetRight(U, s, e)
      BY <1>4, <1>5, <1>6, <2>1 DEF SetRight
    <2> QED
      BY <2>2 DEF U, s, t, e

\* ... and leaves the others as they are.
LEMMA OtherSetsStay ==
  ASSUME NEW T \in Seq(TouchRecords), NEW x \in TouchRecords, NEW s, SetOf(x.line) # s,
         NEW q \in Seq(Nat), SetRight(T, s, q)
  PROVE  SetRight(Append(T, x), s, q)
  <1> DEFINE U == Append(T, x)
             N == Len(T)
  <1>1. /\ N \in Nat /\ Len(U) = N + 1
        /\ \A k \in 1 .. N : U[k] = T[k]
        /\ U[N + 1] = x
    BY AppendAt
  <1> HIDE DEF U, N
  <1>2. ASSUME NEW i \in 1 .. Len(q)
        PROVE  \E n \in 1 .. Len(U) : SetOf(U[n].line) = s /\ TagOf(U[n].line) = q[i]
    <2>1. PICK n \in 1 .. N : SetOf(T[n].line) = s /\ TagOf(T[n].line) = q[i]
      BY DEF SetRight, N
    <2>2. n \in 1 .. Len(U) /\ U[n] = T[n]
      BY <1>1
    <2> QED
      BY <2>1, <2>2
  <1>3. ASSUME NEW n \in 1 .. Len(U), SetOf(U[n].line) = s, LatestIn(U, n)
        PROVE  Recent(q, TagOf(U[n].line), TagsSince(U, n))
    <2>1. n \in 1 .. N /\ U[n] = T[n]
      BY <1>1, <1>3
    <2>2. \A k \in n + 1 .. N : k \in n + 1 .. Len(U) /\ U[k] = T[k]
      BY <1>1, <2>1
    <2>3. LatestIn(T, n)
      BY <1>3, <2>1, <2>2 DEF LatestIn, N
    <2>4. TagsSince(U, n) = TagsSince(T, n)
      <3>1. \A k \in n + 1 .. Len(U) : k \in n + 1 .. N \/ k = N + 1
        BY <1>1
      <3> QED
        BY <1>1, <1>3, <2>1, <2>2, <3>1 DEF TagsSince, N
    <2> QED
      BY <1>3, <2>1, <2>3, <2>4 DEF SetRight, N
  <1> QED
    BY <1>2, <1>3 DEF SetRight, U

------------------------------------------------------------------------------
(* The invariant.                                                           *)

ReplayTypeOK ==
    /\ accesses \in Seq(Accesses)
    /\ current \in Nat /\ stop \in Nat
    /\ ways \in [0 .. NumSets - 1 -> Seq(Nat)]
    /\ hits \in Nat /\ misses \in Nat
    /\ byType \in [{"R", "W"} -> [hits : Nat, misses : Nat]]
    /\ unique \in SUBSET Nat /\ minLine \in Nat /\ maxLine \in Nat
    /\ readLines \in Seq(Nat)
    /\ pairs \in Nat
    /\ touches \in Seq(TouchRecords)
    /\ Aligned(touches)
    /\ \A n \in 1 .. Len(touches) : touches[n].access \in 1 .. Len(accesses)

\* The bytes of access i that are done with.
BytesDone(i) ==
    accesses[i].addr ..
        (IF i < Len(accesses) \/ current >= stop THEN accesses[i].addr + accesses[i].size
         ELSE current) - 1

LinesTouched(i) ==
    {touches[n].line : n \in {n \in 1 .. Len(touches) : touches[n].access = i}}

InTurn(a, b) == a.access < b.access \/ (a.access = b.access /\ a.line < b.line)

\* The lines touched are those of the bytes that are done with, in their order.
CursorRight ==
    /\ accesses = <<>> => current >= stop
    /\ accesses # <<>> =>
           /\ current >= accesses[Len(accesses)].addr
           /\ stop = accesses[Len(accesses)].addr + accesses[Len(accesses)].size
           /\ current = accesses[Len(accesses)].addr \/ current % LineSize = 0
    /\ \A i \in 1 .. Len(accesses) : LinesTouched(i) = {LineOf(b) : b \in BytesDone(i)}
    /\ \A m, n \in 1 .. Len(touches) : m < n => InTurn(touches[m], touches[n])

WaysRight == \A s \in 0 .. NumSets - 1 : SetRight(touches, s, ways[s])

Hitting == {n \in 1 .. Len(touches) : HitIn(touches, n)}
Missing == 1 .. Len(touches) \ Hitting

CountsRight ==
    /\ hits = Cardinality(Hitting)
    /\ hits + misses = Len(touches)
    /\ \A k \in {"R", "W"} :
           /\ byType[k].hits = Cardinality({n \in Hitting : Kind(n) = k})
           /\ byType[k].misses = Cardinality({n \in Missing : Kind(n) = k})
    /\ unique = {touches[n].line : n \in 1 .. Len(touches)}
    /\ Cardinality(unique) <= misses

SpanRight ==
    /\ unique # {} => {minLine, maxLine} \subseteq unique
    /\ \A l \in unique : minLine <= l /\ l <= maxLine

ReadsRight ==
    /\ \A i \in 1 .. Len(readLines) : readLines[i] % LineSize = 0
    /\ Len(readLines) = Cardinality(ReadsUpTo(Len(accesses)))
    /\ \A i \in ReadsUpTo(Len(accesses)) :
           readLines[Cardinality(ReadsUpTo(i))] = LineOf(accesses[i].addr)

StridesRight ==
    /\ DOMAIN strides = {StrideAt(i) : i \in 2 .. Len(readLines)}
    /\ \A d \in DOMAIN strides :
           strides[d] = Cardinality({i \in 2 .. Len(readLines) : StrideAt(i) = d})

PairsRight == pairs = Cardinality(PairsUpTo(Len(accesses)))

ReplayInv ==
    /\ ReplayTypeOK /\ CursorRight /\ WaysRight /\ CountsRight
    /\ SpanRight /\ ReadsRight /\ StridesRight /\ PairsRight

LEMMA AccessTyped ==
  ASSUME NEW x \in Accesses
  PROVE  x.kind \in {"R", "W"} /\ x.addr \in Nat /\ x.size \in Nat
  BY ReplayAssumption

LEMMA LastAccess ==
  ASSUME ReplayTypeOK, CursorRight, current < stop
  PROVE  /\ Len(accesses) \in Nat \ {0}
         /\ accesses[Len(accesses)] \in Accesses
         /\ accesses # <<>>
  <1>1. accesses \in Seq(Accesses) /\ Len(accesses) \in Nat /\ current \in Nat /\ stop \in Nat
    BY LenProperties DEF ReplayTypeOK
  <1>2. accesses # <<>>
    BY <1>1 DEF CursorRight
  <1>3. Len(accesses) # 0
    BY <1>1, <1>2, EmptySeq
  <1>4. Len(accesses) \in 1 .. Len(accesses)
    BY <1>1, <1>3
  <1> QED
    BY <1>1, <1>2, <1>3, <1>4, ElementOfSeq

LEMMA OpenKeepsTypes ==
  ASSUME ReplayTypeOK, NEW x \in Accesses, OpenAccess(x)
  PROVE  ReplayTypeOK'
  <1>1. x.addr \in Nat /\ x.addr + x.size \in Nat /\ LineOf(x.addr) \in Nat
    BY AccessTyped, LineStarts
  <1>2. accesses' \in Seq(Accesses) /\ Len(accesses') = Len(accesses) + 1 /\ Len(accesses) \in Nat
    BY AppendAt DEF ReplayTypeOK, OpenAccess
  <1>3. readLines' \in Seq(Nat)
    BY <1>1, AppendAt DEF ReplayTypeOK, OpenAccess
  <1>4. \A n \in 1 .. Len(touches) : touches[n].access \in 1 .. Len(accesses')
    BY <1>2 DEF ReplayTypeOK
  <1>5. pairs' \in Nat
    BY DEF ReplayTypeOK, OpenAccess
  <1> QED
    BY <1>1, <1>2, <1>3, <1>4, <1>5 DEF ReplayTypeOK, OpenAccess, Aligned

\* What TouchLine does, by name.
TheLine == LineOf(current)
TheTouch == [line |-> TheLine, access |-> Len(accesses)]
TheKind == accesses[Len(accesses)].kind
IsHit == Holds(ways[SetOf(TheLine)], TagOf(TheLine))
One(b) == IF b THEN 1 ELSE 0

LEMMA TouchEffect ==
  ASSUME ReplayTypeOK, CursorRight, TouchLine
  PROVE  /\ TheLine \in Nat /\ TheLine % LineSize = 0
         /\ SetOf(TheLine) \in 0 .. NumSets - 1 /\ TagOf(TheLine) \in Nat
         /\ TheTouch \in TouchRecords /\ TheTouch.line = TheLine
         /\ TheTouch.access = Len(accesses)
         /\ Len(accesses) \in Nat \ {0}
         /\ TheKind \in {"R", "W"}
         /\ current < stop /\ current' = TheLine + LineSize
         /\ ways' = [ways EXCEPT ![SetOf(TheLine)] =
                         Touch(ways[SetOf(TheLine)], TagOf(TheLine))]
         /\ hits' = hits + One(IsHit) /\ misses' = misses + (1 - One(IsHit))
         /\ unique' = unique \cup {TheLine}
         /\ minLine' = (IF unique = {} \/ TheLine < minLine THEN TheLine ELSE minLine)
         /\ maxLine' = (IF unique = {} \/ TheLine > maxLine THEN TheLine ELSE maxLine)
         /\ touches' = Append(touches, TheTouch)
         /\ accesses' = accesses /\ stop' = stop /\ readLines' = readLines
         /\ strides' = strides /\ pairs' = pairs
  <1>1. current \in Nat /\ current < stop
    BY DEF ReplayTypeOK, TouchLine
  <1>2. TheLine \in Nat /\ TheLine % LineSize = 0
    BY <1>1, LineStarts DEF TheLine
  <1>3. SetOf(TheLine) \in 0 .. NumSets - 1 /\ TagOf(TheLine) \in Nat
    BY <1>2, LinePlace
  <1>4. Len(accesses) \in Nat \ {0} /\ TheKind \in {"R", "W"}
    BY <1>1, LastAccess, AccessTyped DEF TheKind
  <1>5. /\ TheTouch \in TouchRecords /\ TheTouch.line = TheLine
        /\ TheTouch.access = Len(accesses)
    BY <1>2, <1>4 DEF TheTouch, TouchRecords
  <1>6. /\ current' = TheLine + LineSize
        /\ ways' = [ways EXCEPT ![SetOf(TheLine)] =
                         Touch(ways[SetOf(TheLine)], TagOf(TheLine))]
        /\ hits' = hits + One(IsHit) /\ misses' = misses + (1 - One(IsHit))
        /\ unique' = unique \cup {TheLine}
        /\ minLine' = (IF unique = {} \/ TheLine < minLine THEN TheLine ELSE minLine)
        /\ maxLine' = (IF unique = {} \/ TheLine > maxLine THEN TheLine ELSE maxLine)
        /\ touches' = Append(touches, TheTouch)
        /\ accesses' = accesses /\ stop' = stop /\ readLines' = readLines
        /\ strides' = strides /\ pairs' = pairs
    BY DEF TouchLine, TheLine, TheTouch, IsHit, One
  <1> QED
    BY <1>1, <1>2, <1>3, <1>4, <1>5, <1>6

LEMMA TouchCounts ==
  ASSUME ReplayTypeOK, CursorRight, TouchLine
  PROVE  /\ byType' \in [{"R", "W"} -> [hits : Nat, misses : Nat]]
         /\ \A k \in {"R", "W"} :
                /\ byType'[k].hits = byType[k].hits + (IF k = TheKind THEN One(IsHit) ELSE 0)
                /\ byType'[k].misses =
                       byType[k].misses + (IF k = TheKind THEN 1 - One(IsHit) ELSE 0)
  <1>1. TheKind \in {"R", "W"}
    BY TouchEffect
  <1>2. byType' = [byType EXCEPT ![TheKind].hits = @ + One(IsHit),
                                 ![TheKind].misses = @ + (1 - One(IsHit))]
    BY DEF TouchLine, TheKind, IsHit, TheLine, One
  <1>3. One(IsHit) \in Nat /\ 1 - One(IsHit) \in Nat
    BY DEF One
  <1>4. byType \in [{"R", "W"} -> [hits : Nat, misses : Nat]]
    BY DEF ReplayTypeOK
  <1> QED
    BY <1>1, <1>2, <1>3, <1>4

LEMMA TouchAppends ==
  ASSUME ReplayTypeOK, CursorRight, TouchLine
  PROVE  /\ touches \in Seq(TouchRecords) /\ touches' \in Seq(TouchRecords)
         /\ Len(touches) \in Nat /\ Len(touches') = Len(touches) + 1
         /\ \A k \in 1 .. Len(touches) : touches'[k] = touches[k]
         /\ touches'[Len(touches) + 1] = TheTouch
  <1>1. touches \in Seq(TouchRecords)
    BY DEF ReplayTypeOK
  <1>2. TheTouch \in TouchRecords /\ touches' = Append(touches, TheTouch)
    BY TouchEffect
  <1> QED
    BY <1>1, <1>2, AppendAt

LEMMA TouchKeepsTypes ==
  ASSUME ReplayTypeOK, CursorRight, WaysRight, TouchLine
  PROVE  ReplayTypeOK'
  <1>1. hits' \in Nat /\ misses' \in Nat
    <2>1. hits' = hits + One(IsHit) /\ misses' = misses + (1 - One(IsHit))
      BY TouchEffect
    <2> QED
      BY <2>1 DEF ReplayTypeOK, One
  <1>2. ways' \in [0 .. NumSets - 1 -> Seq(Nat)]
    <2> DEFINE s == SetOf(TheLine)
    <2>1. s \in 0 .. NumSets - 1 /\ TagOf(TheLine) \in Nat
      BY TouchEffect
    <2>2. ways[s] \in Seq(Nat) /\ Len(ways[s]) <= Assoc /\ OneToOne(ways[s])
      BY <2>1 DEF ReplayTypeOK, WaysRight, SetRight
    <2>3. Touch(ways[s], TagOf(TheLine)) \in Seq(Nat)
      BY <2>1, <2>2, TouchKeeps
    <2> QED
      BY <2>1, <2>3, TouchEffect DEF ReplayTypeOK
  <1>3. touches' \in Seq(TouchRecords)
    BY TouchAppends
  <1>4. ASSUME NEW n \in 1 .. Len(touches')
        PROVE  touches'[n].line % LineSize = 0 /\ touches'[n].access \in 1 .. Len(accesses)
    <2>1. n \in 1 .. Len(touches) \/ n = Len(touches) + 1
      BY TouchAppends
    <2>2. CASE n \in 1 .. Len(touches)
      BY <2>2, TouchAppends DEF ReplayTypeOK, Aligned
    <2>3. CASE n = Len(touches) + 1
      <3>1. /\ TheTouch.line = TheLine /\ TheLine % LineSize = 0
            /\ TheTouch.access = Len(accesses) /\ Len(accesses) \in 1 .. Len(accesses)
        BY TouchEffect
      <3>2. touches'[n] = TheTouch
        BY <2>3, TouchAppends
      <3> QED
        BY <3>1, <3>2
    <2> QED
      BY <2>1, <2>2, <2>3
  <1>5. current' \in Nat /\ minLine' \in Nat /\ maxLine' \in Nat /\ unique' \in SUBSET Nat
    <2>1. /\ TheLine \in Nat /\ current' = TheLine + LineSize
          /\ minLine' = (IF unique = {} \/ TheLine < minLine THEN TheLine ELSE minLine)
          /\ maxLine' = (IF unique = {} \/ TheLine > maxLine THEN TheLine ELSE maxLine)
          /\ unique' = unique \cup {TheLine}
      BY TouchEffect
    <2>2. current' \in Nat
      BY <2>1, CacheIsSane
    <2> QED
      BY <2>1, <2>2 DEF ReplayTypeOK
  <1> QED
    BY <1>1, <1>2, <1>3, <1>4, <1>5, TouchEffect, TouchCounts DEF ReplayTypeOK, Aligned

------------------------------------------------------------------------------
(* The cursor.                                                              *)

LEMMA OpenKeepsCursor ==
  ASSUME ReplayTypeOK, CursorRight, NEW x \in Accesses, OpenAccess(x)
  PROVE  CursorRight'
  <1> DEFINE N == Len(accesses)
  <1>1. /\ N \in Nat /\ Len(accesses') = N + 1 /\ accesses' \in Seq(Accesses)
        /\ \A i \in 1 .. N : accesses'[i] = accesses[i]
        /\ accesses'[N + 1] = x
    BY AppendAt DEF ReplayTypeOK, OpenAccess
  <1>2. /\ current >= stop /\ current' = x.addr /\ stop' = x.addr + x.size
        /\ touches' = touches
    BY DEF OpenAccess
  <1>3. x.addr \in Nat /\ x.size \in Nat
    BY AccessTyped
  <1> HIDE DEF N
  <1>4. accesses' # <<>>
    BY <1>1, EmptySeq
  <1>5. ASSUME NEW i \in 1 .. N + 1
        PROVE  LinesTouched(i)' = {LineOf(b) : b \in BytesDone(i)'}
    <2>1. CASE i \in 1 .. N
      <3>1. LinesTouched(i)' = LinesTouched(i)
        BY <1>2 DEF LinesTouched
      <3>2. BytesDone(i)' = BytesDone(i)
        <4>1. i < Len(accesses') /\ accesses'[i] = accesses[i]
          BY <1>1, <2>1
        <4> QED
          BY <1>2, <4>1 DEF BytesDone
      <3> QED
        BY <2>1, <3>1, <3>2 DEF CursorRight, N
    <2>2. CASE i = N + 1
      <3>1. LinesTouched(i)' = {}
        <4>1. \A n \in 1 .. Len(touches) : touches[n].access # i
          BY <1>1, <2>2 DEF ReplayTypeOK, N
        <4> QED
          BY <1>2, <4>1 DEF LinesTouched
      <3>2. BytesDone(i)' = {}
        <4>1. BytesDone(i)' = x.addr .. x.addr - 1
          <5>1. CASE x.size = 0
            BY <1>1, <1>2, <1>3, <2>2, <5>1 DEF BytesDone
          <5>2. CASE x.size # 0
            <6>1. ~(current' >= stop') /\ ~(i < Len(accesses'))
              BY <1>1, <1>2, <1>3, <2>2, <5>2
            <6> QED
              BY <1>1, <1>2, <2>2, <6>1 DEF BytesDone
          <5> QED
            BY <5>1, <5>2
        <4> QED
          BY <1>3, <4>1
      <3> QED
        BY <3>1, <3>2
    <2> QED
      BY <1>1, <2>1, <2>2
  <1>6. \A m, n \in 1 .. Len(touches') : m < n => InTurn(touches'[m], touches'[n])
    BY <1>2 DEF CursorRight
  <1>7. /\ current' >= accesses'[Len(accesses')].addr
        /\ stop' = accesses'[Len(accesses')].addr + accesses'[Len(accesses')].size
        /\ current' = accesses'[Len(accesses')].addr
    BY <1>1, <1>2, <1>3
  <1> QED
    BY <1>1, <1>4, <1>5, <1>6, <1>7 DEF CursorRight

LEMMA TouchKeepsCursor ==
  ASSUME ReplayTypeOK, CursorRight, TouchLine
  PROVE  CursorRight'
  <1> DEFINE N == Len(accesses)
             x == accesses[N]
             line == TheLine
             K == Len(touches)
  <1>1. /\ N \in Nat \ {0} /\ x \in Accesses /\ accesses # <<>> /\ accesses' = accesses
        /\ stop' = stop
    BY LastAccess, TouchEffect
  <1>2. /\ x.addr \in Nat /\ x.size \in Nat /\ current \in Nat /\ stop \in Nat
        /\ current >= x.addr /\ stop = x.addr + x.size /\ current < stop
        /\ current = x.addr \/ current % LineSize = 0
    BY <1>1, AccessTyped, TouchEffect DEF CursorRight, ReplayTypeOK
  <1>3. /\ line \in Nat /\ line % LineSize = 0 /\ line <= current /\ current < line + LineSize
        /\ current' = line + LineSize /\ current' % LineSize = 0
        /\ LineSize \in Nat
    <2>1. line \in Nat /\ line % LineSize = 0 /\ current' = line + LineSize
      BY TouchEffect
    <2>2. line <= current /\ current < line + LineSize
      BY <1>2, LineStarts DEF TheLine
    <2> QED
      BY <2>1, <2>2, NextLine, CacheIsSane
  <1>4. /\ K \in Nat /\ Len(touches') = K + 1
        /\ \A k \in 1 .. K : touches'[k] = touches[k]
        /\ touches'[K + 1] = TheTouch
        /\ TheTouch.line = line /\ TheTouch.access = N
    BY TouchAppends, TouchEffect
  <1>5. \A n \in 1 .. K : touches[n].access \in 1 .. N /\ touches[n] \in TouchRecords
    BY ElementOfSeq DEF ReplayTypeOK
  <1> HIDE DEF N, x, line, K
  <1>6. BytesDone(N) = x.addr .. current - 1
    BY <1>1, <1>2 DEF BytesDone, N, x
  <1>7. ASSUME NEW i \in 1 .. N
        PROVE  LinesTouched(i)' = {LineOf(b) : b \in BytesDone(i)'}
    <2>1. \A n \in 1 .. K + 1 : n \in 1 .. K \/ n = K + 1
      BY <1>4
    <2>2. LinesTouched(i) = {LineOf(b) : b \in BytesDone(i)}
      BY DEF CursorRight, N
    <2>3. CASE i # N
      <3>1. LinesTouched(i)' = LinesTouched(i)
        BY <1>4, <2>1, <2>3 DEF LinesTouched, K
      <3>2. BytesDone(i)' = BytesDone(i)
        <4>1. i < N
          BY <1>1, <2>3
        <4> QED
          BY <1>1, <4>1 DEF BytesDone, N
      <3> QED
        BY <2>2, <3>1, <3>2
    <2>4. CASE i = N
      <3> DEFINE last == IF current' >= stop THEN stop ELSE current'
      <3>1. /\ last \in Nat /\ current + 1 <= last /\ last <= line + LineSize
        BY <1>2, <1>3
      <3>2. BytesDone(i)' = x.addr .. last - 1
        BY <1>1, <1>2, <2>4 DEF BytesDone, N, x
      <3> HIDE DEF last
      <3>3. LinesTouched(i)' = LinesTouched(i) \cup {line}
        <4>1. {n \in 1 .. Len(touches') : touches'[n].access = i}
                  = {n \in 1 .. K : touches[n].access = i} \cup {K + 1}
          BY <1>4, <2>1, <2>4
        <4> QED
          BY <1>4, <4>1 DEF LinesTouched, K
      <3>4. ASSUME NEW b \in current .. last - 1
            PROVE  LineOf(b) = line
        <4>1. b \in line .. line + LineSize - 1
          BY <1>2, <1>3, <3>1
        <4> QED
          BY <1>3, <4>1, LineHolds
      <3>5. \A b \in x.addr .. last - 1 : b \in x.addr .. current - 1 \/ b \in current .. last - 1
        BY <1>2, <3>1
      <3>6. \A b \in x.addr .. current - 1 : b \in x.addr .. last - 1
        BY <1>2, <3>1
      <3>7. current \in current .. last - 1 /\ current \in x.addr .. last - 1
        BY <1>2, <3>1
      <3>8. {LineOf(b) : b \in x.addr .. last - 1}
                = {LineOf(b) : b \in x.addr .. current - 1} \cup {line}
        BY <3>4, <3>5, <3>6, <3>7
      <3> QED
        BY <1>6, <2>2, <2>4, <3>2, <3>3, <3>8
    <2> QED
      BY <2>3, <2>4
  <1>8. ASSUME NEW m \in 1 .. K + 1, NEW n \in 1 .. K + 1, m < n
        PROVE  InTurn(touches'[m], touches'[n])
    <2>1. m \in 1 .. K
      BY <1>4, <1>8
    <2>2. CASE n \in 1 .. K
      BY <1>4, <1>8, <2>1, <2>2 DEF CursorRight, K
    <2>3. CASE n = K + 1
      <3>1. touches'[m] = touches[m] /\ touches'[n] = TheTouch
        BY <1>4, <2>1, <2>3
      <3>2. touches[m].access \in 1 .. N
        BY <1>5, <2>1
      <3>3. CASE touches[m].access = N
        <4>1. touches[m].line \in LinesTouched(N)
          BY <2>1, <3>3 DEF LinesTouched, K
        <4>2. N \in 1 .. Len(accesses)
          BY <1>1 DEF N
        <4>3. PICK b \in x.addr .. current - 1 : touches[m].line = LineOf(b)
          BY <1>6, <4>1, <4>2 DEF CursorRight
        <4>4. LineOf(b) <= b /\ b < current /\ b \in Nat /\ LineOf(b) \in Nat /\ current # x.addr
          BY <1>2, LineStarts
        <4>5. line = current
          <5>1. current % LineSize = 0
            BY <1>2, <4>4
          <5> QED
            BY <1>2, <5>1 DEF line, TheLine, LineOf
        <4>6. touches[m].line < line
          BY <1>2, <4>3, <4>4, <4>5
        <4> QED
          BY <1>4, <3>1, <3>3, <4>6 DEF InTurn
      <3>4. CASE touches[m].access # N
        <4>1. touches[m].access < N
          BY <1>1, <3>2, <3>4
        <4> QED
          BY <1>4, <3>1, <4>1 DEF InTurn
      <3> QED
        BY <3>3, <3>4
    <2> QED
      BY <1>4, <2>2, <2>3
  <1>9. current' >= x.addr
    BY <1>2, <1>3
  <1> QED
    BY <1>1, <1>2, <1>3, <1>4, <1>7, <1>8, <1>9 DEF CursorRight, N, x, K

------------------------------------------------------------------------------
(* The cache.                                                               *)

LEMMA TouchKeepsWays ==
  ASSUME ReplayTypeOK, CursorRight, WaysRight, TouchLine
  PROVE  WaysRight'
  <1> DEFINE at == SetOf(TheLine)
  <1>1. /\ touches \in Seq(TouchRecords) /\ Aligned(touches)
        /\ ways \in [0 .. NumSets - 1 -> Seq(Nat)]
    BY DEF ReplayTypeOK
  <1>2. /\ TheTouch \in TouchRecords /\ TheTouch.line = TheLine /\ TheLine % LineSize = 0
        /\ at \in 0 .. NumSets - 1
        /\ ways' = [ways EXCEPT ![at] = Touch(ways[at], TagOf(TheLine))]
        /\ touches' = Append(touches, TheTouch)
    BY TouchEffect
  <1> HIDE DEF at
  <1>3. ASSUME NEW s \in 0 .. NumSets - 1
        PROVE  SetRight(touches', s, ways'[s])
    <2>1. SetRight(touches, s, ways[s]) /\ ways[s] \in Seq(Nat)
      BY <1>1 DEF WaysRight
    <2>2. CASE s = at
      <3>1. ways'[s] = Touch(ways[s], TagOf(TheTouch.line)) /\ SetOf(TheTouch.line) = s
        BY <1>1, <1>2, <2>2 DEF at
      <3> QED
        BY <1>1, <1>2, <2>1, <3>1, TouchKeepsSet
    <2>3. CASE s # at
      <3>1. ways'[s] = ways[s] /\ SetOf(TheTouch.line) # s
        BY <1>1, <1>2, <2>3 DEF at
      <3> QED
        BY <1>1, <1>2, <2>1, <3>1, OtherSetsStay
    <2> QED
      BY <2>2, <2>3
  <1> QED
    BY <1>3 DEF WaysRight

\* The code's hit is the reference's hit.
LEMMA HitIsHit ==
  ASSUME ReplayTypeOK, CursorRight, WaysRight, TouchLine
  PROVE  HitIn(touches', Len(touches) + 1) <=> IsHit
  <1>1. /\ touches \in Seq(TouchRecords) /\ Aligned(touches)
        /\ ways \in [0 .. NumSets - 1 -> Seq(Nat)]
    BY DEF ReplayTypeOK
  <1>2. /\ TheTouch \in TouchRecords /\ TheTouch.line = TheLine /\ TheLine % LineSize = 0
        /\ SetOf(TheLine) \in 0 .. NumSets - 1
        /\ touches' = Append(touches, TheTouch)
    BY TouchEffect
  <1>3. /\ SetRight(touches, SetOf(TheTouch.line), ways[SetOf(TheTouch.line)])
        /\ ways[SetOf(TheTouch.line)] \in Seq(Nat)
    BY <1>1, <1>2 DEF WaysRight
  <1>4. HitIn(Append(touches, TheTouch), Len(touches) + 1)
            <=> Holds(ways[SetOf(TheTouch.line)], TagOf(TheTouch.line))
    BY <1>1, <1>2, <1>3, HitsAreHeld
  <1> QED
    BY <1>2, <1>4 DEF IsHit

LEMMA FiniteTouches ==
  ASSUME ReplayTypeOK
  PROVE  /\ Len(touches) \in Nat
         /\ \A S \in SUBSET (1 .. Len(touches)) :
                IsFiniteSet(S) /\ Cardinality(S) \in Nat /\ Len(touches) + 1 \notin S
         /\ IsFiniteSet({touches[n].line : n \in 1 .. Len(touches)})
  <1> DEFINE N == Len(touches)
             f == [n \in 1 .. N |-> touches[n].line]
             L == {touches[n].line : n \in 1 .. N}
  <1>1. N \in Nat
    BY LenProperties DEF ReplayTypeOK
  <1>2. IsFiniteSet(1 .. N)
    BY <1>1, FS_Interval
  <1>3. \A S \in SUBSET (1 .. N) : IsFiniteSet(S) /\ Cardinality(S) \in Nat
    BY <1>2, FS_Subset, FS_CardinalityType
  <1>4. N + 1 \notin 1 .. N
    BY <1>1
  <1>5. f \in Surjection(1 .. N, L)
    BY DEF Surjection
  <1>6. IsFiniteSet(L)
    BY <1>2, <1>5, FS_Surjection
  <1> QED
    BY <1>1, <1>3, <1>4, <1>6

\* Counting a touch more.
LEMMA CountOneMore ==
  ASSUME ReplayTypeOK, NEW S \in SUBSET (1 .. Len(touches)), NEW b \in BOOLEAN
  PROVE  Cardinality(S \cup (IF b THEN {Len(touches) + 1} ELSE {})) = Cardinality(S) + One(b)
  <1>1. IsFiniteSet(S) /\ Cardinality(S) \in Nat /\ Len(touches) + 1 \notin S
    BY FiniteTouches
  <1>2. CASE b
    BY <1>1, <1>2, FS_AddElement DEF One
  <1>3. CASE ~ b
    <2>1. S \cup {} = S
      OBVIOUS
    <2> QED
      BY <1>1, <1>3, <2>1 DEF One
  <1> QED
    BY <1>2, <1>3

LEMMA TouchKeepsCounts ==
  ASSUME ReplayTypeOK, CursorRight, WaysRight, CountsRight, TouchLine
  PROVE  CountsRight'
  <1> DEFINE N == Len(touches)
             Just(b) == IF b THEN {N + 1} ELSE {}
  <1>1. /\ N \in Nat /\ Len(touches') = N + 1
        /\ \A k \in 1 .. N : touches'[k] = touches[k]
        /\ touches'[N + 1] = TheTouch
        /\ touches \in Seq(TouchRecords) /\ TheTouch \in TouchRecords
        /\ touches' = Append(touches, TheTouch)
    BY TouchAppends, TouchEffect
  <1>2. IsHit \in BOOLEAN
    BY DEF IsHit, Holds
  <1>3. \A n \in 1 .. N + 1 : n \in 1 .. N \/ n = N + 1
    BY <1>1
  <1>4. N + 1 \notin 1 .. N /\ \A n \in 1 .. N : n \in 1 .. N + 1
    BY <1>1
  <1>5. N + 1 \in 1 .. N + 1
    BY <1>1
  <1> HIDE DEF N
  <1>6. \A n \in 1 .. N : HitIn(touches', n) <=> HitIn(touches, n)
    BY <1>1, HitStays DEF N
  <1>7. HitIn(touches', N + 1) <=> IsHit
    BY HitIsHit DEF N
  <1>8. Hitting' = Hitting \cup Just(IsHit)
    BY <1>1, <1>3, <1>4, <1>5, <1>6, <1>7 DEF Hitting, N
  <1>9. Missing' = Missing \cup Just(~ IsHit)
    BY <1>1, <1>3, <1>4, <1>5, <1>6, <1>7 DEF Hitting, Missing, N
  <1>10. Hitting \in SUBSET (1 .. N) /\ Missing \in SUBSET (1 .. N)
    BY DEF Hitting, Missing, N
  <1>11. hits' = Cardinality(Hitting')
    <2>1. hits' = hits + One(IsHit)
      BY TouchEffect
    <2>2. Cardinality(Hitting \cup Just(IsHit)) = Cardinality(Hitting) + One(IsHit)
      BY <1>2, <1>10, CountOneMore DEF N
    <2> QED
      BY <1>8, <2>1, <2>2 DEF CountsRight
  <1>12. hits' + misses' = Len(touches')
    <2>1. hits' = hits + One(IsHit) /\ misses' = misses + (1 - One(IsHit))
      BY TouchEffect
    <2>2. One(IsHit) \in Nat /\ hits \in Nat /\ misses \in Nat /\ hits + misses = N
      BY DEF One, ReplayTypeOK, CountsRight, N
    <2> QED
      BY <1>1, <2>1, <2>2
  <1>13. \A n \in 1 .. N + 1 : Kind(n)' = IF n = N + 1 THEN TheKind ELSE Kind(n)
    <2>1. accesses' = accesses /\ TheTouch.access = Len(accesses)
      BY TouchEffect
    <2>2. ASSUME NEW n \in 1 .. N + 1
          PROVE  Kind(n)' = IF n = N + 1 THEN TheKind ELSE Kind(n)
      BY <1>1, <1>3, <2>1 DEF Kind, TheKind
    <2> QED
      BY <2>2
  <1>14. ASSUME NEW k \in {"R", "W"}
         PROVE  /\ byType'[k].hits = Cardinality({n \in Hitting : Kind(n) = k}')
                /\ byType'[k].misses = Cardinality({n \in Missing : Kind(n) = k}')
    <2> DEFINE H == {n \in Hitting : Kind(n) = k}
               M == {n \in Missing : Kind(n) = k}
    <2>1. byType[k].hits = Cardinality(H) /\ byType[k].misses = Cardinality(M)
      BY DEF CountsRight
    <2>2. H \in SUBSET (1 .. N) /\ M \in SUBSET (1 .. N)
      BY <1>10
    <2>3. H' = H \cup Just(IsHit /\ k = TheKind)
      <3>1. \A n \in Hitting' : n \in 1 .. N + 1
        BY <1>4, <1>5, <1>8, <1>10
      <3>2. H' = {n \in Hitting' : (IF n = N + 1 THEN TheKind ELSE Kind(n)) = k}
        BY <1>13, <3>1
      <3> QED
        BY <1>4, <1>8, <1>10, <3>2
    <2>4. M' = M \cup Just(~ IsHit /\ k = TheKind)
      <3>1. \A n \in Missing' : n \in 1 .. N + 1
        BY <1>4, <1>5, <1>9, <1>10
      <3>2. M' = {n \in Missing' : (IF n = N + 1 THEN TheKind ELSE Kind(n)) = k}
        BY <1>13, <3>1
      <3> QED
        BY <1>4, <1>9, <1>10, <3>2
    <2>5. /\ Cardinality(H \cup Just(IsHit /\ k = TheKind))
                 = Cardinality(H) + One(IsHit /\ k = TheKind)
          /\ Cardinality(M \cup Just(~ IsHit /\ k = TheKind))
                 = Cardinality(M) + One(~ IsHit /\ k = TheKind)
      BY <1>2, <2>2, CountOneMore DEF N
    <2>6. /\ One(IsHit /\ k = TheKind) = (IF k = TheKind THEN One(IsHit) ELSE 0)
          /\ One(~ IsHit /\ k = TheKind) = (IF k = TheKind THEN 1 - One(IsHit) ELSE 0)
      BY <1>2 DEF One
    <2>7. /\ byType'[k].hits = byType[k].hits + (IF k = TheKind THEN One(IsHit) ELSE 0)
          /\ byType'[k].misses =
                 byType[k].misses + (IF k = TheKind THEN 1 - One(IsHit) ELSE 0)
      BY TouchCounts
    <2> QED
      BY <2>1, <2>3, <2>4, <2>5, <2>6, <2>7
  <1>15. unique' = {touches'[n].line : n \in 1 .. Len(touches')}
    <2>1. unique' = unique \cup {TheLine} /\ TheTouch.line = TheLine
      BY TouchEffect
    <2>2. unique = {touches[n].line : n \in 1 .. N}
      BY DEF CountsRight, N
    <2> QED
      BY <1>1, <1>3, <1>4, <1>5, <2>1, <2>2
  <1>16. Cardinality(unique') <= misses'
    <2>1. IsFiniteSet(unique) /\ Cardinality(unique) \in Nat /\ Cardinality(unique) <= misses
      BY FiniteTouches, FS_CardinalityType DEF CountsRight
    <2>2. unique' = unique \cup {TheLine} /\ misses' = misses + (1 - One(IsHit)) /\ misses \in Nat
      BY TouchEffect DEF ReplayTypeOK
    <2>3. CASE IsHit
      <3>1. PICK m \in 1 .. N : touches'[m].line = touches'[N + 1].line
        BY <1>1, <1>7, <2>3 DEF HitIn
      <3>2. TheLine \in unique
        BY <1>1, <3>1, TouchEffect DEF CountsRight, N
      <3>3. unique' = unique
        BY <2>2, <3>2
      <3> QED
        BY <2>1, <2>2, <2>3, <3>3 DEF One
    <2>4. CASE ~ IsHit
      <3>1. Cardinality(unique') <= Cardinality(unique) + 1
        BY <2>1, <2>2, FS_AddElement
      <3>2. Cardinality(unique') \in Nat
        BY <2>1, <2>2, FS_AddElement
      <3> QED
        BY <2>1, <2>2, <2>4, <3>1, <3>2 DEF One
    <2> QED
      BY <1>2, <2>3, <2>4
  <1> QED
    BY <1>11, <1>12, <1>14, <1>15, <1>16 DEF CountsRight

LEMMA OpenKeepsCounts ==
  ASSUME ReplayTypeOK, WaysRight, CountsRight, NEW x \in Accesses, OpenAccess(x)
  PROVE  WaysRight' /\ CountsRight'
  <1>1. /\ touches' = touches /\ ways' = ways /\ hits' = hits /\ misses' = misses
        /\ byType' = byType /\ unique' = unique
    BY DEF OpenAccess
  <1>2. Len(accesses) \in Nat /\ \A i \in 1 .. Len(accesses) : accesses'[i] = accesses[i]
    BY AppendAt DEF ReplayTypeOK, OpenAccess
  <1>3. \A n \in 1 .. Len(touches) : Kind(n)' = Kind(n)
    BY <1>1, <1>2 DEF Kind, ReplayTypeOK
  <1>4. Hitting' = Hitting /\ Missing' = Missing
    BY <1>1 DEF Hitting, Missing
  <1>5. \A n \in Hitting \cup Missing : Kind(n)' = Kind(n)
    BY <1>3 DEF Hitting, Missing
  <1>6. WaysRight'
    BY <1>1 DEF WaysRight
  <1>7. ASSUME NEW k \in {"R", "W"}
        PROVE  /\ {n \in Hitting : Kind(n) = k}' = {n \in Hitting : Kind(n) = k}
               /\ {n \in Missing : Kind(n) = k}' = {n \in Missing : Kind(n) = k}
    BY <1>4, <1>5
  <1> QED
    BY <1>1, <1>6, <1>4, <1>7 DEF CountsRight

------------------------------------------------------------------------------
(* The summaries.                                                           *)

LEMMA TouchKeepsSpan ==
  ASSUME ReplayTypeOK, CursorRight, SpanRight, TouchLine
  PROVE  SpanRight'
  <1>1. /\ TheLine \in Nat
        /\ unique' = unique \cup {TheLine}
        /\ minLine' = (IF unique = {} \/ TheLine < minLine THEN TheLine ELSE minLine)
        /\ maxLine' = (IF unique = {} \/ TheLine > maxLine THEN TheLine ELSE maxLine)
    BY TouchEffect
  <1>2. unique \in SUBSET Nat /\ minLine \in Nat /\ maxLine \in Nat
    BY DEF ReplayTypeOK
  <1>3. CASE unique = {}
    BY <1>1, <1>2, <1>3 DEF SpanRight
  <1>4. CASE unique # {}
    <2>1. {minLine, maxLine} \subseteq unique /\ \A l \in unique : minLine <= l /\ l <= maxLine
      BY <1>4 DEF SpanRight
    <2>2. {minLine', maxLine'} \subseteq unique'
      BY <1>1, <2>1
    <2>3. ASSUME NEW l \in unique'
          PROVE  minLine' <= l /\ l <= maxLine'
      BY <1>1, <1>2, <2>1
    <2> QED
      BY <2>2, <2>3 DEF SpanRight
  <1> QED
    BY <1>3, <1>4

LEMMA FiniteUpTo ==
  ASSUME NEW n \in Nat
  PROVE  \A S \in SUBSET (1 .. n) : IsFiniteSet(S) /\ Cardinality(S) \in 0 .. n
  <1>1. IsFiniteSet(1 .. n) /\ Cardinality(1 .. n) = n
    BY FS_Interval
  <1>2. ASSUME NEW S \in SUBSET (1 .. n)
        PROVE  IsFiniteSet(S) /\ Cardinality(S) \in 0 .. n
    <2>1. IsFiniteSet(S) /\ Cardinality(S) <= n
      BY <1>1, FS_Subset
    <2>2. Cardinality(S) \in Nat
      BY <2>1, FS_CardinalityType
    <2> QED
      BY <2>1, <2>2
  <1> QED
    BY <1>2

LEMMA OpenAppends ==
  ASSUME ReplayTypeOK, NEW x \in Accesses, OpenAccess(x)
  PROVE  /\ Len(accesses) \in Nat /\ Len(accesses') = Len(accesses) + 1
         /\ \A i \in 1 .. Len(accesses) : accesses'[i] = accesses[i]
         /\ accesses'[Len(accesses) + 1] = x
  BY AppendAt DEF ReplayTypeOK, OpenAccess

LEMMA OpenReadLines ==
  ASSUME ReplayTypeOK, NEW x \in Accesses, OpenAccess(x)
  PROVE  /\ readLines \in Seq(Nat) /\ Len(readLines) \in Nat
         /\ LineOf(x.addr) \in Nat /\ LineOf(x.addr) % LineSize = 0
         /\ SizedRead(x) => /\ Len(readLines') = Len(readLines) + 1
                            /\ \A i \in 1 .. Len(readLines) : readLines'[i] = readLines[i]
                            /\ readLines'[Len(readLines) + 1] = LineOf(x.addr)
         /\ ~ SizedRead(x) => readLines' = readLines
  <1>1. readLines \in Seq(Nat) /\ Len(readLines) \in Nat
    BY LenProperties DEF ReplayTypeOK
  <1>2. LineOf(x.addr) \in Nat /\ LineOf(x.addr) % LineSize = 0
    BY AccessTyped, LineStarts
  <1>3. readLines' = IF SizedRead(x) THEN Append(readLines, LineOf(x.addr)) ELSE readLines
    BY DEF OpenAccess
  <1>4. CASE SizedRead(x)
    BY <1>1, <1>2, <1>3, <1>4, AppendAt
  <1>5. CASE ~ SizedRead(x)
    BY <1>1, <1>2, <1>3, <1>5
  <1> QED
    BY <1>4, <1>5

LEMMA OpenKeepsReads ==
  ASSUME ReplayTypeOK, ReadsRight, NEW x \in Accesses, OpenAccess(x)
  PROVE  ReadsRight'
  <1> DEFINE N == Len(accesses)
             Reads(i) == {j \in 1 .. i : SizedRead(accesses[j])}
             More(i) == {j \in 1 .. i : SizedRead(accesses'[j])}
  <1>1. /\ N \in Nat /\ Len(accesses') = N + 1
        /\ \A i \in 1 .. N : accesses'[i] = accesses[i]
        /\ accesses'[N + 1] = x
    BY OpenAppends
  <1>2. /\ readLines \in Seq(Nat) /\ Len(readLines) \in Nat
        /\ LineOf(x.addr) \in Nat /\ LineOf(x.addr) % LineSize = 0
        /\ SizedRead(x) => /\ Len(readLines') = Len(readLines) + 1
                           /\ \A i \in 1 .. Len(readLines) : readLines'[i] = readLines[i]
                           /\ readLines'[Len(readLines) + 1] = LineOf(x.addr)
        /\ ~ SizedRead(x) => readLines' = readLines
    BY OpenReadLines
  <1>3. /\ Len(readLines) = Cardinality(Reads(N))
        /\ \A i \in Reads(N) : readLines[Cardinality(Reads(i))] = LineOf(accesses[i].addr)
        /\ \A i \in 1 .. Len(readLines) : readLines[i] % LineSize = 0
    BY DEF ReadsRight, ReadsUpTo, SizedRead
  <1> HIDE DEF N
  <1>4. \A i \in 1 .. N : More(i) = Reads(i)
    <2>1. \A i \in 1 .. N : \A j \in 1 .. i : j \in 1 .. N
      BY <1>1
    <2> QED
      BY <1>1, <2>1
  <1>5. More(N + 1) = Reads(N) \cup (IF SizedRead(x) THEN {N + 1} ELSE {})
    <2>1. /\ \A j \in 1 .. N + 1 : j \in 1 .. N \/ j = N + 1
          /\ \A j \in 1 .. N : j \in 1 .. N + 1
          /\ N + 1 \in 1 .. N + 1
      BY <1>1
    <2> QED
      BY <1>1, <2>1
  <1>6. Reads(N) \in SUBSET (1 .. N) /\ N + 1 \notin Reads(N)
    BY <1>1
  <1>7. IsFiniteSet(Reads(N)) /\ Cardinality(Reads(N)) \in Nat
    BY <1>1, <1>6, FiniteUpTo
  <1>8. ASSUME NEW i \in Reads(N)
        PROVE  Cardinality(Reads(i)) \in 1 .. Len(readLines)
    <2>1. i \in 1 .. N /\ i \in Reads(i) /\ Reads(i) \in SUBSET Reads(N)
      BY <1>1
    <2>2. IsFiniteSet(Reads(i)) /\ Cardinality(Reads(i)) <= Cardinality(Reads(N))
      BY <1>7, <2>1, FS_Subset
    <2>3. Cardinality(Reads(i)) \in Nat /\ Cardinality(Reads(i)) # 0
      BY <2>1, <2>2, FS_CardinalityType, FS_EmptySet
    <2> QED
      BY <1>3, <2>2, <2>3
  <1> HIDE DEF Reads, More
  <1>9. CASE SizedRead(x)
    <2>1. Cardinality(More(N + 1)) = Cardinality(Reads(N)) + 1
      BY <1>5, <1>6, <1>7, <1>9, FS_AddElement
    <2>2. Len(readLines') = Cardinality(More(N + 1))
      BY <1>2, <1>3, <1>9, <2>1
    <2>3. ASSUME NEW i \in More(N + 1)
          PROVE  readLines'[Cardinality(More(i))] = LineOf(accesses'[i].addr)
      <3>1. CASE i \in Reads(N)
        <4>1. i \in 1 .. N
          BY <1>6, <3>1
        <4>2. More(i) = Reads(i) /\ accesses'[i] = accesses[i]
          BY <1>1, <1>4, <4>1
        <4> QED
          BY <1>2, <1>3, <1>8, <1>9, <3>1, <4>2
      <3>2. CASE i = N + 1
        BY <1>1, <1>2, <1>3, <1>9, <2>1, <3>2
      <3> QED
        BY <1>5, <1>9, <3>1, <3>2
    <2>4. ASSUME NEW i \in 1 .. Len(readLines')
          PROVE  readLines'[i] % LineSize = 0
      <3>1. i \in 1 .. Len(readLines) \/ i = Len(readLines) + 1
        BY <1>2, <1>9
      <3> QED
        BY <1>2, <1>3, <1>9, <3>1
    <2> QED
      BY <1>1, <2>2, <2>3, <2>4 DEF ReadsRight, ReadsUpTo, More, SizedRead
  <1>10. CASE ~ SizedRead(x)
    <2>1. More(N + 1) = Reads(N) /\ readLines' = readLines
      BY <1>2, <1>5, <1>10
    <2>2. ASSUME NEW i \in More(N + 1)
          PROVE  readLines[Cardinality(More(i))] = LineOf(accesses'[i].addr)
      <3>1. i \in 1 .. N /\ i \in Reads(N)
        BY <1>6, <2>1
      <3>2. More(i) = Reads(i) /\ accesses'[i] = accesses[i]
        BY <1>1, <1>4, <3>1
      <3> QED
        BY <1>3, <3>1, <3>2
    <2>3. Len(readLines) = Cardinality(More(N + 1))
      BY <1>3, <2>1
    <2> QED
      BY <1>1, <1>3, <2>1, <2>2, <2>3 DEF ReadsRight, ReadsUpTo, More, SizedRead
  <1> QED
    BY <1>9, <1>10

LEMMA OpenKeepsStrides ==
  ASSUME ReplayTypeOK, StridesRight, NEW x \in Accesses, OpenAccess(x)
  PROVE  StridesRight'
  <1> DEFINE L == Len(readLines)
             d == LineOf(x.addr) - readLines[L]
             was(i) == readLines[i] - readLines[i - 1]
             is(i) == readLines'[i] - readLines'[i - 1]
             Was(e) == {i \in 2 .. L : was(i) = e}
             Is(e) == {i \in 2 .. Len(readLines') : is(i) = e}
  <1>1. /\ readLines \in Seq(Nat) /\ L \in Nat
        /\ LineOf(x.addr) \in Nat
        /\ SizedRead(x) => /\ Len(readLines') = L + 1
                           /\ \A i \in 1 .. L : readLines'[i] = readLines[i]
                           /\ readLines'[L + 1] = LineOf(x.addr)
        /\ ~ SizedRead(x) => readLines' = readLines
    BY OpenReadLines
  <1>2. /\ DOMAIN strides = {was(i) : i \in 2 .. L}
        /\ \A e \in DOMAIN strides : strides[e] = Cardinality(Was(e))
    BY DEF StridesRight, StrideAt
  <1>3. strides' = IF SizedRead(x) /\ readLines # <<>> THEN Counted(strides, d) ELSE strides
    BY DEF OpenAccess
  <1>4. SUFFICES /\ DOMAIN strides' = {is(i) : i \in 2 .. Len(readLines')}
                 /\ \A e \in DOMAIN strides' : strides'[e] = Cardinality(Is(e))
    BY DEF StridesRight, StrideAt
  <1>5. CASE ~ SizedRead(x)
    BY <1>1, <1>2, <1>3, <1>5
  <1>6. CASE SizedRead(x) /\ readLines = <<>>
    <2>1. L = 0
      BY <1>6
    <2>2. \A i \in 2 .. L : FALSE
      BY <2>1
    <2>3. \A i \in 2 .. Len(readLines') : FALSE
      <3>1. Len(readLines') = 1
        BY <1>1, <1>6, <2>1
      <3> QED
        BY <3>1
    <2>4. strides' = strides
      BY <1>3, <1>6
    <2> QED
      BY <1>2, <2>2, <2>3, <2>4
  <1>7. CASE SizedRead(x) /\ readLines # <<>>
    <2>1. L \in Nat \ {0}
      BY <1>1, <1>7, EmptySeq
    <2>2. /\ \A i \in 2 .. L + 1 : i \in 2 .. L \/ i = L + 1
          /\ \A i \in 2 .. L : i \in 2 .. L + 1 /\ i \in 1 .. L /\ i - 1 \in 1 .. L
          /\ L + 1 \in 2 .. L + 1 /\ L \in 1 .. L /\ (L + 1) - 1 = L /\ L + 1 \notin 2 .. L
      BY <2>1
    <2>3. \A i \in 2 .. L : is(i) = was(i)
      BY <1>1, <1>7, <2>2
    <2>4. is(L + 1) = d
      <3>1. readLines'[(L + 1) - 1] = readLines[L]
        BY <1>1, <1>7, <2>2
      <3> QED
        BY <1>1, <1>7, <3>1
    <2>5. Len(readLines') = L + 1
      BY <1>1, <1>7
    <2>6. strides' = Counted(strides, d)
      BY <1>3, <1>7
    <2> HIDE DEF is, was, L, d
    <2>7. DOMAIN strides' = DOMAIN strides \cup {d}
      BY <2>6 DEF Counted
    <2>8. DOMAIN strides' = {is(i) : i \in 2 .. Len(readLines')}
      <3>1. {is(i) : i \in 2 .. L + 1} = {was(i) : i \in 2 .. L} \cup {d}
        BY <2>2, <2>3, <2>4
      <3> QED
        BY <1>2, <2>5, <2>7, <3>1
    <2>9. ASSUME NEW e \in DOMAIN strides'
          PROVE  strides'[e] = Cardinality(Is(e))
      <3>1. Is(e) = Was(e) \cup (IF e = d THEN {L + 1} ELSE {})
        BY <2>2, <2>3, <2>4, <2>5
      <3>2. IsFiniteSet(Was(e)) /\ Cardinality(Was(e)) \in Nat /\ L + 1 \notin Was(e)
        <4>1. Was(e) \in SUBSET (1 .. L)
          BY <2>2
        <4> QED
          BY <2>1, <2>2, <4>1, FiniteUpTo
      <3>3. (IF e \in DOMAIN strides THEN strides[e] ELSE 0) = Cardinality(Was(e))
        <4>1. CASE e \in DOMAIN strides
          BY <1>2, <4>1
        <4>2. CASE e \notin DOMAIN strides
          <5>1. Was(e) = {}
            BY <1>2, <4>2
          <5> QED
            BY <4>2, <5>1, FS_EmptySet
        <4> QED
          BY <4>1, <4>2
      <3>4. strides'[e] = Cardinality(Was(e)) + (IF e = d THEN 1 ELSE 0)
        <4>1. strides'[e] = (IF e \in DOMAIN strides THEN strides[e] ELSE 0)
                                + (IF e = d THEN 1 ELSE 0)
          BY <2>6, <2>7 DEF Counted
        <4> QED
          BY <3>3, <4>1
      <3> HIDE DEF Is, Was
      <3>5. CASE e = d
        <4>1. Cardinality(Was(e) \cup {L + 1}) = Cardinality(Was(e)) + 1
          BY <3>2, FS_AddElement
        <4> QED
          BY <3>1, <3>4, <3>5, <4>1
      <3>6. CASE e # d
        <4>1. Is(e) = Was(e)
          BY <3>1, <3>6
        <4> QED
          BY <3>2, <3>4, <3>6, <4>1
      <3> QED
        BY <3>5, <3>6
    <2> QED
      BY <2>8, <2>9
  <1> QED
    BY <1>5, <1>6, <1>7

LEMMA OpenKeepsPairs ==
  ASSUME ReplayTypeOK, PairsRight, NEW x \in Accesses, OpenAccess(x)
  PROVE  PairsRight'
  <1> DEFINE N == Len(accesses)
             Was == {j \in 1 .. N - 1 : IsPair(accesses[j], accesses[j + 1])}
             Is == {j \in 1 .. N : IsPair(accesses'[j], accesses'[j + 1])}
             new == N # 0 /\ IsPair(accesses[N], x)
  <1>1. /\ N \in Nat /\ Len(accesses') = N + 1
        /\ \A i \in 1 .. N : accesses'[i] = accesses[i]
        /\ accesses'[N + 1] = x
    BY OpenAppends
  <1>2. pairs = Cardinality(Was)
    BY DEF PairsRight, PairsUpTo
  <1>3. pairs' = IF new THEN pairs + 1 ELSE pairs
    <2>1. accesses # <<>> <=> N # 0
      BY EmptySeq DEF ReplayTypeOK
    <2> QED
      BY <2>1 DEF OpenAccess
  <1>4. PairsUpTo(Len(accesses))' = Is
    <2>1. (N + 1) - 1 = N
      BY <1>1
    <2> QED
      BY <1>1, <2>1 DEF PairsUpTo
  <1> HIDE DEF N
  <1>5. Is = Was \cup (IF new THEN {N} ELSE {})
    <2>1. /\ \A j \in 1 .. N : j \in 1 .. N - 1 \/ j = N
          /\ \A j \in 1 .. N - 1 : j \in 1 .. N /\ j + 1 \in 1 .. N
          /\ N # 0 => N \in 1 .. N
          /\ N = 0 => N \notin 1 .. N
      BY <1>1
    <2>2. \A j \in 1 .. N - 1 :
              IsPair(accesses'[j], accesses'[j + 1]) <=> IsPair(accesses[j], accesses[j + 1])
      BY <1>1, <2>1
    <2>3. N # 0 => (IsPair(accesses'[N], accesses'[N + 1]) <=> IsPair(accesses[N], x))
      BY <1>1, <2>1
    <2> QED
      BY <2>1, <2>2, <2>3
  <1>6. IsFiniteSet(Was) /\ Cardinality(Was) \in Nat /\ N \notin Was
    <2>1. Was \in SUBSET (1 .. N) /\ N \notin Was
      BY <1>1
    <2> QED
      BY <1>1, <2>1, FiniteUpTo
  <1>7. CASE new
    <2>1. Cardinality(Was \cup {N}) = Cardinality(Was) + 1
      BY <1>6, FS_AddElement
    <2> QED
      BY <1>2, <1>3, <1>4, <1>5, <1>7, <2>1 DEF PairsRight
  <1>8. CASE ~ new
    <2>1. Is = Was
      BY <1>5, <1>8
    <2> QED
      BY <1>2, <1>3, <1>4, <1>8, <2>1 DEF PairsRight
  <1> QED
    BY <1>7, <1>8

------------------------------------------------------------------------------
(* The theorems.                                                            *)

LEMMA InitReplayInv == ReplayInit => ReplayInv
  <1> SUFFICES ASSUME ReplayInit PROVE ReplayInv
    OBVIOUS
  <1>1. /\ accesses = <<>> /\ touches = <<>> /\ readLines = <<>>
        /\ Len(accesses) = 0 /\ Len(touches) = 0 /\ Len(readLines) = 0
        /\ current = 0 /\ stop = 0 /\ hits = 0 /\ misses = 0 /\ unique = {}
        /\ minLine = 0 /\ maxLine = 0 /\ pairs = 0
        /\ ways = [s \in 0 .. NumSets - 1 |-> <<>>]
        /\ byType = [k \in {"R", "W"} |-> [hits |-> 0, misses |-> 0]]
        /\ strides = [d \in {} |-> 0]
    BY DEF ReplayInit
  <1>2. \A i \in 1 .. 0 : FALSE
    OBVIOUS
  <1>3. ReplayTypeOK
    <2>1. accesses \in Seq(Accesses) /\ touches \in Seq(TouchRecords) /\ readLines \in Seq(Nat)
      BY <1>1, EmptySeq
    <2>2. ways \in [0 .. NumSets - 1 -> Seq(Nat)]
      BY <1>1, EmptySeq
    <2> QED
      BY <1>1, <1>2, <2>1, <2>2 DEF ReplayTypeOK, Aligned
  <1>4. CursorRight
    BY <1>1, <1>2 DEF CursorRight
  <1>5. WaysRight
    <2>1. ASSUME NEW s \in 0 .. NumSets - 1
          PROVE  SetRight(touches, s, ways[s])
      <3>1. ways[s] = <<>> /\ Len(ways[s]) = 0
        BY <1>1
      <3> QED
        BY <1>1, <1>2, <3>1, CacheIsSane DEF SetRight, OneToOne
    <2> QED
      BY <2>1 DEF WaysRight
  <1>6. CountsRight
    <2>1. Hitting = {} /\ Missing = {} /\ Cardinality({}) = 0
      BY <1>1, <1>2, FS_EmptySet DEF Hitting, Missing
    <2>2. \A k \in {"R", "W"} : {n \in Hitting : Kind(n) = k} = {}
                                /\ {n \in Missing : Kind(n) = k} = {}
      BY <2>1
    <2>3. {touches[n].line : n \in 1 .. Len(touches)} = {}
      BY <1>1, <1>2
    <2>4. \A k \in {"R", "W"} : byType[k].hits = 0 /\ byType[k].misses = 0
      BY <1>1
    <2> QED
      BY <1>1, <2>1, <2>2, <2>3, <2>4 DEF CountsRight
  <1>7. SpanRight
    BY <1>1 DEF SpanRight
  <1>8. ReadsRight
    <2>1. ReadsUpTo(Len(accesses)) = {}
      BY <1>1, <1>2 DEF ReadsUpTo
    <2> QED
      BY <1>1, <1>2, <2>1, FS_EmptySet DEF ReadsRight
  <1>9. StridesRight
    <2>1. \A i \in 2 .. Len(readLines) : FALSE
      BY <1>1
    <2> QED
      BY <1>1, <2>1 DEF StridesRight
  <1>10. PairsRight
    <2>1. PairsUpTo(Len(accesses)) = {}
      BY <1>1 DEF PairsUpTo
    <2> QED
      BY <1>1, <2>1, FS_EmptySet DEF PairsRight
  <1> QED
    BY <1>3, <1>4, <1>5, <1>6, <1>7, <1>8, <1>9, <1>10 DEF ReplayInv

\* The inductive invariant: the cursor, the order of every set, the counts and the
\* summaries are those of the trace so far.
THEOREM ReplayInvariant == ReplaySpec => []ReplayInv
  <1>1. ASSUME ReplayInv, [ReplayNext]_replayVars
        PROVE  ReplayInv'
    <2> USE <1>1 DEF ReplayInv
    <2>1. ASSUME NEW x \in Accesses, OpenAccess(x)
          PROVE  ReplayInv'
      <3>1. ReplayTypeOK' /\ CursorRight'
        BY <2>1, OpenKeepsTypes, OpenKeepsCursor
      <3>2. WaysRight' /\ CountsRight'
        BY <2>1, OpenKeepsCounts
      <3>3. SpanRight'
        BY <2>1 DEF SpanRight, OpenAccess
      <3>4. ReadsRight' /\ StridesRight' /\ PairsRight'
        BY <2>1, OpenKeepsReads, OpenKeepsStrides, OpenKeepsPairs
      <3> QED
        BY <3>1, <3>2, <3>3, <3>4
    <2>2. CASE TouchLine
      <3>1. ReplayTypeOK' /\ CursorRight'
        BY <2>2, TouchKeepsTypes, TouchKeepsCursor
      <3>2. WaysRight' /\ CountsRight' /\ SpanRight'
        BY <2>2, TouchKeepsWays, TouchKeepsCounts, TouchKeepsSpan
      <3>3. ReadsRight' /\ StridesRight' /\ PairsRight'
        <4>1. /\ accesses' = accesses /\ readLines' = readLines /\ strides' = strides
              /\ pairs' = pairs
          BY <2>2, TouchEffect
        <4> QED
          BY <4>1 DEF ReadsRight, StridesRight, PairsRight, ReadsUpTo, PairsUpTo, StrideAt
      <3> QED
        BY <3>1, <3>2, <3>3
    <2>3. CASE UNCHANGED replayVars
      <3>1. /\ accesses' = accesses /\ current' = current /\ stop' = stop /\ ways' = ways
            /\ hits' = hits /\ misses' = misses /\ byType' = byType /\ unique' = unique
            /\ minLine' = minLine /\ maxLine' = maxLine /\ readLines' = readLines
            /\ strides' = strides /\ pairs' = pairs /\ touches' = touches
        BY <2>3 DEF replayVars
      <3>2. ReplayTypeOK' /\ WaysRight' /\ SpanRight'
        BY <3>1 DEF ReplayTypeOK, WaysRight, SpanRight
      <3>3. CursorRight'
        BY <3>1 DEF CursorRight, LinesTouched, BytesDone
      <3>4. CountsRight'
        BY <3>1 DEF CountsRight, Hitting, Missing, Kind
      <3>5. ReadsRight' /\ StridesRight' /\ PairsRight'
        BY <3>1 DEF ReadsRight, StridesRight, PairsRight, ReadsUpTo, PairsUpTo, StrideAt
      <3> QED
        BY <3>2, <3>3, <3>4, <3>5
    <2> QED
      BY <2>1, <2>2, <2>3 DEF ReplayNext
  <1> QED
    BY <1>1, InitReplayInv, PTL DEF ReplaySpec

LEMMA InvIsExact ==
  ASSUME ReplayInv
  PROVE  ReplayExact
  <1>1. DOMAIN touches = 1 .. Len(touches) /\ DOMAIN accesses = 1 .. Len(accesses)
    BY LenProperties DEF ReplayInv, ReplayTypeOK
  <1>2. TouchesExact
    <2>1. ASSUME NEW m \in DOMAIN touches, NEW n \in DOMAIN touches, m < n
          PROVE  \/ touches[m].access < touches[n].access
                 \/ touches[m].access = touches[n].access /\ touches[m].line < touches[n].line
      BY <1>1, <2>1 DEF ReplayInv, CursorRight, InTurn
    <2>2. ASSUME NEW i \in DOMAIN accesses, i < Len(accesses) \/ current >= stop
          PROVE  {touches[n].line : n \in {n \in DOMAIN touches : touches[n].access = i}}
                     = LinesOf(accesses[i])
      <3>1. LinesTouched(i) = {LineOf(b) : b \in BytesDone(i)}
        BY <1>1 DEF ReplayInv, CursorRight
      <3>2. BytesDone(i) = accesses[i].addr .. accesses[i].addr + accesses[i].size - 1
        <4> DEFINE end == IF i < Len(accesses) \/ current >= stop
                          THEN accesses[i].addr + accesses[i].size ELSE current
        <4>1. end = accesses[i].addr + accesses[i].size
          BY <2>2
        <4>2. BytesDone(i) = accesses[i].addr .. end - 1
          BY DEF BytesDone
        <4>3. accesses[i] \in Accesses
          BY <1>1, ElementOfSeq DEF ReplayInv, ReplayTypeOK
        <4> HIDE DEF end
        <4>4. accesses[i].addr + accesses[i].size - 1 = end - 1
          BY <4>1, <4>3, AccessTyped
        <4> QED
          BY <4>2, <4>4
      <3> QED
        BY <1>1, <3>1, <3>2 DEF LinesTouched, LinesOf
    <2> QED
      BY <2>1, <2>2 DEF TouchesExact
  <1>3. {n \in DOMAIN touches : StackHit(n)} = Hitting
    <2>1. \A n : StackHit(n) <=> HitIn(touches, n)
      BY DEF StackHit, HitIn, OthersIn
    <2> QED
      BY <1>1, <2>1 DEF Hitting
  <1>4. DOMAIN touches \ Hitting = Missing
    BY <1>1 DEF Missing
  <1>5. ASSUME NEW s \in DOMAIN ways
        PROVE  /\ Len(ways[s]) <= Assoc
               /\ \A i, j \in DOMAIN ways[s] : ways[s][i] = ways[s][j] => i = j
    <2>1. s \in 0 .. NumSets - 1 /\ ways[s] \in Seq(Nat)
      BY DEF ReplayInv, ReplayTypeOK
    <2>2. DOMAIN ways[s] = 1 .. Len(ways[s])
      BY <2>1, LenProperties
    <2>3. Len(ways[s]) <= Assoc /\ OneToOne(ways[s])
      BY <2>1 DEF ReplayInv, WaysRight, SetRight
    <2> QED
      BY <2>2, <2>3 DEF OneToOne
  <1>6. CountsRight
    BY DEF ReplayInv
  <1> QED
    BY <1>1, <1>2, <1>3, <1>4, <1>5, <1>6 DEF ReplayExact, CountsRight

\* The replay is the textbook LRU cache, for any line size, associativity and capacity
\* and any trace.
THEOREM ReplayIsExact == ReplaySpec => []ReplayExact
  <1> QED
    BY ReplayInvariant, InvIsExact, PTL

LEMMA Scaled ==
  ASSUME NEW a \in Nat, NEW b \in Nat, a <= b, NEW c \in Nat
  PROVE  a * c <= b * c
  OBVIOUS

\* The lines lie a line apart between the first and the last.
LEMMA FootprintFits ==
  ASSUME ReplayInv, unique # {}
  PROVE  Cardinality(unique) * LineSize <= (maxLine - minLine) + LineSize
  <1> DEFINE first == minLine \div LineSize
             last == maxLine \div LineSize
             f == [l \in unique |-> l \div LineSize]
             c == Cardinality(unique)
  <1>1. \A l \in unique : l \in Nat /\ l % LineSize = 0
    <2>1. unique = {touches[n].line : n \in 1 .. Len(touches)}
      BY DEF ReplayInv, CountsRight
    <2> QED
      BY <2>1 DEF ReplayInv, ReplayTypeOK, Aligned
  <1>2. \A l \in unique : l \div LineSize \in Nat /\ l = LineSize * (l \div LineSize)
    <2>1. ASSUME NEW l \in unique
          PROVE  l \div LineSize \in Nat /\ l = LineSize * (l \div LineSize)
      <3> DEFINE a == l \div LineSize
      <3>1. l \in Nat /\ l % LineSize = 0
        BY <1>1
      <3>2. a \in Nat /\ l = LineSize * a + 0
        BY <3>1, CacheIsSane, QuotientParts
      <3> HIDE DEF a
      <3>3. l = LineSize * a
        BY <3>2, CacheIsSane
      <3> QED
        BY <3>2, <3>3 DEF a
    <2> QED
      BY <2>1
  <1>3. minLine \in unique /\ maxLine \in unique /\ \A l \in unique : minLine <= l /\ l <= maxLine
    BY DEF ReplayInv, SpanRight
  <1>4. first \in Nat /\ last \in Nat /\ minLine = LineSize * first /\ maxLine = LineSize * last
    BY <1>2, <1>3
  <1>5. ASSUME NEW l \in unique
        PROVE  f[l] \in first .. last
    <2> DEFINE a == l \div LineSize
    <2>1. a \in Nat /\ l = LineSize * a /\ minLine <= l /\ l <= maxLine
      BY <1>2, <1>3
    <2> HIDE DEF a, first, last
    <2>2. first <= a
      <3>1. CASE a < first
        <4>1. (a + 1) * LineSize <= first * LineSize
          BY <1>4, <2>1, <3>1, CacheIsSane, Scaled
        <4>2. LineSize * a + LineSize <= LineSize * first
          BY <1>4, <2>1, <4>1, CacheIsSane
        <4>3. LineSize * a \in Nat /\ LineSize * first \in Nat
          BY <1>4, <2>1, CacheIsSane
        <4> QED
          BY <1>4, <2>1, <4>2, <4>3, CacheIsSane
      <3> QED
        BY <1>4, <2>1, <3>1
    <2>3. a <= last
      <3>1. CASE last < a
        <4>1. (last + 1) * LineSize <= a * LineSize
          BY <1>4, <2>1, <3>1, CacheIsSane, Scaled
        <4>2. LineSize * last + LineSize <= LineSize * a
          BY <1>4, <2>1, <4>1, CacheIsSane
        <4>3. LineSize * a \in Nat /\ LineSize * last \in Nat
          BY <1>4, <2>1, CacheIsSane
        <4> QED
          BY <1>4, <2>1, <4>2, <4>3, CacheIsSane
      <3> QED
        BY <1>4, <2>1, <3>1
    <2> QED
      BY <1>4, <2>1, <2>2, <2>3 DEF a
  <1>6. f \in Injection(unique, first .. last)
    <2>1. f \in [unique -> first .. last]
      BY <1>5
    <2>2. ASSUME NEW k \in unique, NEW l \in unique, f[k] = f[l]
          PROVE  k = l
      BY <1>2, <2>2
    <2> QED
      BY <2>1, <2>2 DEF Injection, IsInjective
  <1>7. first <= last
    BY <1>3, <1>4, <1>5
  <1>8. c \in Nat /\ c <= last - first + 1
    <2>1. /\ IsFiniteSet(first .. last)
          /\ Cardinality(first .. last) = last - first + 1
      BY <1>4, <1>7, FS_Interval
    <2>2. IsFiniteSet(unique) /\ c <= Cardinality(first .. last)
      BY <1>6, <2>1, FS_Injection
    <2> QED
      BY <2>1, <2>2, FS_CardinalityType
  <1> HIDE DEF first, last, c
  <1>9. last - first + 1 \in Nat
    BY <1>4, <1>7
  <1>10. c * LineSize <= (last - first + 1) * LineSize
    BY <1>8, <1>9, CacheIsSane, Scaled
  <1>11. (last - first + 1) * LineSize = (LineSize * last - LineSize * first) + LineSize
    BY <1>4, CacheIsSane
  <1> QED
    BY <1>4, <1>10, <1>11 DEF c

LEMMA StridesAreLines ==
  ASSUME ReplayInv, NEW d \in DOMAIN strides
  PROVE  d % LineSize = 0
  <1>1. PICK i \in 2 .. Len(readLines) : d = readLines[i] - readLines[i - 1]
    BY DEF ReplayInv, StridesRight, StrideAt
  <1> DEFINE l == readLines[i]
             k == readLines[i - 1]
             a == l \div LineSize
             b == k \div LineSize
  <1>2. readLines \in Seq(Nat) /\ Len(readLines) \in Nat
    BY LenProperties DEF ReplayInv, ReplayTypeOK
  <1>3. i \in 1 .. Len(readLines) /\ i - 1 \in 1 .. Len(readLines)
    BY <1>2
  <1>4. l \in Nat /\ k \in Nat /\ l % LineSize = 0 /\ k % LineSize = 0
    BY <1>2, <1>3, ElementOfSeq DEF ReplayInv, ReadsRight
  <1>5. d = l - k
    BY <1>1
  <1> HIDE DEF l, k
  <1>6. a \in Nat /\ b \in Nat /\ l = LineSize * a + 0 /\ k = LineSize * b + 0
    BY <1>4, CacheIsSane, QuotientParts
  <1> HIDE DEF a, b
  <1> DEFINE q == a - b
  <1>7. q \in Int /\ d = LineSize * q + 0 /\ d \in Int /\ 0 \in 0 .. LineSize - 1
    BY <1>4, <1>5, <1>6, CacheIsSane
  <1> HIDE DEF q
  <1> QED
    BY <1>7, CacheIsSane, RemainderUnique

\* Every pair has its read and its write.
LEMMA PairsAreBoth ==
  ASSUME ReplayInv, NEW k \in {"R", "W"}
  PROVE  pairs <= Cardinality({i \in 1 .. Len(accesses) : accesses[i].kind = k})
  <1> DEFINE N == Len(accesses)
             P == PairsUpTo(N)
             S == {i \in 1 .. N : accesses[i].kind = k}
             f == [j \in P |-> IF k = "R" THEN j ELSE j + 1]
  <1>1. N \in Nat
    BY LenProperties DEF ReplayInv, ReplayTypeOK
  <1>2. \A j \in P : j \in 1 .. N - 1 /\ accesses[j].kind = "R" /\ accesses[j + 1].kind = "W"
    BY DEF PairsUpTo, IsPair
  <1>3. IsFiniteSet(S)
    BY <1>1, FiniteUpTo
  <1> HIDE DEF P
  <1>4. \A j \in P : f[j] \in S
    <2>1. \A j \in 1 .. N - 1 : j \in 1 .. N /\ j + 1 \in 1 .. N
      BY <1>1
    <2> HIDE DEF N
    <2> QED
      BY <1>2, <2>1
  <1>5. \A i, j \in P : f[i] = f[j] => i = j
    BY <1>1, <1>2
  <1>6. f \in Injection(P, S)
    BY <1>4, <1>5 DEF Injection, IsInjective
  <1>7. Cardinality(P) <= Cardinality(S)
    BY <1>3, <1>6, FS_Injection
  <1> QED
    BY <1>7 DEF ReplayInv, PairsRight, P

\* The summaries of strides, pairs and working set are those of the whole trace and agree.
THEOREM SummariesAlwaysAgree == ReplaySpec => []SummariesAgree
  <1>1. ASSUME ReplayInv
        PROVE  SummariesAgree
    <2>1. unique # {} => /\ {minLine, maxLine} \subseteq unique
                         /\ Cardinality(unique) * LineSize <= (maxLine - minLine) + LineSize
      BY <1>1, FootprintFits DEF ReplayInv, SpanRight
    <2>2. \A d \in DOMAIN strides : d % LineSize = 0
      BY <1>1, StridesAreLines
    <2>3. \A k \in {"R", "W"} :
              pairs <= Cardinality({i \in 1 .. Len(accesses) : accesses[i].kind = k})
      BY <1>1, PairsAreBoth
    <2>4. ReadsRight /\ StridesRight /\ PairsRight
      BY <1>1 DEF ReplayInv
    <2> QED
      BY <2>1, <2>2, <2>3, <2>4 DEF SummariesAgree, ReadsRight, StridesRight, PairsRight
  <1> QED
    BY <1>1, ReplayInvariant, PTL
==============================================================================
