----------------------------- MODULE BranchProofs -----------------------------
(***************************************************************************)
(* Proofs about the branch traces: the comparison finds the longest common  *)
(* run, for traces of any length over any tokens and any multiplier and     *)
(* modulus of the rolling hash, however the hashes collide; and the         *)
(* collector is safe for any threshold and any length of the logs.          *)
(***************************************************************************)
EXTENDS BranchCompare, BranchCollector, SequenceTheorems, WellFoundedInduction, TLAPS

------------------------------------------------------------------------------
(* Natural numbers.                                                         *)

LEMMA LeastNumber ==
  ASSUME NEW S \in SUBSET Nat, S # {}
  PROVE  \E m \in S : \A n \in S : m <= n
  <1>1. PICK m \in S : \A n \in S : <<n, m>> \notin OpToRel(<, Nat)
    BY NatLessThanWellFounded, WFMin
  <1>2. ASSUME NEW n \in S
        PROVE  m <= n
    <2>1. n \in Nat /\ m \in Nat
      OBVIOUS
    <2>2. ~(n < m)
      BY <1>1, <2>1 DEF OpToRel
    <2> QED
      BY <2>1, <2>2
  <1> QED
    BY <1>2

\* Induction up to a bound, on a set.
LEMMA ClimbsTo ==
  ASSUME NEW n \in Nat, NEW S, 0 \in S, \A k \in S \cap (0 .. n) : k < n => k + 1 \in S
  PROVE  0 .. n \subseteq S
  <1> SUFFICES ASSUME (0 .. n) \ S # {}
               PROVE  FALSE
    OBVIOUS
  <1>1. (0 .. n) \ S \in SUBSET Nat
    OBVIOUS
  <1>2. PICK m \in (0 .. n) \ S : \A k \in (0 .. n) \ S : m <= k
    BY <1>1, LeastNumber
  <1>3. m # 0 /\ m - 1 \in 0 .. n /\ m - 1 < n
    BY <1>2
  <1>4. m - 1 \in S
    BY <1>2, <1>3
  <1>5. (m - 1) + 1 \in S
    BY <1>3, <1>4
  <1> QED
    BY <1>2, <1>5

\* A sequence of values of which each is made from the one before it.
Unrolls(g, c, n, f) == g[0] = c /\ \A i \in 1 .. n : g[i] = f[<<g[i - 1], i>>]

LEMMA Recurrence ==
  ASSUME NEW D, NEW c \in D, NEW n \in Nat, NEW f \in [D \X (1 .. n) -> D]
  PROVE  \E g \in [0 .. n -> D] : Unrolls(g, c, n, f)
  <1> USE DEF Unrolls
  <1> DEFINE S == {k \in 0 .. n : \E g \in [0 .. k -> D] : Unrolls(g, c, k, f)}
  <1>1. 0 \in S
    <2> DEFINE g == [i \in 0 .. 0 |-> c]
    <2>1. g \in [0 .. 0 -> D] /\ g[0] = c
      OBVIOUS
    <2> HIDE DEF g
    <2>2. Unrolls(g, c, 0, f) /\ 0 \in 0 .. n
      BY <2>1
    <2> QED
      BY <2>1, <2>2
  <1>2. ASSUME NEW k \in S, k < n
        PROVE  k + 1 \in S
    <2>1. k \in 0 .. n /\ k \in Nat /\ k + 1 \in 0 .. n
      BY <1>2
    <2>2. PICK g \in [0 .. k -> D] : Unrolls(g, c, k, f)
      OBVIOUS
    <2> DEFINE h == [i \in 0 .. k + 1 |-> IF i = k + 1 THEN f[<<g[k], k + 1>>] ELSE g[i]]
    <2>3. f[<<g[k], k + 1>>] \in D
      BY <1>2, <2>1
    <2>4. h \in [0 .. k + 1 -> D]
      BY <2>1, <2>3
    <2>5. h[k + 1] = f[<<g[k], k + 1>>] /\ \A i \in 0 .. k : h[i] = g[i]
      BY <2>1
    <2> HIDE DEF h
    <2>6. h[0] = c
      BY <2>1, <2>2, <2>5
    <2>7. ASSUME NEW i \in 1 .. k + 1
          PROVE  h[i] = f[<<h[i - 1], i>>]
      <3>1. CASE i = k + 1
        <4>1. i - 1 = k /\ h[k] = g[k]
          BY <2>1, <2>5, <3>1
        <4> QED
          BY <2>5, <3>1, <4>1
      <3>2. CASE i # k + 1
        <4>1. i \in 1 .. k /\ h[i] = g[i] /\ h[i - 1] = g[i - 1]
          BY <2>1, <2>5, <3>2
        <4> QED
          BY <2>2, <4>1
      <3> QED
        BY <3>1, <3>2
    <2> QED
      BY <2>1, <2>4, <2>6, <2>7
  <1> HIDE DEF S
  <1>3. n \in S
    <2>1. \A k \in S \cap (0 .. n) : k < n => k + 1 \in S
      BY <1>2
    <2>2. 0 .. n \subseteq S
      BY <1>1, <2>1, ClimbsTo
    <2> QED
      BY <2>2
  <1> QED
    BY <1>3 DEF S

------------------------------------------------------------------------------
(* The rolling hash.                                                        *)

LEMMA ModParts ==
  ASSUME NEW x \in Int
  PROVE  /\ x % Modulus \in 0 .. Modulus - 1 /\ x % Modulus \in Int
         /\ x \div Modulus \in Int
         /\ x = Modulus * (x \div Modulus) + (x % Modulus)
  BY CompareAssumption

LEMMA ModUnique ==
  ASSUME NEW x \in Int, NEW q \in Int, NEW r \in 0 .. Modulus - 1, x = Modulus * q + r
  PROVE  x % Modulus = r
  BY CompareAssumption

\* The hash h with one more token, and without a part g that weighs p.
Extended(h, t) == (h * Base + t) % Modulus
Reduced(h, g, p) == (h - ((g * p) % Modulus)) % Modulus

\* One more token moves the hash of a range like the hash of a prefix.
LEMMA RangeHashMoves ==
  ASSUME NEW h \in Int, NEW g \in Int, NEW p \in Int, NEW t \in Int
  PROVE  Reduced(Extended(h, t), g, (p * Base) % Modulus) = Extended(Reduced(h, g, p), t)
  <1>1. Modulus \in Int /\ Base \in Int
    BY CompareAssumption
  <1>2. PICK q1 \in Int, r1 \in Int : h * Base + t = Modulus * q1 + r1
                                      /\ r1 = (h * Base + t) % Modulus
    <2>1. h * Base + t \in Int
      BY <1>1
    <2> QED
      BY <2>1, ModParts
  <1>3. PICK q2 \in Int, r2 \in Int : p * Base = Modulus * q2 + r2 /\ r2 = (p * Base) % Modulus
    <2>1. p * Base \in Int
      BY <1>1
    <2> QED
      BY <2>1, ModParts
  <1>4. PICK q3 \in Int, r3 \in Int : g * r2 = Modulus * q3 + r3 /\ r3 = (g * r2) % Modulus
    <2>1. g * r2 \in Int
      OBVIOUS
    <2> QED
      BY <2>1, ModParts
  <1>5. PICK q4 \in Int, r4 \in Int : g * p = Modulus * q4 + r4 /\ r4 = (g * p) % Modulus
    <2>1. g * p \in Int
      OBVIOUS
    <2> QED
      BY <2>1, ModParts
  <1>6. PICK q5 \in Int, r5 \in Int : h - r4 = Modulus * q5 + r5 /\ r5 = (h - r4) % Modulus
    <2>1. h - r4 \in Int
      OBVIOUS
    <2> QED
      BY <2>1, ModParts
  <1>7. PICK q6 \in Int, r6 \in 0 .. Modulus - 1 :
            r5 * Base + t = Modulus * q6 + r6 /\ r6 = (r5 * Base + t) % Modulus
    <2>1. r5 * Base + t \in Int
      BY <1>1
    <2> QED
      BY <2>1, ModParts
  <1>8. r1 - r3 = Modulus * (q6 - Base * (q4 - q5) - q1 + g * q2 + q3) + r6
    <2>1. h * Base + t = Modulus * q1 + r1
      BY <1>2
    <2>2. p * Base = Modulus * q2 + r2
      BY <1>3
    <2>3. g * r2 = Modulus * q3 + r3
      BY <1>4
    <2>4. g * p = Modulus * q4 + r4
      BY <1>5
    <2>5. h - r4 = Modulus * q5 + r5
      BY <1>6
    <2>6. r5 * Base + t = Modulus * q6 + r6 /\ r6 \in Int
      BY <1>1, <1>7
    <2> QED
      BY <1>1, <2>1, <2>2, <2>3, <2>4, <2>5, <2>6
  <1>9. q6 - Base * (q4 - q5) - q1 + g * q2 + q3 \in Int /\ r1 - r3 \in Int
    BY <1>1
  <1>10. (r1 - r3) % Modulus = r6
    BY <1>8, <1>9, ModUnique
  <1> QED
    BY <1>2, <1>3, <1>4, <1>5, <1>6, <1>7, <1>10 DEF Extended, Reduced

\* The recursive function of PrefixHash exists and obeys its equation.
LEMMA PrefixHashValues ==
  ASSUME NEW s \in Seq(Tokens)
  PROVE  /\ PrefixHash(s)[0] = 0
         /\ \A i \in 0 .. Len(s) : PrefixHash(s)[i] \in 0 .. Modulus - 1
         /\ \A i \in 1 .. Len(s) :
                PrefixHash(s)[i] = (PrefixHash(s)[i - 1] * Base + ((s[i] % Modulus) + 1)) % Modulus
  <1> DEFINE n == Len(s)
             Eq(h) == h = [i \in 0 .. Len(s) |->
                              IF i = 0 THEN 0
                              ELSE (h[i - 1] * Base + (s[i] % Modulus) + 1) % Modulus]
             f == [x \in (0 .. Modulus - 1) \X (1 .. n) |->
                      (x[1] * Base + (s[x[2]] % Modulus) + 1) % Modulus]
  <1>1. n \in Nat /\ \A i \in 1 .. n : s[i] \in Int
    <2>1. n \in Nat /\ \A i \in 1 .. n : s[i] \in Tokens
      BY LenProperties, ElementOfSeq
    <2>2. \A x \in Tokens : x \in Int
      BY CompareAssumption
    <2> QED
      BY <2>1, <2>2
  <1>2. 0 \in 0 .. Modulus - 1 /\ Modulus \in Int /\ Base \in Int
    BY CompareAssumption
  <1>3. ASSUME NEW a \in Int, NEW i \in 1 .. n
        PROVE  /\ (a * Base + (s[i] % Modulus) + 1) % Modulus \in 0 .. Modulus - 1
               /\ (a * Base + (s[i] % Modulus) + 1) = (a * Base + ((s[i] % Modulus) + 1))
    <2>1. s[i] % Modulus \in Int
      BY <1>1, <1>2, ModParts
    <2>2. a * Base \in Int
      BY <1>2
    <2>3. /\ a * Base + (s[i] % Modulus) + 1 \in Int
          /\ a * Base + (s[i] % Modulus) + 1 = a * Base + ((s[i] % Modulus) + 1)
      BY <2>1, <2>2
    <2> DEFINE z == a * Base + (s[i] % Modulus) + 1
    <2>4. z % Modulus \in 0 .. Modulus - 1
      <3>1. z \in Int
        BY <2>3
      <3> HIDE DEF z
      <3> QED
        BY <3>1, ModParts
    <2> QED
      BY <2>3, <2>4
  <1>4. f \in [(0 .. Modulus - 1) \X (1 .. n) -> 0 .. Modulus - 1]
    <2> SUFFICES ASSUME NEW x \in (0 .. Modulus - 1) \X (1 .. n)
                 PROVE  (x[1] * Base + (s[x[2]] % Modulus) + 1) % Modulus \in 0 .. Modulus - 1
      OBVIOUS
    <2>1. x[1] \in Int /\ x[2] \in 1 .. n
      BY <1>2
    <2> QED
      BY <1>3, <2>1
  <1> HIDE DEF n
  <1>5. PICK g \in [0 .. n -> 0 .. Modulus - 1] : Unrolls(g, 0, n, f)
    <2> HIDE DEF f
    <2> QED
      BY <1>1, <1>2, <1>4, Recurrence, Zenon
  <1>6. ASSUME NEW i \in 1 .. n
        PROVE  g[i] = (g[i - 1] * Base + (s[i] % Modulus) + 1) % Modulus
    <2>1. g[i - 1] \in 0 .. Modulus - 1
      BY <1>1
    <2>2. g[i] = f[<<g[i - 1], i>>]
      BY <1>5 DEF Unrolls
    <2> QED
      BY <2>1, <2>2
  <1>7. Eq(g)
    <2>1. g = [i \in 0 .. n |-> g[i]]
      BY <1>5
    <2>2. \A i \in 0 .. n : i = 0 \/ i \in 1 .. n
      BY <1>1
    <2>3. \A i \in 0 .. n : g[i] = IF i = 0 THEN 0
                                   ELSE (g[i - 1] * Base + (s[i] % Modulus) + 1) % Modulus
      BY <1>5, <1>6, <2>2 DEF Unrolls
    <2> QED
      BY <2>1, <2>3 DEF n
  <1>8. PrefixHash(s) = CHOOSE h : Eq(h)
    BY DEF PrefixHash
  <1> HIDE DEF Eq
  <1>9. Eq(PrefixHash(s))
    BY <1>7, <1>8
  <1> DEFINE h == PrefixHash(s)
  <1>10. /\ h[0] = 0
         /\ \A i \in 1 .. n : h[i] = (h[i - 1] * Base + (s[i] % Modulus) + 1) % Modulus
    <2>1. h = [i \in 0 .. n |-> IF i = 0 THEN 0
                                ELSE (h[i - 1] * Base + (s[i] % Modulus) + 1) % Modulus]
      BY <1>9 DEF Eq, n
    <2> HIDE DEF h
    <2>2. 0 \in 0 .. n /\ \A i \in 1 .. n : i \in 0 .. n /\ i # 0
      BY <1>1
    <2> QED
      BY <2>1, <2>2
  <1> HIDE DEF h
  <1> DEFINE S == {k \in 0 .. n : h[k] \in 0 .. Modulus - 1}
  <1>11. 0 .. n \subseteq S
    <2>1. 0 \in S
      BY <1>1, <1>2, <1>10
    <2>2. ASSUME NEW k \in S \cap (0 .. n), k < n
          PROVE  k + 1 \in S
      <3>1. k + 1 \in 1 .. n /\ (k + 1) - 1 = k /\ h[k] \in Int /\ k + 1 \in 0 .. n
        BY <1>1, <1>2, <2>2
      <3>2. h[k + 1] = (h[k] * Base + (s[k + 1] % Modulus) + 1) % Modulus
        BY <1>10, <3>1
      <3> QED
        BY <1>3, <3>1, <3>2
    <2> HIDE DEF S
    <2> QED
      BY <1>1, <2>1, <2>2, ClimbsTo
  <1>12. \A i \in 0 .. n : h[i] \in 0 .. Modulus - 1
    BY <1>11
  <1>13. ASSUME NEW i \in 1 .. n
         PROVE  h[i] = (h[i - 1] * Base + ((s[i] % Modulus) + 1)) % Modulus
    <2>1. i - 1 \in 0 .. n
      BY <1>1
    <2>2. h[i - 1] \in Int
      BY <1>2, <1>12, <2>1
    <2> QED
      BY <1>3, <1>10, <2>2
  <1> QED
    BY <1>10, <1>12, <1>13 DEF h, n

\* The same of Powers.
LEMMA PowersValues ==
  ASSUME NEW n \in Nat
  PROVE  /\ Powers(n)[0] = 1
         /\ \A i \in 0 .. n : Powers(n)[i] \in Nat
         /\ \A i \in 1 .. n : Powers(n)[i] = (Powers(n)[i - 1] * Base) % Modulus
  <1> DEFINE Eq(p) == p = [i \in 0 .. n |-> IF i = 0 THEN 1 ELSE (p[i - 1] * Base) % Modulus]
             f == [x \in Nat \X (1 .. n) |-> (x[1] * Base) % Modulus]
  <1>1. Modulus \in Int /\ Base \in Int
    BY CompareAssumption
  <1>2. ASSUME NEW a \in Nat
        PROVE  (a * Base) % Modulus \in Nat
    <2>1. a * Base \in Int
      BY <1>1
    <2>2. (a * Base) % Modulus \in 0 .. Modulus - 1
      BY <2>1, ModParts
    <2> QED
      BY <1>1, <2>2
  <1>3. f \in [Nat \X (1 .. n) -> Nat]
    BY <1>2
  <1>4. PICK g \in [0 .. n -> Nat] : Unrolls(g, 1, n, f)
    <2> HIDE DEF f
    <2>1. 1 \in Nat
      OBVIOUS
    <2> QED
      BY <1>3, <2>1, Recurrence, Zenon
  <1>5. ASSUME NEW i \in 1 .. n
        PROVE  g[i] = (g[i - 1] * Base) % Modulus
    <2>1. g[i - 1] \in Nat
      OBVIOUS
    <2>2. g[i] = f[<<g[i - 1], i>>]
      BY <1>4 DEF Unrolls
    <2> QED
      BY <2>1, <2>2
  <1>6. Eq(g)
    <2>1. g = [i \in 0 .. n |-> g[i]]
      BY <1>4
    <2>2. \A i \in 0 .. n : i = 0 \/ i \in 1 .. n
      OBVIOUS
    <2>3. \A i \in 0 .. n : g[i] = IF i = 0 THEN 1 ELSE (g[i - 1] * Base) % Modulus
      BY <1>4, <1>5, <2>2 DEF Unrolls
    <2> QED
      BY <2>1, <2>3
  <1>7. Powers(n) = CHOOSE p : Eq(p)
    BY DEF Powers
  <1> HIDE DEF Eq
  <1>8. Eq(Powers(n))
    BY <1>6, <1>7
  <1> DEFINE p == Powers(n)
  <1>9. p[0] = 1 /\ \A i \in 1 .. n : p[i] = (p[i - 1] * Base) % Modulus
    <2>1. p = [i \in 0 .. n |-> IF i = 0 THEN 1 ELSE (p[i - 1] * Base) % Modulus]
      BY <1>8 DEF Eq
    <2> HIDE DEF p
    <2>2. 0 \in 0 .. n /\ \A i \in 1 .. n : i \in 0 .. n /\ i # 0
      OBVIOUS
    <2> QED
      BY <2>1, <2>2
  <1> HIDE DEF p
  <1> DEFINE S == {k \in 0 .. n : p[k] \in Nat}
  <1>10. 0 .. n \subseteq S
    <2>1. 0 \in S
      BY <1>9
    <2>2. ASSUME NEW k \in S \cap (0 .. n), k < n
          PROVE  k + 1 \in S
      <3>1. k + 1 \in 1 .. n /\ (k + 1) - 1 = k /\ p[k] \in Nat /\ k + 1 \in 0 .. n
        BY <2>2
      <3>2. p[k + 1] = (p[k] * Base) % Modulus
        BY <1>9, <3>1
      <3> QED
        BY <1>2, <3>1, <3>2
    <2> HIDE DEF S
    <2> QED
      BY <2>1, <2>2, ClimbsTo
  <1>11. \A i \in 0 .. n : p[i] \in Nat
    BY <1>10
  <1> QED
    BY <1>9, <1>11 DEF p

SameAt(s, u, i, j, n) == \A k \in 1 .. n : s[i + k] = u[j + k]

\* Equal runs have equal digests, wherever they are: no common run escapes the table.
LEMMA EqualRunsEqualHashes ==
  ASSUME NEW s \in Seq(Tokens), NEW u \in Seq(Tokens), NEW n \in Nat, NEW i \in Nat, NEW j \in Nat,
         i + n <= Len(s), j + n <= Len(u), SameAt(s, u, i, j, n)
  PROVE  RangeHash(PrefixHash(s), Powers(n), i, n) = RangeHash(PrefixHash(u), Powers(n), j, n)
  <1> DEFINE a == PrefixHash(s)
             b == PrefixHash(u)
             p == Powers(n)
             S == {k \in 0 .. n : RangeHash(a, p, i, k) = RangeHash(b, p, j, k)}
  <1>1. Len(s) \in Nat /\ Len(u) \in Nat /\ Modulus \in Int /\ Base \in Int
    BY CompareAssumption, LenProperties
  <1>2. /\ \A k \in 0 .. n : p[k] \in Nat
        /\ p[0] = 1
        /\ \A k \in 1 .. n : p[k] = (p[k - 1] * Base) % Modulus
    BY PowersValues
  <1>3. /\ \A k \in 0 .. Len(s) : a[k] \in 0 .. Modulus - 1
        /\ \A k \in 1 .. Len(s) : a[k] = (a[k - 1] * Base + ((s[k] % Modulus) + 1)) % Modulus
    BY PrefixHashValues
  <1>4. /\ \A k \in 0 .. Len(u) : b[k] \in 0 .. Modulus - 1
        /\ \A k \in 1 .. Len(u) : b[k] = (b[k - 1] * Base + ((u[k] % Modulus) + 1)) % Modulus
    BY PrefixHashValues
  <1>5. (\A k \in 1 .. Len(s) : s[k] \in Int) /\ (\A k \in 1 .. Len(u) : u[k] \in Int)
    <2>1. (\A k \in 1 .. Len(s) : s[k] \in Tokens) /\ (\A k \in 1 .. Len(u) : u[k] \in Tokens)
      BY ElementOfSeq
    <2>2. \A x \in Tokens : x \in Int
      BY CompareAssumption
    <2> QED
      BY <2>1, <2>2
  <1> HIDE DEF a, b, p
  <1>6. ASSUME NEW x \in 0 .. Modulus - 1
        PROVE  (x - ((x * 1) % Modulus)) % Modulus = 0
    <2>1. x \in Int /\ x = Modulus * 0 + x /\ x * 1 = x
      BY <1>1
    <2>2. x % Modulus = x
      BY <2>1, ModUnique
    <2>3. x - ((x * 1) % Modulus) = 0 /\ 0 = Modulus * 0 + 0 /\ 0 \in 0 .. Modulus - 1
      BY <1>1, <2>1, <2>2
    <2> QED
      BY <2>3, ModUnique
  <1>7. 0 \in S
    <2>1. a[i + 0] = a[i] /\ b[j + 0] = b[j] /\ i \in 0 .. Len(s) /\ j \in 0 .. Len(u)
      BY <1>1
    <2>2. RangeHash(a, p, i, 0) = 0 /\ RangeHash(b, p, j, 0) = 0
      BY <1>2, <1>3, <1>4, <1>6, <2>1 DEF RangeHash
    <2> QED
      BY <2>2
  <1> HIDE DEF S
  <1>8. ASSUME NEW k \in S \cap (0 .. n), k < n
        PROVE  k + 1 \in S
    <2> DEFINE t == (s[i + (k + 1)] % Modulus) + 1
    <2>1. /\ k + 1 \in 1 .. n /\ k + 1 \in 0 .. n /\ (k + 1) - 1 = k /\ k \in 0 .. n
          /\ i + (k + 1) \in 1 .. Len(s) /\ (i + (k + 1)) - 1 = i + k
          /\ j + (k + 1) \in 1 .. Len(u) /\ (j + (k + 1)) - 1 = j + k
          /\ i + k \in 0 .. Len(s) /\ j + k \in 0 .. Len(u)
          /\ i \in 0 .. Len(s) /\ j \in 0 .. Len(u)
      <3>1. k \in Nat /\ k + 1 <= n
        BY <1>8
      <3>2. k + 1 \in 1 .. n /\ k + 1 \in 0 .. n /\ (k + 1) - 1 = k /\ k \in 0 .. n
        BY <3>1
      <3>3. /\ i + (k + 1) \in 1 .. Len(s) /\ (i + (k + 1)) - 1 = i + k
            /\ i + k \in 0 .. Len(s) /\ i \in 0 .. Len(s)
        BY <1>1, <3>1
      <3>4. /\ j + (k + 1) \in 1 .. Len(u) /\ (j + (k + 1)) - 1 = j + k
            /\ j + k \in 0 .. Len(u) /\ j \in 0 .. Len(u)
        BY <1>1, <3>1
      <3> QED
        BY <3>2, <3>3, <3>4
    <2>2. s[i + (k + 1)] = u[j + (k + 1)]
      BY <2>1 DEF SameAt
    <2>3. t \in Int
      <3>1. s[i + (k + 1)] \in Int
        BY <1>5, <2>1
      <3>2. s[i + (k + 1)] % Modulus \in Int
        BY <3>1, ModParts
      <3> QED
        BY <3>2
    <2>4. a[i + (k + 1)] = (a[i + k] * Base + t) % Modulus
      BY <1>3, <2>1
    <2>5. b[j + (k + 1)] = (b[j + k] * Base + t) % Modulus
      BY <1>4, <2>1, <2>2
    <2>6. p[k + 1] = (p[k] * Base) % Modulus
      BY <1>2, <2>1
    <2>7. a[i] \in Int /\ a[i + k] \in Int /\ b[j] \in Int /\ b[j + k] \in Int /\ p[k] \in Int
      <3>1. \A x \in 0 .. Modulus - 1 : x \in Int
        BY <1>1
      <3>2. p[k] \in Nat
        BY <1>2, <2>1
      <3>3. \A x \in 0 .. Len(s) : a[x] \in Int
        BY <1>3, <3>1
      <3>4. \A x \in 0 .. Len(u) : b[x] \in Int
        BY <1>4, <3>1
      <3> QED
        BY <2>1, <3>2, <3>3, <3>4
    <2> HIDE DEF t
    <2>8. RangeHash(a, p, i, k + 1) = Extended(RangeHash(a, p, i, k), t)
      <3>1. RangeHash(a, p, i, k + 1) =
                Reduced(Extended(a[i + k], t), a[i], (p[k] * Base) % Modulus)
        BY <2>4, <2>6, Zenon DEF RangeHash, Reduced, Extended
      <3>2. RangeHash(a, p, i, k) = Reduced(a[i + k], a[i], p[k])
        BY DEF RangeHash, Reduced
      <3> DEFINE h == a[i + k]
                 g == a[i]
                 w == p[k]
      <3>3. h \in Int /\ g \in Int /\ w \in Int
        BY <2>7
      <3> HIDE DEF h, g, w
      <3>4. Reduced(Extended(h, t), g, (w * Base) % Modulus) = Extended(Reduced(h, g, w), t)
        BY <2>3, <3>3, RangeHashMoves
      <3> QED
        BY <3>1, <3>2, <3>4, Zenon DEF h, g, w
    <2>9. RangeHash(b, p, j, k + 1) = Extended(RangeHash(b, p, j, k), t)
      <3>1. RangeHash(b, p, j, k + 1) =
                Reduced(Extended(b[j + k], t), b[j], (p[k] * Base) % Modulus)
        BY <2>5, <2>6, Zenon DEF RangeHash, Reduced, Extended
      <3>2. RangeHash(b, p, j, k) = Reduced(b[j + k], b[j], p[k])
        BY DEF RangeHash, Reduced
      <3> DEFINE h == b[j + k]
                 g == b[j]
                 w == p[k]
      <3>3. h \in Int /\ g \in Int /\ w \in Int
        BY <2>7
      <3> HIDE DEF h, g, w
      <3>4. Reduced(Extended(h, t), g, (w * Base) % Modulus) = Extended(Reduced(h, g, w), t)
        BY <2>3, <3>3, RangeHashMoves
      <3> QED
        BY <3>1, <3>2, <3>4, Zenon DEF h, g, w
    <2>10. RangeHash(a, p, i, k) = RangeHash(b, p, j, k)
      BY DEF S
    <2> QED
      BY <2>1, <2>8, <2>9, <2>10 DEF S
  <1>9. n \in S
    <2>1. 0 .. n \subseteq S
      BY <1>7, <1>8, ClimbsTo
    <2> QED
      BY <2>1
  <1> QED
    BY <1>9 DEF S, a, b, p

------------------------------------------------------------------------------
(* Runs.                                                                    *)

TracesTyped == traces \in [qflex: Seq(Tokens), gem5: Seq(Tokens)]

LEMMA TraceLengths ==
  ASSUME TracesTyped
  PROVE  /\ traces.qflex \in Seq(Tokens) /\ traces.gem5 \in Seq(Tokens)
         /\ Len(traces.qflex) \in Nat /\ Len(traces.gem5) \in Nat
         /\ Shorter \in Nat /\ Shorter <= Len(traces.qflex) /\ Shorter <= Len(traces.gem5)
  <1>1. traces.qflex \in Seq(Tokens) /\ traces.gem5 \in Seq(Tokens)
    BY DEF TracesTyped
  <1>2. Len(traces.qflex) \in Nat /\ Len(traces.gem5) \in Nat
    BY <1>1, LenProperties
  <1> QED
    BY <1>1, <1>2 DEF Shorter

LEMMA SliceProperties ==
  ASSUME NEW s \in Seq(Tokens), NEW i \in Nat, NEW n \in Nat, i + n <= Len(s)
  PROVE  /\ Slice(s, i, n) \in Seq(Tokens)
         /\ Len(Slice(s, i, n)) = n
         /\ \A k \in 1 .. n : Slice(s, i, n)[k] = s[i + k]
  <1>1. Len(s) \in Nat /\ \A k \in 1 .. Len(s) : s[k] \in Tokens
    BY LenProperties, ElementOfSeq
  <1>2. \A k \in i + 1 .. i + n : s[k] \in Tokens
    BY <1>1
  <1>3. /\ Slice(s, i, n) \in Seq(Tokens)
        /\ Len(Slice(s, i, n)) = IF i + 1 <= i + n THEN (i + n) - (i + 1) + 1 ELSE 0
        /\ \A k \in 1 .. (i + n) - (i + 1) + 1 : Slice(s, i, n)[k] = s[(i + 1) + k - 1]
    <2> DEFINE first == i + 1
               last == i + n
    <2>1. first \in Int /\ last \in Int /\ \A k \in first .. last : s[k] \in Tokens
      BY <1>2
    <2> HIDE DEF first, last
    <2>2. /\ SubSeq(s, first, last) \in Seq(Tokens)
          /\ Len(SubSeq(s, first, last)) = IF first <= last THEN last - first + 1 ELSE 0
          /\ \A k \in 1 .. last - first + 1 : SubSeq(s, first, last)[k] = s[first + k - 1]
      BY <2>1, SubSeqProperties
    <2> QED
      BY <2>2 DEF Slice, first, last
  <1>4. Len(Slice(s, i, n)) = n
    BY <1>3
  <1>5. ASSUME NEW k \in 1 .. n
        PROVE  Slice(s, i, n)[k] = s[i + k]
    <2>1. k \in 1 .. (i + n) - (i + 1) + 1 /\ (i + 1) + k - 1 = i + k
      OBVIOUS
    <2>2. Slice(s, i, n)[k] = s[(i + 1) + k - 1]
      BY <1>3, <2>1
    <2> QED
      BY <2>1, <2>2
  <1>6. Slice(s, i, n) \in Seq(Tokens)
    BY <1>3
  <1> QED
    BY <1>4, <1>5, <1>6

\* A run is common if it is so token by token.
LEMMA SameTokens ==
  ASSUME TracesTyped, NEW i \in Nat, NEW j \in Nat, NEW n \in Nat,
         i + n <= Len(traces.qflex), j + n <= Len(traces.gem5)
  PROVE  SameRun(i, j, n) <=> \A k \in 1 .. n : traces.qflex[i + k] = traces.gem5[j + k]
  <1> DEFINE x == Slice(traces.qflex, i, n)
             y == Slice(traces.gem5, j, n)
  <1>1. x \in Seq(Tokens) /\ Len(x) = n /\ \A k \in 1 .. n : x[k] = traces.qflex[i + k]
    BY TraceLengths, SliceProperties
  <1>2. y \in Seq(Tokens) /\ Len(y) = n /\ \A k \in 1 .. n : y[k] = traces.gem5[j + k]
    BY TraceLengths, SliceProperties
  <1>3. SameRun(i, j, n) <=> x = y
    BY DEF SameRun
  <1> HIDE DEF x, y
  <1>4. x = y <=> \A k \in 1 .. n : x[k] = y[k]
    BY <1>1, <1>2, SeqEqual
  <1> QED
    BY <1>1, <1>2, <1>3, <1>4

\* The start of a common run is a common run.
LEMMA ShorterRuns ==
  ASSUME TracesTyped, NEW n \in Nat, NEW m \in 0 .. n, CommonRun(n)
  PROVE  CommonRun(m)
  <1>1. PICK i \in 0 .. Len(traces.qflex) - n, j \in 0 .. Len(traces.gem5) - n : SameRun(i, j, n)
    BY DEF CommonRun
  <1>2. Len(traces.qflex) \in Nat /\ Len(traces.gem5) \in Nat
    BY TraceLengths
  <1>3. /\ i \in Nat /\ j \in Nat /\ m \in Nat
        /\ i + n <= Len(traces.qflex) /\ j + n <= Len(traces.gem5)
        /\ i + m <= Len(traces.qflex) /\ j + m <= Len(traces.gem5)
        /\ i \in 0 .. Len(traces.qflex) - m /\ j \in 0 .. Len(traces.gem5) - m
    BY <1>2
  <1>4. \A k \in 1 .. n : traces.qflex[i + k] = traces.gem5[j + k]
    BY <1>1, <1>3, SameTokens
  <1>5. \A k \in 1 .. m : traces.qflex[i + k] = traces.gem5[j + k]
    BY <1>4
  <1>6. SameRun(i, j, m)
    BY <1>3, <1>5, SameTokens
  <1> QED
    BY <1>3, <1>6 DEF CommonRun

LEMMA EmptyRun ==
  ASSUME TracesTyped
  PROVE  SameRun(0, 0, 0) /\ CommonRun(0)
  <1>1. Len(traces.qflex) \in Nat /\ Len(traces.gem5) \in Nat
    BY TraceLengths
  <1>2. SameRun(0, 0, 0)
    BY <1>1, SameTokens
  <1> QED
    BY <1>1, <1>2 DEF CommonRun

\* The table holds the common runs, no more and no fewer, however digests collide.
LEMMA CandidatesAreRuns ==
  ASSUME TracesTyped, NEW n \in Nat
  PROVE  Candidates(n) = {ij \in (0 .. Len(traces.qflex) - n) \X (0 .. Len(traces.gem5) - n) :
                             SameRun(ij[1], ij[2], n)}
  <1> SUFFICES ASSUME NEW ij \in (0 .. Len(traces.qflex) - n) \X (0 .. Len(traces.gem5) - n),
                      SameRun(ij[1], ij[2], n)
               PROVE  RangeHash(PrefixHash(traces.qflex), Powers(n), ij[1], n)
                          = RangeHash(PrefixHash(traces.gem5), Powers(n), ij[2], n)
    BY DEF Candidates
  <1>1. /\ traces.qflex \in Seq(Tokens) /\ traces.gem5 \in Seq(Tokens)
        /\ Len(traces.qflex) \in Nat /\ Len(traces.gem5) \in Nat
    BY TraceLengths
  <1>2. ij[1] \in 0 .. Len(traces.qflex) - n /\ ij[2] \in 0 .. Len(traces.gem5) - n
    OBVIOUS
  <1>3. /\ ij[1] \in Nat /\ ij[2] \in Nat
        /\ ij[1] + n <= Len(traces.qflex) /\ ij[2] + n <= Len(traces.gem5)
    BY <1>1, <1>2
  <1> DEFINE i == ij[1]
             j == ij[2]
  <1>4. i \in Nat /\ j \in Nat /\ i + n <= Len(traces.qflex) /\ j + n <= Len(traces.gem5)
    BY <1>3
  <1>5. SameRun(i, j, n)
    OBVIOUS
  <1> HIDE DEF i, j
  <1>6. SameAt(traces.qflex, traces.gem5, i, j, n)
    BY <1>4, <1>5, SameTokens DEF SameAt
  <1>7. RangeHash(PrefixHash(traces.qflex), Powers(n), i, n)
            = RangeHash(PrefixHash(traces.gem5), Powers(n), j, n)
    <2> DEFINE s == traces.qflex
               u == traces.gem5
    <2>1. /\ s \in Seq(Tokens) /\ u \in Seq(Tokens)
          /\ i + n <= Len(s) /\ j + n <= Len(u) /\ SameAt(s, u, i, j, n)
      BY <1>1, <1>4, <1>6
    <2> HIDE DEF s, u
    <2>2. RangeHash(PrefixHash(s), Powers(n), i, n) = RangeHash(PrefixHash(u), Powers(n), j, n)
      BY <1>4, <2>1, EqualRunsEqualHashes
    <2> QED
      BY <2>2 DEF s, u
  <1> QED
    BY <1>7 DEF i, j

\* The run that the scan meets first.
LEMMA FirstRunIsFirst ==
  ASSUME TracesTyped, NEW n \in Nat, Candidates(n) # {}
  PROVE  /\ FirstRun(n) = [length |-> n, qflex |-> FirstRun(n).qflex, gem5 |-> FirstRun(n).gem5]
         /\ FirstRun(n).qflex \in 0 .. Len(traces.qflex) - n
         /\ FirstRun(n).gem5 \in 0 .. Len(traces.gem5) - n
         /\ SameRun(FirstRun(n).qflex, FirstRun(n).gem5, n)
         /\ \A j \in 0 .. FirstRun(n).gem5 - 1, i \in 0 .. Len(traces.qflex) - n : ~SameRun(i, j, n)
  <1> DEFINE C == Candidates(n)
             First(x) == x \in C /\ \A y \in C : Earlier(x, y)
             J == {j \in Nat : \E i \in Nat : <<i, j>> \in C}
  <1>1. Len(traces.qflex) \in Nat /\ Len(traces.gem5) \in Nat
    BY TraceLengths
  <1>2. C = {ij \in (0 .. Len(traces.qflex) - n) \X (0 .. Len(traces.gem5) - n) :
                SameRun(ij[1], ij[2], n)}
    BY CandidatesAreRuns
  <1>3. \A x \in C : x[1] \in Nat /\ x[2] \in Nat /\ x = <<x[1], x[2]>>
    BY <1>1, <1>2
  <1> HIDE DEF C
  <1>4. PICK j \in J : \A k \in J : j <= k
    <2>1. PICK x \in C : TRUE
      BY DEF C
    <2>2. x[2] \in J
      BY <1>3, <2>1
    <2> HIDE DEF J
    <2>3. J \in SUBSET Nat
      BY DEF J
    <2> QED
      BY <2>2, <2>3, LeastNumber
  <1> DEFINE I == {i \in Nat : <<i, j>> \in C}
  <1>5. PICK i \in I : \A k \in I : i <= k
    <2>1. I # {} /\ I \in SUBSET Nat
      BY <1>4
    <2> HIDE DEF I
    <2> QED
      BY <2>1, LeastNumber
  <1>6. First(<<i, j>>)
    <2>1. <<i, j>> \in C
      BY <1>5
    <2>2. ASSUME NEW y \in C
          PROVE  Earlier(<<i, j>>, y)
      <3>1. y[1] \in Nat /\ y[2] \in Nat /\ <<y[1], y[2]>> \in C
        BY <1>3
      <3>2. y[2] \in J
        BY <3>1
      <3>3. j \in Nat /\ i \in Nat /\ j <= y[2]
        BY <1>4, <1>5, <3>2
      <3>4. y[2] = j => i <= y[1]
        BY <1>5, <3>1
      <3> QED
        BY <3>1, <3>3, <3>4 DEF Earlier
    <2> QED
      BY <2>1, <2>2
  <1> DEFINE f == CHOOSE x \in C : \A y \in C : Earlier(x, y)
  <1>7. f \in C /\ \A y \in C : Earlier(f, y)
    BY <1>6
  <1>8. FirstRun(n) = [length |-> n, qflex |-> f[1], gem5 |-> f[2]]
    BY DEF FirstRun, C
  <1> HIDE DEF f
  <1>9. FirstRun(n).qflex = f[1] /\ FirstRun(n).gem5 = f[2]
    BY <1>8
  <1>10. /\ f[1] \in 0 .. Len(traces.qflex) - n /\ f[2] \in 0 .. Len(traces.gem5) - n
         /\ SameRun(f[1], f[2], n)
    BY <1>2, <1>7
  <1>11. ASSUME NEW b \in 0 .. f[2] - 1, NEW a \in 0 .. Len(traces.qflex) - n, SameRun(a, b, n)
         PROVE  FALSE
    <2>1. b \in 0 .. Len(traces.gem5) - n /\ b < f[2]
      <3> DEFINE l == Len(traces.gem5)
                 e == f[2]
      <3>1. l \in Nat /\ n \in Nat /\ e \in 0 .. l - n /\ b \in 0 .. e - 1
        BY <1>1, <1>10
      <3> HIDE DEF l, e
      <3>2. b \in 0 .. l - n /\ b < e
        BY <3>1
      <3> QED
        BY <3>2 DEF l, e
    <2>2. <<a, b>> \in C
      BY <1>2, <1>11, <2>1
    <2>3. Earlier(f, <<a, b>>)
      BY <1>7, <2>2
    <2>4. f[2] < b \/ f[2] = b
      BY <2>3 DEF Earlier
    <2>5. f[2] \in Int /\ b \in Int
      BY <1>1, <1>10
    <2> QED
      BY <2>1, <2>4, <2>5
  <1> QED
    BY <1>8, <1>9, <1>10, <1>11

------------------------------------------------------------------------------
(* The invariant.                                                           *)

\* The first difference, or the end of the shorter trace.
PrefixRight ==
    phase # "prefix" =>
        /\ SameRun(0, 0, prefixLen)
        /\ prefixLen < Shorter => traces.qflex[prefixLen + 1] # traces.gem5[prefixLen + 1]

\* The best run is the first one of the length that was probed last with success.
BestRight ==
    /\ IF low = 0 THEN best = NoRun ELSE best.length = low - 1
    /\ best.qflex \in 0 .. Len(traces.qflex) - best.length
    /\ best.gem5 \in 0 .. Len(traces.gem5) - best.length
    /\ SameRun(best.qflex, best.gem5, best.length)
    /\ \A j \in 0 .. best.gem5 - 1, i \in 0 .. Len(traces.qflex) - best.length :
           ~SameRun(i, j, best.length)

CompareInv ==
    /\ CompareTypeOK
    /\ phase = "prefix" => low = 0
    /\ phase = "search" => 0 <= high /\ low <= high + 1
    /\ PrefixRight
    /\ BestRight
    /\ SearchIsSound
    /\ ComparisonExact

LEMMA TypedTraces ==
  ASSUME CompareInv
  PROVE  TracesTyped
  BY DEF CompareInv, CompareTypeOK, TracesTyped

\* Nothing but the traces says what is common to them.
LEMMA RunsKept ==
  ASSUME UNCHANGED traces
  PROVE  /\ Shorter' = Shorter
         /\ \A n : CommonRun(n)' <=> CommonRun(n)
         /\ \A i, j, n : SameRun(i, j, n)' <=> SameRun(i, j, n)
  BY DEF Shorter, CommonRun, SameRun

\* No run at all, the best so far of a search that has found nothing.
LEMMA NoRunIsRight ==
  ASSUME TracesTyped
  PROVE  /\ NoRun \in [length: 0 .. Shorter, qflex: Nat, gem5: Nat]
         /\ NoRun.length = 0 /\ NoRun.qflex = 0 /\ NoRun.gem5 = 0
         /\ SameRun(NoRun.qflex, NoRun.gem5, NoRun.length)
         /\ NoRun.qflex \in 0 .. Len(traces.qflex) - NoRun.length
         /\ NoRun.gem5 \in 0 .. Len(traces.gem5) - NoRun.length
  <1>1. NoRun.length = 0 /\ NoRun.qflex = 0 /\ NoRun.gem5 = 0
    BY DEF NoRun
  <1>2. /\ Shorter \in Nat /\ Len(traces.qflex) \in Nat /\ Len(traces.gem5) \in Nat
        /\ SameRun(0, 0, 0)
    BY TraceLengths, EmptyRun
  <1>3. NoRun \in [length: 0 .. Shorter, qflex: Nat, gem5: Nat]
    BY <1>2 DEF NoRun
  <1> QED
    BY <1>1, <1>2, <1>3

LEMMA InitCompareInv == CompareInit => CompareInv
  <1> SUFFICES ASSUME CompareInit
               PROVE  CompareInv
    OBVIOUS
  <1>1. TracesTyped
    <2>1. ASSUME NEW s \in Traces
          PROVE  s \in Seq(Tokens)
      <3>1. PICK n \in 0 .. MaxTrace : s \in [1 .. n -> Tokens]
        BY DEF Traces
      <3>2. n \in Nat
        BY CompareAssumption
      <3> QED
        BY <3>1, <3>2, SeqDef
    <2>2. traces \in [qflex: Traces, gem5: Traces]
      BY DEF CompareInit
    <2> QED
      BY <2>1, <2>2 DEF TracesTyped
  <1>2. phase = "prefix" /\ prefixLen = 0 /\ low = 0 /\ high = 0 /\ best = NoRun
    BY DEF CompareInit
  <1>3. Shorter \in Nat
    BY <1>1, TraceLengths
  <1>4. CompareTypeOK
    BY <1>1, <1>2, <1>3, NoRunIsRight DEF CompareTypeOK, TracesTyped
  <1>5. BestRight
    BY <1>1, <1>2, NoRunIsRight DEF BestRight
  <1> QED
    BY <1>2, <1>4, <1>5 DEF CompareInv, PrefixRight, SearchIsSound, ComparisonExact

------------------------------------------------------------------------------
(* The steps.                                                               *)

\* What CommonPrefix computes.
LEMMA PrefixIsCommon ==
  ASSUME CompareInv, CommonPrefix
  PROVE  /\ prefixLen' \in 0 .. Shorter
         /\ SameRun(0, 0, prefixLen')
         /\ prefixLen' < Shorter =>
                traces.qflex[prefixLen' + 1] # traces.gem5[prefixLen' + 1]
  <1> DEFINE D == {i \in 0 .. Shorter - 1 : traces.qflex[i + 1] # traces.gem5[i + 1]}
  <1>1. TracesTyped
    BY TypedTraces
  <1>2. /\ Len(traces.qflex) \in Nat /\ Len(traces.gem5) \in Nat
        /\ Shorter \in Nat /\ Shorter <= Len(traces.qflex) /\ Shorter <= Len(traces.gem5)
    BY <1>1, TraceLengths
  <1>3. prefixLen' = IF D = {} THEN Shorter ELSE CHOOSE i \in D : \A j \in D : i <= j
    BY DEF CommonPrefix
  <1> DEFINE m == prefixLen'
  <1>4. /\ m \in 0 .. Shorter
        /\ \A i \in 0 .. m - 1 : i \notin D
        /\ m < Shorter => m \in D
    <2>1. CASE D = {}
      <3> HIDE DEF D
      <3> QED
        BY <1>2, <1>3, <2>1
    <2>2. CASE D # {}
      <3>1. D \in SUBSET Nat
        BY <1>2
      <3> HIDE DEF D, m
      <3>2. \E i \in D : \A j \in D : i <= j
        BY <2>2, <3>1, LeastNumber
      <3>3. m \in D /\ \A j \in D : m <= j
        BY <1>3, <2>2, <3>2 DEF m
      <3>4. m \in 0 .. Shorter - 1
        BY <3>3 DEF D
      <3>5. m \in 0 .. Shorter
        BY <1>2, <3>4
      <3>6. ASSUME NEW i \in 0 .. m - 1, i \in D
            PROVE  FALSE
        <4>1. m <= i /\ m \in Int /\ i \in Int /\ i <= m - 1
          BY <1>2, <3>3, <3>4, <3>6
        <4> QED
          BY <4>1
      <3> QED
        BY <3>3, <3>5, <3>6
    <2> QED
      BY <2>1, <2>2
  <1> HIDE DEF m
  <1>5. \A k \in 1 .. m : traces.qflex[0 + k] = traces.gem5[0 + k]
    <2> SUFFICES ASSUME NEW k \in 1 .. m
                 PROVE  traces.qflex[k] = traces.gem5[k]
      OBVIOUS
    <2>1. k - 1 \in 0 .. m - 1 /\ k - 1 \in 0 .. Shorter - 1 /\ (k - 1) + 1 = k
      BY <1>2, <1>4
    <2>2. k - 1 \notin D
      BY <1>4, <2>1
    <2> QED
      BY <2>1, <2>2
  <1>6. SameRun(0, 0, m)
    <2>1. m \in Nat /\ 0 + m <= Len(traces.qflex) /\ 0 + m <= Len(traces.gem5)
      BY <1>2, <1>4
    <2> QED
      BY <1>1, <1>5, <2>1, SameTokens
  <1> QED
    BY <1>4, <1>6 DEF m

LEMMA CommonPrefixStep ==
  ASSUME CompareInv, CommonPrefix
  PROVE  CompareInv'
  <1>1. /\ phase = "prefix" /\ low = 0 /\ low' = 0 /\ high' = Shorter
        /\ phase' = IF Shorter = 0 THEN "done" ELSE "search"
        /\ UNCHANGED <<traces, best>>
    BY DEF CommonPrefix, CompareInv
  <1>2. TracesTyped
    BY TypedTraces
  <1>3. Shorter \in Nat /\ Shorter' = Shorter
    BY <1>1, <1>2, TraceLengths, RunsKept
  <1>4. best = NoRun
    BY <1>1 DEF CompareInv, BestRight
  <1>5. CompareTypeOK'
    BY <1>1, <1>3, PrefixIsCommon DEF CompareInv, CompareTypeOK
  <1>6. PrefixRight'
    BY <1>1, <1>3, PrefixIsCommon DEF PrefixRight, SameRun
  <1>7. BestRight'
    BY <1>1, <1>4 DEF CompareInv, BestRight, SameRun
  <1>8. SearchIsSound'
    <2>1. \A n \in 0 .. Shorter : ~(n < 0) /\ ~(n > Shorter)
      BY <1>3
    <2>2. SameRun(best.qflex, best.gem5, best.length)
      BY DEF CompareInv, BestRight
    <2> QED
      BY <1>1, <1>3, <2>1, <2>2 DEF SearchIsSound, SameRun
  <1>9. ComparisonExact'
    <2> SUFFICES ASSUME Shorter = 0
                 PROVE  ComparisonExact'
      BY <1>1 DEF ComparisonExact
    <2>1. /\ best.length = 0 /\ best.gem5 = 0 /\ best.qflex = 0
          /\ SameRun(best.qflex, best.gem5, best.length)
      BY <1>2, <1>4, NoRunIsRight
    <2>2. /\ prefixLen' = 0 /\ SameRun(0, 0, prefixLen')
      BY <2>1, PrefixIsCommon
    <2>3. \A n \in 0 .. Shorter : CommonRun(n) <=> n <= best.length
      BY <1>2, <2>1, EmptyRun
    <2>4. \A n \in 0 .. Shorter' : CommonRun(n)' <=> n <= best.length
      BY <1>1, <1>3, <2>3, RunsKept
    <2> QED
      BY <1>1, <1>3, <2>1, <2>2, <2>4 DEF ComparisonExact, SameRun
  <1> QED
    BY <1>1, <1>3, <1>5, <1>6, <1>7, <1>8, <1>9 DEF CompareInv

\* The middle of the lengths in question.
LEMMA MiddleBetween ==
  ASSUME CompareInv, phase = "search", low <= high
  PROVE  /\ Middle \in low .. high /\ Middle \in 0 .. Shorter
         /\ low \in Nat /\ high \in Nat /\ high <= Shorter /\ Shorter \in Nat
  <1>1. Shorter \in Nat
    BY TypedTraces, TraceLengths
  <1>2. low \in Nat /\ high \in Int /\ high <= Shorter
    BY <1>1 DEF CompareInv, CompareTypeOK
  <1> QED
    BY <1>1, <1>2 DEF Middle

\* A length that is probed with success becomes the best one.
LEMMA ProbeFinds ==
  ASSUME CompareInv, Probe, Middle = 0 \/ Candidates(Middle) # {}
  PROVE  CompareInv'
  <1>1. /\ phase = "search" /\ low <= high
        /\ best' = IF Middle = 0 THEN NoRun ELSE FirstRun(Middle)
        /\ low' = Middle + 1
        /\ UNCHANGED <<traces, phase, prefixLen, high>>
    BY DEF Probe
  <1>2. TracesTyped
    BY TypedTraces
  <1>3. /\ Middle \in low .. high /\ Middle \in 0 .. Shorter /\ Middle \in Nat
        /\ low \in Nat /\ high \in Nat /\ high <= Shorter /\ Shorter \in Nat
    BY <1>1, MiddleBetween
  <1>4. Shorter' = Shorter
    BY <1>1, RunsKept
  <1>5. /\ Len(traces.qflex) \in Nat /\ Len(traces.gem5) \in Nat
    BY <1>2, TraceLengths
  <1> DEFINE m == Middle
  <1> HIDE DEF m
  <1>6. /\ best' \in [length: 0 .. Shorter, qflex: Nat, gem5: Nat]
        /\ best'.length = m
        /\ best'.qflex \in 0 .. Len(traces.qflex) - m
        /\ best'.gem5 \in 0 .. Len(traces.gem5) - m
        /\ SameRun(best'.qflex, best'.gem5, m)
        /\ \A j \in 0 .. best'.gem5 - 1, i \in 0 .. Len(traces.qflex) - m : ~SameRun(i, j, m)
    <2>1. CASE m = 0
      <3>1. best' = NoRun
        BY <1>1, <2>1 DEF m
      <3> QED
        BY <1>2, <2>1, <3>1, NoRunIsRight
    <2>2. CASE m # 0
      <3>1. Candidates(m) # {} /\ best' = FirstRun(m) /\ m \in Nat /\ m \in 0 .. Shorter
        BY <1>1, <1>3, <2>2 DEF m
      <3>2. /\ best' = [length |-> m, qflex |-> best'.qflex, gem5 |-> best'.gem5]
            /\ best'.qflex \in 0 .. Len(traces.qflex) - m
            /\ best'.gem5 \in 0 .. Len(traces.gem5) - m
            /\ SameRun(best'.qflex, best'.gem5, m)
            /\ \A j \in 0 .. best'.gem5 - 1, i \in 0 .. Len(traces.qflex) - m : ~SameRun(i, j, m)
        BY <1>2, <3>1, FirstRunIsFirst
      <3>3. best'.length = m /\ best'.qflex \in Nat /\ best'.gem5 \in Nat
        BY <1>5, <3>1, <3>2
      <3>4. best' \in [length: 0 .. Shorter, qflex: Nat, gem5: Nat]
        BY <3>1, <3>2, <3>3
      <3> QED
        BY <3>2, <3>3, <3>4
    <2> QED
      BY <2>1, <2>2
  <1>7. CommonRun(m) /\ m \in 0 .. Shorter /\ low' = m + 1 /\ m \in Nat /\ m <= high
    <2>1. CommonRun(m)
      BY <1>6 DEF CommonRun
    <2>2. m = Middle /\ low' = Middle + 1
      BY <1>1 DEF m
    <2>3. m \in 0 .. Shorter /\ m \in Nat /\ m <= high
      BY <1>3, <2>2
    <2> QED
      BY <2>1, <2>2, <2>3
  <1>8. CompareTypeOK'
    <2>1. CompareTypeOK
      BY DEF CompareInv
    <2>2. low' \in 0 .. Shorter + 1
      BY <1>3, <1>7
    <2> QED
      BY <1>1, <1>4, <1>6, <2>1, <2>2 DEF CompareTypeOK
  <1>9. PrefixRight'
    BY <1>1, <1>4 DEF CompareInv, PrefixRight, SameRun
  <1>10. BestRight'
    <2>1. low' # 0 /\ low' - 1 = m
      BY <1>7
    <2> QED
      BY <1>1, <1>6, <2>1 DEF BestRight, SameRun
  <1>11. SearchIsSound'
    <2>1. ASSUME NEW n \in 0 .. Shorter
          PROVE  (n < m + 1 => CommonRun(n)) /\ (n > high => ~CommonRun(n))
      <3>1. n < m + 1 => n \in 0 .. m
        BY <1>7
      <3>2. n < m + 1 => CommonRun(n)
        BY <1>2, <1>7, <3>1, ShorterRuns
      <3> QED
        BY <1>1, <3>2 DEF CompareInv, SearchIsSound
    <2>2. \A n \in 0 .. Shorter' : (n < low' => CommonRun(n)') /\ (n > high' => ~CommonRun(n)')
      BY <1>1, <1>4, <1>7, <2>1, RunsKept
    <2>3. best'.length = low' - 1 /\ SameRun(best'.qflex, best'.gem5, best'.length)
      BY <1>6, <1>7
    <2> QED
      BY <1>1, <2>2, <2>3 DEF SearchIsSound, SameRun
  <1>12. ComparisonExact'
    BY <1>1 DEF ComparisonExact
  <1>13. 0 <= high' /\ low' <= high' + 1
    BY <1>1, <1>3, <1>7
  <1> QED
    BY <1>1, <1>8, <1>9, <1>10, <1>11, <1>12, <1>13 DEF CompareInv

\* A length that no run has is above all that any run has.
LEMMA ProbeFails ==
  ASSUME CompareInv, Probe, ~(Middle = 0 \/ Candidates(Middle) # {})
  PROVE  CompareInv'
  <1>1. /\ phase = "search" /\ low <= high
        /\ high' = Middle - 1
        /\ UNCHANGED <<traces, phase, prefixLen, low, best>>
    BY DEF Probe
  <1>2. TracesTyped
    BY TypedTraces
  <1>3. /\ Middle \in low .. high /\ Middle \in 0 .. Shorter /\ Middle \in Nat /\ Middle # 0
        /\ low \in Nat /\ high \in Nat /\ high <= Shorter /\ Shorter \in Nat
    BY <1>1, MiddleBetween
  <1>4. Shorter' = Shorter
    BY <1>1, RunsKept
  <1> DEFINE m == Middle
  <1>5. ~CommonRun(m)
    <2> SUFFICES ASSUME CommonRun(m)
                 PROVE  FALSE
      OBVIOUS
    <2>1. PICK i \in 0 .. Len(traces.qflex) - m, j \in 0 .. Len(traces.gem5) - m : SameRun(i, j, m)
      BY DEF CommonRun
    <2> HIDE DEF m
    <2>2. m \in Nat
      BY <1>3 DEF m
    <2>3. Candidates(m) = {ij \in (0 .. Len(traces.qflex) - m) \X (0 .. Len(traces.gem5) - m) :
                              SameRun(ij[1], ij[2], m)}
      BY <1>2, <2>2, CandidatesAreRuns
    <2>4. <<i, j>> \in Candidates(m)
      BY <2>1, <2>3
    <2> QED
      BY <2>4 DEF m
  <1> HIDE DEF m
  <1>6. m \in low .. high /\ m \in Nat /\ m # 0 /\ high' = m - 1
    BY <1>1, <1>3 DEF m
  <1>7. CompareTypeOK'
    BY <1>1, <1>3, <1>4, <1>6 DEF CompareInv, CompareTypeOK
  <1>8. PrefixRight' /\ BestRight'
    BY <1>1, <1>4 DEF CompareInv, PrefixRight, BestRight, SameRun
  <1>9. SearchIsSound'
    <2>1. ASSUME NEW n \in 0 .. Shorter
          PROVE  (n < low => CommonRun(n)) /\ (n > m - 1 => ~CommonRun(n))
      <3>1. n > m - 1 => m \in 0 .. n /\ n \in Nat
        BY <1>3, <1>6
      <3>2. n > m - 1 => ~CommonRun(n)
        BY <1>2, <1>5, <3>1, ShorterRuns
      <3> QED
        BY <1>1, <3>2 DEF CompareInv, SearchIsSound
    <2>2. \A n \in 0 .. Shorter' : (n < low' => CommonRun(n)') /\ (n > high' => ~CommonRun(n)')
      BY <1>1, <1>4, <1>6, <2>1, RunsKept
    <2>3. (low > 0 => best.length = low - 1) /\ SameRun(best.qflex, best.gem5, best.length)
      BY <1>1 DEF CompareInv, SearchIsSound
    <2> QED
      BY <1>1, <2>2, <2>3 DEF SearchIsSound, SameRun
  <1>10. ComparisonExact'
    BY <1>1 DEF ComparisonExact
  <1>11. 0 <= high' /\ low' <= high' + 1
    BY <1>1, <1>3, <1>6
  <1> QED
    BY <1>1, <1>7, <1>8, <1>9, <1>10, <1>11 DEF CompareInv

\* No length is left in question: the best run is the longest.
LEMMA FoundStep ==
  ASSUME CompareInv, Found
  PROVE  CompareInv'
  <1>1. /\ phase = "search" /\ low > high /\ phase' = "done"
        /\ UNCHANGED <<traces, prefixLen, low, high, best>>
    BY DEF Found
  <1>2. TracesTyped
    BY TypedTraces
  <1>3. Shorter \in Nat /\ Shorter' = Shorter
    BY <1>1, <1>2, RunsKept, TraceLengths
  <1>4. high \in Nat /\ low = high + 1 /\ best.length = high
    BY <1>1, <1>3 DEF CompareInv, CompareTypeOK, BestRight
  <1>5. CompareTypeOK' /\ PrefixRight' /\ BestRight'
    BY <1>1, <1>3 DEF CompareInv, CompareTypeOK, PrefixRight, BestRight, SameRun
  <1>6. SearchIsSound'
    BY <1>1 DEF SearchIsSound
  <1>7. ComparisonExact'
    <2>1. \A n \in 0 .. Shorter : CommonRun(n) <=> n <= best.length
      BY <1>1, <1>3, <1>4 DEF CompareInv, SearchIsSound
    <2>2. prefixLen \in 0 .. Shorter /\ SameRun(0, 0, prefixLen)
      BY <1>1 DEF CompareInv, CompareTypeOK, PrefixRight
    <2>3. CommonRun(prefixLen)
      <3>1. /\ Len(traces.qflex) \in Nat /\ Len(traces.gem5) \in Nat
            /\ Shorter <= Len(traces.qflex) /\ Shorter <= Len(traces.gem5)
        BY <1>2, TraceLengths
      <3>2. 0 \in 0 .. Len(traces.qflex) - prefixLen /\ 0 \in 0 .. Len(traces.gem5) - prefixLen
        BY <1>3, <2>2, <3>1
      <3> QED
        BY <2>2, <3>2 DEF CommonRun
    <2>4. prefixLen <= best.length
      BY <2>1, <2>2, <2>3
    <2>5. \A n \in 0 .. Shorter' : CommonRun(n)' <=> n <= best'.length
      BY <1>1, <1>3, <2>1, RunsKept
    <2> QED
      BY <1>1, <1>3, <2>2, <2>4, <2>5 DEF CompareInv, PrefixRight, BestRight, ComparisonExact,
         SameRun
  <1> QED
    BY <1>1, <1>5, <1>6, <1>7 DEF CompareInv

------------------------------------------------------------------------------
(* The theorems.                                                            *)

\* The inductive invariant of compare_branch_traces, for any traces, multiplier and
\* modulus.
THEOREM CompareInvariant == CompareSpec => []CompareInv
  <1>1. CompareInit => CompareInv
    BY InitCompareInv
  <1>2. CompareInv /\ [CompareNext]_compareVars => CompareInv'
    <2> SUFFICES ASSUME CompareInv, [CompareNext]_compareVars
                 PROVE  CompareInv'
      OBVIOUS
    <2>1. CASE CommonPrefix
      BY <2>1, CommonPrefixStep
    <2>2. CASE Probe
      BY <2>2, ProbeFinds, ProbeFails
    <2>3. CASE Found
      BY <2>3, FoundStep
    <2>4. CASE UNCHANGED compareVars
      <3>1. UNCHANGED <<traces, phase, prefixLen, low, high, best>>
        BY <2>4 DEF compareVars
      <3>2. Shorter' = Shorter /\ \A n : CommonRun(n)' <=> CommonRun(n)
        BY <3>1, RunsKept
      <3>3. CompareTypeOK' /\ PrefixRight' /\ BestRight'
        BY <3>1, <3>2 DEF CompareInv, CompareTypeOK, PrefixRight, BestRight, SameRun
      <3>4. SearchIsSound' /\ ComparisonExact'
        BY <3>1, <3>2 DEF CompareInv, SearchIsSound, ComparisonExact, SameRun
      <3> QED
        BY <3>1, <3>3, <3>4 DEF CompareInv
    <2> QED
      BY <2>1, <2>2, <2>3, <2>4 DEF CompareNext
  <1> QED
    BY <1>1, <1>2, PTL DEF CompareSpec

\* Type correctness: what is reported lies within the traces.
THEOREM CompareTypes == CompareSpec => []CompareTypeOK
  <1>1. CompareInv => CompareTypeOK
    BY DEF CompareInv
  <1> QED
    BY <1>1, CompareInvariant, PTL

\* The binary search of longest_common_contiguous_run probes a hash table whose digests may
\* collide, and still never discards a length that has a common run nor keeps one
\* that has none.
THEOREM SearchSound == CompareSpec => []SearchIsSound
  <1>1. CompareInv => SearchIsSound
    BY DEF CompareInv
  <1> QED
    BY <1>1, CompareInvariant, PTL

\* The reported run is a longest common run and the earliest of its length in gem5's
\* trace, and the reported prefix ends at the first difference.
THEOREM ComparisonIsExact == CompareSpec => []ComparisonExact
  <1>1. CompareInv => ComparisonExact
    BY DEF CompareInv
  <1> QED
    BY <1>1, CompareInvariant, PTL

-------------------------------------------------------------------------------
(* The collector.                                                           *)

\* Places the except clause never comes back to.
Undisturbed == {"launch", "count", "poll", "clock", "await", "copy", "compare"}

\* Who is started and who has ended when the collector stands at pc.
Order ==
    /\ proc["gem5"] # "none" => proc["qflex"] = "ended"
    /\ now = "gem5" => proc["qflex"] = "ended"
    /\ now = "qflex" /\ ~handling => proc["gem5"] = "none"
    /\ pc = "launch" => proc[now] = "none"
    /\ pc \in {"count", "poll", "clock", "quit", "await", "stop"} => proc[now] # "none"
    /\ pc \in {"copy", "compare"} => proc[now] = "ended"
    /\ pc \in {"quit", "await"} => now = "qflex"
    /\ pc = "compare" => now = "gem5"
    /\ pc \in Undisturbed => ~handling

\* What has been counted is in the log, and what has been staged was counted.
Enough ==
    /\ pc \in {"quit", "await", "stop", "copy"} /\ ~handling => lines[now] >= Threshold
    /\ now = "gem5" /\ ~handling => staged["qflex"] >= Threshold
    /\ pc = "compare" => staged["gem5"] >= Threshold
    /\ outcome = "completed" => pc = "end" /\ \A r \in Run : staged[r] >= Threshold

\* Who may still run when the failure is recorded, and after the end.
Left ==
    /\ pc = "record" =>
           /\ handling /\ ~Alive("gem5")
           /\ Alive("qflex") => asked
    /\ LeftBehind

CollectorInv == TypeOK /\ Order /\ Enough /\ Left

LEMMA InitCollector == Init => CollectorInv
  <1> SUFFICES ASSUME Init PROVE CollectorInv
    OBVIOUS
  <1>1. TypeOK
    <2>1. 0 \in 0 .. MaxLines
      BY BranchAssumption
    <2>2. {asked, late, handling} \subseteq BOOLEAN
      BY DEF Init
    <2>3. /\ proc \in [Run -> {"none", "running", "ended"}]
          /\ lines \in [Run -> 0 .. MaxLines] /\ staged \in [Run -> 0 .. MaxLines]
          /\ signalled \in [Run -> BOOLEAN]
      BY <2>1 DEF Init
    <2> QED
      BY <2>1, <2>2, <2>3 DEF Init, TypeOK, Run
  <1>2. Order
    BY DEF Init, Order, Run
  <1>3. Enough /\ Left
    BY DEF Init, Enough, Left, LeftBehind
  <1> QED
    BY <1>1, <1>2, <1>3 DEF CollectorInv

------------------------------------------------------------------------------
(* Types.                                                                   *)

LEMMA RaiseTypes ==
  ASSUME TypeOK, Order, NEW why, Raise(why),
         why \in {"launch", "exited", "timeout", "unquit", "copy", "compare", "unkillable"}
  PROVE  /\ pc' \in {"quit", "record"} /\ now' \in Run /\ handling' = TRUE
         /\ stopping' = "no" /\ reason' = why
         /\ pc' = "quit" => now' = "qflex" /\ proc["qflex"] # "none"
         /\ pc' = "record" => now' = now /\ proc["qflex"] = "none" /\ proc["gem5"] = "none"
  BY DEF Raise, Handled, TypeOK, Order, Run

LEMMA NextTypes == TypeOK /\ Order /\ [Next]_vars => TypeOK'
  <1> SUFFICES ASSUME TypeOK, Order, [Next]_vars PROVE TypeOK'
    OBVIOUS
  <1> USE BranchAssumption DEF TypeOK
  <1>1. CASE Launch
    <2>1. CASE Raise("launch") /\ UNCHANGED <<proc, seen, late>>
      BY <1>1, <2>1, RaiseTypes DEF Launch
    <2>2. CASE ~(Raise("launch") /\ UNCHANGED <<proc, seen, late>>)
      <3>1. /\ proc' = [proc EXCEPT ![now] = "running"] /\ pc' = "count"
            /\ seen' = 0 /\ late' = FALSE
            /\ UNCHANGED <<now, stopping, handling, reason>>
            /\ UNCHANGED <<lines, signalled, asked, staged, outcome>>
        BY <1>1, <2>2 DEF Launch
      <3>2. 0 \in 0 .. MaxLines /\ proc' \in [Run -> {"none", "running", "ended"}]
        BY <3>1
      <3>3. {asked', late', handling'} \subseteq BOOLEAN
        BY <3>1
      <3> QED
        BY <3>1, <3>2, <3>3
    <2> QED
      BY <2>1, <2>2
  <1>2. CASE Count
    BY <1>2 DEF Count, Run
  <1>3. CASE Poll
    <2>1. CASE Raise("exited")
      BY <1>3, <2>1, RaiseTypes DEF Poll
    <2> QED
      BY <1>3, <2>1 DEF Poll
  <1>4. CASE Clock
    <2>1. CASE Raise("timeout")
      BY <1>4, <2>1, RaiseTypes DEF Clock
    <2> QED
      BY <1>4, <2>1 DEF Clock
  <1>5. CASE Quit
    BY <1>5 DEF Quit, OnToGem5, Run
  <1>6. CASE Await
    <2>1. CASE Raise("unquit")
      BY <1>6, <2>1, RaiseTypes DEF Await
    <2> QED
      BY <1>6, <2>1 DEF Await
  <1>7. CASE Stopped
    BY <1>7 DEF Stopped, OnToGem5, Run
  <1>8. CASE Escalate
    BY <1>8 DEF Escalate, Escalation, Run
  <1>9. CASE GiveUp
    <2>1. CASE Raise("unkillable")
      BY <1>9, <2>1, RaiseTypes DEF GiveUp
    <2> QED
      BY <1>9, <2>1 DEF GiveUp
  <1>10. CASE Copy
    <2>1. CASE Raise("copy")
      BY <1>10, <2>1, RaiseTypes DEF Copy
    <2> QED
      BY <1>10, <2>1 DEF Copy, Run
  <1>11. CASE Compare
    <2>1. CASE Raise("compare")
      BY <1>11, <2>1, RaiseTypes DEF Compare
    <2> QED
      BY <1>11, <2>1 DEF Compare
  <1>12. CASE Record
    BY <1>12 DEF Record
  <1>13. ASSUME NEW r \in Run, Trace(r)
         PROVE  TypeOK'
    BY <1>13 DEF Trace
  <1>14. ASSUME NEW r \in Run, Ends(r)
         PROVE  TypeOK'
    BY <1>14 DEF Ends
  <1>15. CASE Deadline
    BY <1>15 DEF Deadline
  <1>16. CASE Interrupt
    BY <1>16 DEF Interrupt
  <1>17. CASE UNCHANGED vars
    BY <1>17 DEF vars
  <1> QED
    BY <1>1, <1>2, <1>3, <1>4, <1>5, <1>6, <1>7, <1>8, <1>9, <1>10, <1>11, <1>12, <1>13,
       <1>14, <1>15, <1>16, <1>17 DEF Next, Collect

------------------------------------------------------------------------------
(* The order of the two runs.                                               *)

LEMMA NextOrder == TypeOK /\ Order /\ [Next]_vars => Order'
  <1> SUFFICES ASSUME TypeOK, Order, [Next]_vars PROVE Order'
    OBVIOUS
  <1> USE DEF Order
  <1>0. /\ proc \in [Run -> {"none", "running", "ended"}] /\ now \in Run
        /\ "qflex" \in Run /\ "gem5" \in Run
    BY DEF TypeOK, Run
  <1>1. ASSUME NEW why, Raise(why), UNCHANGED proc,
               why \in {"launch", "exited", "timeout", "unquit", "copy", "compare", "unkillable"}
        PROVE  Order'
    BY <1>1, RaiseTypes DEF Undisturbed
  <1>2. CASE Launch
    <2>1. CASE Raise("launch") /\ UNCHANGED proc
      BY <1>1, <2>1
    <2>2. CASE proc' = [proc EXCEPT ![now] = "running"] /\ pc' = "count"
               /\ UNCHANGED <<now, handling>>
      BY <1>0, <1>2, <2>2 DEF Launch, Undisturbed, Run
    <2> QED
      BY <1>2, <2>1, <2>2 DEF Launch
  <1>3. CASE Count
    BY <1>0, <1>3 DEF Count, Undisturbed, Run
  <1>4. CASE Poll
    BY <1>1, <1>4 DEF Poll, Undisturbed
  <1>5. CASE Clock
    BY <1>1, <1>5 DEF Clock, Undisturbed
  <1>6. CASE Quit
    BY <1>6 DEF Quit, OnToGem5, Undisturbed
  <1>7. CASE Await
    BY <1>0, <1>1, <1>7 DEF Await, Undisturbed, Alive
  <1>8. CASE Stopped
    BY <1>0, <1>8 DEF Stopped, OnToGem5, Undisturbed, Alive
  <1>9. CASE Escalate
    BY <1>9 DEF Escalate
  <1>10. CASE GiveUp
    BY <1>1, <1>10 DEF GiveUp, Undisturbed
  <1>11. CASE Copy
    <2>1. CASE Raise("copy")
      BY <1>1, <1>11, <2>1 DEF Copy
    <2>2. CASE ~Raise("copy") /\ now = "qflex"
      BY <1>11, <2>2 DEF Copy, Undisturbed
    <2>3. CASE ~Raise("copy") /\ now = "gem5"
      BY <1>11, <2>3 DEF Copy, Undisturbed
    <2> QED
      BY <1>0, <2>1, <2>2, <2>3 DEF Run
  <1>12. CASE Compare
    BY <1>1, <1>12 DEF Compare, Undisturbed
  <1>13. CASE Record
    BY <1>13 DEF Record, Undisturbed
  <1>14. ASSUME NEW r \in Run, Trace(r)
         PROVE  Order'
    BY <1>14 DEF Trace
  <1>15. ASSUME NEW r \in Run, Ends(r)
         PROVE  Order'
    <2>1. /\ proc' = [proc EXCEPT ![r] = "ended"] /\ proc[r] = "running"
          /\ UNCHANGED <<pc, now, handling>>
      BY <1>15 DEF Ends, Alive
    <2>2. \A q \in Run : proc'[q] # proc[q] => proc[q] = "running" /\ proc'[q] = "ended"
      BY <1>0, <1>15, <2>1
    <2> QED
      BY <1>0, <2>1, <2>2 DEF Run
  <1>16. CASE Deadline
    BY <1>16 DEF Deadline
  <1>17. CASE Interrupt
    BY <1>17 DEF Interrupt, Undisturbed
  <1>18. CASE UNCHANGED vars
    BY <1>18 DEF vars
  <1> QED
    BY <1>2, <1>3, <1>4, <1>5, <1>6, <1>7, <1>8, <1>9, <1>10, <1>11, <1>12, <1>13, <1>14,
       <1>15, <1>16, <1>17, <1>18 DEF Next, Collect

------------------------------------------------------------------------------
(* What is counted, and what is left.                                       *)

LEMMA NextEnough == CollectorInv /\ [Next]_vars => Enough'
  <1> SUFFICES ASSUME CollectorInv, [Next]_vars PROVE Enough'
    OBVIOUS
  <1> USE DEF CollectorInv, Enough
  <1>0. /\ lines \in [Run -> Nat] /\ staged \in [Run -> Nat] /\ now \in Run /\ Threshold \in Nat
        /\ "qflex" \in Run /\ "gem5" \in Run /\ (now = "qflex" \/ now = "gem5")
        /\ \A r \in Run : lines[r] \in Nat /\ staged[r] \in Nat
    BY BranchAssumption DEF TypeOK, Run
  <1>1. ASSUME NEW why, Raise(why), UNCHANGED <<lines, staged, outcome>>,
               outcome # "completed",
               why \in {"launch", "exited", "timeout", "unquit", "copy", "compare", "unkillable"}
        PROVE  Enough'
    BY <1>1, RaiseTypes
  <1>2. CASE Launch
    <2>1. CASE Raise("launch")
      BY <1>1, <1>2, <2>1 DEF Launch
    <2> QED
      BY <1>0, <1>2, <2>1 DEF Launch
  <1>3. CASE Count
    BY <1>0, <1>3 DEF Count, Order, Undisturbed
  <1>4. CASE Poll
    BY <1>1, <1>4 DEF Poll, Order, Undisturbed
  <1>5. CASE Clock
    BY <1>1, <1>5 DEF Clock, Order, Undisturbed
  <1>6. CASE Quit
    BY <1>6 DEF Quit, OnToGem5, Order
  <1>7. CASE Await
    BY <1>1, <1>7 DEF Await, Order, Undisturbed
  <1>8. CASE Stopped
    BY <1>8 DEF Stopped, OnToGem5
  <1>9. CASE Escalate
    BY <1>9 DEF Escalate
  <1>10. CASE GiveUp
    BY <1>1, <1>10 DEF GiveUp
  <1>11. CASE Copy
    <2>1. CASE Raise("copy") /\ UNCHANGED staged
      BY <1>1, <1>11, <2>1 DEF Copy
    <2>2. CASE staged' = [staged EXCEPT ![now] = lines[now]] /\ UNCHANGED handling
      <3>1. lines[now] >= Threshold /\ ~handling /\ outcome # "completed"
        BY <1>11 DEF Copy, Order, Undisturbed
      <3>2. staged'[now] >= Threshold
        BY <1>0, <2>2, <3>1
      <3>3. CASE now = "qflex" /\ pc' = "launch" /\ now' = "gem5"
        BY <1>11, <2>2, <3>1, <3>2, <3>3 DEF Copy
      <3>4. CASE now = "gem5" /\ pc' = "compare" /\ now' = "gem5"
        <4>1. staged'["qflex"] = staged["qflex"]
          BY <1>0, <2>2, <3>4
        <4> QED
          BY <1>11, <2>2, <3>1, <3>2, <3>4, <4>1 DEF Copy
      <3>5. CASE Raise("copy")
        BY <2>2, <3>1, <3>5, RaiseTypes
      <3> QED
        BY <1>0, <1>11, <3>3, <3>4, <3>5 DEF Copy
    <2> QED
      BY <1>11, <2>1, <2>2 DEF Copy
  <1>12. CASE Compare
    <2>1. CASE Raise("compare") /\ UNCHANGED outcome
      BY <1>1, <1>12, <2>1 DEF Compare
    <2>2. CASE pc' = "end" /\ outcome' = "completed" /\ UNCHANGED <<now, handling>>
      BY <1>12, <2>2 DEF Compare, Order, Undisturbed, Run
    <2> QED
      BY <1>12, <2>1, <2>2 DEF Compare
  <1>13. CASE Record
    BY <1>13 DEF Record
  <1>14. ASSUME NEW r \in Run, Trace(r)
         PROVE  Enough'
    <2>1. \A q \in Run : lines'[q] >= lines[q]
      BY <1>0, <1>14 DEF Trace
    <2>2. lines'[now] >= lines[now] /\ lines'[now] \in Nat
      BY <1>0, <1>14, <2>1 DEF Trace
    <2> QED
      BY <1>0, <1>14, <2>2 DEF Trace
  <1>15. ASSUME NEW r \in Run, Ends(r)
         PROVE  Enough'
    BY <1>15 DEF Ends
  <1>16. CASE Deadline
    BY <1>16 DEF Deadline
  <1>17. CASE Interrupt
    BY <1>17 DEF Interrupt
  <1>18. CASE UNCHANGED vars
    BY <1>18 DEF vars
  <1> QED
    BY <1>2, <1>3, <1>4, <1>5, <1>6, <1>7, <1>8, <1>9, <1>10, <1>11, <1>12, <1>13, <1>14,
       <1>15, <1>16, <1>17, <1>18 DEF Next, Collect

LEMMA NextLeft == CollectorInv /\ [Next]_vars => Left'
  <1> SUFFICES ASSUME CollectorInv, [Next]_vars PROVE Left'
    OBVIOUS
  <1> USE DEF CollectorInv, Left, LeftBehind, Alive
  <1>0. /\ proc \in [Run -> {"none", "running", "ended"}] /\ now \in Run
        /\ Run = {"qflex", "gem5"}
    BY DEF TypeOK, Run
  <1>1. ASSUME NEW why, Raise(why), UNCHANGED proc,
               why \in {"launch", "exited", "timeout", "unquit", "copy", "compare", "unkillable"}
        PROVE  Left'
    BY <1>1, RaiseTypes
  <1>2. CASE Launch
    BY <1>1, <1>2 DEF Launch
  <1>3. CASE Count
    BY <1>3 DEF Count
  <1>4. CASE Poll
    BY <1>1, <1>4 DEF Poll
  <1>5. CASE Clock
    BY <1>1, <1>5 DEF Clock
  <1>6. CASE Quit
    BY <1>6 DEF Quit, OnToGem5
  <1>7. CASE Await
    BY <1>1, <1>7 DEF Await
  <1>8. CASE Stopped
    BY <1>0, <1>8 DEF Stopped, OnToGem5, Order
  <1>9. CASE Escalate
    BY <1>9 DEF Escalate
  <1>10. CASE GiveUp
    BY <1>1, <1>10 DEF GiveUp
  <1>11. CASE Copy
    BY <1>1, <1>11 DEF Copy
  <1>12. CASE Compare
    <2>1. CASE Raise("compare")
      BY <1>1, <1>12, <2>1 DEF Compare
    <2>2. proc["gem5"] = "ended" /\ proc["qflex"] = "ended"
      BY <1>12 DEF Compare, Order
    <2> QED
      BY <1>0, <1>12, <2>1, <2>2 DEF Compare
  <1>13. CASE Record
    BY <1>0, <1>13 DEF Record
  <1>14. ASSUME NEW r \in Run, Trace(r)
         PROVE  Left'
    BY <1>14 DEF Trace
  <1>15. ASSUME NEW r \in Run, Ends(r)
         PROVE  Left'
    <2>1. \A q \in Run : proc'[q] = "running" => proc[q] = "running"
      BY <1>0, <1>15 DEF Ends
    <2> QED
      BY <1>0, <1>15, <2>1 DEF Ends
  <1>16. CASE Deadline
    BY <1>16 DEF Deadline
  <1>17. CASE Interrupt
    BY <1>17 DEF Interrupt
  <1>18. CASE UNCHANGED vars
    BY <1>18 DEF vars
  <1> QED
    BY <1>2, <1>3, <1>4, <1>5, <1>6, <1>7, <1>8, <1>9, <1>10, <1>11, <1>12, <1>13, <1>14,
       <1>15, <1>16, <1>17, <1>18 DEF Next, Collect

------------------------------------------------------------------------------

\* The inductive invariant: order of the runs, what is long enough, who is left.
THEOREM CollectorInvariant == Spec => []CollectorInv
<1>1. CollectorInv /\ [Next]_vars => CollectorInv'
  BY NextTypes, NextOrder, NextEnough, NextLeft DEF CollectorInv
<1> QED
  BY <1>1, InitCollector, PTL DEF Spec

\* Type correctness, for any threshold (collect_branch_traces.py:595-836).
THEOREM CollectorTypes == Spec => []TypeOK
  BY CollectorInvariant, PTL DEF CollectorInv

\* QFlex has ended before gem5 is started, on every path through the exception handler
\* (collect_branch_traces.py:696-714).
THEOREM RunsAreApart == Spec => []OneAtATime
<1>1. CollectorInv => OneAtATime
  BY DEF CollectorInv, Order, OneAtATime
<1> QED
  BY <1>1, CollectorInvariant, PTL

\* A completed comparison is about two logs of at least the threshold
\* (collect_branch_traces.py:679-758).
THEOREM ComparedLogsAreLongEnough == Spec => []ComparedIsEnough
<1>1. CollectorInv => ComparedIsEnough
  BY DEF CollectorInv, Enough, ComparedIsEnough
<1> QED
  BY <1>1, CollectorInvariant, PTL

\* Whatever fails and when, only a process that survived SIGKILL or a QEMU that had
\* accepted quit is left running (collect_branch_traces.py:217-263, 745-750).
THEOREM NothingElseIsLeft == Spec => []LeftBehind
<1>1. CollectorInv => LeftBehind
  BY DEF CollectorInv, Left
<1> QED
  BY <1>1, CollectorInvariant, PTL
===============================================================================
