-------------------------- MODULE TraceCollectorProofs --------------------------
(***************************************************************************)
(* Proofs about TraceCollector, for any cores, thresholds and lengths of    *)
(* the logs: the incremental counter, what is staged, and how it ends.      *)
(***************************************************************************)
EXTENDS TraceCollector, FiniteSetTheorems, SequenceTheorems, TLAPS

Chars == {Text, End}

------------------------------------------------------------------------------
(* Counting lines.                                                          *)

\* The ends of lines that have text, after position m.
LineEnds(s, m) == {i \in m + 1 .. Len(s) : s[i] = End /\ i > 1 /\ s[i - 1] = Text}

LEMMA LinesAreEnds ==
  ASSUME NEW s \in Seq(Chars)
  PROVE  /\ Lines(s) = Cardinality(LineEnds(s, 0))
         /\ IsFiniteSet(LineEnds(s, 0))
         /\ Lines(s) \in 0 .. Len(s)
  <1>1. Len(s) \in Nat /\ DOMAIN s = 1 .. Len(s)
    BY LenProperties
  <1>2. {i \in DOMAIN s : s[i] = End /\ i > 1 /\ s[i - 1] = Text} = LineEnds(s, 0)
    BY <1>1 DEF LineEnds
  <1>3. LineEnds(s, 0) \in SUBSET (1 .. Len(s))
    BY <1>1 DEF LineEnds
  <1>4. IsFiniteSet(1 .. Len(s)) /\ Cardinality(1 .. Len(s)) = Len(s)
    <2> DEFINE l == Len(s)
    <2>1. l \in Nat /\ 1 \in Int /\ l \in Int
      BY <1>1
    <2> HIDE DEF l
    <2>2. IsFiniteSet(1 .. l) /\ Cardinality(1 .. l) = IF 1 > l THEN 0 ELSE l - 1 + 1
      BY <2>1, FS_Interval
    <2>3. Cardinality(1 .. l) = l
      BY <2>1, <2>2
    <2> QED
      BY <2>2, <2>3 DEF l
  <1>5. IsFiniteSet(LineEnds(s, 0)) /\ Cardinality(LineEnds(s, 0)) <= Len(s)
    BY <1>3, <1>4, FS_Subset
  <1>6. Cardinality(LineEnds(s, 0)) \in Nat
    BY <1>5, FS_CardinalityType
  <1>7. Lines(s) = Cardinality(LineEnds(s, 0))
    BY <1>2 DEF Lines
  <1> QED
    BY <1>1, <1>5, <1>6, <1>7

\* The two parts of a log that is cut after position m.
LEMMA CutLog ==
  ASSUME NEW s \in Seq(Chars), NEW m \in Nat, m <= Len(s)
  PROVE  /\ SubSeq(s, 1, m) \in Seq(Chars)
         /\ Len(SubSeq(s, 1, m)) = m
         /\ \A i \in 1 .. m : SubSeq(s, 1, m)[i] = s[i]
         /\ SubSeq(s, m + 1, Len(s)) \in Seq(Chars)
         /\ Len(SubSeq(s, m + 1, Len(s))) = Len(s) - m
         /\ \A i \in 1 .. Len(s) - m : SubSeq(s, m + 1, Len(s))[i] = s[m + i]
  <1>1. Len(s) \in Nat /\ \A i \in 1 .. Len(s) : s[i] \in Chars
    BY LenProperties, ElementOfSeq
  <1>2. /\ SubSeq(s, 1, m) \in Seq(Chars)
        /\ Len(SubSeq(s, 1, m)) = IF 1 <= m THEN m - 1 + 1 ELSE 0
        /\ \A i \in 1 .. m - 1 + 1 : SubSeq(s, 1, m)[i] = s[1 + i - 1]
    <2>1. \A i \in 1 .. m : s[i] \in Chars
      BY <1>1
    <2> QED
      BY <2>1, SubSeqProperties
  <1>3. /\ SubSeq(s, m + 1, Len(s)) \in Seq(Chars)
        /\ Len(SubSeq(s, m + 1, Len(s))) =
               IF m + 1 <= Len(s) THEN Len(s) - (m + 1) + 1 ELSE 0
        /\ \A i \in 1 .. Len(s) - (m + 1) + 1 : SubSeq(s, m + 1, Len(s))[i] = s[m + 1 + i - 1]
    <2>1. m + 1 \in Int /\ Len(s) \in Int /\ \A i \in m + 1 .. Len(s) : s[i] \in Chars
      BY <1>1
    <2> QED
      BY <2>1, SubSeqProperties
  <1>4. ASSUME NEW i \in 1 .. m
        PROVE  SubSeq(s, 1, m)[i] = s[i]
    <2>1. i \in 1 .. m - 1 + 1 /\ 1 + i - 1 = i
      OBVIOUS
    <2>2. SubSeq(s, 1, m)[i] = s[1 + i - 1]
      BY <1>2, <2>1
    <2> QED
      BY <2>1, <2>2
  <1>5. ASSUME NEW i \in 1 .. Len(s) - m
        PROVE  SubSeq(s, m + 1, Len(s))[i] = s[m + i]
    <2>1. i \in 1 .. Len(s) - (m + 1) + 1 /\ m + 1 + i - 1 = m + i
      BY <1>1
    <2>2. SubSeq(s, m + 1, Len(s))[i] = s[m + 1 + i - 1]
      BY <1>3, <2>1
    <2> QED
      BY <2>1, <2>2
  <1> QED
    BY <1>1, <1>2, <1>3, <1>4, <1>5

\* The lines of a log are those of a prefix and those that end after it.
LEMMA LinesSplit ==
  ASSUME NEW s \in Seq(Chars), NEW m \in 0 .. Len(s)
  PROVE  /\ IsFiniteSet(LineEnds(s, m))
         /\ Lines(s) = Lines(SubSeq(s, 1, m)) + Cardinality(LineEnds(s, m))
  <1> DEFINE p == SubSeq(s, 1, m)
  <1>1. Len(s) \in Nat /\ DOMAIN s = 1 .. Len(s) /\ \A i \in 1 .. Len(s) : s[i] \in Chars
    BY LenProperties, ElementOfSeq
  <1>2. m \in Nat /\ m <= Len(s)
    BY <1>1
  <1>3. p \in Seq(Chars) /\ Len(p) = m /\ \A i \in 1 .. m : p[i] = s[i]
    BY <1>2, CutLog
  <1>4. LineEnds(s, 0) = LineEnds(p, 0) \cup LineEnds(s, m)
    BY <1>1, <1>3 DEF LineEnds
  <1>5. LineEnds(p, 0) \cap LineEnds(s, m) = {}
    BY <1>1, <1>3 DEF LineEnds
  <1>6. IsFiniteSet(LineEnds(s, 0)) /\ IsFiniteSet(LineEnds(p, 0))
    BY <1>3, LinesAreEnds
  <1>7. IsFiniteSet(LineEnds(s, m))
    BY <1>4, <1>6, FS_Subset
  <1>8. Cardinality(LineEnds(s, 0)) =
            Cardinality(LineEnds(p, 0)) + Cardinality(LineEnds(s, m)) - Cardinality({})
    BY <1>4, <1>5, <1>6, <1>7, FS_Union
  <1>9. Cardinality(LineEnds(p, 0)) \in Nat /\ Cardinality(LineEnds(s, m)) \in Nat
    BY <1>6, <1>7, FS_CardinalityType
  <1>10. Lines(s) = Cardinality(LineEnds(s, 0))
    BY LinesAreEnds
  <1>11. Lines(p) = Cardinality(LineEnds(p, 0))
    BY <1>3, LinesAreEnds
  <1>12. Lines(s) = Lines(p) + Cardinality(LineEnds(s, m))
    <2> HIDE DEF p
    <2> QED
      BY <1>8, <1>9, <1>10, <1>11, FS_EmptySet
  <1> QED
    BY <1>7, <1>12

\* k is what the counter should be after it has read the first k.offset characters.
CountsPrefix(k, s) ==
    /\ k.offset \in 0 .. Len(s)
    /\ k.count = Lines(SubSeq(s, 1, k.offset))
    /\ k.partial = (k.offset > 0 /\ s[k.offset] = Text)

\* However the log was cut before, one more look leaves the counter right.
LEMMA ReadCounts ==
  ASSUME NEW s \in Seq(Chars), NEW k, CountsPrefix(k, s)
  PROVE  /\ CountsPrefix(Read(k, s), s)
         /\ Read(k, s).offset = Len(s)
         /\ Read(k, s).count = Lines(s) /\ Read(k, s).partial \in BOOLEAN
  <1> DEFINE m == k.offset
             n == Len(s)
             chunk == SubSeq(s, m + 1, n)
             text == IF k.partial /\ chunk # <<>> THEN <<Text>> \o chunk ELSE chunk
  <1>1. n \in Nat /\ DOMAIN s = 1 .. n /\ \A i \in 1 .. n : s[i] \in Chars
    BY LenProperties, ElementOfSeq
  <1>2. m \in 0 .. n
    BY DEF CountsPrefix
  <1>3. chunk \in Seq(Chars) /\ Len(chunk) = n - m /\ \A i \in 1 .. n - m : chunk[i] = s[m + i]
    <2>1. m \in Nat /\ m <= Len(s)
      BY <1>1, <1>2
    <2> QED
      BY <2>1, CutLog
  <1> HIDE DEF m, n, chunk
  <1>4. Lines(s) = k.count + Cardinality(LineEnds(s, m)) /\ IsFiniteSet(LineEnds(s, m))
    BY <1>2, LinesSplit DEF CountsPrefix, m, n
  <1>5. k.count \in Nat
    <2>1. m \in Nat /\ m <= Len(s)
      BY <1>1, <1>2 DEF n
    <2>2. SubSeq(s, 1, m) \in Seq(Chars) /\ Len(SubSeq(s, 1, m)) = m
      BY <2>1, CutLog
    <2>3. Lines(SubSeq(s, 1, m)) \in 0 .. m
      BY <2>2, LinesAreEnds
    <2> QED
      BY <2>1, <2>3 DEF CountsPrefix, m
  <1>6. k.partial = (m > 0 /\ s[m] = Text)
    BY DEF CountsPrefix, m
  <1>same. (IF Len(s) < k.offset THEN Fresh ELSE k) = k
    BY <1>1, <1>2 DEF m, n
  <1>7. CASE m = n
    <2>1. chunk = <<>> /\ text = chunk
      BY <1>1, <1>3, <1>7, EmptySeq
    <2>2. Lines(text) = 0
      <3>1. text \in Seq(Chars) /\ Len(text) = 0
        BY <1>3, <2>1, <1>1, <1>7
      <3> QED
        BY <3>1, LinesAreEnds
    <2>3. LineEnds(s, m) = {}
      BY <1>1, <1>7 DEF LineEnds, n
    <2>4. Lines(s) = k.count
      BY <1>4, <1>5, <2>3, FS_EmptySet
    <2>5. Read(k, s) = [offset |-> n, count |-> k.count + Lines(text), partial |-> k.partial]
      BY <1>same, <2>1 DEF Read, chunk, m, n
    <2>6. SubSeq(s, 1, n) = s
      BY SubSeqFull DEF n
    <2>7. k.count + Lines(text) = Lines(s)
      BY <1>5, <2>2, <2>4
    <2>8. n \in 0 .. n /\ k.partial = (n > 0 /\ s[n] = Text)
      BY <1>1, <1>6, <1>7
    <2>9. k.partial \in BOOLEAN
      BY <2>8
    <2>10. /\ Read(k, s).offset = n /\ Read(k, s).count = Lines(s)
           /\ Read(k, s).partial = k.partial
      BY <2>5, <2>7
    <2> HIDE DEF text
    <2> QED
      BY <2>6, <2>8, <2>9, <2>10 DEF CountsPrefix, n
  <1>8. CASE m # n
    <2> DEFINE d == IF k.partial THEN 1 ELSE 0
    <2>1. m < n /\ chunk # <<>>
      BY <1>1, <1>2, <1>3, <1>8, EmptySeq
    <2>2. /\ text \in Seq(Chars) /\ Len(text) = n - m + d
          /\ \A i \in 1 .. n - m : text[i + d] = s[m + i]
          /\ d = 1 => text[1] = Text
      <3>1. CASE k.partial
        <4>1. text = <<Text>> \o chunk /\ d = 1
          BY <2>1, <3>1
        <4>2. <<Text>> \in Seq(Chars) /\ Len(<<Text>>) = 1 /\ <<Text>>[1] = Text
          BY DEF Chars
        <4>3. /\ text \in Seq(Chars)
              /\ Len(text) = 1 + (n - m)
              /\ \A i \in 1 .. 1 + (n - m) :
                     text[i] = IF i <= 1 THEN <<Text>>[i] ELSE chunk[i - 1]
          BY <1>3, <4>1, <4>2, ConcatProperties
        <4> HIDE DEF text
        <4> QED
          BY <1>1, <1>2, <1>3, <4>1, <4>2, <4>3
      <3>2. CASE ~k.partial
        <4>1. text = chunk /\ d = 0
          BY <3>2
        <4> HIDE DEF text
        <4> QED
          BY <1>1, <1>2, <1>3, <4>1
      <3> QED
        BY <3>1, <3>2
    <2> DEFINE f == [i \in LineEnds(s, m) |-> i - m + d]
    <2>3. d \in {0, 1} /\ (d = 1 <=> k.partial)
      BY <1>6
    <2>4. Read(k, s) = [offset |-> n, count |-> k.count + Lines(text),
                        partial |-> (text[Len(text)] = Text)]
      <3>1. Read(k, s) = [offset |-> Len(s), count |-> k.count + Lines(text),
                          partial |-> IF chunk = <<>> THEN k.partial ELSE text[Len(text)] = Text]
        BY <1>same, Zenon DEF Read, chunk, m, n
      <3> HIDE DEF text
      <3> QED
        BY <2>1, <3>1 DEF n
    <2> HIDE DEF text, d
    <2>5. \A i \in LineEnds(s, m) : i - m + d \in LineEnds(text, 0)
      <3> SUFFICES ASSUME NEW i \in LineEnds(s, m)
                   PROVE  i - m + d \in LineEnds(text, 0)
        OBVIOUS
      <3>1. i \in m + 1 .. n /\ s[i] = End /\ i > 1 /\ s[i - 1] = Text
        BY DEF LineEnds, n
      <3>2. text[i - m + d] = End
        <4>1. i - m \in 1 .. n - m /\ m + (i - m) = i
          BY <1>1, <1>2, <3>1
        <4>2. text[(i - m) + d] = s[m + (i - m)]
          BY <2>2, <4>1
        <4> QED
          BY <3>1, <4>1, <4>2
      <3>3. CASE i = m + 1
        <4>1. m > 0 /\ s[m] = Text
          BY <1>1, <1>2, <3>1, <3>3
        <4>2. d = 1 /\ text[1] = Text
          BY <1>6, <2>2, <2>3, <4>1
        <4>3. i - m + d = 2 /\ 2 - 1 = 1 /\ 2 \in 0 + 1 .. Len(text)
          BY <1>1, <1>2, <2>1, <2>2, <3>3, <4>2
        <4> QED
          BY <3>2, <4>2, <4>3 DEF LineEnds
      <3>4. CASE i # m + 1
        <4>1. (i - 1) - m \in 1 .. n - m /\ m + ((i - 1) - m) = i - 1
          BY <1>1, <1>2, <3>1, <3>4
        <4>2. text[((i - 1) - m) + d] = Text
          BY <2>2, <3>1, <4>1
        <4>3. /\ (i - m + d) - 1 = ((i - 1) - m) + d
              /\ i - m + d > 1 /\ i - m + d \in 0 + 1 .. Len(text)
          BY <1>1, <1>2, <2>2, <2>3, <3>1, <3>4
        <4>4. text[(i - m + d) - 1] = Text
          BY <4>2, <4>3
        <4> QED
          BY <3>2, <4>3, <4>4 DEF LineEnds
      <3> QED
        BY <3>3, <3>4
    <2>6. \A j \in LineEnds(text, 0) : \E i \in LineEnds(s, m) : i - m + d = j
      <3> SUFFICES ASSUME NEW j \in LineEnds(text, 0)
                   PROVE  \E i \in LineEnds(s, m) : i - m + d = j
        OBVIOUS
      <3>1. j \in 1 .. n - m + d /\ j > 1 /\ text[j] = End /\ text[j - 1] = Text
        BY <2>2 DEF LineEnds
      <3>2. j - d \in 1 .. n - m
        BY <1>1, <1>2, <2>3, <3>1
      <3>3. text[(j - d) + d] = s[m + (j - d)] /\ (j - d) + d = j
        <4>1. text[(j - d) + d] = s[m + (j - d)]
          BY <2>2, <3>2
        <4> QED
          BY <1>1, <1>2, <2>3, <3>1, <4>1
      <3>4. s[m + (j - d)] = End
        BY <3>1, <3>3
      <3>5. m + (j - d) > 1 /\ s[m + (j - d) - 1] = Text
        <4>1. CASE j - d = 1
          <5>1. d = 1
            BY <1>1, <1>2, <2>3, <3>1, <4>1
          <5>2. m > 0 /\ s[m] = Text
            BY <1>6, <2>3, <5>1
          <5>3. m + (j - d) - 1 = m /\ m + (j - d) > 1
            BY <1>1, <1>2, <4>1, <5>2
          <5> QED
            BY <5>2, <5>3
        <4>2. CASE j - d # 1
          <5>1. (j - d) - 1 \in 1 .. n - m
            BY <1>1, <1>2, <3>2, <4>2
          <5>2. text[((j - d) - 1) + d] = s[m + ((j - d) - 1)]
            BY <2>2, <5>1
          <5>3. ((j - d) - 1) + d = j - 1 /\ m + ((j - d) - 1) = m + (j - d) - 1
                /\ m + (j - d) > 1
            BY <1>1, <1>2, <2>3, <3>1, <5>1
          <5> QED
            BY <3>1, <5>2, <5>3
        <4> QED
          BY <4>1, <4>2
      <3>6. m + (j - d) \in LineEnds(s, m)
        <4>1. m + (j - d) \in m + 1 .. Len(s)
          <5> DEFINE x == j - d
          <5>1. x \in 1 .. n - m /\ n \in Int /\ m \in Int
            BY <1>1, <1>2, <3>2
          <5> HIDE DEF x
          <5>2. m + x \in m + 1 .. n
            BY <5>1
          <5> QED
            BY <5>2 DEF x, n
        <4>2. m \in Int /\ j \in Int /\ d \in Int
          BY <1>1, <1>2, <2>3, <3>1
        <4>3. PICK y \in Int : y = m + (j - d)
          BY <4>2
        <4>4. y \in m + 1 .. Len(s) /\ y > 1
          BY <3>5, <4>1, <4>2, <4>3
        <4>5. s[y] = End
          BY <3>4, <4>2, <4>3
        <4>6. y - 1 = m + (j - d) - 1
          BY <4>2, <4>3
        <4>7. s[y - 1] = Text
          BY <3>5, <4>2, <4>6
        <4>8. y \in LineEnds(s, m)
          BY <4>4, <4>5, <4>7 DEF LineEnds
        <4> QED
          BY <4>2, <4>3, <4>8
      <3>7. ((m + (j - d)) - m) + d = j
        BY <1>1, <1>2, <2>3, <3>1
      <3> WITNESS m + (j - d) \in LineEnds(s, m)
      <3> QED
        BY <3>7
    <2>7. f \in Bijection(LineEnds(s, m), LineEnds(text, 0))
      <3>1. f \in [LineEnds(s, m) -> LineEnds(text, 0)]
        BY <2>5
      <3>2. \A a, b \in LineEnds(s, m) : f[a] = f[b] => a = b
        BY <1>1, <1>2, <2>3 DEF LineEnds
      <3>3. \A j \in LineEnds(text, 0) : \E i \in LineEnds(s, m) : f[i] = j
        BY <2>6
      <3> HIDE DEF f
      <3> QED
        BY <3>1, <3>2, <3>3 DEF Bijection, Injection, Surjection, IsInjective
    <2>8. Cardinality(LineEnds(text, 0)) = Cardinality(LineEnds(s, m))
      <3>1. ExistsBijection(LineEnds(s, m), LineEnds(text, 0))
        BY <2>7 DEF ExistsBijection
      <3> QED
        BY <1>4, <3>1, FS_Bijection
    <2>9. Lines(text) = Cardinality(LineEnds(s, m))
      BY <2>2, <2>8, LinesAreEnds
    <2>10. text[Len(text)] = s[n]
      <3>1. n - m \in 1 .. n - m /\ m + (n - m) = n
        BY <1>1, <1>2, <2>1
      <3>2. text[(n - m) + d] = s[m + (n - m)]
        BY <2>2, <3>1
      <3> QED
        BY <2>2, <3>1, <3>2
    <2>11. SubSeq(s, 1, n) = s /\ n > 0
      BY <1>1, <1>2, <2>1, SubSeqFull DEF n
    <2>12. k.count + Lines(text) = Lines(s) /\ n \in 0 .. n
      BY <1>1, <1>4, <2>9
    <2>13. /\ Read(k, s).offset = n /\ Read(k, s).count = Lines(s)
           /\ Read(k, s).partial = (s[n] = Text)
      BY <2>4, <2>10, <2>12
    <2> QED
      BY <2>11, <2>12, <2>13 DEF CountsPrefix, n
  <1> QED
    BY <1>7, <1>8
------------------------------------------------------------------------------
(* The invariant.                                                           *)

\* TypeOK without the bounds of the counters, which follow from CountersRight.
Typed ==
    /\ leader \in Process /\ gem5 \in Process /\ orphaned \in BOOLEAN
    /\ log \in [Cores -> Log]
    /\ tool \in {"atomic", "ruby"}
    /\ threshold \in Nat /\ threshold \in Thresholds \cup {0}
    /\ pc \in {"launch", "count", "poll", "clock", "wait", "stop", "copy",
               "handler", "end", "interrupted"}
    /\ unread \subseteq Cores
    /\ counter = [c \in Cores |-> counter[c]]
    /\ late \in BOOLEAN /\ signalled \in BOOLEAN
    /\ stopping \in {"no", "INT", "TERM", "KILL"}
    /\ staged \in [Cores -> Log]
    /\ outcome \in {"running", "completed", "failed"}
    /\ reason \in {"none", "launch", "exited", "timeout", "status", "copy", "unkillable"}

CountersRight ==
    \A c \in Cores :
        /\ counter[c] = [offset |-> counter[c].offset, count |-> counter[c].count,
                         partial |-> counter[c].partial]
        /\ CountsPrefix(counter[c], log[c])

\* gem5 outlives the process that was started only as an orphan, and no new one starts.
ProcessesRight ==
    /\ pc = "launch" => leader = "none"
    /\ leader = "none" => gem5 = "none" /\ pc \in {"launch", "handler", "end", "interrupted"}
    /\ leader \in {"ok", "failed"} /\ ~orphaned => gem5 # "running"

\* Which phases a threshold leads through, and what each has behind it.
PhaseRight ==
    /\ tool = "ruby" => threshold = 0
    /\ pc \in {"count", "poll", "clock", "stop"} => threshold > 0
    /\ pc = "wait" => threshold = 0 /\ unread = Cores
    /\ pc \notin {"handler", "end", "interrupted"} => reason = "none"
    /\ pc # "end" => outcome = "running"
    /\ pc = "handler" => reason # "none" /\ (tool = "ruby" => ~Alive)
    /\ pc = "copy" \/ outcome = "completed" => ~Alive

\* A threshold that was met is met by a counter, and then by what is staged.
EnoughRight ==
    threshold > 0 =>
        /\ pc \in {"stop", "copy"} => \E c \in Cores : counter[c].count >= threshold
        /\ pc = "copy" =>
               \E c \in Cores : /\ counter[c].count >= threshold
                                /\ c \notin unread => Lines(staged[c]) >= threshold

\* What has been copied is the log as it stays, unless gem5 goes on as an orphan.
StagedRight ==
    pc = "copy" /\ ~orphaned => \A c \in Cores \ unread : staged[c] = log[c]

CollectorInv ==
    /\ Typed
    /\ CountersRight
    /\ ProcessesRight
    /\ PhaseRight
    /\ EnoughRight
    /\ StagedRight
    /\ StagedIsFinal
    /\ CompletedIsEnough
    /\ Concluded
------------------------------------------------------------------------------
(* The steps.                                                               *)

LEMMA LogsAreSequences ==
  ASSUME NEW s \in Log
  PROVE  s \in Seq(Chars) /\ Len(s) \in 0 .. MaxLog
  <1>1. PICK n \in 0 .. MaxLog : s \in [1 .. n -> Chars]
    BY DEF Log, Chars
  <1>2. n \in Nat
    BY CollectorAssumption
  <1>3. s \in Seq(Chars) /\ Len(s) = n
    BY <1>1, <1>2, SeqDef
  <1> QED
    BY <1>1, <1>3

LEMMA InitCollectorInv == Init => CollectorInv
  <1> SUFFICES ASSUME Init
               PROVE  CollectorInv
    OBVIOUS
  <1>1. <<>> \in Log
    BY CollectorAssumption DEF Log
  <1>2. Typed
    <2>1. threshold \in Nat /\ threshold \in Thresholds \cup {0}
      <3>1. threshold \in Thresholds \/ threshold = 0
        BY Zenon DEF Init
      <3>2. 0 \in Nat /\ \A t \in Thresholds : t \in Nat
        BY CollectorAssumption
      <3>3. threshold \in Nat
        BY <3>1, <3>2
      <3> QED
        BY <3>1, <3>3
    <2>2. log \in [Cores -> Log] /\ staged \in [Cores -> Log]
      BY <1>1 DEF Init
    <2>3. counter = [c \in Cores |-> counter[c]]
      BY DEF Init
    <2> QED
      BY <2>1, <2>2, <2>3 DEF Init, Typed, Process
  <1>3. CountersRight
    <2> SUFFICES ASSUME NEW c \in Cores
                 PROVE  CountsPrefix(Fresh, <<>>)
      BY DEF Init, CountersRight, Fresh
    <2>1. SubSeq(<<>>, 1, 0) = <<>> /\ Len(<<>>) = 0 /\ <<>> \in Seq(Chars)
      BY SubSeqEmpty, EmptySeq
    <2>2. Lines(<<>>) = 0
      <3>1. Lines(<<>>) \in 0 .. 0
        BY <2>1, LinesAreEnds
      <3> QED
        BY <3>1
    <2>3. Fresh.offset = 0 /\ Fresh.count = 0 /\ Fresh.partial = FALSE
      BY DEF Fresh
    <2>4. Fresh.partial = (Fresh.offset > 0 /\ <<>>[Fresh.offset] = Text)
      <3>1. ~(Fresh.offset > 0)
        BY <2>3
      <3> QED
        BY <2>3, <3>1, Zenon
    <2>5. Fresh.offset \in 0 .. Len(<<>>)
      BY <2>1, <2>3
    <2>6. Fresh.count = Lines(SubSeq(<<>>, 1, Fresh.offset))
      BY <2>1, <2>2, <2>3, Zenon
    <2> QED
      BY <2>4, <2>5, <2>6, Zenon DEF CountsPrefix
  <1> QED
    BY <1>2, <1>3 DEF Init, CollectorInv, ProcessesRight, PhaseRight, EnoughRight, StagedRight,
       StagedIsFinal, CompletedIsEnough, Concluded

\* A step that leaves the logs and the counters alone.
LEMMA CountersKept ==
  ASSUME CountersRight, UNCHANGED <<log, counter>>
  PROVE  CountersRight'
  BY DEF CountersRight, CountsPrefix

LEMMA StartGem5Step ==
  ASSUME CollectorInv, StartGem5
  PROVE  CollectorInv'
  <1> USE DEF StartGem5, collector, Alive
  <1>1. Typed'
    BY DEF CollectorInv, Typed, Process
  <1>2. CountersRight'
    BY CountersKept DEF CollectorInv
  <1>3. ProcessesRight' /\ PhaseRight' /\ EnoughRight' /\ StagedRight'
    BY DEF CollectorInv, ProcessesRight, PhaseRight, EnoughRight, StagedRight
  <1>4. StagedIsFinal' /\ CompletedIsEnough' /\ Concluded'
    BY DEF CollectorInv, StagedIsFinal, CompletedIsEnough, Concluded
  <1> QED
    BY <1>1, <1>2, <1>3, <1>4 DEF CollectorInv

LEMMA TraceStep ==
  ASSUME CollectorInv, NEW c \in Cores, Trace(c)
  PROVE  CollectorInv'
  <1>1. PICK ch \in Chars : log' = [log EXCEPT ![c] = Append(@, ch)]
    BY DEF Trace, Chars
  <1>2. UNCHANGED <<processes, collector>> /\ gem5 = "running" /\ Len(log[c]) < MaxLog
    BY DEF Trace
  <1>3. log \in [Cores -> Log] /\ log[c] \in Seq(Chars) /\ Len(log[c]) \in Nat
    BY LogsAreSequences DEF CollectorInv, Typed
  <1>4. /\ Append(log[c], ch) \in Seq(Chars)
        /\ Len(Append(log[c], ch)) = Len(log[c]) + 1
        /\ \A i \in 1 .. Len(log[c]) : Append(log[c], ch)[i] = log[c][i]
    BY <1>3, AppendProperties
  <1>5. Append(log[c], ch) \in Log
    <2>1. Append(log[c], ch) \in [1 .. Len(log[c]) + 1 -> Chars]
      BY <1>4, LenProperties
    <2>2. Len(log[c]) + 1 \in 0 .. MaxLog
      BY <1>2, <1>3, CollectorAssumption
    <2> QED
      BY <2>1, <2>2 DEF Log, Chars
  <1>6. Typed'
    BY <1>1, <1>2, <1>3, <1>5 DEF CollectorInv, Typed, processes, collector
  <1>7. CountersRight'
    <2> SUFFICES ASSUME NEW d \in Cores
                 PROVE  CountsPrefix(counter[d], log'[d])
      BY <1>2 DEF CollectorInv, CountersRight, CountsPrefix, collector
    <2>1. CountsPrefix(counter[d], log[d])
      BY DEF CollectorInv, CountersRight
    <2>2. CASE d # c
      BY <1>1, <1>3, <2>1, <2>2
    <2>3. CASE d = c
      <3> DEFINE m == counter[c].offset
                 s == log[c]
                 t == Append(log[c], ch)
      <3>1. log'[d] = t
        BY <1>1, <1>3, <2>3
      <3>2. m \in 0 .. Len(s) /\ \A i \in 1 .. m : t[i] = s[i]
        BY <1>3, <1>4, <2>1, <2>3 DEF CountsPrefix
      <3>3. m \in Nat /\ m <= Len(s) /\ m <= Len(t) /\ m \in 0 .. Len(t)
        BY <1>3, <1>4, <3>2
      <3>4. SubSeq(s, 1, m) = SubSeq(t, 1, m)
        <4>1. /\ SubSeq(s, 1, m) \in Seq(Chars) /\ Len(SubSeq(s, 1, m)) = m
              /\ \A i \in 1 .. m : SubSeq(s, 1, m)[i] = s[i]
          BY <1>3, <3>3, CutLog
        <4>2. /\ SubSeq(t, 1, m) \in Seq(Chars) /\ Len(SubSeq(t, 1, m)) = m
              /\ \A i \in 1 .. m : SubSeq(t, 1, m)[i] = t[i]
          BY <1>4, <3>3, CutLog
        <4> HIDE DEF t, s, m
        <4> QED
          BY <3>2, <4>1, <4>2, SeqEqual
      <3>5. m > 0 => t[m] = s[m]
        BY <1>3, <3>2
      <3> QED
        BY <2>1, <2>3, <3>1, <3>3, <3>4, <3>5 DEF CountsPrefix
    <2> QED
      BY <2>2, <2>3
  <1>8. ProcessesRight' /\ PhaseRight' /\ EnoughRight' /\ CompletedIsEnough' /\ Concluded'
    BY <1>2 DEF CollectorInv, ProcessesRight, PhaseRight, EnoughRight, CompletedIsEnough,
       Concluded, Alive, processes, collector
  <1>9. leader = "running" \/ orphaned
    BY <1>2 DEF CollectorInv, ProcessesRight, Typed, Process
  <1>10. StagedRight' /\ StagedIsFinal'
    BY <1>2, <1>9 DEF CollectorInv, PhaseRight, StagedRight, StagedIsFinal, Alive, processes,
       collector
  <1> QED
    BY <1>6, <1>7, <1>8, <1>10 DEF CollectorInv

LEMMA Gem5EndsStep ==
  ASSUME CollectorInv, Gem5Ends
  PROVE  CollectorInv'
  <1> USE DEF Gem5Ends, collector, Alive
  <1>1. Typed'
    BY DEF CollectorInv, Typed, Process
  <1>2. CountersRight'
    BY CountersKept DEF CollectorInv
  <1>3. ProcessesRight' /\ PhaseRight' /\ EnoughRight' /\ StagedRight'
    BY DEF CollectorInv, ProcessesRight, PhaseRight, EnoughRight, StagedRight
  <1>4. StagedIsFinal' /\ CompletedIsEnough' /\ Concluded'
    BY DEF CollectorInv, StagedIsFinal, CompletedIsEnough, Concluded
  <1> QED
    BY <1>1, <1>2, <1>3, <1>4 DEF CollectorInv

LEMMA LeaderEndsStep ==
  ASSUME CollectorInv, LeaderEnds
  PROVE  CollectorInv'
  <1> USE DEF LeaderEnds, collector, Alive
  <1>1. Typed'
    BY DEF CollectorInv, Typed, Process
  <1>2. CountersRight'
    BY CountersKept DEF CollectorInv
  <1>3. ProcessesRight' /\ PhaseRight' /\ EnoughRight'
    BY DEF CollectorInv, ProcessesRight, PhaseRight, EnoughRight
  <1>4. StagedRight' /\ StagedIsFinal'
    BY DEF CollectorInv, PhaseRight, StagedRight, StagedIsFinal
  <1>5. CompletedIsEnough' /\ Concluded'
    BY DEF CollectorInv, CompletedIsEnough, Concluded
  <1> QED
    BY <1>1, <1>2, <1>3, <1>4, <1>5 DEF CollectorInv

LEMMA DeadlineStep ==
  ASSUME CollectorInv, Deadline
  PROVE  CollectorInv'
  <1> USE DEF Deadline, processes, Alive
  <1>1. Typed'
    BY DEF CollectorInv, Typed
  <1>2. CountersRight'
    BY CountersKept DEF CollectorInv
  <1>3. ProcessesRight' /\ PhaseRight' /\ EnoughRight' /\ StagedRight'
    BY DEF CollectorInv, ProcessesRight, PhaseRight, EnoughRight, StagedRight
  <1>4. StagedIsFinal' /\ CompletedIsEnough' /\ Concluded'
    BY DEF CollectorInv, StagedIsFinal, CompletedIsEnough, Concluded
  <1> QED
    BY <1>1, <1>2, <1>3, <1>4 DEF CollectorInv

LEMMA LaunchStep ==
  ASSUME CollectorInv, Launch
  PROVE  CollectorInv'
  <1> USE DEF Launch, Raise, Alive
  <1>1. Typed'
    <2>1. late' = FALSE \/ UNCHANGED late
      OBVIOUS
    <2>2. late' \in BOOLEAN
      BY <2>1 DEF CollectorInv, Typed
    <2>3. leader' \in Process /\ unread' \subseteq Cores
      BY DEF CollectorInv, Typed, Process
    <2>4. pc' \in {"count", "wait", "handler"} /\ (reason' = "launch" \/ UNCHANGED reason)
      OBVIOUS
    <2>5. UNCHANGED <<gem5, orphaned, log, tool, threshold, counter, stopping, signalled,
                      staged, outcome>>
      OBVIOUS
    <2> HIDE DEF Launch
    <2> QED
      BY <2>2, <2>3, <2>4, <2>5 DEF CollectorInv, Typed
  <1>2. CountersRight'
    BY CountersKept DEF CollectorInv
  <1>3. ProcessesRight'
    BY DEF CollectorInv, ProcessesRight, Typed
  <1>4. PhaseRight'
    BY DEF CollectorInv, ProcessesRight, PhaseRight, Typed
  <1>5. EnoughRight' /\ StagedRight'
    BY DEF EnoughRight, StagedRight
  <1>6. StagedIsFinal' /\ CompletedIsEnough' /\ Concluded'
    BY DEF CollectorInv, PhaseRight, StagedIsFinal, CompletedIsEnough, Concluded
  <1> QED
    BY <1>1, <1>2, <1>3, <1>4, <1>5, <1>6 DEF CollectorInv

LEMMA CountOneStep ==
  ASSUME CollectorInv, CountOne
  PROVE  CollectorInv'
  <1>1. PICK c \in unread : /\ counter' = [counter EXCEPT ![c] = Read(@, log[c])]
                            /\ unread' = unread \ {c}
    BY DEF CountOne
  <1>2. /\ pc = "count"
        /\ pc' = IF unread' # {} THEN "count"
                 ELSE IF \E d \in Cores : counter'[d].count >= threshold THEN "stop"
                 ELSE "poll"
        /\ UNCHANGED <<processes, log, tool, threshold, late, stopping, signalled, staged,
                       outcome, reason>>
    BY DEF CountOne
  <1>3. c \in Cores /\ DOMAIN counter = Cores /\ log[c] \in Seq(Chars)
    BY LogsAreSequences DEF CollectorInv, Typed
  <1>4. Typed'
    <2>1. counter' = [d \in Cores |-> counter'[d]]
      BY <1>1, <1>3
    <2>2. unread' \subseteq Cores
      BY <1>1 DEF CollectorInv, Typed
    <2>3. pc' \in {"count", "stop", "poll"}
      BY <1>2
    <2> QED
      BY <1>2, <2>1, <2>2, <2>3 DEF CollectorInv, Typed, processes
  <1>5. CountersRight'
    <2> SUFFICES ASSUME NEW d \in Cores
                 PROVE  /\ counter'[d] = [offset |-> counter'[d].offset,
                                          count |-> counter'[d].count,
                                          partial |-> counter'[d].partial]
                        /\ CountsPrefix(counter'[d], log[d])
      BY <1>2 DEF CountersRight, CountsPrefix
    <2>1. CASE d = c
      <3>1. counter'[d] = Read(counter[c], log[c])
        BY <1>1, <1>3, <2>1
      <3>2. CountsPrefix(counter[c], log[c])
        BY <1>3 DEF CollectorInv, CountersRight
      <3>3. CountsPrefix(Read(counter[c], log[c]), log[c])
        BY <1>3, <3>2, ReadCounts
      <3>4. Read(counter[c], log[c]) =
                [offset |-> Read(counter[c], log[c]).offset,
                 count |-> Read(counter[c], log[c]).count,
                 partial |-> Read(counter[c], log[c]).partial]
        BY DEF Read
      <3> QED
        BY <2>1, <3>1, <3>3, <3>4
    <2>2. CASE d # c
      <3>1. counter'[d] = counter[d]
        BY <1>1, <1>3, <2>2
      <3> QED
        BY <3>1 DEF CollectorInv, CountersRight
    <2> QED
      BY <2>1, <2>2
  <1>6. ProcessesRight' /\ PhaseRight'
    BY <1>2 DEF CollectorInv, ProcessesRight, PhaseRight, Alive, processes
  <1>7. EnoughRight' /\ StagedRight'
    BY <1>2 DEF EnoughRight, StagedRight
  <1>8. StagedIsFinal' /\ CompletedIsEnough' /\ Concluded'
    BY <1>2 DEF CollectorInv, PhaseRight, StagedIsFinal, CompletedIsEnough, Concluded, processes
  <1> QED
    BY <1>4, <1>5, <1>6, <1>7, <1>8 DEF CollectorInv

LEMMA PollStep ==
  ASSUME CollectorInv, Poll
  PROVE  CollectorInv'
  <1> USE DEF Poll, Raise, processes, Alive
  <1>1. Typed'
    BY DEF CollectorInv, Typed
  <1>2. CountersRight'
    BY CountersKept DEF CollectorInv
  <1>3. ProcessesRight'
    BY DEF CollectorInv, ProcessesRight
  <1>4. PhaseRight'
    BY DEF CollectorInv, PhaseRight, Typed
  <1>5. EnoughRight' /\ StagedRight'
    BY DEF CollectorInv, EnoughRight, StagedRight
  <1>6. StagedIsFinal' /\ CompletedIsEnough' /\ Concluded'
    BY DEF CollectorInv, StagedIsFinal, CompletedIsEnough, Concluded
  <1> QED
    BY <1>1, <1>2, <1>3, <1>4, <1>5, <1>6 DEF CollectorInv

LEMMA ClockStep ==
  ASSUME CollectorInv, Clock
  PROVE  CollectorInv'
  <1> USE DEF Clock, Raise, processes, Alive
  <1>1. Typed'
    BY DEF CollectorInv, Typed
  <1>2. CountersRight'
    BY CountersKept DEF CollectorInv
  <1>3. ProcessesRight'
    BY DEF CollectorInv, ProcessesRight
  <1>4. PhaseRight'
    BY DEF CollectorInv, PhaseRight, Typed
  <1>5. EnoughRight' /\ StagedRight'
    BY DEF CollectorInv, EnoughRight, StagedRight
  <1>6. StagedIsFinal' /\ CompletedIsEnough' /\ Concluded'
    BY DEF CollectorInv, StagedIsFinal, CompletedIsEnough, Concluded
  <1> QED
    BY <1>1, <1>2, <1>3, <1>4, <1>5, <1>6 DEF CollectorInv

LEMMA WaitStep ==
  ASSUME CollectorInv, Wait
  PROVE  CollectorInv'
  <1> USE DEF Wait, Raise, processes, Alive
  <1>1. Typed'
    BY DEF CollectorInv, Typed
  <1>2. CountersRight'
    BY CountersKept DEF CollectorInv
  <1>3. ProcessesRight'
    BY DEF CollectorInv, ProcessesRight
  <1>4. PhaseRight'
    BY DEF CollectorInv, PhaseRight, Typed
  <1>5. EnoughRight' /\ StagedRight'
    BY DEF CollectorInv, PhaseRight, EnoughRight, StagedRight
  <1>6. StagedIsFinal' /\ CompletedIsEnough' /\ Concluded'
    BY DEF CollectorInv, StagedIsFinal, CompletedIsEnough, Concluded
  <1> QED
    BY <1>1, <1>2, <1>3, <1>4, <1>5, <1>6 DEF CollectorInv

\* The group is gone: every log is still to be copied, or the failure is concluded.
LEMMA StoppedStep ==
  ASSUME CollectorInv, Stopped
  PROVE  CollectorInv'
  <1> USE DEF Stopped, Stopping, Return, processes, Alive
  <1>1. Typed'
    BY DEF CollectorInv, Typed
  <1>2. CountersRight'
    BY CountersKept DEF CollectorInv
  <1>3. ProcessesRight'
    BY DEF CollectorInv, ProcessesRight
  <1>4. PhaseRight'
    BY DEF CollectorInv, PhaseRight, Typed
  <1>5. EnoughRight' /\ StagedRight'
    BY DEF CollectorInv, EnoughRight, StagedRight, Typed
  <1>6. StagedIsFinal' /\ CompletedIsEnough'
    BY DEF CollectorInv, PhaseRight, StagedIsFinal, CompletedIsEnough
  <1>7. Concluded'
    BY DEF CollectorInv, PhaseRight, Concluded
  <1> QED
    BY <1>1, <1>2, <1>3, <1>4, <1>5, <1>6, <1>7 DEF CollectorInv

LEMMA EscalateStep ==
  ASSUME CollectorInv, Escalate
  PROVE  CollectorInv'
  <1> USE DEF Escalate, Stopping, processes, Alive
  <1>1. Typed'
    BY DEF CollectorInv, Typed, Escalation
  <1>2. CountersRight'
    BY CountersKept DEF CollectorInv
  <1>3. ProcessesRight' /\ PhaseRight' /\ EnoughRight' /\ StagedRight'
    BY DEF CollectorInv, ProcessesRight, PhaseRight, EnoughRight, StagedRight
  <1>4. StagedIsFinal' /\ CompletedIsEnough' /\ Concluded'
    BY DEF CollectorInv, StagedIsFinal, CompletedIsEnough, Concluded
  <1> QED
    BY <1>1, <1>2, <1>3, <1>4 DEF CollectorInv

LEMMA GiveUpStep ==
  ASSUME CollectorInv, GiveUp
  PROVE  CollectorInv'
  <1> USE DEF GiveUp, Stopping, processes, Alive
  <1>1. Typed'
    BY DEF CollectorInv, Typed
  <1>2. CountersRight'
    BY CountersKept DEF CollectorInv
  <1>3. ProcessesRight'
    BY DEF CollectorInv, ProcessesRight
  <1>4. PhaseRight'
    BY DEF CollectorInv, PhaseRight, Typed
  <1>5. EnoughRight' /\ StagedRight'
    BY DEF CollectorInv, EnoughRight, StagedRight
  <1>6. StagedIsFinal' /\ CompletedIsEnough' /\ Concluded'
    BY DEF CollectorInv, StagedIsFinal, CompletedIsEnough, Concluded
  <1> QED
    BY <1>1, <1>2, <1>3, <1>4, <1>5, <1>6 DEF CollectorInv

LEMMA ConcludeFailedStep ==
  ASSUME CollectorInv, ConcludeFailed
  PROVE  CollectorInv'
  <1> USE DEF ConcludeFailed, processes, Alive
  <1>1. Typed'
    BY DEF CollectorInv, Typed
  <1>2. CountersRight'
    BY CountersKept DEF CollectorInv
  <1>3. ProcessesRight' /\ PhaseRight' /\ EnoughRight' /\ StagedRight'
    BY DEF CollectorInv, ProcessesRight, PhaseRight, EnoughRight, StagedRight
  <1>4. StagedIsFinal' /\ CompletedIsEnough' /\ Concluded'
    BY DEF CollectorInv, PhaseRight, StagedIsFinal, CompletedIsEnough, Concluded
  <1> QED
    BY <1>1, <1>2, <1>3, <1>4 DEF CollectorInv

\* A counter never runs ahead of its log.
LEMMA CountersBehind ==
  ASSUME CollectorInv, NEW c \in Cores
  PROVE  /\ counter[c].offset \in 0 .. Len(log[c])
         /\ counter[c].count \in 0 .. counter[c].offset
         /\ counter[c].partial \in BOOLEAN
         /\ Lines(log[c]) \in Nat
         /\ Lines(log[c]) >= counter[c].count
  <1> DEFINE m == counter[c].offset
  <1>1. CountsPrefix(counter[c], log[c])
    BY DEF CollectorInv, CountersRight
  <1>2. log[c] \in Seq(Chars) /\ Len(log[c]) \in Nat
    BY LogsAreSequences, LenProperties DEF CollectorInv, Typed
  <1>3. m \in 0 .. Len(log[c]) /\ m \in Nat /\ m <= Len(log[c])
    BY <1>1, <1>2 DEF CountsPrefix
  <1>4. SubSeq(log[c], 1, m) \in Seq(Chars) /\ Len(SubSeq(log[c], 1, m)) = m
    BY <1>2, <1>3, CutLog
  <1>5. counter[c].count = Lines(SubSeq(log[c], 1, m))
    BY <1>1 DEF CountsPrefix
  <1>6. Lines(SubSeq(log[c], 1, m)) \in 0 .. m
    BY <1>4, LinesAreEnds
  <1>7. /\ IsFiniteSet(LineEnds(log[c], m))
        /\ Lines(log[c]) = Lines(SubSeq(log[c], 1, m)) + Cardinality(LineEnds(log[c], m))
    BY <1>2, <1>3, LinesSplit
  <1>8. Cardinality(LineEnds(log[c], m)) \in Nat
    BY <1>7, FS_CardinalityType
  <1>9. Lines(log[c]) \in Nat /\ Lines(log[c]) >= counter[c].count
    BY <1>3, <1>5, <1>6, <1>7, <1>8
  <1>10. counter[c].partial \in BOOLEAN
    BY <1>1 DEF CountsPrefix
  <1> QED
    BY <1>3, <1>5, <1>6, <1>9, <1>10

LEMMA CopyOneStep ==
  ASSUME CollectorInv, CopyOne
  PROVE  CollectorInv'
  <1>1. /\ pc = "copy" /\ unread # {}
        /\ UNCHANGED <<processes, log, tool, threshold, counter, late, stopping, signalled,
                       outcome>>
    BY DEF CopyOne
  <1>2. CountersRight'
    BY <1>1, CountersKept DEF CollectorInv
  <1>3. CASE \E c \in unread : /\ staged' = [staged EXCEPT ![c] = log[c]]
                               /\ unread' = unread \ {c}
                               /\ UNCHANGED <<pc, reason>>
    <2>1. PICK c \in unread : /\ staged' = [staged EXCEPT ![c] = log[c]]
                              /\ unread' = unread \ {c}
                              /\ UNCHANGED <<pc, reason>>
      BY <1>3
    <2>2. c \in Cores /\ staged \in [Cores -> Log] /\ log \in [Cores -> Log]
      BY DEF CollectorInv, Typed
    <2>3. /\ staged' \in [Cores -> Log] /\ staged'[c] = log[c]
          /\ \A d \in Cores \ {c} : staged'[d] = staged[d]
      BY <2>1, <2>2
    <2>4. Typed'
      BY <1>1, <2>1, <2>3 DEF CollectorInv, Typed, processes
    <2>5. ProcessesRight' /\ PhaseRight'
      BY <1>1, <2>1 DEF CollectorInv, ProcessesRight, PhaseRight, Alive, processes
    <2>6. EnoughRight'
      <3> SUFFICES ASSUME threshold > 0
                   PROVE  \E d \in Cores : /\ counter[d].count >= threshold
                                           /\ d \notin unread' => Lines(staged'[d]) >= threshold
        BY <1>1, <2>1 DEF EnoughRight
      <3>1. PICK d \in Cores : /\ counter[d].count >= threshold
                               /\ d \notin unread => Lines(staged[d]) >= threshold
        BY <1>1 DEF CollectorInv, EnoughRight
      <3>2. CASE d = c
        <4>1. Lines(log[c]) >= threshold
          <5>1. Lines(log[c]) \in Nat /\ Lines(log[c]) >= counter[c].count
            BY <2>2, CountersBehind
          <5>2. counter[c].count \in Nat
            <6>1. counter[c].offset \in Nat /\ counter[c].count \in 0 .. counter[c].offset
              <7>1. Len(log[c]) \in Nat
                BY <2>2, LogsAreSequences, LenProperties
              <7> QED
                BY <2>2, <7>1, CountersBehind
            <6> QED
              BY <6>1
          <5>3. threshold \in Nat
            BY DEF CollectorInv, Typed
          <5> QED
            BY <3>1, <3>2, <5>1, <5>2, <5>3
        <4> QED
          BY <2>3, <3>1, <3>2, <4>1
      <3>3. CASE d # c
        <4>1. d \notin unread' => d \notin unread
          BY <2>1, <3>3
        <4>2. staged'[d] = staged[d]
          BY <2>3, <3>3
        <4> QED
          BY <3>1, <4>1, <4>2
      <3> QED
        BY <3>2, <3>3
    <2>7. StagedRight'
      <3> SUFFICES ASSUME ~orphaned, NEW d \in Cores \ unread'
                   PROVE  staged'[d] = log[d]
        BY <1>1, <2>1 DEF StagedRight, processes
      <3>1. d # c => d \notin unread
        BY <2>1
      <3> QED
        BY <1>1, <2>3, <3>1 DEF CollectorInv, StagedRight
    <2>8. StagedIsFinal' /\ CompletedIsEnough' /\ Concluded'
      BY <1>1, <2>1 DEF CollectorInv, PhaseRight, StagedIsFinal, CompletedIsEnough, Concluded,
         processes
    <2> QED
      BY <1>2, <2>4, <2>5, <2>6, <2>7, <2>8 DEF CollectorInv
  <1>4. CASE /\ pc' = IF tool = "ruby" THEN "end" ELSE "handler"
             /\ reason' = "copy"
             /\ UNCHANGED <<staged, unread>>
    <2>1. Typed'
      BY <1>1, <1>4 DEF CollectorInv, Typed, processes
    <2>2. ProcessesRight'
      BY <1>1, <1>4 DEF CollectorInv, ProcessesRight, processes
    <2>3. PhaseRight'
      BY <1>1, <1>4 DEF CollectorInv, PhaseRight, Typed, Alive, processes
    <2>4. EnoughRight' /\ StagedRight'
      BY <1>1, <1>4 DEF EnoughRight, StagedRight
    <2>5. StagedIsFinal' /\ CompletedIsEnough'
      BY <1>1, <1>4 DEF CollectorInv, StagedIsFinal, CompletedIsEnough, processes
    <2>6. Concluded'
      BY <1>1, <1>4 DEF Concluded
    <2> QED
      BY <1>2, <2>1, <2>2, <2>3, <2>4, <2>5, <2>6 DEF CollectorInv
  <1> QED
    BY <1>3, <1>4 DEF CopyOne

\* Nothing is left to copy.
LEMMA ConcludeStep ==
  ASSUME CollectorInv, Conclude
  PROVE  CollectorInv'
  <1> USE DEF Conclude, processes, Alive
  <1>1. Typed'
    BY DEF CollectorInv, Typed
  <1>2. CountersRight'
    BY CountersKept DEF CollectorInv
  <1>3. ProcessesRight' /\ PhaseRight'
    BY DEF CollectorInv, ProcessesRight, PhaseRight
  <1>4. EnoughRight' /\ StagedRight'
    BY DEF EnoughRight, StagedRight
  <1>5. StagedIsFinal'
    <2> SUFFICES ASSUME ~orphaned
                 PROVE  staged = log
      BY DEF StagedIsFinal
    <2>1. staged \in [Cores -> Log] /\ log \in [Cores -> Log]
      BY DEF CollectorInv, Typed
    <2>2. \A c \in Cores : staged[c] = log[c]
      BY DEF CollectorInv, StagedRight
    <2> QED
      BY <2>1, <2>2
  <1>6. CompletedIsEnough'
    BY DEF CollectorInv, EnoughRight, CompletedIsEnough
  <1>7. Concluded'
    BY DEF CollectorInv, PhaseRight, Concluded
  <1> QED
    BY <1>1, <1>2, <1>3, <1>4, <1>5, <1>6, <1>7 DEF CollectorInv

LEMMA InterruptStep ==
  ASSUME CollectorInv, Interrupt
  PROVE  CollectorInv'
  <1> USE DEF Interrupt, processes, Alive
  <1>1. Typed'
    BY DEF CollectorInv, Typed
  <1>2. CountersRight'
    BY CountersKept DEF CollectorInv
  <1>3. ProcessesRight' /\ PhaseRight'
    BY DEF CollectorInv, ProcessesRight, PhaseRight
  <1>4. EnoughRight' /\ StagedRight'
    BY DEF EnoughRight, StagedRight
  <1>5. StagedIsFinal' /\ CompletedIsEnough' /\ Concluded'
    BY DEF CollectorInv, StagedIsFinal, CompletedIsEnough, Concluded
  <1> QED
    BY <1>1, <1>2, <1>3, <1>4, <1>5 DEF CollectorInv

LEMMA CollectorStutters ==
  ASSUME CollectorInv, UNCHANGED vars
  PROVE  CollectorInv'
  <1> USE DEF vars, processes, collector, Alive
  <1>1. Typed' /\ ProcessesRight'
    BY DEF CollectorInv, Typed, ProcessesRight
  <1>2. CountersRight'
    BY CountersKept DEF CollectorInv
  <1>3. PhaseRight' /\ EnoughRight' /\ StagedRight'
    BY DEF CollectorInv, PhaseRight, EnoughRight, StagedRight
  <1>4. StagedIsFinal' /\ CompletedIsEnough' /\ Concluded'
    BY DEF CollectorInv, StagedIsFinal, CompletedIsEnough, Concluded
  <1> QED
    BY <1>1, <1>2, <1>3, <1>4 DEF CollectorInv

------------------------------------------------------------------------------
(* The theorems.                                                            *)

\* Whatever the order in which the run writes and ends, the time-out passes and
\* the collector looks, signals, copies or fails, the invariant holds.
THEOREM CollectorInvariant == Spec => []CollectorInv
  <1>1. Init => CollectorInv
    BY InitCollectorInv
  <1>2. CollectorInv /\ [Next]_vars => CollectorInv'
    <2> SUFFICES ASSUME CollectorInv, [Next]_vars
                 PROVE  CollectorInv'
      OBVIOUS
    <2>1. CASE Collect
      BY <2>1, LaunchStep, CountOneStep, PollStep, ClockStep, WaitStep, StoppedStep,
         EscalateStep, GiveUpStep, ConcludeFailedStep, CopyOneStep, ConcludeStep DEF Collect
    <2>2. CASE Environment
      BY <2>2, StartGem5Step, TraceStep, Gem5EndsStep, LeaderEndsStep DEF Environment
    <2>3. CASE Deadline
      BY <2>3, DeadlineStep
    <2>4. CASE Interrupt
      BY <2>4, InterruptStep
    <2>5. CASE UNCHANGED vars
      BY <2>5, CollectorStutters
    <2> QED
      BY <2>1, <2>2, <2>3, <2>4, <2>5 DEF Next
  <1> QED
    BY <1>1, <1>2, PTL DEF Spec

\* Every variable keeps its type; no incremental counter passes the end of its
\* log, or counts more lines than it has read characters.
THEOREM CollectorTypes == Spec => []TypeOK
  <1>1. CollectorInv => TypeOK
    <2> SUFFICES ASSUME CollectorInv
                 PROVE  TypeOK
      OBVIOUS
    <2>1. counter \in [Cores -> Counter]
      <3>1. ASSUME NEW c \in Cores
            PROVE  counter[c] \in Counter
        <4>1. Len(log[c]) \in 0 .. MaxLog
          BY LogsAreSequences DEF CollectorInv, Typed
        <4>2. counter[c].offset \in 0 .. MaxLog /\ counter[c].count \in 0 .. MaxLog
          BY <4>1, CountersBehind, CollectorAssumption
        <4>3. counter[c].partial \in BOOLEAN
          BY CountersBehind
        <4>4. counter[c] = [offset |-> counter[c].offset, count |-> counter[c].count,
                            partial |-> counter[c].partial]
          BY DEF CollectorInv, CountersRight
        <4> QED
          BY <4>2, <4>3, <4>4 DEF Counter
      <3>2. counter = [c \in Cores |-> counter[c]]
        BY DEF CollectorInv, Typed
      <3> QED
        BY <3>1, <3>2
    <2> QED
      BY <2>1 DEF CollectorInv, Typed, TypeOK
  <1> QED
    BY <1>1, CollectorInvariant, PTL

\* However the polls of current_counts cut a log into chunks, in the middle of a
\* line or right after one, the incremental counter knows the number of lines in
\* what it has read.
THEOREM CountersAreExact == Spec => []CounterExact
  <1>1. CollectorInv => CounterExact
    BY DEF CollectorInv, CountersRight, CountsPrefix, CounterExact
  <1> QED
    BY <1>1, CollectorInvariant, PTL

\* A completed collection has copied every log after its last write, except from
\* a gem5 that outlived the process the collector started.
THEOREM StagedLogsAreFinal == Spec => []StagedIsFinal
  <1>1. CollectorInv => StagedIsFinal
    BY DEF CollectorInv
  <1> QED
    BY <1>1, CollectorInvariant, PTL

\* A threshold that ended the polling is met by a staged log when the manifest
\* says completed, although the counters were read while gem5 was writing.
THEOREM CompletedHasEnough == Spec => []CompletedIsEnough
  <1>1. CollectorInv => CompletedIsEnough
    BY DEF CollectorInv
  <1> QED
    BY <1>1, CollectorInvariant, PTL

\* When the collector returns, the process it started has ended and the manifest
\* tells the outcome, but for a process that SIGKILL did not end and a ruby
\* collection that failed at staging.
THEOREM ReturnsConcluded == Spec => []Concluded
  <1>1. CollectorInv => Concluded
    BY DEF CollectorInv
  <1> QED
    BY <1>1, CollectorInvariant, PTL
===============================================================================
