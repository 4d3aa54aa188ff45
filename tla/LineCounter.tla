----------------------------- MODULE LineCounter -----------------------------
(***************************************************************************)
(* IncrementalLineCounter of the trace collectors: how many complete,       *)
(* non-blank lines a growing log has, reading only what was added since the *)
(* last look.  A log is a sequence of characters, each a piece of text or a *)
(* line end, because the collector may look in the middle of a line.        *)
(***************************************************************************)
EXTENDS Integers, Sequences, FiniteSets

Text == "t"
End == "n"

Fresh == [offset |-> 0, count |-> 0, partial |-> FALSE]

\* Ends of lines that have text.
Lines(s) == Cardinality({i \in DOMAIN s : s[i] = End /\ i > 1 /\ s[i - 1] = Text})

\* A plausible slip: the next look starts one character too late.
ReadOneBeyond(k, s) ==
    [offset |-> Len(s) + 1, count |-> k.count + Lines(SubSeq(s, k.offset + 1, Len(s))),
     partial |-> FALSE]

\* A plausible slip: the open line at the end of a chunk is forgotten.
ReadForgetting(k, s) ==
    [offset |-> Len(s), count |-> k.count + Lines(SubSeq(s, k.offset + 1, Len(s))),
     partial |-> FALSE]

\* A plausible slip: the open line is counted as if it had ended.
ReadOpenToo(k, s) ==
    [offset |-> Len(s),
     count |-> k.count + Cardinality({i \in k.offset + 1 .. Len(s) : s[i] = Text}),
     partial |-> FALSE]

\* count: only what was added since the last look, after the open line kept; a log
\* that has become shorter is read from its beginning.
Read(k, s) ==
    LET from == IF Len(s) < k.offset THEN Fresh ELSE k
        chunk == SubSeq(s, from.offset + 1, Len(s))
        text == IF from.partial /\ chunk # <<>> THEN <<Text>> \o chunk ELSE chunk
    IN  [offset |-> Len(s),
         count |-> from.count + Lines(text),
         partial |-> IF chunk = <<>> THEN from.partial ELSE text[Len(text)] = Text]
==============================================================================
