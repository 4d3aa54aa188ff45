-------------------------- MODULE MCConvertSnapshot --------------------------
(* Snapshots of two blocks: one takes every combination of private lines     *)
(* that matters, the other one of a few standard shapes, so that acceptance  *)
(* depends on both.                                                          *)
EXTENDS ConvertSnapshot, TLC

CONSTANTS b1, b2

MCBlock == {b1, b2}

Line(b, c, cache, instr, w, m) ==
    [block |-> b, core |-> c, cache |-> cache, is_instruction |-> instr,
     writeable |-> w, modified |-> m]

\* What the D-cache and the I-cache of a core may hold.  Those of core 0 also come
\* with lines that carry the other cache's flag.
DChoices(b, c) == {{}} \cup {{Line(b, c, "d_cache", FALSE, w, m)} : w, m \in BOOLEAN}
IChoices(b, c) == {{}} \cup {{Line(b, c, "i_cache", TRUE, w, m)} : w, m \in BOOLEAN}
CodeInD(b) == {{Line(b, 0, "d_cache", TRUE, w, FALSE)} : w \in BOOLEAN}
DataInI(b) == {{Line(b, 0, "i_cache", FALSE, FALSE, FALSE)}}

Full(b) ==
    {d0 \cup d1 \cup i0 \cup i1 :
        d0 \in DChoices(b, 0) \cup CodeInD(b), d1 \in DChoices(b, 1),
        i0 \in IChoices(b, 0) \cup DataInI(b),
        i1 \in {{}, {Line(b, 1, "i_cache", TRUE, FALSE, FALSE)}}}

\* The bitmap of the caches that hold P, a word for each core.
Bitmap(P) ==
    [w \in WordIndex |->
        {bit \in 0 .. WordBits - 1 : \E e \in P : w * WordBits + bit = SlotOf(e)}]

\* Directory entries: none, or every flag with an exact or an empty bitmap.
DirKinds ==
    {[present |-> FALSE, shared |-> FALSE, in_shared_cache |-> FALSE, exact |-> FALSE]}
    \cup [present: {TRUE}, shared: BOOLEAN, in_shared_cache: BOOLEAN, exact: BOOLEAN]

Dir(k, P) ==
    [present |-> k.present, shared |-> k.shared, in_shared_cache |-> k.in_shared_cache,
     bits |-> 2 * NumCores, words |-> Bitmap(IF k.exact THEN P ELSE {})]

Meta(sh, P) ==
    [present |-> TRUE, shared |-> sh, in_shared_cache |-> sh,
     bits |-> 2 * NumCores, words |-> Bitmap(P)]

Owned == {Line(b2, 1, "d_cache", FALSE, TRUE, TRUE)}
Read == {Line(b2, 0, "d_cache", FALSE, FALSE, FALSE)}
Code == {Line(b2, 0, "i_cache", TRUE, FALSE, FALSE), Line(b2, 1, "i_cache", TRUE, FALSE, FALSE)}

\* <<LLC state, directory entry, private lines>> of the second block.
Partners ==
    {<<"clean", Meta(FALSE, {}), {}>>,
     <<"absent", Meta(FALSE, Owned), Owned>>,
     <<"modified", Meta(TRUE, Read), Read>>,
     <<"absent", Meta(FALSE, Code), Code>>}

Join(l, d, P, q) ==
    [llc |-> (b1 :> l) @@ (b2 :> q[1]),
     dir |-> (b1 :> d) @@ (b2 :> q[2]),
     priv |-> P \cup q[3]]

MCSources ==
    {Join(l, Dir(k, P), P, q) :
        l \in {"absent", "clean", "modified"}, k \in DirKinds, q \in Partners, P \in Full(b1)}

\* The second block alone: at most two private blocks.
PartnerSources ==
    {Join("clean", Meta(FALSE, {}), {}, q) : q \in Partners}

MCMmuExports == {[list |-> NumCores, files |-> {0}]}
==============================================================================
