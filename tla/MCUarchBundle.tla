---------------------------- MODULE MCUarchBundle ----------------------------
(* One snapshot directory converted from small exports: which slices and     *)
(* cores get a file, and which exports the guardrail refuses, follow from    *)
(* the selection rules of UarchSelect.                                       *)
EXTENDS UarchBundle, TLC

P == INSTANCE BundlePlan
S == INSTANCE UarchSelect WITH Block <- 0 .. 3, NumCores <- 2, WordBits <- 64

CONSTANTS wide, narrow, unfit, barren

MCInput == {wide, narrow, unfit, barren}
MCProtocols == P!RubyProtocols
MCPlan == [p \in MCProtocols |-> P!StepsOf(p)]

Line(b, c, cache, w) ==
    [block |-> b, core |-> c, cache |-> cache, is_instruction |-> (cache = "i_cache"),
     writeable |-> w, modified |-> w]

Meta(shared) ==
    [present |-> TRUE, shared |-> shared, in_shared_cache |-> shared,
     bits |-> 0, words |-> [w \in S!WordIndex |-> {}]]

\* Two slices and both cores; one slice and one core; a block with an owner
\* and a copy in an I-cache; and no LLC line at all.
Export ==
    (wide :> [llc |-> <<"clean", "absent", "clean", "modified">>,
              priv |-> {Line(1, 1, "d_cache", TRUE),
                        Line(0, 0, "d_cache", FALSE), Line(3, 1, "d_cache", FALSE),
                        Line(2, 0, "i_cache", FALSE), Line(2, 1, "i_cache", FALSE)},
              owned |-> {1}, slices |-> 2])
    @@
    (narrow :> [llc |-> <<"clean", "absent", "absent", "absent">>,
                priv |-> {Line(2, 0, "d_cache", TRUE), Line(1, 0, "d_cache", FALSE)},
                owned |-> {2}, slices |-> 1])
    @@
    (unfit :> [llc |-> <<"clean", "absent", "clean", "absent">>,
               priv |-> {Line(1, 0, "d_cache", TRUE), Line(1, 0, "i_cache", FALSE)},
               owned |-> {1}, slices |-> 2])
    @@
    (barren :> [llc |-> <<"absent", "absent", "absent", "absent">>,
                priv |-> {}, owned |-> {}, slices |-> 1])

Snap(i) ==
    [llc |-> [b \in 0 .. 3 |-> Export[i].llc[b + 1]],
     dir |-> [b \in 0 .. 3 |-> Meta(b \notin Export[i].owned)],
     priv |-> Export[i].priv]

SliceOf(i, b) == b % Export[i].slices

MCIndex == {0, 1}

PartsOf(i) ==
    LET s == Snap(i)
        backed == S!Staged(s)
        owner == S!OwnerBlocks(s, backed)
        clean == S!SingleCleanBlocks(s, backed)
        multi == S!MultiCleanBlocks(s, backed)
        instr == S!InstructionBlocks(s, backed)
        slices(B) == {SliceOf(i, b) : b \in B}
        dcores(B) == UNION {S!DCores(s, b) : b \in B}
    IN  [k \in Kinds |->
            CASE k = "llc_slice" -> slices(backed)
              [] k = "owner_slice" -> slices(owner)
              [] k = "clean_slice" -> slices(clean)
              [] k = "multi_slice" -> slices(multi \cap backed)
              [] k = "multi_nonllc_slice" -> slices(multi \ backed)
              [] k = "instr_slice" -> slices(instr \cap backed)
              [] k = "instr_nonllc_slice" -> slices(instr \ backed)
              [] k = "l1d" -> {l.core : l \in S!L1DLines(s)}
              [] k = "l1i" -> {l.core : l \in S!L1ILines(s)}
              [] k = "owner_l1d" -> dcores(owner)
              [] k = "clean_l1d" -> dcores(clean)
              [] k = "multi_l1d" -> dcores(multi)
              [] k = "instr_l1i" -> UNION {S!ICores(s, b) : b \in instr}
              [] k \in {"btb", "tage"} -> {e.core : e \in s.priv}
              [] OTHER -> {}]

MCParts == [i \in MCInput |-> PartsOf(i)]

MCRefused ==
    {i \in MCInput : \E b \in S!PrivateBlocks(Snap(i)) :
        S!Family(Snap(i), S!Staged(Snap(i)), b) \notin S!ImplementedFamilies}
MCRejected == {i \in MCInput : S!Staged(Snap(i)) = {}}

\* Two cores never overrun the L2 encoding; let one export stand for one that does.
MCTooWide == {unfit}
==============================================================================
