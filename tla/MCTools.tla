--------------------------------- MODULE MCTools ---------------------------------
(***************************************************************************)
(* The tools that share no state with each other, one at a time: the        *)
(* comparison of branch traces, the analysis of a data trace, the order of  *)
(* the LLC restore files, the creation of an architectural snapshot, and    *)
(* the TAGE branch predictor.  The tools that are not run rest in one of    *)
(* their initial states.                                                    *)
(***************************************************************************)
EXTENDS BranchCompare, LruReplay, RestoreOrder, CreateSnapshot, Tage

VARIABLE tool  \* compare, replay, order, snapshot or tage

\* Reads and writes in four lines of two sets, one across two lines, one of no bytes.
MCAccesses ==
    [kind: {"R", "W"}, addr: {0, 4, 8}, size: {1}]
    \cup {[kind |-> "R", addr |-> 1, size |-> 4], [kind |-> "W", addr |-> 2, size |-> 2],
          [kind |-> "R", addr |-> 4, size |-> 0]}

\* As many sets as the exported cache has, in one slice or in two.
MCGeometries ==
    {[slices |-> 1, sets |-> 2, ways |-> 2], [slices |-> 2, sets |-> 1, ways |-> 2]}

\* Three tables of four entries with histories of 5, 3 and 2 outcomes, and the
\* addresses 1 and 8: the tag of 8 is that of a cold entry while the history is all zero.
MCHistoryLength == <<5, 3, 2>>
MCPc == {[i \in 0 .. 3 |-> Bit(i = one)] : one \in {0, 3}}

CompareRests == traces = [qflex |-> <<>>, gem5 |-> <<>>]
OrderRests ==
    /\ source = [b \in {} |-> [age |-> 0, modified |-> FALSE]]
    /\ geometry = CHOOSE g \in Geometries : TRUE

ToolsInit ==
    /\ \/ tool = "compare" /\ OrderRests
       \/ tool \in {"replay", "snapshot", "tage"} /\ CompareRests /\ OrderRests
       \/ tool = "order" /\ CompareRests
    /\ CompareInit /\ ReplayInit /\ RestoreInit /\ SnapshotInit /\ Init

ToolsNext ==
    /\ UNCHANGED tool
    /\ \/ /\ tool = "compare" /\ CompareNext
          /\ UNCHANGED <<replayVars, restoreVars, snapshotVars, vars>>
       \/ /\ tool = "replay" /\ ReplayNext
          /\ UNCHANGED <<compareVars, restoreVars, snapshotVars, vars>>
       \/ /\ tool = "order" /\ RestoreNext
          /\ UNCHANGED <<compareVars, replayVars, snapshotVars, vars>>
       \/ /\ tool = "snapshot" /\ SnapshotNext
          /\ UNCHANGED <<compareVars, replayVars, restoreVars, vars>>
       \/ /\ tool = "tage" /\ Next
          /\ UNCHANGED <<compareVars, replayVars, restoreVars, snapshotVars>>

ToolsSpec ==
    ToolsInit /\ [][ToolsNext]_<<tool, compareVars, replayVars, restoreVars, snapshotVars, vars>>
===============================================================================
