------------------------------ MODULE BundlePlan ------------------------------
(***************************************************************************)
(* The artifacts of one conversion, in the order in which                   *)
(* prepare_snapshot_gem5_uarch writes them.  A step writes either a single  *)
(* file or a group with one file per LLC slice or per core; before a group  *)
(* is written, files matching its glob are cleared if --overwrite is given. *)
(* The globs are pairwise disjoint, so a kind stands for its glob.          *)
(***************************************************************************)
EXTENDS Sequences, SequencesExt

MESI == "mesi_two_level"
MOESI == "moesi_cmp_directory"
RubyProtocols == {MESI, MOESI}

\* at: the subtree of the run's protocol, or the root shared by both.
Single(kind) == [kind |-> kind, at |-> "protocol", form |-> "single"]
Slices(kind) == [kind |-> kind, at |-> "protocol", form |-> "slice"]
PerCore(kind) == [kind |-> kind, at |-> "protocol", form |-> "core"]
AtRoot(s) == [s EXCEPT !.at = "root"]

MoesiOnly(s) == s.form = "slice" \/ s.kind = "report"

\* The report of the family guardrail is there before the guardrail speaks.
ReportFile == <<Single("report")>>

LlcFiles ==
    <<Single("llc"), Slices("llc_slice"), Single("l2_shared_json"), Single("l2_shared")>>

L1Candidates == <<Single("l1d_json"), Single("l1i_json")>>

OwnerFiles == <<Single("owner_json"), Single("owner"), Slices("owner_slice")>>

CleanFiles == <<Single("clean_json"), Single("clean"), Slices("clean_slice")>>

MultiFiles ==
    <<Single("multi_json"), Single("multi"), Slices("multi_slice"),
      Single("multi_nonllc"), Slices("multi_nonllc_slice")>>

InstructionFiles ==
    <<Single("instr_json"), Single("instr"), Slices("instr_slice"),
      Single("instr_nonllc"), Slices("instr_nonllc_slice")>>

PredictorCandidates == <<AtRoot(Single("btb_json")), AtRoot(Single("tage_json"))>>

L1Files ==
    <<PerCore("l1d"), PerCore("l1i"), PerCore("owner_l1d"), PerCore("clean_l1d"),
      PerCore("multi_l1d"), PerCore("instr_l1i")>>

PredictorFiles == <<AtRoot(PerCore("btb")), AtRoot(PerCore("tage"))>>

Conclusion == <<Single("accounting"), Single("manifest")>>

Steps ==
    ReportFile \o LlcFiles \o L1Candidates \o OwnerFiles \o CleanFiles \o MultiFiles
    \o InstructionFiles \o PredictorCandidates \o L1Files \o PredictorFiles \o Conclusion

StepsOf(protocol) ==
    IF protocol = MOESI THEN Steps ELSE SelectSeq(Steps, LAMBDA s : ~MoesiOnly(s))
===============================================================================
