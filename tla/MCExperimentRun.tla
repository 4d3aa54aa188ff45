---------------------------- MODULE MCExperimentRun ----------------------------
(***************************************************************************)
(* Two experiments in one output directory and one directory of sim_outs.   *)
(***************************************************************************)
EXTENDS ExperimentRun

CommandLine(window, ruby) ==
    [clean: BOOLEAN, style: {"copy", "stage"}, accept: {"exit", "file", "stat"},
     window: {window}, ruby: {ruby}]

\* Instructions, a cycle window, and three combinations run_gem5.sh refuses.
MCOptions ==
    CommandLine({"inst"}, "none")
    \cup CommandLine({"warmup", "measurement"}, "MESI_Two_Level")
    \cup {[clean |-> FALSE, style |-> "stage", accept |-> "file", window |-> w[1], ruby |-> w[2]] :
          w \in {<<{"measurement"}, "none">>, <<{"inst", "measurement"}, "MESI_Two_Level">>,
                 <<{"warmup"}, "MOESI_CMP_directory">>}}

Lists(qflex, qpoints) ==
    [r \in Repositories |-> CASE r = "qflex" -> qflex [] r = "QPoints" -> qpoints [] OTHER -> {}]

Source == <<"scripts", "tool">>
Submodule == <<"QPoints">>

\* Nothing changed, the package alone, a source as well, a source moved into the package.
MCWorkspaces ==
    {Lists({}, {}),
     Lists({{Submodule}}, {{Package}}),
     Lists({{Submodule}}, {{Append(Package, "log")}, {Source}}),
     Lists({{Submodule}}, {{Source, Package}})}

\* No --allow-dirty-path, or one for the directory of the source.
MCAllowances == {Lists({}, {}), Lists({}, {<<"scripts">>})}
================================================================================
