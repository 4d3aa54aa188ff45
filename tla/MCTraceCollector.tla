--------------------------- MODULE MCTraceCollector ---------------------------
(* Two cores; a log of four characters has room for two lines. *)
EXTENDS TraceCollector

MCCores == {0, 1}
MCThresholds == {0, 2}
==============================================================================
