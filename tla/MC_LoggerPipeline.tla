-------------------------- MODULE MC_LoggerPipeline --------------------------
(* The logging pipeline with a reservoir of two records, remote config     *)
(* choosing a size of one or three, and up to three records per flush, so *)
(* that the reservoir fills and samples.                                   *)
EXTENDS LoggerPipeline

MCConfigSizes == {1, 3}

=============================================================================
