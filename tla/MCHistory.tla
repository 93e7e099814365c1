----------------------------- MODULE MCHistory -----------------------------
(***************************************************************************)
(* The pipeline and its history rows, on the values of MCPipeline.         *)
(***************************************************************************)
EXTENDS MCPipeline, HistoryRows
=============================================================================
