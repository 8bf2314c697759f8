----------------------------- MODULE MCPipeline -----------------------------
(***************************************************************************)
(* Small instances of the pipeline for TLC.                                *)
(***************************************************************************)
EXTENDS Pipeline

CONSTANTS w1, w2, j1, d1

OneDocument == [j \in Jobs |-> d1]
=============================================================================
