-------------------------- MODULE MCStatusEndpoint --------------------------
(***************************************************************************)
(* Small instances of the pipeline with its clients for TLC.               *)
(***************************************************************************)
EXTENDS StatusEndpoint, TLC

CONSTANTS w1, w2, j1, d1

OneDocument == [j \in Jobs |-> d1]
WorkerSymmetry == Permutations(Workers)
=============================================================================
