----------------------------- MODULE MCDatabase -----------------------------
(***************************************************************************)
(* Small instances of the database layer for TLC.                          *)
(***************************************************************************)
EXTENDS Database, TLC

CONSTANTS t1, t2, p1

TwoThreads == t1 :> p1 @@ t2 :> p1
OneThread == t1 :> p1
=============================================================================
