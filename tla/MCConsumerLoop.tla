--------------------------- MODULE MCConsumerLoop ---------------------------
(***************************************************************************)
(* Small instances of the consumer loop for TLC.                           *)
(***************************************************************************)
EXTENDS ConsumerLoop

CONSTANTS c1, c2, m1, m2, m3
=============================================================================
