----------------------------- MODULE MCRecords -----------------------------
(* Instances of Records for TLC. *)
EXTENDS Records

CONSTANTS k1, k2, q1, q2
=============================================================================
