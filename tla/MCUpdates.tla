----------------------------- MODULE MCUpdates -----------------------------
(* Small instances of Updates for TLC. *)
EXTENDS Updates

CONSTANTS r1, r2, v1, v2
=============================================================================
