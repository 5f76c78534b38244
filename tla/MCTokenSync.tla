----------------------------- MODULE MCTokenSync -----------------------------
(* TokenSync for TLC. *)
EXTENDS TokenSync, TLC
=============================================================================
