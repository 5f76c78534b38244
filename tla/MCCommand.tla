------------------------------- MODULE MCCommand -------------------------------
(* Model-checking instance of ReleaseCommand. *)
EXTENDS ReleaseCommand
=============================================================================
