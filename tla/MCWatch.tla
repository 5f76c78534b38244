------------------------------- MODULE MCWatch -------------------------------
(* CheckboxWatch for TLC.  No symmetry: the run checks liveness. *)
EXTENDS CheckboxWatch
=============================================================================
