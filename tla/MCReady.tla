------------------------------- MODULE MCReady -------------------------------
(* ReadyToPromote for TLC.  No symmetry: the runs check liveness. *)
EXTENDS ReadyToPromote
=============================================================================
