------------------------------ MODULE MCRelease ------------------------------
(* ReleasePipeline for TLC.  No symmetry: the runs check temporal properties. *)
EXTENDS ReleasePipeline
=============================================================================
