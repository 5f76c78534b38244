------------------------------ MODULE MCKubewatch ------------------------------
(* Model-checking instance of KubewatchHandler. *)
EXTENDS KubewatchHandler
=============================================================================
