------------------------------- MODULE MCWorkers -------------------------------
(* Model-checking instances of WorkerReaper: the boxes without a reaper, and  *)
(* two reapers beside boxes that fail without notice.                         *)
EXTENDS WorkerReaper
=============================================================================
