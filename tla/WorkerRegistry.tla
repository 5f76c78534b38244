---------------------------- MODULE WorkerRegistry ----------------------------
(***************************************************************************)
(* What the ATC's list of workers promises to builds and to whoever looks  *)
(* at it: a worker in use never disappears from the list without having    *)
(* retired, and never while it runs.  WorkerReaper implements it.          *)
(***************************************************************************)
CONSTANT Names

VARIABLES
    entry,   \* state of each listed worker
    inUse    \* whether a live box has the name

rvars == <<entry, inUse>>

RegistryInit ==
    /\ entry = [n \in Names |-> "none"]
    /\ inUse = [n \in Names |-> FALSE]

Move(n, from, to) ==
    /\ entry[n] \in from
    /\ entry' = [entry EXCEPT ![n] = to]
    /\ UNCHANGED inUse

Joins(n)  == Move(n, {"none", "stalled"}, "running")
Stalls(n) == Move(n, {"running"}, "stalled")
Leaves(n) == Move(n, {"running", "stalled"}, "retiring")
Left(n)   == Move(n, {"retiring"}, "none")
Pruned(n) == ~inUse[n] /\ Move(n, {"stalled", "retiring"}, "none")

BoxesChange ==
    /\ inUse' \in [Names -> BOOLEAN]
    /\ UNCHANGED entry

RegistryNext ==
    \/ \E n \in Names : Joins(n) \/ Stalls(n) \/ Leaves(n) \/ Left(n) \/ Pruned(n)
    \/ BoxesChange

RegistrySpec == RegistryInit /\ [][RegistryNext]_rvars
=============================================================================
