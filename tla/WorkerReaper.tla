----------------------------- MODULE WorkerReaper -----------------------------
(***************************************************************************)
(* The reaper of stalled workers (concourse-worker-reaper), which a timer  *)
(* runs on every web node, composed with the workers of WorkerLifecycle.   *)
(*                                                                         *)
(* A run reads the live instances from EC2 first, then the stalled workers *)
(* from the ATC, and prunes those whose instance it did not read, one call *)
(* each.  The ATC refuses to prune a worker that runs.                     *)
(*                                                                         *)
(* Left out: fly's download and login, the ATC's own timeout for stalled   *)
(* workers (4 h), names that are neither an id nor an address (skipped).   *)
(***************************************************************************)
EXTENDS WorkerLifecycle

CONSTANTS
    Webs,               \* web nodes
    BootOutlastsReap    \* a box takes longer to boot than a reaper run takes

VARIABLES
    rpc,     \* where the run of each web node stands
    seen,    \* LIVE_INSTANCES
    todo     \* stalled workers it is going to prune

reaper == <<rpc, seen, todo>>
vars   == <<lvars, reaper>>

TypeOK ==
    /\ LifecycleTypeOK
    /\ rpc \in [Webs -> {"idle", "list", "prune"}]
    /\ seen \in [Webs -> SUBSET Instances]
    /\ todo \in [Webs -> SUBSET Names]
    /\ \A w \in Webs : rpc[w] = "prune" <=> todo[w] # {}

Init ==
    /\ LifecycleInit
    /\ rpc = [w \in Webs |-> "idle"]
    /\ seen = [w \in Webs |-> {}]
    /\ todo = [w \in Webs |-> {}]

-----------------------------------------------------------------------------

\* Only "pending" and "running" count as live.
LiveInstances == {i \in Instances : Live(i)}

ReadInstances(w) ==
    /\ rpc[w] = "idle"
    /\ seen' = [seen EXCEPT ![w] = LiveInstances]
    /\ rpc' = [rpc EXCEPT ![w] = "list"]
    /\ UNCHANGED <<lvars, todo>>

KnownById(S, n) == n \in S

\* An id-style name is looked up among the ids, an address among the addresses.
Known(S, n) == n \in S \/ \E i \in S : addr[i] = n

Stalled == {n \in Names : atc[n] = "stalled"}

ReadStalledAddresses(w) ==
    /\ rpc[w] = "list"
    /\ LET orphans == {n \in Stalled \cap Addrs : ~Known(seen[w], n)}
       IN  /\ todo' = [todo EXCEPT ![w] = orphans]
           /\ rpc' = [rpc EXCEPT ![w] = IF orphans = {} THEN "idle" ELSE "prune"]
    /\ seen' = [seen EXCEPT ![w] = IF rpc'[w] = "idle" THEN {} ELSE @]
    /\ UNCHANGED lvars

ReadStalled(w) ==
    /\ rpc[w] = "list"
    /\ LET orphans == {n \in Stalled : ~Known(seen[w], n)}
       IN  /\ todo' = [todo EXCEPT ![w] = orphans]
           /\ rpc' = [rpc EXCEPT ![w] = IF orphans = {} THEN "idle" ELSE "prune"]
    /\ seen' = [seen EXCEPT ![w] = IF rpc'[w] = "idle" THEN {} ELSE @]
    /\ UNCHANGED lvars

\* The loop goes on with the next name; seen is of no use after the last.
Handled(w, n) ==
    /\ rpc[w] = "prune" /\ n \in todo[w]
    /\ todo' = [todo EXCEPT ![w] = @ \ {n}]
    /\ rpc' = [rpc EXCEPT ![w] = IF todo'[w] = {} THEN "idle" ELSE "prune"]
    /\ seen' = [seen EXCEPT ![w] = IF rpc'[w] = "idle" THEN {} ELSE @]

\* fly prune-worker: what runs again is refused, what is gone is no error.
PruneWorker(w, n) ==
    /\ Handled(w, n)
    /\ atc' = [atc EXCEPT ![n] = IF @ = "running" THEN @ ELSE "none"]
    /\ UNCHANGED <<cloud, unhealthy, worker, drains>>

PruneFails(w, n) == Handled(w, n) /\ UNCHANGED lvars

\* EC2 or the ATC cannot be read (fail-closed), or the node goes away.
RunAborts(w) ==
    /\ rpc[w] # "idle"
    /\ rpc' = [rpc EXCEPT ![w] = "idle"]
    /\ seen' = [seen EXCEPT ![w] = {}]
    /\ todo' = [todo EXCEPT ![w] = {}]
    /\ UNCHANGED lvars

-----------------------------------------------------------------------------

ReaperNext ==
    \E w \in Webs :
        \/ ReadInstances(w) \/ ReadStalled(w) \/ RunAborts(w)
        \/ \E n \in Names : PruneWorker(w, n) \/ PruneFails(w, n)

\* A worker starts on a box that a run did not see only once the run is over.
NoBootDuringReap ==
    BootOutlastsReap =>
        \A i \in Instances, w \in Webs :
            conc[i] # "up" /\ conc'[i] = "up" /\ rpc[w] # "idle" => i \in seen[w]

Next ==
    \/ LifecycleNext /\ NoBootDuringReap /\ UNCHANGED reaper
    \/ ReaperNext

\* Timers fire, and calls that are made again and again succeed in the end.
ReaperFairness ==
    \A w \in Webs :
        /\ WF_vars(ReadInstances(w)) /\ SF_vars(ReadStalled(w))
        /\ \A n \in Names : SF_vars(PruneWorker(w, n))

Spec == Init /\ [][Next]_vars /\ LifecycleFairness /\ ReaperFairness

-----------------------------------------------------------------------------
(* Properties *)

\* Names that a live box has pinned.
InUse == [n \in Names |-> \E i \in LiveInstances : name[i] = n]

Registry == INSTANCE WorkerRegistry WITH entry <- atc, inUse <- InUse

(* Reapers and boxes together keep the registry's promise: a worker that runs *)
(* or is merely partitioned is never pruned, whatever the reaper read before  *)
(* and whatever another reaper does meanwhile ("so a worker that is merely    *)
(* partitioned ... is never pruned", reaper).  This rests on the timing that  *)
(* NoBootDuringReap assumes: a box that boots, or takes over an address,      *)
(* within one run of a reaper is not covered.                                 *)
ImplementsRegistry == Registry!RegistrySpec

(* A stalled worker whose box is gone is pruned in the end, whatever calls    *)
(* fail and however the reapers race, unless its address is in use again.     *)
OrphansPruned == \A n \in Names : 
    (n \in Stalled /\ ~Known(LiveInstances, n)) ~> (n \notin Stalled \/ Known(LiveInstances, n))
=============================================================================
