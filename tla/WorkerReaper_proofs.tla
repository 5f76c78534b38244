-------------------------- MODULE WorkerReaper_proofs --------------------------
(***************************************************************************)
(* Proofs about the workers and their reapers: type correctness, one name  *)
(* for each box, and that the reapers implement the registry's promise.    *)
(***************************************************************************)
EXTENDS WorkerReaper, TLAPS

\* The name of a box is its id or its address, once it is pinned.
Pinned == \A i \in Instances : name[i] \in {i, addr[i], NoName}

\* A box registers under the name it has pinned.
RegisteredPinned == \A i \in Instances : registered[i] \subseteq {name[i]}

\* Nothing is pinned and nothing runs before the box is launched.
Unlaunched == \A i \in Instances : ec2[i] = "none" => name[i] = NoName /\ conc[i] = "down"

\* A run has seen every live box that has pinned its name.
SeenAll ==
    BootOutlastsReap =>
        \A w \in Webs : rpc[w] # "idle" =>
            \A i \in Instances : Live(i) /\ name[i] # NoName => i \in seen[w]

\* What a run is going to prune is no box it has seen.
TodoUnknown == \A w \in Webs : \A n \in todo[w] : ~Known(seen[w], n)

IInv == TypeOK /\ Pinned /\ RegisteredPinned /\ Unlaunched /\ SeenAll /\ TodoUnknown

(* Nothing runs and nothing is pinned at first.                               *)
LEMMA Initially == Init => IInv
BY NamesAssumption DEF Init, LifecycleInit, IInv, TypeOK, LifecycleTypeOK, Names, Pinned,
   RegisteredPinned, Unlaunched, SeenAll, TodoUnknown

(* What SIGUSR2 does to the units and to the ATC's list.                      *)
LEMMA RetireTyped ==
    ASSUME IInv, NEW i \in Instances, Retire(i)
    PROVE  /\ conc' \in [Instances -> {"down", "preflight", "up", "retiring", "failed"}]
           /\ atc' \in [Names -> {"none", "running", "stalled", "retiring"}]
           /\ \A j \in Instances :
                /\ conc[j] = "down" => conc'[j] = "down"
                /\ conc'[j] \in {"up", "retiring"} => conc[j] \in {"up", "retiring"}
BY NamesAssumption DEF IInv, TypeOK, LifecycleTypeOK, Names, Retire

(* Every step of a box, its worker's registration included, keeps IInv.       *)
LEMMA BoxStep ==
    ASSUME IInv, NEW i \in Instances, BoxNext(i) \/ Register(i), NoBootDuringReap, UNCHANGED reaper
    PROVE  IInv'
<1> USE NamesAssumption DEF IInv, TypeOK, LifecycleTypeOK, Names, Pinned, RegisteredPinned,
      Unlaunched, SeenAll, TodoUnknown, Known, Live, cloud, worker, drains, reaper
<1>1. CASE ServiceStart(i)
  BY <1>1 DEF ServiceStart
<1>2. CASE PreflightPasses(i)
  BY <1>2 DEF PreflightPasses, Pin, Booted, NoBootDuringReap
<1>3. CASE PreflightFails(i)
  BY <1>3 DEF PreflightFails, Booted
<1>4. CASE ProcessExits(i)
  BY <1>4 DEF ProcessExits
<1>5. CASE ProcessCrashes(i)
  BY <1>5 DEF ProcessCrashes
<1>6. CASE ServiceRestart(i)
  <2>1. CASE conc[i] = "up" /\ Retire(i)
    BY <1>6, <2>1, RetireTyped DEF ServiceRestart
  <2>2. CASE conc[i] = "failed"
    <3>1. /\ conc' = [conc EXCEPT ![i] = "preflight"]
          /\ UNCHANGED <<cloud, unhealthy, name, registered, drains, atc, reaper>>
      BY <1>6, <2>2 DEF ServiceRestart
    <3>2. TypeOK'
      BY <3>1
    <3>3. Unlaunched'
      BY <1>6, <3>1 DEF ServiceRestart
    <3>4. Pinned' /\ RegisteredPinned'
      BY <3>1
    <3>5. SeenAll' /\ TodoUnknown'
      BY <3>1
    <3> QED BY <3>2, <3>3, <3>4, <3>5
  <2> QED BY <1>6, <2>1, <2>2 DEF ServiceRestart
<1>7. CASE SpotRebalance(i)
  <2>1. CASE Drain(i)
    BY <1>7, <2>1, RetireTyped DEF SpotRebalance, Drain
  <2>2. CASE UNCHANGED <<conc, drained, atc>>
    BY <1>7, <2>2 DEF SpotRebalance
  <2> QED BY <1>7, <2>1, <2>2 DEF SpotRebalance
<1>8. CASE SpotInterruption(i)
  BY <1>8, RetireTyped DEF SpotInterruption, Drain
<1>9. CASE SpotCrashes(i)
  BY <1>9 DEF SpotCrashes
<1>10. CASE HookDrain(i)
  BY <1>10, RetireTyped DEF HookDrain, Drain
<1>11. CASE HookComplete(i)
  BY <1>11 DEF HookComplete
<1>12. CASE HookCrashes(i)
  BY <1>12 DEF HookCrashes
<1>13. CASE Launch(i)
  BY <1>13 DEF Launch
<1>14. CASE SpotSignal(i)
  BY <1>14 DEF SpotSignal
<1>15. CASE ScaleIn(i)
  BY <1>15 DEF ScaleIn
<1>16. CASE HeartbeatExpires(i)
  BY <1>16 DEF HeartbeatExpires
<1>17. CASE Terminate(i)
  BY <1>17 DEF Terminate
<1>18. CASE ShutdownSignal(i)
  BY <1>18, RetireTyped DEF ShutdownSignal
<1>19. CASE Gone(i)
  BY <1>19 DEF Gone
<1>20. CASE Register(i)
  BY <1>20 DEF Register
<1> QED
  BY <1>1, <1>2, <1>3, <1>4, <1>5, <1>6, <1>7, <1>8, <1>9, <1>10, <1>11, <1>12, <1>13,
     <1>14, <1>15, <1>16, <1>17, <1>18, <1>19, <1>20 DEF BoxNext

(* So does a change of the ATC's list alone.                                  *)
LEMMA ListStep ==
    ASSUME IInv, NEW n \in Names, NEW to \in {"none", "running", "stalled", "retiring"},
           atc' = [atc EXCEPT ![n] = to],
           UNCHANGED <<cloud, unhealthy, worker, drains, reaper>>
    PROVE  IInv'
BY DEF IInv, TypeOK, LifecycleTypeOK, Pinned, RegisteredPinned, Unlaunched, SeenAll,
   TodoUnknown, Known, Live, cloud, worker, drains, reaper

(* And every step of a reaper.                                                *)
LEMMA ReaperStep ==
    ASSUME IInv, NEW w \in Webs,
           \/ ReadInstances(w) \/ ReadStalled(w) \/ RunAborts(w)
           \/ \E n \in Names : PruneWorker(w, n) \/ PruneFails(w, n)
    PROVE  IInv'
<1> USE NamesAssumption DEF IInv, TypeOK, LifecycleTypeOK, Pinned, RegisteredPinned, Unlaunched,
      SeenAll, TodoUnknown, Known, Live, lvars, cloud, worker, drains
<1>1. CASE ReadInstances(w)
  BY <1>1 DEF ReadInstances, LiveInstances
<1>2. CASE ReadStalled(w)
  BY <1>2 DEF ReadStalled, Stalled
<1>3. CASE RunAborts(w)
  BY <1>3 DEF RunAborts
<1>4. ASSUME NEW n \in Names, PruneWorker(w, n)
      PROVE  IInv'
  BY <1>4 DEF PruneWorker, Handled
<1>5. ASSUME NEW n \in Names, PruneFails(w, n)
      PROVE  IInv'
  BY <1>5 DEF PruneFails, Handled
<1> QED
  BY <1>1, <1>2, <1>3, <1>4, <1>5

LEMMA Inductive == IInv /\ [Next]_vars => IInv'
<1> SUFFICES ASSUME IInv, [Next]_vars
             PROVE  IInv'
  OBVIOUS
<1>1. ASSUME NEW i \in Instances, BoxNext(i) \/ Register(i), NoBootDuringReap, UNCHANGED reaper
      PROVE  IInv'
  BY <1>1, BoxStep
<1>2. ASSUME NEW n \in Names, Stall(n) \/ Retired(n), UNCHANGED reaper
      PROVE  IInv'
  BY <1>2, ListStep DEF Stall, Retired
<1>3. CASE ReaperNext
  BY <1>3, ReaperStep DEF ReaperNext
<1>4. CASE UNCHANGED vars
  BY <1>4 DEF IInv, TypeOK, LifecycleTypeOK, Pinned, RegisteredPinned, Unlaunched, SeenAll,
     TodoUnknown, Known, Live, vars, lvars, cloud, worker, drains, reaper
<1> QED
  BY <1>1, <1>2, <1>3, <1>4 DEF Next, LifecycleNext

LEMMA Invariant == Spec => []IInv
BY Initially, Inductive, PTL DEF Spec

-----------------------------------------------------------------------------

(* Every reachable state is typed, and a worker that runs has pinned its      *)
(* box's id or address as its name.                                           *)
THEOREM TypeCorrect == Spec => []TypeOK
<1>1. IInv => TypeOK
  BY DEF IInv
<1> QED BY <1>1, Invariant, PTL

(* A box registers under one name only, however often its service restarts    *)
(* and whenever the metadata service fails, for any number of boxes.          *)
THEOREM NamedOnce == Spec => []OneNamePerBox
<1>1. IInv => OneNamePerBox
  BY DEF IInv, RegisteredPinned, OneNamePerBox
<1> QED BY <1>1, Invariant, PTL

-----------------------------------------------------------------------------
(* The refinement of WorkerRegistry *)

(* No live box has a name that a reaper is going to prune.                    *)
LEMMA TodoUnused ==
    ASSUME IInv, BootOutlastsReap, NEW w \in Webs, NEW n \in todo[w]
    PROVE  ~InUse[n]
<1> SUFFICES ASSUME NEW i \in LiveInstances, name[i] = n
             PROVE  FALSE
  BY DEF InUse, IInv, TypeOK
<1>1. n \in Names /\ n # NoName /\ rpc[w] # "idle"
  BY NamesAssumption DEF IInv, TypeOK, Names
<1>2. i \in seen[w]
  BY <1>1 DEF IInv, SeenAll, LiveInstances
<1>3. n = i \/ n = addr[i]
  BY <1>1 DEF IInv, Pinned, LiveInstances
<1> QED BY <1>2, <1>3 DEF IInv, TodoUnknown, Known

(* A step that leaves the list alone is a change of the boxes or nothing.     *)
LEMMA BoxesOnly == UNCHANGED atc => [Registry!RegistryNext]_Registry!rvars
BY DEF Registry!RegistryNext, Registry!BoxesChange, Registry!rvars, InUse

(* A step that leaves names and instances alone leaves the names in use alone.*)
LEMMA InUseFrame == UNCHANGED <<ec2, name>> => UNCHANGED InUse
BY DEF InUse, LiveInstances, Live

(* Retirement takes a listed worker to "retiring".                            *)
LEMMA RetireRefines ==
    ASSUME IInv, NEW i \in Instances, Retire(i), UNCHANGED <<ec2, name>>
    PROVE  [Registry!RegistryNext]_Registry!rvars
<1>1. UNCHANGED InUse
  BY InUseFrame
<1>2. CASE UNCHANGED atc
  BY <1>2, BoxesOnly
<1>3. CASE conc[i] = "up" /\ atc[name[i]] # "none" /\ atc' = [atc EXCEPT ![name[i]] = "retiring"]
  <2>1. name[i] \in Names
    BY <1>3 DEF IInv, TypeOK, LifecycleTypeOK, Names
  <2>2. CASE atc[name[i]] = "retiring"
    BY <1>1, <1>3, <2>1, <2>2 DEF IInv, TypeOK, LifecycleTypeOK, Registry!rvars
  <2>3. CASE atc[name[i]] \in {"running", "stalled"}
    BY <1>1, <1>3, <2>1, <2>3
       DEF Registry!RegistryNext, Registry!Leaves, Registry!Move
  <2> QED BY <1>3, <2>1, <2>2, <2>3 DEF IInv, TypeOK, LifecycleTypeOK
<1> QED BY <1>2, <1>3 DEF Retire

(* Pruning takes an entry off the list only when no live box has the name.    *)
LEMMA PruneRefines ==
    ASSUME IInv, BootOutlastsReap, NEW w \in Webs, NEW n \in Names, PruneWorker(w, n)
    PROVE  [Registry!RegistryNext]_Registry!rvars
<1>1. UNCHANGED InUse
  BY InUseFrame DEF PruneWorker, cloud, worker
<1>2. ~InUse[n]
  BY TodoUnused DEF PruneWorker, Handled
<1>3. CASE atc[n] \in {"none", "running"}
  <2>1. UNCHANGED atc
    BY <1>3 DEF PruneWorker, IInv, TypeOK, LifecycleTypeOK
  <2> QED BY <2>1, BoxesOnly
<1>4. CASE atc[n] \in {"stalled", "retiring"}
  BY <1>1, <1>2, <1>4 DEF PruneWorker, Registry!RegistryNext, Registry!Pruned, Registry!Move
<1> QED BY <1>3, <1>4 DEF IInv, TypeOK, LifecycleTypeOK

LEMMA StepRefines ==
    ASSUME IInv, BootOutlastsReap, [Next]_vars
    PROVE  [Registry!RegistryNext]_Registry!rvars
<1>1. ASSUME NEW i \in Instances, BoxNext(i)
      PROVE  [Registry!RegistryNext]_Registry!rvars
  <2>1. \/ UNCHANGED atc
        \/ Retire(i) /\ UNCHANGED <<ec2, name>>
    BY <1>1 DEF BoxNext, ServiceStart, PreflightPasses, PreflightFails, ProcessExits,
       ProcessCrashes, ServiceRestart, SpotRebalance, SpotInterruption, SpotCrashes,
       HookDrain, HookComplete, HookCrashes, Launch, SpotSignal, ScaleIn,
       HeartbeatExpires, Terminate, ShutdownSignal, Gone, Drain, cloud, worker, drains
  <2> QED BY <2>1, BoxesOnly, RetireRefines
<1>2. ASSUME NEW i \in Instances, Register(i)
      PROVE  [Registry!RegistryNext]_Registry!rvars
  <2>1. UNCHANGED InUse
    BY <1>2, InUseFrame DEF Register, cloud
  <2>2. name[i] \in Names
    BY <1>2 DEF Register, IInv, TypeOK, LifecycleTypeOK, Names
  <2> QED BY <1>2, <2>1, <2>2
          DEF Register, Registry!RegistryNext, Registry!Joins, Registry!Move
<1>3. ASSUME NEW n \in Names, Stall(n) \/ Retired(n)
      PROVE  [Registry!RegistryNext]_Registry!rvars
  <2>1. UNCHANGED InUse
    BY <1>3, InUseFrame DEF Stall, Retired, cloud, worker
  <2> QED BY <1>3, <2>1 DEF Stall, Retired, Registry!RegistryNext, Registry!Stalls,
             Registry!Left, Registry!Move
<1>4. ASSUME NEW w \in Webs, NEW n \in Names, PruneWorker(w, n)
      PROVE  [Registry!RegistryNext]_Registry!rvars
  BY <1>4, PruneRefines
<1>5. ASSUME NEW w \in Webs,
             \/ ReadInstances(w) \/ ReadStalled(w) \/ RunAborts(w)
             \/ \E n \in Names : PruneFails(w, n)
      PROVE  [Registry!RegistryNext]_Registry!rvars
  BY <1>5, BoxesOnly DEF ReadInstances, ReadStalled, RunAborts, PruneFails, lvars
<1>6. CASE UNCHANGED vars
  BY <1>6, BoxesOnly DEF vars, lvars
<1> QED
  BY <1>1, <1>2, <1>3, <1>4, <1>5, <1>6 DEF Next, LifecycleNext, ReaperNext

(* When a box takes longer to boot than a reaper takes to run, the reapers    *)
(* never prune a worker that a live box has the name of, for any number of    *)
(* boxes and web nodes, however they race and whatever fails.                 *)
THEOREM Refinement == ASSUME BootOutlastsReap PROVE Spec => ImplementsRegistry
<1>1. Init => Registry!RegistryInit
  BY DEF Init, LifecycleInit, Registry!RegistryInit, InUse, LiveInstances, Live
<1>2. IInv /\ [Next]_vars => [Registry!RegistryNext]_Registry!rvars
  BY StepRefines
<1> QED BY <1>1, <1>2, Invariant, PTL DEF Spec, ImplementsRegistry, Registry!RegistrySpec
=============================================================================
