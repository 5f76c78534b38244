---------------------------- MODULE WorkerLifecycle ----------------------------
(***************************************************************************)
(* A Concourse worker on a spot instance of an Auto Scaling Group, from    *)
(* launch to termination (bilder/images/concourse): the preflight that     *)
(* names it, the systemd unit that restarts it, the watcher of spot        *)
(* signals, the handler of the group's lifecycle hook, the drain script    *)
(* both call, and the worker's entry in the ATC.  WorkerReaper adds the    *)
(* web nodes' reaper.                                                      *)
(*                                                                         *)
(* Names are instance ids, or addresses when the metadata service did not  *)
(* answer.  Durations are abstracted: a timeout may strike whenever its    *)
(* wait lasts.  Logging and metadata tokens are left out.                  *)
(***************************************************************************)
CONSTANTS
    Instances,    \* instances launched over time; each names a worker by its id
    Addrs,        \* private addresses
    Noticed,      \* instances whose end is announced; the others just fail
    NoName        \* no name pinned yet

ASSUME NamesAssumption ==
    Noticed \subseteq Instances /\ Instances \cap Addrs = {} /\ Addrs # {} /\ NoName \notin Instances \cup Addrs

Names == Instances \cup Addrs

VARIABLES
    ec2,          \* state of each instance
    addr,         \* its private address
    asg,          \* its lifecycle state in the group
    unhealthy,    \* instances marked Unhealthy
    signals,      \* spot signals the metadata service shows, by instance
    name,         \* /etc/default/concourse-name
    conc,         \* concourse.service
    spot,         \* where concourse-worker-spot-watch stands
    hook,         \* where concourse-worker-lifecycle-hook stands
    atc,          \* the workers the ATC lists
    drained,      \* history: whether a drain sent SIGUSR2, or found no process
    registered    \* history: the names each instance registered under

cloud  == <<ec2, addr, asg, signals>>
worker == <<name, conc, registered>>
drains == <<spot, hook, drained>>
lvars  == <<cloud, unhealthy, worker, drains, atc>>

LifecycleTypeOK ==
    /\ ec2 \in [Instances -> {"none", "live", "dying", "gone"}]
    /\ addr \in [Instances -> Addrs]
    /\ asg \in [Instances -> {"inService", "wait", "proceed"}]
    /\ unhealthy \subseteq Instances
    /\ signals \in [Instances -> SUBSET {"rebalance", "interruption"}]
    /\ name \in [Instances -> Names \cup {NoName}]
    /\ conc \in [Instances -> {"down", "preflight", "up", "retiring", "failed"}]
    /\ spot \in [Instances -> {"off", "watch", "drain", "asleep"}]
    /\ hook \in [Instances -> {"off", "poll", "drain", "done"}]
    /\ atc \in [Names -> {"none", "running", "stalled", "retiring"}]
    /\ drained \in [Instances -> {"no", "missed", "told"}]
    /\ registered \in [Instances -> SUBSET Names]
    \* a process has a name
    /\ \A i \in Instances : conc[i] \in {"up", "retiring"} => name[i] \in {i, addr[i]}

LifecycleInit ==
    /\ ec2 = [i \in Instances |-> "none"]
    /\ addr \in [Instances -> Addrs]
    /\ asg = [i \in Instances |-> "inService"]
    /\ unhealthy = {}
    /\ drained = [i \in Instances |-> "no"]
    /\ signals = [i \in Instances |-> {}]
    /\ name = [i \in Instances |-> NoName]
    /\ conc = [i \in Instances |-> "down"]
    /\ spot = [i \in Instances |-> "off"]
    /\ hook = [i \in Instances |-> "off"]
    /\ atc = [n \in Names |-> "none"]
    /\ registered = [i \in Instances |-> {}]

Live(i) == ec2[i] = "live"

-----------------------------------------------------------------------------
(* concourse.service and its preflight *)

\* Restart=always, and the first start: Requires= runs the preflight anew.
ServiceStart(i) ==
    /\ Live(i) /\ conc[i] = "down"
    /\ conc' = [conc EXCEPT ![i] = "preflight"]
    /\ UNCHANGED <<cloud, unhealthy, name, registered, drains, atc>>

PinAgain(i, n) == [name EXCEPT ![i] = n]

\* write_worker_identity: a pinned name stays.
Pin(i, n) == IF name[i] = NoName THEN [name EXCEPT ![i] = n] ELSE name

\* After=concourse.service: the first start job ends, and the two services start.
Booted(i) ==
    /\ spot' = [spot EXCEPT ![i] = IF @ = "off" THEN "watch" ELSE @]
    /\ hook' = [hook EXCEPT ![i] = IF @ = "off" THEN "poll" ELSE @]

\* The checks pass; the instance id may still be unavailable.
PreflightPasses(i) ==
    /\ Live(i) /\ conc[i] = "preflight"
    /\ \E n \in {i, addr[i]} : name' = Pin(i, n)
    /\ conc' = [conc EXCEPT ![i] = "up"]
    /\ Booted(i)
    /\ UNCHANGED <<cloud, unhealthy, registered, drained, atc>>

PreflightFailsOpen(i) ==
    /\ Live(i) /\ conc[i] = "preflight"
    /\ conc' = [conc EXCEPT ![i] = "up"]
    /\ Booted(i)
    /\ UNCHANGED <<cloud, unhealthy, name, registered, drained, atc>>

\* The budget is spent: the group is asked for a replacement, if it can be, and
\* the unit does not start.
PreflightFails(i) ==
    /\ Live(i) /\ conc[i] = "preflight"
    /\ unhealthy' \in {unhealthy, unhealthy \cup {i}}
    /\ conc' = [conc EXCEPT ![i] = "failed"]
    /\ Booted(i)
    /\ UNCHANGED <<cloud, name, registered, drained, atc>>

\* A worker that runs (re)appears in the ATC.
Register(i) ==
    /\ ec2[i] \in {"live", "dying"} /\ conc[i] = "up"
    /\ atc[name[i]] \in {"none", "stalled"}
    /\ atc' = [atc EXCEPT ![name[i]] = "running"]
    /\ registered' = [registered EXCEPT ![i] = @ \cup {name[i]}]
    /\ UNCHANGED <<cloud, unhealthy, name, conc, drains>>

\* Missed heartbeats, of a dead worker or of a busy one.
Stall(n) ==
    /\ atc[n] = "running"
    /\ atc' = [atc EXCEPT ![n] = "stalled"]
    /\ UNCHANGED <<cloud, unhealthy, worker, drains>>

\* The ATC drops a retiring worker once its builds are done.
Retired(n) ==
    /\ atc[n] = "retiring"
    /\ atc' = [atc EXCEPT ![n] = "none"]
    /\ UNCHANGED <<cloud, unhealthy, worker, drains>>

\* What SIGUSR2 sets off; the ATC may not hear of it.
Retire(i) ==
    /\ conc' = [conc EXCEPT ![i] = IF @ = "up" THEN "retiring" ELSE @]
    /\ \/ UNCHANGED atc
       \/ conc[i] = "up" /\ atc[name[i]] # "none"
            /\ atc' = [atc EXCEPT ![name[i]] = "retiring"]

\* The process has retired, or gave up after connection_drain_timeout.
ProcessExits(i) ==
    /\ conc[i] = "retiring"
    /\ conc' = [conc EXCEPT ![i] = "down"]
    /\ UNCHANGED <<cloud, unhealthy, name, registered, spot, hook, drained, atc>>

ProcessCrashes(i) ==
    /\ conc[i] = "up"
    /\ conc' = [conc EXCEPT ![i] = "down"]
    /\ UNCHANGED <<cloud, unhealthy, name, registered, drains, atc>>

\* concourse-restarter, when a watched file changes; KillSignal=SIGUSR2.
ServiceRestart(i) ==
    /\ Live(i)
    /\ \/ conc[i] = "up" /\ Retire(i)
       \/ conc[i] = "failed" /\ conc' = [conc EXCEPT ![i] = "preflight"] /\ UNCHANGED atc
    /\ UNCHANGED <<cloud, unhealthy, name, registered, drains>>

-----------------------------------------------------------------------------
(* concourse-worker-drain, and the two services that call it *)

HasPid(i) == conc[i] \in {"up", "retiring"}

\* Reads MainPID and signals, or finds nothing to drain.  The wait that follows
\* lasts until the process exits or DRAIN_TIMEOUT has passed, whichever is first.
Drain(i) ==
    /\ Retire(i)
    /\ drained' = [drained EXCEPT ![i] =
           IF HasPid(i) THEN "told" ELSE IF @ = "no" THEN "missed" ELSE @]

SpotRebalanceIgnored(i) ==
    /\ Live(i) /\ spot[i] = "watch" /\ "rebalance" \in signals[i]
    /\ unhealthy' \in {unhealthy, unhealthy \cup {i}}
    /\ spot' = [spot EXCEPT ![i] = "asleep"]
    /\ UNCHANGED <<cloud, worker, hook, drained, atc>>

\* handle_rebalance: the group replaces the instance, or the worker is drained.
\* Either way the watcher then sleeps for ever.
SpotRebalance(i) ==
    /\ Live(i) /\ spot[i] = "watch" /\ "rebalance" \in signals[i]
    /\ \/ unhealthy' = unhealthy \cup {i} /\ UNCHANGED <<conc, drained, atc>>
       \/ Drain(i) /\ UNCHANGED unhealthy
    /\ spot' = [spot EXCEPT ![i] = "asleep"]
    /\ UNCHANGED <<cloud, name, registered, hook>>

\* handle_interruption, which a rebalance signal takes precedence over.
SpotInterruption(i) ==
    /\ Live(i) /\ spot[i] = "watch" /\ signals[i] = {"interruption"}
    /\ Drain(i)
    /\ spot' = [spot EXCEPT ![i] = "asleep"]
    /\ UNCHANGED <<cloud, unhealthy, name, registered, hook>>

\* Restart=on-failure; the signals are sticky, so it acts on them again.
SpotCrashes(i) ==
    /\ spot[i] = "asleep"
    /\ spot' = [spot EXCEPT ![i] = "watch"]
    /\ UNCHANGED <<cloud, unhealthy, worker, hook, drained, atc>>

HookDrain(i) ==
    /\ Live(i) /\ hook[i] = "poll" /\ asg[i] = "wait"
    /\ Drain(i)
    /\ hook' = [hook EXCEPT ![i] = "drain"]
    /\ UNCHANGED <<cloud, unhealthy, name, registered, spot>>

\* The drain is over: complete-lifecycle-action, which may fail, or lack a name
\* that was to be looked up.
HookComplete(i) ==
    /\ Live(i) /\ hook[i] = "drain"
    /\ asg' \in {asg, [asg EXCEPT ![i] = "proceed"]}
    /\ hook' = [hook EXCEPT ![i] = "done"]
    /\ UNCHANGED <<ec2, addr, signals, unhealthy, worker, spot, drained, atc>>

\* Restart=on-failure: the handler starts over.
HookCrashes(i) ==
    /\ hook[i] = "drain"
    /\ hook' = [hook EXCEPT ![i] = "poll"]
    /\ UNCHANGED <<cloud, unhealthy, worker, spot, drained, atc>>

-----------------------------------------------------------------------------
(* EC2 and the Auto Scaling Group *)

\* An address is free again once the instance that had it is gone.
Launch(i) ==
    /\ ec2[i] = "none"
    /\ \A j \in Instances : ec2[j] \in {"live", "dying"} => addr[j] # addr[i]
    /\ ec2' = [ec2 EXCEPT ![i] = "live"]
    /\ UNCHANGED <<addr, asg, signals, unhealthy, worker, drains, atc>>

SpotSignal(i) ==
    /\ Live(i) /\ i \in Noticed
    /\ \E s \in {"rebalance", "interruption"} \ signals[i] :
         signals' = [signals EXCEPT ![i] = @ \cup {s}]
    /\ UNCHANGED <<ec2, addr, asg, unhealthy, worker, drains, atc>>

\* Scale-in, the maximum lifetime or an instance refresh: Terminating:Wait.
ScaleIn(i) ==
    /\ Live(i) /\ i \in Noticed /\ asg[i] = "inService"
    /\ asg' = [asg EXCEPT ![i] = "wait"]
    /\ UNCHANGED <<ec2, addr, signals, unhealthy, worker, drains, atc>>

ReplaceUnhealthy(i) == i \in unhealthy /\ ScaleIn(i)

\* The hook's heartbeat_timeout, with default_result CONTINUE.
HeartbeatExpires(i) ==
    /\ Live(i) /\ asg[i] = "wait"
    /\ asg' = [asg EXCEPT ![i] = "proceed"]
    /\ UNCHANGED <<ec2, addr, signals, unhealthy, worker, drains, atc>>

\* The group terminates it, or EC2 reclaims it after the notice.
Terminate(i) ==
    /\ Live(i)
    /\ asg[i] = "proceed" \/ "interruption" \in signals[i]
    /\ ec2' = [ec2 EXCEPT ![i] = "dying"]
    /\ UNCHANGED <<addr, asg, signals, unhealthy, worker, drains, atc>>

\* On the way down systemd stops the unit, with the same signal.
ShutdownSignal(i) ==
    /\ ec2[i] = "dying" /\ conc[i] = "up"
    /\ Retire(i)
    /\ UNCHANGED <<cloud, unhealthy, name, registered, drains>>

\* The instance is off, at the end of its shutdown or because it failed.
Gone(i) ==
    /\ ec2[i] \in {"live", "dying"}
    /\ ec2' = [ec2 EXCEPT ![i] = "gone"]
    /\ conc' = [conc EXCEPT ![i] = "down"]
    /\ spot' = [spot EXCEPT ![i] = "off"]
    /\ hook' = [hook EXCEPT ![i] = "off"]
    /\ asg' = [asg EXCEPT ![i] = "inService"]
    /\ signals' = [signals EXCEPT ![i] = {}]
    /\ unhealthy' = unhealthy \ {i}
    /\ UNCHANGED <<addr, name, registered, drained, atc>>

-----------------------------------------------------------------------------

BoxNext(i) ==
    \/ ServiceStart(i) \/ PreflightPasses(i) \/ PreflightFails(i)
    \/ ProcessExits(i) \/ ProcessCrashes(i) \/ ServiceRestart(i)
    \/ SpotRebalance(i) \/ SpotInterruption(i) \/ SpotCrashes(i)
    \/ HookDrain(i) \/ HookComplete(i) \/ HookCrashes(i)
    \/ Launch(i) \/ SpotSignal(i) \/ ScaleIn(i) \/ HeartbeatExpires(i)
    \/ Terminate(i) \/ ShutdownSignal(i) \/ Gone(i)

LifecycleNext ==
    \/ \E i \in Instances : BoxNext(i) \/ Register(i)
    \/ \E n \in Names : Stall(n) \/ Retired(n)

\* The services of a box run, and the group replaces what is marked Unhealthy.
\* What the box is told, and when it dies, is up to the cloud.
LifecycleFairness ==
    \A i \in Instances :
        /\ WF_lvars(SpotRebalance(i)) /\ WF_lvars(HookDrain(i))
        /\ WF_lvars(ReplaceUnhealthy(i))

-----------------------------------------------------------------------------
(* Properties *)

(* A box registers under one name only, however often concourse.service       *)
(* restarts, the metadata service fails and the entry is lost (preflight).    *)
OneNamePerBox == \A i \in Instances : \A m, n \in registered[i] : m = n

(* A rebalance signal to a box that keeps running its worker ends in a drain  *)
(* or in the group replacing the box, whichever calls fail, unless a drain    *)
(* came while the worker was being restarted and found nothing (spot-watch).  *)
RebalanceIsActedOn ==
    \A i \in Instances :
        ("rebalance" \in signals[i] /\ HasPid(i))
            ~> (drained[i] # "no" \/ asg[i] # "inService" \/ ~HasPid(i) \/ ~Live(i))
=============================================================================
