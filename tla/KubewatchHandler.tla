---------------------------- MODULE KubewatchHandler ----------------------------
(***************************************************************************)
(* The kubewatch webhook handler, which turns the many events of a rollout *)
(* into a start and a finish message in Slack                              *)
(* (applications/kubewatch_webhook_handler/webhook_handler.py).            *)
(*                                                                         *)
(* One deployment is modelled: the handler keeps a state for each, and     *)
(* they share nothing else.  An event carries no reason: the handler reads *)
(* the deployment when it handles the event, so it may see a later rollout *)
(* than the one that caused it, and miss what was between two reads.       *)
(*                                                                         *)
(* Left out: filters by namespace and label, the text of the messages and  *)
(* the promote button.  A "deleted" event is handled like any other: it    *)
(* finds no deployment, or reads what another event reports anyway.        *)
(***************************************************************************)
EXTENDS Naturals, FiniteSets

CONSTANTS
    Kubewatches,    \* kubewatch pods: one, and another during a rollout of it
    Pods,           \* handler pods: the same
    MaxRollouts,    \* bound: rollouts of the deployment
    MaxFaults       \* bound: pods started beside the first ones

ASSUME KubewatchAssumption ==
    /\ Kubewatches # {} /\ Pods # {}
    /\ MaxRollouts \in Nat /\ MaxFaults \in Nat

VARIABLES
    rollout,    \* number of the deployment's newest rollout
    reason,     \* its Progressing reason; "absent" while it does not exist
    kw,         \* kubewatch pods that run
    pending,    \* those that have an event of the deployment to deliver
    req,        \* the request each of them has in flight
    pods,       \* handler pods that run
    states,     \* deployment_states of each
    posted,     \* last message in Slack
    clean,      \* history: nothing was lost and nothing overlapped (see Heals)
    slow,       \* history: the newest rollout was seen under way
    faults      \* pods started so far

cluster == <<rollout, reason>>
senders == <<kw, pending, req>>
memory  == <<pods, states>>
history == <<posted, clean, slow>>
vars    == <<cluster, senders, memory, history, faults>>

Reported == {"updated", "available", "exceeded"}
Reasons  == Reported \cup {"absent", "created"}
Settled  == {"available", "exceeded"}

\* The state a reported reason leads to.
Target == [updated |-> "rolling_out", available |-> "completed", exceeded |-> "failed"]

States == {"none", "rolling_out", "completed", "failed"}

None == [pc |-> "idle"]
Requests ==
    {None} \cup [pc : {"fetch"}, pod : Pods]
           \cup [pc : {"decide", "set", "post"}, pod : Pods,
                 saw : Reasons \ {"absent"}, of : 1..MaxRollouts]

Busy(k) == req[k] # None

TypeOK ==
    /\ rollout \in 0..MaxRollouts
    /\ reason \in Reasons
    /\ kw \subseteq Kubewatches /\ pending \subseteq kw
    /\ req \in [Kubewatches -> Requests]
    /\ pods \subseteq Pods
    /\ states \in [Pods -> States]
    /\ posted \in [kind : Reported \cup {"none"}, of : 0..MaxRollouts]
    /\ clean \in BOOLEAN /\ slow \in BOOLEAN
    /\ faults \in 0..MaxFaults
    /\ reason # "absent" => rollout > 0
    \* a request runs in a pod that runs, and only a reported reason goes on
    /\ \A k \in Kubewatches :
         /\ Busy(k) => req[k].pod \in pods
         /\ req[k].pc \in {"set", "post"} => req[k].saw \in Reported

Init ==
    /\ rollout = 0 /\ reason = "absent"
    /\ \E k \in Kubewatches : kw = {k}
    /\ pending = {}
    /\ req = [k \in Kubewatches |-> None]
    /\ \E p \in Pods : pods = {p}
    /\ states = [p \in Pods |-> "none"]
    /\ posted = [kind |-> "none", of |-> 0]
    /\ clean = TRUE /\ slow = FALSE
    /\ faults = 0

-----------------------------------------------------------------------------
(* The deployment, and kubewatch, which queues an event for every change *)

Changes(r) ==
    /\ reason' = r
    /\ pending' = kw
    /\ clean' = (clean /\ kw # {})
    /\ UNCHANGED <<kw, req, memory, posted, faults>>

RolloutStarts ==
    /\ rollout < MaxRollouts
    /\ rollout' = rollout + 1
    /\ slow' = FALSE
    /\ Changes("created")

Moves(from, to) ==
    /\ reason \in from
    /\ Changes(to)
    /\ UNCHANGED <<rollout, slow>>

RolloutProgresses == Moves({"created", "exceeded"}, "updated")
RolloutCompletes  == Moves({"created", "updated", "exceeded"}, "available")
RolloutStalls     == Moves({"created", "updated"}, "exceeded")
Deleted           == Moves(Reasons \ {"absent"}, "absent")

KubewatchStarts(k) ==
    /\ faults < MaxFaults /\ k \notin kw /\ ~Busy(k)
    /\ kw' = kw \cup {k}
    /\ faults' = faults + 1
    /\ UNCHANGED <<cluster, pending, req, memory, history>>

\* Its queue goes with it; the request it has in flight is served all the same.
KubewatchStops(k) ==
    /\ k \in kw
    /\ kw' = kw \ {k}
    /\ pending' = pending \ {k}
    /\ clean' = (clean /\ k \notin pending)
    /\ UNCHANGED <<cluster, req, memory, posted, slow, faults>>

PodStarts(p) ==
    /\ faults < MaxFaults /\ p \notin pods
    /\ pods' = pods \cup {p}
    /\ states' = [states EXCEPT ![p] = "none"]
    /\ faults' = faults + 1
    /\ clean' = FALSE
    /\ UNCHANGED <<cluster, senders, posted, slow>>

PodStops(p) ==
    /\ p \in pods
    /\ pods' = pods \ {p}
    /\ req' = [k \in Kubewatches |->
                 IF Busy(k) /\ req[k].pod = p THEN None ELSE req[k]]
    /\ clean' = FALSE
    /\ UNCHANGED <<cluster, kw, pending, states, posted, slow, faults>>

-----------------------------------------------------------------------------
(* webhook_handler *)

Alone(k) == \A j \in Kubewatches \ {k} : ~Busy(j)

\* kubewatch delivers one event at a time; of the same kind more may follow.
Deliver(k) ==
    /\ k \in pending /\ ~Busy(k)
    /\ \E p \in pods : req' = [req EXCEPT ![k] = [pc |-> "fetch", pod |-> p]]
    /\ pending' \in {pending, pending \ {k}}
    /\ clean' = (clean /\ Alone(k))
    /\ UNCHANGED <<cluster, kw, memory, posted, slow, faults>>

\* No pod serves: kubewatch does not send the event again.
DeliverFails(k) ==
    /\ k \in pending /\ ~Busy(k) /\ pods = {}
    /\ pending' = pending \ {k}
    /\ clean' = FALSE
    /\ UNCHANGED <<cluster, kw, req, memory, posted, slow, faults>>

Ends(k) == req' = [req EXCEPT ![k] = None]

\* get_deployment_details; a deployment that is gone is an error like any other.
Fetch(k) ==
    /\ req[k].pc = "fetch"
    /\ IF reason = "absent"
       THEN Ends(k) /\ UNCHANGED slow
       ELSE /\ req' = [req EXCEPT ![k] = [pc |-> "decide", pod |-> req[k].pod,
                                          saw |-> reason, of |-> rollout]]
            /\ slow' = (slow \/ reason = "updated")
    /\ UNCHANGED <<cluster, kw, pending, memory, posted, clean, faults>>

FetchFails(k) ==
    /\ req[k].pc = "fetch"
    /\ Ends(k)
    /\ clean' = FALSE
    /\ UNCHANGED <<cluster, kw, pending, memory, posted, slow, faults>>

Current(k) == states[req[k].pod]

\* should_post_notification, up to the assignment: a reported reason whose
\* state is not the current one, whether or not the start was tracked.
Decides(k, posts) ==
    /\ req[k].pc = "decide"
    /\ IF posts THEN req' = [req EXCEPT ![k].pc = "set"] ELSE Ends(k)
    /\ UNCHANGED <<cluster, kw, pending, memory, history, faults>>

DecideEveryReason(k) ==
    Decides(k, req[k].saw \in Reported => Current(k) # Target[req[k].saw])

DecideTracked(k) ==
    Decides(k, \/ req[k].saw = "updated" /\ Current(k) # "rolling_out"
               \/ req[k].saw \in Settled /\ Current(k) = "rolling_out")

DecideSuccess(k) ==
    Decides(k, req[k].saw \in {"updated", "available"} /\ Current(k) # Target[req[k].saw])

Decide(k) == Decides(k, req[k].saw \in Reported /\ Current(k) # Target[req[k].saw])

SetStateForgets(k) ==
    /\ req[k].pc = "set"
    /\ req' = [req EXCEPT ![k].pc = "post"]
    /\ UNCHANGED <<cluster, kw, pending, memory, history, faults>>

\* Another request may have been between: nothing locks deployment_states.
SetState(k) ==
    /\ req[k].pc = "set"
    /\ states' = [states EXCEPT ![req[k].pod] = Target[req[k].saw]]
    /\ req' = [req EXCEPT ![k].pc = "post"]
    /\ UNCHANGED <<cluster, kw, pending, pods, history, faults>>

\* A message of the state kept, posted by the only request in the only pod, sets
\* things right again, if it is the newest or an event of that is still to come.
Heals(k) ==
    /\ Alone(k) /\ pods = {req[k].pod} /\ Current(k) = Target[req[k].saw]
    /\ req[k].saw = reason \/ pending # {}
    /\ req[k].of = rollout

\* chat_postMessage, to the channel of the label or, when that does not exist,
\* to the default one.
Post(k) ==
    /\ req[k].pc = "post"
    /\ posted' = [kind |-> req[k].saw, of |-> req[k].of]
    /\ clean' = (clean \/ Heals(k))
    /\ Ends(k)
    /\ UNCHANGED <<cluster, kw, pending, memory, slow, faults>>

\* Any other error is answered 500; the state stays set, and nobody tries again.
PostFails(k) ==
    /\ req[k].pc = "post"
    /\ clean' = FALSE
    /\ Ends(k)
    /\ UNCHANGED <<cluster, kw, pending, memory, posted, slow, faults>>

-----------------------------------------------------------------------------

Handle(k) == Fetch(k) \/ Decide(k) \/ SetState(k) \/ Post(k)

Next ==
    \/ RolloutStarts \/ RolloutProgresses \/ RolloutCompletes \/ RolloutStalls
    \/ Deleted
    \/ \E k \in Kubewatches :
         \/ KubewatchStarts(k) \/ KubewatchStops(k)
         \/ Deliver(k) \/ DeliverFails(k) \/ Handle(k) \/ FetchFails(k) \/ PostFails(k)
    \/ \E p \in Pods : PodStarts(p) \/ PodStops(p)

\* Events are delivered and requests served; rollouts and faults are not fair.
Fairness == \A k \in Kubewatches : WF_vars(Deliver(k)) /\ WF_vars(Handle(k))

Spec == Init /\ [][Next]_vars /\ Fairness

-----------------------------------------------------------------------------
(* Properties *)

(* The same message is never posted twice in a row, unless requests           *)
(* overlapped, a pod came or went, or a call failed since the last one        *)
(* (deployment_states; "eliminates duplicate ... notifications", README).     *)
NoRepeat ==
    \A k \in Kubewatches : req[k].pc = "post" /\ clean => req[k].saw # posted.kind

\* Every event is handled, nothing was lost, and the newest rollout has ended.
AtRest ==
    /\ pending = {} /\ \A k \in Kubewatches : ~Busy(k)
    /\ clean /\ reason \in Settled

(* Once every event is handled, the last message tells how the newest rollout *)
(* ended, and it is a message of that rollout if the handler ever saw it      *)
(* under way.  One that it did not see and that ended like the rollout before *)
(* is skipped as a duplicate; NewestIsAnnounced is about that one.            *)
LastMessageIsRight == AtRest => posted.kind = reason /\ (slow => posted.of = rollout)

(* Once every event is handled, the last message is about the newest rollout, *)
(* also about one "too fast to catch ReplicaSetUpdated": "still notify so the *)
(* team sees the deployment happened" (should_post_notification).             *)
NewestIsAnnounced == AtRest => posted.of = rollout

(* A start message is followed by a finish message once the rollout ends,     *)
(* unless something was lost on the way (webhook_handler).                    *)
StartIsFinished ==
    (posted.kind = "updated" /\ reason \in Settled)
        ~> (posted.kind # "updated" \/ reason \notin Settled \/ ~clean)
=============================================================================
