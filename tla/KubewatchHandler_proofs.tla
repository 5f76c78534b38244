------------------------ MODULE KubewatchHandler_proofs ------------------------
(***************************************************************************)
(* Proofs that the handler never posts the same message twice in a row and *)
(* that its last message is the right one, unless something was lost or    *)
(* overlapped, for any number of pods, rollouts and faults.                *)
(***************************************************************************)
EXTENDS KubewatchHandler, TLAPS

Under(k) == req[k].pc \in {"decide", "set", "post"}

\* The state that goes with the last message.
StateOf(kind) == IF kind = "none" THEN "none" ELSE Target[kind]

\* What holds while nothing is lost and nothing overlaps.  One request at a
\* time, in one pod, whose state is the last message's...
Undisturbed ==
    /\ \A j, k \in Kubewatches : Busy(j) /\ Busy(k) => j = k
    /\ \A p, q \in pods : p = q
    /\ (\A k \in Kubewatches : req[k].pc # "post") =>
         \A p \in pods : states[p] = StateOf(posted.kind)

\* ... unless it is the one of a request that is about to post, and has
\* something new to say...
SaysNews ==
    \A k \in Kubewatches :
        /\ req[k].pc = "set" => Current(k) # Target[req[k].saw]
        /\ req[k].pc = "post" => Current(k) = Target[req[k].saw] /\ req[k].saw # posted.kind

\* ... and once no event is left, the request sees the newest state, or the last
\* message tells it...
TellsEnd ==
    pending = {} /\ reason \in Settled =>
        /\ \A k \in Kubewatches : Under(k) => req[k].saw = reason /\ req[k].of = rollout
        /\ (\A k \in Kubewatches : ~Busy(k)) => posted.kind = reason

\* ... and a rollout seen under way is announced before it is settled.
TellsStart ==
    slow =>
        /\ \A k \in Kubewatches : Under(k) => req[k].of = rollout
        /\ \/ posted.of = rollout \/ posted.kind = "updated"
           \/ \E k \in Kubewatches : Under(k) /\ req[k].saw = "updated"

IInv == TypeOK /\ (clean => Undisturbed /\ SaysNews /\ TellsEnd /\ TellsStart)

-----------------------------------------------------------------------------
(* Requests *)

(* What a request is made of at each step of its handling.                    *)
LEMMA Shape ==
    ASSUME TypeOK, NEW k \in Kubewatches
    PROVE  /\ req[k].pc \in {"idle", "fetch", "decide", "set", "post"}
           /\ Busy(k) <=> req[k].pc # "idle"
           /\ Busy(k) => req[k].pod \in pods
           /\ Under(k) => /\ req[k].pod \in Pods
                          /\ req[k].saw \in Reasons \ {"absent"}
                          /\ req[k].of \in 1..MaxRollouts
           /\ req[k].pc \in {"set", "post"} => req[k].saw \in Reported
<1>1. req[k] \in Requests
  BY DEF TypeOK
<1> QED BY <1>1 DEF TypeOK, Busy, None, Requests, Under

(* A request that goes on to another step keeps what it has read.             *)
LEMMA GoesOn ==
    ASSUME TypeOK, NEW k \in Kubewatches, Under(k), NEW step \in {"set", "post"},
           req' = [req EXCEPT ![k].pc = step]
    PROVE  /\ req' \in [Kubewatches -> Requests]
           /\ req'[k].pc = step /\ req'[k].pod = req[k].pod
           /\ req'[k].saw = req[k].saw /\ req'[k].of = req[k].of
           /\ \A j \in Kubewatches \ {k} : req'[j] = req[j]
           /\ \A j \in Kubewatches : Busy(j)' <=> Busy(j)
<1>1. /\ req \in [Kubewatches -> Requests]
      /\ req[k] \in [pc : {"decide", "set", "post"}, pod : Pods,
                     saw : Reasons \ {"absent"}, of : 1..MaxRollouts]
  BY DEF TypeOK, Requests, None, Under
<1>2. /\ req' = [req EXCEPT ![k] = [req[k] EXCEPT !.pc = step]]
      /\ [req[k] EXCEPT !.pc = step] \in
           [pc : {"set", "post"}, pod : Pods, saw : Reasons \ {"absent"}, of : 1..MaxRollouts]
  BY <1>1
<1> QED BY <1>1, <1>2 DEF Requests, Busy, None

(* A request that ends leaves the others alone.                               *)
LEMMA Ended ==
    ASSUME TypeOK, NEW k \in Kubewatches, Ends(k)
    PROVE  /\ req' \in [Kubewatches -> Requests]
           /\ req'[k] = None /\ req'[k].pc = "idle"
           /\ \A j \in Kubewatches \ {k} : req'[j] = req[j]
           /\ \A j \in Kubewatches : Busy(j)' <=> Busy(j) /\ j # k
BY DEF TypeOK, Ends, Requests, None, Busy

(* Nothing has happened at first.                                             *)
LEMMA Initially == Init => IInv
<1> SUFFICES ASSUME Init PROVE IInv
  OBVIOUS
<1> USE KubewatchAssumption DEF Init
<1>1. \A k \in Kubewatches : req[k] = None /\ req[k].pc = "idle" /\ ~Busy(k) /\ ~Under(k)
  BY DEF None, Busy, Under
<1>2. TypeOK
  <2>1. /\ rollout \in 0..MaxRollouts /\ reason \in Reasons /\ faults \in 0..MaxFaults
        /\ posted \in [kind : Reported \cup {"none"}, of : 0..MaxRollouts]
    BY DEF Reasons, Reported
  <2>2. clean \in BOOLEAN /\ slow \in BOOLEAN
    OBVIOUS
  <2>3. /\ kw \subseteq Kubewatches /\ pending \subseteq kw /\ pods \subseteq Pods
        /\ req \in [Kubewatches -> Requests] /\ states \in [Pods -> States]
    BY DEF Requests, States
  <2> QED BY <1>1, <2>1, <2>2, <2>3 DEF TypeOK
<1>3. Undisturbed /\ SaysNews
  BY <1>1 DEF Undisturbed, SaysNews, StateOf
<1>4. TellsEnd /\ TellsStart
  BY DEF TellsEnd, TellsStart, Settled
<1> QED BY <1>2, <1>3, <1>4 DEF IInv

-----------------------------------------------------------------------------
(* The deployment, and pods that come and go *)

(* A change of the deployment queues an event with every kubewatch.           *)
LEMMA ClusterStep ==
    ASSUME IInv, RolloutStarts \/ RolloutProgresses \/ RolloutCompletes \/ RolloutStalls \/ Deleted
    PROVE  IInv'
<1>1. PICK r \in Reasons : Changes(r) /\ rollout' \in 0..MaxRollouts
  BY KubewatchAssumption DEF IInv, TypeOK, RolloutStarts, RolloutProgresses, RolloutCompletes,
     RolloutStalls, Deleted, Moves, Reasons, Reported
<1>2. slow' \in BOOLEAN
  BY DEF IInv, TypeOK, RolloutStarts, RolloutProgresses, RolloutCompletes, RolloutStalls, Deleted, Moves
<1>3. clean' \in BOOLEAN
  BY <1>1 DEF Changes
<1>4. r # "absent" => rollout' > 0
  <2>1. CASE RolloutStarts
    BY <2>1, KubewatchAssumption DEF IInv, TypeOK, RolloutStarts
  <2>2. CASE \/ RolloutProgresses \/ RolloutCompletes \/ RolloutStalls \/ Deleted
    <3>1. UNCHANGED rollout /\ reason # "absent"
      BY <2>2 DEF RolloutProgresses, RolloutCompletes, RolloutStalls, Deleted, Moves
    <3> QED BY <3>1 DEF IInv, TypeOK
  <2> QED BY <2>1, <2>2
<1>5. TypeOK'
  BY <1>1, <1>2, <1>3, <1>4 DEF IInv, TypeOK, Changes, memory, Busy
<1>6. ASSUME clean'
      PROVE  Undisturbed' /\ SaysNews' /\ TellsEnd'
  <2>1. clean /\ pending' # {}
    BY <1>1, <1>6 DEF Changes
  <2> QED BY <1>1, <2>1 DEF IInv, Undisturbed, SaysNews, TellsEnd, Changes, memory, Busy, Under, Current
<1>7. clean' => TellsStart'
  <2>1. slow' => slow /\ UNCHANGED rollout
    BY DEF RolloutStarts, RolloutProgresses, RolloutCompletes, RolloutStalls, Deleted, Moves
  <2> QED BY <1>1, <2>1 DEF IInv, TellsStart, Changes, memory, Under
<1> QED BY <1>5, <1>6, <1>7 DEF IInv

LEMMA KubewatchesStep ==
    ASSUME IInv, NEW k \in Kubewatches, KubewatchStarts(k) \/ KubewatchStops(k)
    PROVE  IInv'
<1>1. clean' \in BOOLEAN /\ slow' \in BOOLEAN
  BY DEF IInv, TypeOK, KubewatchStarts, KubewatchStops, history
<1>2. UNCHANGED <<rollout, reason, req, pods, states, posted>>
  BY DEF KubewatchStarts, KubewatchStops, cluster, memory, history
<1>3. kw' \subseteq Kubewatches /\ pending' \subseteq kw'
  BY DEF IInv, TypeOK, KubewatchStarts, KubewatchStops
<1>4. faults' \in 0..MaxFaults
  BY KubewatchAssumption DEF IInv, TypeOK, KubewatchStarts, KubewatchStops
<1>5. TypeOK'
  BY <1>1, <1>2, <1>3, <1>4 DEF IInv, TypeOK, Busy
<1>6. clean' => clean /\ UNCHANGED pending
  BY DEF KubewatchStarts, KubewatchStops, history
<1>7. UNCHANGED <<cluster, req, memory, posted, slow>>
  BY DEF KubewatchStarts, KubewatchStops, history
<1> QED BY <1>5, <1>6, <1>7 DEF IInv, Undisturbed, SaysNews, TellsEnd, TellsStart, cluster, memory,
        Busy, Under, Current

LEMMA PodsStep ==
    ASSUME IInv, NEW p \in Pods, PodStarts(p) \/ PodStops(p)
    PROVE  IInv'
<1>1. ~clean'
  BY DEF PodStarts, PodStops
<1>2. CASE PodStarts(p)
  <2>1. clean' \in BOOLEAN /\ slow' \in BOOLEAN
    BY <1>2 DEF IInv, TypeOK, PodStarts
  <2>2. /\ UNCHANGED <<rollout, reason, kw, pending, req, posted>>
        /\ pods' = pods \cup {p} /\ states' = [states EXCEPT ![p] = "none"]
    BY <1>2 DEF PodStarts, cluster, senders
  <2>3. faults' \in 0..MaxFaults
    BY <1>2, KubewatchAssumption DEF IInv, TypeOK, PodStarts
  <2>4. TypeOK'
    BY <2>1, <2>2, <2>3 DEF IInv, TypeOK, Busy, States
  <2> QED BY <1>1, <2>4 DEF IInv
<1>3. CASE PodStops(p)
  <2>1. /\ req' \in [Kubewatches -> Requests]
        /\ \A k \in Kubewatches : req'[k] = req[k] \/ req'[k] = None
        /\ \A k \in Kubewatches : Busy(k)' => req'[k] = req[k] /\ req[k].pod # p
    BY <1>3 DEF IInv, TypeOK, PodStops, Requests, Busy, None
  <2>2. \A k \in Kubewatches : req'[k].pc \in {"set", "post"} => req'[k] = req[k]
    BY <2>1 DEF None
  <2> QED BY <1>1, <1>3, <2>1, <2>2 DEF IInv, TypeOK, PodStops, cluster, Busy
<1> QED BY <1>2, <1>3

-----------------------------------------------------------------------------
(* Requests *)

(* A request begins: the only one, unless the history is disturbed.           *)
LEMMA DeliverStep ==
    ASSUME IInv, NEW k \in Kubewatches, Deliver(k) \/ DeliverFails(k)
    PROVE  IInv'
<1>1. CASE DeliverFails(k)
  BY <1>1 DEF IInv, TypeOK, DeliverFails, cluster, memory, Busy
<1>2. ASSUME NEW p \in pods, req' = [req EXCEPT ![k] = [pc |-> "fetch", pod |-> p]], Deliver(k)
      PROVE  IInv'
  <2>1. /\ p \in Pods /\ ~Busy(k)
        /\ req' \in [Kubewatches -> Requests]
        /\ req'[k].pc = "fetch" /\ req'[k].pod = p /\ ~Under(k)'
        /\ \A j \in Kubewatches \ {k} : req'[j] = req[j]
    BY <1>2 DEF IInv, TypeOK, Requests, Under, Deliver
  <2>2. Busy(k)'
    BY <2>1 DEF Busy, None
  <2>3. TypeOK'
    BY <1>2, <2>1, <2>2 DEF IInv, TypeOK, Deliver, cluster, memory, Busy
  <2>4. ASSUME clean'
        PROVE  Undisturbed' /\ SaysNews' /\ TellsEnd' /\ TellsStart'
    <3>1. clean /\ \A j \in Kubewatches : ~Busy(j)
      BY <1>2, <2>1, <2>4 DEF Deliver, Alone
    <3>2. \A j \in Kubewatches : req[j].pc = "idle"
      BY <3>1, Shape DEF IInv
    <3>3. \A j \in Kubewatches \ {k} : ~Busy(j)' /\ req'[j].pc = "idle"
      BY <2>1, <3>1, <3>2 DEF Busy
    <3> QED BY <1>2, <2>1, <2>2, <3>1, <3>2, <3>3
            DEF IInv, Undisturbed, SaysNews, TellsEnd, TellsStart, Deliver, cluster, memory, Under
  <2> QED BY <2>3, <2>4 DEF IInv
<1> QED BY <1>1, <1>2 DEF Deliver

(* A request reads the deployment.                                            *)
LEMMA FetchStep ==
    ASSUME IInv, NEW k \in Kubewatches, Fetch(k)
    PROVE  IInv'
<1>1. Busy(k) /\ req[k].pod \in pods /\ pods \subseteq Pods
  BY Shape DEF IInv, Fetch, TypeOK
<1>2. CASE reason = "absent"
  <2> USE <1>2 DEF Fetch
  <2>1. Ends(k) /\ UNCHANGED slow
    OBVIOUS
  <2>2. TypeOK'
    BY <2>1, Ended DEF IInv, TypeOK, cluster, memory
  <2>3. UNCHANGED <<rollout, reason, pending, pods, states, posted, clean>>
    BY DEF cluster, memory
  <2>4. \A j \in Kubewatches : /\ j # k => req'[j] = req[j]
                               /\ Under(j)' <=> Under(j)
    BY <2>1, Ended DEF Under, IInv
  <2>5. req[k].pc # "post" /\ reason \notin Settled
    BY DEF Settled
  <2> QED BY <2>1, <2>2, <2>3, <2>4, <2>5, Ended
          DEF IInv, Undisturbed, SaysNews, TellsEnd, TellsStart, Current, Under
<1>3. CASE reason # "absent"
  <2> DEFINE new == [pc |-> "decide", pod |-> req[k].pod, saw |-> reason, of |-> rollout]
  <2>1. /\ req' = [req EXCEPT ![k] = new]
        /\ slow' = (slow \/ reason = "updated")
        /\ UNCHANGED <<rollout, reason, kw, pending, pods, states, posted, clean, faults>>
    BY <1>3 DEF Fetch, cluster, memory
  <2>2. new \in [pc : {"decide", "set", "post"}, pod : Pods, saw : Reasons \ {"absent"}, of : 1..MaxRollouts]
    BY <1>1, <1>3, KubewatchAssumption DEF IInv, TypeOK
  <2>3. /\ req' \in [Kubewatches -> Requests]
        /\ req'[k].pc = "decide" /\ req'[k].saw = reason /\ req'[k].of = rollout
        /\ req'[k].pod = req[k].pod
        /\ \A j \in Kubewatches \ {k} : req'[j] = req[j]
    BY <2>1, <2>2 DEF IInv, TypeOK, Requests
  <2>4. \A j \in Kubewatches : Busy(j)' <=> Busy(j)
    BY <1>1, <2>3 DEF Busy, None
  <2>5. TypeOK'
    BY <1>1, <2>1, <2>3, <2>4 DEF IInv, TypeOK
  <2>6. req[k].pc = "fetch"
    BY DEF Fetch
  <2>7. ASSUME clean
        PROVE  \A j \in Kubewatches \ {k} : ~Busy(j) /\ ~Under(j) /\ ~Under(j)' /\ req'[j].pc = "idle"
    BY <1>1, <2>3, <2>7, Shape DEF IInv, Undisturbed, Under
  <2>8. clean => Undisturbed' /\ SaysNews' /\ TellsEnd'
    BY <1>1, <2>1, <2>3, <2>4, <2>6, <2>7 DEF IInv, Undisturbed, SaysNews, TellsEnd
  <2>9. clean => TellsStart'
    BY <2>1, <2>3, <2>6, <2>7 DEF IInv, TellsStart, Under
  <2> QED BY <2>1, <2>5, <2>8, <2>9 DEF IInv
<1> QED BY <1>2, <1>3

(* It decides, by what it read and the state of now.                          *)
LEMMA DecideStep ==
    ASSUME IInv, NEW k \in Kubewatches, Decide(k)
    PROVE  IInv'
<1> DEFINE posts == req[k].saw \in Reported /\ Current(k) # Target[req[k].saw]
<1>1. /\ Under(k) /\ Busy(k) /\ req[k].pc = "decide"
      /\ req[k].pod \in pods /\ req[k].saw \in Reasons \ {"absent"}
  BY Shape DEF Decide, Decides, Under, IInv
<1>2. /\ UNCHANGED <<rollout, reason, kw, pending, pods, states, posted, clean, slow, faults>>
      /\ posts => req' = [req EXCEPT ![k].pc = "set"]
      /\ ~posts => Ends(k)
  BY DEF Decide, Decides, cluster, memory, history
<1>3. CASE posts
  <2> HIDE DEF posts
  <2>1. /\ req' \in [Kubewatches -> Requests]
        /\ req'[k].pc = "set" /\ req'[k].pod = req[k].pod
        /\ req'[k].saw = req[k].saw /\ req'[k].of = req[k].of
        /\ \A j \in Kubewatches \ {k} : req'[j] = req[j]
        /\ \A j \in Kubewatches : Busy(j)' <=> Busy(j)
    BY <1>1, <1>2, <1>3, GoesOn DEF IInv
  <2>2. TypeOK'
    BY <1>1, <1>2, <1>3, <2>1 DEF IInv, TypeOK, posts
  <2>3. \A j \in Kubewatches : Under(j)' <=> Under(j)
    BY <1>1, <2>1 DEF Under
  <2>4. clean => Undisturbed' /\ SaysNews'
    BY <1>1, <1>2, <1>3, <2>1 DEF IInv, Undisturbed, SaysNews, Current, posts
  <2>5. clean => TellsEnd' /\ TellsStart'
    BY <1>1, <1>2, <2>1, <2>3 DEF IInv, TellsEnd, TellsStart
  <2> QED BY <1>2, <2>2, <2>4, <2>5 DEF IInv
<1>4. CASE ~posts
  <2> HIDE DEF posts
  <2>1. /\ Ends(k)
        /\ req' \in [Kubewatches -> Requests] /\ req'[k] = None /\ req'[k].pc = "idle"
        /\ \A j \in Kubewatches \ {k} : req'[j] = req[j]
        /\ \A j \in Kubewatches : Busy(j)' <=> Busy(j) /\ j # k
    BY <1>2, <1>4, Ended DEF IInv
  <2>2. TypeOK'
    BY <1>2, <2>1 DEF IInv, TypeOK
  <2>3. ASSUME clean
        PROVE  /\ \A j \in Kubewatches : j # k => ~Busy(j) /\ req[j].pc = "idle"
               /\ states[req[k].pod] = StateOf(posted.kind)
    BY <1>1, <2>3, Shape DEF IInv, Undisturbed
  <2>4. clean => Undisturbed' /\ SaysNews'
    BY <1>1, <1>2, <2>1, <2>3 DEF IInv, Undisturbed, SaysNews
  <2>5. req[k].saw \in Reported => Target[req[k].saw] = states[req[k].pod]
    BY <1>4 DEF posts, Current
  <2>6. clean /\ req[k].saw \in Reported => posted.kind = req[k].saw
    BY <1>1, <2>3, <2>5 DEF IInv, TypeOK, StateOf, Target, Reported
  <2>7. clean => TellsEnd'
    BY <1>1, <1>2, <2>1, <2>3, <2>6 DEF IInv, TellsEnd, Under, Settled, Reported
  <2>8. clean => TellsStart'
    BY <1>1, <1>2, <2>1, <2>3, <2>6 DEF IInv, TellsStart, Under, Reported
  <2> QED BY <1>2, <2>2, <2>4, <2>7, <2>8 DEF IInv
<1> QED BY <1>3, <1>4

(* It sets the state.                                                         *)
LEMMA SetStep ==
    ASSUME IInv, NEW k \in Kubewatches, SetState(k)
    PROVE  IInv'
<1>1. /\ Under(k) /\ Busy(k) /\ req[k].pc = "set"
      /\ req[k].pod \in pods /\ req[k].pod \in Pods /\ req[k].saw \in Reported
  BY Shape DEF SetState, Under, IInv
<1>2. /\ UNCHANGED <<rollout, reason, kw, pending, pods, posted, clean, slow, faults>>
      /\ states' = [states EXCEPT ![req[k].pod] = Target[req[k].saw]]
      /\ req' = [req EXCEPT ![k].pc = "post"]
  BY DEF SetState, cluster, history
<1>3. /\ req' \in [Kubewatches -> Requests]
      /\ req'[k].pc = "post" /\ req'[k].pod = req[k].pod
      /\ req'[k].saw = req[k].saw /\ req'[k].of = req[k].of
      /\ \A j \in Kubewatches \ {k} : req'[j] = req[j]
      /\ \A j \in Kubewatches : Busy(j)' <=> Busy(j)
  BY <1>1, <1>2, GoesOn DEF IInv
<1>4. Target[req[k].saw] \in States
  BY <1>1 DEF Target, Reported, States
<1>5. TypeOK'
  BY <1>1, <1>2, <1>3, <1>4 DEF IInv, TypeOK
<1>6. \A j \in Kubewatches : Under(j)' <=> Under(j)
  BY <1>1, <1>3 DEF Under
<1>7. ASSUME clean
      PROVE  /\ \A j \in Kubewatches : j # k => ~Busy(j) /\ req[j].pc = "idle"
             /\ states[req[k].pod] = StateOf(posted.kind)
             /\ states[req[k].pod] # Target[req[k].saw]
  BY <1>1, <1>7, Shape DEF IInv, Undisturbed, SaysNews, Current
<1>8. clean => req[k].saw # posted.kind
  BY <1>1, <1>7 DEF StateOf, Target, Reported
<1>9. states'[req[k].pod] = Target[req[k].saw]
  BY <1>1, <1>2 DEF IInv, TypeOK
<1>10. clean => Undisturbed' /\ SaysNews'
  BY <1>1, <1>2, <1>3, <1>7, <1>8, <1>9 DEF IInv, Undisturbed, SaysNews, Current
<1>11. clean => TellsEnd' /\ TellsStart'
  BY <1>1, <1>2, <1>3, <1>6 DEF IInv, TellsEnd, TellsStart
<1> QED BY <1>2, <1>5, <1>10, <1>11 DEF IInv

(* It posts, and may set things right again.                                  *)
LEMMA PostStep ==
    ASSUME IInv, NEW k \in Kubewatches, Post(k)
    PROVE  IInv'
<1>1. /\ Under(k) /\ Busy(k) /\ req[k].pc = "post"
      /\ req[k].pod \in pods /\ req[k].saw \in Reported /\ req[k].of \in 1..MaxRollouts
  BY Shape DEF Post, Under, IInv
<1>2. /\ UNCHANGED <<rollout, reason, kw, pending, pods, states, slow, faults>>
      /\ posted' = [kind |-> req[k].saw, of |-> req[k].of]
      /\ posted'.kind = req[k].saw /\ posted'.of = req[k].of
      /\ clean' = (clean \/ Heals(k))
  BY DEF Post, cluster, memory
<1>3. /\ req' \in [Kubewatches -> Requests] /\ req'[k] = None /\ req'[k].pc = "idle"
      /\ \A j \in Kubewatches \ {k} : req'[j] = req[j]
      /\ \A j \in Kubewatches : Busy(j)' <=> Busy(j) /\ j # k
  BY Ended DEF IInv, Post
<1>4. TypeOK'
  BY <1>1, <1>2, <1>3, KubewatchAssumption DEF IInv, TypeOK
<1>5. ASSUME clean'
      PROVE  /\ \A j \in Kubewatches : ~Busy(j)' /\ req'[j].pc = "idle" /\ ~Under(j)'
             /\ \A p \in pods : states[p] = Target[req[k].saw] /\ p = req[k].pod
             /\ pending = {} /\ reason \in Settled => req[k].saw = reason
             /\ slow => req[k].of = rollout
  <2>1. CASE clean
    <3>1. \A j \in Kubewatches : j # k => ~Busy(j) /\ req[j].pc = "idle"
      BY <1>1, <2>1, Shape DEF IInv, Undisturbed
    <3>2. \A j \in Kubewatches : ~Busy(j)' /\ req'[j].pc = "idle" /\ ~Under(j)'
      BY <1>3, <3>1 DEF Under
    <3> QED BY <1>1, <2>1, <3>2 DEF IInv, Undisturbed, SaysNews, TellsEnd, TellsStart, Current
  <2>2. CASE Heals(k)
    <3>1. \A j \in Kubewatches : j # k => ~Busy(j) /\ req[j].pc = "idle"
      BY <2>2, Shape DEF IInv, Heals, Alone
    <3>2. \A j \in Kubewatches : ~Busy(j)' /\ req'[j].pc = "idle" /\ ~Under(j)'
      BY <1>3, <3>1 DEF Under
    <3> QED BY <2>2, <3>2 DEF Heals, Current
  <2> QED BY <1>2, <1>5, <2>1, <2>2
<1>6. StateOf(req[k].saw) = Target[req[k].saw]
  BY <1>1 DEF StateOf, Reported
<1>7. clean' => Undisturbed' /\ SaysNews'
  BY <1>2, <1>5, <1>6 DEF Undisturbed, SaysNews
<1>8. clean' => TellsEnd' /\ TellsStart'
  BY <1>2, <1>5 DEF TellsEnd, TellsStart
<1> QED BY <1>4, <1>7, <1>8 DEF IInv

(* Or it fails.                                                               *)
LEMMA FailStep ==
    ASSUME IInv, NEW k \in Kubewatches, FetchFails(k) \/ PostFails(k)
    PROVE  IInv'
<1>1. Ends(k) /\ ~clean' /\ UNCHANGED <<rollout, reason, kw, pending, pods, states, posted, slow, faults>>
  BY DEF FetchFails, PostFails, cluster, memory
<1>2. clean' \in BOOLEAN
  BY DEF FetchFails, PostFails
<1>3. TypeOK'
  BY <1>1, <1>2, Ended DEF IInv, TypeOK
<1> QED BY <1>1, <1>3 DEF IInv

LEMMA Inductive == IInv /\ [Next]_vars => IInv'
<1> SUFFICES ASSUME IInv, [Next]_vars
             PROVE  IInv'
  OBVIOUS
<1>1. CASE UNCHANGED vars
  BY <1>1 DEF IInv, TypeOK, Undisturbed, SaysNews, TellsEnd, TellsStart, Under, Busy, Current,
     vars, cluster, senders, memory, history
<1> QED
  BY <1>1, ClusterStep, KubewatchesStep, PodsStep, DeliverStep, FetchStep, DecideStep, SetStep,
     PostStep, FailStep DEF Next, Handle

LEMMA Invariant == Spec => []IInv
BY Initially, Inductive, PTL DEF Spec

-----------------------------------------------------------------------------

(* Every reachable state is typed: a request runs in a pod that runs, and     *)
(* only a reason the handler reports gets as far as a message.                *)
THEOREM TypeCorrect == Spec => []TypeOK
<1>1. IInv => TypeOK
  BY DEF IInv
<1> QED BY <1>1, Invariant, PTL

(* The same message is never posted twice in a row while no request           *)
(* overlaps another and nothing is lost, for any number of rollouts and pods. *)
THEOREM NeverRepeats == Spec => []NoRepeat
<1>1. IInv => NoRepeat
  BY DEF IInv, SaysNews, NoRepeat
<1> QED BY <1>1, Invariant, PTL

(* When every event is handled the last message tells how the newest rollout  *)
(* ended, with the exceptions of the property, for any number of rollouts.    *)
THEOREM EndsRight == Spec => []LastMessageIsRight
<1>1. IInv => LastMessageIsRight
  <2> SUFFICES ASSUME IInv, pending = {}, \A k \in Kubewatches : ~Busy(k), clean, reason \in Settled
               PROVE  posted.kind = reason /\ (slow => posted.of = rollout)
    BY DEF LastMessageIsRight, AtRest
  <2>1. posted.kind = reason
    BY DEF IInv, TellsEnd
  <2>2. \A k \in Kubewatches : ~Under(k)
    BY Shape DEF IInv, Under
  <2>3. posted.kind # "updated"
    BY <2>1 DEF Settled
  <2> QED BY <2>1, <2>2, <2>3 DEF IInv, TellsStart
<1> QED BY <1>1, Invariant, PTL
=============================================================================
