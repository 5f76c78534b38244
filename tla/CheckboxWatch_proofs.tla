------------------------- MODULE CheckboxWatch_proofs -------------------------
(***************************************************************************)
(* Proofs about the watch for any number of pods, requests, authors and    *)
(* issues, whatever lookups and messages fail and whenever pods come and   *)
(* go: a pod's slot is taken exactly while one request works under it,     *)
(* thanks are deserved, and the watch changes no issue.                    *)
(***************************************************************************)
EXTENDS CheckboxWatch, WellFoundedInduction, TLAPS

-----------------------------------------------------------------------------
(* The release issues *)

(* A set of natural numbers has a least element.                              *)
LEMMA LeastExists ==
    ASSUME NEW T, T \subseteq Nat, T # {}
    PROVE  \E x \in T : \A y \in T : x <= y
<1> DEFINE R == OpToRel(<, Nat)
<1>1. IsWellFoundedOn(R, Nat)
  BY NatLessThanWellFounded
<1>2. \A x, y \in Nat : <<y, x>> \in R <=> y < x
  BY DEF OpToRel
<1> HIDE DEF R
<1>3. PICK x \in T : \A y \in T : ~(<<y, x>> \in R)
  BY <1>1, WFMin
<1>4. \A y \in T : x \in Nat /\ y \in Nat /\ ~(y < x)
  BY <1>2, <1>3
<1> QED BY <1>3, <1>4

(* The maximum of a set of issues is one of them, and none is above it.       *)
LEMMA MaxOf ==
  ASSUME NEW S, S \subseteq Issues, S # {}
  PROVE  Max(S) \in S /\ \A y \in S : y <= Max(S)
<1> DEFINE T == {MaxIssues - x : x \in S}
<1>1. \A x \in S : x \in Int /\ MaxIssues - x \in Nat
  BY IssuesAssumption DEF Issues
<1>2. T \subseteq Nat /\ T # {}
  BY <1>1, Zenon
<1> HIDE DEF T
<1>3. PICK t \in T : \A y \in T : t <= y
  BY <1>2, LeastExists
<1>4. PICK x \in S : t = MaxIssues - x
  BY DEF T
<1>5. \A y \in S : MaxIssues - y \in T
  BY DEF T
<1>6. \A y \in S : x >= y
  BY <1>1, <1>3, <1>4, <1>5, IssuesAssumption
<1> QED BY <1>4, <1>6 DEF Max

(* People, and pods that come and go, keep the issues well formed.            *)
LEMMA IssueTypeStep ==
    ASSUME IssueTypeOK, IssueNext
    PROVE  IssueTypeOK'
<1>1. ASSUME NEW p \in Pods, PodStart(p) \/ PodStop(p) PROVE IssueTypeOK'
  BY <1>1, IssuesAssumption DEF IssueTypeOK, PodStart, PodStop
<1>2. ASSUME NEW i \in Issues, OpenIssue(i) PROVE IssueTypeOK'
  BY <1>2 DEF IssueTypeOK, OpenIssue, pods
<1>3. ASSUME NEW i \in Issues, CloseIssue(i) PROVE IssueTypeOK'
  BY <1>3 DEF IssueTypeOK, CloseIssue, pods
<1>4. ASSUME NEW i \in Issues, NEW a \in Lines, CheckBox(i, a) PROVE IssueTypeOK'
  BY <1>4 DEF IssueTypeOK, CheckBox, pods
<1> QED BY <1>1, <1>2, <1>3, <1>4 DEF IssueNext, PeopleNext

-----------------------------------------------------------------------------

(* Where the requests are. *)
Placed ==
    /\ pod \in [Requests -> Pods]
    /\ rpc \in [Requests -> {"idle", "fetch", "poll", "refresh", "stopped"}]

(* A slot that is taken has a request at work under it... *)
Used == \A p \in slot : \E r \in Requests : pod[r] = p /\ Watching(r)

(* ... a request at work holds the slot of its pod... *)
Reserved == \A r \in Requests : Watching(r) => pod[r] \in slot

(* ... and no two hold the same one. *)
Single ==
    \A r, s \in Requests :
        Watching(r) /\ Watching(s) /\ pod[r] = pod[s] => r = s

SlotInv == Placed /\ Used /\ Reserved /\ Single

-----------------------------------------------------------------------------

(* Nobody watches at first. *)
LEMMA SlotInit == Init => SlotInv
<1> SUFFICES ASSUME Init PROVE SlotInv
  OBVIOUS
<1>1. Placed
  <2>1. PICK p \in up : pod = [r \in Requests |-> p]
    BY DEF Init
  <2>2. up \subseteq Pods
    BY DEF Init, IssueInit
  <2> QED BY <2>1, <2>2 DEF Init, Placed
<1>2. slot = {} /\ \A r \in Requests : rpc[r] = "idle"
  BY DEF Init
<1> QED BY <1>1, <1>2 DEF SlotInv, Used, Reserved, Single, Watching

(* A step that changes neither slot nor any request's place keeps it. *)
LEMMA SlotFrame ==
  ASSUME SlotInv, UNCHANGED <<slot, pod, rpc>>
  PROVE  SlotInv'
BY DEF SlotInv, Placed, Used, Reserved, Single, Watching

(* A request at work that goes on at work. *)
LEMMA SlotGoesOn ==
  ASSUME SlotInv, NEW r \in Requests, Watching(r),
         NEW step \in {"fetch", "poll", "refresh"}, Goto(r, step),
         UNCHANGED <<slot, pod>>
  PROVE  SlotInv'
<1>1. /\ Placed'
      /\ \A s \in Requests : Watching(s)' <=> Watching(s)
  BY DEF SlotInv, Placed, Watching, Goto
<1> QED BY <1>1 DEF SlotInv, Placed, Used, Reserved, Single

(* A request at work that ends, and frees the slot: it was the only one.      *)
LEMMA SlotFreed ==
  ASSUME SlotInv, NEW r \in Requests, Watching(r),
         NEW step \in {"idle", "stopped"}, Goto(r, step),
         slot' = slot \ {pod[r]}, UNCHANGED pod
  PROVE  SlotInv'
<1>1. /\ Placed'
      /\ \A s \in Requests : Watching(s)' <=> Watching(s) /\ s # r
  BY DEF SlotInv, Placed, Watching, Goto
<1>2. Used'
  <2> SUFFICES ASSUME NEW p \in slot'
               PROVE  \E s \in Requests : pod'[s] = p /\ Watching(s)'
    BY DEF Used
  <2>1. PICK s \in Requests : pod[s] = p /\ Watching(s)
    BY DEF SlotInv, Used
  <2>2. s # r
    BY <2>1
  <2> QED BY <1>1, <2>1, <2>2
<1>3. Reserved'
  BY <1>1 DEF SlotInv, Reserved, Single
<1>4. Single'
  BY <1>1 DEF SlotInv, Single
<1> QED BY <1>1, <1>2, <1>3, <1>4 DEF SlotInv

(* The reservation: nobody works under a slot that is free, and the check and *)
(* the reservation are one step.                                              *)
LEMMA SlotReserved ==
  ASSUME SlotInv, NEW r \in Requests, NEW p \in Pods, WaitStart(r, p)
  PROVE  SlotInv'
<1>1. /\ rpc[r] = "idle" /\ p \notin slot
      /\ slot' = slot \cup {p}
      /\ pod' = [pod EXCEPT ![r] = p] /\ rpc' = [rpc EXCEPT ![r] = "fetch"]
  BY DEF WaitStart, Goto
<1>2. Placed'
  BY <1>1 DEF SlotInv, Placed
<1>3. /\ ~Watching(r)
      /\ Watching(r)' /\ pod'[r] = p
      /\ \A s \in Requests \ {r} : (Watching(s)' <=> Watching(s)) /\ pod'[s] = pod[s]
  BY <1>1 DEF SlotInv, Placed, Watching
<1>4. \A s \in Requests : Watching(s) => pod[s] # p
  BY <1>1 DEF SlotInv, Reserved
<1>5. Used'
  BY <1>1, <1>3 DEF SlotInv, Used
<1>6. Reserved' /\ Single'
  BY <1>1, <1>3, <1>4 DEF SlotInv, Reserved, Single
<1> QED BY <1>2, <1>5, <1>6 DEF SlotInv

(* A pod that stops takes its slot and all its requests with it. *)
LEMMA SlotPodStop ==
  ASSUME SlotInv, NEW p \in Pods, WatchPodStop(p)
  PROVE  SlotInv'
<1>1. /\ slot' = slot \ {p} /\ pod' = pod
      /\ rpc' = [r \in Requests |-> IF pod[r] = p THEN "idle" ELSE rpc[r]]
  BY DEF WatchPodStop
<1>2. Placed'
  BY <1>1 DEF SlotInv, Placed
<1>3. \A r \in Requests : Watching(r)' <=> Watching(r) /\ pod[r] # p
  BY <1>1 DEF Watching
<1> QED BY <1>1, <1>2, <1>3 DEF SlotInv, Used, Reserved, Single

(* Every step of a request's coroutine. *)
LEMMA SlotRequest ==
  ASSUME SlotInv, NEW r \in Requests,
         WaitRefused(r) \/ WaitAccepted(r) \/ Watch(r)
  PROVE  SlotInv'
<1>1. CASE WaitRefused(r)
  BY <1>1, SlotFreed DEF WaitRefused, Watching
<1>2. CASE WaitAccepted(r)
  BY <1>2, SlotGoesOn DEF WaitAccepted, Watching
<1>3. CASE WatchPollEnds(r)
  BY <1>3, SlotFreed DEF WatchPollEnds, StopWatch, Watching
<1>4. CASE WatchPoll(r)
  BY <1>4, SlotGoesOn DEF WatchPoll, Watching
<1>5. CASE WatchRefresh(r)
  BY <1>5, SlotGoesOn DEF WatchRefresh, Watching
<1>6. CASE WatchThanksFail(r)
  BY <1>6, SlotFreed DEF WatchThanksFail, StopWatch, Watching
<1>7. CASE WatchRefreshFails(r)
  BY <1>7, SlotGoesOn DEF WatchRefreshFails, Watching
<1> QED BY <1>1, <1>2, <1>3, <1>4, <1>5, <1>6, <1>7 DEF Watch

(* A request that is over is forgotten; it held no slot. *)
LEMMA SlotForget ==
  ASSUME SlotInv, NEW r \in Requests, Forget(r)
  PROVE  SlotInv'
<1>1. /\ Placed'
      /\ \A s \in Requests : Watching(s)' <=> Watching(s)
      /\ UNCHANGED <<slot, pod>>
  BY DEF Forget, Goto, SlotInv, Placed, Watching
<1> QED BY <1>1 DEF SlotInv, Used, Reserved, Single

(* Every step preserves the invariant. *)
LEMMA SlotStep == SlotInv /\ [Next]_vars => SlotInv'
<1> SUFFICES ASSUME SlotInv, [Next]_vars PROVE SlotInv'
  OBVIOUS
<1>1. CASE \E r \in Requests, p \in Pods : WaitStart(r, p)
  BY <1>1, SlotReserved
<1>2. CASE \E r \in Requests : WaitRefused(r) \/ WaitAccepted(r) \/ Watch(r)
  BY <1>2, SlotRequest
<1>3. CASE \E r \in Requests : Forget(r)
  BY <1>3, SlotForget
<1>4. CASE \E p \in Pods : WatchPodStop(p)
  BY <1>4, SlotPodStop
<1>5. CASE UNCHANGED <<slot, request>>
  BY <1>5, SlotFrame DEF request
<1>6. CASE UNCHANGED vars
  BY <1>6, SlotFrame DEF vars, request
<1> QED BY <1>1, <1>2, <1>3, <1>4, <1>5, <1>6 DEF Next

(* A pod's slot is taken exactly while one request looks the checklist up or  *)
(* watches it: watches neither double up nor leave a slot behind.             *)
THEOREM SlotSafe == Spec => []OneWatchPerSlot
<1>1. SlotInv => OneWatchPerSlot
  BY DEF SlotInv, Used, Reserved, Single, OneWatchPerSlot
<1> QED BY SlotInit, SlotStep, <1>1, PTL DEF Spec

-----------------------------------------------------------------------------
(* Types, and what they give *)

LEMMA TypeInit == Init => TypeOK
BY IssuesAssumption DEF Init, IssueInit, TypeOK, IssueTypeOK

(* The newest open issue is an issue; whoever is outstanding is an author.    *)
LEMMA OutstandingAuthors == ASSUME TypeOK PROVE Outstanding \subseteq Authors
<1>1. CASE OpenIssues = {}
  BY <1>1 DEF Outstanding
<1>2. CASE OpenIssues # {}
  <2>1. OpenIssues \subseteq Issues
    BY DEF OpenIssues
  <2>2. Head \in Issues
    BY <1>2, <2>1, MaxOf DEF Head
  <2> QED BY <1>2, <2>2 DEF TypeOK, IssueTypeOK, Outstanding, Lines
<1> QED BY <1>1, <1>2

(* What the watch does leaves the issues alone, or is a step of theirs.       *)
LEMMA IssueStep == [Next]_vars => [IssueNext]_issueVars
<1> SUFFICES ASSUME [Next]_vars PROVE [IssueNext]_issueVars
  OBVIOUS
<1>1. ASSUME NEW r \in Requests,
             (\E p \in Pods : WaitStart(r, p)) \/ WaitRefused(r) \/ WaitAccepted(r) \/ Watch(r)
               \/ Forget(r)
      PROVE  UNCHANGED issueVars
  BY <1>1 DEF WaitStart, WaitRefused, WaitAccepted, Forget, Watch, WatchPollEnds, WatchPoll,
              WatchRefresh, WatchThanksFail, WatchRefreshFails
<1>2. ASSUME NEW p \in Pods, WatchPodStop(p) PROVE IssueNext
  BY <1>2 DEF WatchPodStop, IssueNext
<1>3. CASE PeopleNext \/ \E p \in Pods : PodStart(p)
  BY <1>3 DEF IssueNext
<1>4. CASE UNCHANGED vars
  BY <1>4 DEF vars
<1> QED BY <1>1, <1>2, <1>3, <1>4, Zenon DEF Next

LEMMA TypeStep == TypeOK /\ [Next]_vars => TypeOK'
<1> SUFFICES ASSUME TypeOK, [Next]_vars PROVE TypeOK'
  OBVIOUS
<1>1. IssueTypeOK'
  <2>1. CASE IssueNext
    BY <2>1, IssueTypeStep DEF TypeOK
  <2>2. CASE UNCHANGED issueVars
    BY <2>2 DEF TypeOK, IssueTypeOK, issueVars
  <2> QED BY <2>1, <2>2, IssueStep
<1>2. ASSUME NEW r \in Requests, NEW p \in Pods, WaitStart(r, p) PROVE TypeOK'
  BY <1>1, <1>2 DEF TypeOK, WaitStart, Goto
<1>3. ASSUME NEW r \in Requests, WaitRefused(r) \/ WaitAccepted(r) \/ Forget(r) PROVE TypeOK'
  BY <1>1, <1>3 DEF TypeOK, WaitRefused, WaitAccepted, Forget, Goto
<1>4. ASSUME NEW r \in Requests, Watch(r) PROVE TypeOK'
  <2>1. CASE WatchPoll(r)
    <3>1. Head \in Issues
      <4>1. OpenIssues \subseteq Issues /\ OpenIssues # {}
        BY <2>1 DEF WatchPoll, OpenIssues, Outstanding
      <4> QED BY <4>1, MaxOf DEF Head
    <3> QED BY <1>1, <2>1, <3>1, OutstandingAuthors DEF TypeOK, WatchPoll, Goto
  <2>2. CASE WatchRefresh(r)
    BY <1>1, <2>2 DEF TypeOK, WatchRefresh, NewlyDone, Goto
  <2>3. CASE WatchPollEnds(r) \/ WatchThanksFail(r) \/ WatchRefreshFails(r)
    BY <1>1, <2>3 DEF TypeOK, WatchPollEnds, WatchThanksFail, WatchRefreshFails, StopWatch, Goto
  <2> QED BY <1>4, <2>1, <2>2, <2>3 DEF Watch
<1>5. ASSUME NEW p \in Pods, WatchPodStop(p) PROVE TypeOK'
  BY <1>1, <1>5 DEF TypeOK, WatchPodStop
<1>6. CASE UNCHANGED <<slot, request>>
  BY <1>1, <1>6 DEF TypeOK, request
<1>7. CASE UNCHANGED vars
  BY <1>1, <1>7 DEF TypeOK, vars, request
<1> QED BY <1>2, <1>3, <1>4, <1>5, <1>6, <1>7, Zenon DEF Next

(* Types, of the issues and of what a watch remembers.                        *)
THEOREM TypeCorrect == Spec => []TypeOK
BY TypeInit, TypeStep, PTL DEF Spec

(* The issue that a round polled was opened before. *)
Polled ==
    \A r \in Requests : rpc[r] = "refresh" =>
        polled[r] \in Issues /\ status[polled[r]] # "none"

LEMMA PolledStep == TypeOK /\ Polled /\ [Next]_vars => Polled'
<1> SUFFICES ASSUME TypeOK, Polled, [Next]_vars, NEW r \in Requests, rpc'[r] = "refresh"
             PROVE  polled'[r] \in Issues /\ status'[polled'[r]] # "none"
  BY DEF Polled
<1>1. ASSUME NEW i \in Issues, status[i] # "none" PROVE status'[i] # "none"
  <2>1. CASE IssueNext
    BY <1>1, <2>1 DEF IssueNext, PeopleNext, OpenIssue, CloseIssue, CheckBox, PodStart, PodStop,
       TypeOK, IssueTypeOK
  <2>2. CASE UNCHANGED issueVars
    BY <1>1, <2>2 DEF issueVars
  <2> QED BY <2>1, <2>2, IssueStep
<1>2. CASE rpc[r] = "refresh" /\ polled'[r] = polled[r]
  BY <1>1, <1>2 DEF Polled
<1>3. CASE WatchPoll(r)
  <2>1. OpenIssues \subseteq Issues /\ OpenIssues # {}
    BY <1>3 DEF WatchPoll, OpenIssues, Outstanding
  <2>2. Head \in OpenIssues
    BY <2>1, MaxOf DEF Head
  <2>3. Head \in Issues /\ status[Head] # "none"
    BY <2>2 DEF OpenIssues
  <2>4. polled'[r] = Head
    BY <1>3 DEF WatchPoll, TypeOK
  <2> QED BY <1>1, <2>3, <2>4
<1>4. (rpc[r] = "refresh" /\ polled'[r] = polled[r]) \/ WatchPoll(r)
  <2>1. ASSUME NEW s \in Requests,
               (\E p \in Pods : WaitStart(s, p)) \/ WaitRefused(s) \/ WaitAccepted(s)
                 \/ Watch(s) \/ Forget(s)
        PROVE  (rpc[r] = "refresh" /\ polled'[r] = polled[r]) \/ WatchPoll(r)
    BY <2>1 DEF TypeOK, WaitStart, WaitRefused, WaitAccepted, Forget, Watch, WatchPollEnds,
       WatchPoll, WatchRefresh, WatchThanksFail, WatchRefreshFails, StopWatch, Goto
  <2>2. ASSUME NEW p \in Pods, WatchPodStop(p)
        PROVE  rpc[r] = "refresh" /\ polled'[r] = polled[r]
    BY <2>2 DEF TypeOK, WatchPodStop
  <2>3. CASE UNCHANGED <<slot, request>> \/ UNCHANGED vars
    BY <2>3 DEF request, vars
  <2> QED BY <2>1, <2>2, <2>3, Zenon DEF Next
<1> QED BY <1>2, <1>3, <1>4

(* Whatever lookups fail and whenever people tick, untick, open and close: an *)
(* author is thanked only if the newest open issue has no box of theirs       *)
(* unchecked, and despite one on the issue polled before only if a newer one  *)
(* was opened since, or that one closed.                                      *)
THEOREM ThanksAreDeserved == Spec => ThanksDeserved
<1> DEFINE Deserved == \A r \in Requests : \A a \in thanked'[r] \ thanked[r] :
                          /\ a \notin unchecked[Head]
                          /\ a \in unchecked[polled[r]] =>
                               Head > polled[r] \/ status[polled[r]] = "closed"
<1>1. TypeOK /\ Polled /\ [Next]_vars => [Deserved]_vars
  <2> SUFFICES ASSUME TypeOK, Polled, Next, NEW r \in Requests,
                      NEW a \in thanked'[r] \ thanked[r]
               PROVE  /\ a \notin unchecked[Head]
                      /\ a \in unchecked[polled[r]] =>
                           Head > polled[r] \/ status[polled[r]] = "closed"
    OBVIOUS
  <2>1. WatchRefresh(r)
    <3>1. ~UNCHANGED thanked
      OBVIOUS
    <3>2. ASSUME NEW s \in Requests,
                 (\E p \in Pods : WaitStart(s, p)) \/ WaitRefused(s) \/ WaitAccepted(s)
                   \/ WatchPollEnds(s) \/ WatchPoll(s) \/ WatchThanksFail(s) \/ WatchRefreshFails(s)
          PROVE  FALSE
      BY <3>1, <3>2 DEF WaitStart, WaitRefused, WaitAccepted, WatchPollEnds, WatchPoll,
                       WatchThanksFail, WatchRefreshFails
    <3>3. ASSUME NEW s \in Requests, Forget(s) PROVE FALSE
      BY <3>3 DEF TypeOK, Forget
    <3>4. ASSUME NEW p \in Pods, WatchPodStop(p) PROVE FALSE
      BY <3>4 DEF TypeOK, WatchPodStop
    <3>5. ASSUME NEW s \in Requests, WatchRefresh(s) PROVE WatchRefresh(r)
      BY <3>5 DEF TypeOK, WatchRefresh
    <3>6. ~UNCHANGED <<slot, request>>
      BY <3>1 DEF request
    <3> QED BY <3>2, <3>3, <3>4, <3>5, <3>6, Zenon DEF Next, Watch
  <2>2. a \in NewlyDone(r) /\ OpenIssues # {}
    BY <2>1 DEF TypeOK, WatchRefresh
  <2>3. a \in Authors /\ a \notin Outstanding
    BY <2>2 DEF TypeOK, NewlyDone
  <2>4. a \notin unchecked[Head]
    BY <2>2, <2>3, IssuesAssumption DEF Outstanding
  <2>5. ASSUME a \in unchecked[polled[r]], status[polled[r]] # "closed" PROVE Head > polled[r]
    <3>1. polled[r] \in OpenIssues
      BY <2>1, <2>5 DEF Polled, WatchRefresh, OpenIssues, TypeOK, IssueTypeOK
    <3>2. Head \in Nat /\ polled[r] \in Nat /\ polled[r] <= Head
      BY <3>1, MaxOf, IssuesAssumption DEF Head, OpenIssues, Issues
    <3>3. Head # polled[r]
      BY <2>4, <2>5
    <3> QED BY <3>2, <3>3
  <2> QED BY <2>4, <2>5
<1>2. Init => Polled
  BY DEF Init, Polled
<1>3. Spec => [](TypeOK /\ Polled)
  BY <1>2, TypeInit, TypeStep, PolledStep, PTL DEF Spec
<1>4. Spec => [][Deserved]_vars
  BY <1>3, <1>1, PTL DEF Spec
<1> QED BY <1>4 DEF ThanksDeserved

(* Nothing the watch does changes the issues.                                 *)
THEOREM KeepsIssueSpec == Spec => IssueSpec
<1>1. Init => IssueInit
  BY DEF Init
<1> QED BY <1>1, IssueStep, PTL DEF Spec, IssueSpec
=============================================================================
