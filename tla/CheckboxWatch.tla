----------------------------- MODULE CheckboxWatch -----------------------------
(***************************************************************************)
(* /doof wait-for-checkboxes of the release bot (release_bot/bot.py): the  *)
(* command that starts a watch of an application's release checklist, and  *)
(* the watch that thanks each author who finishes.                         *)
(*                                                                         *)
(* One pod is one asyncio process: its coroutines interleave at awaits, so *)
(* an action is the code from one await to the next.  The slot and every   *)
(* running coroutine are in a pod's memory and die with it.  Abstracted:   *)
(* message texts, unknown apps, the length of a sleep.                     *)
(***************************************************************************)
EXTENDS ReleaseIssues

CONSTANT Requests   \* wait-for-checkboxes requests being served

VARIABLES
    slot,        \* pods whose _checkbox_watchers holds the app
    pod,         \* the pod that serves the request
    rpc,         \* where the request's coroutine stands
    outstanding, \* the authors its last poll found outstanding
    polled,      \* history: the issue its last poll looked at
    thanked      \* history: authors it has thanked

request == <<pod, rpc, outstanding, polled, thanked>>
vars    == <<issueVars, slot, request>>

TypeOK ==
    /\ IssueTypeOK
    /\ slot \subseteq Pods
    /\ pod \in [Requests -> Pods]
    /\ rpc \in [Requests -> {"idle", "fetch", "poll", "refresh", "stopped"}]
    /\ outstanding \in [Requests -> SUBSET Authors]
    /\ polled \in [Requests -> Issues \cup {0}]
    /\ thanked \in [Requests -> SUBSET Authors]

Init ==
    /\ IssueInit
    /\ slot = {}
    /\ \E p \in up : pod = [r \in Requests |-> p]
    /\ rpc = [r \in Requests |-> "idle"]
    /\ outstanding = [r \in Requests |-> {}]
    /\ polled = [r \in Requests |-> 0]
    /\ thanked = [r \in Requests |-> {}]

Goto(r, pc) == rpc' = [rpc EXCEPT ![r] = pc]

-----------------------------------------------------------------------------
(* The command *)

WaitStartUnchecked(r, p) ==
    /\ rpc[r] = "idle" /\ p \in up
    /\ slot' = slot \cup {p}
    /\ pod' = [pod EXCEPT ![r] = p]
    /\ Goto(r, "fetch")
    /\ UNCHANGED <<issueVars, outstanding, polled, thanked>>

\* _checkbox_watch_preflight: the check and the reservation, with no await.
WaitStart(r, p) ==
    /\ rpc[r] = "idle" /\ p \in up /\ p \notin slot
    /\ slot' = slot \cup {p}
    /\ pod' = [pod EXCEPT ![r] = p]
    /\ Goto(r, "fetch")
    /\ UNCHANGED <<issueVars, outstanding, polled, thanked>>

\* The lookup fails, or finds no issue or nobody outstanding.
WaitRefused(r) ==
    /\ rpc[r] = "fetch"
    /\ slot' = slot \ {pod[r]}
    /\ Goto(r, "idle")
    /\ UNCHANGED <<issueVars, pod, outstanding, polled, thanked>>

WaitAccepted(r) ==
    /\ rpc[r] = "fetch" /\ Outstanding # {}
    /\ Goto(r, "poll")
    /\ UNCHANGED <<issueVars, slot, pod, outstanding, polled, thanked>>

-----------------------------------------------------------------------------
(* _watch_checkboxes *)

\* However the watch ends, its finally clause frees the slot.
StopWatch(r) ==
    /\ slot' = slot \ {pod[r]}
    /\ Goto(r, "stopped")

WatchPollEndsNoIssue(r) ==
    /\ rpc[r] = "poll" /\ OpenIssues = {}
    /\ StopWatch(r)
    /\ UNCHANGED <<issueVars, pod, outstanding, polled, thanked>>

\* First lookup of a round: no open issue or nobody outstanding ends the watch.
WatchPollEnds(r) ==
    /\ rpc[r] = "poll" /\ Outstanding = {}
    /\ StopWatch(r)
    /\ UNCHANGED <<issueVars, pod, outstanding, polled, thanked>>

WatchPoll(r) ==
    /\ rpc[r] = "poll" /\ Outstanding # {}
    /\ outstanding' = [outstanding EXCEPT ![r] = Outstanding]
    /\ polled' = [polled EXCEPT ![r] = Head]
    /\ Goto(r, "refresh")
    /\ UNCHANGED <<issueVars, slot, pod, thanked>>

\* Second lookup, a sleep later: thank those no longer outstanding.
NewlyDone(r) == outstanding[r] \ Outstanding

WatchRefresh(r) ==
    /\ rpc[r] = "refresh" /\ OpenIssues # {}
    /\ thanked' = [thanked EXCEPT ![r] = @ \cup NewlyDone(r)]
    /\ Goto(r, "poll")
    /\ UNCHANGED <<issueVars, slot, pod, outstanding, polled>>

\* A Slack error while thanking escapes the loop.
WatchThanksFail(r) ==
    /\ rpc[r] = "refresh" /\ OpenIssues # {} /\ NewlyDone(r) # {}
    /\ StopWatch(r)
    /\ UNCHANGED <<issueVars, pod, outstanding, polled, thanked>>

WatchRefreshEmpty(r) ==
    /\ rpc[r] = "refresh"
    /\ thanked' = [thanked EXCEPT ![r] = @ \cup outstanding[r]]
    /\ Goto(r, "poll")
    /\ UNCHANGED <<issueVars, slot, pod, outstanding, polled>>

\* The second lookup fails or finds no issue: sleep, then a new round.
WatchRefreshFails(r) ==
    /\ rpc[r] = "refresh"
    /\ Goto(r, "poll")
    /\ UNCHANGED <<issueVars, slot, pod, outstanding, polled, thanked>>

\* The request is over; its name serves another one.
Forget(r) ==
    /\ rpc[r] = "stopped"
    /\ Goto(r, "idle")
    /\ outstanding' = [outstanding EXCEPT ![r] = {}]
    /\ polled' = [polled EXCEPT ![r] = 0]
    /\ thanked' = [thanked EXCEPT ![r] = {}]
    /\ UNCHANGED <<issueVars, slot, pod>>

\* Everything in the pod's memory is lost.
WatchPodStop(p) ==
    /\ PodStop(p)
    /\ slot' = slot \ {p}
    /\ rpc' = [r \in Requests |-> IF pod[r] = p THEN "idle" ELSE rpc[r]]
    /\ outstanding' = [r \in Requests |-> IF pod[r] = p THEN {} ELSE outstanding[r]]
    /\ polled' = [r \in Requests |-> IF pod[r] = p THEN 0 ELSE polled[r]]
    /\ thanked' = [r \in Requests |-> IF pod[r] = p THEN {} ELSE thanked[r]]
    /\ UNCHANGED pod

-----------------------------------------------------------------------------

Watch(r) ==
    WatchPollEnds(r) \/ WatchPoll(r) \/ WatchRefresh(r) \/ WatchThanksFail(r)
        \/ WatchRefreshFails(r)

Next ==
    \/ \E r \in Requests :
         \/ \E p \in Pods : WaitStart(r, p)
         \/ WaitRefused(r) \/ WaitAccepted(r) \/ Watch(r) \/ Forget(r)
    \/ \E p \in Pods : WatchPodStop(p)
    \/ (PeopleNext \/ \E p \in Pods : PodStart(p)) /\ UNCHANGED <<slot, request>>

\* A coroutine runs again after each await; a command is answered.
Fairness ==
    \A r \in Requests : WF_vars(WaitRefused(r) \/ WaitAccepted(r)) /\ WF_vars(Watch(r))

Spec == Init /\ [][Next]_vars /\ Fairness

-----------------------------------------------------------------------------
(* Properties *)

Watching(r) == rpc[r] \in {"fetch", "poll", "refresh"}

(* A pod's slot is taken exactly while one request looks the checklist up or  *)
(* watches it: no second watch repeats every message, and no path leaves the  *)
(* slot taken with nobody watching, which would refuse all later requests.    *)
OneWatchPerSlot ==
    \A p \in up :
        /\ p \in slot <=> \E r \in Requests : pod[r] = p /\ Watching(r)
        /\ \A r, s \in Requests :
             pod[r] = p /\ pod[s] = p /\ Watching(r) /\ Watching(s) => r = s

(* A watch outlives its checklist by no more than its own rounds: when nobody *)
(* is outstanding for good, in a new release or in the old, the slot comes    *)
(* free again.                                                                *)
WatchEnds ==
    \A p \in Pods : <>[](Outstanding = {}) => []<>(p \notin slot)

(* Nobody is thanked for a checklist that a failed lookup could not show: at  *)
(* the second lookup of a round the newest open issue has no box of theirs    *)
(* unchecked.  It may be another issue than the first lookup saw: a box on    *)
(* that one is still unchecked only if a newer one was opened meanwhile, or   *)
(* that one was closed, so that an older one took its place.                  *)
ThanksDeserved ==
    [][\A r \in Requests : \A a \in thanked'[r] \ thanked[r] :
          /\ a \notin unchecked[Head]
          /\ a \in unchecked[polled[r]] =>
               Head > polled[r] \/ status[polled[r]] = "closed"]_vars
=============================================================================
