---------------------------- MODULE ReadyToPromote ----------------------------
(***************************************************************************)
(* Promotion through the release bot (release_bot/bot.py): the poller that *)
(* announces fully checked releases, and /doof promote and the promote     *)
(* button, which close the release issue.                                  *)
(*                                                                         *)
(* An action is the code from one await to the next.  A poll works through *)
(* a snapshot of the open issues; a running poll or promotion dies with    *)
(* its pod.  Abstracted: message texts, unknown apps, the forced gate      *)
(* check after a promotion (see ReleasePipeline), the length of a sleep.   *)
(***************************************************************************)
EXTENDS ReleaseIssues

CONSTANTS
    Requests,     \* promotion requests being served
    MaxPosts      \* bound: ready messages, and excuses, counted per issue

ASSUME PostsAssumption == MaxPosts \in Nat

VARIABLES
    labelled,   \* GitHub: issues labelled promote-ready
    comments,   \* GitHub: issues with a "Promoted to Production" comment
    pod,        \* promote: the pod that serves the request
    rpc,        \* promote: where its coroutine stands
    target,     \* promote: the issue it picked
    todo,       \* poller: ready issues of the snapshot still to handle
    posted,     \* poller: pods that sent the message of the first of them
    posts,      \* history: ready messages sent per issue
    excuses,    \* history: labels lost, and snapshots two pods shared
    failed      \* history: promotions answered with a failure, or lost

promotion == <<comments, pod, rpc, target, failed>>
poller    == <<labelled, todo, posted, posts, excuses>>
vars      == <<issueVars, promotion, poller>>

TypeOK ==
    /\ IssueTypeOK
    /\ labelled \subseteq Issues /\ comments \subseteq Issues
    /\ pod \in [Requests -> Pods]
    /\ rpc \in [Requests -> {"idle", "comment", "close"}]
    /\ target \in [Requests -> Issues \cup {0}]
    /\ todo \in [Pods -> SUBSET Issues]
    /\ posted \subseteq up
    /\ \A p \in posted : todo[p] # {}
    /\ posts \in [Issues -> 0..MaxPosts]
    /\ excuses \in [Issues -> 0..MaxPosts]
    /\ failed \subseteq Issues

Init ==
    /\ IssueInit
    /\ labelled = {} /\ comments = {} /\ failed = {}
    /\ \E p \in up : pod = [r \in Requests |-> p]
    /\ rpc = [r \in Requests |-> "idle"]
    /\ target = [r \in Requests |-> 0]
    /\ todo = [p \in Pods |-> {}]
    /\ posted = {}
    /\ posts = [i \in Issues |-> 0]
    /\ excuses = [i \in Issues |-> 0]

-----------------------------------------------------------------------------
(* _cmd_promote and _handle_promote_button *)

Goto(r, pc) == rpc' = [rpc EXCEPT ![r] = pc]

\* /doof promote takes the newest open issue, whatever its checklist says; the
\* button takes the open issue whose version its message announced.
PromoteFetch(r, p) ==
    /\ rpc[r] = "idle" /\ p \in up /\ OpenIssues # {}
    /\ pod' = [pod EXCEPT ![r] = p]
    /\ \E i \in {Head} \cup {j \in OpenIssues : posts[j] > 0} :
         target' = [target EXCEPT ![r] = i]
    /\ Goto(r, "comment")
    /\ UNCHANGED <<issueVars, comments, failed, poller>>

\* close_release_issue: the comment first, then the state.
PromoteComment(r) ==
    /\ rpc[r] = "comment"
    /\ comments' = comments \cup {target[r]}
    /\ Goto(r, "close")
    /\ UNCHANGED <<issueVars, pod, target, failed, poller>>

PromoteCloseEmptied(r) ==
    /\ rpc[r] = "close"
    /\ status' = [status EXCEPT ![target[r]] = "closed"]
    /\ lines' = [lines EXCEPT ![target[r]] = {}]
    /\ unchecked' = [unchecked EXCEPT ![target[r]] = {}]
    /\ Goto(r, "idle")
    /\ UNCHANGED <<pods, comments, pod, target, failed, poller>>

PromoteClose(r) ==
    /\ rpc[r] = "close"
    /\ status' = [status EXCEPT ![target[r]] = "closed"]
    /\ Goto(r, "idle")
    /\ UNCHANGED <<lines, unchecked, pods, comments, pod, target, failed, poller>>

PromoteFailsSilently(r) ==
    /\ rpc[r] \in {"comment", "close"}
    /\ Goto(r, "idle")
    /\ UNCHANGED <<issueVars, comments, pod, target, failed, poller>>

\* Either call may fail; the failure is answered in Slack.
PromoteFails(r) ==
    /\ rpc[r] \in {"comment", "close"}
    /\ failed' = failed \cup {target[r]}
    /\ Goto(r, "idle")
    /\ UNCHANGED <<issueVars, comments, pod, target, poller>>

-----------------------------------------------------------------------------
(* _notify_ready_to_promote, once per poll *)

Least(m, n)      == IF m < n THEN m ELSE n
Excused(S)       == [i \in Issues |-> Least(MaxPosts, excuses[i] + (IF i \in S THEN 1 ELSE 0))]
AtHand(p)        == Max(todo[p])
Done(p)          == [todo EXCEPT ![p] = @ \ {Max(@)}]

ReadyUnlabelled == {i \in OpenIssues : FullyChecked(i)}

Ready == {i \in OpenIssues : i \notin labelled /\ FullyChecked(i)}

\* Labels and bodies of the whole poll are those of this lookup.
PollFetch(p) ==
    /\ p \in up /\ todo[p] = {} /\ Ready # {}
    /\ todo' = [todo EXCEPT ![p] = Ready]
    /\ excuses' = Excused(Ready \cap UNION {todo[q] : q \in Pods})
    /\ UNCHANGED <<issueVars, promotion, labelled, posted, posts>>

PollPost(p) ==
    /\ p \in up /\ todo[p] # {} /\ p \notin posted
    /\ posts' = [posts EXCEPT ![AtHand(p)] = Least(MaxPosts, @ + 1)]
    /\ posted' = posted \cup {p}
    /\ UNCHANGED <<issueVars, promotion, labelled, todo, excuses>>

PollPostFailsLabelled(p) ==
    /\ p \in up /\ todo[p] # {} /\ p \notin posted
    /\ labelled' = labelled \cup {AtHand(p)}
    /\ todo' = Done(p)
    /\ UNCHANGED <<issueVars, promotion, posted, posts, excuses>>

\* Not labelled, so the next poll tries again.
PollPostFails(p) ==
    /\ p \in up /\ todo[p] # {} /\ p \notin posted
    /\ todo' = Done(p)
    /\ UNCHANGED <<issueVars, promotion, labelled, posted, posts, excuses>>

PollLabelKeepsPosted(p) ==
    /\ p \in up /\ p \in posted
    /\ labelled' = labelled \cup {AtHand(p)}
    /\ todo' = Done(p)
    /\ UNCHANGED <<issueVars, promotion, posted, posts, excuses>>

PollLabel(p) ==
    /\ p \in up /\ p \in posted
    /\ labelled' = labelled \cup {AtHand(p)}
    /\ todo' = Done(p)
    /\ posted' = posted \ {p}
    /\ UNCHANGED <<issueVars, promotion, posts, excuses>>

PollLabelFails(p) ==
    /\ p \in up /\ p \in posted
    /\ excuses' = Excused({AtHand(p)})
    /\ todo' = Done(p)
    /\ posted' = posted \ {p}
    /\ UNCHANGED <<issueVars, promotion, labelled, posts>>

-----------------------------------------------------------------------------

Promoting(r) == rpc[r] # "idle"

BotPodStop(p) ==
    /\ PodStop(p)
    /\ rpc' = [r \in Requests |-> IF pod[r] = p THEN "idle" ELSE rpc[r]]
    /\ failed' = failed \cup {target[r] : r \in {s \in Requests : pod[s] = p /\ Promoting(s)}}
    /\ excuses' = Excused(IF p \in posted THEN {AtHand(p)} ELSE {})
    /\ todo' = [todo EXCEPT ![p] = {}]
    /\ posted' = posted \ {p}
    /\ UNCHANGED <<labelled, comments, pod, target, posts>>

Next ==
    \/ \E r \in Requests :
         \/ \E p \in Pods : PromoteFetch(r, p)
         \/ PromoteComment(r) \/ PromoteClose(r) \/ PromoteFails(r)
    \/ \E p \in Pods :
         \/ PollFetch(p) \/ PollPost(p) \/ PollPostFails(p) \/ PollLabel(p) \/ PollLabelFails(p)
         \/ BotPodStop(p)
    \/ (PeopleNext \/ \E p \in Pods : PodStart(p)) /\ UNCHANGED <<promotion, poller>>

\* The poller loop goes on in every pod, Slack takes a message that is sent
\* again and again, and Kubernetes replaces the last pod.  People owe nothing,
\* and a label call may fail every time.
Fairness ==
    /\ \A p \in Pods :
         /\ WF_vars(PollFetch(p))
         /\ \A i \in Issues : SF_vars(PollPost(p) /\ i = AtHand(p))
         /\ WF_vars(PollLabel(p) \/ PollLabelFails(p))
    /\ WF_vars((up = {} /\ \E p \in Pods : PodStart(p)) /\ UNCHANGED <<promotion, poller>>)

Spec == Init /\ [][Next]_vars /\ Fairness

-----------------------------------------------------------------------------
(* Properties *)

(* The ready message of an issue is repeated only when its label was lost: a  *)
(* failed label call, a pod that died in between, or two pods of a rollout    *)
(* that took the same snapshot.                                               *)
RepeatsExplained == \A i \in Issues : posts[i] <= 1 + excuses[i]

(* An issue that says "Promoted to Production" is closed, is being closed, or *)
(* its promotion was answered with a failure or lost with its pod.            *)
PromotedCommentIsHonest ==
    \A i \in comments :
        status[i] = "closed" \/ i \in failed
            \/ \E r \in Requests : rpc[r] = "close" /\ target[r] = i

(* A fully checked open release is announced in the end, whatever fails on    *)
(* the way and whichever pods come and go, unless it is closed or unticked    *)
(* before.                                                                    *)
ReadyIsAnnounced ==
    \A i \in Issues :
        (status[i] = "open" /\ FullyChecked(i))
            ~> (posts[i] > 0 \/ status[i] = "closed" \/ ~FullyChecked(i))
=============================================================================
