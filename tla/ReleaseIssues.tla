----------------------------- MODULE ReleaseIssues -----------------------------
(***************************************************************************)
(* The release issues of one application on GitHub, as the release bot     *)
(* (release_bot/github_client.py) reads them, with the people who work on  *)
(* them and the pods the bot runs in.  CheckboxWatch and ReadyToPromote    *)
(* extend this module with what the bot does; IssueSpec is all that either *)
(* of them, people or the pipeline may do to the issues.                   *)
(*                                                                         *)
(* Issues are numbered in creation order and GitHub lists the newest       *)
(* first.  A checklist is a set of lines, one per author, some of them     *)
(* still unchecked; NoAuthor is a line that names none.  The Deployment    *)
(* keeps Kubernetes' default rolling update, so a new pod may run beside   *)
(* the one it replaces.                                                    *)
(***************************************************************************)
EXTENDS Integers, FiniteSets, FiniteSetsExt

CONSTANTS
    Pods,         \* pods of the Deployment, over time
    Authors,      \* commit authors
    NoAuthor,     \* a checklist line without " by <author>"
    MaxIssues,    \* bound: release issues opened
    MaxRollouts   \* bound: pods started after the first

ASSUME IssuesAssumption ==
    MaxIssues \in Nat /\ MaxRollouts \in Nat /\ NoAuthor \notin Authors

Issues == 1..MaxIssues
Lines  == Authors \cup {NoAuthor}

VARIABLES
    status,     \* state of each issue
    lines,      \* lines of its checklist
    unchecked,  \* those of them still unchecked
    up,         \* pods that run
    rollouts    \* how many pods were started after the first

pods      == <<up, rollouts>>
issueVars == <<status, lines, unchecked, up, rollouts>>

IssueTypeOK ==
    /\ status \in [Issues -> {"none", "open", "closed"}]
    /\ lines \in [Issues -> SUBSET Lines]
    /\ unchecked \in [Issues -> SUBSET Lines]
    /\ \A i \in Issues : unchecked[i] \subseteq lines[i]
    /\ up \subseteq Pods
    /\ rollouts \in 0..MaxRollouts

IssueInit ==
    /\ status = [i \in Issues |-> "none"]
    /\ lines = [i \in Issues |-> {}]
    /\ unchecked = [i \in Issues |-> {}]
    /\ \E p \in Pods : up = {p}
    /\ rollouts = 0

-----------------------------------------------------------------------------
(* What the client reads. *)

OpenIssues == {i \in Issues : status[i] = "open"}
Head       == Max(OpenIssues)             \* issues[0]

OutstandingLines == IF OpenIssues = {} THEN {} ELSE unchecked[Head]

\* unchecked_authors of the newest open issue; nobody when there is none.
Outstanding == IF OpenIssues = {} THEN {} ELSE unchecked[Head] \ {NoAuthor}

\* is_fully_checked: at least one line, and all of them checked.
FullyChecked(i) == lines[i] # {} /\ unchecked[i] = {}

-----------------------------------------------------------------------------
(* What may happen to the issues, and to the pods. *)

OpenIssue(i) ==
    /\ status[i] = "none" /\ \A j \in Issues : j < i => status[j] # "none"
    /\ status' = [status EXCEPT ![i] = "open"]
    /\ \E U \in SUBSET Lines :
         /\ lines' = [lines EXCEPT ![i] = U]
         /\ unchecked' = [unchecked EXCEPT ![i] = U]
    /\ UNCHANGED pods

\* A box is ticked, or a tick is taken back.
CheckBox(i, a) ==
    /\ a \in lines[i]
    /\ unchecked' = [unchecked EXCEPT ![i] = IF a \in @ THEN @ \ {a} ELSE @ \cup {a}]
    /\ UNCHANGED <<status, lines, pods>>

CloseIssue(i) ==
    /\ status[i] = "open"
    /\ status' = [status EXCEPT ![i] = "closed"]
    /\ UNCHANGED <<lines, unchecked, pods>>

PodStart(p) ==
    /\ p \notin up /\ rollouts < MaxRollouts
    /\ up' = up \cup {p}
    /\ rollouts' = rollouts + 1
    /\ UNCHANGED <<status, lines, unchecked>>

\* A pod is replaced or crashes; the bound keeps one that can still run.
PodStop(p) ==
    /\ p \in up
    /\ up # {p} \/ rollouts < MaxRollouts
    /\ up' = up \ {p}
    /\ UNCHANGED <<status, lines, unchecked, rollouts>>

PeopleNext ==
    \E i \in Issues :
        OpenIssue(i) \/ CloseIssue(i) \/ (\E a \in Lines : CheckBox(i, a))

IssueNext == PeopleNext \/ (\E p \in Pods : PodStart(p) \/ PodStop(p))

IssueSpec == IssueInit /\ [][IssueNext]_issueVars
=============================================================================
