----------------------------- MODULE ReleaseCommand -----------------------------
(***************************************************************************)
(* /doof release: the bot has Concourse check the release resource, waits  *)
(* for that check and triggers the image build, so that the build binds    *)
(* the version of now and not the one recorded last (release_bot/bot.py,   *)
(* concourse_client.py).  Every call needs the bot's login token, which    *)
(* the commands of one pod share.                                          *)
(*                                                                         *)
(* Left out: the report of a release in flight, unknown applications, the  *)
(* release gate's checks (same function).  A build binds its version when  *)
(* it is triggered; Concourse may do so later, and finds a newer one then. *)
(***************************************************************************)
EXTENDS Naturals

CONSTANTS
    Requests,    \* commands; each starts the check it is named after
    MaxHead,     \* bound: versions
    NoCheck      \* no check

ASSUME CommandAssumption == NoCheck \notin Requests /\ MaxHead \in Nat \ {0}

VARIABLES
    head,           \* the version a check would find now
    recorded,       \* the version Concourse recorded last
    check,          \* state of each check
    saw,            \* the version it found
    last_checked,   \* of the resource, in whole seconds
    summary,        \* the check the resource shows
    token,          \* whether _token is cached and has not expired
    pc,             \* where each command stands
    want,           \* where it stands in _get_token
    before,         \* last_checked when it began
    build_id,       \* whether the POST answered with the check's build
    took,           \* history: the check it took for its own
    asked,          \* history: head when it was given
    bound           \* version its build bound; 0: no build

concourse == <<recorded, check, saw, last_checked, summary>>
command   == <<pc, before, build_id, took, asked, bound>>
vars      == <<head, concourse, token, want, command>>

Calling == {"before", "post", "poll", "trigger"}
Answers == {"triggered", "refused", "failed"}

TypeOK ==
    /\ head \in 1..MaxHead /\ recorded \in 1..MaxHead
    /\ check \in [Requests -> {"none", "pending", "running", "succeeded", "failed"}]
    /\ saw \in [Requests -> 0..MaxHead]
    /\ last_checked \in Nat
    /\ summary \in Requests \cup {NoCheck}
    /\ token \in BOOLEAN
    /\ pc \in [Requests -> {"idle"} \cup Calling \cup Answers]
    /\ want \in [Requests -> {"no", "lock", "login", "have"}]
    /\ before \in [Requests -> Nat]
    /\ build_id \in [Requests -> BOOLEAN]
    /\ took \in [Requests -> Requests \cup {NoCheck}]
    /\ asked \in [Requests -> 0..MaxHead] /\ bound \in [Requests -> 0..MaxHead]
    \* only a check that succeeded leads to a build
    /\ \A r \in Requests :
         /\ pc[r] \in {"trigger", "triggered"} =>
              took[r] # NoCheck /\ check[took[r]] = "succeeded"
         /\ want[r] # "no" => pc[r] \in Calling

Init ==
    /\ head = 1 /\ recorded = 1
    /\ check = [c \in Requests |-> "none"]
    /\ saw = [c \in Requests |-> 0]
    /\ last_checked = 0 /\ summary = NoCheck
    /\ token = FALSE
    /\ pc = [r \in Requests |-> "idle"]
    /\ want = [r \in Requests |-> "no"]
    /\ before = [r \in Requests |-> 0]
    /\ build_id = [r \in Requests |-> FALSE]
    /\ took = [r \in Requests |-> NoCheck]
    /\ asked = [r \in Requests |-> 0]
    /\ bound = [r \in Requests |-> 0]

-----------------------------------------------------------------------------
(* Concourse, and the repository *)

Merge ==
    /\ head < MaxHead
    /\ head' = head + 1
    /\ UNCHANGED <<concourse, token, want, command>>

\* Checks of a resource run one at a time.
CheckBegins(c) ==
    /\ check[c] = "pending" /\ \A d \in Requests : check[d] # "running"
    /\ check' = [check EXCEPT ![c] = "running"]
    /\ saw' = [saw EXCEPT ![c] = head]
    /\ summary' = c
    /\ UNCHANGED <<head, recorded, last_checked, token, want, command>>

\* A failed check advances last_checked too, unless it is still the same second.
CheckEnds(c) ==
    /\ check[c] = "running"
    /\ \/ check' = [check EXCEPT ![c] = "succeeded"] /\ recorded' = saw[c]
       \/ check' = [check EXCEPT ![c] = "failed"] /\ UNCHANGED recorded
    /\ last_checked' \in {last_checked, last_checked + 1}
    /\ UNCHANGED <<head, saw, summary, token, want, command>>

-----------------------------------------------------------------------------
(* _get_token *)

TokenExpires ==
    /\ token
    /\ token' = FALSE
    /\ UNCHANGED <<head, concourse, want, command>>

Wants(r, w) ==
    /\ want' = [want EXCEPT ![r] = w]
    /\ UNCHANGED <<head, concourse, command>>

AwaitLock(r) ==
    /\ pc[r] \in Calling /\ want[r] = "no" /\ ~token
    /\ Wants(r, "lock") /\ UNCHANGED token

LockFree == \A r \in Requests : want[r] # "login"

TakeLockUnchecked(r) ==
    /\ want[r] = "lock" /\ LockFree
    /\ Wants(r, "login") /\ UNCHANGED token

\* Re-checked: another command may have logged in meanwhile.
TakeLock(r) ==
    /\ want[r] = "lock" /\ LockFree
    /\ Wants(r, IF token THEN "have" ELSE "login") /\ UNCHANGED token

LoggedIn(r) ==
    /\ want[r] = "login"
    /\ token' = TRUE
    /\ Wants(r, "have")

\* A call is made with a cached token, or with the one it waited for.
Call(r, at) ==
    /\ pc[r] = at
    /\ want[r] = "have" \/ (want[r] = "no" /\ token)
    /\ want' = [want EXCEPT ![r] = "no"]

-----------------------------------------------------------------------------
(* _cmd_release and check_resource *)

Goes(r, to) == pc' = [pc EXCEPT ![r] = to]

Command(r) ==
    /\ pc[r] = "idle"
    /\ asked' = [asked EXCEPT ![r] = head]
    /\ Goes(r, "before")
    /\ UNCHANGED <<head, concourse, token, want, before, build_id, took, bound>>

ReadBefore(r) ==
    /\ Call(r, "before")
    /\ before' = [before EXCEPT ![r] = last_checked]
    /\ Goes(r, "post")
    /\ UNCHANGED <<head, concourse, token, build_id, took, asked, bound>>

PostCheckAsync(r) ==
    /\ Call(r, "post")
    /\ check' = [check EXCEPT ![r] = "pending"]
    /\ Goes(r, "trigger")
    /\ UNCHANGED <<head, recorded, saw, last_checked, summary, token, before,
                   build_id, took, asked, bound>>

\* The answer may lack the build (_read_build).
PostCheck(r) ==
    /\ Call(r, "post")
    /\ check' = [check EXCEPT ![r] = "pending"]
    /\ \E b \in BOOLEAN : build_id' = [build_id EXCEPT ![r] = b]
    /\ Goes(r, "poll")
    /\ UNCHANGED <<head, recorded, saw, last_checked, summary, token, before,
                   took, asked, bound>>

\* The check whose status a poll reads: its own build, or what the resource
\* shows once last_checked has moved.
Polled(r) ==
    IF build_id[r] THEN r
    ELSE IF last_checked > before[r] THEN summary ELSE NoCheck

Status(r) == IF Polled(r) = NoCheck THEN "unknown" ELSE check[Polled(r)]

PollAnyStatus(r) ==
    /\ Call(r, "poll")
    /\ \/ Status(r) \in {"succeeded", "failed"} /\ Goes(r, "trigger")
            /\ took' = [took EXCEPT ![r] = Polled(r)]
       \/ Status(r) \notin {"succeeded", "failed"} /\ UNCHANGED <<pc, took>>
    /\ UNCHANGED <<head, concourse, token, before, build_id, asked, bound>>

Poll(r) ==
    /\ Call(r, "poll")
    /\ \/ Status(r) = "succeeded" /\ Goes(r, "trigger")
            /\ took' = [took EXCEPT ![r] = Polled(r)]
       \/ Status(r) = "failed" /\ Goes(r, "refused") /\ UNCHANGED took
       \/ Status(r) \notin {"succeeded", "failed"} /\ UNCHANGED <<pc, took>>
    /\ UNCHANGED <<head, concourse, token, before, build_id, asked, bound>>

PollForever(r) ==
    /\ Call(r, "poll")
    /\ Status(r) \notin {"succeeded", "failed"}
    /\ UNCHANGED <<head, concourse, token, command>>

\* _CHECK_TIMEOUT_SECONDS have passed, and the status is still not terminal.
PollTimesOut(r) ==
    /\ Call(r, "poll")
    /\ Status(r) \notin {"succeeded", "failed"}
    /\ Goes(r, "refused")
    /\ UNCHANGED <<head, concourse, token, before, build_id, took, asked, bound>>

Trigger(r) ==
    /\ Call(r, "trigger")
    /\ bound' = [bound EXCEPT ![r] = recorded]
    /\ Goes(r, "triggered")
    /\ UNCHANGED <<head, concourse, token, before, build_id, took, asked>>

\* Any call, a login among them, may fail; the command is answered either way.
CallFails(r) ==
    /\ pc[r] \in Calling
    /\ want[r] \in {"login", "have"} \/ (want[r] = "no" /\ token)
    /\ want' = [want EXCEPT ![r] = "no"]
    /\ Goes(r, IF pc[r] = "trigger" THEN "failed" ELSE "refused")
    /\ UNCHANGED <<head, concourse, token, before, build_id, took, asked, bound>>

-----------------------------------------------------------------------------

Next ==
    \/ Merge \/ TokenExpires
    \/ \E r \in Requests :
         \/ CheckBegins(r) \/ CheckEnds(r)
         \/ Command(r) \/ AwaitLock(r) \/ TakeLock(r) \/ LoggedIn(r)
         \/ ReadBefore(r) \/ PostCheck(r) \/ Poll(r) \/ PollTimesOut(r)
         \/ Trigger(r) \/ CallFails(r)

\* asyncio runs every task and its lock is first come, first served; a login and
\* any other call ends, and a poll comes after the deadline.  No check needs to end.
Fairness ==
    \A r \in Requests :
        /\ SF_vars(TakeLock(r)) /\ SF_vars(PollTimesOut(r))
        /\ WF_vars(\/ AwaitLock(r) \/ LoggedIn(r) \/ ReadBefore(r) \/ PostCheck(r)
                   \/ (Poll(r) /\ pc'[r] # "poll") \/ Trigger(r))

Spec == Init /\ [][Next]_vars /\ Fairness

-----------------------------------------------------------------------------
(* Properties *)

(* The build of a command binds a version at least as new as the one there    *)
(* was when the command was given.  The one exception is a POST that answers  *)
(* without the build, when the resource then shows another command's check     *)
(* ("... the stale-version binding this is meant to prevent", check_resource).*)
ReleaseIsFresh ==
    \A r \in Requests : bound[r] # 0 =>
        bound[r] >= asked[r] \/ (~build_id[r] /\ took[r] \in Requests \ {r})

(* Commands do not log in at the same time, and none does while a valid token *)
(* is cached, however they wait for each other (_get_token).                  *)
OneLogin ==
    \A r \in Requests : want[r] = "login" =>
        ~token /\ \A q \in Requests \ {r} : want[q] # "login"

(* Every command is answered, even if no check ever ends (check_resource's    *)
(* deadline; _cmd_release).                                                   *)
EveryCommandAnswered ==
    \A r \in Requests : (pc[r] \in Calling) ~> (pc[r] \in Answers)
=============================================================================
