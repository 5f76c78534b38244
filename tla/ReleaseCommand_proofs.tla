------------------------- MODULE ReleaseCommand_proofs -------------------------
(***************************************************************************)
(* Proofs that a command's build is never older than the command, and that *)
(* commands do not log in beside each other, for any number of commands.   *)
(***************************************************************************)
EXTENDS ReleaseCommand, TLAPS

\* A command asks for its check once.
NotYetAsked == \A r \in Requests : pc[r] \in {"idle", "before", "post"} => check[r] = "none"

\* Checks run one at a time, so none finds less than an earlier one recorded...
Recorded ==
    /\ recorded <= head
    /\ \A c, d \in Requests : check[c] = "running" /\ check[d] = "running" => c = d
    /\ \A c \in Requests :
        /\ check[c] = "running" => recorded <= saw[c]
        /\ check[c] = "succeeded" => saw[c] <= recorded
        /\ saw[c] <= head

\* ... and none finds less than there was when its command was given.
Newer ==
    \A r \in Requests :
        /\ asked[r] <= head
        /\ check[r] \in {"running", "succeeded", "failed"} => asked[r] <= saw[r]

\* A command takes its own check, or has no way to know it.
OwnCheck ==
    \A r \in Requests :
        /\ pc[r] \in {"trigger", "triggered"} => took[r] = r \/ ~build_id[r]
        /\ bound[r] # 0 => pc[r] = "triggered"

IInv == TypeOK /\ NotYetAsked /\ Recorded /\ Newer /\ OwnCheck /\ ReleaseIsFresh

-----------------------------------------------------------------------------

(* Nothing was asked for at first.                                            *)
LEMMA Initially == Init => IInv
<1> SUFFICES ASSUME Init PROVE IInv
  OBVIOUS
<1>1. TypeOK
  <2>1. token \in BOOLEAN /\ build_id \in [Requests -> BOOLEAN]
    BY DEF Init
  <2> QED BY <2>1, CommandAssumption DEF Init, TypeOK, Calling
<1>2. NotYetAsked /\ Recorded /\ Newer /\ OwnCheck /\ ReleaseIsFresh
  BY DEF Init, NotYetAsked, Recorded, Newer, OwnCheck, ReleaseIsFresh
<1> QED BY <1>1, <1>2 DEF IInv

(* A merge brings a newer version.                                            *)
LEMMA MergeStep == ASSUME IInv, Merge PROVE IInv'
<1>1. head' = head + 1 /\ head' \in 1..MaxHead
  BY CommandAssumption DEF IInv, TypeOK, Merge
<1>2. UNCHANGED <<recorded, check, saw, last_checked, summary, token, want, pc, before, build_id,
                  took, asked, bound>>
  BY DEF Merge, concourse, command
<1>3. TypeOK'
  BY <1>1, <1>2 DEF IInv, TypeOK
<1>4. \A r \in Requests : saw[r] \in Nat /\ asked[r] \in Nat
  <2>1. saw \in [Requests -> 0..MaxHead] /\ asked \in [Requests -> 0..MaxHead]
    BY DEF IInv, TypeOK
  <2> QED BY <2>1, CommandAssumption
<1>5. Recorded' /\ Newer'
  BY <1>1, <1>2, <1>4 DEF IInv, TypeOK, Recorded, Newer
<1> QED BY <1>2, <1>3, <1>5 DEF IInv, NotYetAsked, OwnCheck, ReleaseIsFresh

(* A check begins, or ends.                                                   *)
LEMMA CheckStep ==
    ASSUME IInv, NEW c \in Requests, CheckBegins(c) \/ CheckEnds(c)
    PROVE  IInv'
<1>1. CASE CheckBegins(c)
  <2>1. /\ check[c] = "pending" /\ \A d \in Requests : check[d] # "running"
        /\ check' = [check EXCEPT ![c] = "running"]
        /\ saw' = [saw EXCEPT ![c] = head] /\ summary' = c
        /\ UNCHANGED <<head, recorded, last_checked, token, want, pc, before, build_id, took, asked, bound>>
    BY <1>1 DEF CheckBegins, command
  <2>2. \A r \in Requests : check[r] = "succeeded" => check'[r] = "succeeded"
    BY <2>1 DEF IInv, TypeOK
  <2>3. TypeOK'
    BY <2>1, <2>2, CommandAssumption DEF IInv, TypeOK
  <2>4. NotYetAsked' /\ Recorded' /\ Newer'
    BY <2>1 DEF IInv, TypeOK, NotYetAsked, Recorded, Newer
  <2> QED BY <2>1, <2>3, <2>4 DEF IInv, OwnCheck, ReleaseIsFresh
<1>2. CASE CheckEnds(c)
  <2>1. /\ check[c] = "running"
        /\ \/ check' = [check EXCEPT ![c] = "succeeded"] /\ recorded' = saw[c]
           \/ check' = [check EXCEPT ![c] = "failed"] /\ UNCHANGED recorded
        /\ last_checked' \in {last_checked, last_checked + 1}
        /\ UNCHANGED <<head, saw, summary, token, want, pc, before, build_id, took, asked, bound>>
    BY <1>2 DEF CheckEnds, command
  <2>2. \A r \in Requests : check[r] = "succeeded" => check'[r] = "succeeded"
    BY <2>1 DEF IInv, TypeOK
  <2>3. recorded' \in 1..MaxHead /\ last_checked' \in Nat
    BY <2>1 DEF IInv, TypeOK, Recorded
  <2>4. TypeOK'
    BY <2>1, <2>2, <2>3 DEF IInv, TypeOK
  <2>5. NotYetAsked' /\ Recorded' /\ Newer'
    BY <2>1 DEF IInv, TypeOK, NotYetAsked, Recorded, Newer
  <2> QED BY <2>1, <2>4, <2>5 DEF IInv, OwnCheck, ReleaseIsFresh
<1> QED BY <1>1, <1>2

(* Logging in concerns the token alone.                                       *)
LEMMA LoginStep ==
    ASSUME IInv,
           \/ TokenExpires
           \/ \E r \in Requests : AwaitLock(r) \/ TakeLock(r) \/ LoggedIn(r)
    PROVE  IInv'
<1>1. UNCHANGED <<head, recorded, check, saw, last_checked, summary, pc, before, build_id, took, asked, bound>>
  BY DEF TokenExpires, AwaitLock, TakeLock, LoggedIn, Wants, concourse, command
<1>2. token' \in BOOLEAN
  BY DEF IInv, TypeOK, TokenExpires, AwaitLock, TakeLock, LoggedIn
<1>3. want' \in [Requests -> {"no", "lock", "login", "have"}]
  BY DEF IInv, TypeOK, TokenExpires, AwaitLock, TakeLock, LoggedIn, Wants
<1>4. \A r \in Requests : want'[r] # "no" => pc[r] \in Calling
  BY DEF IInv, TypeOK, TokenExpires, AwaitLock, TakeLock, LoggedIn, Wants
<1>5. TypeOK'
  BY <1>1, <1>2, <1>3, <1>4 DEF IInv, TypeOK
<1> QED BY <1>1, <1>5 DEF IInv, NotYetAsked, Recorded, Newer, OwnCheck, ReleaseIsFresh

(* A command makes its calls one after the other.                             *)
LEMMA CommandStep ==
    ASSUME IInv, NEW r \in Requests,
           Command(r) \/ ReadBefore(r) \/ PollTimesOut(r) \/ CallFails(r)
    PROVE  IInv'
<1>1. /\ UNCHANGED <<head, recorded, check, saw, last_checked, summary, token, build_id, took, bound>>
      /\ pc[r] # "triggered"
  BY DEF Command, ReadBefore, PollTimesOut, CallFails, Call, concourse, Calling
<1>2. PICK to \in {"before", "post", "refused", "failed"} : pc' = [pc EXCEPT ![r] = to]
  BY DEF Command, ReadBefore, PollTimesOut, CallFails, Goes
<1>3. /\ to = "before" => pc[r] = "idle" /\ asked' = [asked EXCEPT ![r] = head] /\ UNCHANGED <<want, before>>
      /\ to # "before" => UNCHANGED asked /\ want' = [want EXCEPT ![r] = "no"]
      /\ to = "post" => pc[r] = "before"
  <2> USE DEF IInv, TypeOK
  <2>1. CASE Command(r)
    BY <1>2, <2>1 DEF Command, Goes
  <2>2. CASE ReadBefore(r) \/ PollTimesOut(r) \/ CallFails(r)
    BY <1>2, <2>2 DEF ReadBefore, PollTimesOut, CallFails, Call, Goes
  <2> QED BY <2>1, <2>2
<1>4. before' \in [Requests -> Nat] /\ asked' \in [Requests -> 0..MaxHead]
  BY DEF IInv, TypeOK, Command, ReadBefore, PollTimesOut, CallFails
<1>5. want' \in [Requests -> {"no", "lock", "login", "have"}]
  BY <1>3 DEF IInv, TypeOK
<1>6. TypeOK'
  BY <1>1, <1>2, <1>3, <1>4, <1>5 DEF IInv, TypeOK, Calling, Answers
<1>7. NotYetAsked' /\ Recorded' /\ Newer'
  BY <1>1, <1>2, <1>3 DEF IInv, TypeOK, NotYetAsked, Recorded, Newer
<1>8. OwnCheck' /\ ReleaseIsFresh'
  BY <1>1, <1>2, <1>3 DEF IInv, TypeOK, OwnCheck, ReleaseIsFresh
<1> QED BY <1>6, <1>7, <1>8 DEF IInv

LEMMA PostCheckStep == ASSUME IInv, NEW r \in Requests, PostCheck(r) PROVE IInv'
<1>1. /\ UNCHANGED <<head, recorded, saw, last_checked, summary, token, before, took, asked, bound>>
      /\ pc[r] = "post" /\ pc' = [pc EXCEPT ![r] = "poll"]
      /\ want' = [want EXCEPT ![r] = "no"]
      /\ check[r] = "none" /\ check' = [check EXCEPT ![r] = "pending"]
  BY DEF IInv, NotYetAsked, PostCheck, Call, Goes
<1>2. build_id' \in [Requests -> BOOLEAN]
  BY DEF IInv, TypeOK, PostCheck
<1>3. \A q \in Requests \ {r} : build_id'[q] = build_id[q]
  BY DEF IInv, TypeOK, PostCheck
<1>4. TypeOK'
  <2>1. \A q \in Requests : check[q] = "succeeded" => check'[q] = "succeeded"
    BY <1>1 DEF IInv, TypeOK
  <2>2. /\ pc' \in [Requests -> {"idle"} \cup Calling \cup Answers]
        /\ want' \in [Requests -> {"no", "lock", "login", "have"}]
        /\ check' \in [Requests -> {"none", "pending", "running", "succeeded", "failed"}]
    BY <1>1 DEF IInv, TypeOK, Calling
  <2>3. \A q \in Requests :
          /\ pc'[q] \in {"trigger", "triggered"} =>
               took[q] \in Requests \cup {NoCheck} /\ took[q] # NoCheck /\ check[took[q]] = "succeeded"
          /\ want'[q] # "no" => pc'[q] \in Calling
    BY <1>1 DEF IInv, TypeOK
  <2>4. token' \in BOOLEAN
    BY <1>1 DEF IInv, TypeOK
  <2> QED BY <1>1, <1>2, <2>1, <2>2, <2>3, <2>4 DEF IInv, TypeOK
<1>5. NotYetAsked' /\ Recorded' /\ Newer'
  BY <1>1 DEF IInv, TypeOK, NotYetAsked, Recorded, Newer
<1>6. OwnCheck' /\ ReleaseIsFresh'
  BY <1>1, <1>3 DEF IInv, TypeOK, OwnCheck, ReleaseIsFresh
<1> QED BY <1>4, <1>5, <1>6 DEF IInv

LEMMA PollStep == ASSUME IInv, NEW r \in Requests, Poll(r) PROVE IInv'
<1>1. /\ UNCHANGED <<head, recorded, check, saw, last_checked, summary, token, before, build_id, asked, bound>>
      /\ pc[r] = "poll" /\ want' = [want EXCEPT ![r] = "no"]
  BY DEF Poll, Call, concourse
<1>2. \/ /\ pc' = [pc EXCEPT ![r] = "trigger"] /\ took' = [took EXCEPT ![r] = Polled(r)]
         /\ Status(r) = "succeeded"
      \/ pc' = [pc EXCEPT ![r] = "refused"] /\ UNCHANGED took
      \/ UNCHANGED <<pc, took>>
  BY DEF Poll, Goes
<1>3. /\ Polled(r) \in Requests \cup {NoCheck}
      /\ Status(r) = "succeeded" => Polled(r) # NoCheck /\ check[Polled(r)] = "succeeded"
      /\ Polled(r) = r \/ ~build_id[r]
  BY CommandAssumption DEF IInv, TypeOK, Polled, Status
<1>4. TypeOK'
  BY <1>1, <1>2, <1>3 DEF IInv, TypeOK, Calling, Answers
<1>5. NotYetAsked' /\ Recorded' /\ Newer'
  BY <1>1, <1>2 DEF IInv, TypeOK, NotYetAsked, Recorded, Newer
<1>6. OwnCheck'
  BY <1>1, <1>2, <1>3 DEF IInv, TypeOK, OwnCheck
<1>7. ReleaseIsFresh'
  BY <1>1, <1>2 DEF IInv, TypeOK, OwnCheck, ReleaseIsFresh
<1> QED BY <1>4, <1>5, <1>6, <1>7 DEF IInv

(* The build binds the version recorded now, which is no older than what the  *)
(* command's own check found.                                                 *)
LEMMA TriggerStep == ASSUME IInv, NEW r \in Requests, Trigger(r) PROVE IInv'
<1>1. /\ UNCHANGED <<head, recorded, check, saw, last_checked, summary, token, before, build_id, took, asked>>
      /\ pc[r] = "trigger" /\ pc' = [pc EXCEPT ![r] = "triggered"]
      /\ want' = [want EXCEPT ![r] = "no"] /\ bound' = [bound EXCEPT ![r] = recorded]
  BY DEF Trigger, Call, Goes, concourse
<1>2. TypeOK'
  BY <1>1, CommandAssumption DEF IInv, TypeOK, Calling, Answers
<1>3. NotYetAsked' /\ Recorded' /\ Newer' /\ OwnCheck'
  BY <1>1 DEF IInv, TypeOK, NotYetAsked, Recorded, Newer, OwnCheck
<1>4. took[r] \in Requests /\ check[took[r]] = "succeeded"
  BY <1>1 DEF IInv, TypeOK
<1>5. took[r] = r => asked[r] <= recorded
  BY <1>4, CommandAssumption DEF IInv, TypeOK, Recorded, Newer
<1>6. bound'[r] >= asked[r] \/ (~build_id[r] /\ took[r] \in Requests \ {r})
  BY <1>1, <1>4, <1>5 DEF IInv, TypeOK, OwnCheck
<1>7. ReleaseIsFresh'
  BY <1>1, <1>6 DEF IInv, TypeOK, ReleaseIsFresh
<1> QED BY <1>2, <1>3, <1>7 DEF IInv

LEMMA Inductive == IInv /\ [Next]_vars => IInv'
<1> SUFFICES ASSUME IInv, [Next]_vars
             PROVE  IInv'
  OBVIOUS
<1>1. CASE UNCHANGED vars
  BY <1>1 DEF IInv, TypeOK, NotYetAsked, Recorded, Newer, OwnCheck, ReleaseIsFresh,
     vars, concourse, command
<1> QED
  BY <1>1, MergeStep, CheckStep, LoginStep, CommandStep, PostCheckStep, PollStep, TriggerStep DEF Next

LEMMA Invariant == Spec => []IInv
BY Initially, Inductive, PTL DEF Spec

-----------------------------------------------------------------------------

(* Every reachable state is typed, and only a check that succeeded leads to   *)
(* a build.                                                                   *)
THEOREM TypeCorrect == Spec => []TypeOK
<1>1. IInv => TypeOK
  BY DEF IInv
<1> QED BY <1>1, Invariant, PTL

(* The build of a command is at least as new as the command, or the code's    *)
(* fallback took another command's check, for any number of commands.         *)
THEOREM BuildIsFresh == Spec => []ReleaseIsFresh
<1>1. IInv => ReleaseIsFresh
  BY DEF IInv
<1> QED BY <1>1, Invariant, PTL

-----------------------------------------------------------------------------
(* The login lock *)

(* Only the lock's holder logs in, and nobody gets the lock with a token at   *)
(* hand.                                                                      *)
LEMMA LoginKept == ASSUME TypeOK, OneLogin, [Next]_vars PROVE OneLogin'
<1>1. ASSUME NEW r \in Requests, TakeLock(r)
      PROVE  OneLogin'
  BY <1>1 DEF TypeOK, OneLogin, TakeLock, LockFree, Wants
<1>2. ASSUME NEW r \in Requests, LoggedIn(r)
      PROVE  OneLogin'
  BY <1>2 DEF TypeOK, OneLogin, LoggedIn, Wants
<1>3. ASSUME NEW r \in Requests, AwaitLock(r)
      PROVE  OneLogin'
  BY <1>3 DEF TypeOK, OneLogin, AwaitLock, Wants
<1>4. CASE TokenExpires
  BY <1>4 DEF OneLogin, TokenExpires
<1>5. CASE \/ Merge \/ UNCHANGED vars
           \/ \E r \in Requests : CheckBegins(r) \/ CheckEnds(r) \/ Command(r)
  BY <1>5 DEF OneLogin, Merge, CheckBegins, CheckEnds, Command, vars
<1>6. ASSUME NEW r \in Requests,
             \/ ReadBefore(r) \/ PostCheck(r) \/ Poll(r) \/ PollTimesOut(r)
             \/ Trigger(r) \/ CallFails(r)
      PROVE  OneLogin'
  <2>1. want' = [want EXCEPT ![r] = "no"] /\ UNCHANGED token
    BY <1>6 DEF ReadBefore, PostCheck, Poll, PollTimesOut, Trigger, CallFails, Call
  <2> QED BY <2>1 DEF TypeOK, OneLogin
<1> QED
  BY <1>1, <1>2, <1>3, <1>4, <1>5, <1>6 DEF Next

(* No two commands log in at once, and none while a valid token is cached,    *)
(* for any number of commands that share the cache.                           *)
THEOREM LoginsAreSerial == Spec => []OneLogin
<1>1. Init => OneLogin
  BY DEF Init, OneLogin
<1>2. TypeOK /\ OneLogin /\ [Next]_vars => OneLogin'
  BY LoginKept
<1> QED BY <1>1, <1>2, TypeCorrect, PTL DEF Spec
=============================================================================
