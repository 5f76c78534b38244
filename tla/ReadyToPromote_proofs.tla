------------------------ MODULE ReadyToPromote_proofs ------------------------
(***************************************************************************)
(* Proofs about promotion, for any number of issues, pods and requests: a  *)
(* ready message is repeated only for a reason, a promotion comment is     *)
(* honest, and the bot does to the issues only what IssueSpec allows.      *)
(***************************************************************************)
EXTENDS ReadyToPromote, FiniteSetTheorems, TLAPS

-----------------------------------------------------------------------------
(* The release issues *)

(* A set of natural numbers has a least element.                              *)
LEMMA LeastExists ==
    ASSUME NEW T, T \subseteq Nat, T # {}
    PROVE  \E x \in T : \A y \in T : x <= y
<1> DEFINE R == OpToRel(<, Nat)
<1>1. IsWellFoundedOn(R, Nat)
  BY NatLessThanWellFounded
<1>2. \A x, y \in Nat : <<y, x>> \in R <=> y < x
  BY DEF OpToRel
<1> HIDE DEF R
<1>3. PICK x \in T : \A y \in T : ~(<<y, x>> \in R)
  BY <1>1, WFMin
<1>4. \A y \in T : x \in Nat /\ y \in Nat /\ ~(y < x)
  BY <1>2, <1>3
<1> QED BY <1>3, <1>4

(* The maximum of a set of issues is one of them.                             *)
LEMMA MaxOf == ASSUME NEW S, S \subseteq Issues, S # {} PROVE Max(S) \in S
<1> DEFINE T == {MaxIssues - x : x \in S}
<1>1. \A x \in S : x \in Int /\ MaxIssues - x \in Nat
  BY IssuesAssumption DEF Issues
<1>2. T \subseteq Nat /\ T # {}
  BY <1>1, Zenon
<1> HIDE DEF T
<1>3. PICK t \in T : \A y \in T : t <= y
  BY <1>2, LeastExists
<1>4. PICK x \in S : t = MaxIssues - x
  BY DEF T
<1>5. \A y \in S : MaxIssues - y \in T
  BY DEF T
<1>6. \A y \in S : x >= y
  BY <1>1, <1>3, <1>4, <1>5, IssuesAssumption
<1> QED BY <1>4, <1>6 DEF Max

(* People, and pods that come and go, keep the issues well formed.            *)
LEMMA IssueTypeStep ==
    ASSUME IssueTypeOK, IssueNext
    PROVE  IssueTypeOK'
<1>1. ASSUME NEW p \in Pods, PodStart(p) \/ PodStop(p) PROVE IssueTypeOK'
  BY <1>1, IssuesAssumption DEF IssueTypeOK, PodStart, PodStop
<1>2. ASSUME NEW i \in Issues, OpenIssue(i) PROVE IssueTypeOK'
  BY <1>2 DEF IssueTypeOK, OpenIssue, pods
<1>3. ASSUME NEW i \in Issues, CloseIssue(i) PROVE IssueTypeOK'
  BY <1>3 DEF IssueTypeOK, CloseIssue, pods
<1>4. ASSUME NEW i \in Issues, NEW a \in Lines, CheckBox(i, a) PROVE IssueTypeOK'
  BY <1>4 DEF IssueTypeOK, CheckBox, pods
<1> QED BY <1>1, <1>2, <1>3, <1>4 DEF IssueNext, PeopleNext

-----------------------------------------------------------------------------

\* A promotion works on an issue that was open.
Targets ==
    \A r \in Requests : rpc[r] # "idle" => target[r] \in Issues /\ status[target[r]] # "none"

\* Pods that may still announce i, pods that have it in hand, and the one
\* message an issue is owed as soon as either of these or its label exists.
Waiting(i) == {p \in Pods : i \in todo[p] /\ ~(p \in posted /\ AtHand(p) = i)}
Holding(i) == {p \in Pods : i \in todo[p]}
Owed(i)    == IF i \in labelled \/ Holding(i) # {} THEN 1 ELSE 0

\* Messages sent and messages to come are those owed and those excused.
Account(i) ==
    /\ IsFiniteSet(Waiting(i))
    /\ excuses[i] = MaxPosts \/ posts[i] + Cardinality(Waiting(i)) <= excuses[i] + Owed(i)

Accounts == \A i \in Issues : Account(i)

IInv == TypeOK /\ Targets /\ PromotedCommentIsHonest /\ Accounts

-----------------------------------------------------------------------------
(* The issue at hand *)

(* A pod with a list has one of its issues at hand.                           *)
LEMMA AtHandIsListed ==
    ASSUME TypeOK, NEW p \in Pods, todo[p] # {}
    PROVE  AtHand(p) \in todo[p] /\ AtHand(p) \in Issues
BY MaxOf DEF TypeOK, AtHand

(* One pod more, or less, that waits.                                         *)
LEMMA OneMore ==
    ASSUME NEW S, IsFiniteSet(S), NEW x, NEW T, T \in {S, S \cup {x}}
    PROVE  /\ IsFiniteSet(T) /\ Cardinality(T) \in Nat /\ Cardinality(S) \in Nat
           /\ Cardinality(T) <= Cardinality(S) + 1
<1>1. CASE T = S
  BY <1>1, FS_CardinalityType
<1>2. CASE T = S \cup {x}
  <2>1. /\ IsFiniteSet(T)
        /\ Cardinality(T) = IF x \in S THEN Cardinality(S) ELSE Cardinality(S) + 1
    BY <1>2, FS_AddElement
  <2> QED BY <2>1, FS_CardinalityType
<1> QED BY <1>1, <1>2

LEMMA OneLess ==
    ASSUME NEW S, IsFiniteSet(S), NEW x, NEW T, T \in {S, S \ {x}}
    PROVE  /\ IsFiniteSet(T) /\ Cardinality(T) \in Nat /\ Cardinality(S) \in Nat
           /\ Cardinality(T) <= Cardinality(S)
           /\ x \in S /\ T = S \ {x} => Cardinality(T) = Cardinality(S) - 1
<1>1. CASE T = S
  <2>1. ~(x \in S /\ T = S \ {x})
    BY <1>1
  <2> QED BY <1>1, <2>1, FS_CardinalityType
<1>2. CASE T = S \ {x}
  <2>1. /\ IsFiniteSet(T)
        /\ Cardinality(T) = IF x \in S THEN Cardinality(S) - 1 ELSE Cardinality(S)
    BY <1>2, FS_RemoveElement
  <2>2. Cardinality(T) \in Nat /\ Cardinality(S) \in Nat
    BY <2>1, FS_CardinalityType
  <2> QED BY <2>1, <2>2
<1> QED BY <1>1, <1>2

-----------------------------------------------------------------------------

(* Excused adds at most one, and stays in its bound.                          *)
LEMMA ExcusedIs ==
    ASSUME TypeOK, NEW S
    PROVE  /\ Excused(S) \in [Issues -> 0..MaxPosts]
           /\ \A i \in Issues : Excused(S)[i] = MaxPosts
                                  \/ Excused(S)[i] = excuses[i] + (IF i \in S THEN 1 ELSE 0)
<1>1. \A i \in Issues : excuses[i] \in 0..MaxPosts
  BY DEF TypeOK
<1> QED BY <1>1, PostsAssumption DEF Excused, Least

(* One pod, no issue yet.                                                     *)
LEMMA Initially == Init => IInv
<1> SUFFICES ASSUME Init PROVE IInv
  OBVIOUS
<1>1. TypeOK
  BY IssuesAssumption, PostsAssumption DEF Init, IssueInit, TypeOK, IssueTypeOK
<1>2. Targets /\ PromotedCommentIsHonest
  BY DEF Init, Targets, PromotedCommentIsHonest
<1>3. ASSUME NEW i \in Issues PROVE Account(i)
  <2>1. Waiting(i) = {} /\ Holding(i) = {} /\ Owed(i) = 0
    BY DEF Init, Waiting, Holding, Owed
  <2> QED BY <1>3, <2>1, FS_EmptySet DEF Init, Account
<1> QED BY <1>1, <1>2, <1>3 DEF IInv, Accounts

(* The bookkeeping depends on the poller and the promotion alone.             *)
LEMMA AccountsKept ==
    ASSUME IInv, UNCHANGED poller
    PROVE  Accounts'
BY DEF IInv, Accounts, Account, Waiting, Holding, Owed, AtHand, poller

(* People, and a pod that starts.                                             *)
LEMMA PeopleStep ==
    ASSUME IInv, PeopleNext \/ \E p \in Pods : PodStart(p), UNCHANGED <<promotion, poller>>
    PROVE  IInv'
<1>1. IssueTypeOK' /\ up \subseteq up'
  <2>1. IssueNext
    BY DEF IssueNext
  <2> QED BY <2>1, IssueTypeStep DEF IInv, TypeOK, PeopleNext, OpenIssue, CloseIssue, CheckBox,
                                     PodStart, pods
<1>2. TypeOK'
  BY <1>1 DEF IInv, TypeOK, promotion, poller
<1>3. \A i \in Issues : /\ status[i] # "none" => status'[i] # "none"
                        /\ status[i] = "closed" => status'[i] = "closed"
  BY DEF IInv, TypeOK, IssueTypeOK, PeopleNext, OpenIssue, CloseIssue, CheckBox, PodStart
<1>4. Targets' /\ PromotedCommentIsHonest'
  BY <1>3 DEF IInv, TypeOK, Targets, PromotedCommentIsHonest, promotion
<1> QED BY <1>2, <1>4, AccountsKept DEF IInv

(* A promotion.                                                               *)
LEMMA PromoteStep ==
    ASSUME IInv, NEW r \in Requests,
           (\E p \in Pods : PromoteFetch(r, p)) \/ PromoteComment(r) \/ PromoteClose(r)
               \/ PromoteFails(r)
    PROVE  IInv'
<1>1. UNCHANGED poller
  BY DEF PromoteFetch, PromoteComment, PromoteClose, PromoteFails
<1>2. ASSUME NEW p \in Pods, PromoteFetch(r, p)
      PROVE  TypeOK' /\ Targets' /\ PromotedCommentIsHonest'
  <2>1. PICK i \in {Head} \cup {j \in OpenIssues : posts[j] > 0} :
            target' = [target EXCEPT ![r] = i]
    BY <1>2 DEF PromoteFetch
  <2>2. OpenIssues \subseteq Issues /\ OpenIssues # {}
    BY <1>2 DEF PromoteFetch, OpenIssues
  <2>3. i \in OpenIssues
    BY <2>1, <2>2, MaxOf DEF Head
  <2>4. i \in Issues /\ status[i] = "open"
    BY <2>3 DEF OpenIssues
  <2>5. rpc[r] = "idle" /\ pod' = [pod EXCEPT ![r] = p] /\ rpc' = [rpc EXCEPT ![r] = "comment"]
        /\ UNCHANGED <<issueVars, comments, failed>>
    BY <1>2 DEF PromoteFetch, Goto
  <2>6. TypeOK'
    BY <1>1, <2>1, <2>4, <2>5 DEF IInv, TypeOK, IssueTypeOK, issueVars, poller
  <2>7. Targets' /\ PromotedCommentIsHonest'
    BY <2>1, <2>4, <2>5 DEF IInv, TypeOK, Targets, PromotedCommentIsHonest, issueVars
  <2> QED BY <2>6, <2>7
<1>3. ASSUME PromoteComment(r) PROVE TypeOK' /\ Targets' /\ PromotedCommentIsHonest'
  <2>1. rpc[r] = "comment" /\ rpc' = [rpc EXCEPT ![r] = "close"]
        /\ comments' = comments \cup {target[r]} /\ UNCHANGED <<issueVars, pod, target, failed>>
    BY <1>3 DEF PromoteComment, Goto
  <2>2. TypeOK'
    BY <1>1, <2>1 DEF IInv, TypeOK, IssueTypeOK, Targets, issueVars, poller
  <2>3. Targets' /\ PromotedCommentIsHonest'
    BY <2>1 DEF IInv, TypeOK, Targets, PromotedCommentIsHonest, issueVars
  <2> QED BY <2>2, <2>3
<1>4. ASSUME PromoteClose(r) PROVE TypeOK' /\ Targets' /\ PromotedCommentIsHonest'
  <2>1. rpc[r] = "close" /\ rpc' = [rpc EXCEPT ![r] = "idle"]
        /\ status' = [status EXCEPT ![target[r]] = "closed"]
        /\ UNCHANGED <<lines, unchecked, up, rollouts, comments, pod, target, failed>>
    BY <1>4 DEF PromoteClose, Goto, pods
  <2>2. TypeOK'
    BY <1>1, <2>1 DEF IInv, TypeOK, IssueTypeOK, Targets, poller
  <2>3. Targets' /\ PromotedCommentIsHonest'
    BY <2>1 DEF IInv, TypeOK, IssueTypeOK, Targets, PromotedCommentIsHonest
  <2> QED BY <2>2, <2>3
<1>5. ASSUME PromoteFails(r) PROVE TypeOK' /\ Targets' /\ PromotedCommentIsHonest'
  <2>1. rpc[r] # "idle" /\ rpc' = [rpc EXCEPT ![r] = "idle"]
        /\ failed' = failed \cup {target[r]} /\ UNCHANGED <<issueVars, comments, pod, target>>
    BY <1>5 DEF PromoteFails, Goto
  <2>2. TypeOK'
    BY <1>1, <2>1 DEF IInv, TypeOK, IssueTypeOK, Targets, issueVars, poller
  <2>3. Targets' /\ PromotedCommentIsHonest'
    BY <2>1 DEF IInv, TypeOK, Targets, PromotedCommentIsHonest, issueVars
  <2> QED BY <2>2, <2>3
<1> QED BY <1>1, <1>2, <1>3, <1>4, <1>5, AccountsKept DEF IInv

-----------------------------------------------------------------------------
(* The poller *)

\* What the steps of the poller leave alone.
PollFrame == UNCHANGED <<issueVars, promotion>>

LEMMA PollKeeps == ASSUME IInv, PollFrame PROVE IssueTypeOK' /\ Targets' /\ PromotedCommentIsHonest'
BY DEF IInv, TypeOK, IssueTypeOK, Targets, PromotedCommentIsHonest, PollFrame, issueVars, promotion

(* A pod takes its snapshot.                                                  *)
LEMMA FetchStep == ASSUME IInv, NEW p \in Pods, PollFetch(p) PROVE IInv'
<1> DEFINE Shared == Ready \cap UNION {todo[q] : q \in Pods}
<1>1. /\ p \in up /\ todo[p] = {} /\ Ready # {} /\ Ready \subseteq Issues
      /\ Ready \cap labelled = {}
      /\ todo' = [todo EXCEPT ![p] = Ready] /\ excuses' = Excused(Shared)
      /\ UNCHANGED <<labelled, posted, posts>> /\ PollFrame
  BY DEF PollFetch, Ready, OpenIssues, PollFrame
<1>2. TypeOK /\ excuses \in [Issues -> 0..MaxPosts] /\ posts \in [Issues -> 0..MaxPosts]
  BY DEF IInv, TypeOK
<1> HIDE DEF Shared
<1>3. /\ excuses' \in [Issues -> 0..MaxPosts]
      /\ \A i \in Issues : excuses'[i] = MaxPosts
                             \/ excuses'[i] = excuses[i] + (IF i \in Shared THEN 1 ELSE 0)
  BY <1>1, <1>2, ExcusedIs
<1>4. p \notin posted
  BY <1>1 DEF IInv, TypeOK
<1>5. TypeOK'
  BY <1>1, <1>3, PollKeeps DEF IInv, TypeOK, PollFrame, promotion, issueVars
<1>6. ASSUME NEW i \in Issues PROVE Account(i)'
  <2>1. IsFiniteSet(Waiting(i)) /\ Owed(i) \in 0..1
    BY DEF IInv, Accounts, Account, Owed
  <2>2. CASE i \notin Ready
    <3>1. Waiting(i)' = Waiting(i) /\ Holding(i)' = Holding(i)
      BY <1>1, <1>2, <2>2 DEF TypeOK, Waiting, Holding, AtHand
    <3>2. Owed(i)' = Owed(i) /\ posts'[i] = posts[i]
      BY <1>1, <3>1 DEF Owed
    <3>3. i \notin Shared
      BY <2>2 DEF Shared
    <3>4. excuses'[i] = MaxPosts \/ excuses'[i] = excuses[i]
      <4> HIDE DEF Shared
      <4> QED BY <1>2, <1>3, <3>3, PostsAssumption
    <3> QED BY <3>1, <3>2, <3>4 DEF IInv, Accounts, Account
  <2>3. CASE i \in Ready
    <3>1. Waiting(i)' = Waiting(i) \cup {p} /\ Holding(i)' = Holding(i) \cup {p}
      BY <1>1, <1>2, <1>4, <2>3 DEF TypeOK, Waiting, Holding, AtHand
    <3>2. Owed(i)' = 1 /\ i \notin labelled
      BY <1>1, <2>3, <3>1 DEF Owed
    <3>3. i \in Shared <=> Holding(i) # {}
      BY <2>3 DEF Shared, Holding
    <3>4. /\ IsFiniteSet(Waiting(i)') /\ Cardinality(Waiting(i)') \in Nat
          /\ Cardinality(Waiting(i)) \in Nat
          /\ Cardinality(Waiting(i)') <= Cardinality(Waiting(i)) + 1
      BY <2>1, <3>1, OneMore
    <3>5. excuses'[i] = MaxPosts \/ excuses'[i] = excuses[i] + Owed(i)
      BY <1>3, <3>2, <3>3 DEF Owed
    <3>6. posts'[i] = posts[i] /\ posts[i] \in Nat /\ excuses[i] \in 0..MaxPosts
          /\ excuses'[i] \in 0..MaxPosts
      BY <1>1, <1>2, <1>3
    <3> HIDE DEF Shared
    <3>7. excuses[i] = MaxPosts \/ posts[i] + Cardinality(Waiting(i)) <= excuses[i] + Owed(i)
      BY DEF IInv, Accounts, Account
    <3>8. excuses'[i] = MaxPosts
            \/ posts'[i] + Cardinality(Waiting(i)') <= excuses'[i] + Owed(i)'
      BY <2>1, <3>2, <3>4, <3>5, <3>6, <3>7, PostsAssumption
    <3> QED BY <3>4, <3>8 DEF Account
  <2> QED BY <2>2, <2>3
<1> QED BY <1>1, <1>5, <1>6, PollKeeps DEF IInv, Accounts

(* A pod sends the message of the issue at hand.                              *)
LEMMA PostStep == ASSUME IInv, NEW p \in Pods, PollPost(p) PROVE IInv'
<1> DEFINE h == AtHand(p)
<1>1. /\ p \in up /\ todo[p] # {} /\ p \notin posted
      /\ posts' = [posts EXCEPT ![h] = Least(MaxPosts, @ + 1)] /\ posted' = posted \cup {p}
      /\ UNCHANGED <<labelled, todo, excuses>> /\ PollFrame
  BY DEF PollPost, PollFrame
<1>2. TypeOK /\ excuses \in [Issues -> 0..MaxPosts] /\ posts \in [Issues -> 0..MaxPosts]
  BY DEF IInv, TypeOK
<1>3. h \in todo[p] /\ h \in Issues
  BY <1>1, <1>2, AtHandIsListed
<1> HIDE DEF h
<1>4. /\ posts' \in [Issues -> 0..MaxPosts]
      /\ \A i \in Issues : /\ posts'[i] <= posts[i] + 1
                           /\ i # h => posts'[i] = posts[i]
  BY <1>1, <1>2, <1>3, PostsAssumption DEF Least
<1>5. TypeOK'
  BY <1>1, <1>4, PollKeeps DEF IInv, TypeOK, PollFrame, promotion, issueVars
<1>6. ASSUME NEW i \in Issues PROVE Account(i)'
  <2>1. /\ IsFiniteSet(Waiting(i)) /\ Owed(i) \in 0..1
        /\ excuses[i] = MaxPosts \/ posts[i] + Cardinality(Waiting(i)) <= excuses[i] + Owed(i)
    BY DEF IInv, Accounts, Account, Owed
  <2>2. Owed(i)' = Owed(i) /\ excuses'[i] = excuses[i]
    BY <1>1 DEF Owed, Holding
  <2>3. CASE i # h
    <3>1. Waiting(i)' = Waiting(i)
      BY <1>1, <2>3 DEF Waiting, AtHand, h
    <3>2. posts'[i] = posts[i]
      BY <1>4, <2>3
    <3> QED BY <2>1, <2>2, <3>1, <3>2 DEF Account
  <2>4. CASE i = h
    <3>1. Waiting(i)' = Waiting(i) \ {p} /\ p \in Waiting(i)
      BY <1>1, <1>3, <2>4 DEF Waiting, AtHand, h
    <3>2. /\ IsFiniteSet(Waiting(i)') /\ Cardinality(Waiting(i)) \in Nat
          /\ Cardinality(Waiting(i)') = Cardinality(Waiting(i)) - 1
      BY <2>1, <3>1, OneLess
    <3>3. posts[i] \in Nat /\ posts'[i] \in Nat /\ excuses[i] \in Nat
          /\ posts'[i] <= posts[i] + 1
      BY <1>2, <1>4, PostsAssumption
    <3>4. excuses'[i] = MaxPosts
            \/ posts'[i] + Cardinality(Waiting(i)') <= excuses'[i] + Owed(i)'
      BY <2>1, <2>2, <3>2, <3>3
    <3> QED BY <3>2, <3>4 DEF Account
  <2> QED BY <2>3, <2>4
<1> QED BY <1>1, <1>5, <1>6, PollKeeps DEF IInv, Accounts

(* A pod lets go of some issues of its list: one it has announced only with   *)
(* its label, or with an excuse.                                              *)
LEMMA Released ==
    ASSUME IInv, NEW p \in Pods, NEW D \in SUBSET todo[p], NEW S,
           todo' = [todo EXCEPT ![p] = @ \ D], posted' = posted \ {p}, posts' = posts,
           labelled \subseteq labelled',
           \A i \in Issues : excuses'[i] \in 0..MaxPosts
                               /\ (excuses'[i] = MaxPosts
                                     \/ excuses'[i] = excuses[i] + (IF i \in S THEN 1 ELSE 0)),
           p \in posted => AtHand(p) \in D /\ AtHand(p) \in S \cup labelled'
    PROVE  Accounts'
<1> SUFFICES ASSUME NEW i \in Issues PROVE Account(i)'
  BY DEF Accounts
<1>1. /\ IsFiniteSet(Waiting(i)) /\ Owed(i) \in 0..1 /\ Owed(i)' \in 0..1
      /\ excuses[i] = MaxPosts \/ posts[i] + Cardinality(Waiting(i)) <= excuses[i] + Owed(i)
  BY DEF IInv, Accounts, Account, Owed
<1>2. posts[i] \in Nat /\ excuses[i] \in 0..MaxPosts /\ excuses'[i] \in 0..MaxPosts
  BY PostsAssumption DEF IInv, TypeOK
<1>3. todo \in [Pods -> SUBSET Issues]
  BY DEF IInv, TypeOK
<1>4. CASE i \notin D
  <2>1. Waiting(i)' = Waiting(i)
    BY <1>3, <1>4 DEF Waiting, AtHand
  <2>2. Holding(i)' = Holding(i)
    BY <1>3, <1>4 DEF Holding
  <2>3. Owed(i) <= Owed(i)'
    BY <2>2 DEF Owed
  <2>4. Cardinality(Waiting(i)) \in Nat
    BY <1>1, FS_CardinalityType
  <2>5. excuses'[i] = MaxPosts \/ posts'[i] + Cardinality(Waiting(i)) <= excuses'[i] + Owed(i)'
    BY <1>1, <1>2, <2>3, <2>4, PostsAssumption
  <2> QED BY <1>1, <2>1, <2>5 DEF Account
<1>5. CASE i \in D
  <2>1. Waiting(i)' = Waiting(i) \ {p}
    BY <1>3, <1>5 DEF Waiting, AtHand
  <2>2. /\ IsFiniteSet(Waiting(i)') /\ Cardinality(Waiting(i)') \in Nat
        /\ Cardinality(Waiting(i)) \in Nat
        /\ Cardinality(Waiting(i)') <= Cardinality(Waiting(i))
        /\ p \in Waiting(i) => Cardinality(Waiting(i)') = Cardinality(Waiting(i)) - 1
    BY <1>1, <2>1, OneLess
  <2>3. p \notin Waiting(i) => i \in S \/ Owed(i)' = 1
    BY <1>5 DEF Waiting, Owed
  <2>4. excuses'[i] = MaxPosts
          \/ posts'[i] + Cardinality(Waiting(i)') <= excuses'[i] + Owed(i)'
    BY <1>1, <1>2, <2>2, <2>3, PostsAssumption
  <2> QED BY <2>2, <2>4 DEF Account
<1> QED BY <1>4, <1>5

(* A pod is done with the issue at hand, one way or the other.                *)
LEMMA ReleaseStep ==
    ASSUME IInv, NEW p \in Pods, PollPostFails(p) \/ PollLabel(p) \/ PollLabelFails(p)
    PROVE  IInv'
<1> DEFINE h == AtHand(p)
<1>1. /\ todo[p] # {} /\ PollFrame /\ posts' = posts
      /\ todo' = [todo EXCEPT ![p] = @ \ {h}] /\ posted' = posted \ {p}
  BY DEF IInv, TypeOK, PollPostFails, PollLabel, PollLabelFails, Done, AtHand, PollFrame
<1>2. TypeOK /\ excuses \in [Issues -> 0..MaxPosts]
  BY DEF IInv, TypeOK
<1>3. h \in todo[p] /\ h \in Issues
  BY <1>1, <1>2, AtHandIsListed
<1>4. labelled' \in {labelled, labelled \cup {h}}
  BY DEF PollPostFails, PollLabel, PollLabelFails
<1>5. PICK S \in {{}, {h}} :
         /\ p \in posted => h \in S \cup labelled'
         /\ excuses' \in [Issues -> 0..MaxPosts]
         /\ \A i \in Issues : excuses'[i] = MaxPosts
                                \/ excuses'[i] = excuses[i] + (IF i \in S THEN 1 ELSE 0)
  <2>1. CASE PollPostFails(p) \/ PollLabel(p)
    <3>1. excuses' = excuses /\ (p \in posted => h \in labelled')
      BY <2>1 DEF PollPostFails, PollLabel
    <3> HIDE DEF h
    <3>2. \A i \in Issues : excuses[i] \in Nat
      BY <1>2, PostsAssumption
    <3> WITNESS {} \in {{}, {h}}
    <3> QED BY <1>2, <3>1, <3>2
  <2>2. CASE PollLabelFails(p)
    <3>1. excuses' = Excused({h})
      BY <2>2 DEF PollLabelFails
    <3> HIDE DEF h
    <3> WITNESS {h} \in {{}, {h}}
    <3> QED BY <1>2, <3>1, ExcusedIs
  <2> QED BY <2>1, <2>2
<1>6. TypeOK'
  <2> HIDE DEF h
  <2>1. posted' \subseteq up' /\ \A q \in posted' : todo'[q] # {}
    BY <1>1 DEF IInv, TypeOK, PollFrame, issueVars
  <2> QED BY <1>1, <1>3, <1>4, <1>5, <2>1, PollKeeps DEF IInv, TypeOK, PollFrame, promotion
<1>7. labelled \subseteq labelled' /\ {h} \in SUBSET todo[p]
  BY <1>3, <1>4
<1>8. \A i \in Issues : excuses'[i] \in 0..MaxPosts
                          /\ (excuses'[i] = MaxPosts
                                \/ excuses'[i] = excuses[i] + (IF i \in S THEN 1 ELSE 0))
  <2> HIDE DEF h
  <2> QED BY <1>5
<1>9. Accounts'
  BY <1>1, <1>5, <1>7, <1>8, Released
<1> QED BY <1>1, <1>6, <1>9, PollKeeps DEF IInv

(* A pod stops, with what it had in hand.                                     *)
LEMMA StopStep == ASSUME IInv, NEW p \in Pods, BotPodStop(p) PROVE IInv'
<1> DEFINE S == IF p \in posted THEN {AtHand(p)} ELSE {}
<1>1. /\ up' = up \ {p} /\ UNCHANGED <<status, lines, unchecked, rollouts>>
      /\ rpc' = [r \in Requests |-> IF pod[r] = p THEN "idle" ELSE rpc[r]]
      /\ failed' = failed \cup {target[r] : r \in {s \in Requests : pod[s] = p /\ Promoting(s)}}
      /\ excuses' = Excused(S) /\ todo' = [todo EXCEPT ![p] = {}] /\ posted' = posted \ {p}
      /\ UNCHANGED <<labelled, comments, pod, target, posts>>
  BY DEF BotPodStop, PodStop
<1>2. TypeOK
  BY DEF IInv
<1>3. p \in posted => AtHand(p) \in todo[p]
  BY <1>2, AtHandIsListed DEF TypeOK
<1>4. p \in posted => AtHand(p) \in S
  OBVIOUS
<1> HIDE DEF S
<1>5. /\ excuses' \in [Issues -> 0..MaxPosts]
      /\ \A i \in Issues : excuses'[i] = MaxPosts
                             \/ excuses'[i] = excuses[i] + (IF i \in S THEN 1 ELSE 0)
  BY <1>1, <1>2, ExcusedIs
<1>6. TypeOK'
  <2>1. failed' \subseteq Issues
    BY <1>1 DEF IInv, TypeOK, Targets, Promoting
  <2>2. IssueTypeOK'
    BY <1>1 DEF IInv, TypeOK, IssueTypeOK
  <2>3. posted' \subseteq up' /\ \A q \in posted' : todo'[q] # {}
    BY <1>1 DEF IInv, TypeOK
  <2>4. rpc' \in [Requests -> {"idle", "comment", "close"}] /\ todo' \in [Pods -> SUBSET Issues]
    BY <1>1 DEF IInv, TypeOK
  <2> QED BY <1>1, <1>5, <2>1, <2>2, <2>3, <2>4 DEF IInv, TypeOK
<1>7. Targets'
  BY <1>1 DEF IInv, TypeOK, Targets
<1>8. PromotedCommentIsHonest'
  <2> SUFFICES ASSUME NEW i \in comments', status'[i] # "closed", i \notin failed'
               PROVE  \E r \in Requests : rpc'[r] = "close" /\ target'[r] = i
    BY DEF PromotedCommentIsHonest
  <2>1. PICK r \in Requests : rpc[r] = "close" /\ target[r] = i
    BY <1>1 DEF IInv, PromotedCommentIsHonest
  <2>2. pod[r] # p
    BY <1>1, <2>1 DEF Promoting
  <2> QED BY <1>1, <2>1, <2>2
<1>9. Accounts'
  <2>1. todo' = [todo EXCEPT ![p] = @ \ todo[p]]
    BY <1>1 DEF IInv, TypeOK
  <2> DEFINE D == todo[p]
  <2>2. D \in SUBSET todo[p]
    OBVIOUS
  <2> QED BY <1>1, <1>3, <1>4, <1>5, <2>1, <2>2, Released
<1> QED BY <1>6, <1>7, <1>8, <1>9 DEF IInv

-----------------------------------------------------------------------------

(* Every step keeps the invariant.                                            *)
LEMMA Preserved == IInv /\ [Next]_vars => IInv'
<1> SUFFICES ASSUME IInv, [Next]_vars PROVE IInv'
  OBVIOUS
<1>1. ASSUME NEW r \in Requests,
             (\E p \in Pods : PromoteFetch(r, p)) \/ PromoteComment(r) \/ PromoteClose(r)
                 \/ PromoteFails(r)
      PROVE  IInv'
  BY <1>1, PromoteStep
<1>2. ASSUME NEW p \in Pods,
             PollFetch(p) \/ PollPost(p) \/ PollPostFails(p) \/ PollLabel(p)
                 \/ PollLabelFails(p) \/ BotPodStop(p)
      PROVE  IInv'
  BY <1>2, FetchStep, PostStep, ReleaseStep, StopStep
<1>3. CASE (PeopleNext \/ \E p \in Pods : PodStart(p)) /\ UNCHANGED <<promotion, poller>>
  BY <1>3, PeopleStep
<1>4. CASE UNCHANGED vars
  <2>1. UNCHANGED <<issueVars, promotion, poller>>
    BY <1>4 DEF vars
  <2>2. TypeOK' /\ Targets' /\ PromotedCommentIsHonest'
    BY <2>1 DEF IInv, TypeOK, IssueTypeOK, Targets, PromotedCommentIsHonest, issueVars,
                promotion, poller
  <2> QED BY <2>1, <2>2, AccountsKept DEF IInv
<1> QED BY <1>1, <1>2, <1>3, <1>4, Zenon DEF Next

LEMMA Invariant == Spec => []IInv
<1> QED BY Initially, Preserved, PTL DEF Spec

(* Types, of what GitHub and the pods of the bot keep.                        *)
THEOREM TypeCorrect == Spec => []TypeOK
<1>1. IInv => TypeOK
  BY DEF IInv
<1> QED BY <1>1, Invariant, PTL

(* A ready message is sent again only when its label was lost, or when two    *)
(* pods took the same snapshot.                                               *)
THEOREM RepeatsHaveReasons == Spec => []RepeatsExplained
<1>1. IInv => RepeatsExplained
  <2> SUFFICES ASSUME IInv, NEW i \in Issues PROVE posts[i] <= 1 + excuses[i]
    BY DEF RepeatsExplained
  <2>1. /\ IsFiniteSet(Waiting(i)) /\ Owed(i) \in 0..1
        /\ excuses[i] = MaxPosts \/ posts[i] + Cardinality(Waiting(i)) <= excuses[i] + Owed(i)
    BY DEF IInv, Accounts, Account, Owed
  <2>2. Cardinality(Waiting(i)) \in Nat
    BY <2>1, FS_CardinalityType
  <2>3. posts[i] \in 0..MaxPosts /\ excuses[i] \in 0..MaxPosts
    BY DEF IInv, TypeOK
  <2> QED BY <2>1, <2>2, <2>3, PostsAssumption
<1> QED BY <1>1, Invariant, PTL

(* An issue that says it was promoted is closed, is being closed, or its      *)
(* promotion was reported as failed.                                          *)
THEOREM CommentIsHonest == Spec => []PromotedCommentIsHonest
<1>1. IInv => PromotedCommentIsHonest
  BY DEF IInv
<1> QED BY <1>1, Invariant, PTL

(* Promotion and poller do to the issues only what IssueSpec allows.          *)
THEOREM KeepsIssueSpec == Spec => IssueSpec
<1>1. Init => IssueInit
  BY DEF Init
<1>2. IInv /\ [Next]_vars => [IssueNext]_issueVars
  <2> SUFFICES ASSUME IInv, [Next]_vars PROVE [IssueNext]_issueVars
    OBVIOUS
  <2>1. ASSUME NEW r \in Requests, PromoteClose(r) PROVE [IssueNext]_issueVars
    <3>1. /\ target[r] \in Issues /\ status[target[r]] \in {"open", "closed"}
          /\ status' = [status EXCEPT ![target[r]] = "closed"]
          /\ UNCHANGED <<lines, unchecked, pods>>
      BY <2>1 DEF IInv, TypeOK, IssueTypeOK, Targets, PromoteClose, pods
    <3>2. CASE status[target[r]] = "open"
      BY <3>1, <3>2 DEF IssueNext, PeopleNext, CloseIssue
    <3>3. CASE status[target[r]] = "closed"
      BY <3>1, <3>3 DEF IInv, TypeOK, IssueTypeOK, issueVars, pods
    <3> QED BY <3>1, <3>2, <3>3
  <2>2. ASSUME NEW r \in Requests,
               (\E p \in Pods : PromoteFetch(r, p)) \/ PromoteComment(r) \/ PromoteFails(r)
        PROVE  [IssueNext]_issueVars
    BY <2>2 DEF PromoteFetch, PromoteComment, PromoteFails
  <2>3. ASSUME NEW p \in Pods,
               PollFetch(p) \/ PollPost(p) \/ PollPostFails(p) \/ PollLabel(p) \/ PollLabelFails(p)
        PROVE  [IssueNext]_issueVars
    BY <2>3 DEF PollFetch, PollPost, PollPostFails, PollLabel, PollLabelFails
  <2>4. ASSUME NEW p \in Pods, BotPodStop(p) PROVE [IssueNext]_issueVars
    BY <2>4 DEF BotPodStop, IssueNext
  <2>5. CASE PeopleNext \/ \E p \in Pods : PodStart(p)
    BY <2>5 DEF IssueNext
  <2>6. CASE UNCHANGED vars
    BY <2>6 DEF vars
  <2> QED BY <2>1, <2>2, <2>3, <2>4, <2>5, <2>6, Zenon DEF Next
<1> QED BY <1>1, <1>2, Invariant, PTL DEF Spec, IssueSpec
=============================================================================
