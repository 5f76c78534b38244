----------------------- MODULE ReleasePipeline_proofs -----------------------
(***************************************************************************)
(* Proofs about ReleasePipeline.  TypeCorrect: its type invariant, with    *)
(* the fact that a running build has bound a version.  NeverSilently-      *)
(* Unfinished: a release production runs and nobody finished is never left *)
(* behind a green production job.  Neither assumes anything of who cuts,   *)
(* abandons, merges or closes when.  OnlyPromoted, OnlyTested, TagStays,   *)
(* CarefulDeploysItsRelease: as long as everybody has waited, production   *)
(* runs only what was promoted and tested, its tag stays, and a promotion  *)
(* deploys the release it is about.                                        *)
(***************************************************************************)
EXTENDS ReleasePipeline, TLAPS

(* A build that runs has bound a version, an image exists once its version    *)
(* reaches QA, and an issue shows the cut QA deployed.                        *)
Bound ==
    /\ \A b \in Builds : ipc[b] # "idle" => iver[b] \in Versions
    /\ \A b \in Builds : ipc[b] = "push" => icut[b] \in Cuts
    /\ lastBuilt # None => image[lastBuilt] \in Cuts
    /\ qpc # "idle" => qver \in Versions /\ image[qver] \in Cuts
    /\ qpc \in {"issue", "finish"} => qcut \in Cuts
    /\ \A v \in Versions : issue[v] # "none" => body[v] \in Cuts
    /\ ppc # "idle" => pver \in Versions
    /\ \A v \in Versions : seen[v] <= stamp[v]

Typed == TypeOK /\ Bound

(* No cut number is ahead of the counter... *)
Fresh ==
    /\ \A v \in Versions : tag[v] <= cuts /\ image[v] <= cuts
    /\ \A b \in Builds : icut[b] <= cuts
    /\ prodCut <= cuts

(* ... so a cut belongs to one version: the tags of two versions never hold   *)
(* the same cut, and neither do the image and the tag of two versions.        *)
Owned ==
    /\ \A v, w \in Versions : tag[v] # None /\ tag[v] = tag[w] => v = w
    /\ \A v, w \in Versions : tag[v] # None /\ tag[v] = image[w] => v = w
    /\ \A b \in Builds, w \in Versions :
         ipc[b] = "push" /\ tag[w] # None /\ tag[w] = icut[b] => iver[b] = w

(* Once Pulumi ran, the build's version is the one production runs. *)
Deployed ==
    ppc \in {"finish_deployment", "finish_release"} =>
        \A w \in Versions : tag[w] # None /\ tag[w] = prodCut => w = pver

Safe == Fresh /\ Owned /\ Deployed /\ UnfinishedIsRed

(* What holds as long as everybody waited.  While a release is being built,   *)
(* or is about to be, it is the only one: every image build is of the version *)
(* recorded last, whose issue nobody closed, and nothing is on its way to     *)
(* production.                                                                *)
Building == asked \/ Due \/ \E b \in Builds : ipc[b] # "idle"

BuildsAlone ==
    /\ \A b \in Builds : ipc[b] # "idle" => iver[b] = latest
    /\ Building =>
        /\ latest # None /\ issue[latest] # "closed"
        /\ ppc = "idle"
        /\ qaWanted \/ qpc # "idle" => lastBuilt = latest
        /\ \A v \in Versions : /\ stamp[v] = seen[v] /\ queue[v] = {}
                               /\ issue[v] = "open" => v = latest

(* QA, the open issue and the updates on their way to production are all      *)
(* about the version built last; a newer image of it has QA wanted again.     *)
AboutLast ==
    /\ qpc # "idle" => qver = lastBuilt
    /\ qpc \in {"issue", "finish"} => qcut = image[qver] \/ qaWanted
    /\ qpc = "finish" => body[qver] = qcut
    /\ \A v \in Versions : issue[v] = "open" =>
         /\ v = lastBuilt
         /\ body[v] = image[v] \/ qaWanted \/ qpc \in {"deploy", "issue"} \/ qaRed
    /\ \A v \in Versions : stamp[v] # seen[v] \/ queue[v] # {} =>
         v = lastBuilt /\ issue[v] = "closed"

(* Once QA is quiet and green, it has tested the image built last.            *)
Judged ==
    lastBuilt # None =>
        /\ ~qaWanted /\ qpc = "idle" /\ ~qaRed =>
             image[lastBuilt] \in tested /\ lastQA = lastBuilt
        /\ issue[lastBuilt] = "closed" => lastQA = lastBuilt

(* An issue that was closed had its version's image promoted and tested, and  *)
(* a version that was deployed, or is being, has its issue closed.            *)
Settled ==
    /\ \A v \in Versions : issue[v] = "closed" => image[v] \in promoted \cap tested
    /\ \A v \in Versions : deployment[v] = "success" => issue[v] = "closed"
    /\ ppc # "idle" => issue[pver] = "closed" /\ pgate = pver
    /\ prodCut # None => prodCut \in promoted \cap tested

Serial == BuildsAlone /\ AboutLast /\ Judged /\ Settled
CSerial == Careful => Serial

USE ReleaseAssumption

(* No version and no cut is None. *)
LEMMA NoneIsNone == None \notin Versions /\ None \notin Cuts
  BY DEF None, Versions, Cuts

-----------------------------------------------------------------------------

(* The initial state is typed. *)
LEMMA TypedInit == Init => Typed
<1> SUFFICES ASSUME Init PROVE Typed
  OBVIOUS
<1>1. TypeOK
  <2>1. /\ tag \in [Versions -> Cuts \cup {None}] /\ branches \subseteq Versions
        /\ cuts \in 0..MaxCuts /\ latest \in Versions \cup {None}
        /\ inputs \subseteq Versions
    BY DEF Init
  <2>2. /\ image \in [Versions -> Cuts \cup {None}]
        /\ ipc \in [Builds -> {"idle", "create", "push"}]
    BY DEF Init
  <2>3. /\ iver \in [Builds -> Versions \cup {None}]
        /\ icut \in [Builds -> Cuts \cup {None}]
        /\ lastBuilt \in Versions \cup {None}
    BY DEF Init
  <2>4. /\ asked \in BOOLEAN /\ qaWanted \in BOOLEAN /\ qaRed \in BOOLEAN
        /\ early \in BOOLEAN /\ prodRed \in BOOLEAN
        /\ qpc \in {"idle", "deploy", "issue", "finish"}
    BY DEF Init
  <2>5. /\ qver \in Versions \cup {None} /\ qcut \in Cuts \cup {None}
        /\ qaBuilds \in 0..MaxQABuilds /\ lastQA \in Versions \cup {None}
    BY DEF Init
  <2>6. /\ issue \in [Versions -> {"none", "open", "closed", "abandoned"}]
        /\ body \in [Versions -> Cuts \cup {None}]
    BY DEF Init
  <2>7. /\ stamp \in [Versions -> Nat] /\ seen \in [Versions -> Nat]
        /\ queue \in [Versions -> SUBSET Nat] /\ answered \in [Versions -> Nat]
        /\ \A v \in Versions : queue[v] \subseteq 1..seen[v]
    BY DEF Init
  <2>8. /\ ppc \in {"idle", "start", "pulumi", "finish_deployment", "finish_release"}
        /\ pver \in Versions \cup {None} /\ pgate \in Versions \cup {None}
        /\ deployment \in [Versions -> {"none", "started", "success"}]
        /\ prodCut \in Cuts \cup {None}
        /\ ppc = "idle"
    BY DEF Init
  <2>9. /\ hasty \in 0..MaxHaste
        /\ promoted \subseteq Cuts /\ tested \subseteq Cuts
    BY DEF Init
  <2> QED BY <2>1, <2>2, <2>3, <2>4, <2>5, <2>6, <2>7, <2>8, <2>9 DEF TypeOK
<1>2. Bound
  BY DEF Init, Bound
<1> QED BY <1>1, <1>2 DEF Typed

(* A step of an image build, the command or the abandon job keeps the types.  *)
LEMMA TypedRelease ==
  ASSUME Typed,
         CheckRelease \/ CommandEnds \/ AbandonRelease \/ InfraMerge
           \/ \E b \in Builds : ImageBuildDue(b) \/ ImageBuildTrigger(b) \/ ImageBuildStep(b)
  PROVE  Typed'
<1> USE NoneIsNone DEF Typed, TypeOK, Bound
<1>1. ASSUME NEW waited \in BOOLEAN, Acts(waited) PROVE hasty' \in 0..MaxHaste
  BY <1>1 DEF Acts
<1>2. CASE CheckRelease
  <2>1. latest' \in Versions /\ hasty' \in 0..MaxHaste
    BY <1>2 DEF CheckRelease, NextVersions, Acts
  <2> QED BY <1>2, <2>1 DEF CheckRelease, git, build, qa, gate, prod
<1>3. CASE CommandEnds
  <2>1. asked' \in BOOLEAN
    BY <1>3 DEF CommandEnds
  <2> QED BY <1>3, <2>1 DEF CommandEnds, git, build, qa, gate, prod, people
<1>4. CASE AbandonRelease
  <2>1. hasty' \in 0..MaxHaste
    BY <1>4 DEF AbandonRelease, Acts
  <2> QED BY <1>4, <2>1 DEF AbandonRelease, release, build, qa, gate, prod
<1>5. CASE InfraMerge
  <2>1. hasty' \in 0..MaxHaste
    BY <1>5 DEF InfraMerge, Acts
  <2> QED BY <1>5, <2>1 DEF InfraMerge, git, release, build, qa, gate, prod
<1>6. ASSUME NEW b \in Builds, ImageBuildDue(b) \/ ImageBuildTrigger(b) PROVE Typed'
  <2>1. asked' \in BOOLEAN /\ (hasty' = hasty \/ \E waited \in BOOLEAN : Acts(waited))
    BY <1>6 DEF ImageBuildDue, ImageBuildTrigger
  <2>2. hasty' \in 0..MaxHaste
    BY <1>1, <2>1
  <2>3. ImageBuildStarts(b)
    BY <1>6 DEF ImageBuildDue, ImageBuildTrigger
  <2> QED BY <2>1, <2>2, <2>3 DEF ImageBuildStarts, git, qa, gate, prod
<1>7. ASSUME NEW b \in Builds, ImageBuildCreate(b) PROVE Typed'
  BY <1>7 DEF ImageBuildCreate, Create, Cuts, Superseded, qa, gate, people
<1>8. ASSUME NEW b \in Builds, ImageBuildPush(b) PROVE Typed'
  BY <1>8 DEF ImageBuildPush, ImageBuildEnds, git, release, qa, gate, prod, people
<1>9. ASSUME NEW b \in Builds, ImageBuildFail(b) PROVE Typed'
  BY <1>9 DEF ImageBuildFail, ImageBuildEnds, git, release, qa, gate, prod, people
<1> QED BY <1>2, <1>3, <1>4, <1>5, <1>6, <1>7, <1>8, <1>9 DEF ImageBuildStep

(* A step of the QA job, of people or of the gate keeps the types. *)
LEMMA TypedQA ==
  ASSUME Typed,
         QAStart \/ QAStep \/ GateCheck
           \/ \E v \in Versions : CloseIssue(v) \/ AbandonIssue(v)
  PROVE  Typed'
<1> USE NoneIsNone DEF Typed, TypeOK, Bound
<1>1. CASE QAStart
  <2>1. /\ qaWanted' = FALSE /\ qpc' = "deploy" /\ qver' = lastBuilt
        /\ UNCHANGED <<git, release, image, build, qcut, qaRed, lastQA, tested, issue, body,
                       gate, prod, people>>
    BY <1>1 DEF QAStart
  <2>2. qaBuilds' \in 0..MaxQABuilds
    BY <1>1 DEF QAStart
  <2>3. lastBuilt \in Versions
    BY <1>1 DEF QAStart
  <2>4. TypeOK'
    <3>1. qaWanted' \in BOOLEAN
      BY <2>1
    <3> QED BY <2>1, <2>2, <2>3, <3>1 DEF git, release, build, gate, prod, people
  <2>5. Bound'
    BY <2>1, <2>3 DEF git, release, build, gate, prod
  <2> QED BY <2>4, <2>5
<1>2. CASE QADeploy
  BY <1>2 DEF QADeploy, git, release, build, gate, prod, people
<1>3. CASE QAIssue
  <2>1. /\ qpc = "issue" /\ qver \in Versions /\ qcut \in Cuts /\ image[qver] \in Cuts
        /\ qpc' = "finish"
        /\ body' = [body EXCEPT ![qver] = qcut]
        /\ issue' = [issue EXCEPT ![qver] = IF @ = "none" THEN "open" ELSE @]
        /\ stamp' \in [Versions -> Nat] /\ \A v \in Versions : stamp[v] <= stamp'[v]
        /\ UNCHANGED <<git, release, image, build, qaWanted, qver, qcut, qaBuilds, qaRed, lastQA,
                       tested, seen, queue, answered, prod, people>>
    BY <1>3 DEF QAIssue, QAIssueEdits
  <2>2. TypeOK'
    BY <2>1 DEF git, release, build, prod, people
  <2>3. Bound'
    BY <2>1 DEF git, release, build, prod
  <2> QED BY <2>2, <2>3
<1>4. CASE QAFinish
  <2>1. qaRed' \in BOOLEAN /\ qaWanted' \in BOOLEAN
    BY <1>4 DEF QAFinish, QAFinishes
  <2> QED BY <1>4, <2>1 DEF QAFinish, QAFinishes, QAEnds, git, release, build, gate, prod, people
<1>5. CASE QAFail
  BY <1>5 DEF QAFail, QAEnds, git, release, build, gate, prod, people
<1>6. CASE GateCheck
  <2>1. /\ queue' = [v \in Versions |-> IF v \in Updated THEN queue[v] \cup {stamp[v]}
                                                        ELSE queue[v]]
        /\ seen' = stamp
        /\ UNCHANGED <<git, release, image, build, qaWanted, qa, issue, body, stamp, answered,
                       prod, people>>
    BY <1>6 DEF GateCheck, Records
  <2>2. ASSUME NEW v \in Versions PROVE queue'[v] \subseteq 1..seen'[v]
    BY <2>1, <2>2 DEF Updated
  <2>3. /\ queue' \in [Versions -> SUBSET Nat] /\ seen' \in [Versions -> Nat]
        /\ \A v \in Versions : seen'[v] <= stamp'[v]
    BY <2>1
  <2>4. TypeOK'
    BY <2>1, <2>2, <2>3 DEF git, release, build, qa, prod, people
  <2>5. Bound'
    BY <2>1, <2>3 DEF git, release, build, qa, prod
  <2> QED BY <2>4, <2>5
<1>7. ASSUME NEW v \in Versions, CloseIssue(v) PROVE Typed'
  BY <1>7 DEF CloseIssue, git, release, build, qa, prod, Quiet
<1>8. ASSUME NEW v \in Versions, AbandonIssue(v) PROVE Typed'
  BY <1>8 DEF AbandonIssue, git, release, build, qa, gate, prod, people
<1> QED BY <1>1, <1>2, <1>3, <1>4, <1>5, <1>6, <1>7, <1>8 DEF QAStep

(* A step of the production job keeps the types. *)
LEMMA TypedProd ==
  ASSUME Typed, ProdStep \/ \E v \in Versions : ProdBind(v)
  PROVE  Typed'
<1> USE NoneIsNone DEF Typed, TypeOK, Bound
<1>1. ASSUME NEW v \in Versions, ProdBind(v) PROVE Typed'
  <2>1. PICK n \in queue[v] : /\ queue' = [queue EXCEPT ![v] = @ \ {n}]
                              /\ answered' = [answered EXCEPT ![v] = n]
    BY <1>1 DEF ProdBind
  <2>2. n \in Nat /\ n > 0
    BY <2>1
  <2> QED BY <1>1, <2>1, <2>2 DEF ProdBind, ProdBinds, git, release, build, qa, people
<1>2. CASE ProdStart
  BY <1>2 DEF ProdStart, git, release, build, qa, gate, people
<1>3. CASE ProdPulumi
  BY <1>3 DEF ProdPulumi, git, release, build, qa, gate, people
<1>4. CASE ProdFinishDeployment
  BY <1>4 DEF ProdFinishDeployment, git, release, build, qa, gate, people
<1>5. CASE ProdFinishRelease
  <2>1. prodRed' \in BOOLEAN
    BY <1>5 DEF ProdFinishRelease
  <2> QED BY <1>5, <2>1 DEF ProdFinishRelease, ProdEnds, release, build, qa, gate, people
<1>6. CASE ProdFail
  BY <1>6 DEF ProdFail, ProdEnds, git, release, build, qa, gate, people
<1> QED BY <1>1, <1>2, <1>3, <1>4, <1>5, <1>6 DEF ProdStep

(* Every step keeps the types. *)
LEMMA TypedStep == Typed /\ [Next]_vars => Typed'
<1> SUFFICES ASSUME Typed, [Next]_vars PROVE Typed'
  OBVIOUS
<1>1. CASE Next
  BY <1>1, TypedRelease, TypedQA, TypedProd DEF Next
<1>2. CASE UNCHANGED vars
  BY <1>2 DEF Typed, TypeOK, Bound, vars, git, release, build, qa, gate, prod, people
<1> QED BY <1>1, <1>2

(* Every reachable state is typed, a running build has bound a version, and   *)
(* a production build was started for an update the gate recorded.            *)
THEOREM TypeCorrect == Spec => [](TypeOK /\ Bound)
<1>1. Typed => TypeOK /\ Bound
  BY DEF Typed
<1> QED BY TypedInit, TypedStep, <1>1, PTL DEF Spec

-----------------------------------------------------------------------------

(* What the invariant reads: a step that changes none of it preserves it. *)
read == <<tag, branches, cuts, image, ipc, iver, icut, ppc, pver, prodCut, prodRed>>

LEMMA SafeFrame == ASSUME Safe, UNCHANGED read PROVE Safe'
  BY DEF Safe, Fresh, Owned, Deployed, UnfinishedIsRed, read

LEMMA SafeInit == Init => Safe
  BY NoneIsNone DEF Init, Safe, Fresh, Owned, Deployed, UnfinishedIsRed, None

(* A new cut is ahead of everything; the tags of the others only disappear. *)
LEMMA SafeCreate ==
  ASSUME Typed, Safe, NEW b \in Builds, ImageBuildCreate(b)
  PROVE  Safe'
<1> USE DEF Safe, Typed
<1>1. /\ cuts \in Nat /\ cuts' = cuts + 1 /\ iver[b] \in Versions
      /\ branches' = {iver[b]}
      /\ \A w \in Versions : tag'[w] = IF w = iver[b] THEN cuts + 1
                                       ELSE IF w \in Superseded THEN None ELSE tag[w]
      /\ \A c \in Builds : /\ ipc'[c] = IF c = b THEN "push" ELSE ipc[c]
                           /\ icut'[c] = IF c = b THEN cuts + 1 ELSE icut[c]
      /\ UNCHANGED <<image, iver, ppc, pver, prodCut, prodRed>>
  BY DEF ImageBuildCreate, Create, Bound, TypeOK
<1>2. /\ \A v \in Versions : tag[v] \in Nat /\ image[v] \in Nat
      /\ \A c \in Builds : icut[c] \in Nat
      /\ prodCut \in Nat
  BY DEF TypeOK, Cuts, None
<1>3. Fresh'
  BY <1>1, <1>2 DEF Fresh, None
<1>4. Owned'
  <2>1. ASSUME NEW v \in Versions, NEW w \in Versions, tag'[v] # None, tag'[v] = tag'[w]
        PROVE  v = w
    BY <1>1, <1>2, <2>1 DEF Fresh, Owned, None
  <2>2. ASSUME NEW v \in Versions, NEW w \in Versions, tag'[v] # None, tag'[v] = image'[w]
        PROVE  v = w
    BY <1>1, <1>2, <2>2 DEF Fresh, Owned, None
  <2>3. ASSUME NEW c \in Builds, NEW w \in Versions,
               ipc'[c] = "push", tag'[w] # None, tag'[w] = icut'[c]
        PROVE  iver'[c] = w
    BY <1>1, <1>2, <2>3 DEF Fresh, Owned, None
  <2> QED BY <2>1, <2>2, <2>3 DEF Owned
<1>5. Deployed'
  BY <1>1, <1>2 DEF Deployed, Fresh, None
<1>6. UnfinishedIsRed'
  BY <1>1, <1>2 DEF UnfinishedIsRed, Fresh, None
<1> QED BY <1>3, <1>4, <1>5, <1>6

(* The image takes the cut the build made, which no other version's tag holds. *)
LEMMA SafePush ==
  ASSUME Typed, Safe, NEW b \in Builds, ImageBuildPush(b)
  PROVE  Safe'
<1> USE DEF Safe, Typed
<1>1. /\ ipc[b] = "push" /\ iver[b] \in Versions
      /\ \A v \in Versions : image'[v] = IF v = iver[b] THEN icut[b] ELSE image[v]
      /\ \A c \in Builds : /\ ipc'[c] = IF c = b THEN "idle" ELSE ipc[c]
                           /\ iver'[c] = IF c = b THEN None ELSE iver[c]
                           /\ icut'[c] = IF c = b THEN None ELSE icut[c]
      /\ UNCHANGED <<tag, branches, cuts, ppc, pver, prodCut, prodRed>>
  BY DEF ImageBuildPush, ImageBuildEnds, Bound, TypeOK, git, prod
<1>2. Fresh'
  BY <1>1 DEF Fresh, TypeOK, None
<1>3. Owned'
  BY <1>1 DEF Owned
<1>4. Deployed' /\ UnfinishedIsRed'
  BY <1>1 DEF Deployed, UnfinishedIsRed
<1> QED BY <1>2, <1>3, <1>4

(* Abandoning only removes a tag and its branch; a failed build stops pushing. *)
LEMMA SafeRemove ==
  ASSUME Typed, Safe,
         AbandonRelease
           \/ \E b \in Builds : ImageBuildStarts(b) \/ ImageBuildFail(b)
  PROVE  Safe'
<1> USE DEF Safe, Typed
<1>1. CASE AbandonRelease
  <2>1. /\ branches' \subseteq branches
        /\ \A v \in Versions : tag'[v] = tag[v] \/ tag'[v] = None
        /\ UNCHANGED <<cuts, image, ipc, iver, icut, ppc, pver, prodCut, prodRed>>
    BY <1>1 DEF AbandonRelease, TypeOK, build, prod
  <2>2. Fresh'
    BY <2>1 DEF Fresh, TypeOK, None
  <2>3. Owned' /\ Deployed'
    BY <2>1 DEF Owned, Deployed
  <2>4. UnfinishedIsRed'
    BY <2>1 DEF UnfinishedIsRed, TypeOK
  <2> QED BY <2>2, <2>3, <2>4
<1>2. ASSUME NEW b \in Builds, ImageBuildStarts(b) \/ ImageBuildFail(b) PROVE Safe'
  <2>1. /\ \A c \in Builds :
             /\ ipc'[c] = "push" =>
                  ipc[c] = "push" /\ iver'[c] = iver[c] /\ icut'[c] = icut[c]
             /\ icut'[c] \in {icut[c], None}
        /\ UNCHANGED <<tag, branches, cuts, image, ppc, pver, prodCut, prodRed>>
    BY <1>2 DEF ImageBuildStarts, ImageBuildFail, ImageBuildEnds, TypeOK, git, prod
  <2>2. Fresh'
    BY <2>1 DEF Fresh, TypeOK, None
  <2> QED BY <2>1, <2>2 DEF Owned, Deployed, UnfinishedIsRed
<1> QED BY <1>1, <1>2

(* The production job: Pulumi deploys the bound version's image, and finish    *)
(* removes the branch of the version that production runs.                     *)
LEMMA SafeProd ==
  ASSUME Typed, Safe, ProdStep \/ \E v \in Versions : ProdBind(v)
  PROVE  Safe'
<1> USE DEF Safe, Typed
<1>1. CASE \E v \in Versions : ProdBind(v)
  BY <1>1 DEF ProdBind, ProdBinds, git, build, Fresh, Owned, Deployed, UnfinishedIsRed
<1>2. CASE ProdStart
  BY <1>2 DEF ProdStart, git, build, Fresh, Owned, Deployed, UnfinishedIsRed
<1>3. CASE ProdPulumi
  <2>1. /\ pver \in Versions /\ prodCut' = image[pver] /\ ppc' = "finish_deployment"
        /\ UNCHANGED <<tag, branches, cuts, image, ipc, iver, icut, pver, prodRed>>
    BY <1>3 DEF ProdPulumi, Bound, git, build
  <2> QED BY <2>1 DEF Fresh, Owned, Deployed, UnfinishedIsRed
<1>4. CASE ProdFinishDeployment
  BY <1>4 DEF ProdFinishDeployment, git, build, Fresh, Owned, Deployed, UnfinishedIsRed
<1>5. CASE ProdFinishRelease
  <2>1. /\ ppc = "finish_release" /\ branches' = branches \ {pver} /\ ppc' = "idle"
        /\ UNCHANGED <<tag, cuts, image, ipc, iver, icut, prodCut>>
    BY <1>5 DEF ProdFinishRelease, ProdEnds, build
  <2>2. Fresh' /\ Owned' /\ Deployed'
    BY <2>1 DEF Fresh, Owned, Deployed
  <2>3. UnfinishedIsRed'
    BY <2>1 DEF Deployed, UnfinishedIsRed, TypeOK
  <2> QED BY <2>2, <2>3
<1>6. CASE ProdFail
  <2>1. /\ prodCut' = prodCut \/ (pver \in Versions /\ prodCut' = image[pver])
        /\ ppc' = "idle" /\ prodRed' = TRUE
        /\ UNCHANGED <<tag, branches, cuts, image, ipc, iver, icut>>
    BY <1>6 DEF ProdFail, ProdEnds, Bound, git, build
  <2> QED BY <2>1 DEF Fresh, Owned, Deployed, UnfinishedIsRed
<1> QED BY <1>1, <1>2, <1>3, <1>4, <1>5, <1>6 DEF ProdStep

(* Every step preserves the invariant. *)
LEMMA SafeStep == Typed /\ Safe /\ [Next]_vars => Safe'
<1> SUFFICES ASSUME Typed, Safe, [Next]_vars PROVE Safe'
  OBVIOUS
<1>1. CASE CheckRelease \/ CommandEnds \/ InfraMerge \/ QAStart \/ QAStep \/ GateCheck
             \/ \E v \in Versions : CloseIssue(v) \/ AbandonIssue(v)
  <2>1. UNCHANGED read
    BY <1>1 DEF CheckRelease, CommandEnds, InfraMerge, QAStart, QAStep, QADeploy, QAIssue,
                QAIssueEdits, QAFinish, QAFinishes, QAFail, GateCheck, Records, CloseIssue, AbandonIssue, git, build, prod, read
  <2> QED BY <2>1, SafeFrame
<1>2. CASE UNCHANGED vars
  <2>1. UNCHANGED read
    BY <1>2 DEF vars, git, build, prod, read
  <2> QED BY <2>1, SafeFrame
<1> QED BY <1>1, <1>2, SafeCreate, SafePush, SafeRemove, SafeProd
           DEF Next, ImageBuildStep, ImageBuildDue, ImageBuildTrigger

(* A release in flight that production runs is never left behind a green       *)
(* production job, whoever cuts, abandons or merges at whatever moment.        *)
THEOREM NeverSilentlyUnfinished == Spec => []UnfinishedIsRed
<1>1. Safe => UnfinishedIsRed
  BY DEF Safe
<1> QED BY TypedInit, TypedStep, SafeInit, SafeStep, <1>1, PTL DEF Spec

-----------------------------------------------------------------------------

(* What holds when people cut, abandon, merge and close only after waiting.   *)

(* Nobody has hurried after a step only if nobody had before it...            *)
LEMMA CarefulBefore == Typed /\ [Next]_vars /\ Careful' => Careful
<1> SUFFICES ASSUME Typed, [Next]_vars, Careful' PROVE Careful
  OBVIOUS
<1>1. hasty \in Nat
  BY DEF Typed, TypeOK
<1>2. hasty' = hasty \/ \E waited \in BOOLEAN : Acts(waited)
  BY DEF Next, CheckRelease, CommandEnds, ImageBuildDue, ImageBuildTrigger, ImageBuildStep,
         ImageBuildCreate, ImageBuildPush, ImageBuildFail, AbandonRelease, InfraMerge,
         QAStart, QAStep, QADeploy, QAIssue, QAIssueEdits, QAFinish, QAFinishes, QAFail,
         CloseIssue, AbandonIssue, GateCheck, Records, ProdBind, ProdBinds, ProdStep,
         ProdStart, ProdPulumi, ProdFinishDeployment, ProdFinishRelease, ProdFail,
         Decided, Quiet, vars, people, Typed, TypeOK
<1>3. hasty = 0
  BY <1>1, <1>2 DEF Careful, Acts
<1>4. early => early'
  BY DEF Next, CheckRelease, CommandEnds, ImageBuildDue, ImageBuildTrigger, ImageBuildStarts,
         ImageBuildStep, ImageBuildCreate, ImageBuildPush, ImageBuildFail, AbandonRelease,
         InfraMerge, QAStart, QAStep, QADeploy, QAIssue, QAIssueEdits, QAFinish, QAFinishes,
         QAFail, CloseIssue, AbandonIssue, GateCheck, Records, ProdBind, ProdBinds, ProdStep,
         ProdStart, ProdPulumi, ProdFinishDeployment, ProdFinishRelease, ProdFail,
         vars, people
<1> QED BY <1>3, <1>4 DEF Careful

(* ... and who acted in that step has waited.                                 *)
LEMMA Waited ==
  ASSUME Typed, Careful', NEW waited, Acts(waited)
  PROVE  waited
  BY DEF Typed, TypeOK, Acts, Careful

LEMMA SerialInit == Init => Serial
  BY NoneIsNone DEF Init, Serial, Building, Due, BuildsAlone, AboutLast, Judged, Settled

(* Every image build starts and ends on its own.                              *)
LEMMA SerialImage ==
  ASSUME Typed, Serial, Careful',
         \E b \in Builds : ImageBuildDue(b) \/ ImageBuildTrigger(b) \/ ImageBuildStep(b)
  PROVE  Serial'
<1> USE DEF Serial
<1>1. ASSUME NEW b \in Builds, ImageBuildDue(b) \/ ImageBuildTrigger(b) PROVE Serial'
  <2>1. Building
    BY <1>1, Waited DEF ImageBuildDue, ImageBuildTrigger, Building
  <2>2. /\ \A c \in Builds : iver'[c] = IF c = b THEN latest ELSE iver[c]
        /\ \A c \in Builds : c # b => ipc'[c] = ipc[c]
        /\ UNCHANGED <<git, latest, image, icut, lastBuilt, qaWanted, qa, issue, body,
                       gate, prod, promoted>>
    BY <1>1 DEF ImageBuildDue, ImageBuildTrigger, ImageBuildStarts, Typed, TypeOK
  <2>3. BuildsAlone'
    BY <2>1, <2>2 DEF BuildsAlone, qa, gate, prod
  <2> QED BY <2>2, <2>3 DEF AboutLast, Judged, Settled, qa, gate, prod
<1>2. ASSUME NEW b \in Builds, ImageBuildCreate(b) PROVE Serial'
  <2>1. Building /\ iver[b] = latest /\ issue[latest] # "closed"
    BY <1>2 DEF ImageBuildCreate, Building, BuildsAlone
  <2>2. /\ latest' = latest
        /\ \A c \in Builds : c # b => ipc'[c] = ipc[c]
        /\ \A v \in Versions : deployment'[v] = "success" => deployment[v] = "success"
        /\ UNCHANGED <<inputs, asked, image, iver, lastBuilt, qaWanted, qa, issue, body, gate,
                       ppc, pver, pgate, prodCut, prodRed, people>>
    BY <1>2, <2>1 DEF ImageBuildCreate, Create, Typed, TypeOK
  <2>3. BuildsAlone'
    BY <2>1, <2>2 DEF BuildsAlone, qa, gate
  <2> QED BY <2>2, <2>3 DEF AboutLast, Judged, Settled, qa, gate, people
<1>3. ASSUME NEW b \in Builds, ImageBuildPush(b) PROVE Serial'
  <2>1. /\ Building /\ iver[b] = latest /\ latest \in Versions /\ issue[latest] # "closed"
        /\ \A v \in Versions : issue[v] = "open" => v = latest
        /\ \A v \in Versions : stamp[v] = seen[v] /\ queue[v] = {}
        /\ ppc = "idle"
    BY <1>3 DEF ImageBuildPush, Building, BuildsAlone, Typed, TypeOK
  <2>2. /\ \A v \in Versions : v # latest => image'[v] = image[v]
        /\ lastBuilt' = latest /\ qaWanted'
        /\ \A c \in Builds : c # b => ipc'[c] = ipc[c] /\ iver'[c] = iver[c]
        /\ ipc'[b] = "idle"
        /\ UNCHANGED <<git, release, qa, issue, body, gate, prod, people>>
    BY <1>3, <2>1 DEF ImageBuildPush, ImageBuildEnds, Typed, TypeOK
  <2>3. BuildsAlone'
    BY <2>1, <2>2 DEF BuildsAlone, release, qa, gate, prod
  <2>4. AboutLast'
    BY <2>1, <2>2 DEF AboutLast, BuildsAlone, qa, gate
  <2>5. Judged'
    BY <2>1, <2>2 DEF Judged, qa
  <2>6. Settled'
    BY <2>1, <2>2 DEF Settled, qa, prod, people
  <2> QED BY <2>3, <2>4, <2>5, <2>6
<1>4. ASSUME NEW b \in Builds, ImageBuildFail(b) PROVE Serial'
  <2>1. /\ Building
        /\ \A c \in Builds : c # b => ipc'[c] = ipc[c] /\ iver'[c] = iver[c]
        /\ ipc'[b] = "idle"
        /\ UNCHANGED <<git, release, image, lastBuilt, qaWanted, qa, issue, body, gate, prod,
                       people>>
    BY <1>4 DEF ImageBuildFail, ImageBuildEnds, Building, Typed, TypeOK
  <2>2. BuildsAlone'
    BY <2>1 DEF BuildsAlone, release, qa, gate, prod
  <2> QED BY <2>1, <2>2 DEF AboutLast, Judged, Settled, qa, gate, prod, people
<1> QED BY <1>1, <1>2, <1>3, <1>4 DEF ImageBuildStep

(* A new release is only begun, and a merge only made, when all is decided.   *)
LEMMA SerialRelease ==
  ASSUME Typed, Serial, Careful',
         CheckRelease \/ CommandEnds \/ AbandonRelease \/ InfraMerge
  PROVE  Serial'
<1> USE DEF Serial
<1>1. CASE CheckRelease
  <2>1. PICK v \in NextVersions :
          latest' = v /\ Acts(Decided /\ tag[v] = None /\ issue[v] # "closed")
    BY <1>1 DEF CheckRelease
  <2>2. Decided /\ issue[v] # "closed" /\ v \in Versions
    BY <2>1, Waited DEF NextVersions, Typed, TypeOK
  <2>3. UNCHANGED <<git, inputs, image, build, qaWanted, qa, issue, body, gate, prod, promoted>>
    BY <1>1 DEF CheckRelease
  <2>4. BuildsAlone'
    BY <2>1, <2>2, <2>3, NoneIsNone DEF BuildsAlone, Decided, Quiet, build, qa, gate, prod
  <2> QED BY <2>3, <2>4 DEF AboutLast, Judged, Settled, build, qa, gate, prod
<1>2. CASE CommandEnds
  <2>1. /\ Building' => Building
        /\ UNCHANGED <<git, latest, image, build, qaWanted, qa, issue, body, gate, prod, people>>
    BY <1>2 DEF CommandEnds, Building, Due, build
  <2>2. BuildsAlone'
    BY <2>1 DEF BuildsAlone, build, qa, gate, prod
  <2> QED BY <2>1, <2>2 DEF AboutLast, Judged, Settled, build, qa, gate, prod, people
<1>3. CASE AbandonRelease
  <2>1. UNCHANGED <<release, image, build, qaWanted, qa, issue, body, gate, prod, promoted>>
    BY <1>3 DEF AbandonRelease
  <2> QED BY <2>1 DEF BuildsAlone, Building, Due, AboutLast, Judged, Settled,
     release, build, qa, gate, prod
<1>4. CASE InfraMerge
  <2>1. Acts(Decided)
    BY <1>4 DEF InfraMerge
  <2>2. Decided
    BY <2>1, Waited
  <2>3. /\ qaWanted'
        /\ UNCHANGED <<git, release, image, build, qa, issue, body, gate, prod, promoted>>
    BY <1>4 DEF InfraMerge
  <2>4. BuildsAlone' /\ ~Building'
    BY <2>2, <2>3 DEF BuildsAlone, Building, Due, Decided, Quiet, release, build
  <2> QED BY <2>3, <2>4 DEF AboutLast, Judged, Settled, build, qa, gate, prod
<1> QED BY <1>1, <1>2, <1>3, <1>4


(* QA tests the version built last, and shows its cut in its issue.           *)
LEMMA SerialQA ==
  ASSUME Typed, Serial, QAStart \/ QAStep
  PROVE  Serial'
<1> USE DEF Serial
<1>1. CASE QAStart
  <2>1. /\ qaWanted /\ lastBuilt # None /\ qpc' = "deploy" /\ qver' = lastBuilt
        /\ UNCHANGED <<git, release, image, build, qcut, qaRed, lastQA, tested, issue, body,
                       gate, prod, people>>
    BY <1>1 DEF QAStart
  <2>2. BuildsAlone'
    BY <2>1 DEF BuildsAlone, Building, Due, release, build, gate, prod
  <2> QED BY <2>1, <2>2 DEF AboutLast, Judged, Settled, build, gate, prod, people
<1>2. CASE QADeploy
  <2>1. /\ qpc = "deploy" /\ qpc' = "issue" /\ qcut' = image[qver]
        /\ UNCHANGED <<git, release, image, build, qaWanted, qver, qaRed, lastQA, tested,
                       issue, body, gate, prod, people>>
    BY <1>2 DEF QADeploy
  <2>2. BuildsAlone'
    BY <2>1 DEF BuildsAlone, Building, Due, release, build, gate, prod
  <2> QED BY <2>1, <2>2 DEF AboutLast, Judged, Settled, build, gate, prod, people
<1>3. CASE QAIssue
  <2>1. /\ qpc = "issue" /\ qpc' = "finish" /\ qver \in Versions /\ qver = lastBuilt
        /\ \A v \in Versions : body'[v] = IF v = qver THEN qcut ELSE body[v]
        /\ \A v \in Versions :
             issue'[v] = IF v = qver /\ issue[v] = "none" THEN "open" ELSE issue[v]
        /\ \A v \in Versions : stamp'[v] # stamp[v] => v = qver /\ issue[v] = "closed"
        /\ UNCHANGED <<git, release, image, build, qaWanted, qver, qcut, qaRed, lastQA,
                       tested, seen, queue, answered, prod, people>>
    BY <1>3 DEF QAIssue, QAIssueEdits, AboutLast, Typed, TypeOK, Bound
  <2>2. BuildsAlone'
    BY <2>1 DEF BuildsAlone, Building, Due, release, build, prod
  <2>3. AboutLast'
    BY <2>1 DEF AboutLast, build
  <2>4. Judged'
    BY <2>1 DEF Judged, build
  <2>5. Settled'
    BY <2>1 DEF Settled, prod, people, Typed, Bound
  <2> QED BY <2>2, <2>3, <2>4, <2>5
<1>4. CASE QAFinish
  <2>1. /\ qpc = "finish" /\ qpc' = "idle" /\ qver = lastBuilt
        /\ lastQA' = qver /\ tested' = tested \cup {qcut}
        /\ UNCHANGED <<git, release, image, build, qaWanted, issue, body, gate, prod, people>>
    BY <1>4 DEF QAFinish, QAFinishes, QAEnds, AboutLast
  <2>2. BuildsAlone'
    BY <2>1 DEF BuildsAlone, Building, Due, release, build, gate, prod
  <2>3. \A v \in Versions : issue[v] = "open" => body[v] = image[v] \/ qaWanted
    BY <2>1 DEF AboutLast
  <2>4. AboutLast'
    BY <2>1, <2>3 DEF AboutLast, build, gate
  <2>5. Judged' /\ Settled'
    BY <2>1 DEF AboutLast, Judged, Settled, build, prod, people
  <2> QED BY <2>2, <2>4, <2>5
<1>5. CASE QAFail
  <2>1. /\ qpc # "idle" /\ qpc' = "idle" /\ qaRed'
        /\ UNCHANGED <<git, release, image, build, qaWanted, lastQA, tested, issue, body,
                       gate, prod, people>>
    BY <1>5 DEF QAFail, QAEnds
  <2>2. BuildsAlone'
    BY <2>1 DEF BuildsAlone, Building, Due, release, build, gate, prod
  <2> QED BY <2>1, <2>2 DEF AboutLast, Judged, Settled, build, gate, prod, people
<1> QED BY <1>1, <1>2, <1>3, <1>4, <1>5 DEF QAStep

(* An issue is closed on the image that QA has tested.                        *)
LEMMA SerialPeople ==
  ASSUME Typed, Serial, Careful',
         GateCheck \/ \E v \in Versions : CloseIssue(v) \/ AbandonIssue(v)
  PROVE  Serial'
<1> USE DEF Serial
<1>1. CASE GateCheck
  <2>1. /\ \A v \in Versions : queue'[v] # queue[v] => stamp[v] # seen[v]
        /\ seen' = stamp
        /\ UNCHANGED <<git, release, image, build, qaWanted, qa, issue, body, stamp, prod, people>>
    BY <1>1 DEF GateCheck, Records, Updated, Typed, TypeOK
  <2>2. BuildsAlone'
    BY <2>1 DEF BuildsAlone, Building, Due, release, build, qa, prod
  <2> QED BY <2>1, <2>2 DEF AboutLast, Judged, Settled, build, qa, prod, people
<1>2. ASSUME NEW v \in Versions, CloseIssue(v) PROVE Serial'
  <2>1. /\ issue[v] = "open" /\ v = lastBuilt /\ Quiet /\ ~qaRed
        /\ \A w \in Versions : issue'[w] = IF w = v THEN "closed" ELSE issue[w]
        /\ \A w \in Versions : w # v => stamp'[w] = stamp[w]
        /\ promoted' = promoted \cup {body[v]}
        /\ UNCHANGED <<git, release, image, build, qaWanted, qa, body, seen, queue, answered,
                       prod>>
    BY <1>2 DEF CloseIssue, Careful, AboutLast, Typed, TypeOK
  <2>2. body[v] = image[v] /\ image[v] \in tested /\ lastQA = v
    BY <2>1, NoneIsNone DEF AboutLast, Judged, Quiet
  <2>3. BuildsAlone'
    BY <2>1 DEF BuildsAlone, Building, Due, Quiet, release, build
  <2>4. AboutLast'
    BY <2>1 DEF AboutLast, build, qa
  <2>5. Judged'
    BY <2>1, <2>2 DEF Judged, build, qa, Typed, TypeOK
  <2>6. Settled'
    BY <2>1, <2>2 DEF Settled, qa, prod, Typed, Bound
  <2> QED BY <2>3, <2>4, <2>5, <2>6
<1>3. ASSUME NEW v \in Versions, AbandonIssue(v) PROVE Serial'
  <2>1. /\ issue[v] = "open"
        /\ \A w \in Versions : issue'[w] = IF w = v THEN "abandoned" ELSE issue[w]
        /\ UNCHANGED <<git, release, image, build, qaWanted, qa, body, gate, prod, people>>
    BY <1>3 DEF AbandonIssue, Typed, TypeOK
  <2>2. BuildsAlone'
    BY <2>1 DEF BuildsAlone, Building, Due, release, build, qa, gate, prod, Typed, TypeOK
  <2>3. AboutLast'
    BY <2>1 DEF AboutLast, build, qa, gate
  <2>4. Judged'
    BY <2>1 DEF Judged, build, qa, Typed, TypeOK
  <2>5. Settled'
    BY <2>1 DEF Settled, qa, prod, people, Typed, Bound
  <2> QED BY <2>2, <2>3, <2>4, <2>5
<1> QED BY <1>1, <1>2, <1>3

(* The gate lets a build start only for the version that passed QA last.      *)
LEMMA SerialProd ==
  ASSUME Typed, Serial, ProdStep \/ \E v \in Versions : ProdBind(v)
  PROVE  Serial'
<1> USE DEF Serial
<1>1. ASSUME NEW v \in Versions, ProdBind(v) PROVE Serial'
  <2>1. /\ ppc' = "start" /\ pver' = lastQA /\ pgate' = v /\ queue[v] # {}
        /\ \A w \in Versions : queue'[w] # {} => queue[w] # {}
        /\ UNCHANGED <<git, release, image, build, qaWanted, qa, issue, body, stamp, seen,
                       deployment, prodCut, people>>
    BY <1>1 DEF ProdBind, ProdBinds, Typed, TypeOK
  <2>2. v = lastBuilt /\ issue[v] = "closed" /\ lastQA = v /\ ~Building
    BY <2>1, NoneIsNone DEF AboutLast, Judged, BuildsAlone
  <2>3. BuildsAlone'
    BY <2>1, <2>2 DEF BuildsAlone, Building, Due, release, build
  <2> QED BY <2>1, <2>2, <2>3 DEF AboutLast, Judged, Settled, build, qa, people
<1>2. CASE ProdStep
  <2>1. /\ ppc # "idle" /\ pver \in Versions
        /\ issue[pver] = "closed" /\ pgate = pver /\ ~Building
    BY <1>2 DEF ProdStep, ProdStart, ProdPulumi, ProdFinishDeployment, ProdFinishRelease,
                ProdFail, BuildsAlone, Settled, Typed, Bound
  <2>2. UNCHANGED <<tag, release, image, build, qaWanted, qa, issue, body, gate, people>>
    BY <1>2 DEF ProdStep, ProdStart, ProdPulumi, ProdFinishDeployment, ProdFinishRelease,
                ProdFail, git
  <2>3. /\ ppc' # "idle" => pver' = pver /\ pgate' = pgate
        /\ prodCut' \in {prodCut, image[pver]}
    BY <1>2 DEF ProdStep, ProdStart, ProdPulumi, ProdFinishDeployment, ProdFinishRelease,
                ProdFail, ProdEnds
  <2>4. \A v \in Versions : deployment'[v] = "success" => v = pver \/ deployment[v] = "success"
    BY <1>2 DEF ProdStep, ProdStart, ProdPulumi, ProdFinishDeployment, ProdFinishRelease,
                ProdFail, Typed, TypeOK
  <2>5. BuildsAlone'
    BY <2>1, <2>2 DEF BuildsAlone, Building, Due, release, build
  <2>6. AboutLast' /\ Judged'
    BY <2>2 DEF AboutLast, Judged, build, qa, gate
  <2>7. Settled'
    BY <2>1, <2>2, <2>3, <2>4 DEF Settled, qa, people
  <2> QED BY <2>5, <2>6, <2>7
<1> QED BY <1>1, <1>2

LEMMA SerialStep == Typed /\ (Careful => Serial) /\ [Next]_vars => (Careful => Serial)'
<1> SUFFICES ASSUME Typed, Careful => Serial, [Next]_vars, Careful' PROVE Serial'
  OBVIOUS
<1>1. Serial
  BY CarefulBefore
<1>2. CASE UNCHANGED vars
  BY <1>1, <1>2 DEF Serial, BuildsAlone, Building, Due, AboutLast, Judged, Settled, vars,
     release, build, qa, gate, prod, people
<1> QED BY <1>1, <1>2, SerialImage, SerialRelease, SerialQA, SerialPeople, SerialProd DEF Next

LEMMA SerialInvariant == Spec => [](Typed /\ (Careful => Serial))
<1>1. Init => Typed /\ (Careful => Serial)
  BY TypedInit, SerialInit
<1>2. (Typed /\ (Careful => Serial)) /\ [Next]_vars => (Typed /\ (Careful => Serial))'
  BY TypedStep, SerialStep
<1> QED BY <1>1, <1>2, PTL DEF Spec

(* Whatever Concourse starts by itself, as long as people waited, what        *)
(* production runs was promoted by somebody who closed the issue showing that *)
(* very cut, although a build binds the newest release that passed QA,        *)
(* whichever release was promoted.                                            *)
THEOREM OnlyPromoted == Spec => []OnlyPromotedReachesProduction
<1>1. Typed /\ (Careful => Serial) => OnlyPromotedReachesProduction
  BY DEF Serial, Settled, OnlyPromotedReachesProduction
<1> QED BY <1>1, SerialInvariant, PTL

(* Under the same condition it runs only what a green QA build deployed, though *)
(* a second build of one version overwrites its image tag.                      *)
THEOREM OnlyTested == Spec => []OnlyTestedReachesProduction
<1>1. Typed /\ (Careful => Serial) => OnlyTestedReachesProduction
  BY DEF Serial, Settled, OnlyTestedReachesProduction
<1> QED BY <1>1, SerialInvariant, PTL

(* Under the same condition a promotion deploys the release its issue is      *)
(* about; closing an issue while QA is red or at work breaks just this.       *)
THEOREM CarefulDeploysItsRelease == Spec => [](Careful => PromotionDeploysItsRelease)
<1>1. Typed /\ (Careful => Serial) => (Careful => PromotionDeploysItsRelease)
  BY DEF Serial, Settled, PromotionDeploysItsRelease
<1> QED BY <1>1, SerialInvariant, PTL

(* And the tag of what was deployed stays where it is: neither a new cut of   *)
(* that version nor an abandon can take it, as its issue is closed.           *)
THEOREM TagStays == Spec => ProductionTagKept
<1> DEFINE Kept == \A v \in Versions :
             Careful' /\ deployment[v] = "success" /\ tag[v] = prodCut => tag'[v] = tag[v]
<1>1. Typed /\ (Careful => Serial) /\ [Next]_vars => Kept
  <2> SUFFICES ASSUME Typed, Careful => Serial, [Next]_vars,
                      NEW v \in Versions, Careful', deployment[v] = "success"
               PROVE  tag'[v] = tag[v]
    OBVIOUS
  <2>1. Serial
    BY CarefulBefore
  <2>2. issue[v] = "closed"
    BY <2>1 DEF Serial, Settled
  <2>3. ASSUME NEW b \in Builds, ImageBuildCreate(b) PROVE tag'[v] = tag[v]
    <3>1. iver[b] # v
      BY <2>1, <2>2, <2>3 DEF ImageBuildCreate, Serial, BuildsAlone, Building
    <3> QED BY <2>3, <3>1 DEF ImageBuildCreate, Create, Superseded
  <2>4. CASE AbandonRelease
    <3>1. Acts(Decided /\ issue[latest] # "closed")
      BY <2>4 DEF AbandonRelease
    <3>2. latest # v
      BY <2>2, <3>1, Waited
    <3> QED BY <2>4, <3>2 DEF AbandonRelease, Typed, TypeOK
  <2>5. CASE UNCHANGED git
    BY <2>5 DEF git
  <2>6. CASE ProdFinishRelease
    BY <2>6 DEF ProdFinishRelease
  <2> QED
    BY <2>3, <2>4, <2>5, <2>6
       DEF Next, ImageBuildStep, ImageBuildDue, ImageBuildTrigger, ImageBuildStarts,
           ImageBuildPush, ImageBuildFail, CheckRelease, CommandEnds, InfraMerge, QAStart,
           QAStep, QADeploy, QAIssue, QAIssueEdits, QAFinish, QAFinishes, QAFail, CloseIssue,
           AbandonIssue, GateCheck, Records, ProdBind, ProdBinds, ProdStep, ProdStart,
           ProdPulumi, ProdFinishDeployment, ProdFail, vars
<1>2. Spec => [][Kept]_vars
  BY <1>1, SerialInvariant, PTL DEF Spec
<1> QED BY <1>2 DEF ProductionTagKept

=============================================================================
