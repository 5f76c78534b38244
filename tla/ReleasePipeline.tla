--------------------------- MODULE ReleasePipeline ---------------------------
(***************************************************************************)
(* The release-resource workflow of one application:                       *)
(* k8s_apps/pipeline.py builds the Concourse pipeline, and GitHub holds    *)
(* the release tag, the release branch and the release issue it works on.  *)
(*                                                                         *)
(* A release is CUT under a calver version; cutting again after an abandon *)
(* on the same day reuses the version, so versions and cuts are different  *)
(* things.  A tag, an image tag and an issue body name the cut they hold.  *)
(*                                                                         *)
(* Abstracted: commit lists, checklists (see ReleaseIssues), the DockerHub  *)
(* copy of the image, the RC GitHub Deployment, Fastly purges, the CI      *)
(* stack.  A put that fails, or a build that is aborted, is one of the     *)
(* Fail actions.                                                           *)
(***************************************************************************)
EXTENDS Integers, FiniteSets

CONSTANTS
    MaxVersion,      \* bound: calver versions, in calver order
    MaxCuts,         \* bound: how many times action=create runs
    MaxQABuilds,     \* bound: builds of the QA job
    MaxHaste,        \* bound: how many times somebody does not wait (see Acts)
    Builds           \* concurrent builds of the release-image job

ASSUME ReleaseAssumption ==
    /\ MaxVersion \in Nat
    /\ MaxCuts \in Nat
    /\ MaxQABuilds \in Nat
    /\ MaxHaste \in Nat

Versions == 1..MaxVersion
Cuts     == 1..MaxCuts
None     == 0                    \* no version, no cut

VARIABLES
    tag,        \* git: the cut the version's tag points to, or None
    branches,   \* git: versions with a releases/<version> branch
    cuts,       \* how many cuts were made so far
    latest,     \* Concourse: the release version recorded last
    inputs,     \* Concourse: versions the release-image job has built
    asked,      \* a release command has checked and is about to trigger
    image,      \* ECR: the cut held under the version's image tag
    ipc, iver, icut,        \* release-image builds: step, version, cut
    lastBuilt,  \* version whose release-image build finished last
    qaWanted,   \* the QA job has an unseen trigger
    qpc, qver, qcut,        \* the QA build: step, version, deployed cut
    qaBuilds,   \* how many QA builds were started
    qaRed,      \* the last QA build failed
    lastQA,     \* newest version that passed the QA job
    issue,      \* state of the version's release issue
    body,       \* the cut whose checklist the issue shows
    stamp,      \* updates of the version's issue since it was closed
    seen,       \* the update the gate resource has recorded last
    queue,      \* recorded updates the production job has yet to consume
    answered,   \* the update its newest production build was started for
    ppc, pver, pgate,       \* the production build: step, version, trigger
    deployment, \* Production GitHub Deployment of the version's ref
    prodCut,    \* what production runs
    prodRed,    \* the last production build failed
    hasty,      \* history: how many cuts, abandons and merges did not wait
    early,      \* history: an issue was closed without waiting
    promoted,   \* history: cuts whose issue a person closed
    tested      \* history: cuts a successful QA build deployed

git     == <<tag, branches, cuts>>
release == <<latest, inputs, asked>>
build   == <<ipc, iver, icut, lastBuilt>>
qa      == <<qpc, qver, qcut, qaBuilds, qaRed, lastQA, tested>>
gate    == <<stamp, seen, queue, answered>>
prod    == <<ppc, pver, pgate, deployment, prodCut, prodRed>>
people  == <<hasty, early, promoted>>
vars    == <<git, release, image, build, qaWanted, qa, issue, body, gate, prod, people>>

TypeOK ==
    /\ tag \in [Versions -> Cuts \cup {None}]
    /\ branches \subseteq Versions
    /\ cuts \in 0..MaxCuts
    /\ latest \in Versions \cup {None}
    /\ inputs \subseteq Versions
    /\ asked \in BOOLEAN
    /\ image \in [Versions -> Cuts \cup {None}]
    /\ ipc \in [Builds -> {"idle", "create", "push"}]
    /\ iver \in [Builds -> Versions \cup {None}]
    /\ icut \in [Builds -> Cuts \cup {None}]
    /\ lastBuilt \in Versions \cup {None}
    /\ qaWanted \in BOOLEAN
    /\ qpc \in {"idle", "deploy", "issue", "finish"}
    /\ qver \in Versions \cup {None}
    /\ qcut \in Cuts \cup {None}
    /\ qaBuilds \in 0..MaxQABuilds
    /\ qaRed \in BOOLEAN
    /\ lastQA \in Versions \cup {None}
    /\ issue \in [Versions -> {"none", "open", "closed", "abandoned"}]
    /\ body \in [Versions -> Cuts \cup {None}]
    /\ stamp \in [Versions -> Nat]
    /\ seen \in [Versions -> Nat]
    /\ queue \in [Versions -> SUBSET Nat]
    /\ answered \in [Versions -> Nat]
    /\ ppc \in {"idle", "start", "pulumi", "finish_deployment", "finish_release"}
    /\ pver \in Versions \cup {None}
    /\ pgate \in Versions \cup {None}
    /\ deployment \in [Versions -> {"none", "started", "success"}]
    /\ prodCut \in Cuts \cup {None}
    /\ prodRed \in BOOLEAN
    /\ hasty \in 0..MaxHaste /\ early \in BOOLEAN
    /\ promoted \subseteq Cuts
    /\ tested \subseteq Cuts
    \* only a recorded update starts a production build
    /\ \A v \in Versions : queue[v] \subseteq 1..seen[v]
    /\ ppc # "idle" => pgate # None /\ answered[pgate] > 0

Init ==
    /\ tag = [v \in Versions |-> None]
    /\ branches = {}
    /\ cuts = 0
    /\ latest = None /\ inputs = {} /\ asked = FALSE
    /\ image = [v \in Versions |-> None]
    /\ ipc = [b \in Builds |-> "idle"]
    /\ iver = [b \in Builds |-> None]
    /\ icut = [b \in Builds |-> None]
    /\ lastBuilt = None
    /\ qaWanted = FALSE
    /\ qpc = "idle" /\ qver = None /\ qcut = None
    /\ qaBuilds = 0 /\ qaRed = FALSE
    /\ lastQA = None
    /\ issue = [v \in Versions |-> "none"]
    /\ body = [v \in Versions |-> None]
    /\ stamp = [v \in Versions |-> 0]
    /\ seen = [v \in Versions |-> 0]
    /\ queue = [v \in Versions |-> {}]
    /\ answered = [v \in Versions |-> 0]
    /\ ppc = "idle" /\ pver = None /\ pgate = None
    /\ deployment = [v \in Versions |-> "none"]
    /\ prodCut = None
    /\ prodRed = FALSE
    /\ hasty = 0 /\ early = FALSE
    /\ promoted = {}
    /\ tested = {}

-----------------------------------------------------------------------------
(* People, who may do anything at any time.  No guard below keeps them from   *)
(* it: what they do without waiting is only counted, and bounded.             *)

\* Concourse owes the image job a build: its newest input was never built.
Due == latest # None /\ latest \notin inputs

\* No image is being built or tested, nor is about to be.
Quiet ==
    /\ \A b \in Builds : ipc[b] = "idle"
    /\ ~asked /\ ~Due
    /\ ~qaWanted /\ qpc = "idle"

\* ... nor deployed, and every release issue was decided on.
Decided ==
    /\ Quiet /\ ppc = "idle"
    /\ \A v \in Versions :
         stamp[v] = seen[v] /\ queue[v] = {} /\ issue[v] # "open"

Acts(waited) ==
    \/ waited /\ UNCHANGED hasty
    \/ ~waited /\ hasty < MaxHaste /\ hasty' = hasty + 1

-----------------------------------------------------------------------------
(* The release resource (external): check, create, abandon, finish. *)

\* Versions the next check may compute: past every tag (a new day may skip
\* numbers), and, while a release is in flight, possibly its own.
NextVersions ==
    {v \in Versions : \A w \in Versions : tag[w] # None => w < v} \cup branches

\* The release command has the resource checked.  People wait until all is
\* decided and a preview shows a version without a tag or a closed issue.
CheckRelease ==
    /\ \E v \in NextVersions :
         /\ latest' = v
         /\ Acts(Decided /\ tag[v] = None /\ issue[v] # "closed")
    /\ asked' = TRUE
    /\ UNCHANGED <<git, inputs, image, build, qaWanted, qa, issue, body, gate, prod,
                   early, promoted>>

\* A check or a trigger that fails ends the command, and so does its pod.
CommandEnds ==
    /\ asked /\ asked' = FALSE
    /\ UNCHANGED <<git, latest, inputs, image, build, qaWanted, qa, issue, body, gate,
                   prod, people>>

SupersededAll == branches

\* action=create supersedes a release in flight: its branch goes, and its tag
\* too unless its Production deployment succeeded.
Superseded == {v \in branches : deployment[v] # "success"}

Create(v) ==
    /\ cuts < MaxCuts
    /\ cuts' = cuts + 1
    /\ branches' = {v}
    /\ tag' = [w \in Versions |->
                 IF w = v THEN cuts + 1
                 ELSE IF w \in Superseded THEN None ELSE tag[w]]
    /\ deployment' = [deployment EXCEPT ![v] = "none"]
    /\ latest' = v

-----------------------------------------------------------------------------
(* build-<app>-release-image and abandon-<app>-release *)

\* A build binds the version recorded last.
ImageBuildStarts(b) ==
    /\ ipc[b] = "idle" /\ latest # None
    /\ ipc' = [ipc EXCEPT ![b] = "create"]
    /\ iver' = [iver EXCEPT ![b] = latest]
    /\ inputs' = inputs \cup {latest}
    /\ UNCHANGED <<git, latest, image, icut, lastBuilt, qaWanted, qa, issue, body,
                   gate, prod, early, promoted>>

\* Concourse starts one by itself for a version it has not built (trigger=True)...
ImageBuildDue(b) ==
    /\ Due
    /\ ImageBuildStarts(b)
    /\ UNCHANGED <<asked, hasty>>

\* ... and the release command, or a person, starts one whatever there is.
ImageBuildTrigger(b) ==
    /\ ImageBuildStarts(b)
    /\ Acts(asked)
    /\ asked' = FALSE

ImageBuildCreate(b) ==
    /\ ipc[b] = "create"
    /\ Create(iver[b])
    /\ ipc' = [ipc EXCEPT ![b] = "push"]
    /\ icut' = [icut EXCEPT ![b] = cuts + 1]
    /\ UNCHANGED <<inputs, asked, image, iver, lastBuilt, qaWanted, qa, issue, body, gate,
                   ppc, pver, pgate, prodCut, prodRed, people>>

ImageBuildEnds(b) ==
    /\ ipc' = [ipc EXCEPT ![b] = "idle"]
    /\ iver' = [iver EXCEPT ![b] = None]
    /\ icut' = [icut EXCEPT ![b] = None]

\* The image goes to ECR under the version's tag, which triggers QA.
ImageBuildPush(b) ==
    /\ ipc[b] = "push"
    /\ image' = [image EXCEPT ![iver[b]] = icut[b]]
    /\ lastBuilt' = iver[b]
    /\ qaWanted' = TRUE
    /\ ImageBuildEnds(b)
    /\ UNCHANGED <<git, release, qa, issue, body, gate, prod, people>>

ImageBuildFail(b) ==
    /\ ipc[b] # "idle"
    /\ ImageBuildEnds(b)
    /\ UNCHANGED <<git, release, image, lastBuilt, qaWanted, qa, issue,
                   body, gate, prod, people>>

\* The job abandons the version recorded last, whatever has become of it.  It
\* leaves the release issue alone.
AbandonRelease ==
    /\ latest \in branches
    /\ Acts(Decided /\ issue[latest] # "closed")
    /\ branches' = branches \ {latest}
    /\ tag' = [tag EXCEPT ![latest] = None]
    /\ UNCHANGED <<cuts, release, image, build, qaWanted, qa, issue, body, gate,
                   prod, early, promoted>>

-----------------------------------------------------------------------------
(* The QA job: deploy the image, then open (or edit) the release issue. *)

\* A merge under the watched Pulumi paths triggers QA with no new release.
InfraMerge ==
    /\ lastBuilt # None /\ ~qaWanted
    /\ Acts(Decided)
    /\ qaWanted' = TRUE
    /\ UNCHANGED <<git, release, image, build, qa, issue, body, gate, prod, early, promoted>>

QAStart ==
    /\ qpc = "idle" /\ qaWanted /\ lastBuilt # None
    /\ qaBuilds < MaxQABuilds
    /\ qaWanted' = FALSE
    /\ qaBuilds' = qaBuilds + 1
    /\ qpc' = "deploy"
    /\ qver' = lastBuilt
    /\ UNCHANGED <<git, release, image, build, qcut, qaRed, lastQA, tested, issue, body,
                   gate, prod, people>>

\* Start the RC deployment of the version's ref and run Pulumi with its tag.
QADeploy ==
    /\ qpc = "deploy" /\ tag[qver] # None
    /\ qcut' = image[qver]
    /\ qpc' = "issue"
    /\ UNCHANGED <<git, release, image, build, qaWanted, qver, qaBuilds, qaRed, lastQA, tested,
                   issue, body, gate, prod, people>>

QAIssueEdits(reported) ==
    /\ qpc = "issue"
    /\ body' = [body EXCEPT ![qver] = qcut]
    /\ issue' = [issue EXCEPT ![qver] = IF @ = "none" THEN "open" ELSE @]
    /\ stamp' = [stamp EXCEPT ![qver] = IF reported THEN @ + 1 ELSE @]
    /\ qpc' = "finish"
    /\ UNCHANGED <<git, release, image, build, qaWanted, qver, qcut, qaBuilds, qaRed, lastQA,
                   tested, seen, queue, answered, prod, people>>

QAIssueOpenGate == QAIssueEdits(issue[qver] # "abandoned")

\* The put creates the version's issue or edits the one it finds in place.
\* Editing an issue closed earlier is an update the gate resource reports.
QAIssue == QAIssueEdits(issue[qver] = "closed")

QAEnds == qpc' = "idle" /\ qver' = None /\ qcut' = None

QAFinishes(wanted) ==
    /\ qpc = "finish"
    /\ lastQA' = qver
    /\ tested' = tested \cup {qcut}
    /\ QAEnds
    /\ qaRed' = FALSE
    /\ qaWanted' = wanted
    /\ UNCHANGED <<git, release, image, build, qaBuilds, issue,
                   body, gate, prod, people>>

QAFinishSwallows == QAFinishes(FALSE)

\* What came in meanwhile gets a build of its own.
QAFinish == QAFinishes(qaWanted)

QAFail ==
    /\ qpc # "idle"
    /\ QAEnds
    /\ qaRed' = TRUE
    /\ UNCHANGED <<git, release, image, build, qaWanted, qaBuilds, lastQA,
                   tested, issue, body, gate, prod, people>>

-----------------------------------------------------------------------------
(* People on GitHub, and the gate resource that watches them. *)

\* Closing the issue is the whole promotion.  People wait until image
\* builds and QA are quiet and the last QA build is green.
CloseIssue(v) ==
    /\ issue[v] = "open"
    /\ early' = (early \/ ~Quiet \/ qaRed)
    /\ issue' = [issue EXCEPT ![v] = "closed"]
    /\ stamp' = [stamp EXCEPT ![v] = @ + 1]
    /\ promoted' = promoted \cup {body[v]}
    /\ UNCHANGED <<git, release, image, build, qaWanted, qa, body, seen, queue, answered,
                   prod, hasty>>

\* The gate skips closed issues labelled "abandoned".
AbandonIssue(v) ==
    /\ issue[v] = "open"
    /\ issue' = [issue EXCEPT ![v] = "abandoned"]
    /\ UNCHANGED <<git, release, image, build, qaWanted, qa, body, gate, prod, people>>

Updated == {v \in Versions : stamp[v] > seen[v]}

\* A check, periodic or forced by the bot, records the newest update of the
\* closed issues it reports.
Records(reported) ==
    /\ Updated # {}
    /\ queue' = [v \in Versions |-> IF v \in reported THEN queue[v] \cup {stamp[v]}
                                                     ELSE queue[v]]
    /\ seen' = stamp
    /\ UNCHANGED <<git, release, image, build, qaWanted, qa, issue, body, stamp, answered,
                   prod, people>>

GateCheckLatest == \E v \in Updated : Records({v})

\* It reports every issue that was updated, and version="every" makes a
\* production build of each.
GateCheck == Records(Updated)

-----------------------------------------------------------------------------
(* The Production job *)

ProdBinds(v) ==
    /\ ppc = "idle" /\ lastQA # None
    /\ ppc' = "start"
    /\ pver' = lastQA
    /\ pgate' = v
    /\ UNCHANGED <<git, release, image, build, qaWanted, qa, issue, body, stamp, seen,
                   deployment, prodCut, prodRed, people>>

ProdBindUngated(v) == ProdBinds(v) /\ UNCHANGED <<queue, answered>>

\* The build consumes the oldest recorded update of one issue and binds the
\* newest image and release that passed QA together, whichever release the
\* issue is about.
ProdBind(v) ==
    /\ \E n \in queue[v] :
         /\ \A m \in queue[v] : n <= m
         /\ queue' = [queue EXCEPT ![v] = @ \ {n}]
         /\ answered' = [answered EXCEPT ![v] = n]
    /\ ProdBinds(v)

\* GitHub Deployment action=start; its ref must exist.
ProdStart ==
    /\ ppc = "start" /\ tag[pver] # None
    /\ deployment' = [deployment EXCEPT ![pver] = IF @ = "none" THEN "started" ELSE @]
    /\ ppc' = "pulumi"
    /\ UNCHANGED <<git, release, image, build, qaWanted, qa, issue, body, gate,
                   pver, pgate, prodCut, prodRed, people>>

ProdPulumi ==
    /\ ppc = "pulumi"
    /\ prodCut' = image[pver]
    /\ ppc' = "finish_deployment"
    /\ UNCHANGED <<git, release, image, build, qaWanted, qa, issue, body, gate,
                   pver, pgate, deployment, prodRed, people>>

ProdFinishDeployment ==
    /\ ppc = "finish_deployment"
    /\ deployment' = [deployment EXCEPT ![pver] = "success"]
    /\ ppc' = "finish_release"
    /\ UNCHANGED <<git, release, image, build, qaWanted, qa, issue, body, gate,
                   pver, pgate, prodCut, prodRed, people>>

ProdEnds == ppc' = "idle" /\ pver' = None /\ pgate' = None

ProdFinishReleaseTry ==
    /\ ppc = "finish_release"
    /\ branches' \in {branches, branches \ {pver}}
    /\ ProdEnds
    /\ prodRed' = FALSE
    /\ UNCHANGED <<tag, cuts, release, image, build, qaWanted, qa, issue, body, gate,
                   deployment, prodCut, people>>

\* action=finish merges the branch and deletes it; with no branch left it is a
\* no-op.  It is the build's last step and not wrapped in a try.
ProdFinishRelease ==
    /\ ppc = "finish_release"
    /\ branches' = branches \ {pver}
    /\ ProdEnds
    /\ prodRed' = FALSE
    /\ UNCHANGED <<tag, cuts, release, image, build, qaWanted, qa, issue, body, gate,
                   deployment, prodCut, people>>

\* A failed Pulumi run may have replaced the image all the same.
ProdFail ==
    /\ ppc # "idle"
    /\ prodCut' \in {prodCut} \cup (IF ppc = "pulumi" THEN {image[pver]} ELSE {})
    /\ ProdEnds
    /\ prodRed' = TRUE
    /\ UNCHANGED <<git, release, image, build, qaWanted, qa, issue, body, gate,
                   deployment, people>>

-----------------------------------------------------------------------------

ImageBuildStep(b) == ImageBuildCreate(b) \/ ImageBuildPush(b) \/ ImageBuildFail(b)
QAStep   == QADeploy \/ QAIssue \/ QAFinish \/ QAFail
ProdStep == ProdStart \/ ProdPulumi \/ ProdFinishDeployment \/ ProdFinishRelease \/ ProdFail

Next ==
    \/ CheckRelease \/ CommandEnds
    \/ \E b \in Builds : ImageBuildDue(b) \/ ImageBuildTrigger(b) \/ ImageBuildStep(b)
    \/ AbandonRelease
    \/ InfraMerge
    \/ QAStart \/ QAStep
    \/ \E v \in Versions : CloseIssue(v) \/ AbandonIssue(v) \/ ProdBind(v)
    \/ GateCheck
    \/ ProdStep

\* Concourse keeps scheduling builds and running their steps, and keeps
\* checking the gate.  People, merges and cuts are not fair.
Fairness ==
    /\ WF_vars(GateCheck)
    /\ WF_vars(\E v \in Versions : ProdBind(v))
    /\ WF_vars(ProdStep)

Spec == Init /\ [][Next]_vars /\ Fairness

-----------------------------------------------------------------------------
(* Properties *)

(* A release in flight that already runs in production is never left behind a *)
(* green production job: its finish step is still to come, or the last        *)
(* production build is red.  A try around that step froze a release version   *)
(* for weeks with no red build to show for it.                                *)
UnfinishedIsRed ==
    \A v \in branches :
        prodCut # None /\ tag[v] = prodCut =>
            prodRed \/ ppc \in {"finish_deployment", "finish_release"}

\* Nobody has cut, abandoned, merged or closed without waiting.
Careful == hasty = 0 /\ ~early

(* Closed release issues gate production: as long as people wait, what        *)
(* production runs was promoted by a person who closed the issue showing that *)
(* very cut, though Concourse and the release command may build one version   *)
(* twice, each with a cut of its own under the same tags.                     *)
OnlyPromotedReachesProduction == Careful /\ prodCut # None => prodCut \in promoted

(* As long as people wait, production runs only what a green QA build         *)
(* deployed before; image tags are mutable and a version is built twice or    *)
(* cut again, so passed= alone does not say so.                               *)
OnlyTestedReachesProduction == Careful /\ prodCut # None => prodCut \in tested

(* As long as people wait, the tag of what production runs after a successful *)
(* deployment stays where it is: it is the only marker of what production is  *)
(* running.                                                                   *)
ProductionTagKept ==
    [][\A v \in Versions :
          Careful' /\ deployment[v] = "success" /\ tag[v] = prodCut => tag'[v] = tag[v]]_vars

(* A build that deploys in answer to a closed issue deploys the release that  *)
(* issue is about: "promoted ... Production deploy triggered".                *)
PromotionDeploysItsRelease ==
    ppc \in {"finish_deployment", "finish_release"} => pver = pgate

(* No update of a closed issue is lost: once updates stop and some release has *)
(* passed QA, the newest update of every closed issue has had a production     *)
(* build that was started for it, and so after it (version="every").  A build  *)
(* under way at the time of the update does not count; updates of one issue    *)
(* between two checks are one gate version, and share a build.                 *)
PromotionAnswered ==
    <>[](lastQA # None => \A v \in Versions : answered[v] = stamp[v])
=============================================================================
