# Formal models of ol-infrastructure

TLA+ models, TLC runs and TLAPS proofs for the parts of this repository that
are programs rather than declarations: the release workflow of an application
(the pipeline Concourse runs, the GitHub issues people work on, the Slack bot
between them, the handler that reports rollouts), the jobs that keep the
omnigraph data tier in order, and the life of a Concourse worker.

Most of the 2324 files declare things: Pulumi resources, pyinfra steps, YAML.
There the engine that applies the declaration holds the state. What is modelled
here is the code where this repository itself decides the order of steps, reads
state it later writes, or retries: that is where a unit test sees one schedule
of many.

| File | What it is |
| --- | --- |
| `ReleasePipeline.tla`, `MCRelease.tla` | the release workflow `k8s_apps/pipeline.py` generates, and its TLC instance |
| `ReleasePipeline_proofs.tla` | theorems about it |
| `ReleaseIssues.tla` | the release issues on GitHub and the bot's pods: what both bot modules extend, and the abstract specification `IssueSpec` |
| `CheckboxWatch.tla`, `MCWatch.tla`, `CheckboxWatch_proofs.tla` | `/doof wait-for-checkboxes` |
| `ReadyToPromote.tla`, `MCReady.tla`, `ReadyToPromote_proofs.tla` | the ready poller, `/doof promote`, the promote button |
| `ReleaseCommand.tla`, `MCCommand.tla`, `ReleaseCommand_proofs.tla` | `/doof release` and the bot's Concourse client |
| `KubewatchHandler.tla`, `MCKubewatch.tla`, `KubewatchHandler_proofs.tla` | the kubewatch webhook handler |
| `TokenSync.tla`, `MCTokenSync.tla`, `TokenSync_proofs.tla` | omnigraph's actor-token sync |
| `StorageMigration.tla`, `MCMigration.tla`, `StorageMigration_proofs.tla` | omnigraph's storage-format migration |
| `WorkerLifecycle.tla`, `WorkerReaper.tla`, `MCWorkers.tla` | Concourse workers on spot instances, and the web nodes' reaper beside them |
| `WorkerRegistry.tla`, `WorkerReaper_proofs.tla` | what the list of workers promises, and theorems |
| `*.cfg` | one TLC run each |
| `PROJECT.json` | components, runs, mutants, source map, findings, hazards, theorems |

Run a model with `tlc -workers 2 -config Release.cfg MCRelease.tla`, check
proofs with `tlapm ReleasePipeline_proofs.tla`.

## 1. Inventory

Paths are relative to `src/src/`.

### Release-resource pipeline
`ol_concourse/pipelines/infrastructure/k8s_apps/pipeline.py`,
`_build_release_resource_app_pipeline` and what it calls.

- *State* (none in the program; it lies in git, ECR, GitHub, Concourse): release
  tags and branches, images under mutable tags, release issues, GitHub
  Deployments, the versions each Concourse resource has recorded and which of
  them each job has consumed.
- *Operations*: check for a version, cut (`build-<app>-release-image`), abandon,
  QA deploy and issue put, gate check, Production deploy and finish.
- *Interacts* with people (who close or label issues, merge), with the bot (which
  forces checks and triggers jobs) and with Concourse's scheduler.
- *Hard*: two triggers of an unserialised image job; `passed=` talks about
  versions while tags are reused; a build can fail or be aborted between any two
  steps; Production binds a gate event and a release independently.
- *Correct if* only promoted and tested cuts reach production, no promotion is
  lost, a tag that marks production is not deleted, and a release that is stuck
  is visible as a red build.

### Release bot
`ol_infrastructure/applications/release_bot/{bot,github_client,concourse_client}.py`,
deployed by `__main__.py` beside them.

- *State*: issues, labels and comments on GitHub; `_checkbox_watchers` and every
  coroutine in the pod's memory; the cached Concourse token.
- *Operations*: `/doof` release, preview, promote, wait-for-checkboxes and
  others; the promote button; the ready-to-promote poller.
- *Interacts*: Slack (commands in, messages out), GitHub, Concourse. The
  Deployment keeps the default rolling update, so two pods overlap.
- *Hard*: state read before an await and used after it; a message that is sent
  before the label that dedupes it; a comment that precedes the close it
  reports; everything in memory dies with the pod.
- *Correct if* a slot never leaks and never admits two watches, nobody is
  thanked who is still outstanding, a ready release is announced (once, unless a
  label was lost), a comment never claims what did not happen, a build it triggers
  is not older than the command, and every command is answered.

### Kubewatch webhook handler
`ol_infrastructure/applications/kubewatch_webhook_handler/webhook_handler.py`.

- *State*: `deployment_states` in the pod's memory; Slack messages.
- *Operations*: an event from kubewatch: read the deployment, decide, set the
  state, post; a "deleted" event.
- *Interacts*: kubewatch (its queue of events), the Kubernetes API, Slack.
- *Hard*: an event says that something changed, not what; the reading comes
  later; requests overlap without a lock; the state is set before the post.
- *Correct if* no message is repeated, a start is followed by a finish, and the
  last message is about how the newest rollout ended.

### Omnigraph actor-token sync
`ol_infrastructure/applications/omnigraph/{token_sync.py,scripts/sync_actor_tokens.py}`.

- *State*: two Vault maps (service tokens, actor tokens), the Keycloak realm.
- *Operations*: an hourly run (read, page through the realm, reconcile, write),
  the same run as a bootstrap Job of each deploy.
- *Hard*: a read-modify-write without compare-and-swap; offset paging over a
  realm that changes; a failing call anywhere.
- *Correct if* no token of a user who stayed changes, the service identity is
  never dropped, a successful run leaves one entry per enabled human, and the map
  settles (every write restarts the server).

### Omnigraph storage migration
`ol_infrastructure/applications/omnigraph/{__main__,storage_migration,maintenance,data_tier}.py`,
`scripts/migrate_storage_format.py`.

- *State*: two storage roots in S3, the Deployment, two CronJobs, the Job.
- *Operations*: arm, disarm and cut over by `pulumi up`; the Job's export,
  rebuild and verification; the sweeps.
- *Hard*: only `depends_on` orders resources; an up or a Job may stop anywhere;
  a later Job merges into what a failed one left; a verdict outlives its truth.
- *Correct if* a good verdict means the roots agree, the cutover loses nothing,
  no sweep runs under the Job, a failure leaves the old root served.

### Concourse worker lifecycle
`bilder/images/concourse/files/concourse-worker-{preflight,spot-watch,lifecycle-hook,drain,reaper}`
and the units in `bilder/components/concourse/templates/`.

- *State*: the pinned name, `concourse.service` and the two watchers on each box;
  EC2 and the Auto Scaling Group; the ATC's list of workers.
- *Operations*: preflight and registration, crash and restart, the answer to a
  spot signal and to a lifecycle hook, drain, the reaper's run.
- *Interacts*: boxes with EC2 and the ATC; reapers on all web nodes with both.
- *Hard*: two drains and a restart race; the metadata service may not answer; a
  reaper decides on a list it read before; addresses are used again.
- *Correct if* a box has one name, a rebalance signal has an effect, a worker in
  use is never pruned and an orphan always is.

### Not modelled
`PROJECT.json` lists each with the reason: the Witan Jobs (only their pod templates
are here; their program is in the witan image), Pulumi stacks (declarative; Pulumi's
engine orders and remembers), the generated provider SDKs, the other Concourse
pipelines (only Concourse orders their jobs), bilder images (straight-line
provisioning), operator scripts (run by hand), bridge (static settings and
secrets). That is nearly all of the tree by lines, so the source map covers
a small share of it and cannot cover much more.

## 2. Plan

What was done, in order of importance:

1. **ReleasePipeline**: the pipeline and the outside state it works on.
2. **ReleaseIssues**, **CheckboxWatch**, **ReadyToPromote**: the bot beside people.
   `IssueSpec` is the abstract specification of the issues; both bot modules are
   shown to implement it.
3. **TokenSync** and **StorageMigration**: the jobs that rewrite data.
4. **WorkerLifecycle**, **WorkerReaper**: workers and reapers composed, shown to
   implement **WorkerRegistry**.
5. **KubewatchHandler** and **ReleaseCommand**.

6. Proofs: every safety property that a passing run checks, from an inductive
   invariant of its own (section 5).

What would be worth adding: a composition of ReleaseCommand with
ReleasePipeline's `CheckRelease` and `ImageBuildTrigger`, which now agree only on
the version; a run of TokenSync over several pages in which nobody leaves the
realm; a check of StorageMigration with enough ups to arm, give up, arm again and
cut over (the theorems cover it).

## 3. The models

Every definition that models code has an entry in `PROJECT.json` "map" with its
lines; what follows is how to read them.

### ReleasePipeline
A *version* is a calver number, a *cut* one run of `action=create`. Abandoning
and cutting again on one day reuses the version, so git tags, image tags and
issue bodies map versions to the cut they hold. Concourse is modelled by what
its jobs bind: `latest` (the release version recorded last), `lastBuilt` and
`lastQA` (newest versions that `passed` the image and QA jobs), and the gate's
versions (`stamp` counts the updates of an issue since it was closed, `seen` is the
one recorded last, `queue` those Production has yet to consume, `answered` the
one its newest build was started for).

| Actions | Code |
| --- | --- |
| `CheckRelease`, `CommandEnds`, `ImageBuildTrigger` | `/doof release` (`_cmd_release`), or a person who does the same in Concourse |
| `ImageBuildDue` | Concourse's own build of a version it has not built (`trigger=True`) |
| `ImageBuildCreate/Push/Fail`, `Create` | `_build_release_image_job` and the release resource (external) |
| `AbandonRelease` | `_build_abandon_release_job` |
| `QAStart/Deploy/Issue/Finish/Fail` | the QA job and its issue put |
| `CloseIssue`, `AbandonIssue`, `InfraMerge` | people |
| `GateCheck` | the `-release-gate` resource |
| `ProdBind/Start/Pulumi/FinishDeployment/FinishRelease/Fail` | the Production job |

*People.* No guard keeps anybody from anything: people cut, abandon, merge and
close at any time. Two history variables note what they did without waiting:
`hasty` counts cuts, abandons and merges (at most `MaxHaste`), `early`
says that an issue was closed while images were built or tested or the last QA
build was red. `Careful` says that neither happened. `UnfinishedIsRed` and
`PromotionAnswered` hold whatever people do; `OnlyPromotedReachesProduction`,
`OnlyTestedReachesProduction` and `ProductionTagKept` as long as `Careful` does.
Waiting means: to cut, abandon or merge only when no image is built, tested or
deployed, nothing is due and every issue was decided on (`Decided`); to cut only
a version without a tag or a closed issue, as a preview shows it; to abandon only
one whose issue is not closed; to close an issue only when image builds and QA are
quiet and green (`Quiet`).

*Concourse does not wait.* It starts a build of every version it has not built,
and the command triggers one besides, so one version is as a rule built twice and
may be built twice at once: each build cuts the version anew, moves the git tag
and, later, the image tag. `bot.py:66-72` says that a build reuses the version
recorded last, so creating a version again is taken to succeed. This is also
why closing belongs to what people have to wait with: without it, the second
build may move the tested image tag to an untested cut after the issue was closed
(TLC finds `OnlyPromotedReachesProduction` and `OnlyTestedReachesProduction`
violated then, with no other haste). That Concourse starts a build by itself only
for a version it has not built is Concourse's rule, not this repository's.

*The gate.* One check reports every closed issue that was updated since, and each
is one version, so several updates of one issue between two checks are one
version and share a production build.

The model takes the issue of a version to be found by its version header, as
the resource does; issue bodies carry it.

### ReleaseIssues, CheckboxWatch, ReadyToPromote
An action is the code from one await to the next, because the bot is asyncio.
ReleaseIssues holds what both share: issues with checklist lines, what the
client reads of them (`Outstanding`, `FullyChecked`), people, and pods.

CheckboxWatch: `WaitStart` is `_checkbox_watch_preflight` (check and reservation
with no await between), `WaitRefused`/`WaitAccepted` its lookup, `WatchPoll` and
`WatchRefresh` the two lookups of a round, `WatchPollEnds`, `WatchThanksFail`
and `WatchPodStop` the ways a watch ends.

ReadyToPromote: `PollFetch` takes the snapshot, `PollPost`/`PollLabel` send the
message and add the label, with their failures; `PromoteFetch`, `PromoteComment`,
`PromoteClose`, `PromoteFails` are `/doof promote` and the button. `BotPodStop`
loses whatever the pod was doing. `posts` saturates at `MaxPosts`.

*Composition.* CheckboxWatch's environment is `PeopleNext`; ReadyToPromote's
promotions close issues too. Run `ready` and theorem `KeepsIssueSpec` show every
step of ReadyToPromote to be an `IssueSpec` step, so CheckboxWatch also holds
beside it.

`ThanksDeserved`: whoever is thanked has no unchecked box on the newest open
issue. They may still have one on the issue the watch polled before, if a newer
one was opened in between or that one was closed (then an older issue, or none,
is the newest): the code compares two lookups without asking whether they are of
one issue.

*Left out*: a Slack call that fails after it was delivered (the poller would
announce again), the issues without a version header that the poller skips, and the
ten issues it handles at most.

*As the code is, and no property forbids it*: an author who finishes between the
second lookup of a round and the first of the next is never thanked; a
`promote-ready` label survives when a version is cut again and its issue edited in
place, so the new checklist may not be announced.

### ReleaseCommand
`Call` wraps every call of the client: it needs a token, which `_get_token` takes
from the cache or from a login under the pod's lock (`AwaitLock`, `TakeLock`,
`LoggedIn`). `ReadBefore`, `PostCheck`, `Poll` and `PollTimesOut` are
`check_resource` with its two ways of telling that the check is over: the build
the POST answered with, or the resource's own last check. `Trigger` starts the
build, which binds what is recorded. `CheckBegins` and `CheckEnds` are Concourse
(external); checks of one resource run one at a time. `took`, `asked` and `bound`
are history. A cached token Concourse no longer accepts fails calls until it
expires; the model has that as `CallFails`.

### KubewatchHandler
One deployment: the handler keeps a state for each and nothing else. `Deliver`
takes any event that is pending, `Fetch` reads the deployment as it is then,
`Decide`, `SetState` and `Post` follow, with the failures of the calls. Rollouts
go on meanwhile (`RolloutStarts`, `RolloutProgresses` and the rest), handler pods and
kubewatch pods come and go. `clean` is history: nothing overlapped, failed or
restarted since the last message; `slow` says that the newest rollout was seen
under way. What overlapping requests and failed posts do is in the model, but
`NoRepeat`, `LastMessageIsRight` and `StartIsFinished` claim nothing of it: they
hold for what is handled one at a time, and again after a message that sets the
state right. A "deleted" event reads no deployment in the code; in the model it reads
it like any other, and finds none unless a new one was made.

The handler remembers how a deployment stood, not which rollout that was. So a
rollout that is never read under way and ends as the one before did is taken for a
duplicate: `LastMessageIsRight` is exact about that, and `NewestIsAnnounced`, which
the comment in the code promises, fails (`kubewatch_fast`).

### WorkerLifecycle, WorkerReaper, WorkerRegistry
One action per step of a script: `PreflightPasses`/`PreflightFails` (the pinned
name), `Register`, `Retire`, `ProcessExits`, `ProcessCrashes`, `ServiceRestart`
(`Restart=always`), `SpotRebalance`, `SpotInterruption`, `SpotCrashes`,
`HookDrain`, `HookComplete`, `HookCrashes`; `Drain` is the script both call.
`ReadInstances`, `ReadStalled`, `PruneWorker`, `PruneFails` and `RunAborts` are the
reaper, one call each. EC2, the group and the ATC are external (`Launch`, `ScaleIn`,
`Terminate`, `Stall`, `Retired` and so on).

*Refinement.* `WorkerRegistry` lets a listed worker that is not retired disappear
only by a prune, and only when no live box has its name. `ImplementsRegistry` maps
`entry` to the ATC's list and `inUse` to the names live boxes have pinned.

*Assumed* (`BootOutlastsReap`, `NoBootDuringReap`): a box takes longer to boot and
register than one run of a reaper takes. Nothing in the scripts enforces it. Without
it a box that takes over an address may register after the reaper's list of instances
and be pruned after it stalls; so the refinement says nothing of that case.

*Simplified*: `Drain` reads `MainPID` and sends the signal in one step; a worker
the ATC is retiring does not register again.

*As the code is*: a worker that has drained exits, `Restart=always` starts it
again, and it registers once more on a box about to die; ADR 0008 accepts
short-lived duplicates.

### TokenSync
One action per call of `main()`: `ReadService`, `ReadActors`, `ReadPage`,
`Reconcile`, `Write`; `Fail` is any failing call, refusing guard or kill. Users
are ranks in Keycloak's listing, so a removal shifts offsets. `Mint` yields a
value nothing holds. `kept` and `gone` are history: who was enabled, or not,
ever since a run began. An entry deleted by hand while a run is under way is written back.

*Paging.* Offset paging may skip a user who stays when another one leaves: with
`PageSize` below `NUsers`, `TokensCarriedOver` fails, so the run takes a realm that
fits one page (100 users). And a page that Keycloak caps below what the run asks
for, as the comment at `sync_actor_tokens.py:91` says it does in some versions, is
taken for the last one: every user beyond it loses the token. The model has both;
no property of the run can hold with them, so they are stated as theorems
(`OnlyCapsAndLeaversHarm`, `CapLosesTheRest`).

### StorageMigration
`Up*` are the resources of `pulumi up`, one action each, guarded by their
`depends_on`: the converge Job before Deployment and sweeps, the sweeps before
the Job, deletions last. `UpFail` stops an up anywhere. `Job*` are the commands
of the script in their order, `JobLoadFails` leaves part of a graph behind,
`JobFail` is any other death. The engine opens only a root of its own format
(`Serving`). A row stands for its key; `load --mode merge` is set union.

*Assumed of the operator* (`FollowsRunbook`, `ScaleUp`): scales down before
arming, leaves the server down until an up that is not armed has finished with
it, and serves the new root only on a good verdict that no up of another kind
has outdated. An up may still bring the server back by itself (`UpServer`:
`replicas=1` is declared), and the properties hold in spite of that.

*As the code is*: arming rolls the Deployment onto the image that cannot open the
old root before the Job has run, so after a failed Job a scale-up does not bring
the old service back; another up has to. Suspending a sweep does not stop one in
flight. What an up does once it disarms, or after another up made a verdict
outdated, is excepted by the properties (`outdated`): sweeps resume beside a Job
that still works, and only the operator keeps a stale verdict from being used.

*Simplified*: `UpConverge` runs whatever the version of the server's image, where the
code gates it; a finished Job is replaced when an image changes, not when its time
to live ends or the image to migrate from changes.

## 4. What the runs show

| Run | Shows | Instance |
| --- | --- | --- |
| `release` | types; `UnfinishedIsRed`; `PromotionAnswered` (liveness); with people who wait `OnlyPromotedReachesProduction`, `OnlyTestedReachesProduction`, `ProductionTagKept` | 2 versions, 3 cuts, 2 QA builds, 2 image builds side by side, 1 haste, issues closed at any time |
| `release_mismatch` | *finding*: a promotion may deploy another release | 2 versions, 2 cuts, no haste but a close before QA is green |
| `watch` | types; `OneWatchPerSlot`; `ThanksDeserved`; `WatchEnds` (liveness) | 2 pods, 2 requests, 2 issues, 1 rollout |
| `ready` | types; `RepeatsExplained`; `PromotedCommentIsHonest`; `IssueSpec` (refinement); `ReadyIsAnnounced` (liveness) | 2 pods, 2 requests, 1 issue |
| `command` | types; `ReleaseIsFresh`; `OneLogin`; `EveryCommandAnswered` (liveness) | 2 commands, 2 versions |
| `kubewatch` | types; `NoRepeat`; `LastMessageIsRight`; `StartIsFinished` (liveness) | 2 requests at a time, 2 pods, 2 rollouts, 1 fault |
| `kubewatch_fast` | *finding*: a second rollout too fast to be seen is not announced | 1 pod, 1 request at a time, 2 rollouts, no fault |
| `sync` | types; `ServiceKept`; `TokensCarriedOver`; `RunTellsTheTruth`; `Converges` (liveness) | 3 users, one page, 3 changes |
| `sync_overlap` | *finding*: two runs overwrite each other's tokens | bootstrap Job beside the cron |
| `migration` | types; `VerdictHonest`; `CutoverKeepsEverything`; `SweepsHeldOff` | 2 graphs, 2 rows, 3 ups, 1 write |
| `workers` | types; `OneNamePerBox`; `RebalanceIsActedOn` (liveness) | 2 boxes on one address, one of them noticed, no reaper |
| `reapers` | `ImplementsRegistry` (refinement); `OrphansPruned` (liveness) | 2 boxes on one address that just fail, 2 web nodes |

**Why the bounds are enough.** Two versions let one release supersede, be mixed
up with or be abandoned for another; three cuts let a version be built twice and
the other once, in any order; two image builds is Concourse's beside the
command's. One haste is enough for anybody to break in anywhere. Three versions, four cuts
and four QA builds without haste were checked beside the run, with the invariant
of the proofs, which holds for any number. Two requests and two pods are the
smallest instance in which a slot can be contended and in which two pollers
share a snapshot; two issues let the newest change under a watch. `ready` has
one issue, because a poller's list is handled issue by issue; that lists of several
keep the properties is proved. In `sync` the
realm, a page and the cap have the same size, so the largest realm is a full page
followed by an empty one. `NTokens` is large enough for a mint to be fresh
in every reachable state. In `migration` three ups are arm, cut over (or give
up), arm again; two rows tell counts from contents, and two graphs let one be
loaded when the other fails. The row swap that would deceive a count (one row
deleted, another added) needs two writes and was checked on the same instance
with two; the reason it cannot happen is that the new root always holds all that
was exported, so equal counts mean equal contents.

Two commands are enough to contend for the token and to take each other's check;
two versions to tell a fresh build from a stale one. Two rollouts and two requests
let an event be handled in the next rollout and beside another; `MaxFaults` is one
lost call, and the pod changes come on top of it. Two boxes on one address let one
take over the name of the other; `Noticed` and `Webs` split the workers into two
runs, as either with the other exceeds what TLC can do in minutes: a box whose
end is announced needs no reaper, and a box that just fails meets no signal. The
theorems about the workers hold for all of it together.

**Deadlock** is not checked: every counter is bounded, and people owe nothing,
so each system may stop.

**Fairness.** *ReleasePipeline*: Concourse checks the gate, starts builds that
have inputs and runs their steps (weak fairness of `GateCheck`, `ProdBind`,
`ProdStep`); cuts, merges and people are not fair. *CheckboxWatch*: an asyncio
task that is ready runs (weak fairness of each coroutine). *ReadyToPromote*: the
poller loop goes on, Kubernetes replaces the last pod, and Slack takes a
message that is sent again and again (strong fairness of `PollPost` per issue:
each poll retries an unlabelled issue). A label call may fail for ever.
*TokenSync*: the CronJob ticks, and no call fails for ever (strong fairness per
call, as each hourly run tries again). *ReleaseCommand*: asyncio runs every task,
its lock is first come, first served, and a poll comes after the deadline; no
check needs to end. *KubewatchHandler*: events are delivered and requests served;
rollouts and faults are not fair. *Workers*: the watchers of a box run and the
group replaces what is marked Unhealthy; timers fire, and a reaper's calls, made
again and again, succeed in the end. What a box is told, and when it dies, is up to
the cloud. StorageMigration states no liveness.

**Findings.** Three runs end in a counterexample to what a comment, a message or a
runbook says; `PROJECT.json` quotes the lines.

1. Closing an issue before its QA build is green makes Production redeploy the
   release before, while the bot says the promoted one is on its way.
2. The bootstrap Job of the token sync is not covered by the CronJob's
   concurrency policy; either may overwrite the tokens the other minted.
3. A rollout too fast to be read under way is not announced when it ends as the one
   before did, though a comment says that such rollouts still are.

Two more disagreements have no run of their own: the capped page above (a theorem)
and the reaper's address race (an assumption).

**Mutants.** Every property of every passing run is broken by a plausible slip
in one mapped definition; the mutated forms stand in the modules just before
the definition they replace (`ProdFinishReleaseTry`, `SupersededAll`,
`WaitStartUnchecked`, `UpCreateJobAtOnce` and so on).

## 5. Proofs

`ReleasePipeline_proofs.tla`, from `ReleaseAssumption` alone, for any number of
versions, cuts and QA builds and any set of concurrent image builds:

- `TypeCorrect`: `Spec => []TypeOK`. `TypeOK` alone is not inductive: an image
  build that pushes must have bound a version and a cut, a production build that
  runs a version, an open issue shows a cut. The invariant `Typed` adds that.
- `NeverSilentlyUnfinished`: `Spec => []UnfinishedIsRed`. The inductive
  invariant adds to it that cut numbers are fresh (no tag or image holds a cut
  not made yet), that a cut belongs to one version (so the tag that equals
  `prodCut` is the tag of the version the build deployed), and that a build past
  its Pulumi step has deployed what it bound. Hence only the build that deployed
  a release can be the one that fails to finish it, and if it fails it is red.

- `OnlyPromoted`, `OnlyTested`, `TagStays`, `CarefulDeploysItsRelease`: the three
  properties that hold while people wait, and `Careful => PromotionDeploysItsRelease`,
  which turns the finding round: what `release_mismatch` shows needs an issue that was
  closed early. No assumption is made of Concourse or of the number of builds. None of
  them is inductive: a production build binds whatever passed QA last, one that fails
  may have deployed all the same, and a tag goes with a later cut or an abandon. As
  `Careful` only ever turns false, the invariant is `Careful => Serial`
  (`CarefulBefore`), and an action of people who do not wait has nothing to prove
  (`Waited`). `Serial` says: image builds are all of the version recorded last and only
  work on one whose issue is not closed (`BuildsAlone`), so the image under a closed
  issue is never overwritten; QA, an open issue and the gate are about the version
  built last (`AboutLast`); once QA is quiet and green it has tested the image built
  last, which is what waiting with the close is for (`Judged`); and the image of a
  closed issue, what was deployed and what is being deployed were promoted and
  tested, by a build that answers the issue of its own release (`Settled`).

`CheckboxWatch_proofs.tla`, from `IssuesAssumption`, for any set of pods,
requests and authors and any number of issues:

- `TypeCorrect`: `TypeOK` is inductive; it needs that the maximum of a set of
  issues is one of them, which the lemma `MaxOf` derives from the
  well-foundedness of the natural numbers.
- `SlotSafe`: `Spec => []OneWatchPerSlot`. Invariant: the slots taken are exactly
  those of pods with a request at work, at most one per pod. The step that
  matters is the reservation: it is safe because the check and the reservation
  are one action, with no await between.
- `ThanksAreDeserved`: `Spec => ThanksDeserved`. Only `WatchRefresh` thanks, and it
  has looked: a failed lookup thanks nobody. That the issue polled can be compared
  with the newest one at all needs the invariant `Polled` (a watch between its two
  lookups has polled an issue that was opened).
- `KeepsIssueSpec`: the watch implements `IssueSpec`.

`ReadyToPromote_proofs.tla`, from `IssuesAssumption` and `PostsAssumption`, for any
sets of pods and requests and any number of issues:

- `RepeatsHaveReasons`: `Spec => []RepeatsExplained`. The property says nothing of
  pods that are about to post, so it is not inductive. The invariant `Account` is a
  balance for each issue: messages sent, plus pods that still have it to announce
  (`Waiting`, a finite set), are at most the excuses plus the one message that is owed
  once the issue is labelled or on a list.
- `CommentIsHonest`, `KeepsIssueSpec`: both need `Targets`, that a promotion works on
  an issue that was once open; a promotion that closes a closed issue is a stutter.
- `TypeCorrect`.

`ReleaseCommand_proofs.tla`, from `CommandAssumption`, for any set of commands and
any number of versions:

- `BuildIsFresh`: `Spec => []ReleaseIsFresh`. Invariant: checks run one at a time, so
  none that runs finds less than an earlier one recorded; a check that has begun found
  at least what there was when its command was given; a command goes on only with
  its own check, unless the POST told it no build.
- `LoginsAreSerial`: `OneLogin`, from the lock. `TypeCorrect`.

`KubewatchHandler_proofs.tla`, for any pods, requests and rollouts:

- `TypeCorrect`, and `NeverRepeats`, `EndsRight`: one invariant gives both. While nothing was lost and
  nothing overlapped there is one request at a time in one pod, whose state is that
  of the last message (`Undisturbed`); a request that is about to post says
  something new (`SaysNews`); when no event is left, the request at work has seen the
  newest state, or the last message tells it (`TellsEnd`, `TellsStart`). Without
  `clean` only the types remain.

`TokenSync_proofs.tla`, from `SyncAssumption`, for any users, tokens, changes and
jobs. The assumption bounds `NTokens` from below by what the maps and the runs can
hold at once and one mint per user: `secrets.token_urlsafe` never runs dry.

- `TypeCorrect`: `Spec => []TypeOK`. Two members of it are no matter of form. That what
  `Desired` computes is a map needs `MintIsNew`: the values held are fewer than the
  tokens (`HeldIsSmall`, cardinalities of the images of finite sets), and of m free
  values one has each of the ranks below m (`RankFound`, by the pigeonhole: ranks are
  an injection into as many numbers). That an offset stays within the realm needs
  `FullPage`: the users of a page of `PageSize` have as many ranks from the offset on.
- `ServiceStays`: `Spec => []ServiceKept`, however runs overlap: a run past its first
  read holds a service token, and what it is about to write has one.
- `TokensStay`: if `RunsAlone` and `OnePage`, `Spec => TokensCarriedOver`. Both
  conditions are needed: `sync_overlap` shows the first to be, a smaller page the
  second. Invariant (`Knows`): of a user enabled and not rotated since the run
  began, the run holds the very token the map has, has seen the user once the first
  page is read, and is about to write that token.
- `RunsTellTheTruth`: under the same two conditions `Spec => RunTellsTheTruth`. `Tells`
  adds what a run knows of a user who was not to have a token ever since: it has not
  seen that user enabled (but for a client's service account), gives the user no
  token, and if the map it read had none, neither has the map now. The user who must
  have one gets the old token or a mint, which is a token by `MintIsNew`. A run that
  ends without writing leaves the map as it read it (`NothingWritten`).
- `OnlyCapsAndLeaversHarm`: both results for a realm of any number of pages, unless a
  page is capped below what is asked for or somebody leaves the realm while a run reads
  it. The invariant then says that every user ranked below the offset has been seen.
  Who joins moves nobody forward (`RankRises`), and a page before the last is full
  (`NotLastPage`): a user ranked beyond it leaves one user for each rank of the page
  (`RankFound`).
- `CapLosesTheRest`: if `PageCap < PageSize`, a run never asks for a second page, and
  the map it is about to write has tokens for at most `PageCap` users. A page has no
  more users than ranks (`PageIsFew`), and is always shorter than what was asked for.
  It needs neither of the two conditions.

`StorageMigration_proofs.tla`, from `MigrationAssumption`, for any graphs, any finite
set of rows and any number of ups, writes and runs of the Job. One invariant, `IInv`:

- While an up is armed, a running server is the one it asked for (`ArmedServer`), and
  the sweeps it has dealt with are suspended (`ArmedSweeps`); a verdict that may still
  count is that of a Job this up asked for (`CurrentIsArmed`).
- `Evidence`, graph by graph and command by command: a baseline is the old root's
  count, what was exported is the old root's rows, what was merged is contained in
  the new root, and a graph that passed has as many rows as its baseline. No write
  invalidates this, as a server of the new image opens no root of the old format
  (`Formats`). At the verdict the old rows are a subset of the new ones with as many
  elements, and so equal (lemma `RowCounts`): this is why comparing counts only is
  enough in spite of what a failed load left behind.
- `Cutover`: an up that serves the new root found the two alike, and they stay so until
  the Deployment moves.

Hence `VerdictIsHonest` (`[]VerdictHonest`), `CutoverLosesNothing`
(`CutoverKeepsEverything`), `SweepsAreHeldOff` (`SweepsHeldOff`) and `TypeCorrect`. The
proofs use what the actions assume of the operator (`FollowsRunbook`, section 3).

`WorkerReaper_proofs.tla`, from `NamesAssumption`, for any boxes, addresses and web
nodes:

- `NamedOnce`: a box registers under the name it has pinned, and a pinned name stays.
- `Refinement`: if `BootOutlastsReap`, `Spec => ImplementsRegistry`. Invariant: a run
  of a reaper has seen every live box that has pinned a name (`SeenAll`), and what it
  is going to prune is no box it has seen (`TodoUnknown`). So what is pruned is not in
  use, whatever other reapers did in between.
- `TypeCorrect`.

**Only model-checked**: the liveness properties `PromotionAnswered`, `WatchEnds`,
`ReadyIsAnnounced`, `EveryCommandAnswered`, `StartIsFinished`, `Converges`,
`OrphansPruned` and `RebalanceIsActedOn`: progress under fairness rests on `ENABLED`,
which is out of the proof system's reach. Every other property of a passing run is a
theorem.

## 6. What is left out, and why

- Concourse, GitHub, Slack, Keycloak, Vault, Kubernetes, EC2, kubewatch, Pulumi and
  the omnigraph engine are external: each is modelled by what the code relies on.
- Formatting, message texts, logging, logins and JSON shapes: no property is
  about them.
- The CI stack, Fastly purges, source maps and the DockerHub copy in the
  pipeline: they write nothing the properties read.
- What `optimize` and `cleanup` rewrite: no row changes, so the model can only
  say when they start. A sweep in flight when the migration is armed is not
  stopped by `suspend`, and what it does to an export is the engine's affair.
- `RELEASE_VERSION_RE` and calver formatting: a version is a number, so that a
  zero-padded tag sorts and parses like any other is taken for granted.
- Durations: a sleep is a step, a deadline a nondeterministic failure.
