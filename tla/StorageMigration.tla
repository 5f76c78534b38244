--------------------------- MODULE StorageMigration ---------------------------
(***************************************************************************)
(* The storage-format migration of omnigraph.  A `pulumi up` that is armed *)
(* (omnigraph/__main__.py) deploys the new image, suspends the two sweeps  *)
(* and then creates a Job (omnigraph/storage_migration.py) which runs      *)
(* scripts/migrate_storage_format.py: export every graph with the old      *)
(* binary from the root that is served, load it with the new one at        *)
(* another root, and give a verdict.  A later `up` serves the new root.    *)
(*                                                                         *)
(* Pulumi updates resources in any order their depends_on allows and may   *)
(* stop anywhere; a Job may die at any command and is not retried.  The    *)
(* engine refuses a store of another format (external).  Abstracted: the   *)
(* tables of a graph, the value under a row's key, the staging of the      *)
(* rebuild config, batches of a load that succeeds, and what a sweep       *)
(* rewrites, which changes no row.                                         *)
(*                                                                         *)
(* The operator follows the runbook: scales the server down before an      *)
(* armed up, leaves it down until the Deployment is what was asked for,    *)
(* and serves the new root only on a good verdict nothing has outdated.    *)
(***************************************************************************)
EXTENDS Integers, FiniteSets

CONSTANTS
    Graphs,      \* graphs the cluster declares
    Rows,        \* rows a graph may hold
    MaxUps,      \* bound: runs of `pulumi up`
    MaxWrites    \* bound: rows clients write or delete

ASSUME MigrationAssumption ==
    MaxUps \in Nat /\ MaxWrites \in Nat /\ IsFiniteSet(Rows)

Versions  == {"old", "new"}          \* of the image, of the format, of the root
Sweeps    == {"optimize", "cleanup"}
Resources == Sweeps \cup {"converge", "server", "job"}

VARIABLES
    fmt,        \* S3: the format a root is stamped at, or "none"
    content,    \* S3: rows of each graph at a root
    writes,
    plan, todo, \* the last `pulumi up`: its config, resources it has yet to do
    ups,
    server,     \* the Deployment: image, and root of its cluster.yaml
    running,    \* it is not scaled to zero
    suspended,  \* sweeps whose CronJob is suspended
    sweeping,   \* sweeps with a run in flight
    jpc,        \* where the migration Job stands
    jimage,     \* the image of its main container
    left,       \* graphs the phase has still to do
    baseline,   \* rows counted per graph, -1 before
    exported,   \* rows of the export per graph
    mismatch,   \* verify found a graph whose counts differ
    outdated    \* history: an up of another kind began since the Job did

store  == <<fmt, content, writes>>
pulumi == <<plan, todo, ups>>
job    == <<jpc, jimage, left, baseline, exported, mismatch>>
vars   == <<store, pulumi, server, running, suspended, sweeping, job, outdated>>

Config   == [image : Versions, root : Versions, armed : BOOLEAN]
NoExport == [g \in Graphs |-> {}]
NoCounts == [g \in Graphs |-> -1]

TypeOK ==
    /\ fmt \in [Versions -> Versions \cup {"none"}]
    /\ content \in [Versions -> [Graphs -> SUBSET Rows]]
    /\ writes \in 0..MaxWrites
    /\ plan \in Config /\ todo \subseteq Resources /\ ups \in 0..MaxUps
    /\ ~(plan.armed /\ plan.root = "new")
    /\ server \in [image : Versions, root : Versions]
    /\ running \in BOOLEAN
    /\ suspended \subseteq Sweeps /\ sweeping \subseteq Sweeps
    /\ jpc \in {"none", "export", "apply", "load", "verify", "ok", "failed"}
    /\ jimage \in Versions
    /\ left \subseteq Graphs
    /\ baseline \in [Graphs -> Nat \cup {-1}]
    /\ exported \in [Graphs -> SUBSET Rows]
    /\ mismatch \in BOOLEAN /\ outdated \in BOOLEAN

Init ==
    /\ fmt = [v \in Versions |-> IF v = "old" THEN "old" ELSE "none"]
    /\ \E S \in SUBSET Rows :
         content = [v \in Versions |-> [g \in Graphs |-> IF v = "old" THEN S ELSE {}]]
    /\ writes = 0
    /\ plan = [image |-> "old", root |-> "old", armed |-> FALSE]
    /\ todo = {} /\ ups = 0
    /\ server = [image |-> "old", root |-> "old"] /\ running = TRUE
    /\ suspended = {} /\ sweeping = {}
    /\ jpc = "none" /\ jimage = "old" /\ left = {}
    /\ baseline = NoCounts /\ exported = NoExport
    /\ mismatch = FALSE /\ outdated = FALSE

-----------------------------------------------------------------------------
(* The running cluster (external) and its operator. *)

\* The server opens a root of its own format only.
Serving == running /\ fmt[server.root] = server.image

ClientWrite(g, r) ==
    /\ Serving /\ writes < MaxWrites
    /\ writes' = writes + 1
    /\ content' = [content EXCEPT ![server.root][g] = IF r \in @ THEN @ \ {r} ELSE @ \cup {r}]
    /\ UNCHANGED <<fmt, pulumi, server, running, suspended, sweeping, job, outdated>>

ScaleDown ==
    /\ running
    /\ running' = FALSE
    /\ UNCHANGED <<store, pulumi, server, suspended, sweeping, job, outdated>>

ScaleUp ==
    /\ ~running
    /\ ~plan.armed /\ server = [image |-> plan.image, root |-> plan.root]
    /\ running' = TRUE
    /\ UNCHANGED <<store, pulumi, server, suspended, sweeping, job, outdated>>

\* Suspending stops the ticks to come, never a run in flight.
SweepStart(s) ==
    /\ s \notin suspended /\ s \notin sweeping
    /\ sweeping' = sweeping \cup {s}
    /\ UNCHANGED <<store, pulumi, server, running, suspended, job, outdated>>

SweepEnd(s) ==
    /\ s \in sweeping
    /\ sweeping' = sweeping \ {s}
    /\ UNCHANGED <<store, pulumi, server, running, suspended, job, outdated>>

-----------------------------------------------------------------------------
(* pulumi up *)

AcceptedAnything(c) == TRUE

\* The program refuses to rebuild into the root it serves.
Accepted(c) == ~(c.armed /\ c.root = "new")

FollowsRunbook(c) ==
    /\ c.armed => ~running
    /\ c.root = "new" => plan.root = "new" \/ (jpc = "ok" /\ ~outdated)

UpStart(c) ==
    /\ todo = {} /\ ups < MaxUps
    /\ Accepted(c) /\ FollowsRunbook(c)
    /\ plan' = c
    /\ todo' = Resources
    /\ ups' = ups + 1
    /\ outdated' = (outdated \/ ~c.armed \/ c.image # jimage)
    /\ UNCHANGED <<store, server, running, suspended, sweeping, job>>

\* An update fails, or the run is killed; what was updated stays so.
UpFail ==
    /\ todo # {}
    /\ todo' = {}
    /\ UNCHANGED <<store, plan, ups, server, running, suspended, sweeping, job, outdated>>

\* The cluster-apply Job; it needs the root's ledger.
UpConverge ==
    /\ "converge" \in todo /\ fmt[plan.root] # "none"
    /\ todo' = todo \ {"converge"}
    /\ UNCHANGED <<store, plan, ups, server, running, suspended, sweeping, job, outdated>>

UpServerArmsTheServedRoot ==
    /\ "server" \in todo /\ "converge" \notin todo
    /\ todo' = todo \ {"server"}
    /\ server' = [image |-> plan.image, root |-> IF plan.armed THEN "new" ELSE plan.root]
    /\ running' \in IF server' = server THEN {running} ELSE {running, TRUE}
    /\ UNCHANGED <<store, plan, ups, suspended, sweeping, job, outdated>>

\* The Deployment declares one replica; whether an update undoes a scale to
\* zero by hand is up to the server-side apply.
UpServer ==
    /\ "server" \in todo /\ "converge" \notin todo
    /\ todo' = todo \ {"server"}
    /\ server' = [image |-> plan.image, root |-> plan.root]
    /\ running' \in IF server' = server THEN {running} ELSE {running, TRUE}
    /\ UNCHANGED <<store, plan, ups, suspended, sweeping, job, outdated>>

UpSweep(s) ==
    /\ s \in todo /\ "converge" \notin todo
    /\ todo' = todo \ {s}
    /\ suspended' = IF plan.armed THEN suspended \cup {s} ELSE suspended \ {s}
    /\ UNCHANGED <<store, plan, ups, server, running, sweeping, job, outdated>>

UpCreateJobAtOnce ==
    /\ "job" \in todo /\ plan.armed
    /\ todo' = todo \ {"job"}
    /\ jpc' = "export" /\ jimage' = plan.image /\ left' = Graphs
    /\ baseline' = NoCounts /\ exported' = NoExport
    /\ mismatch' = FALSE /\ outdated' = FALSE
    /\ UNCHANGED <<store, plan, ups, server, running, suspended, sweeping>>

\* The Job depends on both CronJobs.  A Job with another image replaces the
\* one there is; with the same image it stays as it is.
UpCreateJob ==
    /\ "job" \in todo /\ plan.armed
    /\ todo \cap Sweeps = {} /\ "converge" \notin todo
    /\ jpc = "none" \/ jimage # plan.image
    /\ todo' = todo \ {"job"}
    /\ jpc' = "export" /\ jimage' = plan.image /\ left' = Graphs
    /\ baseline' = NoCounts /\ exported' = NoExport
    /\ mismatch' = FALSE /\ outdated' = FALSE
    /\ UNCHANGED <<store, plan, ups, server, running, suspended, sweeping>>

UpKeepJob ==
    /\ "job" \in todo /\ plan.armed
    /\ todo \cap Sweeps = {} /\ "converge" \notin todo
    /\ jpc # "none" /\ jimage = plan.image
    /\ todo' = todo \ {"job"}
    /\ UNCHANGED <<store, plan, ups, server, running, suspended, sweeping, job, outdated>>

\* Pulumi deletes what is no longer declared after it has updated the rest.
UpDeleteJob ==
    /\ todo = {"job"} /\ ~plan.armed
    /\ todo' = {}
    /\ jpc' = "none" /\ left' = {}
    /\ baseline' = NoCounts /\ exported' = NoExport /\ mismatch' = FALSE
    /\ UNCHANGED <<store, plan, ups, server, running, suspended, sweeping, jimage, outdated>>

-----------------------------------------------------------------------------
(* migrate_storage_format.py *)

JobRuns == jpc \in {"export", "apply", "load", "verify"}

elsewhere == <<writes, pulumi, server, running, suspended, sweeping, jimage, outdated>>

\* The row counts of a graph's store, the only thing the Job compares.
SnapshotTables(root, g) == Cardinality(content[root][g])

\* The next phase, once the current one has done every graph.
NextPhase(step, rest) ==
    /\ left' = IF rest = {} THEN Graphs ELSE rest
    /\ jpc' = IF rest = {} THEN step ELSE jpc

JobBaseline(g) ==
    /\ jpc = "export" /\ g \in left /\ baseline[g] = -1
    /\ baseline' = [baseline EXCEPT ![g] = SnapshotTables("old", g)]
    /\ UNCHANGED <<elsewhere, fmt, content, jpc, left, exported, mismatch>>

JobExport(g) ==
    /\ jpc = "export" /\ g \in left /\ baseline[g] # -1
    /\ exported' = [exported EXCEPT ![g] = content["old"][g]]
    /\ NextPhase("apply", left \ {g})
    /\ UNCHANGED <<elsewhere, fmt, content, baseline, mismatch>>

\* cluster import and apply, which refuse a root of another format.
JobApply ==
    /\ jpc = "apply" /\ fmt["new"] \in {"none", jimage}
    /\ fmt' = [fmt EXCEPT !["new"] = jimage]
    /\ jpc' = "load"
    /\ UNCHANGED <<elsewhere, content, left, baseline, exported, mismatch>>

\* load --mode merge: what the store held before stays.
Loaded(g, rows) == [content EXCEPT !["new"][g] = @ \cup rows]

JobLoad(g) ==
    /\ jpc = "load" /\ g \in left
    /\ content' = Loaded(g, exported[g])
    /\ NextPhase("verify", left \ {g})
    /\ UNCHANGED <<elsewhere, fmt, baseline, exported, mismatch>>

\* A batch fails, or the Job dies: those before it are in the store.
JobLoadFails(g) ==
    /\ jpc = "load" /\ g \in left
    /\ \E rows \in SUBSET exported[g] : content' = Loaded(g, rows)
    /\ jpc' = "failed"
    /\ UNCHANGED <<elsewhere, fmt, left, baseline, exported, mismatch>>

JobVerifyNothingMissing(g) ==
    /\ jpc = "verify" /\ g \in left
    /\ mismatch' = (mismatch \/ SnapshotTables("new", g) < baseline[g])
    /\ left' = left \ {g}
    /\ UNCHANGED <<elsewhere, fmt, content, jpc, baseline, exported>>

\* The counts of every table must be those of the baseline.
JobVerify(g) ==
    /\ jpc = "verify" /\ g \in left
    /\ mismatch' = (mismatch \/ SnapshotTables("new", g) # baseline[g])
    /\ left' = left \ {g}
    /\ UNCHANGED <<elsewhere, fmt, content, jpc, baseline, exported>>

\* The verdict is good if no count differs and the format has moved.
JobVerdict ==
    /\ jpc = "verify" /\ left = {}
    /\ jpc' = IF ~mismatch /\ fmt["new"] # fmt["old"] THEN "ok" ELSE "failed"
    /\ UNCHANGED <<elsewhere, fmt, content, left, baseline, exported, mismatch>>

\* Any command fails, or the pod is evicted or too late.  No retry.
JobFail ==
    /\ JobRuns
    /\ jpc' = "failed"
    /\ UNCHANGED <<elsewhere, fmt, content, left, baseline, exported, mismatch>>

-----------------------------------------------------------------------------

Up ==
    \/ \E c \in Config : UpStart(c)
    \/ UpConverge \/ UpServer \/ (\E s \in Sweeps : UpSweep(s))
    \/ UpCreateJob \/ UpKeepJob \/ UpDeleteJob \/ UpFail

Job ==
    \/ \E g \in Graphs :
         JobBaseline(g) \/ JobExport(g) \/ JobLoad(g) \/ JobLoadFails(g) \/ JobVerify(g)
    \/ JobApply \/ JobVerdict \/ JobFail

Next ==
    \/ \E g \in Graphs, r \in Rows : ClientWrite(g, r)
    \/ ScaleDown \/ ScaleUp
    \/ \E s \in Sweeps : SweepStart(s) \/ SweepEnd(s)
    \/ Up
    \/ Job

Spec == Init /\ [][Next]_vars

-----------------------------------------------------------------------------
(* Properties *)

(* A good verdict is the evidence the cutover rests on: until an up begins    *)
(* that is not armed or deploys another image, the new root then holds, in    *)
(* the new format, the very rows of the old one, although the Job compares    *)
(* counts only and may have merged into what a failed run left behind.        *)
VerdictHonest ==
    jpc = "ok" /\ ~outdated =>
        /\ content["new"] = content["old"]
        /\ fmt["new"] = "new" /\ fmt["old"] = "old"

(* The cutover loses no row: when the Deployment moves to the new root, that  *)
(* root holds what the old one does, whatever failed, was retried or rolled   *)
(* back before.                                                               *)
CutoverKeepsEverything ==
    [][server.root = "old" /\ server'.root = "new" => content["new"] = content["old"]]_vars

(* "Held off entirely while a storage-format migration is armed": no sweep    *)
(* starts while the Job works, unless an up of another kind has begun to give *)
(* it up (a Job is deleted only after the sweeps are resumed).                *)
SweepsHeldOff ==
    [][JobRuns /\ sweeping' \ sweeping # {} => outdated]_vars
=============================================================================
