------------------------ MODULE StorageMigration_proofs ------------------------
(***************************************************************************)
(* Proofs about the storage migration, for any graphs and rows and any     *)
(* number of ups and writes: a good verdict is honest, the cutover loses   *)
(* no row, and no sweep starts under a Job that works.                     *)
(***************************************************************************)
EXTENDS StorageMigration, FiniteSetTheorems, TLAPS

Counts(root, g) == Cardinality(content[root][g])

\* A verdict that may count is to come, or has been given.
Current == jpc # "none" /\ ~outdated

\* While an up is armed, a server that runs is the one that was asked for...
ArmedServer ==
    plan.armed /\ running => server = [image |-> plan.image, root |-> plan.root]

\* ... the sweeps it has dealt with are suspended...
ArmedSweeps == plan.armed /\ "job" \in todo => Sweeps \ todo \subseteq suspended

\* ... and a Job whose verdict may count is one it asked for.
CurrentIsArmed ==
    Current => plan.armed /\ plan.image = jimage /\ Sweeps \subseteq suspended

\* The old root keeps its format, and the new one takes that of the Job.
Formats ==
    /\ fmt["old"] = "old"
    /\ jpc \in {"load", "verify", "ok"} => fmt["new"] = jimage
    /\ jpc = "ok" => jimage = "new"

\* What the Job has done for a graph holds for it: no client can write, as a
\* server of the new image does not open the old root.
Counted(g)  == baseline[g] = Counts("old", g)
Exported(g) == Counted(g) /\ exported[g] = content["old"][g]
Merged(g)   == Exported(g) /\ exported[g] \subseteq content["new"][g]
Verified(g) == ~mismatch => Counts("new", g) = baseline[g]

Evidence ==
    Current /\ jimage = "new" =>
        /\ jpc = "apply" => left = Graphs
        /\ \A g \in Graphs :
             /\ baseline[g] # -1 => Counted(g)
             /\ jpc = "export" /\ g \notin left => Exported(g)
             /\ jpc \in {"apply", "load", "verify", "ok"} => Exported(g)
             /\ jpc = "load" /\ g \notin left => Merged(g)
             /\ jpc \in {"verify", "ok"} => Merged(g)
             /\ jpc = "verify" /\ g \notin left => Verified(g)
             /\ jpc = "ok" => Verified(g) /\ ~mismatch

\* An up that serves the new root has found the two roots alike, and they
\* stay alike until the Deployment moves.
Cutover ==
    plan.root = "new" =>
        /\ ~JobRuns
        /\ server.root = "old" =>
              content["new"] = content["old"] /\ (running => server.image = "new")

IInv ==
    /\ TypeOK
    /\ ArmedServer /\ ArmedSweeps /\ CurrentIsArmed
    /\ Formats /\ Evidence /\ Cutover

-----------------------------------------------------------------------------

(* A set of rows has a number of rows, and equal numbers tell equal sets when *)
(* one contains the other.                                                    *)
LEMMA RowCounts ==
    ASSUME NEW S \in SUBSET Rows
    PROVE  /\ Cardinality(S) \in Nat
           /\ \A T \in SUBSET S : Cardinality(T) = Cardinality(S) => T = S
<1>1. IsFiniteSet(S)
  BY MigrationAssumption, FS_Subset
<1>2. Cardinality(S) \in Nat
  BY <1>1, FS_CardinalityType
<1>3. ASSUME NEW T \in SUBSET S, Cardinality(T) = Cardinality(S) PROVE T = S
  BY <1>1, <1>3, FS_Subset
<1> QED BY <1>2, <1>3

(* Nothing is armed, and no Job exists, at first.                             *)
LEMMA Initially == Init => IInv
<1> SUFFICES ASSUME Init PROVE IInv
  OBVIOUS
<1>1. TypeOK
  <2>1. fmt \in [Versions -> Versions \cup {"none"}] /\ content \in [Versions -> [Graphs -> SUBSET Rows]]
    BY DEF Init, Versions
  <2>2. /\ plan \in Config /\ ~(plan.armed /\ plan.root = "new")
        /\ server \in [image : Versions, root : Versions] /\ jimage \in Versions
    BY DEF Init, Config, Versions
  <2>3. writes \in 0..MaxWrites /\ ups \in 0..MaxUps
    BY MigrationAssumption DEF Init
  <2>4. baseline \in [Graphs -> Nat \cup {-1}] /\ exported \in [Graphs -> SUBSET Rows]
    BY DEF Init, NoCounts, NoExport
  <2> QED BY <2>1, <2>2, <2>3, <2>4 DEF Init, TypeOK
<1>2. ArmedServer /\ ArmedSweeps /\ CurrentIsArmed /\ Formats /\ Evidence /\ Cutover
  BY DEF Init, ArmedServer, ArmedSweeps, CurrentIsArmed, Current, Formats, Evidence, Cutover,
         Versions
<1> QED BY <1>1, <1>2 DEF IInv

(* Steps that change none of what the invariants but the types are about.     *)
LEMMA Frame ==
    ASSUME IInv, UNCHANGED <<fmt, content, plan, todo, server, running, suspended, job, outdated>>
    PROVE  /\ ArmedServer' /\ ArmedSweeps' /\ CurrentIsArmed'
           /\ Formats' /\ Evidence' /\ Cutover'
BY DEF IInv, ArmedServer, ArmedSweeps, CurrentIsArmed, Current, Formats, Evidence, Cutover,
       Counted, Exported, Merged, Verified, Counts, JobRuns, job

(* What a good verdict that counts is evidence of: the new root holds what    *)
(* was exported, that is all of the old one, and equal counts leave no room   *)
(* for anything else.                                                         *)
LEMMA VerdictIsGood ==
    ASSUME IInv, jpc = "ok", ~outdated
    PROVE  /\ content["new"] = content["old"]
           /\ fmt["new"] = "new" /\ fmt["old"] = "old"
<1> USE DEF IInv
<1>1. jimage = "new" /\ fmt["new"] = "new" /\ fmt["old"] = "old"
  BY DEF Formats
<1>2. ASSUME NEW g \in Graphs PROVE content["new"][g] = content["old"][g]
  <2>1. Merged(g) /\ Verified(g) /\ ~mismatch
    BY <1>1 DEF Evidence, Current
  <2>2. /\ content["old"][g] \in SUBSET content["new"][g]
        /\ Cardinality(content["old"][g]) = Cardinality(content["new"][g])
    BY <2>1 DEF Merged, Exported, Counted, Verified, Counts
  <2>3. content["new"][g] \in SUBSET Rows
    BY DEF TypeOK, Versions
  <2> QED BY <2>2, <2>3, RowCounts
<1>3. content["new"] \in [Graphs -> SUBSET Rows] /\ content["old"] \in [Graphs -> SUBSET Rows]
  BY DEF TypeOK, Versions
<1>4. content["new"] = content["old"]
  BY <1>2, <1>3
<1> QED BY <1>1, <1>4

(* The cluster and its operator.                                              *)
LEMMA ClusterStep ==
    ASSUME IInv,
           \/ \E g \in Graphs, r \in Rows : ClientWrite(g, r)
           \/ ScaleDown \/ ScaleUp
           \/ \E s \in Sweeps : SweepStart(s) \/ SweepEnd(s)
    PROVE  IInv'
<1> USE DEF IInv
<1>1. ASSUME NEW g \in Graphs, NEW r \in Rows, ClientWrite(g, r) PROVE IInv'
  <2>1. /\ running /\ fmt[server.root] = server.image /\ writes < MaxWrites
        /\ writes' = writes + 1
        /\ content' = [content EXCEPT ![server.root][g] = IF r \in @ THEN @ \ {r} ELSE @ \cup {r}]
        /\ UNCHANGED <<fmt, pulumi, server, running, suspended, sweeping, job, outdated>>
    BY <1>1 DEF ClientWrite, Serving
  <2>2. server.root \in Versions /\ server.image \in Versions
    BY DEF TypeOK
  <2>3. TypeOK'
    BY <2>1, <2>2, MigrationAssumption DEF TypeOK, pulumi, job
  <2>4. ArmedServer' /\ ArmedSweeps' /\ CurrentIsArmed' /\ Formats'
    BY <2>1 DEF ArmedServer, ArmedSweeps, CurrentIsArmed, Current, Formats, pulumi, job
  <2>5. ~(Current /\ jimage = "new")
    BY <2>1 DEF CurrentIsArmed, ArmedServer, Formats, TypeOK, Config, Versions
  <2>6. Evidence'
    BY <2>1, <2>5 DEF Evidence, Current, job
  <2>7. Cutover'
    BY <2>1, <2>2 DEF Cutover, Formats, JobRuns, Versions, pulumi, job
  <2> QED BY <2>3, <2>4, <2>6, <2>7
<1>2. CASE ScaleDown
  <2>1. running' = FALSE /\ UNCHANGED <<store, pulumi, server, suspended, sweeping, job, outdated>>
    BY <1>2 DEF ScaleDown
  <2>2. TypeOK' /\ ArmedServer' /\ ArmedSweeps' /\ CurrentIsArmed' /\ Formats' /\ Cutover'
    BY <2>1 DEF TypeOK, ArmedServer, ArmedSweeps, CurrentIsArmed, Current, Formats, Cutover,
                JobRuns, store, pulumi, job
  <2>3. Evidence'
    BY <2>1 DEF Evidence, Current, Counted, Exported, Merged, Verified, Counts, store, job
  <2> QED BY <2>2, <2>3
<1>3. CASE ScaleUp
  <2>1. /\ ~plan.armed /\ server = [image |-> plan.image, root |-> plan.root]
        /\ running' = TRUE
        /\ UNCHANGED <<store, pulumi, server, suspended, sweeping, job, outdated>>
    BY <1>3 DEF ScaleUp
  <2>2. TypeOK' /\ ArmedServer' /\ ArmedSweeps' /\ CurrentIsArmed' /\ Formats' /\ Cutover'
    BY <2>1 DEF TypeOK, ArmedServer, ArmedSweeps, CurrentIsArmed, Current, Formats, Cutover,
                JobRuns, store, pulumi, job
  <2>3. Evidence'
    BY <2>1 DEF Evidence, Current, Counted, Exported, Merged, Verified, Counts, store, job
  <2> QED BY <2>2, <2>3
<1>4. ASSUME NEW s \in Sweeps, SweepStart(s) \/ SweepEnd(s) PROVE IInv'
  <2>1. /\ sweeping' \subseteq sweeping \cup {s}
        /\ UNCHANGED <<store, pulumi, server, running, suspended, job, outdated>>
    BY <1>4 DEF SweepStart, SweepEnd
  <2>2. TypeOK'
    BY <2>1 DEF TypeOK, store, pulumi, job
  <2> QED BY <2>1, <2>2, Frame DEF store, pulumi
<1> QED BY <1>1, <1>2, <1>3, <1>4

(* The steps of an up.                                                        *)
LEMMA UpKeeps == ASSUME IInv, Up PROVE IInv'
<1> USE DEF IInv
<1>1. ASSUME NEW c \in Config, UpStart(c) PROVE IInv'
  <2>1. /\ todo = {} /\ ups < MaxUps /\ plan' = c /\ todo' = Resources /\ ups' = ups + 1
        /\ outdated' = (outdated \/ ~c.armed \/ c.image # jimage)
        /\ UNCHANGED <<store, server, running, suspended, sweeping, job>>
        /\ ~(c.armed /\ c.root = "new") /\ (c.armed => ~running)
        /\ c.root = "new" => plan.root = "new" \/ (jpc = "ok" /\ ~outdated)
    BY <1>1 DEF UpStart, Accepted, FollowsRunbook
  <2>2. TypeOK'
    BY <2>1, MigrationAssumption DEF TypeOK, store, job
  <2>3. ArmedServer' /\ ArmedSweeps' /\ Formats'
    BY <2>1 DEF ArmedServer, ArmedSweeps, Formats, Resources, store, job
  <2>4. CurrentIsArmed'
    BY <2>1 DEF CurrentIsArmed, Current, job
  <2>5. Evidence'
    BY <2>1 DEF Evidence, Current, Counted, Exported, Merged, Verified, Counts, store, job
  <2>6. Cutover'
    <3>1. CASE plan.root = "new"
      BY <2>1, <3>1 DEF Cutover, JobRuns, store, job
    <3>2. CASE c.root = "new" /\ jpc = "ok" /\ ~outdated
      <4>1. content["new"] = content["old"]
        BY <3>2, VerdictIsGood
      <4>2. running /\ server.root = "old" => server.image = "new"
        BY <3>2 DEF CurrentIsArmed, Current, ArmedServer, Formats
      <4> QED BY <2>1, <3>2, <4>1, <4>2 DEF Cutover, JobRuns, store, job
    <3> QED BY <2>1, <3>1, <3>2 DEF Cutover
  <2> QED BY <2>2, <2>3, <2>4, <2>5, <2>6
<1>2. CASE UpFail
  <2>1. todo' = {} /\ UNCHANGED <<store, plan, ups, server, running, suspended, sweeping, job, outdated>>
    BY <1>2 DEF UpFail
  <2>2. TypeOK' /\ ArmedServer' /\ ArmedSweeps' /\ CurrentIsArmed' /\ Formats' /\ Cutover'
    BY <2>1 DEF TypeOK, ArmedServer, ArmedSweeps, CurrentIsArmed, Current, Formats, Cutover,
                JobRuns, store, job
  <2>3. Evidence'
    BY <2>1 DEF Evidence, Current, Counted, Exported, Merged, Verified, Counts, store, job
  <2> QED BY <2>2, <2>3
<1>3. CASE UpConverge
  <2>1. /\ todo' = todo \ {"converge"}
        /\ UNCHANGED <<store, plan, ups, server, running, suspended, sweeping, job, outdated>>
    BY <1>3 DEF UpConverge
  <2>2. TypeOK' /\ ArmedServer' /\ ArmedSweeps' /\ CurrentIsArmed' /\ Formats' /\ Cutover'
    BY <2>1 DEF TypeOK, ArmedServer, ArmedSweeps, CurrentIsArmed, Current, Formats, Cutover,
                JobRuns, Sweeps, store, job
  <2>3. Evidence'
    BY <2>1 DEF Evidence, Current, Counted, Exported, Merged, Verified, Counts, store, job
  <2> QED BY <2>2, <2>3
<1>4. CASE UpServer
  <2>1. /\ todo' = todo \ {"server"} /\ server' = [image |-> plan.image, root |-> plan.root]
        /\ running' \in BOOLEAN
        /\ UNCHANGED <<store, plan, ups, suspended, sweeping, job, outdated>>
    BY <1>4 DEF UpServer, TypeOK
  <2>2. TypeOK'
    BY <2>1 DEF TypeOK, Config, store, job
  <2>3. ArmedServer' /\ ArmedSweeps' /\ CurrentIsArmed' /\ Formats' /\ Cutover'
    BY <2>1 DEF ArmedServer, ArmedSweeps, CurrentIsArmed, Current, Formats, Cutover,
                JobRuns, Sweeps, store, job
  <2>4. Evidence'
    BY <2>1 DEF Evidence, Current, Counted, Exported, Merged, Verified, Counts, store, job
  <2> QED BY <2>2, <2>3, <2>4
<1>5. ASSUME NEW s \in Sweeps, UpSweep(s) PROVE IInv'
  <2>1. /\ s \in todo /\ todo' = todo \ {s}
        /\ suspended' = IF plan.armed THEN suspended \cup {s} ELSE suspended \ {s}
        /\ UNCHANGED <<store, plan, ups, server, running, sweeping, job, outdated>>
    BY <1>5 DEF UpSweep
  <2>2. TypeOK'
    BY <2>1 DEF TypeOK, store, job
  <2>3. ArmedServer' /\ ArmedSweeps' /\ CurrentIsArmed' /\ Formats' /\ Cutover'
    BY <2>1 DEF ArmedServer, ArmedSweeps, CurrentIsArmed, Current, Formats, Cutover,
                JobRuns, store, job
  <2>4. Evidence'
    BY <2>1 DEF Evidence, Current, Counted, Exported, Merged, Verified, Counts, store, job
  <2> QED BY <2>2, <2>3, <2>4
<1>6. CASE UpCreateJob
  <2>1. /\ "job" \in todo /\ plan.armed /\ todo \cap Sweeps = {} /\ todo' = todo \ {"job"}
        /\ jpc' = "export" /\ jimage' = plan.image /\ left' = Graphs
        /\ baseline' = [g \in Graphs |-> -1] /\ exported' = [g \in Graphs |-> {}]
        /\ mismatch' = FALSE /\ outdated' = FALSE
        /\ UNCHANGED <<store, plan, ups, server, running, suspended, sweeping>>
    BY <1>6 DEF UpCreateJob, NoCounts, NoExport
  <2>2. TypeOK'
    BY <2>1 DEF TypeOK, Config, store
  <2>3. ArmedServer' /\ ArmedSweeps' /\ Formats'
    BY <2>1 DEF ArmedServer, ArmedSweeps, Formats, store
  <2>4. CurrentIsArmed'
    BY <2>1 DEF CurrentIsArmed, ArmedSweeps
  <2>5. Evidence'
    BY <2>1 DEF Evidence
  <2>6. Cutover'
    BY <2>1 DEF Cutover, TypeOK, Config, Versions
  <2> QED BY <2>2, <2>3, <2>4, <2>5, <2>6
<1>7. CASE UpKeepJob
  <2>1. /\ plan.armed /\ todo' = todo \ {"job"}
        /\ UNCHANGED <<store, plan, ups, server, running, suspended, sweeping, job, outdated>>
    BY <1>7 DEF UpKeepJob
  <2>2. TypeOK' /\ ArmedServer' /\ ArmedSweeps' /\ CurrentIsArmed' /\ Formats' /\ Cutover'
    BY <2>1 DEF TypeOK, ArmedServer, ArmedSweeps, CurrentIsArmed, Current, Formats, Cutover,
                JobRuns, store, job
  <2>3. Evidence'
    BY <2>1 DEF Evidence, Current, Counted, Exported, Merged, Verified, Counts, store, job
  <2> QED BY <2>2, <2>3
<1>8. CASE UpDeleteJob
  <2>1. /\ ~plan.armed /\ todo' = {} /\ jpc' = "none" /\ left' = {}
        /\ baseline' = [g \in Graphs |-> -1] /\ exported' = [g \in Graphs |-> {}] /\ mismatch' = FALSE
        /\ UNCHANGED <<store, plan, ups, server, running, suspended, sweeping, jimage, outdated>>
    BY <1>8 DEF UpDeleteJob, NoCounts, NoExport
  <2>2. TypeOK' /\ ArmedServer' /\ ArmedSweeps' /\ CurrentIsArmed' /\ Formats' /\ Evidence' /\ Cutover'
    BY <2>1 DEF TypeOK, ArmedServer, ArmedSweeps, CurrentIsArmed, Current, Formats, Evidence,
                Cutover, JobRuns, store
  <2> QED BY <2>2
<1> QED BY <1>1, <1>2, <1>3, <1>4, <1>5, <1>6, <1>7, <1>8 DEF Up

(* The steps of the Job that do not change a store.                           *)
LEMMA JobReads ==
    ASSUME IInv, NEW g \in Graphs, JobBaseline(g) \/ JobExport(g) \/ JobVerify(g)
    PROVE  IInv'
<1> USE DEF IInv
<1>1. /\ JobRuns /\ g \in left
      /\ UNCHANGED <<store, pulumi, server, running, suspended, jimage, outdated>>
      /\ sweeping' = sweeping
  BY DEF JobBaseline, JobExport, JobVerify, JobRuns, elsewhere, store
<1>2. plan.root # "new"
  BY <1>1 DEF Cutover
<1>3. \A v \in Versions : Counts(v, g) \in Nat
  BY RowCounts DEF Counts, TypeOK
<1>4. CASE JobBaseline(g)
  <2>1. /\ jpc = "export" /\ baseline[g] = -1
        /\ baseline' = [baseline EXCEPT ![g] = Counts("old", g)]
        /\ UNCHANGED <<jpc, left, exported, mismatch>>
    BY <1>4 DEF JobBaseline, SnapshotTables, Counts
  <2>2. TypeOK'
    BY <1>1, <1>3, <2>1 DEF TypeOK, Versions, store, pulumi
  <2>3. Evidence'
    BY <1>1, <2>1 DEF Evidence, Current, Counted, Exported, Merged, Verified, Counts, TypeOK, store
  <2> QED BY <1>1, <1>2, <2>1, <2>2, <2>3
          DEF ArmedServer, ArmedSweeps, CurrentIsArmed, Current, Formats, Cutover, store, pulumi
<1>5. CASE JobExport(g)
  <2>1. /\ jpc = "export" /\ baseline[g] # -1
        /\ exported' = [exported EXCEPT ![g] = content["old"][g]]
        /\ left' = IF left \ {g} = {} THEN Graphs ELSE left \ {g}
        /\ jpc' = IF left \ {g} = {} THEN "apply" ELSE jpc
        /\ UNCHANGED <<baseline, mismatch>>
    BY <1>5 DEF JobExport, NextPhase
  <2>2. TypeOK'
    BY <1>1, <2>1 DEF TypeOK, Versions, store, pulumi
  <2>3. Evidence'
    BY <1>1, <2>1 DEF Evidence, Current, Counted, Exported, Merged, Verified, Counts, TypeOK, store
  <2> QED BY <1>1, <1>2, <2>1, <2>2, <2>3
          DEF ArmedServer, ArmedSweeps, CurrentIsArmed, Current, Formats, Cutover, store, pulumi
<1>6. CASE JobVerify(g)
  <2>1. /\ jpc = "verify" /\ left' = left \ {g}
        /\ mismatch' = (mismatch \/ Counts("new", g) # baseline[g])
        /\ UNCHANGED <<jpc, baseline, exported>>
    BY <1>6 DEF JobVerify, SnapshotTables, Counts
  <2>2. TypeOK'
    BY <1>1, <2>1 DEF TypeOK, store, pulumi
  <2>3. Evidence'
    BY <1>1, <2>1 DEF Evidence, Current, Counted, Exported, Merged, Verified, Counts, TypeOK, store
  <2> QED BY <1>1, <1>2, <2>1, <2>2, <2>3
          DEF ArmedServer, ArmedSweeps, CurrentIsArmed, Current, Formats, Cutover, store, pulumi
<1> QED BY <1>4, <1>5, <1>6

(* The steps of the Job that write the new root.                              *)
LEMMA JobWrites ==
    ASSUME IInv,
           JobApply \/ \E g \in Graphs : JobLoad(g) \/ JobLoadFails(g)
    PROVE  IInv'
<1> USE DEF IInv
<1>1. /\ JobRuns
      /\ UNCHANGED <<writes, pulumi, server, running, suspended, sweeping, jimage, outdated>>
      /\ UNCHANGED <<baseline, exported, mismatch>>
  BY DEF JobApply, JobLoad, JobLoadFails, JobRuns, elsewhere
<1>2. plan.root # "new"
  BY <1>1 DEF Cutover
<1>3. CASE JobApply
  <2>1. /\ jpc = "apply" /\ jpc' = "load" /\ fmt' = [fmt EXCEPT !["new"] = jimage]
        /\ UNCHANGED <<content, left>>
    BY <1>3 DEF JobApply
  <2>2. TypeOK'
    BY <1>1, <2>1 DEF TypeOK, pulumi
  <2>3. Formats'
    BY <1>1, <2>1 DEF Formats, TypeOK, Versions
  <2>4. Evidence'
    BY <1>1, <2>1 DEF Evidence, Current, Counted, Exported, Merged, Verified, Counts
  <2> QED BY <1>1, <1>2, <2>1, <2>2, <2>3, <2>4
          DEF ArmedServer, ArmedSweeps, CurrentIsArmed, Current, Cutover, pulumi
<1>4. ASSUME NEW g \in Graphs, NEW rows \in SUBSET exported[g], jpc = "load", g \in left,
             content' = Loaded(g, rows), UNCHANGED fmt
      PROVE  /\ content' \in [Versions -> [Graphs -> SUBSET Rows]]
             /\ content'["old"] = content["old"]
             /\ content'["new"][g] = content["new"][g] \cup rows
             /\ \A h \in Graphs : h # g => content'["new"][h] = content["new"][h]
  BY <1>4 DEF Loaded, TypeOK, Versions
<1>5. ASSUME NEW g \in Graphs, JobLoad(g) PROVE IInv'
  <2>1. /\ jpc = "load" /\ g \in left /\ content' = Loaded(g, exported[g]) /\ UNCHANGED fmt
        /\ left' = IF left \ {g} = {} THEN Graphs ELSE left \ {g}
        /\ jpc' = IF left \ {g} = {} THEN "verify" ELSE jpc
    BY <1>5 DEF JobLoad, NextPhase
  <2>2. /\ content' \in [Versions -> [Graphs -> SUBSET Rows]]
        /\ content'["old"] = content["old"]
        /\ content'["new"][g] = content["new"][g] \cup exported[g]
        /\ \A h \in Graphs : h # g => content'["new"][h] = content["new"][h]
    BY <1>4, <2>1
  <2>3. TypeOK'
    BY <1>1, <2>1, <2>2 DEF TypeOK, pulumi
  <2>4. Evidence'
    BY <1>1, <2>1, <2>2 DEF Evidence, Current, Counted, Exported, Merged, Verified, Counts, TypeOK
  <2> QED BY <1>1, <1>2, <2>1, <2>3, <2>4
          DEF ArmedServer, ArmedSweeps, CurrentIsArmed, Current, Formats, Cutover, pulumi
<1>6. ASSUME NEW g \in Graphs, JobLoadFails(g) PROVE IInv'
  <2>1. PICK rows \in SUBSET exported[g] : content' = Loaded(g, rows)
    BY <1>6 DEF JobLoadFails
  <2>2. jpc = "load" /\ g \in left /\ jpc' = "failed" /\ UNCHANGED <<fmt, left>>
    BY <1>6 DEF JobLoadFails
  <2>3. /\ content' \in [Versions -> [Graphs -> SUBSET Rows]]
        /\ content'["old"] = content["old"]
    BY <1>4, <2>1, <2>2
  <2>4. TypeOK'
    BY <1>1, <2>2, <2>3 DEF TypeOK, pulumi
  <2>5. Evidence'
    BY <1>1, <2>2, <2>3 DEF Evidence, Current, Counted, Counts
  <2> QED BY <1>1, <1>2, <2>2, <2>4, <2>5
          DEF ArmedServer, ArmedSweeps, CurrentIsArmed, Current, Formats, Cutover, pulumi
<1> QED BY <1>3, <1>5, <1>6

(* The ends of the Job.                                                       *)
LEMMA JobEnds == ASSUME IInv, JobVerdict \/ JobFail PROVE IInv'
<1> USE DEF IInv
<1>1. /\ JobRuns
      /\ UNCHANGED <<store, pulumi, server, running, suspended, sweeping, jimage, outdated>>
      /\ UNCHANGED <<left, baseline, exported, mismatch>>
      /\ jpc' \in {"ok", "failed"}
      /\ jpc' = "ok" => jpc = "verify" /\ left = {} /\ ~mismatch /\ fmt["new"] # fmt["old"]
  BY DEF JobVerdict, JobFail, JobRuns, elsewhere, store
<1>2. plan.root # "new"
  BY <1>1 DEF Cutover
<1>3. TypeOK'
  BY <1>1 DEF TypeOK, store, pulumi
<1>4. Formats'
  BY <1>1 DEF Formats, TypeOK, Versions, store
<1>5. Evidence'
  BY <1>1 DEF Evidence, Current, Counted, Exported, Merged, Verified, Counts, JobRuns, store
<1> QED BY <1>1, <1>2, <1>3, <1>4, <1>5
        DEF ArmedServer, ArmedSweeps, CurrentIsArmed, Current, Cutover, JobRuns, pulumi

LEMMA Inductive == IInv /\ [Next]_vars => IInv'
<1> SUFFICES ASSUME IInv, [Next]_vars PROVE IInv'
  OBVIOUS
<1>1. CASE UNCHANGED vars
  <2>1. TypeOK'
    BY <1>1 DEF IInv, TypeOK, vars, store, pulumi, job
  <2> QED BY <1>1, <2>1, Frame DEF IInv, vars, store, pulumi
<1> QED BY <1>1, ClusterStep, UpKeeps, JobReads, JobWrites, JobEnds DEF Next, Job

LEMMA Invariant == Spec => []IInv
BY Initially, Inductive, PTL DEF Spec

-----------------------------------------------------------------------------

(* Every reachable state is typed, and the root that is served is never the   *)
(* one a migration is armed to rebuild.                                       *)
THEOREM TypeCorrect == Spec => []TypeOK
<1>1. IInv => TypeOK
  BY DEF IInv
<1> QED BY <1>1, Invariant, PTL

(* A verdict given on counts alone is honest: whatever failed, died and was   *)
(* retried before, the two roots hold the same rows.                          *)
THEOREM VerdictIsHonest == Spec => []VerdictHonest
<1>1. IInv => VerdictHonest
  BY VerdictIsGood DEF VerdictHonest
<1> QED BY <1>1, Invariant, PTL

(* Moving the Deployment to the new root loses no row of the old one.         *)
THEOREM CutoverLosesNothing == Spec => CutoverKeepsEverything
<1> DEFINE Kept == server.root = "old" /\ server'.root = "new" => content["new"] = content["old"]
<1>1. IInv /\ [Next]_vars => Kept
  <2> SUFFICES ASSUME IInv, [Next]_vars, server.root = "old", server'.root = "new"
               PROVE  content["new"] = content["old"]
    OBVIOUS
  <2>1. UpServer
    BY DEF Next, Up, Job, ClientWrite, ScaleDown, ScaleUp, SweepStart, SweepEnd, UpStart, UpFail,
           UpConverge, UpSweep, UpCreateJob, UpKeepJob, UpDeleteJob, JobBaseline, JobExport,
           JobLoad, JobLoadFails, JobVerify, JobApply, JobVerdict, JobFail, elsewhere, vars
  <2>2. plan.root = "new"
    BY <2>1 DEF UpServer
  <2> QED BY <2>2 DEF IInv, Cutover
<1>2. Spec => [][Kept]_vars
  BY <1>1, Invariant, PTL DEF Spec
<1> QED BY <1>2 DEF CutoverKeepsEverything

(* No sweep starts while a Job works whose verdict counts.                    *)
THEOREM SweepsAreHeldOff == Spec => SweepsHeldOff
<1> DEFINE HeldOff == JobRuns /\ sweeping' \ sweeping # {} => outdated
<1>1. IInv /\ [Next]_vars => HeldOff
  <2> SUFFICES ASSUME IInv, [Next]_vars, JobRuns, sweeping' \ sweeping # {}
               PROVE  outdated
    OBVIOUS
  <2>1. PICK s \in Sweeps : s \notin suspended
    BY DEF Next, Up, Job, ClientWrite, ScaleDown, ScaleUp, SweepStart, SweepEnd, UpStart, UpFail,
           UpConverge, UpServer, UpSweep, UpCreateJob, UpKeepJob, UpDeleteJob, JobBaseline,
           JobExport, JobLoad, JobLoadFails, JobVerify, JobApply, JobVerdict, JobFail, elsewhere, vars
  <2> QED BY <2>1 DEF IInv, CurrentIsArmed, Current, JobRuns, TypeOK
<1>2. Spec => [][HeldOff]_vars
  BY <1>1, Invariant, PTL DEF Spec
<1> QED BY <1>2 DEF SweepsHeldOff

=============================================================================
