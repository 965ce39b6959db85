--------------------------- MODULE LifecycleProofs ---------------------------
(***************************************************************************)
(* Proofs about Lifecycle, for any number of processes and of migrations.  *)
(***************************************************************************)
EXTENDS Lifecycle, TLAPS

USE LifecycleAssumption

\* Where a process holds the advisory lock.
Locked == {"versionTable", "locked", "marked", "executed"}

(***************************************************************************)
(* A file is run between two records of its version, so what is in effect  *)
(* can be told from the version, except where a process died in between:   *)
(* there the schema stays dirty.                                           *)
(***************************************************************************)
FileByFile ==
    \A p \in Processes :
        /\ pc[p] = "marked" => dirty /\ version > 0 /\ applied = 1 .. version - 1
        /\ pc[p] = "executed" => dirty /\ applied = 1 .. version

LifecycleInv ==
    /\ TypeOK
    /\ LockOnlyWhileMigrating
    /\ CleanMeansApplied
    /\ FileByFile
    /\ ReadyForWork

LEMMA LifecycleInit == Init => LifecycleInv
  <1> SUFFICES ASSUME Init PROVE LifecycleInv
    OBVIOUS
  <1>1. \A p \in Processes : pc[p] = "stopped" /\ mode[p] = "server"
    BY DEF Init
  <1>2. version = 0 /\ dirty = FALSE /\ applied = {} /\ lock = Nobody /\ bucket = FALSE
    BY DEF Init
  <1>3. TypeOK
    <2>1. 0 \in 0 .. Latest
      OBVIOUS
    <2> QED BY <2>1 DEF Init, TypeOK, Ended, Modes
  <1>4. CleanMeansApplied
    BY <1>2 DEF CleanMeansApplied
  <1> QED BY <1>1, <1>2, <1>3, <1>4 DEF LifecycleInv, LockOnlyWhileMigrating, FileByFile,
                                        ReadyForWork, AtWork

LEMMA LifecycleType ==
  ASSUME LifecycleInv, [Next]_vars
  PROVE  TypeOK'
  <1> USE DEF LifecycleInv, TypeOK, Goto, schema, Startup, AtWork, Ended, Modes
  <1>1. ASSUME NEW p \in Processes, NEW m \in Modes, Start(p, m) PROVE TypeOK'
    BY <1>1 DEF Start
  <1>2. ASSUME NEW p \in Processes, OpenDB(p) \/ BucketExists(p) \/ MakeBucket(p) PROVE TypeOK'
    BY <1>2 DEF OpenDB, BucketExists, MakeBucket, Work
  <1>3. ASSUME NEW p \in Processes, LockForTable(p) \/ VersionTable(p) \/ TakeLock(p) \/ LockTimeout(p)
        PROVE  TypeOK'
    BY <1>3 DEF LockForTable, VersionTable, TakeLock, LockTimeout
  <1>4. ASSUME NEW p \in Processes, RefuseDirty(p) \/ MarkClean(p) \/ Migrated(p) PROVE TypeOK'
    BY <1>4 DEF RefuseDirty, MarkClean, Migrated
  <1>5. ASSUME NEW p \in Processes, MarkDirty(p) PROVE TypeOK'
    <2>1. version + 1 \in 0 .. Latest
      BY <1>5 DEF MarkDirty
    <2> QED BY <1>5, <2>1 DEF MarkDirty
  <1>6. ASSUME NEW p \in Processes, Execute(p) PROVE TypeOK'
    <2>1. version \in 1 .. Latest
      BY <1>6 DEF Execute, FileByFile
    <2> QED BY <1>6, <2>1 DEF Execute
  <1>7. ASSUME NEW p \in Processes, SweepEnds(p) \/ Shutdown(p) \/ Die(p) PROVE TypeOK'
    BY <1>7 DEF SweepEnds, Shutdown, Die
  <1>8. CASE UNCHANGED vars
    BY <1>8 DEF vars
  <1> QED BY <1>1, <1>2, <1>3, <1>4, <1>5, <1>6, <1>7, <1>8 DEF Next, Starts, Up

\* A step moves one process.
LEMMA OneMoves ==
  ASSUME TypeOK, NEW p \in Processes, NEW l, Goto(p, l)
  PROVE  pc'[p] = l /\ \A q \in Processes \ {p} : pc'[q] = pc[q]
  BY DEF TypeOK, Goto

LEMMA LockStep ==
  ASSUME LifecycleInv, [Next]_vars
  PROVE  LockOnlyWhileMigrating'
  <1> USE DEF LifecycleInv, LockOnlyWhileMigrating, schema, Startup, AtWork, Ended
  <1>1. ASSUME NEW p \in Processes, NEW m \in Modes, Start(p, m) PROVE LockOnlyWhileMigrating'
    BY <1>1, OneMoves DEF Start
  <1>2. ASSUME NEW p \in Processes, OpenDB(p) \/ BucketExists(p) \/ MakeBucket(p)
        PROVE  LockOnlyWhileMigrating'
    BY <1>2, OneMoves DEF OpenDB, BucketExists, MakeBucket, Work
  <1>3. ASSUME NEW p \in Processes, LockForTable(p) \/ TakeLock(p) PROVE LockOnlyWhileMigrating'
    BY <1>3, OneMoves DEF LockForTable, TakeLock
  <1>4. ASSUME NEW p \in Processes, VersionTable(p) \/ RefuseDirty(p) \/ Migrated(p)
        PROVE  LockOnlyWhileMigrating'
    BY <1>4, OneMoves DEF VersionTable, RefuseDirty, Migrated
  <1>5. ASSUME NEW p \in Processes, LockTimeout(p) \/ MarkDirty(p) \/ Execute(p) \/ MarkClean(p)
        PROVE  LockOnlyWhileMigrating'
    BY <1>5, OneMoves DEF LockTimeout, MarkDirty, Execute, MarkClean
  <1>6. ASSUME NEW p \in Processes, SweepEnds(p) \/ Shutdown(p) \/ Die(p)
        PROVE  LockOnlyWhileMigrating'
    BY <1>6, OneMoves DEF SweepEnds, Shutdown, Die
  <1>7. CASE UNCHANGED vars
    BY <1>7 DEF vars
  <1> QED BY <1>1, <1>2, <1>3, <1>4, <1>5, <1>6, <1>7 DEF Next, Starts, Up

\* Only the one process that migrates changes the schema; the others find it
\* as they left it.
LEMMA SchemaStep ==
  ASSUME LifecycleInv, [Next]_vars
  PROVE  CleanMeansApplied' /\ FileByFile' /\ ReadyForWork'
  <1> DEFINE Goal == CleanMeansApplied' /\ FileByFile' /\ ReadyForWork'
  <1> SUFFICES Goal
    OBVIOUS
  <1> USE DEF LifecycleInv, CleanMeansApplied, FileByFile, ReadyForWork, Startup, AtWork, Ended
  \* Any step that leaves the schema alone and starts nobody on the data.
  <1>1. ASSUME NEW p \in Processes, NEW l, Goto(p, l), UNCHANGED schema, bucket => bucket',
               l \notin {"marked", "executed", "noBucket", "bucket"} \cup AtWork
        PROVE  Goal
    BY <1>1, OneMoves DEF schema
  <1>2. ASSUME NEW p \in Processes, NEW m \in Modes, Start(p, m) PROVE Goal
    BY <1>1, <1>2 DEF Start
  <1>3. ASSUME NEW p \in Processes, OpenDB(p) \/ LockForTable(p) \/ VersionTable(p) PROVE Goal
    BY <1>1, <1>3 DEF OpenDB, LockForTable, VersionTable
  <1>4. ASSUME NEW p \in Processes, TakeLock(p) \/ LockTimeout(p) \/ RefuseDirty(p) PROVE Goal
    BY <1>1, <1>4 DEF TakeLock, LockTimeout, RefuseDirty
  <1>5. ASSUME NEW p \in Processes, SweepEnds(p) \/ Die(p) PROVE Goal
    BY <1>1, <1>5 DEF SweepEnds, Die
  <1>6. ASSUME NEW p \in Processes, Shutdown(p) PROVE Goal
    <2>1. /\ pc[p] \in AtWork /\ pc'[p] \in {"draining", "stopped"}
          /\ UNCHANGED <<schema, bucket>>
          /\ \A q \in Processes \ {p} : pc'[q] = pc[q]
      BY <1>6, OneMoves DEF Shutdown
    <2> QED BY <2>1 DEF schema
  <1>7. ASSUME NEW p \in Processes, BucketExists(p) \/ MakeBucket(p) PROVE Goal
    <2>1. /\ pc[p] \in {"bucket", "noBucket"}
          /\ pc'[p] \in {"serving", "sweeping", "noBucket", "failed"}
          /\ pc'[p] \in {"serving", "sweeping"} => bucket'
          /\ UNCHANGED schema /\ (bucket => bucket')
          /\ \A q \in Processes \ {p} : pc'[q] = pc[q]
      <3>1. CASE BucketExists(p)
        BY <3>1, OneMoves DEF BucketExists, Work
      <3>2. CASE MakeBucket(p)
        BY <3>2, OneMoves DEF MakeBucket, Work
      <3> QED BY <1>7, <3>1, <3>2
    <2> QED BY <2>1 DEF schema
  <1>8. ASSUME NEW p \in Processes, Migrated(p) PROVE Goal
    <2>1. /\ pc'[p] \in {"stopped", "bucket"}
          /\ version = Latest /\ ~dirty
          /\ UNCHANGED <<schema, bucket>>
          /\ \A q \in Processes \ {p} : pc'[q] = pc[q]
      BY <1>8, OneMoves DEF Migrated, Refuses
    <2> QED BY <2>1 DEF schema
  \* The lock keeps the others out of the steps that change the schema.
  <1>9. ASSUME NEW p \in Processes, lock = p, NEW q \in Processes \ {p}
        PROVE  pc[q] \notin Locked
    BY <1>9 DEF LockOnlyWhileMigrating, Locked
  <1>10. ASSUME NEW p \in Processes, MarkDirty(p) PROVE Goal
    <2>1. /\ version' = version + 1 /\ version < Latest /\ dirty' /\ ~dirty
          /\ UNCHANGED <<applied, bucket>>
          /\ pc'[p] = "marked" /\ lock = p
          /\ \A q \in Processes \ {p} : pc'[q] = pc[q] /\ pc[q] \notin Locked
      BY <1>9, <1>10, OneMoves DEF MarkDirty, Refuses, LockOnlyWhileMigrating
    <2>2. version \in Nat /\ applied = 1 .. (version + 1) - 1
      BY <2>1 DEF TypeOK
    <2>3. \A q \in Processes : pc[q] \notin AtWork \cup {"bucket", "noBucket"}
      BY <2>1, <2>2
    <2> QED BY <2>1, <2>2, <2>3 DEF Locked
  <1>11. ASSUME NEW p \in Processes, Execute(p) PROVE Goal
    <2>1. /\ UNCHANGED <<version, dirty, bucket>> /\ applied' = applied \cup {version}
          /\ dirty /\ version > 0 /\ applied = 1 .. version - 1
          /\ pc'[p] = "executed" /\ lock = p
          /\ \A q \in Processes \ {p} : pc'[q] = pc[q] /\ pc[q] \notin Locked
      BY <1>9, <1>11, OneMoves DEF Execute, LockOnlyWhileMigrating
    <2>2. applied' = 1 .. version
      BY <2>1 DEF TypeOK
    <2> QED BY <2>1, <2>2 DEF Locked
  <1>12. ASSUME NEW p \in Processes, MarkClean(p) PROVE Goal
    <2>1. /\ UNCHANGED <<version, applied, bucket>> /\ ~dirty' /\ dirty
          /\ applied = 1 .. version
          /\ pc'[p] = "locked" /\ lock = p
          /\ \A q \in Processes \ {p} : pc'[q] = pc[q] /\ pc[q] \notin Locked
      BY <1>9, <1>12, OneMoves DEF MarkClean, LockOnlyWhileMigrating
    <2> QED BY <2>1 DEF Locked
  <1>13. CASE UNCHANGED vars
    BY <1>13 DEF vars
  <1> HIDE DEF Goal
  <1> QED
    BY <1>2, <1>3, <1>4, <1>5, <1>6, <1>7, <1>8, <1>10, <1>11, <1>12, <1>13 DEF Next, Starts, Up

LEMMA LifecycleAlways == Spec => []LifecycleInv
  <1>1. LifecycleInv /\ [Next]_vars => LifecycleInv'
    BY LifecycleType, LockStep, SchemaStep DEF LifecycleInv
  <1> QED BY <1>1, LifecycleInit, PTL DEF Spec

-----------------------------------------------------------------------------
\* Every variable of the processes and of the schema keeps its type.
THEOREM LifecycleTypeCorrect == Spec => []TypeOK
  <1>1. LifecycleInv => TypeOK
    BY DEF LifecycleInv
  <1> QED BY <1>1, LifecycleAlways, PTL

\* The migrator's session holds the advisory lock exactly while it works on
\* the version table or on a file, however many processes start and die: none
\* that serves or sweeps keeps it, and no two change the schema at once.
THEOREM LockIsGivenBack == Spec => []LockOnlyWhileMigrating
  <1>1. LifecycleInv => LockOnlyWhileMigrating
    BY DEF LifecycleInv
  <1> QED BY <1>1, LifecycleAlways, PTL

\* A process that serves requests or sweeps does so on a fully migrated, clean
\* schema and an existing bucket, and goes on doing so while others start.
THEOREM WorkIsReady == Spec => []ReadyForWork
  <1>1. LifecycleInv => ReadyForWork
    BY DEF LifecycleInv
  <1> QED BY <1>1, LifecycleAlways, PTL

\* A version recorded as clean names exactly the migrations in effect, so that
\* Up may be called again after any crash.
THEOREM CleanVersionsAreApplied == Spec => []CleanMeansApplied
  <1>1. LifecycleInv => CleanMeansApplied
    BY DEF LifecycleInv
  <1> QED BY <1>1, LifecycleAlways, PTL

-----------------------------------------------------------------------------
(***************************************************************************)
(* Each step is one of Deployment, or none.                                *)
(***************************************************************************)
DeploymentStep == [Deployed!DeploymentNext]_(Deployed!deploymentVars)

Working == {p \in Processes : pc[p] \in AtWork}

\* A step of a process that is not at a file and does not come to work.
LEMMA StepAside ==
  ASSUME LifecycleInv, NEW p \in Processes, NEW l, Goto(p, l),
         UNCHANGED <<schema, bucket>>,
         pc[p] \notin {"marked", "executed"}, l \notin {"marked", "executed"},
         l \in AtWork => pc[p] \in AtWork
  PROVE  DeploymentStep
  <1>1. /\ dirty' = dirty /\ applied' = applied /\ bucket' = bucket
        /\ pc'[p] = l /\ \A q \in Processes \ {p} : pc'[q] = pc[q]
    BY OneMoves DEF schema, LifecycleInv
  <1>2. Stranded' = Stranded
    BY <1>1 DEF Stranded
  <1>3. CASE pc[p] \in AtWork /\ l \notin AtWork
    <2>1. p \in Working /\ Working' = Working \ {p}
      BY <1>1, <1>3 DEF Working
    <2>2. Deployed!End(p)
      BY <1>1, <1>2, <2>1 DEF Deployed!End, Working
    <2> QED BY <2>2 DEF DeploymentStep, Deployed!DeploymentNext
  <1>4. CASE ~(pc[p] \in AtWork /\ l \notin AtWork)
    <2>1. Working' = Working
      BY <1>1, <1>4 DEF Working
    <2> QED BY <1>1, <1>2, <2>1 DEF DeploymentStep, Deployed!deploymentVars, Working
  <1> QED BY <1>3, <1>4

\* The one process at a file has the lock, and nobody works then.
LEMMA AtAFile ==
  ASSUME LifecycleInv, NEW p \in Processes, pc[p] \in {"marked", "executed"}
  PROVE  /\ dirty /\ ~Stranded /\ Working = {}
         /\ \A q \in Processes \ {p} : pc[q] \notin {"marked", "executed"}
  <1>1. dirty
    BY DEF LifecycleInv, FileByFile
  <1>2. \A q \in Processes : pc[q] \notin AtWork
    BY <1>1 DEF LifecycleInv, ReadyForWork
  <1>3. lock = p /\ \A q \in Processes : pc[q] \in {"marked", "executed"} => lock = q
    BY DEF LifecycleInv, LockOnlyWhileMigrating
  <1> QED BY <1>1, <1>2, <1>3 DEF Stranded, Working

LEMMA DeploymentSteps ==
  ASSUME LifecycleInv, [Next]_vars
  PROVE  DeploymentStep
  <1>0. TypeOK
    BY DEF LifecycleInv
  <1>1. ASSUME NEW p \in Processes, NEW m \in Modes, Start(p, m) PROVE DeploymentStep
    BY <1>1, StepAside DEF Start, Ended, AtWork
  <1>2. ASSUME NEW p \in Processes, OpenDB(p) \/ LockForTable(p) \/ VersionTable(p)
        PROVE  DeploymentStep
    BY <1>2, StepAside DEF OpenDB, LockForTable, VersionTable, AtWork
  <1>3. ASSUME NEW p \in Processes, TakeLock(p) \/ LockTimeout(p) \/ RefuseDirty(p)
        PROVE  DeploymentStep
    BY <1>3, StepAside DEF TakeLock, LockTimeout, RefuseDirty, AtWork
  <1>4. ASSUME NEW p \in Processes, Migrated(p) PROVE DeploymentStep
    BY <1>4, StepAside DEF Migrated, AtWork
  <1>5. ASSUME NEW p \in Processes, SweepEnds(p) \/ Shutdown(p) PROVE DeploymentStep
    BY <1>5, StepAside DEF SweepEnds, Shutdown, AtWork
  <1>6. ASSUME NEW p \in Processes, MarkDirty(p) PROVE DeploymentStep
    <2>1. /\ ~dirty /\ pc'[p] = "marked" /\ applied' = applied /\ bucket' = bucket
          /\ pc[p] \notin AtWork /\ \A q \in Processes \ {p} : pc'[q] = pc[q]
      BY <1>0, <1>6, OneMoves DEF MarkDirty, Refuses, AtWork
    <2>2. ~Stranded /\ ~Stranded' /\ Working' = Working
      BY <2>1 DEF Stranded, Working, AtWork
    <2>3. Stranded' = Stranded
      BY <2>2 DEF Stranded
    <2> QED BY <2>1, <2>2, <2>3 DEF DeploymentStep, Deployed!deploymentVars, Working
  <1>7. ASSUME NEW p \in Processes, Execute(p) PROVE DeploymentStep
    <2>1. /\ pc[p] = "marked" /\ applied' = applied \cup {version} /\ bucket' = bucket
          /\ pc'[p] = "executed" /\ \A q \in Processes \ {p} : pc'[q] = pc[q]
      BY <1>0, <1>7, OneMoves DEF Execute
    <2>2. version \in 1 .. Latest /\ applied = 1 .. version - 1
      BY <2>1 DEF LifecycleInv, FileByFile, TypeOK
    <2>3. applied' = 1 .. version
      BY <2>1, <2>2
    <2>4. ~Stranded /\ ~Stranded' /\ Working = {} /\ Working' = {}
      BY <2>1, AtAFile DEF Stranded, Working, AtWork
    <2>5. Stranded' = Stranded
      BY <2>4 DEF Stranded
    <2>6. Deployed!Apply
      BY <2>1, <2>2, <2>3, <2>4, <2>5 DEF Deployed!Apply, Working
    <2> QED BY <2>6 DEF DeploymentStep, Deployed!DeploymentNext
  <1>8. ASSUME NEW p \in Processes, MarkClean(p) PROVE DeploymentStep
    <2>1. /\ pc[p] = "executed" /\ ~dirty' /\ applied' = applied /\ bucket' = bucket
          /\ pc'[p] = "locked" /\ \A q \in Processes \ {p} : pc'[q] = pc[q]
      BY <1>0, <1>8, OneMoves DEF MarkClean
    <2>2. ~Stranded /\ ~Stranded' /\ Working' = Working
      BY <2>1, AtAFile DEF Stranded, Working, AtWork
    <2>3. Stranded' = Stranded
      BY <2>2 DEF Stranded
    <2> QED BY <2>1, <2>2, <2>3 DEF DeploymentStep, Deployed!deploymentVars, Working
  <1>9. ASSUME NEW p \in Processes, NEW l, Goto(p, l), l \in AtWork,
               pc[p] \in {"bucket", "noBucket"}, UNCHANGED schema, bucket'
        PROVE  DeploymentStep
    <2>1. /\ ~dirty /\ dirty' = dirty /\ applied = 1 .. Latest /\ applied' = applied
          /\ pc'[p] = l /\ \A q \in Processes \ {p} : pc'[q] = pc[q]
      BY <1>0, <1>9, OneMoves DEF schema, LifecycleInv, ReadyForWork
    <2>2. ~Stranded /\ ~Stranded'
      BY <2>1 DEF Stranded
    <2>3. Stranded' = Stranded
      BY <2>2 DEF Stranded
    <2>4. p \notin Working /\ Working' = Working \cup {p}
      BY <1>9, <2>1 DEF Working, AtWork
    <2>5. bucket' = TRUE
      BY <1>9
    <2>6. Deployed!Begin(p)
      BY <2>1, <2>2, <2>3, <2>4, <2>5 DEF Deployed!Begin, Working
    <2> QED BY <2>6 DEF DeploymentStep, Deployed!DeploymentNext
  <1>10. ASSUME NEW p \in Processes, BucketExists(p) PROVE DeploymentStep
    <2>1. CASE bucket
      BY <1>9, <1>10, <2>1 DEF BucketExists, Work, AtWork
    <2>2. CASE ~bucket
      BY <1>10, <2>2, StepAside DEF BucketExists, AtWork
    <2> QED BY <2>1, <2>2
  <1>11. ASSUME NEW p \in Processes, MakeBucket(p) PROVE DeploymentStep
    <2>1. CASE bucket
      BY <1>0, <1>11, <2>1, StepAside DEF MakeBucket, AtWork, TypeOK
    <2>2. CASE ~bucket
      BY <1>9, <1>11, <2>2 DEF MakeBucket, Work, AtWork
    <2> QED BY <2>1, <2>2
  <1>12. ASSUME NEW p \in Processes, Die(p) PROVE DeploymentStep
    <2>1. CASE pc[p] \notin {"marked", "executed"}
      BY <1>12, <2>1, StepAside DEF Die, AtWork
    <2>2. CASE pc[p] \in {"marked", "executed"}
      <3>1. /\ dirty' = dirty /\ applied' = applied /\ bucket' = bucket
            /\ pc'[p] = "failed" /\ \A q \in Processes \ {p} : pc'[q] = pc[q]
        BY <1>0, <1>12, OneMoves DEF Die, schema
      <3>2. ~Stranded /\ Stranded' /\ Working = {} /\ Working' = {}
        BY <2>2, <3>1, AtAFile DEF Stranded, Working, AtWork
      <3>3. Stranded' = TRUE
        BY <3>2 DEF Stranded
      <3>4. Deployed!Strand
        BY <3>1, <3>2, <3>3 DEF Deployed!Strand, Working
      <3> QED BY <3>4 DEF DeploymentStep, Deployed!DeploymentNext
    <2> QED BY <2>1, <2>2
  <1>13. CASE UNCHANGED vars
    <2>1. /\ dirty' = dirty /\ applied' = applied /\ bucket' = bucket /\ pc' = pc
      BY <1>13 DEF vars, schema
    <2>2. Stranded' = Stranded
      BY <2>1 DEF Stranded
    <2> QED BY <2>1, <2>2 DEF DeploymentStep, Deployed!deploymentVars
  <1> QED BY <1>1, <1>2, <1>3, <1>4, <1>5, <1>6, <1>7, <1>8, <1>10, <1>11, <1>12, <1>13
          DEF Next, Starts, Up

\* However many processes start, race for the lock and die at any point
\* (migrations.Up, run in cmd/server/main.go): the migrations are run once each,
\* in order, before anybody serves or sweeps, and none after one was cut short.
THEOREM LifecycleImplementsDeployment == Spec => ImplementsDeployment
  <1>1. Init => Deployed!DeploymentInit
    <2> SUFFICES ASSUME Init
                 PROVE  Deployed!DeploymentInit
      OBVIOUS
    <2>1. applied = {} /\ bucket = FALSE /\ ~Stranded /\ Working = {}
      BY DEF Init, Stranded, Working, AtWork
    <2>2. Stranded = FALSE
      BY <2>1 DEF Stranded
    <2> QED BY <2>1, <2>2 DEF Deployed!DeploymentInit, Working
  <1>2. LifecycleInv /\ [Next]_vars => [Deployed!DeploymentNext]_(Deployed!deploymentVars)
    BY DeploymentSteps DEF DeploymentStep
  <1> QED BY <1>1, <1>2, LifecycleAlways, PTL
          DEF Spec, ImplementsDeployment, Deployed!DeploymentSpec

=============================================================================
