------------------------------ MODULE Lifecycle ------------------------------
(***************************************************************************)
(* The life of the processes cmd/server starts (run, openDB, ensureBucket, *)
(* serve; migrations.Up): servers, -gc sweeps and -migrate-only runs, all  *)
(* on one database and one bucket, started and killed at any time.  Every  *)
(* one of them migrates the schema before anything else.                   *)
(*                                                                         *)
(* golang-migrate, behind migrations.Up, is external.  Its driver, when    *)
(* newMigrator opens it, takes Postgres's advisory lock to create its      *)
(* version table, and waits for it without limit.  Its Up takes the lock   *)
(* again or gives up after a timeout, refuses a dirty schema, and for each *)
(* pending file records its version as dirty, runs the file in one         *)
(* transaction and records the version as clean.  The lock belongs to the  *)
(* session and goes with it.                                               *)
(***************************************************************************)
EXTENDS Naturals

CONSTANTS
    Processes,
    Latest,     \* the number of migrations the binary carries
    Nobody      \* nobody holds the advisory lock

ASSUME LifecycleAssumption == Latest \in Nat /\ Nobody \notin Processes

VARIABLES
    pc,         \* where each process stands
    mode,       \* how it was started
    version,    \* schema_migrations.version, 0 before the first
    dirty,      \* schema_migrations.dirty
    applied,    \* the migrations whose SQL is in effect
    lock,       \* the holder of the advisory lock
    bucket      \* the bucket exists

vars == <<pc, mode, version, dirty, applied, lock, bucket>>
schema == <<version, dirty, applied>>

Modes == {"server", "gc", "migrateOnly"}

Startup == {"connect", "newMigrator", "versionTable", "up", "locked", "marked",
            "executed", "bucket", "noBucket"}

AtWork == {"serving", "draining", "sweeping"}

Ended == {"stopped", "failed"}                  \* exit status 0, or not

Init ==
    /\ pc = [p \in Processes |-> "stopped"]
    /\ mode = [p \in Processes |-> "server"]
    /\ version = 0 /\ dirty = FALSE /\ applied = {}
    /\ lock = Nobody
    /\ bucket = FALSE

Goto(p, l) == pc' = [pc EXCEPT ![p] = l]

\* Mutant: -gc is not told from -migrate-only.
WorkOfMode(p) == IF mode[p] = "server" THEN "serving" ELSE mode[p]

\* What lies behind ensureBucket.
Work(p) == IF mode[p] = "gc" THEN "sweeping" ELSE "serving"

-----------------------------------------------------------------------------
Start(p, m) ==
    /\ pc[p] \in Ended
    /\ Goto(p, "connect")
    /\ mode' = [mode EXCEPT ![p] = m]
    /\ UNCHANGED <<schema, lock, bucket>>

\* openDB: the ping succeeds.
OpenDB(p) ==
    /\ pc[p] = "connect"
    /\ Goto(p, "newMigrator")
    /\ UNCHANGED <<mode, schema, lock, bucket>>

LockForTable(p) ==
    /\ pc[p] = "newMigrator"
    /\ lock = Nobody
    /\ lock' = p
    /\ Goto(p, "versionTable")
    /\ UNCHANGED <<mode, schema, bucket>>

\* Mutant: each startup forces the recorded version to be clean.
ForcesVersion(p) ==
    /\ pc[p] = "versionTable"
    /\ lock' = Nobody
    /\ dirty' = FALSE
    /\ Goto(p, "up")
    /\ UNCHANGED <<mode, version, applied, bucket>>

VersionTable(p) ==
    /\ pc[p] = "versionTable"
    /\ lock' = Nobody
    /\ Goto(p, "up")
    /\ UNCHANGED <<mode, schema, bucket>>

TakeLock(p) ==
    /\ pc[p] = "up"
    /\ lock = Nobody
    /\ lock' = p
    /\ Goto(p, "locked")
    /\ UNCHANGED <<mode, schema, bucket>>

LockTimeout(p) ==
    /\ pc[p] = "up"
    /\ Goto(p, "failed")
    /\ UNCHANGED <<mode, schema, lock, bucket>>

Refuses == dirty

\* Mutant: every error of Up taken for ErrNoChange.
GoesOnDirty(p) ==
    /\ pc[p] = "locked"
    /\ Refuses
    /\ lock' = Nobody
    /\ Goto(p, "bucket")
    /\ UNCHANGED <<mode, schema, bucket>>

\* Up answers ErrDirty: the startup is over.
RefuseDirty(p) ==
    /\ pc[p] = "locked"
    /\ Refuses
    /\ lock' = Nobody
    /\ Goto(p, "failed")
    /\ UNCHANGED <<mode, schema, bucket>>

MarkDirty(p) ==
    /\ pc[p] = "locked"
    /\ ~Refuses
    /\ version < Latest
    /\ version' = version + 1
    /\ dirty' = TRUE
    /\ Goto(p, "marked")
    /\ UNCHANGED <<mode, applied, lock, bucket>>

\* A file in effect cannot be run again: its CREATE or ADD COLUMN fails.
Execute(p) ==
    /\ pc[p] = "marked"
    /\ version \notin applied
    /\ applied' = applied \cup {version}
    /\ Goto(p, "executed")
    /\ UNCHANGED <<mode, version, dirty, lock, bucket>>

MarkClean(p) ==
    /\ pc[p] = "executed"
    /\ dirty' = FALSE
    /\ Goto(p, "locked")
    /\ UNCHANGED <<mode, version, applied, lock, bucket>>

\* Mutant: the borrowed connection goes back to the pool, and with it
\* the lock of its session.
KeepsLock(p) ==
    /\ pc[p] = "locked"
    /\ ~Refuses
    /\ version = Latest
    /\ Goto(p, IF mode[p] = "migrateOnly" THEN "stopped" ELSE "bucket")
    /\ UNCHANGED <<mode, schema, lock, bucket>>

\* Up returns; -migrate-only is done.
Migrated(p) ==
    /\ pc[p] = "locked"
    /\ ~Refuses
    /\ version = Latest
    /\ lock' = Nobody
    /\ Goto(p, IF mode[p] = "migrateOnly" THEN "stopped" ELSE "bucket")
    /\ UNCHANGED <<mode, schema, bucket>>

\* ensureBucket: BucketExists, and MakeBucket when it did not.
BucketExists(p) ==
    /\ pc[p] = "bucket"
    /\ Goto(p, IF bucket THEN Work(p) ELSE "noBucket")
    /\ UNCHANGED <<mode, schema, lock, bucket>>

\* A bucket made meanwhile by another process is an error like any other.
MakeBucket(p) ==
    /\ pc[p] = "noBucket"
    /\ Goto(p, IF bucket THEN "failed" ELSE Work(p))
    /\ bucket' = TRUE
    /\ UNCHANGED <<mode, schema, lock>>

-----------------------------------------------------------------------------
SweepEnds(p) ==
    /\ pc[p] = "sweeping"
    /\ Goto(p, "stopped")
    /\ UNCHANGED <<mode, schema, lock, bucket>>

\* serve: the signal, then a drain in time.
Shutdown(p) ==
    /\ pc[p] \in {"serving", "draining"}
    /\ Goto(p, IF pc[p] = "serving" THEN "draining" ELSE "stopped")
    /\ UNCHANGED <<mode, schema, lock, bucket>>

\* A call fails, a signal cancels the startup, the port is taken, the drain
\* runs out of time, or the process is killed.
Die(p) ==
    /\ pc[p] \notin Ended
    /\ Goto(p, "failed")
    /\ lock' = IF lock = p THEN Nobody ELSE lock
    /\ UNCHANGED <<mode, schema, bucket>>

Up(p) ==
    LockForTable(p) \/ VersionTable(p) \/ TakeLock(p) \/ LockTimeout(p)
        \/ RefuseDirty(p) \/ MarkDirty(p) \/ Execute(p) \/ MarkClean(p) \/ Migrated(p)

Starts(p) == OpenDB(p) \/ Up(p) \/ BucketExists(p) \/ MakeBucket(p)

Next ==
    \E p \in Processes :
        \/ \E m \in Modes : Start(p, m)
        \/ Starts(p) \/ SweepEnds(p) \/ Shutdown(p) \/ Die(p)

Spec == Init /\ [][Next]_vars

\* Calls return, and Postgres hands a lock to those who wait for it in turn.
FairSpec ==
    Spec /\ \A p \in Processes : WF_vars(Starts(p)) /\ SF_vars(LockForTable(p))

-----------------------------------------------------------------------------
TypeOK ==
    /\ pc \in [Processes -> Startup \cup AtWork \cup Ended]
    /\ mode \in [Processes -> Modes]
    /\ version \in 0 .. Latest /\ dirty \in BOOLEAN
    /\ applied \subseteq 1 .. Latest
    /\ lock \in Processes \cup {Nobody}
    /\ bucket \in BOOLEAN

\* The connection the migrator borrows carries the advisory lock, and gives
\* it back before anything else is done: a session in the server's pool never
\* holds it.  And whoever changes the schema does hold it.
LockOnlyWhileMigrating ==
    \A p \in Processes :
        lock = p <=> pc[p] \in {"versionTable", "locked", "marked", "executed"}

\* "Bring the schema up before anything reads from it" (run): past the
\* migrations, however many processes were killed inside theirs, every
\* file of the binary is in effect exactly as the version says, and the
\* bucket is there for whoever reads or sweeps it.
ReadyForWork ==
    \A p \in Processes :
        /\ pc[p] \in AtWork \cup {"bucket", "noBucket"} =>
               version = Latest /\ ~dirty /\ applied = 1 .. Latest
        /\ pc[p] \in AtWork => bucket

\* A version recorded as clean names exactly the files in effect, whoever
\* died between the records and the file (Up may be called again).
CleanMeansApplied ==
    ~dirty => applied = 1 .. version

\* "Startup work must not hang forever" (startupTimeout), though newMigrator
\* waits for the lock without limit: whatever the other processes do, and
\* wherever they are killed, a started process gets to work, ends or fails.
StartupEnds ==
    \A p \in Processes : pc[p] \in Startup ~> pc[p] \notin Startup

\* A migration was cut short: it is recorded as dirty, and nobody is at it.
Stranded == dirty /\ \A p \in Processes : pc[p] \notin {"marked", "executed"}

\* "Safe to call on every startup" (Up): whoever starts, races and dies, each
\* migration is run once, in order and before anybody works, and after one that
\* was cut short nothing is run and nobody gets to work.
Deployed == INSTANCE Deployment WITH
    stranded <- Stranded, working <- {p \in Processes : pc[p] \in AtWork}
ImplementsDeployment == Deployed!DeploymentSpec

=============================================================================
