\* Three processes over one database and bucket, two migrations.
SPECIFICATION FairSpec
CONSTANTS
    Processes = {p1, p2, p3}
    Latest = 2
    Nobody = nobody
INVARIANTS
    TypeOK
    LockOnlyWhileMigrating
    ReadyForWork
    CleanMeansApplied
PROPERTIES
    StartupEnds
    ImplementsDeployment
