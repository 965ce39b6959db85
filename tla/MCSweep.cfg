\* A sweep beside two concurrent requests, with time and the grace period at
\* the smallest value GraceCoversUpload allows.
SPECIFICATION Spec
CONSTANTS
    Artists = {a1}
    Tracks = {t1}
    Requests = {r1, r2}
    Keys = {k1, k2}
    Contents = {c1}
    Sweepers = {s1}
    None = None
    Grace = 4
    ReadTimeout = 1
    CommitDelay = 1
    ReadGap = 1
SYMMETRY Symmetry
INVARIANTS
    NoBrokenTrack
    OrphanReportSound
    SweepReclaims
    MissingIsAbsent
