\* Liveness, without symmetry.
SPECIFICATION FairSpec
CONSTANTS
    Artists = {a1}
    Tracks = {t1}
    Requests = {r1}
    Keys = {k1, k2}
    Contents = {c1}
    Sweepers = {s1}
    None = None
    Grace = 2
    ReadTimeout = 0
    CommitDelay = 1
    ReadGap = 0
PROPERTY StraysReclaimed
