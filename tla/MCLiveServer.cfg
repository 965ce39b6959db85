\* Two uploads, streams or deletes at a time, over two tracks and two bodies;
\* three keys allow two re-uploads.  No sweep.
SPECIFICATION Spec
CONSTANTS
    Artists = {a1}
    Tracks = {t1, t2}
    Requests = {r1, r2}
    Keys = {k1, k2, k3}
    Contents = {c1, c2}
    Sweepers = {}
    None = None
    Grace = 2
    ReadTimeout = 0
    CommitDelay = 1
    ReadGap = 0
SYMMETRY Symmetry
INVARIANTS
    TypeOK
    NoBrokenTrack
    RowDescribesObject
    CleanupOnlyUnreferenced
    StreamMatchesETag
    NotFoundIsStale
PROPERTY ImplementsLibrary
