\* The answer to a committed SetTrackFile may be lost.
SPECIFICATION LossySpec
CONSTANTS
    Artists = {a1}
    Tracks = {t1}
    Requests = {r1}
    Keys = {k1}
    Contents = {c1}
    Sweepers = {}
    None = None
    Grace = 2
    ReadTimeout = 0
    CommitDelay = 1
    ReadGap = 0
INVARIANT CleanupOnlyUnreferenced
