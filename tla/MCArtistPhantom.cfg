\* An upload to a track created while its artist is being deleted.
SPECIFICATION Spec
CONSTANTS
    Artists = {a1}
    Tracks = {t1}
    Requests = {r1, r2}
    Keys = {k1, k2}
    Contents = {c1}
    Sweepers = {}
    None = None
    Grace = 2
    ReadTimeout = 0
    CommitDelay = 1
    ReadGap = 0
PROPERTY ArtistDeleteCollects
