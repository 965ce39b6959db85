\* No artist is deleted, and no track is added while it is deleted.
SPECIFICATION ReadSpec
CONSTANTS
    Playlists = {1, 2}
    Watched = {2}
    Tracks = {t1, t2, t3}
    Txs = {x1, x2}
    QuietDeletes = TRUE
    ArtistDeletes = FALSE
SYMMETRY Symmetry
INVARIANTS
    ReadTypeOK
    Dense
    NoDeadlock
    MarkerFaithful
PROPERTY ChangeStamped
