\* A track is added while it is deleted; no playlist is created with it then.
SPECIFICATION RacingAddSpec
CONSTANTS
    Playlists = {1, 2}
    Tracks = {t1, t2}
    Txs = {x1, x2}
    QuietDeletes = FALSE
    ArtistDeletes = FALSE
SYMMETRY Symmetry
INVARIANT Dense
