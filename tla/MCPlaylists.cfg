\* Adds, removals and deletes in any interleaving, artists and races included.
SPECIFICATION Spec
CONSTANTS
    Playlists = {1}
    Tracks = {t1, t2, t3}
    Txs = {x1, x2, x3}
    QuietDeletes = FALSE
    ArtistDeletes = TRUE
SYMMETRY Symmetry
INVARIANT TypeOK
PROPERTY ImplementsOrder
