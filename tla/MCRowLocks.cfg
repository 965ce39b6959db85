SPECIFICATION Spec
CONSTANTS
    a1 = a1
    a2 = a2
    b1 = b1
    b2 = b2
    b3 = b3
    t1 = t1
    t2 = t2
    t3 = t3
    t4 = t4
    None = None
    Artists <- MCArtists
    Albums <- MCAlbums
    Tracks <- MCTracks
    Playlists <- MCPlaylists
    Requests = {q1, q2}
    Jobs <- MCJobs
    Catalogues <- MCCatalogues
    MaxOpenConns = 2
    QuietDeletes = TRUE
SYMMETRY MCSymmetry
INVARIANTS TypeOK ReferencesIntact OnlyArtistDeletesDeadlock NoneStuck NoDeadEnd
PROPERTIES TracksOutliveAlbums ImplementsSerial
