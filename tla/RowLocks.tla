------------------------------- MODULE RowLocks -------------------------------
(***************************************************************************)
(* The row locks of all transactions on the catalogue: which statements    *)
(* take them, in which order, and what the foreign keys and cascades of    *)
(* the schema (migrations/*.sql) add to what the code asks for.            *)
(*                                                                         *)
(* A request is a list of statements.  A statement finds its rows among    *)
(* those committed when it starts and locks them one after another, in an  *)
(* order of Postgres' choosing unless it has an ORDER BY; a row gone by    *)
(* the time its lock is granted drops out.  What a transaction does to a   *)
(* row shows at its commit.  Lock modes are Postgres': "KS" FOR KEY SHARE  *)
(* (a foreign key's check), "NKU" FOR NO KEY UPDATE, "UPD" FOR UPDATE; and *)
(* for what becomes of the row, "DEL" (UPD) deleted, "NULL" (NKU) a track  *)
(* that loses its album.                                                   *)
(***************************************************************************)
EXTENDS CatalogueRows

CONSTANTS
    MaxOpenConns,   \* the size of the connection pool
    QuietDeletes    \* no track is put in a playlist while it is deleted

VARIABLES
    cat,        \* the committed catalogue
    job,        \* request -> what it was asked to do
    pc,         \* request -> "waiting" (for a connection), "running", "ended"
    todo,       \* request -> the statements still to come
    want,       \* request -> rows of the current statement still to lock
    at,         \* request -> the lock it is asking for, or None
    held,       \* request -> the locks it holds
    read        \* request -> the playlists whose positions it read

vars == <<cat, job, pc, todo, want, at, held, read>>

Modes == {"KS", "NKU", "UPD", "DEL", "NULL"}

-----------------------------------------------------------------------------
\* The playlists that track t is in.
ListsWith(c, t) == {p \in LivePlaylists(c) : t \in Members(c, p)}

\* The tracks of playlist p that come after t.
Later(c, p, t) ==
    {u \in Members(c, p) : t \in Members(c, p) /\ c.list[p][u] > c.list[p][t]}

ASSUME RowLocksAssumption ==
    /\ IsFiniteSet(Requests) /\ IsFiniteSet(Tracks)
    /\ Playlists \subseteq Nat
    /\ MaxOpenConns \in Nat \ {0}
    /\ QuietDeletes \in BOOLEAN
    /\ None \notin Artists \cup Albums \cup Nat \cup TrackRows \cup Lists \cup (AllRows \X Modes)
    /\ \A d \in Jobs : JobOK(d)
    /\ \A c \in Catalogues : c \in Catalogue /\ Intact(c) /\ Ranked(c)

-----------------------------------------------------------------------------
\* The rows the transaction deletes, so far.
Doomed(x) == {l[1] : l \in {l \in held[x] : l[2] = "DEL"}}

\* Mutant: tracks.album_id is ON DELETE CASCADE.
ClearAlbumCascade(x) ==
    {<<Track(t), "DEL">> : t \in {t \in LiveTracks(cat) : Album(cat.track[t].album) \in Doomed(x)}}

\* ON DELETE SET NULL of tracks.album_id.
ClearAlbum(x) ==
    {<<Track(t), "NULL">> : t \in {t \in LiveTracks(cat) : Album(cat.track[t].album) \in Doomed(x)}}

\* ON DELETE CASCADE of playlist_tracks, from either side.
CascadeMembers(x) ==
    {<<r, "DEL">> : r \in {r \in Rows(cat) : /\ r[1] = "member"
                                            /\ \/ Playlist(r[2]) \in Doomed(x)
                                               \/ Track(r[3]) \in Doomed(x)}}

\* DeleteTrack's first statement: UPDATE playlists ... FOR UPDATE.
LockPlaylists(x) == {<<Playlist(p), "UPD">> : p \in ListsWith(cat, job[x].track)}

\* The renumbering UPDATEs of the playlists read.
Renumber(x) ==
    UNION {{<<Member(p, t), "UPD">> : t \in Later(cat, p, job[x].track)} :
             p \in read[x] \cap LivePlaylists(cat)}

\* Mutant: albums and artists are looked up, not locked, for want of a
\* REFERENCES clause.
ReferenceUnlocked(r) == {}

\* A foreign key's check of the row it refers to.
Reference(r) == {<<r, "KS">>}

\* What a statement locks.
Demand(x, s) ==
    LET d == job[x]
    IN  CASE s = "refArtist" -> Reference(Artist(d.artist))
          [] s = "refAlbum" -> Reference(Album(d.album))
          [] s = "refTrack" -> Reference(Track(d.track))
          [] s = "refOther" -> Reference(Track(d.other))
          [] s = "setFile" -> {<<Track(d.track), "NKU">>}
          [] s = "touch" -> {<<Playlist(d.list), "NKU">>}
          [] s = "removeMember" -> {<<Member(d.list, d.track), "DEL">>}
          [] s = "renumber" -> Renumber(x)
          [] s = "lockPlaylists" -> LockPlaylists(x)
          [] s = "readMemberships" -> {}
          [] s = "deleteTrack" -> {<<Track(d.track), "DEL">>}
          [] s = "deletePlaylist" -> {<<Playlist(d.list), "DEL">>}
          [] s = "deleteAlbum" -> {<<Album(d.album), "DEL">>}
          [] s = "lockTracks" -> {<<Track(t), "UPD">> : t \in TracksBy(cat, d.artist)}
          [] s = "deleteArtist" -> {<<Artist(d.artist), "DEL">>}
          [] s = "cascadeAlbums" -> {<<Album(b), "DEL">> :
                                       b \in {b \in LiveAlbums(cat) : cat.album[b] = d.artist}}
          [] s = "clearAlbum" -> ClearAlbum(x)
          [] s = "cascadeTracks" -> {<<Track(t), "DEL">> : t \in TracksBy(cat, d.artist)}
          [] s = "cascadeMembers" -> CascadeMembers(x)

\* A statement whose row must be there: without it the request is a 404, or a
\* 400 for a reference.
Needed == {"refArtist", "refAlbum", "refTrack", "refOther", "setFile", "touch", "removeMember",
           "deleteTrack", "deletePlaylist", "deleteAlbum", "deleteArtist"}

\* Mutant: no ORDER BY.
FirstAny(s, locks) == locks

\* Which of the locks a statement may ask for first: "ORDER BY id FOR UPDATE".
First(s, locks) ==
    IF s = "lockPlaylists" THEN {l \in locks : \A k \in locks : l[1][2] <= k[1][2]} ELSE locks

-----------------------------------------------------------------------------
\* The statements of each request; cascades follow the row that sets them off.
Statements(d) ==
    CASE d.do = "CreateAlbum" -> <<"refArtist">>
      [] d.do = "CreateTrack" -> IF d.album = None THEN <<"refArtist">>
                                 ELSE <<"refArtist", "refAlbum">>
      [] d.do = "SetTrackFile" -> <<"setFile">>
      [] d.do = "DeleteTrack" -> <<"lockPlaylists", "readMemberships", "deleteTrack",
                                   "cascadeMembers", "renumber">>
      [] d.do = "DeleteAlbum" -> <<"deleteAlbum", "clearAlbum">>
      [] d.do = "DeleteArtist" -> <<"lockTracks", "deleteArtist", "cascadeAlbums", "clearAlbum",
                                    "cascadeTracks", "cascadeMembers">>
      [] d.do = "CreatePlaylist" -> <<"refTrack", "refOther">>
      [] d.do = "AddTrack" -> <<"touch", "refTrack">>
      [] d.do = "RemoveTrack" -> <<"touch", "removeMember", "renumber">>
      [] d.do = "DeletePlaylist" -> <<"deletePlaylist", "cascadeMembers">>

\* The catalogue with the inserts of job d.
Inserted(c, d) ==
    CASE d.do = "CreateAlbum" -> [c EXCEPT !.album[d.album] = d.artist]
      [] d.do = "CreateTrack" ->
           [c EXCEPT !.track[d.track] = [artist |-> d.artist, album |-> d.album]]
      [] d.do = "CreatePlaylist" ->
           [c EXCEPT !.list[d.list] =
              [t \in Tracks |-> CASE t = d.track -> 0 [] t = d.other -> 1 [] OTHER -> None]]
      [] d.do = "AddTrack" -> [c EXCEPT !.list[d.list] = Appended(@, d.track)]
      [] OTHER -> c

\* Mutant: the DELETE from playlist_tracks names the track, not the playlist.
StaysAnywhere(x, p, t) == \A q \in Playlists : Member(q, t) \notin Doomed(x)

\* Track t, in playlist p, stays there.
Stays(x, p, t) == Member(p, t) \notin Doomed(x)

\* The catalogue after x commits: its inserts, then what its locks stand for.
Committed(x) ==
    LET c == Inserted(cat, job[x])
        cleared == {l[1] : l \in {l \in held[x] : l[2] = "NULL"}}
    IN  [artists |-> {a \in c.artists : Artist(a) \notin Doomed(x)},
         album |-> [b \in Albums |-> IF Album(b) \in Doomed(x) THEN None ELSE c.album[b]],
         track |-> [t \in Tracks |->
                      IF Track(t) \in Doomed(x) THEN None
                      ELSE IF Track(t) \in cleared THEN [c.track[t] EXCEPT !.album = None]
                      ELSE c.track[t]],
         list |-> [p \in Playlists |->
                     IF c.list[p] = None \/ Playlist(p) \in Doomed(x) THEN None
                     ELSE Only(c.list[p], {t \in Members(c, p) : Stays(x, p, t)})]]

-----------------------------------------------------------------------------
Init ==
    /\ cat \in Catalogues
    /\ job \in [Requests -> Jobs] /\ FreshIds(cat, job)
    /\ pc = [x \in Requests |-> "waiting"]
    /\ todo = [x \in Requests |-> <<>>] /\ want = [x \in Requests |-> {}]
    /\ at = [x \in Requests |-> None] /\ held = [x \in Requests |-> {}]
    /\ read = [x \in Requests |-> {}]

Running == {x \in Requests : pc[x] = "running"}

Puts(d, t) ==
    \/ d.do = "AddTrack" /\ d.track = t
    \/ d.do = "CreatePlaylist" /\ t \in {d.track, d.other}

Deletes(d, t) == d.do = "DeleteTrack" /\ d.track = t

Disturbs(d, e) == \E t \in Tracks : Puts(d, t) /\ Deletes(e, t)

\* BeginTx, or a single statement: takes a connection of the pool.
Begin(x) ==
    /\ pc[x] = "waiting"
    /\ Cardinality(Running) < MaxOpenConns
    /\ QuietDeletes => \A y \in Running : ~Disturbs(job[x], job[y]) /\ ~Disturbs(job[y], job[x])
    /\ pc' = [pc EXCEPT ![x] = "running"]
    /\ todo' = [todo EXCEPT ![x] = Statements(job[x])]
    /\ UNCHANGED <<cat, job, want, at, held, read>>

\* The next of these locks to ask for, if there is one.
Ask(x, s, locks) ==
    /\ want' = [want EXCEPT ![x] = locks]
    /\ IF locks = {} THEN at' = [at EXCEPT ![x] = None]
       ELSE \E l \in First(s, locks) : at' = [at EXCEPT ![x] = l]

\* The next statement starts, and finds its rows.
Statement(x) ==
    /\ pc[x] = "running" /\ at[x] = None /\ Len(todo[x]) > 0
    /\ LET s == Head(todo[x])
       IN  IF Demand(x, s) = {}
           THEN /\ todo' = [todo EXCEPT ![x] = Tail(@)]
                /\ read' = IF s = "readMemberships"
                           THEN [read EXCEPT ![x] = ListsWith(cat, job[x].track)] ELSE read
                /\ UNCHANGED <<want, at>>
           ELSE Ask(x, s, Demand(x, s)) /\ UNCHANGED <<todo, read>>
    /\ UNCHANGED <<cat, job, pc, held>>

Strength(m) == CASE m = "DEL" -> "UPD" [] m = "NULL" -> "NKU" [] OTHER -> m

Conflict(m, n) ==
    \/ "UPD" \in {Strength(m), Strength(n)}
    \/ Strength(m) = "NKU" /\ Strength(n) = "NKU"

Blocks(y, l) == \E k \in held[y] : k[1] = l[1] /\ Conflict(k[2], l[2])

WaitsFor(x, y) == x # y /\ at[x] # None /\ Blocks(y, at[x])

Ends(x) ==
    /\ pc' = [pc EXCEPT ![x] = "ended"]
    /\ todo' = [todo EXCEPT ![x] = <<>>] /\ want' = [want EXCEPT ![x] = {}]
    /\ at' = [at EXCEPT ![x] = None] /\ held' = [held EXCEPT ![x] = {}]
    /\ read' = [read EXCEPT ![x] = {}]

\* Mutant: an early return without the rollback keeps the connection.
NotFoundKeeps(x) ==
    /\ at[x] # None /\ \A y \in Requests : ~WaitsFor(x, y)
    /\ at[x][1] \notin Rows(cat) /\ Head(todo[x]) \in Needed
    /\ todo' = [todo EXCEPT ![x] = <<>>] /\ pc' = [pc EXCEPT ![x] = "lost"]
    /\ at' = [at EXCEPT ![x] = None] /\ want' = [want EXCEPT ![x] = {}]
    /\ UNCHANGED <<cat, job, held, read>>

\* Mutant: RemoveTrack of a track not in the list returns, its transaction
\* still open.
NotFoundOpen(x) ==
    /\ at[x] # None /\ \A y \in Requests : ~WaitsFor(x, y)
    /\ at[x][1] \notin Rows(cat) /\ Head(todo[x]) \in Needed \ {"removeMember"}
    /\ Ends(x)
    /\ UNCHANGED <<cat, job>>

\* The row is not there: ErrNotFound or a foreign key's error, and rollback.
NotFound(x) ==
    /\ at[x] # None /\ \A y \in Requests : ~WaitsFor(x, y)
    /\ at[x][1] \notin Rows(cat) /\ Head(todo[x]) \in Needed
    /\ Ends(x)
    /\ UNCHANGED <<cat, job>>

\* The lock is granted, or its row has gone; the last one ends the statement.
\* Removing a member tells RemoveTrack its position.
Grant(x) ==
    /\ at[x] # None /\ \A y \in Requests : ~WaitsFor(x, y)
    /\ at[x][1] \in Rows(cat) \/ Head(todo[x]) \notin Needed
    /\ held' = IF at[x][1] \in Rows(cat) THEN [held EXCEPT ![x] = @ \cup {at[x]}] ELSE held
    /\ Ask(x, Head(todo[x]), want[x] \ {at[x]})
    /\ todo' = IF want[x] = {at[x]} THEN [todo EXCEPT ![x] = Tail(@)] ELSE todo
    /\ read' = IF Head(todo[x]) = "removeMember" THEN [read EXCEPT ![x] = {job[x].list}] ELSE read
    /\ UNCHANGED <<cat, job, pc>>

Commit(x) ==
    /\ pc[x] = "running" /\ at[x] = None /\ todo[x] = <<>>
    /\ cat' = Committed(x)
    /\ Ends(x)
    /\ UNCHANGED job

\* The client goes away, or the connection breaks.
Cancel(x) ==
    /\ pc[x] # "ended"
    /\ Ends(x)
    /\ UNCHANGED <<cat, job>>

\* X wait for each other: each for one of them.
Circle(X) == X # {} /\ \A x \in X : \E y \in X : WaitsFor(x, y)

\* Postgres aborts one of a circle; the request is a 500.
DeadlockAbort(x) ==
    /\ \E X \in SUBSET Requests : x \in X /\ Circle(X)
    /\ Ends(x)
    /\ UNCHANGED <<cat, job>>

\* All requests have been answered.
Terminating ==
    /\ \A x \in Requests : pc[x] = "ended"
    /\ UNCHANGED vars

Progress(x) == Begin(x) \/ Statement(x) \/ NotFound(x) \/ Grant(x) \/ Commit(x) \/ DeadlockAbort(x)

Next == (\E x \in Requests : Progress(x) \/ Cancel(x)) \/ Terminating

Spec == Init /\ [][Next]_vars

-----------------------------------------------------------------------------
\* Shapes (migrations/*.sql); no more connections than the pool has.
TypeOK ==
    /\ cat \in Catalogue
    /\ pc \in [Requests -> {"waiting", "running", "ended"}]
    /\ held \in [Requests -> SUBSET (AllRows \X Modes)]
    /\ Cardinality(Running) <= MaxOpenConns

\* No row refers to one that is gone, whatever creates and deletes race.
ReferencesIntact == Intact(cat)

\* Only the delete of a track or of its artist takes it away: deleting an
\* album, or the artist of an album it is on, leaves it without an album.
TracksOutliveAlbums ==
    [][\A t \in LiveTracks(cat) :
         cat'.track[t] = None =>
           \E x \in Requests :
             /\ pc[x] = "running" /\ pc'[x] = "ended"
             /\ \/ job[x].do = "DeleteTrack" /\ job[x].track = t
                \/ job[x].do = "DeleteArtist" /\ job[x].artist = cat.track[t].artist]_vars

\* "Locking in id order rules out a deadlock" (trackrepo.go:99): requests wait
\* for each other in a circle only if one of them deletes an artist.  Four of
\* them may do so too if a track is added while it is deleted: DeleteTrack then
\* renumbers a playlist it has not locked (hence QuietDeletes).
OnlyArtistDeletesDeadlock ==
    \A X \in SUBSET Requests : Circle(X) => \E x \in X : job[x].do = "DeleteArtist"

\* x has nothing to wait for: there is a connection for it, its lock is free,
\* or it is in a circle, which Postgres breaks.
CanGoOn(x) ==
    \/ /\ pc[x] = "waiting" /\ Cardinality(Running) < MaxOpenConns
       /\ QuietDeletes => \A y \in Running : ~Disturbs(job[x], job[y]) /\ ~Disturbs(job[y], job[x])
    \/ pc[x] = "running" /\ \A y \in Requests : ~WaitsFor(x, y)
    \/ \E X \in SUBSET Requests : x \in X /\ Circle(X)

\* Every request is answered: nobody waits for ever for a lock or a connection
\* kept by one that has ended (main.go:247, the deferred rollbacks).
NoneStuck == (\E x \in Requests : pc[x] # "ended") => \E x \in Requests : CanGoOn(x)

\* Who has nothing to wait for does move: each path out of a transaction
\* commits or rolls back, whatever its statements find.
NoDeadEnd == \A x \in Requests : CanGoOn(x) => ENABLED Progress(x)

\* The requests that write take effect one after another, each at its commit:
\* READ COMMITTED, with the locks of statements, foreign keys and cascades,
\* does what running them one at a time would.
Serial == INSTANCE SerialCatalogue WITH open <- {x \in Requests : pc[x] # "ended"}
ImplementsSerial == Serial!SerialSpec

=============================================================================
