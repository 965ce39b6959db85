--------------------------- MODULE SerialCatalogue ---------------------------
(***************************************************************************)
(* What the requests that write the catalogue promise together: each takes *)
(* effect at most once, in a single step, on all there is at that moment,  *)
(* as if no other request were under way; and one whose rows are not there *)
(* changes nothing.  Statements, locks and the pool do not show.           *)
(***************************************************************************)
EXTENDS CatalogueRows

VARIABLES
    cat,        \* the catalogue
    job,        \* request -> what it was asked to do
    open        \* the requests without an answer

serialVars == <<cat, job, open>>

SerialInit ==
    /\ cat \in Catalogues
    /\ job \in [Requests -> Jobs] /\ FreshIds(cat, job)
    /\ open = Requests

-----------------------------------------------------------------------------
\* The tracks, with those of the albums B on no album.
OffAlbums(B) ==
    [t \in Tracks |-> IF t \in LiveTracks(cat) /\ cat.track[t].album \in B
                      THEN [cat.track[t] EXCEPT !.album = None] ELSE cat.track[t]]

\* The playlists without the tracks S.
Without(S) ==
    [p \in Playlists |-> IF p \in LivePlaylists(cat)
                         THEN Only(cat.list[p], Members(cat, p) \ S) ELSE None]

CreateAlbum(d) ==
    /\ d.do = "CreateAlbum"
    /\ d.album \notin LiveAlbums(cat) /\ d.artist \in cat.artists
    /\ cat' = [cat EXCEPT !.album[d.album] = d.artist]

CreateTrack(d) ==
    /\ d.do = "CreateTrack"
    /\ d.track \notin LiveTracks(cat)
    /\ d.artist \in cat.artists /\ d.album \in LiveAlbums(cat) \cup {None}
    /\ cat' = [cat EXCEPT !.track[d.track] = [artist |-> d.artist, album |-> d.album]]

\* Files are not part of this catalogue.
SetTrackFile(d) ==
    /\ d.do = "SetTrackFile"
    /\ d.track \in LiveTracks(cat)
    /\ UNCHANGED cat

\* A track leaves all its playlists.
DeleteTrack(d) ==
    /\ d.do = "DeleteTrack"
    /\ d.track \in LiveTracks(cat)
    /\ cat' = [cat EXCEPT !.track[d.track] = None, !.list = Without({d.track})]

\* The tracks of an album stay.
DeleteAlbum(d) ==
    /\ d.do = "DeleteAlbum"
    /\ d.album \in LiveAlbums(cat)
    /\ cat' = [cat EXCEPT !.album[d.album] = None, !.track = OffAlbums({d.album})]

\* An artist takes its tracks and its albums along; the tracks of others on
\* those albums stay.
DeleteArtist(d) ==
    LET albums == {b \in LiveAlbums(cat) : cat.album[b] = d.artist}
        tracks == TracksBy(cat, d.artist)
    IN  /\ d.do = "DeleteArtist"
        /\ d.artist \in cat.artists
        /\ cat' = [artists |-> cat.artists \ {d.artist},
                   album |-> [b \in Albums |-> IF b \in albums THEN None ELSE cat.album[b]],
                   track |-> [t \in Tracks |-> IF t \in tracks THEN None ELSE OffAlbums(albums)[t]],
                   list |-> Without(tracks)]

CreatePlaylist(d) ==
    /\ d.do = "CreatePlaylist"
    /\ d.list \notin LivePlaylists(cat) /\ {d.track, d.other} \subseteq LiveTracks(cat)
    /\ cat' = [cat EXCEPT !.list[d.list] =
                 [t \in Tracks |-> CASE t = d.track -> 0 [] t = d.other -> 1 [] OTHER -> None]]

AddTrack(d) ==
    /\ d.do = "AddTrack"
    /\ d.list \in LivePlaylists(cat) /\ d.track \in LiveTracks(cat)
    /\ cat' = [cat EXCEPT !.list[d.list] = Appended(@, d.track)]

RemoveTrack(d) ==
    /\ d.do = "RemoveTrack"
    /\ d.list \in LivePlaylists(cat) /\ d.track \in Members(cat, d.list)
    /\ cat' = [cat EXCEPT !.list[d.list] = Only(@, Members(cat, d.list) \ {d.track})]

DeletePlaylist(d) ==
    /\ d.do = "DeletePlaylist"
    /\ d.list \in LivePlaylists(cat)
    /\ cat' = [cat EXCEPT !.list[d.list] = None]

Perform(d) ==
    \/ CreateAlbum(d) \/ CreateTrack(d) \/ SetTrackFile(d) \/ DeleteTrack(d) \/ DeleteAlbum(d)
    \/ DeleteArtist(d) \/ CreatePlaylist(d) \/ AddTrack(d) \/ RemoveTrack(d) \/ DeletePlaylist(d)

-----------------------------------------------------------------------------
Answered(x) == x \in open /\ open' = open \ {x} /\ UNCHANGED job

\* A request takes effect,
TakesEffect(x) == Answered(x) /\ Perform(job[x])

\* or fails, and leaves no trace.
Fails(x) == Answered(x) /\ UNCHANGED cat

SerialNext == \E x \in Requests : TakesEffect(x) \/ Fails(x)

SerialSpec == SerialInit /\ [][SerialNext]_serialVars

=============================================================================
