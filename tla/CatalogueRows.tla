--------------------------- MODULE CatalogueRows ---------------------------
(***************************************************************************)
(* The catalogue as rows that refer to each other (migrations/*.sql), and  *)
(* the requests that write it.                                             *)
(***************************************************************************)
EXTENDS Naturals, Sequences, FiniteSets

CONSTANTS
    Artists, Albums, Tracks,
    Playlists,      \* ids, a set of numbers: ids are ordered
    Requests,       \* requests that may run at the same time
    Jobs,           \* what each may be asked to do
    Catalogues,     \* the catalogues to start from
    None

\* Rows, and the catalogue they are in.
Artist(a) == <<"artist", a>>
Album(b) == <<"album", b>>
Track(t) == <<"track", t>>
Playlist(p) == <<"playlist", p>>
Member(p, t) == <<"member", p, t>>

\* The rows there are; None stands where there is none.
LiveTracks(c) == {t \in Tracks : c.track[t] # None}
LiveAlbums(c) == {b \in Albums : c.album[b] # None}
LivePlaylists(c) == {p \in Playlists : c.list[p] # None}
\* A playlist maps its tracks to their ranks 0, 1, ..., the others to None: of
\* positions only the order is kept, not the gaps.
MembersOf(l) == {t \in Tracks : l[t] # None}
Members(c, p) == MembersOf(c.list[p])
TracksBy(c, a) == {t \in LiveTracks(c) : c.track[t].artist = a}

Rows(c) ==
    {Artist(a) : a \in c.artists} \cup {Album(b) : b \in LiveAlbums(c)}
      \cup {Track(t) : t \in LiveTracks(c)} \cup {Playlist(p) : p \in LivePlaylists(c)}
      \cup UNION {{Member(p, t) : t \in Members(c, p)} : p \in LivePlaylists(c)}

AllRows ==
    {Artist(a) : a \in Artists} \cup {Album(b) : b \in Albums} \cup {Track(t) : t \in Tracks}
      \cup {Playlist(p) : p \in Playlists} \cup {Member(p, t) : p \in Playlists, t \in Tracks}

TrackRows == [artist : Artists, album : Albums \cup {None}]
Lists == [Tracks -> Nat \cup {None}]

\* The shape of a catalogue.
Catalogue == [artists : SUBSET Artists,
              album : [Albums -> Artists \cup {None}],
              track : [Tracks -> TrackRows \cup {None}],
              list : [Playlists -> Lists \cup {None}]]

\* No row refers to one that is gone: albums to artists, tracks to both,
\* memberships to tracks.
Intact(c) ==
    /\ \A b \in LiveAlbums(c) : c.album[b] \in c.artists
    /\ \A t \in LiveTracks(c) :
         /\ c.track[t].artist \in c.artists
         /\ c.track[t].album \in LiveAlbums(c) \cup {None}
    /\ \A p \in LivePlaylists(c) : Members(c, p) \subseteq LiveTracks(c)

\* A job names what its statements need.
JobOK(d) ==
    /\ d.do \in {"CreateAlbum", "CreateTrack", "SetTrackFile", "DeleteTrack", "DeleteAlbum",
                  "DeleteArtist", "CreatePlaylist", "AddTrack", "RemoveTrack", "DeletePlaylist"}
    /\ d.do \in {"CreateAlbum", "CreateTrack", "DeleteArtist"} => d.artist \in Artists
    /\ d.do \in {"CreateAlbum", "DeleteAlbum"} => d.album \in Albums
    /\ d.do = "CreateTrack" => d.album \in Albums \cup {None}
    /\ d.do \in {"CreateTrack", "SetTrackFile", "DeleteTrack", "CreatePlaylist", "AddTrack",
                  "RemoveTrack"} => d.track \in Tracks
    /\ d.do = "CreatePlaylist" => d.other \in Tracks \ {d.track}
    /\ d.do \in {"CreatePlaylist", "AddTrack", "RemoveTrack", "DeletePlaylist"} =>
         d.list \in Playlists

\* List l with track t after the others, unless it has t already.
Appended(l, t) == IF l[t] # None THEN l ELSE [l EXCEPT ![t] = Cardinality(MembersOf(l))]

\* The tracks of S, in the order of l.
Only(l, S) ==
    [t \in Tracks |-> IF t \in S THEN Cardinality({u \in S : l[u] < l[t]}) ELSE None]

\* Ranks have no gaps.
Ranked(c) == \A p \in LivePlaylists(c) : c.list[p] = Only(c.list[p], Members(c, p))

\* The row a request creates.
NewRows(d) ==
    CASE d.do = "CreateAlbum" -> {Album(d.album)}
      [] d.do = "CreateTrack" -> {Track(d.track)}
      [] d.do = "CreatePlaylist" -> {Playlist(d.list)}
      [] OTHER -> {}

\* Its id is generated (DEFAULT gen_random_uuid()).
FreshIds(c, jobs) ==
    \A x \in Requests :
        /\ NewRows(jobs[x]) \cap Rows(c) = {}
        /\ \A y \in Requests \ {x} : NewRows(jobs[x]) \cap NewRows(jobs[y]) = {}

=============================================================================
