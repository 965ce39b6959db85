---------------------------- MODULE PlaylistReads ----------------------------
(***************************************************************************)
(* A client that reads playlists and uses updated_at as a change marker    *)
(* (playlistrepo.go GetPlaylistByID, trackrepo.go:100), beside everything  *)
(* that changes them.                                                      *)
(*                                                                         *)
(* The read is two statements, each with a snapshot of its own: the row,   *)
(* with the marker, then the tracks.  Of a marker only one thing matters:  *)
(* whether it is still the playlist's current one.  Once the row is        *)
(* stamped again it is not, and never is again, as stamps are the start    *)
(* times of transactions, taken to be distinct.                            *)
(***************************************************************************)
EXTENDS Playlists

CONSTANT Watched        \* the playlists the client reads

ASSUME WatchedAssumption == Watched \subseteq Playlists \ {0}

VARIABLES
    reader,     \* the playlist of a GetPlaylistByID in progress, or 0, while
                \* the marker it has read is the current one
    cache       \* the client's copy, while its marker is the current one

readVars == <<vars, reader, cache>>

NoCopy == [list |-> 0, tracks |-> <<>>]

ReadInit == Init /\ reader = 0 /\ cache = NoCopy

\* ORDER BY position: each track with its place.
ListOf(p) ==
    [t \in inList[p] |-> Cardinality({u \in inList[p] : position[p][u] < position[p][t]})]

\* The marker of p is not the one it was.
Restamped(p) == p \in Playlists /\ stamp'[p] # stamp[p]

\* A change, by any of the writers.  A copy whose marker it outdates, had or
\* about to be had, is known to be old: no more is asked of it.
Write ==
    /\ Next
    /\ reader' = IF Restamped(reader) THEN 0 ELSE reader
    /\ cache' = IF Restamped(cache.list) THEN NoCopy ELSE cache

\* SELECT ... FROM playlists: a missing row is a 404.
GetRow(p) ==
    /\ reader = 0
    /\ playlistRow[p] = "live"
    /\ reader' = p
    /\ UNCHANGED <<vars, cache>>

\* trackIDs: a playlist deleted since the first statement has no tracks.
GetTracks ==
    /\ reader # 0
    /\ cache' = [list |-> reader, tracks |-> ListOf(reader)]
    /\ reader' = 0
    /\ UNCHANGED vars

\* Either statement fails.
ReadFails ==
    /\ reader # 0
    /\ reader' = 0
    /\ UNCHANGED <<vars, cache>>

ReadNext == Write \/ (\E p \in Watched : GetRow(p)) \/ GetTracks \/ ReadFails

ReadSpec == ReadInit /\ [][ReadNext]_readVars

-----------------------------------------------------------------------------
\* The shape of the reader's state (playlistrepo.go:19-36).
ReadTypeOK ==
    /\ TypeOK
    /\ reader \in Watched \cup {0}
    /\ cache.list \in Watched \cup {0}
    /\ cache.list # 0 => DOMAIN cache.tracks \subseteq Tracks

\* "A client using that stamp as a change marker must see it" (trackrepo.go:101):
\* a copy whose marker is the current one of a playlist is its current list,
\* whenever between the two statements it changed.
MarkerFaithful ==
    cache.list # 0 /\ playlistRow[cache.list] = "live" => cache.tracks = ListOf(cache.list)

=============================================================================
