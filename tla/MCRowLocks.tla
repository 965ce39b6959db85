------------------------------ MODULE MCRowLocks ------------------------------
(***************************************************************************)
(* Two artists, an album of the first, two tracks and two playlists of     *)
(* them.  A job of every kind may create the rows that the catalogue       *)
(* lacks.                                                                  *)
(***************************************************************************)
EXTENDS RowLocks, TLC

CONSTANTS a1, a2, b1, b2, b3, t1, t2, t3, t4

MCArtists == {a1, a2}
MCAlbums == {b1, b2, b3}
MCTracks == {t1, t2, t3, t4}
MCPlaylists == 1 .. 4

\* Both playlists empty, or the second full and the first anything.
Empty == [t \in MCTracks |-> None]
Single == {[Empty EXCEPT ![t] = 0] : t \in {t1, t2}}
Full == {[Empty EXCEPT ![t1] = n, ![t2] = 1 - n] : n \in {0, 1}}
MCLists == {<<Empty, Empty>>} \cup ({Empty} \cup Single \cup Full) \X Full

\* On the album or not, and on the album of another artist; the two tracks
\* alike, or both on the album.
Row == {[artist |-> a1, album |-> b1], [artist |-> a1, album |-> None],
        [artist |-> a2, album |-> b1]}

Pairs == {<<r, s>> \in Row \X Row : r = s \/ None \notin {r.album, s.album}}

MCCatalogues ==
    {[artists |-> MCArtists, album |-> (b1 :> a1) @@ (b2 :> None) @@ (b3 :> None),
      track |-> (t1 :> r[1]) @@ (t2 :> r[2]) @@ (t3 :> None) @@ (t4 :> None),
      list |-> (1 :> l[1]) @@ (2 :> l[2]) @@ (3 :> None) @@ (4 :> None)] :
       <<r, l>> \in Pairs \X MCLists}

Job(do) == [do |-> do, artist |-> None, album |-> None, track |-> None, other |-> None,
            list |-> None]

Live == {t1, t2}

MCJobs ==
    {[Job("CreateAlbum") EXCEPT !.artist = a, !.album = IF a = a1 THEN b2 ELSE b3] :
       a \in MCArtists}
    \cup {[Job("CreateTrack") EXCEPT !.artist = a, !.track = IF a = a1 THEN t3 ELSE t4, !.album = b] :
            a \in MCArtists, b \in {b1, None}}
    \cup {[Job(do) EXCEPT !.track = t] : <<do, t>> \in {"SetTrackFile", "DeleteTrack"} \X Live}
    \cup {[Job("DeleteAlbum") EXCEPT !.album = b1]}
    \cup {[Job("DeleteArtist") EXCEPT !.artist = a] : a \in MCArtists}
    \cup {[Job("CreatePlaylist") EXCEPT !.list = p, !.track = tu[1], !.other = tu[2]] :
            p \in {3, 4}, tu \in {<<t1, t2>>, <<t2, t1>>}}
    \cup {[Job(do) EXCEPT !.list = p, !.track = t] :
            <<do, p, t>> \in {"AddTrack", "RemoveTrack"} \X {1, 2} \X Live}
    \cup {[Job("DeletePlaylist") EXCEPT !.list = p] : p \in {1, 2}}

MCSymmetry == Permutations(Requests) \cup Permutations(Live)

=============================================================================
