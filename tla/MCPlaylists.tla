----------------------------- MODULE MCPlaylists -----------------------------
(***************************************************************************)
(* Instances of Playlists for TLC.                                         *)
(***************************************************************************)
EXTENDS Playlists, TLC

\* Playlists are ordered by id, so only tracks and transactions are alike.
Symmetry == Permutations(Tracks) \cup Permutations(Txs)

\* No playlist is created with a track that is being deleted, so that only an
\* AddTrack can put one where DeleteTrack did not look.
CreatesApart ==
    \A p \in Playlists : playlistRow[p] = "unborn" =>
        \A t \in inList'[p] : ~Deleting(t)

RacingAddSpec == Init /\ [][Next /\ CreatesApart]_vars

=============================================================================
