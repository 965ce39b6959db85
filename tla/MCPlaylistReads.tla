--------------------------- MODULE MCPlaylistReads ---------------------------
(***************************************************************************)
(* Instances of PlaylistReads for TLC.                                     *)
(***************************************************************************)
EXTENDS PlaylistReads, TLC

\* Playlists are ordered by id, so only tracks and transactions are alike.
Symmetry == Permutations(Tracks) \cup Permutations(Txs)

=============================================================================
