------------------------------ MODULE Catalogue ------------------------------
(***************************************************************************)
(* The Postgres catalogue, as far as audio files depend on it: the rows of *)
(* artists and tracks (internal/repository, migrations/*.sql).  A row's id *)
(* is a generated UUID, so a deleted id never comes back: an id is         *)
(* "unborn", then "live", then "gone".  tracks.artist_id is ON DELETE      *)
(* CASCADE, and a partial unique index covers tracks.content_hash.         *)
(*                                                                         *)
(* Single statements and short transactions are atomic actions.  The one   *)
(* transaction that holds row locks across statements while uploads run,   *)
(* ArtistRepository.DeleteArtist, is split, and rowLock records its        *)
(* SELECT ... FOR UPDATE.                                                  *)
(***************************************************************************)
EXTENDS Media

CONSTANTS
    Artists,    \* artist ids
    Tracks,     \* track ids
    Requests    \* HTTP requests that may run at the same time

ASSUME CatalogueNoneAssumption ==
    None \notin Artists /\ None \notin Tracks /\ None \notin Requests

\* A row's status is not a body.
ASSUME StatusAssumption == "unborn" \notin Contents /\ "gone" \notin Contents

VARIABLES
    artistRow,      \* artist id -> status of its row
    trackRow,       \* track id -> status of its row
    artistOf,       \* tracks.artist_id
    storageKey,     \* tracks.storage_key, None when empty
    contentHash,    \* tracks.content_hash, None when NULL
    rowLock         \* the request whose transaction locks the track row

catalogueVars == <<artistRow, trackRow, artistOf, storageKey, contentHash, rowLock>>

RowStatus == {"unborn", "live", "gone"}

CatalogueTypeOK ==
    /\ artistRow \in [Artists -> RowStatus]
    /\ trackRow \in [Tracks -> RowStatus]
    /\ artistOf \in [Tracks -> Artists \cup {None}]
    /\ storageKey \in [Tracks -> Keys \cup {None}]
    /\ contentHash \in [Tracks -> Contents \cup {None}]
    /\ rowLock \in [Tracks -> Requests \cup {None}]

CatalogueInit ==
    /\ artistRow = [a \in Artists |-> "unborn"]
    /\ trackRow = [t \in Tracks |-> "unborn"]
    /\ artistOf = [t \in Tracks |-> None]
    /\ storageKey = [t \in Tracks |-> None]
    /\ contentHash = [t \in Tracks |-> None]
    /\ rowLock = [t \in Tracks |-> None]

LiveTracks == {t \in Tracks : trackRow[t] = "live"}

TracksOf(a) == {t \in LiveTracks : artistOf[t] = a}

\* AllStorageKeys (AllCoverKeys adds nothing: no code path stores a cover).
RefKeys == {storageKey[t] : t \in LiveTracks} \ {None}

\* Mutant: no unique index.
HashFreeAlways(t, h) == TRUE

\* The unique index on content_hash lets track t take hash h.
HashFree(t, h) == \A u \in LiveTracks \ {t} : contentHash[u] # h

InsertArtist(a) ==
    /\ artistRow[a] = "unborn"
    /\ artistRow' = [artistRow EXCEPT ![a] = "live"]
    /\ UNCHANGED <<trackRow, artistOf, storageKey, contentHash, rowLock>>

\* The foreign key needs the artist's row; a new track has no file.
InsertTrack(t, a) ==
    /\ trackRow[t] = "unborn"
    /\ artistRow[a] = "live"
    /\ trackRow' = [trackRow EXCEPT ![t] = "live"]
    /\ artistOf' = [artistOf EXCEPT ![t] = a]
    /\ UNCHANGED <<artistRow, storageKey, contentHash, rowLock>>

\* Mutant: the UPDATE leaves content_hash out when one is set.
SetTrackFileStaleHash(t, k, h) ==
    /\ trackRow[t] = "live"
    /\ rowLock[t] = None
    /\ HashFree(t, h)
    /\ storageKey' = [storageKey EXCEPT ![t] = k]
    /\ contentHash' = [contentHash EXCEPT ![t] = IF @ = None THEN h ELSE @]
    /\ UNCHANGED <<artistRow, trackRow, artistOf, rowLock>>

\* TrackRepository.SetTrackFile, when it affects the row.  An UPDATE waits
\* for a lock another transaction holds.
SetTrackFile(t, k, h) ==
    /\ trackRow[t] = "live"
    /\ rowLock[t] = None
    /\ HashFree(t, h)
    /\ storageKey' = [storageKey EXCEPT ![t] = k]
    /\ contentHash' = [contentHash EXCEPT ![t] = h]
    /\ UNCHANGED <<artistRow, trackRow, artistOf, rowLock>>

\* SetTrackFile affects no row, or runs into the unique index.
SetTrackFileRefused(t, h) ==
    \/ trackRow[t] # "live"
    \/ rowLock[t] = None /\ ~HashFree(t, h)

\* The rows in ts go, with everything they held.
RemoveTrackRows(ts) ==
    /\ trackRow' = [t \in Tracks |-> IF t \in ts THEN "gone" ELSE trackRow[t]]
    /\ storageKey' = [t \in Tracks |-> IF t \in ts THEN None ELSE storageKey[t]]
    /\ contentHash' = [t \in Tracks |-> IF t \in ts THEN None ELSE contentHash[t]]
    /\ UNCHANGED artistOf

\* Mutant: rows without a file are not filtered out.
KeysOfUnfiltered(ts) == {storageKey[t] : t \in ts}

\* The keys of the rows in ts that have a file.
KeysOf(ts) == {storageKey[t] : t \in ts} \ {None}

\* The DELETE of TrackRepository.DeleteTrack, which waits for the row's lock.
DeleteTrackRow(t) ==
    /\ trackRow[t] = "live"
    /\ rowLock[t] = None
    /\ RemoveTrackRows({t})
    /\ UNCHANGED <<artistRow, rowLock>>

\* SELECT storage_key ... FOR UPDATE of ArtistRepository.DeleteArtist.
LockTracksOf(a, r) ==
    /\ \A t \in TracksOf(a) : rowLock[t] = None
    /\ rowLock' = [t \in Tracks |-> IF t \in TracksOf(a) THEN r ELSE rowLock[t]]
    /\ UNCHANGED <<artistRow, trackRow, artistOf, storageKey, contentHash>>

\* The end of r's transaction.
Unlocked(r) == [t \in Tracks |-> IF rowLock[t] = r THEN None ELSE rowLock[t]]

\* DELETE FROM artists and the commit: the cascade takes every track row of
\* the artist, locked before or inserted since, once nobody else locks it.
DeleteArtistRow(a, r) ==
    /\ artistRow[a] = "live"
    /\ \A t \in TracksOf(a) : rowLock[t] \in {None, r}
    /\ artistRow' = [artistRow EXCEPT ![a] = "gone"]
    /\ RemoveTrackRows(TracksOf(a))
    /\ rowLock' = Unlocked(r)

\* A rollback of r's transaction.
Rollback(r) ==
    /\ rowLock' = Unlocked(r)
    /\ UNCHANGED <<artistRow, trackRow, artistOf, storageKey, contentHash>>

=============================================================================
