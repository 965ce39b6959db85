------------------------------ MODULE Playlists ------------------------------
(***************************************************************************)
(* Playlists and their ordered membership (repository/playlistrepo.go,     *)
(* TrackRepository.DeleteTrack), as concurrent transactions at READ        *)
(* COMMITTED.  Every mutation of a playlist first updates its row, and so  *)
(* waits for the row's lock; the statements after that read what has been  *)
(* committed when they start.                                              *)
(*                                                                         *)
(* A transaction is split where another may come between and see or change *)
(* something: after each lock it takes and after each read.  The writes of *)
(* playlist_tracks are one step with the commit: they are invisible to     *)
(* others before it.                                                       *)
(***************************************************************************)
EXTENDS Naturals, FiniteSets

CONSTANTS
    Playlists,      \* playlist ids, a set of numbers: ids are ordered
    Tracks,         \* track ids
    Txs,            \* transactions that may run at the same time
    QuietDeletes,   \* no track is added to a playlist while it is deleted
    ArtistDeletes   \* artists are deleted as well as tracks

ASSUME PlaylistsAssumption ==
    /\ Playlists \subseteq Nat
    /\ IsFiniteSet(Tracks) /\ IsFiniteSet(Txs)
    /\ QuietDeletes \in BOOLEAN
    /\ ArtistDeletes \in BOOLEAN

VARIABLES
    playlistRow,    \* playlist id -> status of its row
    stamp,          \* updated_at: a new value at each update, here 0 or 1
    trackRow,       \* track id -> status of its row
    inList,         \* playlist id -> the tracks with a membership row
    position,       \* playlist id -> track id -> position, 0 without a row
    tx              \* the transactions in progress

vars == <<playlistRow, stamp, trackRow, inList, position, tx>>
rows == <<playlistRow, stamp, trackRow, inList, position>>

RowStatus == {"unborn", "live", "gone"}

TxPCs == {"idle",
          "add", "remove",              \* begun, about to update the playlist row
          "adding", "removing",         \* its lock is held
          "locking",                    \* DeleteTrack locks the track's playlists
          "locked",                     \* all locked, about to read the memberships
          "read"}                       \* memberships read, about to delete

Membership == [list : Playlists, pos : Nat]

Tx == [pc : TxPCs,
       list : Playlists \cup {0},       \* 0: none
       track : SUBSET Tracks,           \* the track it works on
       wanted : SUBSET Playlists,       \* playlists still to lock
       held : SUBSET Playlists,         \* playlists whose row it locks
       memberships : SUBSET Membership]

IdleTx == [pc |-> "idle", list |-> 0, track |-> {}, wanted |-> {}, held |-> {},
           memberships |-> {}]

Init ==
    /\ playlistRow = [p \in Playlists |-> "unborn"]
    /\ stamp = [p \in Playlists |-> 0]
    /\ trackRow = [t \in Tracks |-> "live"]
    /\ inList = [p \in Playlists |-> {}]
    /\ position = [p \in Playlists |-> [t \in Tracks |-> 0]]
    /\ tx = [x \in Txs |-> IdleTx]

-----------------------------------------------------------------------------
\* The row lock of p is free for x.
Free(p, x) == \A y \in Txs \ {x} : p \notin tx[y].held

End(x) == tx' = [tx EXCEPT ![x] = IdleTx]

Deleting(t) == \E x \in Txs : tx[x].pc \in {"locking", "locked", "read"} /\ t \in tx[x].track

Adding(t) == \E x \in Txs : tx[x].pc \in {"add", "adding"} /\ t \in tx[x].track

\* Mutant: of several playlists only the first is stamped.
StampedFirst(ps) ==
    [p \in Playlists |-> IF p \in ps /\ \A r \in ps : p <= r THEN 1 - stamp[p] ELSE stamp[p]]

Stamped(ps) == [p \in Playlists |-> IF p \in ps THEN 1 - stamp[p] ELSE stamp[p]]

\* The membership rows of playlist p become those of S, at the positions f.
SetMembers(p, S, f) ==
    /\ inList' = [inList EXCEPT ![p] = S]
    /\ position' = [position EXCEPT ![p] = [t \in Tracks |-> IF t \in S THEN f[t] ELSE 0]]

NextPositionByCount(p) == Cardinality(inList[p])        \* mutant: COUNT(*)

\* COALESCE(MAX(position) + 1, 0)
NextPosition(p) ==
    IF inList[p] = {} THEN 0
    ELSE 1 + CHOOSE n \in {position[p][t] : t \in inList[p]} :
               \A t \in inList[p] : position[p][t] <= n

ClosedEverywhere(p, n) == [t \in Tracks |-> position[p][t] - 1]    \* mutant: no WHERE

\* SET position = position - 1 WHERE position > n
Closed(p, n) == [t \in Tracks |-> IF position[p][t] > n THEN position[p][t] - 1 ELSE position[p][t]]

\* UNIQUE (playlist_id, position), checked at the end of the statement.
UniquePositions(S, f) == \A t, u \in S : f[t] = f[u] => t = u

-----------------------------------------------------------------------------
\* CreatePlaylist with the tracks of S at positions 0..n-1: one transaction
\* whose rows nobody sees before it commits.
CreatePlaylist(p, S, f) ==
    /\ playlistRow[p] = "unborn"
    /\ \A t \in S : trackRow[t] = "live" /\ (QuietDeletes => ~Deleting(t))
    /\ UniquePositions(S, f)
    /\ playlistRow' = [playlistRow EXCEPT ![p] = "live"]
    /\ SetMembers(p, S, f)
    /\ UNCHANGED <<stamp, trackRow, tx>>

\* DeletePlaylist: one statement; the memberships cascade.
DeletePlaylist(p) ==
    /\ playlistRow[p] = "live"
    /\ \A x \in Txs : p \notin tx[x].held
    /\ playlistRow' = [playlistRow EXCEPT ![p] = "gone"]
    /\ SetMembers(p, {}, position[p])
    /\ UNCHANGED <<stamp, trackRow, tx>>

-----------------------------------------------------------------------------
BeginAdd(x, p, t) ==
    /\ tx[x].pc = "idle"
    /\ QuietDeletes => ~Deleting(t)
    /\ tx' = [tx EXCEPT ![x] = [IdleTx EXCEPT !.pc = "add", !.list = p, !.track = {t}]]
    /\ UNCHANGED rows

BeginRemove(x, p, t) ==
    /\ tx[x].pc = "idle"
    /\ tx' = [tx EXCEPT ![x] = [IdleTx EXCEPT !.pc = "remove", !.list = p, !.track = {t}]]
    /\ UNCHANGED rows

\* touchPlaylist: waits for the row's lock; a missing row is ErrNotFound,
\* which Abort covers.
TouchPlaylist(x) ==
    /\ tx[x].pc \in {"add", "remove"}
    /\ playlistRow[tx[x].list] = "live"
    /\ Free(tx[x].list, x)
    /\ tx' = [tx EXCEPT ![x] = [@ EXCEPT !.pc = IF tx[x].pc = "add" THEN "adding" ELSE "removing",
                                         !.held = {tx[x].list}]]
    /\ UNCHANGED rows

\* The INSERT ... ON CONFLICT DO NOTHING and the commit.  The foreign key
\* needs the track's row.
AddTrack(x) ==
    /\ tx[x].pc = "adding"
    /\ \E t \in tx[x].track, p \in tx[x].held :
         \/ /\ t \in inList[p]
            /\ UNCHANGED <<inList, position>>
         \/ /\ t \notin inList[p]
            /\ trackRow[t] = "live"
            /\ SetMembers(p, inList[p] \cup {t}, [position[p] EXCEPT ![t] = NextPosition(p)])
    /\ stamp' = Stamped(tx[x].held)
    /\ End(x)
    /\ UNCHANGED <<playlistRow, trackRow>>

\* DELETE ... RETURNING position, the renumbering UPDATE and the commit.
RemoveTrack(x) ==
    /\ tx[x].pc = "removing"
    /\ \E t \in tx[x].track, p \in tx[x].held :
         LET rest == inList[p] \ {t}
             moved == Closed(p, position[p][t])
         IN  /\ t \in inList[p]
             /\ UniquePositions(rest, moved)
             /\ SetMembers(p, rest, moved)
    /\ stamp' = Stamped(tx[x].held)
    /\ End(x)
    /\ UNCHANGED <<playlistRow, trackRow>>

-----------------------------------------------------------------------------
\* DeleteTrack: its first statement finds the playlists the track is in.
BeginDelete(x, t) ==
    /\ tx[x].pc = "idle"
    /\ QuietDeletes => ~Adding(t)
    /\ tx' = [tx EXCEPT ![x] = [IdleTx EXCEPT !.pc = "locking", !.track = {t},
                                              !.wanted = {p \in Playlists : t \in inList[p]}]]
    /\ UNCHANGED rows

NextLockAny(x) == tx[x].wanted        \* mutant: no ORDER BY

\* ORDER BY id FOR UPDATE: the lock to take next.
NextLock(x) == {p \in tx[x].wanted : \A q \in tx[x].wanted : p <= q}

\* Mutant: the playlists are looked up, but neither locked nor stamped.
LockPlaylistNever(x) ==
    /\ tx[x].pc = "locking"
    /\ \E p \in NextLock(x) : tx' = [tx EXCEPT ![x].wanted = @ \ {p}]
    /\ UNCHANGED rows

\* It locks them one by one; a playlist deleted meanwhile drops out.
LockPlaylist(x) ==
    /\ tx[x].pc = "locking"
    /\ \E p \in NextLock(x) :
         /\ Free(p, x)
         /\ tx' = [tx EXCEPT ![x] = [@ EXCEPT
                     !.wanted = tx[x].wanted \ {p},
                     !.held = IF playlistRow[p] = "live" THEN tx[x].held \cup {p} ELSE tx[x].held]]
    /\ UNCHANGED rows

PlaylistsLocked(x) ==
    /\ tx[x].pc = "locking"
    /\ tx[x].wanted = {}
    /\ tx' = [tx EXCEPT ![x].pc = "locked"]
    /\ UNCHANGED rows

\* SELECT playlist_id, position: what is committed by now.
ReadMemberships(x) ==
    /\ tx[x].pc = "locked"
    /\ \E t \in tx[x].track :
         tx' = [tx EXCEPT ![x] = [@ EXCEPT
                 !.pc = "read",
                 !.memberships = {[list |-> p, pos |-> position[p][t]] :
                                   p \in {q \in Playlists : t \in inList[q]}}]]
    /\ UNCHANGED rows

\* DELETE FROM tracks, whose cascade drops every membership of the track, the
\* renumbering of the playlists read, and the commit.
DeleteTrack(x) ==
    /\ tx[x].pc = "read"
    /\ \E t \in tx[x].track :
         LET ms == tx[x].memberships
             moved == [p \in Playlists |->
                        IF \E m \in ms : m.list = p
                        THEN Closed(p, (CHOOSE m \in ms : m.list = p).pos)
                        ELSE position[p]]
             rest == [p \in Playlists |-> inList[p] \ {t}]
         IN  /\ trackRow[t] = "live"
             /\ \A p \in Playlists : UniquePositions(rest[p], moved[p])
             /\ trackRow' = [trackRow EXCEPT ![t] = "gone"]
             /\ inList' = rest
             /\ position' = [p \in Playlists |->
                              [u \in Tracks |-> IF u \in rest[p] THEN moved[p][u] ELSE 0]]
    /\ stamp' = Stamped(tx[x].held)
    /\ End(x)
    /\ UNCHANGED playlistRow

\* ArtistRepository.DeleteArtist: its tracks go, and the cascade drops their
\* memberships; no playlist is locked, stamped or renumbered.
DeleteArtist(ts) ==
    /\ ArtistDeletes
    /\ \A t \in ts : trackRow[t] = "live"
    /\ trackRow' = [t \in Tracks |-> IF t \in ts THEN "gone" ELSE trackRow[t]]
    /\ inList' = [p \in Playlists |-> inList[p] \ ts]
    /\ position' = [p \in Playlists |-> [t \in Tracks |-> IF t \in ts THEN 0 ELSE position[p][t]]]
    /\ UNCHANGED <<playlistRow, stamp, tx>>

\* A statement fails, finds nothing, or the client or the server goes away.
Abort(x) ==
    /\ tx[x].pc # "idle"
    /\ End(x)
    /\ UNCHANGED rows

-----------------------------------------------------------------------------
TxStep(x) ==
    \/ \E p \in Playlists, t \in Tracks : BeginAdd(x, p, t) \/ BeginRemove(x, p, t)
    \/ TouchPlaylist(x) \/ AddTrack(x) \/ RemoveTrack(x)
    \/ \E t \in Tracks : BeginDelete(x, t)
    \/ LockPlaylist(x) \/ PlaylistsLocked(x) \/ ReadMemberships(x) \/ DeleteTrack(x)
    \/ Abort(x)

Next ==
    \/ \E p \in Playlists, S \in SUBSET Tracks :
         \E f \in [S -> 0 .. Cardinality(S) - 1] : CreatePlaylist(p, S, f)
    \/ \E p \in Playlists : DeletePlaylist(p)
    \/ \E ts \in SUBSET Tracks : DeleteArtist(ts)
    \/ \E x \in Txs : TxStep(x)

Spec == Init /\ [][Next]_vars

-----------------------------------------------------------------------------
TypeOK ==
    /\ playlistRow \in [Playlists -> RowStatus]
    /\ stamp \in [Playlists -> {0, 1}]
    /\ trackRow \in [Tracks -> RowStatus]
    /\ inList \in [Playlists -> SUBSET Tracks]
    /\ position \in [Playlists -> [Tracks -> Nat]]
    /\ tx \in [Txs -> Tx]

\* Positions "stay a dense 0..n-1 sequence" (playlistrepo.go): add, remove and
\* delete in any interleaving leave no gap and no duplicate.
Dense ==
    \A p \in Playlists :
        {position[p][t] : t \in inList[p]} = 0 .. Cardinality(inList[p]) - 1

\* A playlist whose contents change gets a new updated_at: "a client using
\* that stamp as a change marker must see it" (trackrepo.go).
ChangeStamped ==
    [][\A p \in Playlists :
         playlistRow[p] = "live" /\ playlistRow'[p] = "live"
         /\ <<inList'[p], position'[p]>> # <<inList[p], position[p]>>
             => stamp'[p] # stamp[p]]_vars

\* The playlist row x is about to lock.
Awaited(x) ==
    CASE tx[x].pc \in {"add", "remove"} -> {tx[x].list}
      [] tx[x].pc = "locking" -> NextLock(x)
      [] OTHER -> {}

WaitsFor(x, y) == x # y /\ Awaited(x) \cap tx[y].held # {}

\* No transactions wait for each other in a circle: "locking in id order rules
\* out a deadlock with a concurrent delete" (trackrepo.go).
NoDeadlock ==
    \A X \in SUBSET Txs : X # {} => \E x \in X : \A y \in X : ~WaitsFor(x, y)

\* The pairs of tracks of p of which the first is played before the second.
Before(p) == {e \in inList[p] \X inList[p] : position[p][e[1]] < position[p][e[2]]}

Order == INSTANCE PlaylistOrder WITH
    listed <- inList,
    before <- [p \in Playlists |-> Before(p)]

\* Whatever races, and even where positions have gaps, a playlist behaves as
\* an ordered set: adds append, removals and deletes keep the others' order.
ImplementsOrder == Order!OrderSpec

=============================================================================
