---------------------------- MODULE PlaylistProofs ----------------------------
(***************************************************************************)
(* Proofs about Playlists and PlaylistReads, for any finite sets of tracks *)
(* and transactions and any playlists.                                     *)
(***************************************************************************)
EXTENDS PlaylistReads, FiniteNumbers, TLAPS

USE PlaylistsAssumption

-----------------------------------------------------------------------------
(***************************************************************************)
(* The inductive invariants behind the properties of Playlists.  The first *)
(* holds whatever races; the second needs that no track is added to a      *)
(* playlist while it is deleted and that no artist is deleted.             *)
(***************************************************************************)
DeletePCs == {"locking", "locked", "read"}

\* A playlist's row is locked by one transaction, and stays while it is.
LocksHeld ==
    /\ \A x, y \in Txs : x # y => tx[x].held \cap tx[y].held = {}
    /\ \A x \in Txs : \A p \in tx[x].held : playlistRow[p] = "live"

\* What a transaction holds and still wants, where it stands: one lock for an
\* add or a removal, locks in the order of the ids for a delete.
TxShape ==
    \A x \in Txs :
        /\ tx[x].pc \in {"idle", "add", "remove"} => tx[x].held = {}
        /\ tx[x].pc \in {"add", "remove"} => tx[x].list \in Playlists
        /\ tx[x].pc \in {"adding", "removing"} => tx[x].held = {tx[x].list}
        /\ tx[x].pc # "locking" => tx[x].wanted = {}
        /\ \A p \in tx[x].held, q \in tx[x].wanted : p < q
        /\ tx[x].pc # "idle" => \E t \in Tracks : tx[x].track = {t}

\* A playlist without a row has no tracks.  No two tracks share a position.
ListsPlaced ==
    \A p \in Playlists :
        /\ playlistRow[p] # "live" => inList[p] = {}
        /\ UniquePositions(inList[p], position[p])
        /\ \A t \in Tracks \ inList[p] : position[p][t] = 0

PlaylistInv ==
    /\ TypeOK
    /\ LocksHeld
    /\ TxShape
    /\ ListsPlaced

-----------------------------------------------------------------------------
\* Nothing adds a track that is being deleted.
AddsApart ==
    \A x, y \in Txs :
        tx[x].pc \in {"add", "adding"} /\ tx[y].pc \in DeletePCs => tx[x].track \cap tx[y].track = {}

\* A delete holds, or is going to lock, every playlist its track is in.
DeletesCover ==
    \A x \in Txs : tx[x].pc \in DeletePCs =>
        \A p \in Playlists : tx[x].track \cap inList[p] # {} => p \in tx[x].held \cup tx[x].wanted

MembershipsOf(t) ==
    {[list |-> p, pos |-> position[p][t]] : p \in {q \in Playlists : t \in inList[q]}}

\* The memberships a delete has read are still the track's.
ReadsCurrent ==
    \A x \in Txs : tx[x].pc = "read" =>
        \A t \in tx[x].track : tx[x].memberships = MembershipsOf(t)

QuietInv ==
    /\ AddsApart
    /\ DeletesCover
    /\ ReadsCurrent
    /\ Dense

-----------------------------------------------------------------------------
\* f puts the elements of S at the places 0 .. n-1.
FullOn(S, f) == {f[t] : t \in S} = 0 .. Cardinality(S) - 1

\* One more element behind the others.
LEMMA FullAppend ==
  ASSUME NEW S, IsFiniteSet(S), NEW t, t \notin S, NEW f, NEW g, FullOn(S, f),
         g[t] = Cardinality(S), \A u \in S : g[u] = f[u]
  PROVE  FullOn(S \cup {t}, g)
  <1> DEFINE n == Cardinality(S)
  <1>1. n \in Nat /\ Cardinality(S \cup {t}) = n + 1
    BY FS_CardinalityType, FS_AddElement
  <1>2. {g[u] : u \in S \cup {t}} = {f[u] : u \in S} \cup {n}
    OBVIOUS
  <1>3. (0 .. n - 1) \cup {n} = 0 .. (n + 1) - 1
    BY <1>1
  <1> QED BY <1>1, <1>2, <1>3 DEF FullOn

\* One element less, and the others close the gap.
LEMMA FullClose ==
  ASSUME NEW S, IsFiniteSet(S), NEW t \in S, NEW f, NEW g, FullOn(S, f), UniquePositions(S, f),
         \A u \in S \ {t} : g[u] = IF f[u] > f[t] THEN f[u] - 1 ELSE f[u]
  PROVE  FullOn(S \ {t}, g)
  <1> DEFINE n == Cardinality(S)
  <1>1. n \in Nat /\ Cardinality(S \ {t}) = n - 1
    BY FS_CardinalityType, FS_RemoveElement
  <1>2. \A u \in S : f[u] \in 0 .. n - 1
    BY DEF FullOn
  <1>3. f[t] \in 0 .. n - 1
    BY <1>2
  <1>4. \A u \in S \ {t} : f[u] # f[t]
    BY DEF UniquePositions
  <1>5. ASSUME NEW u \in S \ {t} PROVE g[u] \in 0 .. (n - 1) - 1
    <2>1. f[u] \in 0 .. n - 1 /\ f[u] # f[t] /\ g[u] = IF f[u] > f[t] THEN f[u] - 1 ELSE f[u]
      BY <1>2, <1>4
    <2> QED BY <1>1, <1>3, <2>1
  <1>6. ASSUME NEW i \in 0 .. (n - 1) - 1 PROVE \E u \in S \ {t} : g[u] = i
    <2> DEFINE j == IF i < f[t] THEN i ELSE i + 1
    <2>1. j \in 0 .. n - 1 /\ j # f[t]
      BY <1>1, <1>3
    <2>2. PICK u \in S : f[u] = j
      BY <2>1 DEF FullOn
    <2>3. u \in S \ {t} /\ g[u] = IF j > f[t] THEN j - 1 ELSE j
      BY <2>1, <2>2
    <2>4. (IF j > f[t] THEN j - 1 ELSE j) = i
      BY <1>1, <1>3
    <2> QED BY <2>3, <2>4
  <1>7. {g[u] : u \in S \ {t}} = 0 .. (n - 1) - 1
    BY <1>5, <1>6
  <1> QED BY <1>1, <1>7 DEF FullOn

\* A new track goes behind all others; on a dense list, to the next place.
LEMMA NextPositionBehind ==
  ASSUME TypeOK, NEW p \in Playlists
  PROVE  /\ NextPosition(p) \in Nat
         /\ \A t \in inList[p] : position[p][t] < NextPosition(p)
         /\ FullOn(inList[p], position[p]) => NextPosition(p) = Cardinality(inList[p])
  <1> DEFINE S == inList[p]
             P == {position[p][t] : t \in S}
  <1>1. S \in SUBSET Tracks /\ IsFiniteSet(S) /\ \A t \in S : position[p][t] \in Nat
    BY FS_Subset DEF TypeOK
  <1>2. IsFiniteSet(P) /\ P \subseteq Nat
    BY <1>1, ImageIsFinite
  <1>3. Cardinality(S) \in Nat /\ (Cardinality(S) = 0 <=> S = {})
    BY <1>1, FS_CardinalityType, FS_EmptySet
  <1>4. CASE S = {}
    BY <1>3, <1>4 DEF NextPosition
  <1>5. CASE S # {}
    <2>1. P # {}
      BY <1>5
    <2>2. \E m \in P : \A n \in P : n <= m
      <3> HIDE DEF P
      <3> QED BY <1>2, <2>1, Largest
    <2>3. PICK m : /\ m \in P /\ NextPosition(p) = 1 + m
                   /\ \A t \in S : position[p][t] <= m
      <3> DEFINE m == CHOOSE n \in P : \A t \in S : position[p][t] <= n
      <3>1. m \in P /\ \A t \in S : position[p][t] <= m
        BY <2>2
      <3>2. NextPosition(p) = 1 + m
        BY <1>5 DEF NextPosition
      <3> HIDE DEF m
      <3> QED BY <3>1, <3>2
    <2>4. NextPosition(p) \in Nat /\ \A t \in S : position[p][t] < NextPosition(p)
      BY <1>1, <1>2, <2>3
    <2>5. ASSUME FullOn(S, position[p]) PROVE NextPosition(p) = Cardinality(S)
      <3>1. P = 0 .. Cardinality(S) - 1
        BY <2>5 DEF FullOn
      <3>2. Cardinality(S) - 1 \in P /\ m \in P
        BY <1>3, <1>5, <2>3, <3>1
      <3>3. Cardinality(S) - 1 <= m /\ m <= Cardinality(S) - 1
        BY <1>3, <2>3, <3>1, <3>2
      <3> QED BY <1>2, <1>3, <2>3, <3>3
    <2> QED BY <2>4, <2>5
  <1> QED BY <1>4, <1>5

-----------------------------------------------------------------------------
LEMMA IdleIsTx == IdleTx \in Tx
  BY DEF IdleTx, Tx, TxPCs

LEMMA PlaylistType ==
  ASSUME TypeOK, TxShape, [Next]_vars
  PROVE  TypeOK'
  <1> USE DEF TypeOK, RowStatus
  <1>1. ASSUME NEW p \in Playlists, NEW S \in SUBSET Tracks,
               NEW f \in [S -> 0 .. Cardinality(S) - 1], CreatePlaylist(p, S, f)
        PROVE  TypeOK'
    <2>1. \A t \in S : f[t] \in Nat
      <3>1. Cardinality(S) \in Nat
        BY FS_Subset, FS_CardinalityType
      <3> QED BY <3>1
    <2>2. [t \in Tracks |-> IF t \in S THEN f[t] ELSE 0] \in [Tracks -> Nat]
      BY <2>1
    <2> QED BY <1>1, <2>2 DEF CreatePlaylist, SetMembers
  <1>2. ASSUME NEW p \in Playlists, DeletePlaylist(p) PROVE TypeOK'
    BY <1>2 DEF DeletePlaylist, SetMembers
  <1>3. ASSUME NEW ts \in SUBSET Tracks, DeleteArtist(ts) PROVE TypeOK'
    BY <1>3 DEF DeleteArtist
  <1>4. ASSUME NEW x \in Txs, TxStep(x) PROVE TypeOK'
    <2>1. ASSUME UNCHANGED rows, NEW v \in Tx, tx' = [tx EXCEPT ![x] = v] PROVE TypeOK'
      BY <2>1 DEF rows
    <2>2. ASSUME NEW p \in Playlists, NEW t \in Tracks, BeginAdd(x, p, t) \/ BeginRemove(x, p, t)
          PROVE  TypeOK'
      <3>1. /\ [IdleTx EXCEPT !.pc = "add", !.list = p, !.track = {t}] \in Tx
            /\ [IdleTx EXCEPT !.pc = "remove", !.list = p, !.track = {t}] \in Tx
        BY DEF IdleTx, Tx, TxPCs
      <3> QED BY <2>1, <2>2, <3>1 DEF BeginAdd, BeginRemove
    <2>3. CASE TouchPlaylist(x)
      <3>1. tx[x] \in Tx /\ tx[x].list \in Playlists
        BY <2>3 DEF TouchPlaylist, TxShape
      <3> DEFINE v == [tx[x] EXCEPT !.pc = IF tx[x].pc = "add" THEN "adding" ELSE "removing",
                                    !.held = {tx[x].list}]
      <3>2. v \in Tx
        BY <3>1 DEF Tx, TxPCs
      <3>3. tx' = [tx EXCEPT ![x] = v] /\ UNCHANGED rows
        BY <2>3 DEF TouchPlaylist
      <3> HIDE DEF v
      <3> QED BY <2>1, <3>2, <3>3
    <2>4. ASSUME NEW t \in Tracks, BeginDelete(x, t) PROVE TypeOK'
      <3>1. [IdleTx EXCEPT !.pc = "locking", !.track = {t},
                           !.wanted = {p \in Playlists : t \in inList[p]}] \in Tx
        BY DEF IdleTx, Tx, TxPCs
      <3> QED BY <2>1, <2>4, <3>1 DEF BeginDelete
    <2>5. CASE LockPlaylist(x) \/ PlaylistsLocked(x)
      <3>1. PICK v \in Tx : tx' = [tx EXCEPT ![x] = v]
        <4>1. tx[x] \in Tx
          OBVIOUS
        <4>2. CASE PlaylistsLocked(x)
          <5>1. [tx[x] EXCEPT !.pc = "locked"] \in Tx
            BY <4>1 DEF Tx, TxPCs
          <5> QED BY <4>2, <5>1 DEF PlaylistsLocked
        <4>3. CASE LockPlaylist(x)
          <5>1. PICK p \in NextLock(x) :
                  tx' = [tx EXCEPT ![x] = [@ EXCEPT
                     !.wanted = tx[x].wanted \ {p},
                     !.held = IF playlistRow[p] = "live" THEN tx[x].held \cup {p} ELSE tx[x].held]]
            BY <4>3 DEF LockPlaylist
          <5>2. p \in Playlists
            BY <4>1 DEF NextLock, Tx
          <5> DEFINE v == [tx[x] EXCEPT !.wanted = tx[x].wanted \ {p},
                             !.held = IF playlistRow[p] = "live" THEN tx[x].held \cup {p} ELSE tx[x].held]
          <5>3. v \in Tx
            BY <4>1, <5>2 DEF Tx
          <5>4. tx' = [tx EXCEPT ![x] = v]
            BY <5>1
          <5> HIDE DEF v
          <5> QED BY <5>3, <5>4
        <4> QED BY <2>5, <4>2, <4>3
      <3> QED BY <2>1, <2>5, <3>1 DEF LockPlaylist, PlaylistsLocked
    <2>6. CASE ReadMemberships(x)
      <3>1. PICK t \in tx[x].track : tx' = [tx EXCEPT ![x] = [@ EXCEPT
                 !.pc = "read",
                 !.memberships = {[list |-> p, pos |-> position[p][t]] :
                                   p \in {q \in Playlists : t \in inList[q]}}]]
        BY <2>6 DEF ReadMemberships
      <3>2. tx[x] \in Tx /\ t \in Tracks
        BY DEF Tx
      <3>3. {[list |-> p, pos |-> position[p][t]] :
                 p \in {q \in Playlists : t \in inList[q]}} \in SUBSET Membership
        BY <3>2 DEF Membership
      <3>4. [tx[x] EXCEPT !.pc = "read",
                 !.memberships = {[list |-> p, pos |-> position[p][t]] :
                                   p \in {q \in Playlists : t \in inList[q]}}] \in Tx
        BY <3>2, <3>3 DEF Tx, TxPCs
      <3> QED BY <2>1, <2>6, <3>1, <3>4 DEF ReadMemberships
    <2>7. CASE Abort(x)
      BY <2>1, <2>7, IdleIsTx DEF Abort, End
    <2>8. ASSUME stamp' = Stamped(tx[x].held), End(x)
          PROVE  stamp' \in [Playlists -> {0, 1}] /\ tx' \in [Txs -> Tx]
      BY <2>8, IdleIsTx DEF Stamped, End
    <2>9. CASE AddTrack(x)
      <3>1. PICK t \in Tracks, p \in Playlists :
              \/ UNCHANGED <<inList, position>>
              \/ SetMembers(p, inList[p] \cup {t}, [position[p] EXCEPT ![t] = NextPosition(p)])
        BY <2>9 DEF AddTrack, Tx
      <3>2. [position[p] EXCEPT ![t] = NextPosition(p)] \in [Tracks -> Nat]
        BY NextPositionBehind
      <3>3. inList' \in [Playlists -> SUBSET Tracks] /\ position' \in [Playlists -> [Tracks -> Nat]]
        BY <3>1, <3>2 DEF SetMembers
      <3> QED BY <2>8, <2>9, <3>3 DEF AddTrack
    <2>10. CASE RemoveTrack(x)
      <3>1. PICK t \in Tracks, p \in Playlists :
              SetMembers(p, inList[p] \ {t}, Closed(p, position[p][t]))
        BY <2>10 DEF RemoveTrack, Tx
      <3>2. Closed(p, position[p][t]) \in [Tracks -> Nat]
        BY DEF Closed
      <3>3. inList' \in [Playlists -> SUBSET Tracks] /\ position' \in [Playlists -> [Tracks -> Nat]]
        BY <3>1, <3>2 DEF SetMembers
      <3> QED BY <2>8, <2>10, <3>3 DEF RemoveTrack
    <2>11. CASE DeleteTrack(x)
      <3> DEFINE ms == tx[x].memberships
                 moved == [p \in Playlists |->
                        IF \E m \in ms : m.list = p
                        THEN Closed(p, (CHOOSE m \in ms : m.list = p).pos)
                        ELSE position[p]]
      <3>1. PICK t \in tx[x].track :
              LET rest == [p \in Playlists |-> inList[p] \ {t}]
              IN  /\ trackRow' = [trackRow EXCEPT ![t] = "gone"]
                  /\ inList' = rest
                  /\ position' = [p \in Playlists |->
                              [u \in Tracks |-> IF u \in rest[p] THEN moved[p][u] ELSE 0]]
        BY <2>11 DEF DeleteTrack
      <3>2. ASSUME NEW p \in Playlists PROVE moved[p] \in [Tracks -> Nat]
        <4>1. ASSUME NEW n \in Nat PROVE Closed(p, n) \in [Tracks -> Nat]
          BY <4>1 DEF Closed
        <4>2. \A m \in ms : m.pos \in Nat
          BY DEF Tx, Membership
        <4> QED BY <4>1, <4>2
      <3>3. inList' \in [Playlists -> SUBSET Tracks] /\ position' \in [Playlists -> [Tracks -> Nat]]
        <4> HIDE DEF moved
        <4> QED BY <3>1, <3>2
      <3> QED BY <2>8, <2>11, <3>1, <3>3 DEF DeleteTrack
    <2> QED BY <1>4, <2>2, <2>3, <2>4, <2>5, <2>6, <2>7, <2>9, <2>10, <2>11 DEF TxStep
  <1>5. CASE UNCHANGED vars
    BY <1>5 DEF vars
  <1> QED BY <1>1, <1>2, <1>3, <1>4, <1>5 DEF Next

-----------------------------------------------------------------------------
\* What each step makes of the transaction that takes it.
LEMMA OthersWait ==
  ASSUME TypeOK, NEW x \in Txs, TxStep(x)
  PROVE  (\A y \in Txs \ {x} : tx'[y] = tx[y]) /\ UNCHANGED playlistRow
  BY DEF TypeOK, TxStep, BeginAdd, BeginRemove, TouchPlaylist, AddTrack, RemoveTrack, BeginDelete,
         LockPlaylist, PlaylistsLocked, ReadMemberships, DeleteTrack, Abort, End, rows

LEMMA BeginStep ==
  ASSUME TypeOK, NEW x \in Txs, NEW p \in Playlists, NEW t \in Tracks,
         BeginAdd(x, p, t) \/ BeginRemove(x, p, t)
  PROVE  /\ (tx'[x].pc = "add" /\ BeginAdd(x, p, t)) \/ tx'[x].pc = "remove"
         /\ tx'[x].list = p /\ tx'[x].track = {t} /\ tx'[x].held = {} /\ tx'[x].wanted = {}
         /\ UNCHANGED rows
  <1>1. CASE BeginAdd(x, p, t)
    <2>1. tx'[x] = [IdleTx EXCEPT !.pc = "add", !.list = p, !.track = {t}] /\ UNCHANGED rows
      BY <1>1 DEF BeginAdd, TypeOK
    <2> QED BY <1>1, <2>1 DEF IdleTx
  <1>2. CASE BeginRemove(x, p, t)
    <2>1. tx'[x] = [IdleTx EXCEPT !.pc = "remove", !.list = p, !.track = {t}] /\ UNCHANGED rows
      BY <1>2 DEF BeginRemove, TypeOK
    <2> QED BY <2>1 DEF IdleTx
  <1> QED BY <1>1, <1>2

LEMMA TouchStep ==
  ASSUME TypeOK, NEW x \in Txs, TouchPlaylist(x)
  PROVE  /\ \/ tx[x].pc = "add" /\ tx'[x].pc = "adding"
            \/ tx[x].pc = "remove" /\ tx'[x].pc = "removing"
         /\ tx'[x].held = {tx[x].list} /\ tx'[x].list = tx[x].list
         /\ tx'[x].track = tx[x].track /\ tx'[x].wanted = tx[x].wanted
         /\ playlistRow[tx[x].list] = "live" /\ Free(tx[x].list, x)
         /\ UNCHANGED rows
  <1>1. tx[x] \in Tx
    BY DEF TypeOK
  <1>2. tx'[x] = [tx[x] EXCEPT !.pc = IF tx[x].pc = "add" THEN "adding" ELSE "removing",
                               !.held = {tx[x].list}]
    BY DEF TouchPlaylist, TypeOK
  <1>3. /\ tx[x].pc \in {"add", "remove"}
        /\ playlistRow[tx[x].list] = "live" /\ Free(tx[x].list, x) /\ UNCHANGED rows
    BY DEF TouchPlaylist
  <1>4. /\ tx'[x].pc = IF tx[x].pc = "add" THEN "adding" ELSE "removing"
        /\ tx'[x].held = {tx[x].list} /\ tx'[x].list = tx[x].list
        /\ tx'[x].track = tx[x].track /\ tx'[x].wanted = tx[x].wanted
    BY <1>1, <1>2 DEF Tx
  <1> QED BY <1>3, <1>4

LEMMA BeginDeleteStep ==
  ASSUME TypeOK, NEW x \in Txs, NEW t \in Tracks, BeginDelete(x, t)
  PROVE  /\ tx'[x].pc = "locking" /\ tx'[x].track = {t} /\ tx'[x].held = {}
         /\ tx'[x].wanted = {p \in Playlists : t \in inList[p]}
         /\ UNCHANGED rows
  <1>1. tx'[x] = [IdleTx EXCEPT !.pc = "locking", !.track = {t},
                                !.wanted = {p \in Playlists : t \in inList[p]}]
    BY DEF BeginDelete, TypeOK
  <1>2. UNCHANGED rows
    BY DEF BeginDelete
  <1> QED BY <1>1, <1>2 DEF IdleTx

LEMMA LockingStep ==
  ASSUME TypeOK, NEW x \in Txs, LockPlaylist(x)
  PROVE  \E p \in Playlists :
           /\ p \in tx[x].wanted /\ \A q \in tx[x].wanted : p <= q
           /\ Free(p, x)
           /\ tx[x].pc = "locking" /\ tx'[x].pc = "locking"
           /\ tx'[x].track = tx[x].track
           /\ tx'[x].wanted = tx[x].wanted \ {p}
           /\ tx'[x].held = IF playlistRow[p] = "live" THEN tx[x].held \cup {p} ELSE tx[x].held
           /\ UNCHANGED rows
  <1>1. tx[x] \in Tx
    BY DEF TypeOK
  <1>2. PICK p \in NextLock(x) :
          /\ Free(p, x)
          /\ tx' = [tx EXCEPT ![x] = [tx[x] EXCEPT
                     !.wanted = tx[x].wanted \ {p},
                     !.held = IF playlistRow[p] = "live" THEN tx[x].held \cup {p} ELSE tx[x].held]]
    BY DEF LockPlaylist
  <1>3. p \in Playlists /\ p \in tx[x].wanted /\ \A q \in tx[x].wanted : p <= q
    BY <1>1 DEF NextLock, Tx
  <1>4. tx'[x] = [tx[x] EXCEPT
                     !.wanted = tx[x].wanted \ {p},
                     !.held = IF playlistRow[p] = "live" THEN tx[x].held \cup {p} ELSE tx[x].held]
    BY <1>2 DEF TypeOK
  <1>5. /\ tx'[x].pc = tx[x].pc /\ tx'[x].track = tx[x].track
        /\ tx'[x].wanted = tx[x].wanted \ {p}
        /\ tx'[x].held = IF playlistRow[p] = "live" THEN tx[x].held \cup {p} ELSE tx[x].held
    BY <1>1, <1>4 DEF Tx
  <1>6. tx[x].pc = "locking" /\ UNCHANGED rows
    BY DEF LockPlaylist
  <1> QED BY <1>2, <1>3, <1>5, <1>6

LEMMA ReadStep ==
  ASSUME TypeOK, NEW x \in Txs, PlaylistsLocked(x) \/ ReadMemberships(x)
  PROVE  /\ \/ tx[x].pc = "locking" /\ tx'[x].pc = "locked" /\ tx[x].wanted = {}
            \/ /\ tx[x].pc = "locked" /\ tx'[x].pc = "read"
               /\ \E t \in tx[x].track : tx'[x].memberships = MembershipsOf(t)
         /\ tx'[x].track = tx[x].track /\ tx'[x].wanted = tx[x].wanted
         /\ tx'[x].held = tx[x].held
         /\ UNCHANGED rows
  <1>1. tx[x] \in Tx
    BY DEF TypeOK
  <1>2. CASE PlaylistsLocked(x)
    BY <1>1, <1>2 DEF PlaylistsLocked, TypeOK, Tx
  <1>3. CASE ReadMemberships(x)
    <2>1. PICK t \in tx[x].track :
            tx' = [tx EXCEPT ![x] = [tx[x] EXCEPT !.pc = "read", !.memberships = MembershipsOf(t)]]
      BY <1>3 DEF ReadMemberships, MembershipsOf
    <2>2. tx'[x] = [tx[x] EXCEPT !.pc = "read", !.memberships = MembershipsOf(t)]
      BY <2>1 DEF TypeOK
    <2> QED BY <1>1, <1>3, <2>2 DEF ReadMemberships, Tx
  <1> QED BY <1>2, <1>3

\* A transaction that ends holds nothing any more.
LEMMA EndStep ==
  ASSUME TypeOK, NEW x \in Txs, AddTrack(x) \/ RemoveTrack(x) \/ DeleteTrack(x) \/ Abort(x)
  PROVE  tx'[x] = IdleTx /\ tx'[x].pc = "idle" /\ tx'[x].held = {} /\ tx'[x].wanted = {}
  <1>1. tx'[x] = IdleTx
    BY DEF TypeOK, AddTrack, RemoveTrack, DeleteTrack, Abort, End
  <1> QED BY <1>1 DEF IdleTx

LEMMA LocksStep ==
  ASSUME PlaylistInv, [Next]_vars
  PROVE  LocksHeld'
  <1> USE DEF PlaylistInv
  <1>1. ASSUME NEW p \in Playlists, NEW S, NEW f, CreatePlaylist(p, S, f) PROVE LocksHeld'
    BY <1>1 DEF CreatePlaylist, LocksHeld, TypeOK
  <1>2. ASSUME NEW p \in Playlists, DeletePlaylist(p) PROVE LocksHeld'
    BY <1>2 DEF DeletePlaylist, LocksHeld, TypeOK
  <1>3. ASSUME NEW x \in Txs, TxStep(x) PROVE LocksHeld'
    <2>1. ASSUME tx'[x].held \subseteq tx[x].held PROVE LocksHeld'
      BY <1>3, <2>1, OthersWait DEF LocksHeld
    <2>2. ASSUME NEW p \in Playlists, tx'[x].held \subseteq tx[x].held \cup {p},
                 playlistRow[p] = "live", Free(p, x)
          PROVE  LocksHeld'
      BY <1>3, <2>2, OthersWait DEF LocksHeld, Free
    <2>3. ASSUME NEW p \in Playlists, NEW t \in Tracks, BeginAdd(x, p, t) \/ BeginRemove(x, p, t)
          PROVE  LocksHeld'
      BY <2>1, <2>3, BeginStep
    <2>4. CASE TouchPlaylist(x)
      <3>1. tx[x].list \in Playlists
        BY <2>4 DEF TouchPlaylist, TxShape
      <3> QED BY <2>2, <2>4, <3>1, TouchStep
    <2>5. ASSUME NEW t \in Tracks, BeginDelete(x, t) PROVE LocksHeld'
      BY <2>1, <2>5, BeginDeleteStep
    <2>6. CASE LockPlaylist(x)
      BY <2>1, <2>2, <2>6, LockingStep
    <2>7. CASE PlaylistsLocked(x) \/ ReadMemberships(x)
      BY <2>1, <2>7, ReadStep
    <2>8. CASE AddTrack(x) \/ RemoveTrack(x) \/ DeleteTrack(x) \/ Abort(x)
      BY <2>1, <2>8, EndStep
    <2> QED BY <1>3, <2>3, <2>4, <2>5, <2>6, <2>7, <2>8 DEF TxStep
  <1>4. CASE (\E ts \in SUBSET Tracks : DeleteArtist(ts)) \/ UNCHANGED vars
    BY <1>4 DEF LocksHeld, DeleteArtist, vars
  <1> QED BY <1>1, <1>2, <1>3, <1>4 DEF Next

LEMMA ShapeStep ==
  ASSUME PlaylistInv, [Next]_vars
  PROVE  TxShape'
  <1> USE DEF PlaylistInv
  <1> DEFINE Shape(x) ==
        /\ tx[x].pc \in {"idle", "add", "remove"} => tx[x].held = {}
        /\ tx[x].pc \in {"add", "remove"} => tx[x].list \in Playlists
        /\ tx[x].pc \in {"adding", "removing"} => tx[x].held = {tx[x].list}
        /\ tx[x].pc # "locking" => tx[x].wanted = {}
        /\ \A p \in tx[x].held, q \in tx[x].wanted : p < q
        /\ tx[x].pc # "idle" => \E t \in Tracks : tx[x].track = {t}
  <1>1. \A x \in Txs : Shape(x)
    BY DEF TxShape
  <1>2. ASSUME NEW x \in Txs, TxStep(x), Shape(x)' PROVE TxShape'
    <2>1. \A y \in Txs \ {x} : Shape(y)'
      BY <1>1, <1>2, OthersWait
    <2> QED BY <1>2, <2>1 DEF TxShape
  <1>3. ASSUME NEW x \in Txs, TxStep(x) PROVE Shape(x)'
    <2>1. ASSUME NEW p \in Playlists, NEW t \in Tracks, BeginAdd(x, p, t) \/ BeginRemove(x, p, t)
          PROVE  Shape(x)'
      BY <2>1, BeginStep
    <2>2. CASE TouchPlaylist(x)
      BY <1>1, <2>2, TouchStep
    <2>3. ASSUME NEW t \in Tracks, BeginDelete(x, t) PROVE Shape(x)'
      BY <2>3, BeginDeleteStep
    <2>4. CASE LockPlaylist(x)
      <3>1. PICK p \in Playlists :
              /\ p \in tx[x].wanted /\ \A q \in tx[x].wanted : p <= q
              /\ tx[x].pc = "locking" /\ tx'[x].pc = "locking"
              /\ tx'[x].track = tx[x].track
              /\ tx'[x].wanted = tx[x].wanted \ {p}
              /\ tx'[x].held \subseteq tx[x].held \cup {p}
        BY <2>4, LockingStep
      <3>2. \A q \in tx[x].wanted : q \in Nat
        BY DEF TypeOK, Tx
      <3>3. \A q \in tx'[x].wanted : p < q
        BY <3>1, <3>2
      <3> QED BY <1>1, <3>1, <3>3
    <2>5. CASE PlaylistsLocked(x) \/ ReadMemberships(x)
      BY <1>1, <2>5, ReadStep
    <2>6. CASE AddTrack(x) \/ RemoveTrack(x) \/ DeleteTrack(x) \/ Abort(x)
      BY <2>6, EndStep
    <2> HIDE DEF Shape
    <2> QED BY <1>3, <2>1, <2>2, <2>3, <2>4, <2>5, <2>6 DEF TxStep
  <1>4. CASE UNCHANGED tx
    BY <1>4 DEF TxShape
  <1> QED BY <1>2, <1>3, <1>4 DEF Next, CreatePlaylist, DeletePlaylist, DeleteArtist, vars

-----------------------------------------------------------------------------
(***************************************************************************)
(* What the writers make of the lists.                                     *)
(***************************************************************************)
Shifted(n, i) == IF i > n THEN i - 1 ELSE i

Kept(p) == inList'[p] = inList[p] /\ position'[p] = position[p]

\* t, and only t, leaves p, and the rest is placed as the database checks.
Leaves(t, p) ==
    /\ inList'[p] = inList[p] \ {t}
    /\ UniquePositions(inList'[p], position'[p])
    /\ \A u \in Tracks \ inList'[p] : position'[p][u] = 0

\* What a delete that has read ms makes of the positions in p.
Renumbers(ms, p) ==
    \/ \E m \in ms : /\ m.list = p
                    /\ \A u \in inList'[p] : position'[p][u] = Shifted(m.pos, position[p][u])
    \/ /\ \A m \in ms : m.list # p
       /\ \A u \in inList'[p] : position'[p][u] = position[p][u]

LEMMA ListStep ==
  ASSUME PlaylistInv, [Next]_vars
  PROVE  \/ UNCHANGED <<playlistRow, inList, position, stamp, trackRow>>
         \/ \E p \in Playlists, S \in SUBSET Tracks :
              \E f \in [S -> 0 .. Cardinality(S) - 1] : CreatePlaylist(p, S, f)
         \/ \E p \in Playlists : DeletePlaylist(p)
         \/ \E ts \in SUBSET Tracks : DeleteArtist(ts)
         \/ \E x \in Txs : AddTrack(x) \/ RemoveTrack(x) \/ DeleteTrack(x)
  BY DEF Next, TxStep, BeginAdd, BeginRemove, TouchPlaylist, BeginDelete, LockPlaylist,
         PlaylistsLocked, ReadMemberships, Abort, rows, vars

LEMMA CreateStep ==
  ASSUME PlaylistInv, NEW p \in Playlists, NEW S \in SUBSET Tracks,
         NEW f \in [S -> 0 .. Cardinality(S) - 1], CreatePlaylist(p, S, f)
  PROVE  /\ playlistRow[p] = "unborn" /\ inList[p] = {}
         /\ inList'[p] = S /\ UniquePositions(S, f)
         /\ \A t \in S : position'[p][t] = f[t]
         /\ \A t \in Tracks \ S : position'[p][t] = 0
         /\ \A q \in Playlists \ {p} : Kept(q) /\ playlistRow'[q] = playlistRow[q]
         /\ UNCHANGED tx
  BY DEF PlaylistInv, TypeOK, ListsPlaced, CreatePlaylist, SetMembers, Kept

LEMMA DropStep ==
  ASSUME PlaylistInv, NEW p \in Playlists, DeletePlaylist(p)
  PROVE  /\ \A x \in Txs : p \notin tx[x].held
         /\ playlistRow'[p] = "gone" /\ inList'[p] = {}
         /\ \A t \in Tracks : position'[p][t] = 0
         /\ \A q \in Playlists \ {p} : Kept(q) /\ playlistRow'[q] = playlistRow[q]
         /\ UNCHANGED tx
  BY DEF PlaylistInv, TypeOK, DeletePlaylist, SetMembers, Kept

LEMMA AddStep ==
  ASSUME PlaylistInv, NEW x \in Txs, AddTrack(x)
  PROVE  \E t \in Tracks, p \in Playlists :
           /\ tx[x].pc = "adding" /\ tx[x].track = {t} /\ tx[x].held = {p}
           /\ \/ Kept(p)
              \/ /\ t \notin inList[p]
                 /\ inList'[p] = inList[p] \cup {t}
                 /\ position'[p] = [position[p] EXCEPT ![t] = NextPosition(p)]
           /\ \A q \in Playlists \ {p} : Kept(q)
           /\ stamp' = Stamped({p})
  <1> USE DEF PlaylistInv, TypeOK
  <1>1. PICK t \in Tracks : tx[x].track = {t}
    BY DEF AddTrack, TxShape
  <1>2. PICK p \in Playlists : tx[x].held = {p}
    <2>1. tx[x].held = {tx[x].list} /\ tx[x].held \subseteq Playlists
      BY DEF AddTrack, TxShape, Tx
    <2> QED BY <2>1
  <1>3. \/ UNCHANGED <<inList, position>>
        \/ /\ t \notin inList[p]
           /\ SetMembers(p, inList[p] \cup {t}, [position[p] EXCEPT ![t] = NextPosition(p)])
    BY <1>1, <1>2 DEF AddTrack
  <1>4. CASE UNCHANGED <<inList, position>>
    BY <1>1, <1>2, <1>4 DEF AddTrack, Kept
  <1>5. ASSUME t \notin inList[p],
               SetMembers(p, inList[p] \cup {t}, [position[p] EXCEPT ![t] = NextPosition(p)])
        PROVE  /\ inList'[p] = inList[p] \cup {t}
               /\ position'[p] = [position[p] EXCEPT ![t] = NextPosition(p)]
               /\ \A q \in Playlists \ {p} : Kept(q)
    <2>1. /\ inList' = [inList EXCEPT ![p] = inList[p] \cup {t}]
          /\ position'[p] = [u \in Tracks |-> IF u \in inList[p] \cup {t}
                               THEN [position[p] EXCEPT ![t] = NextPosition(p)][u] ELSE 0]
          /\ \A q \in Playlists \ {p} : position'[q] = position[q]
      BY <1>5 DEF SetMembers
    <2>2. \A u \in Tracks : u \notin inList[p] => position[p][u] = 0
      BY DEF ListsPlaced
    <2>3. position'[p] = [position[p] EXCEPT ![t] = NextPosition(p)]
      BY <2>1, <2>2
    <2> QED BY <2>1, <2>3 DEF Kept
  <1> QED BY <1>1, <1>2, <1>3, <1>4, <1>5 DEF AddTrack

LEMMA RemoveStep ==
  ASSUME PlaylistInv, NEW x \in Txs, RemoveTrack(x)
  PROVE  \E t \in Tracks, p \in Playlists :
           /\ tx[x].pc = "removing" /\ tx[x].track = {t} /\ tx[x].held = {p}
           /\ t \in inList[p] /\ Leaves(t, p)
           /\ \A u \in inList'[p] : position'[p][u] = Shifted(position[p][t], position[p][u])
           /\ \A q \in Playlists \ {p} : Kept(q)
           /\ stamp' = Stamped({p})
  <1> USE DEF PlaylistInv, TypeOK
  <1>1. PICK t \in Tracks : tx[x].track = {t}
    BY DEF RemoveTrack, TxShape
  <1>2. PICK p \in Playlists : tx[x].held = {p}
    <2>1. tx[x].held = {tx[x].list} /\ tx[x].held \subseteq Playlists
      BY DEF RemoveTrack, TxShape, Tx
    <2> QED BY <2>1
  <1>3. /\ t \in inList[p]
        /\ UniquePositions(inList[p] \ {t}, Closed(p, position[p][t]))
        /\ SetMembers(p, inList[p] \ {t}, Closed(p, position[p][t]))
    BY <1>1, <1>2 DEF RemoveTrack
  <1>4. /\ inList'[p] = inList[p] \ {t}
        /\ \A u \in Tracks : position'[p][u] =
              IF u \in inList[p] \ {t} THEN Closed(p, position[p][t])[u] ELSE 0
        /\ \A q \in Playlists \ {p} : Kept(q)
    BY <1>3 DEF SetMembers, Kept
  <1>5. \A u \in inList'[p] : position'[p][u] = Closed(p, position[p][t])[u] /\ u \in Tracks
    BY <1>4
  <1>6. UniquePositions(inList'[p], position'[p])
    BY <1>3, <1>4, <1>5 DEF UniquePositions
  <1>7. \A u \in inList'[p] : position'[p][u] = Shifted(position[p][t], position[p][u])
    BY <1>5 DEF Closed, Shifted
  <1>8. tx[x].pc = "removing" /\ stamp' = Stamped({p})
    BY <1>2 DEF RemoveTrack
  <1> QED BY <1>1, <1>2, <1>3, <1>4, <1>6, <1>7, <1>8 DEF Leaves

LEMMA DeleteStep ==
  ASSUME PlaylistInv, NEW x \in Txs, DeleteTrack(x)
  PROVE  \E t \in Tracks :
           /\ tx[x].pc = "read" /\ tx[x].track = {t}
           /\ stamp' = Stamped(tx[x].held)
           /\ \A p \in Playlists : Leaves(t, p) /\ Renumbers(tx[x].memberships, p)
  <1> USE DEF PlaylistInv, TypeOK
  <1> DEFINE ms == tx[x].memberships
             moved == [p \in Playlists |->
                        IF \E m \in ms : m.list = p
                        THEN Closed(p, (CHOOSE m \in ms : m.list = p).pos)
                        ELSE position[p]]
  <1>0. PICK t \in tx[x].track :
          LET rest == [p \in Playlists |-> inList[p] \ {t}]
          IN  /\ \A p \in Playlists : UniquePositions(rest[p], moved[p])
              /\ inList' = rest
              /\ position' = [p \in Playlists |->
                                [u \in Tracks |-> IF u \in rest[p] THEN moved[p][u] ELSE 0]]
    BY DEF DeleteTrack
  <1>1. t \in Tracks /\ tx[x].track = {t}
    BY DEF DeleteTrack, TxShape
  <1>2. /\ \A p \in Playlists : UniquePositions(inList[p] \ {t}, moved[p])
        /\ inList' = [p \in Playlists |-> inList[p] \ {t}]
        /\ \A p \in Playlists : \A u \in Tracks :
             position'[p][u] = IF u \in inList[p] \ {t} THEN moved[p][u] ELSE 0
    <2> HIDE DEF moved
    <2> QED BY <1>0
  <1>3. ASSUME NEW p \in Playlists
        PROVE  Leaves(t, p)
    <2> HIDE DEF moved
    <2>1. inList'[p] = inList[p] \ {t} /\ inList'[p] \subseteq Tracks
      BY <1>2
    <2>2. \A u \in inList'[p] : position'[p][u] = moved[p][u]
      BY <1>2, <2>1
    <2>3. UniquePositions(inList'[p], position'[p])
      BY <1>2, <2>1, <2>2 DEF UniquePositions
    <2> QED BY <1>2, <2>1, <2>3 DEF Leaves
  <1>4. ASSUME NEW p \in Playlists PROVE Renumbers(ms, p)
    <2>1. \A u \in inList'[p] : position'[p][u] = moved[p][u] /\ u \in Tracks
      <3> HIDE DEF moved
      <3> QED BY <1>2
    <2>2. CASE \E m \in ms : m.list = p
      <3> DEFINE m == CHOOSE m \in ms : m.list = p
      <3>1. m \in ms /\ m.list = p
        BY <2>2
      <3>2. moved[p] = Closed(p, m.pos)
        BY <2>2
      <3> HIDE DEF m, moved
      <3>3. \A u \in Tracks : moved[p][u] = Shifted(m.pos, position[p][u])
        BY <3>2 DEF Closed, Shifted
      <3> QED BY <2>1, <3>1, <3>3 DEF Renumbers
    <2>3. CASE \A m \in ms : m.list # p
      <3>1. moved[p] = position[p]
        BY <2>3
      <3> HIDE DEF moved
      <3> QED BY <2>1, <2>3, <3>1 DEF Renumbers
    <2> QED BY <2>2, <2>3
  <1>5. tx[x].pc = "read" /\ stamp' = Stamped(tx[x].held)
    BY DEF DeleteTrack
  <1> HIDE DEF moved
  <1> QED BY <1>1, <1>3, <1>4, <1>5

LEMMA PlacedStep ==
  ASSUME PlaylistInv, [Next]_vars
  PROVE  ListsPlaced'
  <1> USE DEF PlaylistInv
  <1> DEFINE Placed(p) ==
        /\ playlistRow[p] # "live" => inList[p] = {}
        /\ UniquePositions(inList[p], position[p])
        /\ \A t \in Tracks \ inList[p] : position[p][t] = 0
  <1>1. \A p \in Playlists : Placed(p)
    BY DEF ListsPlaced
  <1>2. ASSUME NEW q \in Playlists, Kept(q), playlistRow'[q] = playlistRow[q] PROVE Placed(q)'
    BY <1>1, <1>2 DEF Kept
  <1>3. CASE UNCHANGED <<playlistRow, inList, position, stamp, trackRow>>
    BY <1>1, <1>3 DEF ListsPlaced
  <1>4. ASSUME NEW p \in Playlists, NEW S \in SUBSET Tracks,
               NEW f \in [S -> 0 .. Cardinality(S) - 1], CreatePlaylist(p, S, f)
        PROVE  ListsPlaced'
    <2>1. Placed(p)'
      <3>1. playlistRow'[p] = "live"
        BY <1>4 DEF CreatePlaylist, TypeOK
      <3> QED BY <1>4, <3>1, CreateStep DEF UniquePositions
    <2>2. \A q \in Playlists \ {p} : Placed(q)'
      <3> HIDE DEF Placed
      <3> QED BY <1>2, <1>4, CreateStep
    <2> QED BY <2>1, <2>2 DEF ListsPlaced
  <1>5. ASSUME NEW p \in Playlists, DeletePlaylist(p) PROVE ListsPlaced'
    <2>1. Placed(p)'
      BY <1>5, DropStep DEF UniquePositions
    <2>2. \A q \in Playlists \ {p} : Placed(q)'
      <3> HIDE DEF Placed
      <3> QED BY <1>2, <1>5, DropStep
    <2> QED BY <2>1, <2>2 DEF ListsPlaced
  <1>6. ASSUME NEW ts \in SUBSET Tracks, DeleteArtist(ts), NEW p \in Playlists PROVE Placed(p)'
    <2>1. /\ inList'[p] = inList[p] \ ts /\ UNCHANGED playlistRow
          /\ \A t \in Tracks : position'[p][t] = IF t \in ts THEN 0 ELSE position[p][t]
      BY <1>6 DEF DeleteArtist
    <2>2. inList[p] \subseteq Tracks
      BY DEF TypeOK
    <2>3. UniquePositions(inList'[p], position'[p])
      BY <1>1, <2>1, <2>2 DEF UniquePositions
    <2> QED BY <1>1, <2>1, <2>3
  <1>7. ASSUME NEW x \in Txs, AddTrack(x) PROVE ListsPlaced'
    <2>1. PICK t \in Tracks, p \in Playlists :
           /\ tx[x].held = {p}
           /\ \/ Kept(p)
              \/ /\ t \notin inList[p]
                 /\ inList'[p] = inList[p] \cup {t}
                 /\ position'[p] = [position[p] EXCEPT ![t] = NextPosition(p)]
           /\ \A q \in Playlists \ {p} : Kept(q)
      BY <1>7, AddStep
    <2>2. UNCHANGED playlistRow /\ playlistRow[p] = "live"
      BY <1>7, <2>1 DEF AddTrack, LocksHeld
    <2>3. ASSUME t \notin inList[p], inList'[p] = inList[p] \cup {t},
                 position'[p] = [position[p] EXCEPT ![t] = NextPosition(p)]
          PROVE  Placed(p)'
      <3>1. position[p] \in [Tracks -> Nat] /\ inList[p] \subseteq Tracks
        BY DEF TypeOK
      <3>2. position'[p][t] = NextPosition(p) /\ \A u \in Tracks \ {t} : position'[p][u] = position[p][u]
        BY <2>3, <3>1
      <3>3. \A u \in inList[p] : position[p][u] # NextPosition(p)
        BY <3>1, NextPositionBehind
      <3>4. UniquePositions(inList'[p], position'[p])
        BY <1>1, <2>3, <3>1, <3>2, <3>3 DEF UniquePositions
      <3> QED BY <1>1, <2>2, <2>3, <3>2, <3>4
    <2>4. \A q \in Playlists : Placed(q)'
      <3> HIDE DEF Placed
      <3> QED BY <1>2, <2>1, <2>2, <2>3
    <2> QED BY <2>4 DEF ListsPlaced
  <1>8. ASSUME NEW x \in Txs, RemoveTrack(x) PROVE ListsPlaced'
    <2>1. PICK t \in Tracks, p \in Playlists :
           tx[x].held = {p} /\ Leaves(t, p) /\ \A q \in Playlists \ {p} : Kept(q)
      BY <1>8, RemoveStep
    <2>2. UNCHANGED playlistRow /\ playlistRow[p] = "live"
      BY <1>8, <2>1 DEF RemoveTrack, LocksHeld
    <2>3. Placed(p)'
      BY <2>1, <2>2 DEF Leaves
    <2>4. \A q \in Playlists : Placed(q)'
      <3> HIDE DEF Placed
      <3> QED BY <1>2, <2>1, <2>2, <2>3
    <2> QED BY <2>4 DEF ListsPlaced
  <1>9. ASSUME NEW x \in Txs, DeleteTrack(x) PROVE ListsPlaced'
    <2>1. PICK t \in Tracks : \A p \in Playlists : Leaves(t, p)
      BY <1>9, DeleteStep
    <2>2. UNCHANGED playlistRow
      BY <1>9 DEF DeleteTrack
    <2>3. \A p \in Playlists : Placed(p)'
      BY <1>1, <2>1, <2>2 DEF Leaves
    <2> QED BY <2>3 DEF ListsPlaced
  <1>10. (\E ts \in SUBSET Tracks : DeleteArtist(ts)) => ListsPlaced'
    <2> HIDE DEF Placed
    <2>1. (\E ts \in SUBSET Tracks : DeleteArtist(ts)) => \A p \in Playlists : Placed(p)'
      BY <1>6
    <2> QED BY <2>1 DEF ListsPlaced, Placed
  <1> QED BY <1>3, <1>4, <1>5, <1>7, <1>8, <1>9, <1>10, ListStep

LEMMA PlaylistStart == Init => PlaylistInv
  <1> SUFFICES ASSUME Init PROVE PlaylistInv
    OBVIOUS
  <1>1. TypeOK
    BY IdleIsTx DEF Init, TypeOK, RowStatus
  <1>2. \A x \in Txs : tx[x].pc = "idle" /\ tx[x].held = {} /\ tx[x].wanted = {}
    BY DEF Init, IdleTx
  <1>3. LocksHeld /\ TxShape
    BY <1>2 DEF LocksHeld, TxShape
  <1>4. ListsPlaced
    BY DEF Init, ListsPlaced, UniquePositions
  <1> QED BY <1>1, <1>3, <1>4 DEF PlaylistInv

LEMMA PlaylistAlways == Spec => []PlaylistInv
  <1>1. PlaylistInv /\ [Next]_vars => PlaylistInv'
    BY PlaylistType, LocksStep, ShapeStep, PlacedStep DEF PlaylistInv
  <1> QED BY <1>1, PlaylistStart, PTL DEF Spec

-----------------------------------------------------------------------------
\* Every row and every transaction keeps its type, whatever interleaves.
THEOREM PlaylistTypeCorrect == Spec => []TypeOK
  <1>1. PlaylistInv => TypeOK
    BY DEF PlaylistInv
  <1> QED BY <1>1, PlaylistAlways, PTL

\* A transaction waits for a row beyond all it holds.
LEMMA WaitsBeyond ==
  ASSUME PlaylistInv, NEW x \in Txs, NEW p \in Awaited(x)
  PROVE  /\ p \in Nat /\ Awaited(x) = {p}
         /\ \A q \in tx[x].held : q < p
  <1> USE DEF PlaylistInv
  <1>1. CASE tx[x].pc \in {"add", "remove"}
    <2>1. p = tx[x].list /\ Awaited(x) = {p}
      BY <1>1 DEF Awaited
    <2> QED BY <1>1, <2>1 DEF TxShape
  <1>2. CASE tx[x].pc = "locking"
    <2>1. Awaited(x) = NextLock(x)
      BY <1>2 DEF Awaited
    <2>2. \A q \in tx[x].wanted : q \in Nat
      BY DEF TypeOK, Tx
    <2>3. p \in tx[x].wanted /\ \A q \in NextLock(x) : q <= p /\ p <= q /\ q \in Nat
      BY <2>1, <2>2 DEF NextLock
    <2>4. \A q \in NextLock(x) : q = p
      BY <2>2, <2>3
    <2> QED BY <2>1, <2>2, <2>3, <2>4 DEF TxShape
  <1>3. CASE tx[x].pc \notin {"add", "remove", "locking"}
    BY <1>3 DEF Awaited
  <1> QED BY <1>1, <1>2, <1>3

\* No set of transactions waits on itself in a circle, however many playlists
\* each works on: one of those that wait for the highest playlist id waits for
\* nobody, since whoever holds it waits for one still higher, or for none.
THEOREM NoDeadlocks == Spec => []NoDeadlock
  <1>1. ASSUME PlaylistInv PROVE NoDeadlock
    <2> SUFFICES ASSUME NEW X \in SUBSET Txs, X # {},
                        \A x \in X : \E y \in X : WaitsFor(x, y)
                 PROVE  FALSE
      BY DEF NoDeadlock
    <2> DEFINE goal == [x \in X |-> CHOOSE p : p \in Awaited(x)]
    <2>1. \A x \in X : goal[x] \in Awaited(x)
      BY DEF WaitsFor
    <2>2. \A x \in X : goal[x] \in Nat /\ Awaited(x) = {goal[x]} /\ \A q \in tx[x].held : q < goal[x]
      <3> HIDE DEF goal
      <3> QED BY <1>1, <2>1, WaitsBeyond
    <2>3. IsFiniteSet(X)
      BY FS_Subset
    <2> HIDE DEF goal
    <2>4. \A x \in X : \E y \in X : goal[x] < goal[y]
      BY <2>2 DEF WaitsFor
    <2> QED BY <2>2, <2>3, <2>4, NoEndlessRise
  <1>2. PlaylistInv => NoDeadlock
    BY <1>1
  <1> QED BY <1>2, PlaylistAlways, PTL

-----------------------------------------------------------------------------
(***************************************************************************)
(* The refinement of PlaylistOrder, stale renumberings included: a shift   *)
(* can make two positions equal, which the database refuses, but never     *)
(* swap them.                                                              *)
(***************************************************************************)
LEMMA ShiftKeepsOrder ==
  ASSUME NEW n \in Nat, NEW i \in Nat, NEW j \in Nat,
         Shifted(n, i) = Shifted(n, j) => i = j
  PROVE  Shifted(n, i) < Shifted(n, j) <=> i < j
  BY DEF Shifted

\* Where tracks leave and the others keep their order, so do the pairs.
LEMMA BeforeLeaves ==
  ASSUME NEW p \in Playlists, NEW G, inList'[p] = inList[p] \ G,
         \A u, v \in inList'[p] : position'[p][u] < position'[p][v] <=> position[p][u] < position[p][v]
  PROVE  Before(p)' = Before(p) \cap ((inList[p] \ G) \X (inList[p] \ G))
  BY DEF Before

LEMMA BeforeKept ==
  ASSUME NEW p \in Playlists, Kept(p)
  PROVE  Before(p)' = Before(p) /\ Before(p) \cap (inList[p] \X inList[p]) = Before(p)
  BY DEF Before, Kept

\* The order is one of distinct tracks.
LEMMA BeforeIsStrict ==
  ASSUME PlaylistInv, NEW p \in Playlists
  PROVE  Order!StrictOrder(Before(p), inList[p])
  <1> DEFINE S == inList[p]
  <1>1. /\ \A t \in S : position[p][t] \in Nat
        /\ \A t, u \in S : position[p][t] = position[p][u] => t = u
    BY DEF PlaylistInv, TypeOK, ListsPlaced, UniquePositions
  <1>2. \A a, b \in S : <<a, b>> \in Before(p) <=> position[p][a] < position[p][b]
    BY DEF Before
  <1>3. Before(p) \subseteq S \X S
    BY DEF Before
  <1>4. \A a, b \in S : <<a, b>> \in Before(p) <=> ~(a = b \/ <<b, a>> \in Before(p))
    <2> SUFFICES ASSUME NEW a \in S, NEW b \in S
                 PROVE  position[p][a] < position[p][b]
                          <=> ~(a = b \/ position[p][b] < position[p][a])
      BY <1>2
    <2>1. position[p][a] \in Nat /\ position[p][b] \in Nat
      BY <1>1
    <2>2. a = b <=> position[p][a] = position[p][b]
      BY <1>1
    <2> QED BY <2>1, <2>2
  <1>5. \A a, b, c \in S : <<a, b>> \in Before(p) /\ <<b, c>> \in Before(p) => <<a, c>> \in Before(p)
    BY <1>1, <1>2
  <1> QED BY <1>3, <1>4, <1>5 DEF Order!StrictOrder, Order!Pairs

LEMMA OrderStep ==
  ASSUME PlaylistInv, TypeOK', \A p \in Playlists : Order!StrictOrder(Before(p), inList[p])',
         [Next]_vars
  PROVE  [Order!OrderNext]_(Order!orderVars)
  <1> DEFINE bef == [p \in Playlists |-> Before(p)]
             Goal == [Order!OrderNext]_(Order!orderVars)
  <1> SUFFICES Goal
    OBVIOUS
  <1> USE DEF PlaylistInv
  <1>0. /\ inList \in [Playlists -> SUBSET Tracks] /\ inList' \in [Playlists -> SUBSET Tracks]
        /\ \A p \in Playlists : \A t \in Tracks : position[p][t] \in Nat
    BY DEF TypeOK
  <1>1. CASE \A p \in Playlists : Kept(p)
    <2>1. inList' = inList
      <3>1. \A p \in Playlists : inList'[p] = inList[p]
        BY <1>1 DEF Kept
      <3>2. inList = [p \in Playlists |-> inList[p]] /\ inList' = [p \in Playlists |-> inList'[p]]
        BY <1>0
      <3> QED BY <3>1, <3>2
    <2>2. bef' = bef
      BY <1>1, BeforeKept
    <2> QED BY <2>1, <2>2 DEF Order!orderVars
  \* Whoever leaves, if the others keep their order.
  <1>2. ASSUME NEW gone,
               \A p \in Playlists : /\ inList'[p] = inList[p] \ gone[p]
                                    /\ Before(p)' = Before(p) \cap ((inList[p] \ gone[p]) \X (inList[p] \ gone[p]))
        PROVE  Order!Leave(gone)
    <2>1. inList' = [p \in Playlists |-> inList[p] \ gone[p]]
      BY <1>0, <1>2
    <2>2. bef' = [p \in Playlists |-> bef[p] \cap ((inList[p] \ gone[p]) \X (inList[p] \ gone[p]))]
      BY <1>2
    <2> QED BY <2>1, <2>2 DEF Order!Leave, Order!Pairs
  <1>3. ASSUME NEW p \in Playlists, Kept(p), NEW G, inList[p] \cap G = {}
        PROVE  /\ inList'[p] = inList[p] \ G
               /\ Before(p)' = Before(p) \cap ((inList[p] \ G) \X (inList[p] \ G))
    <2>1. inList[p] \ G = inList[p]
      BY <1>3
    <2> QED BY <1>3, <2>1, BeforeKept DEF Kept
  <1>4. ASSUME NEW p \in Playlists, NEW S \in SUBSET Tracks,
               NEW f \in [S -> 0 .. Cardinality(S) - 1], CreatePlaylist(p, S, f)
        PROVE  Order!OrderNext
    <2>1. inList[p] = {} /\ inList'[p] = S /\ \A q \in Playlists \ {p} : Kept(q)
      BY <1>4, CreateStep
    <2>2. inList' = [inList EXCEPT ![p] = inList'[p]]
      BY <1>0, <2>1 DEF Kept
    <2>3. bef' = [bef EXCEPT ![p] = bef'[p]]
      BY <2>1, BeforeKept
    <2>4. Order!StrictOrder(bef'[p], inList'[p])
      OBVIOUS
    <2>5. Order!Create(p)
      BY <2>1, <2>2, <2>3, <2>4 DEF Order!Create
    <2> QED BY <2>5 DEF Order!OrderNext
  <1>5. ASSUME NEW p \in Playlists, DeletePlaylist(p) PROVE Order!OrderNext
    <2> DEFINE gone == [q \in Playlists |-> IF q = p THEN Tracks ELSE {}]
    <2>1. inList'[p] = {} /\ \A q \in Playlists \ {p} : Kept(q)
      BY <1>5, DropStep
    <2>2. Before(p)' = {} /\ inList[p] \ Tracks = {}
      BY <1>0, <2>1 DEF Before
    <2>3. /\ inList'[p] = inList[p] \ gone[p]
          /\ Before(p)' = Before(p) \cap ((inList[p] \ gone[p]) \X (inList[p] \ gone[p]))
      BY <2>1, <2>2
    <2>4. ASSUME NEW q \in Playlists, q # p
          PROVE  /\ inList'[q] = inList[q] \ gone[q]
                 /\ Before(q)' = Before(q) \cap ((inList[q] \ gone[q]) \X (inList[q] \ gone[q]))
      <3>1. Kept(q) /\ inList[q] \cap gone[q] = {}
        BY <2>1, <2>4
      <3> HIDE DEF gone
      <3> QED BY <1>3, <3>1
    <2>5. Order!Leave(gone)
      <3> HIDE DEF gone
      <3> QED BY <1>2, <2>3, <2>4
    <2> QED BY <2>5 DEF Order!OrderNext, Order!DropPlaylist
  <1>6. ASSUME NEW ts \in SUBSET Tracks, DeleteArtist(ts) PROVE Order!OrderNext
    <2> DEFINE gone == [q \in Playlists |-> ts]
    <2>1. ASSUME NEW q \in Playlists
          PROVE  /\ inList'[q] = inList[q] \ ts
                 /\ Before(q)' = Before(q) \cap ((inList[q] \ ts) \X (inList[q] \ ts))
      <3>1. inList'[q] = inList[q] \ ts /\ \A u \in inList'[q] : position'[q][u] = position[q][u]
        BY <1>0, <1>6 DEF DeleteArtist
      <3> QED BY <3>1, BeforeLeaves
    <2>2. Order!Leave(gone)
      BY <1>2, <2>1
    <2>3. Order!DropTracks(ts)
      BY <2>2 DEF Order!DropTracks
    <2> QED BY <2>3 DEF Order!OrderNext
  <1>7. ASSUME NEW x \in Txs, AddTrack(x) PROVE Goal
    <2>1. PICK t \in Tracks, p \in Playlists :
           /\ \/ Kept(p)
              \/ /\ t \notin inList[p]
                 /\ inList'[p] = inList[p] \cup {t}
                 /\ position'[p] = [position[p] EXCEPT ![t] = NextPosition(p)]
           /\ \A q \in Playlists \ {p} : Kept(q)
      BY <1>7, AddStep
    <2>2. CASE Kept(p)
      BY <1>1, <2>1, <2>2
    <2>3. ASSUME t \notin inList[p], inList'[p] = inList[p] \cup {t},
                 position'[p] = [position[p] EXCEPT ![t] = NextPosition(p)]
          PROVE  Order!Append(p, t)
      <3>1. position[p] \in [Tracks -> Nat] /\ inList[p] \subseteq Tracks
        BY DEF TypeOK
      <3>2. /\ position'[p][t] = NextPosition(p) /\ NextPosition(p) \in Nat
            /\ \A u \in inList[p] : position'[p][u] = position[p][u] /\ position[p][u] \in Nat
            /\ \A u \in inList[p] : position[p][u] < NextPosition(p)
        BY <2>3, <3>1, NextPositionBehind
      <3>3. ASSUME NEW u \in inList'[p], NEW v \in inList'[p]
            PROVE  position'[p][u] < position'[p][v]
                     <=> <<u, v>> \in Before(p) \cup (inList[p] \X {t})
        <4>1. <<u, v>> \in Before(p) <=>
                u \in inList[p] /\ v \in inList[p] /\ position[p][u] < position[p][v]
          BY DEF Before
        <4>2. CASE u = t
          BY <2>3, <3>2, <4>1, <4>2
        <4>3. CASE u \in inList[p] /\ v = t
          BY <2>3, <3>2, <4>1, <4>3
        <4>4. CASE u \in inList[p] /\ v \in inList[p]
          BY <2>3, <3>2, <4>1, <4>4
        <4> QED BY <2>3, <4>2, <4>3, <4>4
      <3>4. Before(p)' = Before(p) \cup (inList[p] \X {t})
        <4>1. Before(p) \cup (inList[p] \X {t}) \subseteq inList'[p] \X inList'[p]
          BY <2>3 DEF Before
        <4>2. Before(p)' \subseteq inList'[p] \X inList'[p]
          BY DEF Before
        <4>3. \A u, v \in inList'[p] :
                <<u, v>> \in Before(p)' <=> <<u, v>> \in Before(p) \cup (inList[p] \X {t})
          BY <3>3 DEF Before
        <4> QED BY <4>1, <4>2, <4>3
      <3>5. bef' = [bef EXCEPT ![p] = bef[p] \cup (inList[p] \X {t})]
        BY <2>1, <3>4, BeforeKept
      <3>6. inList' = [inList EXCEPT ![p] = inList[p] \cup {t}]
        BY <1>0, <2>1, <2>3 DEF Kept
      <3> QED BY <2>3, <3>5, <3>6 DEF Order!Append
    <2> QED BY <2>1, <2>2, <2>3 DEF Order!OrderNext
  <1>8. ASSUME NEW x \in Txs, RemoveTrack(x) PROVE Order!OrderNext
    <2>1. PICK t \in Tracks, p \in Playlists :
           /\ t \in inList[p] /\ Leaves(t, p)
           /\ \A u \in inList'[p] : position'[p][u] = Shifted(position[p][t], position[p][u])
           /\ \A q \in Playlists \ {p} : Kept(q)
      BY <1>8, RemoveStep
    <2> DEFINE gone == [q \in Playlists |-> IF q = p THEN {t} ELSE {}]
    <2>2. \A u, v \in inList'[p] : position'[p][u] < position'[p][v] <=> position[p][u] < position[p][v]
      BY <1>0, <2>1, ShiftKeepsOrder DEF Leaves, UniquePositions
    <2>3. /\ inList'[p] = inList[p] \ {t}
          /\ Before(p)' = Before(p) \cap ((inList[p] \ {t}) \X (inList[p] \ {t}))
      BY <2>1, <2>2, BeforeLeaves DEF Leaves
    <2>4. ASSUME NEW q \in Playlists, q # p
          PROVE  /\ inList'[q] = inList[q] \ gone[q]
                 /\ Before(q)' = Before(q) \cap ((inList[q] \ gone[q]) \X (inList[q] \ gone[q]))
      <3>1. Kept(q) /\ inList[q] \cap gone[q] = {}
        BY <2>1, <2>4
      <3> HIDE DEF gone
      <3> QED BY <1>3, <3>1
    <2>5. Order!Leave(gone)
      <3>1. gone[p] = {t}
        OBVIOUS
      <3> HIDE DEF gone
      <3> QED BY <1>2, <2>3, <2>4, <3>1
    <2> QED BY <2>5 DEF Order!OrderNext, Order!Remove
  <1>9. ASSUME NEW x \in Txs, DeleteTrack(x) PROVE Order!OrderNext
    <2>1. PICK t \in Tracks : \A p \in Playlists : Leaves(t, p) /\ Renumbers(tx[x].memberships, p)
      BY <1>9, DeleteStep
    <2> DEFINE gone == [q \in Playlists |-> {t}]
    <2>2. ASSUME NEW p \in Playlists
          PROVE  /\ inList'[p] = inList[p] \ {t}
                 /\ Before(p)' = Before(p) \cap ((inList[p] \ {t}) \X (inList[p] \ {t}))
      <3>1. \A m \in tx[x].memberships : m.pos \in Nat
        BY DEF TypeOK, Tx, Membership
      <3>2. \A u, v \in inList'[p] : position'[p][u] < position'[p][v] <=> position[p][u] < position[p][v]
        BY <1>0, <2>1, <3>1, ShiftKeepsOrder DEF Leaves, Renumbers, UniquePositions
      <3> QED BY <2>1, <3>2, BeforeLeaves DEF Leaves
    <2>3. Order!Leave(gone)
      BY <1>2, <2>2
    <2>4. Order!DropTracks({t})
      BY <2>3 DEF Order!DropTracks
    <2> QED BY <2>4 DEF Order!OrderNext
  <1>10. CASE UNCHANGED <<playlistRow, inList, position, stamp, trackRow>>
    BY <1>1, <1>10 DEF Kept
  <1> HIDE DEF Goal
  <1>11. Order!OrderNext => Goal
    BY DEF Goal
  <1> QED BY <1>4, <1>5, <1>6, <1>7, <1>8, <1>9, <1>10, <1>11, ListStep

\* Through any interleaving, with deletes that renumber from what they read
\* too early and with artists deleted, a playlist stays an order of distinct
\* tracks in which adds append and everything else keeps the order.
THEOREM PlaylistsImplementOrder == Spec => ImplementsOrder
  <1> DEFINE Strict == \A p \in Playlists : Order!StrictOrder(Before(p), inList[p])
  <1>1. PlaylistInv => Strict /\ TypeOK
    BY BeforeIsStrict DEF PlaylistInv
  <1>2. PlaylistInv /\ TypeOK' /\ Strict' /\ [Next]_vars => [Order!OrderNext]_(Order!orderVars)
    BY OrderStep
  <1>3. Init => Order!OrderInit
    BY DEF Init, Order!OrderInit, Before
  <1> QED BY <1>1, <1>2, <1>3, PlaylistAlways, PTL DEF Spec, ImplementsOrder, Order!OrderSpec

-----------------------------------------------------------------------------
(***************************************************************************)
(* Where deletes are quiet, what a delete has read of its track stays true *)
(* until it commits: whoever changes a playlist holds its row.             *)
(***************************************************************************)
Quiet == QuietDeletes /\ ~ArtistDeletes

LEMMA QuietDeleteStep ==
  ASSUME PlaylistInv, QuietInv, TypeOK', NEW x \in Txs, DeleteTrack(x)
  PROVE  \E t \in Tracks :
           /\ tx[x].pc = "read" /\ tx[x].track = {t}
           /\ stamp' = Stamped(tx[x].held)
           /\ \A p \in Playlists :
                \/ t \notin inList[p] /\ Kept(p)
                \/ /\ t \in inList[p] /\ p \in tx[x].held /\ Leaves(t, p)
                   /\ \A u \in inList'[p] : position'[p][u] = Shifted(position[p][t], position[p][u])
  <1> USE DEF PlaylistInv
  <1>1. PICK t \in Tracks :
           /\ tx[x].pc = "read" /\ tx[x].track = {t}
           /\ stamp' = Stamped(tx[x].held)
           /\ \A p \in Playlists : Leaves(t, p) /\ Renumbers(tx[x].memberships, p)
    BY DeleteStep
  <1>2. tx[x].memberships = MembershipsOf(t)
    BY <1>1 DEF QuietInv, ReadsCurrent
  <1>3. ASSUME NEW p \in Playlists, t \notin inList[p] PROVE Kept(p)
    <2>1. \A m \in tx[x].memberships : m.list # p
      BY <1>2, <1>3 DEF MembershipsOf
    <2>2. inList'[p] = inList[p]
      <3>1. inList'[p] = inList[p] \ {t}
        BY <1>1 DEF Leaves
      <3> QED BY <1>3, <3>1
    <2>3. \A u \in inList[p] : position'[p][u] = position[p][u]
      BY <1>1, <2>1, <2>2 DEF Renumbers
    <2>4. \A u \in Tracks \ inList[p] : position'[p][u] = 0 /\ position[p][u] = 0
      BY <1>1, <2>2 DEF Leaves, ListsPlaced
    <2>5. position[p] \in [Tracks -> Nat] /\ position'[p] \in [Tracks -> Nat]
      BY DEF TypeOK
    <2>6. position'[p] = position[p]
      BY <2>3, <2>4, <2>5
    <2> QED BY <2>2, <2>6 DEF Kept
  <1>4. ASSUME NEW p \in Playlists, t \in inList[p]
        PROVE  /\ p \in tx[x].held
               /\ \A u \in inList'[p] : position'[p][u] = Shifted(position[p][t], position[p][u])
    <2>1. p \in tx[x].held
      BY <1>1, <1>4 DEF QuietInv, DeletesCover, DeletePCs, TxShape
    <2>2. [list |-> p, pos |-> position[p][t]] \in tx[x].memberships
      BY <1>2, <1>4 DEF MembershipsOf
    <2>3. \A m \in tx[x].memberships : m.list = p => m.pos = position[p][t]
      BY <1>2 DEF MembershipsOf
    <2> QED BY <1>1, <2>1, <2>2, <2>3 DEF Renumbers
  <1> QED BY <1>1, <1>3, <1>4

\* Whoever changes a playlist holds its row, but for its creation and its
\* deletion, which finds the row free.
LEMMA HolderWrites ==
  ASSUME PlaylistInv, QuietInv, TypeOK', ~ArtistDeletes, [Next]_vars, NEW p \in Playlists, ~Kept(p)
  PROVE  \/ playlistRow[p] = "unborn"
         \/ playlistRow'[p] = "gone" /\ \A x \in Txs : p \notin tx[x].held
         \/ \E x \in Txs : /\ p \in tx[x].held
                           /\ stamp' = Stamped(tx[x].held)
                           /\ tx'[x].pc = "idle"
  <1>1. ASSUME NEW q \in Playlists, NEW S \in SUBSET Tracks,
               NEW f \in [S -> 0 .. Cardinality(S) - 1], CreatePlaylist(q, S, f)
        PROVE  playlistRow[p] = "unborn"
    BY <1>1, CreateStep
  <1>2. ASSUME NEW q \in Playlists, DeletePlaylist(q)
        PROVE  playlistRow'[p] = "gone" /\ \A x \in Txs : p \notin tx[x].held
    BY <1>2, DropStep
  <1>3. ASSUME NEW x \in Txs, AddTrack(x) \/ RemoveTrack(x) \/ DeleteTrack(x)
        PROVE  /\ p \in tx[x].held
               /\ stamp' = Stamped(tx[x].held)
               /\ tx'[x].pc = "idle"
    <2>0. TypeOK
      BY DEF PlaylistInv
    <2>1. tx'[x].pc = "idle"
      BY <1>3, <2>0, EndStep
    <2>2. CASE AddTrack(x)
      BY <2>1, <2>2, AddStep
    <2>3. CASE RemoveTrack(x)
      BY <2>1, <2>3, RemoveStep
    <2>4. CASE DeleteTrack(x)
      BY <2>1, <2>4, QuietDeleteStep
    <2> QED BY <1>3, <2>2, <2>3, <2>4
  <1>4. ~UNCHANGED <<playlistRow, inList, position, stamp, trackRow>>
    BY DEF Kept
  <1>5. \A ts \in SUBSET Tracks : ~DeleteArtist(ts)
    BY DEF DeleteArtist
  <1> QED BY <1>1, <1>2, <1>3, <1>4, <1>5, ListStep

LEMMA StampedStep ==
  ASSUME PlaylistInv, QuietInv, TypeOK', ~ArtistDeletes, [Next]_vars,
         NEW p \in Playlists, playlistRow[p] = "live", playlistRow'[p] = "live", ~Kept(p)
  PROVE  stamp'[p] # stamp[p]
  <1>1. PICK x \in Txs : p \in tx[x].held /\ stamp' = Stamped(tx[x].held)
    BY HolderWrites
  <1>2. stamp[p] \in {0, 1}
    BY DEF PlaylistInv, TypeOK
  <1> QED BY <1>1, <1>2 DEF Stamped

\* How a delete under way comes to where it stands.
LEMMA DeletingStep ==
  ASSUME PlaylistInv, [Next]_vars, NEW y \in Txs, tx'[y].pc \in DeletePCs
  PROVE  \/ tx'[y] = tx[y]
         \/ \E t \in Tracks : BeginDelete(y, t)
         \/ LockPlaylist(y) \/ PlaylistsLocked(y) \/ ReadMemberships(y)
  <1> USE DEF PlaylistInv
  <1>1. ASSUME NEW x \in Txs, TxStep(x), x # y PROVE tx'[y] = tx[y]
    BY <1>1, OthersWait
  <1>2. ASSUME TxStep(y)
        PROVE  \/ \E t \in Tracks : BeginDelete(y, t)
               \/ LockPlaylist(y) \/ PlaylistsLocked(y) \/ ReadMemberships(y)
    <2>1. ASSUME NEW p \in Playlists, NEW t \in Tracks, BeginAdd(y, p, t) \/ BeginRemove(y, p, t)
          PROVE  FALSE
      BY <2>1, BeginStep DEF DeletePCs
    <2>2. CASE TouchPlaylist(y)
      BY <2>2, TouchStep DEF DeletePCs
    <2>3. CASE AddTrack(y) \/ RemoveTrack(y) \/ DeleteTrack(y) \/ Abort(y)
      BY <2>3, EndStep DEF DeletePCs
    <2> QED BY <1>2, <2>1, <2>2, <2>3 DEF TxStep
  <1>3. CASE UNCHANGED tx
    BY <1>3
  <1> QED BY <1>1, <1>2, <1>3 DEF Next, CreatePlaylist, DeletePlaylist, DeleteArtist, vars

\* No track joins a playlist while it is deleted.
LEMMA NoneJoins ==
  ASSUME PlaylistInv, QuietInv, Quiet, [Next]_vars, NEW y \in Txs, tx[y].pc \in DeletePCs,
         NEW u \in tx[y].track, NEW p \in Playlists, u \in inList'[p]
  PROVE  u \in inList[p]
  <1> USE DEF PlaylistInv
  <1>0. u \in Tracks
    BY DEF TypeOK, Tx
  <1>1. ASSUME NEW q \in Playlists, NEW S \in SUBSET Tracks,
               NEW f \in [S -> 0 .. Cardinality(S) - 1], CreatePlaylist(q, S, f)
        PROVE  u \in inList[p]
    <2>1. u \notin S
      BY <1>1 DEF CreatePlaylist, Quiet, Deleting, DeletePCs
    <2> QED BY <1>1, <2>1, CreateStep DEF Kept
  <1>2. ASSUME NEW q \in Playlists, DeletePlaylist(q) PROVE u \in inList[p]
    BY <1>2, DropStep DEF Kept
  <1>3. ASSUME NEW x \in Txs, AddTrack(x) PROVE u \in inList[p]
    <2>0. PICK t \in Tracks, q \in Playlists :
           /\ tx[x].pc = "adding" /\ tx[x].track = {t}
           /\ Kept(q) \/ inList'[q] = inList[q] \cup {t}
           /\ \A r \in Playlists \ {q} : Kept(r)
      BY <1>3, AddStep
    <2>1. inList'[q] \subseteq inList[q] \cup {t}
      BY <2>0 DEF Kept
    <2>2. u # t
      BY <2>0 DEF QuietInv, AddsApart
    <2> QED BY <2>0, <2>1, <2>2 DEF Kept
  <1>4. ASSUME NEW x \in Txs, RemoveTrack(x) PROVE u \in inList[p]
    BY <1>4, RemoveStep DEF Kept, Leaves
  <1>5. ASSUME NEW x \in Txs, DeleteTrack(x) PROVE u \in inList[p]
    BY <1>5, DeleteStep DEF Leaves
  <1>6. \A ts \in SUBSET Tracks : ~DeleteArtist(ts)
    BY DEF DeleteArtist, Quiet
  <1> QED BY <1>1, <1>2, <1>3, <1>4, <1>5, <1>6, ListStep

LEMMA AddingStep ==
  ASSUME PlaylistInv, [Next]_vars, NEW x \in Txs, tx'[x].pc \in {"add", "adding"}
  PROVE  \/ tx[x].pc \in {"add", "adding"} /\ tx'[x].track = tx[x].track
         \/ \E t \in Tracks : /\ tx'[x].track = {t}
                              /\ QuietDeletes => ~Deleting(t)
                              /\ \A y \in Txs \ {x} : tx'[y] = tx[y]
  <1> USE DEF PlaylistInv
  <1> DEFINE Goal == \/ tx[x].pc \in {"add", "adding"} /\ tx'[x].track = tx[x].track
                     \/ \E t \in Tracks : /\ tx'[x].track = {t}
                                          /\ QuietDeletes => ~Deleting(t)
                                          /\ \A y \in Txs \ {x} : tx'[y] = tx[y]
  <1> SUFFICES Goal
    OBVIOUS
  <1>1. ASSUME NEW y \in Txs, TxStep(y), x # y PROVE Goal
    BY <1>1, OthersWait
  <1>2. ASSUME TxStep(x) PROVE Goal
    <2>0. \A y \in Txs \ {x} : tx'[y] = tx[y]
      BY <1>2, OthersWait
    <2>1. ASSUME NEW p \in Playlists, NEW t \in Tracks, BeginAdd(x, p, t) PROVE Goal
      BY <2>0, <2>1, BeginStep DEF BeginAdd
    <2>2. ASSUME NEW p \in Playlists, NEW t \in Tracks, BeginRemove(x, p, t) PROVE FALSE
      <3>1. tx'[x] = [IdleTx EXCEPT !.pc = "remove", !.list = p, !.track = {t}]
        BY <2>2 DEF BeginRemove, TypeOK
      <3> QED BY <3>1 DEF IdleTx
    <2>3. CASE TouchPlaylist(x)
      BY <2>3, TouchStep
    <2>4. ASSUME NEW t \in Tracks, BeginDelete(x, t) PROVE FALSE
      BY <2>4, BeginDeleteStep
    <2>5. CASE LockPlaylist(x)
      BY <2>5, LockingStep
    <2>6. CASE PlaylistsLocked(x) \/ ReadMemberships(x)
      BY <2>6, ReadStep
    <2>7. CASE AddTrack(x) \/ RemoveTrack(x) \/ DeleteTrack(x) \/ Abort(x)
      BY <2>7, EndStep
    <2> HIDE DEF Goal
    <2> QED BY <1>2, <2>1, <2>2, <2>3, <2>4, <2>5, <2>6, <2>7 DEF TxStep
  <1>3. CASE UNCHANGED tx
    BY <1>3
  <1> QED BY <1>1, <1>2, <1>3 DEF Next, CreatePlaylist, DeletePlaylist, DeleteArtist, vars

LEMMA ApartStep ==
  ASSUME PlaylistInv, QuietInv, Quiet, [Next]_vars
  PROVE  AddsApart'
  <1> USE DEF PlaylistInv
  <1> SUFFICES ASSUME NEW x \in Txs, NEW y \in Txs,
                      tx'[x].pc \in {"add", "adding"}, tx'[y].pc \in DeletePCs
               PROVE  tx'[x].track \cap tx'[y].track = {}
    BY DEF AddsApart, DeletePCs
  <1>0. x # y
    BY DEF DeletePCs
  <1>1. \/ tx[y].pc \in DeletePCs /\ tx'[y].track = tx[y].track
        \/ \E t \in Tracks : tx'[y].track = {t} /\ ~Adding(t) /\ tx'[x] = tx[x]
    <2>1. ASSUME NEW t \in Tracks, BeginDelete(y, t)
          PROVE  tx'[y].track = {t} /\ ~Adding(t) /\ tx'[x] = tx[x]
      <3>1. TxStep(y)
        BY <2>1 DEF TxStep
      <3>2. ~Adding(t)
        BY <2>1 DEF BeginDelete, Quiet
      <3> QED BY <1>0, <2>1, <3>1, <3>2, BeginDeleteStep, OthersWait
    <2>2. CASE LockPlaylist(y)
      BY <2>2, LockingStep DEF DeletePCs
    <2>3. CASE PlaylistsLocked(y) \/ ReadMemberships(y)
      BY <2>3, ReadStep DEF DeletePCs
    <2> QED BY <2>1, <2>2, <2>3, DeletingStep
  <1>2. \/ tx[x].pc \in {"add", "adding"} /\ tx'[x].track = tx[x].track
        \/ \E t \in Tracks : tx'[x].track = {t} /\ ~Deleting(t) /\ tx'[y] = tx[y]
    BY <1>0, AddingStep DEF Quiet
  <1>3. CASE tx[x].pc \in {"add", "adding"} /\ tx'[x].track = tx[x].track
    <2>1. CASE tx[y].pc \in DeletePCs /\ tx'[y].track = tx[y].track
      BY <1>3, <2>1 DEF QuietInv, AddsApart
    <2>2. CASE \E t \in Tracks : tx'[y].track = {t} /\ ~Adding(t) /\ tx'[x] = tx[x]
      BY <2>2, <1>3 DEF Adding
    <2> QED BY <1>1, <2>1, <2>2
  <1>4. CASE \E t \in Tracks : tx'[x].track = {t} /\ ~Deleting(t) /\ tx'[y] = tx[y]
    BY <1>4 DEF Deleting, DeletePCs
  <1> QED BY <1>2, <1>3, <1>4

LEMMA CoverStep ==
  ASSUME PlaylistInv, QuietInv, Quiet, [Next]_vars
  PROVE  DeletesCover'
  <1> USE DEF PlaylistInv
  <1> SUFFICES ASSUME NEW y \in Txs, tx'[y].pc \in DeletePCs,
                      NEW p \in Playlists, NEW u \in tx'[y].track, u \in inList'[p]
               PROVE  p \in tx'[y].held \cup tx'[y].wanted
    BY DEF DeletesCover, DeletePCs
  <1>1. CASE tx'[y] = tx[y]
    BY <1>1, NoneJoins DEF QuietInv, DeletesCover
  <1>2. ASSUME NEW t \in Tracks, BeginDelete(y, t) PROVE p \in tx'[y].wanted
    BY <1>2, BeginDeleteStep DEF rows
  <1>3. ASSUME LockPlaylist(y) PROVE p \in tx'[y].held \cup tx'[y].wanted
    <2>1. PICK q \in Playlists :
           /\ tx[y].pc = "locking"
           /\ tx'[y].track = tx[y].track
           /\ tx'[y].wanted = tx[y].wanted \ {q}
           /\ tx'[y].held = IF playlistRow[q] = "live" THEN tx[y].held \cup {q} ELSE tx[y].held
           /\ UNCHANGED rows
      BY <1>3, LockingStep
    <2>2. u \in inList[p] /\ playlistRow[p] = "live"
      BY <2>1 DEF rows, ListsPlaced
    <2>3. p \in tx[y].held \cup tx[y].wanted
      BY <2>1, <2>2 DEF QuietInv, DeletesCover, DeletePCs
    <2> QED BY <2>1, <2>2, <2>3
  <1>4. ASSUME PlaylistsLocked(y) \/ ReadMemberships(y) PROVE p \in tx'[y].held \cup tx'[y].wanted
    BY <1>4, ReadStep DEF rows, QuietInv, DeletesCover, DeletePCs
  <1> QED BY <1>1, <1>2, <1>3, <1>4, DeletingStep

LEMMA CurrentStep ==
  ASSUME PlaylistInv, QuietInv, Quiet, TypeOK', [Next]_vars
  PROVE  ReadsCurrent'
  <1> USE DEF PlaylistInv
  <1> SUFFICES ASSUME NEW y \in Txs, tx'[y].pc = "read", NEW u \in tx'[y].track
               PROVE  tx'[y].memberships = MembershipsOf(u)'
    BY DEF ReadsCurrent
  <1>1. CASE tx'[y] = tx[y]
    <2>1. tx[y].pc \in DeletePCs /\ tx[y].memberships = MembershipsOf(u)
      BY <1>1 DEF QuietInv, ReadsCurrent, DeletePCs
    <2>2. ASSUME NEW p \in Playlists, u \in inList[p] PROVE Kept(p)
      <3>1. p \in tx[y].held
        BY <1>1, <2>1, <2>2 DEF QuietInv, DeletesCover, TxShape
      <3>2. playlistRow[p] = "live"
        BY <3>1 DEF LocksHeld
      <3>3. \A x \in Txs : p \in tx[x].held => x = y
        BY <3>1 DEF LocksHeld
      <3> QED BY <1>1, <3>1, <3>2, <3>3, HolderWrites DEF Quiet
    <2>3. ASSUME NEW p \in Playlists
          PROVE  /\ u \in inList'[p] <=> u \in inList[p]
                 /\ u \in inList[p] => position'[p][u] = position[p][u]
      BY <1>1, <2>1, <2>2, NoneJoins DEF Kept
    <2> QED BY <1>1, <2>1, <2>3 DEF MembershipsOf
  <1>2. ASSUME PlaylistsLocked(y) \/ ReadMemberships(y)
        PROVE  tx'[y].memberships = MembershipsOf(u)'
    <2>1. \E t \in tx[y].track : tx'[y].memberships = MembershipsOf(t)
      BY <1>2, ReadStep
    <2>2. tx[y].pc = "locked" /\ tx'[y].track = tx[y].track /\ UNCHANGED rows
      BY <1>2, ReadStep
    <2>3. \A t \in tx[y].track : t = u
      BY <2>2 DEF TxShape
    <2>4. MembershipsOf(u)' = MembershipsOf(u)
      BY <2>2 DEF MembershipsOf, rows
    <2> QED BY <2>1, <2>3, <2>4
  <1>3. \A t \in Tracks : ~BeginDelete(y, t)
    BY BeginDeleteStep
  <1>4. ~LockPlaylist(y)
    BY LockingStep
  <1> QED BY <1>1, <1>2, <1>3, <1>4, DeletingStep DEF DeletePCs

LEMMA DenseStep ==
  ASSUME PlaylistInv, QuietInv, Quiet, TypeOK', [Next]_vars
  PROVE  Dense'
  <1> USE DEF PlaylistInv
  <1> DEFINE Full(p) == FullOn(inList[p], position[p])
  <1>1. \A p \in Playlists : Full(p)
    BY DEF QuietInv, Dense, FullOn
  <1>2. ASSUME NEW p \in Playlists, Kept(p) PROVE Full(p)'
    BY <1>1, <1>2 DEF Kept, FullOn
  <1>3. ASSUME NEW p \in Playlists
        PROVE  inList[p] \subseteq Tracks /\ IsFiniteSet(inList[p]) /\ position[p] \in [Tracks -> Nat]
    BY FS_Subset DEF TypeOK
  <1>4. SUFFICES ASSUME NEW p \in Playlists, ~Kept(p) PROVE Full(p)'
    BY <1>2 DEF Dense, FullOn
  <1> HIDE DEF Full
  <1>5. ASSUME NEW q \in Playlists, NEW S \in SUBSET Tracks,
               NEW f \in [S -> 0 .. Cardinality(S) - 1], CreatePlaylist(q, S, f)
        PROVE  Full(p)'
    <2>1. /\ inList'[p] = S /\ UniquePositions(S, f)
          /\ \A t \in S : position'[p][t] = f[t]
      BY <1>4, <1>5, CreateStep
    <2>2. IsFiniteSet(S)
      BY FS_Subset
    <2>3. {f[t] : t \in S} = 0 .. Cardinality(S) - 1
      BY <2>1, <2>2, PackedIsFull DEF UniquePositions
    <2>4. {position'[p][t] : t \in S} = {f[t] : t \in S}
      BY <2>1
    <2> QED BY <2>1, <2>3, <2>4 DEF Full, FullOn
  <1>6. ASSUME NEW q \in Playlists, DeletePlaylist(q) PROVE Full(p)'
    <2>1. inList'[p] = {}
      BY <1>4, <1>6, DropStep
    <2>2. Cardinality(inList'[p]) = 0
      BY <2>1, FS_EmptySet
    <2> QED BY <2>1, <2>2 DEF Full, FullOn
  <1>7. ASSUME NEW x \in Txs, AddTrack(x) PROVE Full(p)'
    <2>1. PICK t \in Tracks :
           /\ t \notin inList[p]
           /\ inList'[p] = inList[p] \cup {t}
           /\ position'[p] = [position[p] EXCEPT ![t] = NextPosition(p)]
      BY <1>4, <1>7, AddStep
    <2>2. NextPosition(p) = Cardinality(inList[p])
      BY <1>1, NextPositionBehind DEF Full
    <2>3. position'[p][t] = Cardinality(inList[p]) /\ \A u \in inList[p] : position'[p][u] = position[p][u]
      BY <1>3, <2>1, <2>2
    <2>4. FullOn(inList[p] \cup {t}, position'[p])
      BY <1>1, <1>3, <2>1, <2>3, FullAppend DEF Full
    <2> QED BY <2>1, <2>4 DEF Full
  <1>8. ASSUME NEW t \in inList[p], inList'[p] = inList[p] \ {t},
               \A u \in inList'[p] : position'[p][u] = Shifted(position[p][t], position[p][u])
        PROVE  Full(p)'
    <2>1. \A u \in inList[p] \ {t} :
            position'[p][u] = IF position[p][u] > position[p][t] THEN position[p][u] - 1 ELSE position[p][u]
      BY <1>8 DEF Shifted
    <2>2. UniquePositions(inList[p], position[p])
      BY DEF ListsPlaced
    <2>3. FullOn(inList[p] \ {t}, position'[p])
      <3>1. FullOn(inList[p], position[p])
        BY <1>1 DEF Full
      <3> DEFINE f == position[p]
                 g == position'[p]
      <3>2. /\ FullOn(inList[p], f) /\ UniquePositions(inList[p], f)
            /\ \A u \in inList[p] \ {t} : g[u] = IF f[u] > f[t] THEN f[u] - 1 ELSE f[u]
        BY <2>1, <2>2, <3>1
      <3> HIDE DEF f, g
      <3>3. FullOn(inList[p] \ {t}, g)
        BY <1>3, <1>8, <3>2, FullClose DEF f, g
      <3> QED BY <3>3 DEF g
    <2> QED BY <1>8, <2>3 DEF Full
  <1>9. ASSUME NEW x \in Txs, RemoveTrack(x) PROVE Full(p)'
    <2>1. PICK t \in Tracks :
           /\ t \in inList[p] /\ Leaves(t, p)
           /\ \A u \in inList'[p] : position'[p][u] = Shifted(position[p][t], position[p][u])
      BY <1>4, <1>9, RemoveStep
    <2> QED BY <1>8, <2>1 DEF Leaves
  <1>10. ASSUME NEW x \in Txs, DeleteTrack(x) PROVE Full(p)'
    <2>1. PICK t \in Tracks :
           /\ t \in inList[p] /\ Leaves(t, p)
           /\ \A u \in inList'[p] : position'[p][u] = Shifted(position[p][t], position[p][u])
      BY <1>4, <1>10, QuietDeleteStep
    <2> QED BY <1>8, <2>1 DEF Leaves
  <1>11. \A ts \in SUBSET Tracks : ~DeleteArtist(ts)
    BY DEF DeleteArtist, Quiet
  <1>12. ~UNCHANGED <<playlistRow, inList, position, stamp, trackRow>>
    BY <1>4 DEF Kept
  <1> QED BY <1>5, <1>6, <1>7, <1>9, <1>10, <1>11, <1>12, ListStep

LEMMA QuietStep ==
  ASSUME PlaylistInv, QuietInv, Quiet, TypeOK', [Next]_vars
  PROVE  QuietInv'
  BY ApartStep, CoverStep, CurrentStep, DenseStep DEF QuietInv

LEMMA QuietStart == Init => QuietInv
  <1> SUFFICES ASSUME Init PROVE QuietInv
    OBVIOUS
  <1>1. \A x \in Txs : tx[x].pc = "idle"
    BY DEF Init, IdleTx
  <1>2. AddsApart /\ DeletesCover /\ ReadsCurrent
    BY <1>1 DEF AddsApart, DeletesCover, ReadsCurrent, DeletePCs
  <1>3. Dense
    BY FS_EmptySet DEF Init, Dense
  <1> QED BY <1>2, <1>3 DEF QuietInv

LEMMA QuietAlways ==
  ASSUME Quiet
  PROVE  Spec => []QuietInv
  <1>1. PlaylistInv /\ TypeOK' /\ QuietInv /\ [Next]_vars => QuietInv'
    BY QuietStep
  <1>2. PlaylistInv => TypeOK
    BY DEF PlaylistInv
  <1> QED BY <1>1, <1>2, QuietStart, PlaylistAlways, PTL DEF Spec

\* Positions stay a dense 0..n-1 sequence through adds, removals and deletes in
\* any interleaving, as long as nothing adds a track that is being deleted and
\* no artist is deleted: a delete renumbers from what it read, and nothing
\* changes that under its locks.
THEOREM PositionsStayDense ==
  ASSUME Quiet
  PROVE  Spec => []Dense
  <1>1. QuietInv => Dense
    BY DEF QuietInv
  <1> QED BY <1>1, QuietAlways, PTL

\* Every change of a playlist that stays gives it a new updated_at: whoever
\* changes it holds its row, and stamps every row it holds.
THEOREM ChangesAreStamped ==
  ASSUME Quiet
  PROVE  Spec => ChangeStamped
  <1> DEFINE Stamps == \A p \in Playlists :
         playlistRow[p] = "live" /\ playlistRow'[p] = "live"
         /\ <<inList'[p], position'[p]>> # <<inList[p], position[p]>>
             => stamp'[p] # stamp[p]
  <1>1. PlaylistInv /\ TypeOK' /\ QuietInv /\ [Next]_vars => [Stamps]_vars
    BY StampedStep DEF Quiet, Kept
  <1>2. PlaylistInv => TypeOK
    BY DEF PlaylistInv
  <1>3. Spec => [][Stamps]_vars
    <2> HIDE DEF Stamps
    <2> QED BY <1>1, <1>2, QuietAlways, PlaylistAlways, PTL DEF Spec
  <1> QED BY <1>3 DEF ChangeStamped

-----------------------------------------------------------------------------
(***************************************************************************)
(* PlaylistReads: a client that keeps what it has read for as long as      *)
(* updated_at says so.                                                     *)
(***************************************************************************)
USE WatchedAssumption

\* A playlist that is being read, or of which the client has a copy, is a
\* watched one and has been created.
ReadShape ==
    /\ reader \in Watched \cup {0}
    /\ cache.list \in Watched \cup {0}
    /\ cache.list # 0 => DOMAIN cache.tracks \subseteq Tracks
    /\ reader # 0 => playlistRow[reader] # "unborn"
    /\ cache.list # 0 => playlistRow[cache.list] # "unborn"

ReadInv == ReadShape /\ MarkerFaithful

\* The reader changes nothing of the playlists.
LEMMA ReadsOnly == ReadSpec => Spec
  <1>1. ReadInit => Init
    BY DEF ReadInit
  <1>2. [ReadNext]_readVars => [Next]_vars
    BY DEF ReadNext, Write, GetRow, GetTracks, ReadFails, readVars, vars
  <1> QED BY <1>1, <1>2, PTL DEF ReadSpec, Spec

\* A row is created once, and never comes back.
LEMMA RowStep ==
  ASSUME PlaylistInv, [Next]_vars, NEW p \in Playlists, playlistRow[p] # "unborn"
  PROVE  playlistRow'[p] # "unborn" /\ (playlistRow'[p] = "live" => playlistRow[p] = "live")
  <1> USE DEF PlaylistInv
  <1>1. ASSUME NEW q \in Playlists, NEW S \in SUBSET Tracks,
               NEW f \in [S -> 0 .. Cardinality(S) - 1], CreatePlaylist(q, S, f)
        PROVE  playlistRow'[p] = playlistRow[p]
    BY <1>1, CreateStep
  <1>2. ASSUME NEW q \in Playlists, DeletePlaylist(q)
        PROVE  playlistRow'[p] = playlistRow[p] \/ playlistRow'[p] = "gone"
    BY <1>2, DropStep
  <1>3. (\E ts \in SUBSET Tracks : DeleteArtist(ts)) => UNCHANGED playlistRow
    BY DEF DeleteArtist
  <1>4. (\E x \in Txs : AddTrack(x) \/ RemoveTrack(x) \/ DeleteTrack(x)) => UNCHANGED playlistRow
    BY DEF AddTrack, RemoveTrack, DeleteTrack
  <1> QED BY <1>1, <1>2, <1>3, <1>4, ListStep

LEMMA ListOfKept ==
  ASSUME NEW p \in Playlists, Kept(p)
  PROVE  ListOf(p)' = ListOf(p)
  BY DEF ListOf, Kept

LEMMA ReadStart == ReadInit => ReadInv
  BY DEF ReadInit, ReadInv, ReadShape, MarkerFaithful, NoCopy

\* The client's state through one change of the playlists.
LEMMA WriteStep ==
  ASSUME PlaylistInv, QuietInv, Quiet, TypeOK', ReadInv, Write
  PROVE  ReadInv'
  <1> USE DEF ReadInv, ReadShape
  <1>0. Next
    BY DEF Write
  <1>1. reader' = reader \/ reader' = 0
    BY DEF Write
  <1>2. reader' # 0 => playlistRow'[reader'] # "unborn"
    BY <1>0, <1>1, RowStep
  <1>3. cache' = cache \/ cache'.list = 0
    BY DEF Write, NoCopy
  <1>4. cache'.list # 0 => playlistRow'[cache'.list] # "unborn"
    BY <1>0, <1>3, RowStep
  <1>5. ASSUME NEW p \in Playlists \ {0}, p = cache'.list, playlistRow'[p] = "live"
        PROVE  cache'.tracks = ListOf(p)'
    <2>1. p = cache.list /\ p # 0 /\ cache' = cache /\ stamp'[p] = stamp[p]
      BY <1>5 DEF Write, NoCopy, Restamped
    <2>2. playlistRow[p] = "live"
      BY <1>0, <1>5, <2>1, RowStep
    <2>3. Kept(p)
      BY <1>0, <1>5, <2>1, <2>2, StampedStep DEF Quiet
    <2>4. cache.tracks = ListOf(p)
      BY <2>1, <2>2 DEF MarkerFaithful
    <2> QED BY <2>1, <2>3, <2>4, ListOfKept
  <1>6. MarkerFaithful'
    <2> SUFFICES ASSUME cache'.list # 0, playlistRow'[cache'.list] = "live"
                 PROVE  cache'.tracks = ListOf(cache.list)'
      BY DEF MarkerFaithful
    <2>1. PICK p \in Playlists \ {0} : p = cache'.list
      BY <1>3
    <2>2. ListOf(cache.list)' = ListOf(p)'
      BY <2>1 DEF ListOf
    <2> QED BY <1>5, <2>1, <2>2
  <1> QED BY <1>1, <1>2, <1>3, <1>4, <1>6

LEMMA ReadOnlyStep ==
  ASSUME TypeOK, ReadInv, (\E p \in Watched : GetRow(p)) \/ GetTracks \/ ReadFails \/ UNCHANGED readVars
  PROVE  ReadInv'
  <1> USE DEF ReadInv, ReadShape, MarkerFaithful
  <1>0. \A p : ListOf(p)' = ListOf(p) \/ ~UNCHANGED vars
    BY DEF ListOf, vars
  <1>1. ASSUME NEW p \in Watched, GetRow(p) PROVE ReadInv'
    BY <1>1, <1>0 DEF GetRow, vars
  <1>2. CASE GetTracks
    <2>1. PICK p \in Playlists : p = reader /\ p # 0
      BY <1>2 DEF GetTracks
    <2>2. cache'.list = p /\ cache'.tracks = ListOf(p) /\ reader' = 0 /\ UNCHANGED vars
      BY <1>2, <2>1 DEF GetTracks
    <2>3. DOMAIN ListOf(p) \subseteq Tracks
      BY DEF ListOf, TypeOK
    <2>4. ListOf(cache.list)' = ListOf(p)
      BY <2>2 DEF ListOf, vars
    <2>5. MarkerFaithful'
      BY <2>2, <2>4
    <2>6. ReadShape'
      BY <2>1, <2>2, <2>3 DEF vars
    <2> QED BY <2>5, <2>6
  <1>3. CASE ReadFails
    BY <1>3, <1>0 DEF ReadFails, vars
  <1>4. CASE UNCHANGED readVars
    BY <1>4, <1>0 DEF readVars, vars
  <1> QED BY <1>1, <1>2, <1>3, <1>4

LEMMA ReadAlways ==
  ASSUME Quiet
  PROVE  ReadSpec => []ReadInv
  <1>1. PlaylistInv /\ TypeOK' /\ QuietInv /\ ReadInv /\ [ReadNext]_readVars => ReadInv'
    BY WriteStep, ReadOnlyStep DEF ReadNext, PlaylistInv
  <1>2. PlaylistInv => TypeOK
    BY DEF PlaylistInv
  <1> QED BY <1>1, <1>2, ReadStart, ReadsOnly, PlaylistAlways, QuietAlways, PTL DEF ReadSpec

\* The reader and the client's copy keep their types through every race.
THEOREM ReadTypeCorrect ==
  ASSUME Quiet
  PROVE  ReadSpec => []ReadTypeOK
  <1>1. ReadInv /\ TypeOK => ReadTypeOK
    BY DEF ReadInv, ReadShape, ReadTypeOK
  <1> QED BY <1>1, ReadAlways, ReadsOnly, PlaylistTypeCorrect, PTL

\* updated_at is a change marker to rely on: while it is the one the client
\* has read, the tracks the client has are the playlist's, although marker and
\* tracks are read by two statements and anyone may write between them.
THEOREM MarkersAreFaithful ==
  ASSUME Quiet
  PROVE  ReadSpec => []MarkerFaithful
  <1>1. ReadInv => MarkerFaithful
    BY DEF ReadInv
  <1> QED BY <1>1, ReadAlways, PTL

=============================================================================
