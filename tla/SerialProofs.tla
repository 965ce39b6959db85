----------------------------- MODULE SerialProofs -----------------------------
(***************************************************************************)
(* The proof that RowLocks implements SerialCatalogue: that the locks of   *)
(* the requests make each of them take effect in a single step, its        *)
(* commit, as if it ran alone.                                             *)
(***************************************************************************)
EXTENDS RowLocksProofs

-----------------------------------------------------------------------------
(***************************************************************************)
(* What is needed beside RowInv, in which a request holds all it has to.   *)
(* Here it holds no more than that: a cascade that has found its rows goes *)
(* on to delete or to change them, however much later.                     *)
(***************************************************************************)

\* The albums that the delete of an artist takes along are its own.
OwnAlbums ==
    \A x \in Requests : job[x].do = "DeleteArtist" =>
        \A b \in Albums : <<Album(b), "DEL">> \in held[x] \cup want[x] =>
            /\ Settled(Album(b))
            /\ b \in LiveAlbums(cat) => cat.album[b] = job[x].artist

\* The tracks that lose their album are on one that is deleted, or on none.
OnDoomedAlbums ==
    \A x \in Requests : \A t \in Tracks : <<Track(t), "NULL">> \in held[x] \cup want[x] =>
        /\ Settled(Track(t))
        /\ t \in LiveTracks(cat) =>
             cat.track[t].album = None \/ Album(cat.track[t].album) \in Doomed(x)

\* A membership goes with its playlist or with its track, unless it is the one
\* that is to be removed.
OwnMembers ==
    \A x \in Requests : \A p \in Playlists, t \in Tracks :
        <<Member(p, t), "DEL">> \in held[x] \cup want[x] =>
            \/ job[x].do = "RemoveTrack" /\ p = job[x].list /\ t = job[x].track
            \/ Playlist(p) \in Doomed(x) \/ Track(t) \in Doomed(x)

SerialInv == OwnAlbums /\ OnDoomedAlbums /\ OwnMembers /\ Ranked(cat)

-----------------------------------------------------------------------------
(***************************************************************************)
(* Ranks.                                                                  *)
(***************************************************************************)
\* Ranks among some of the tracks follow the ranks among all.
LEMMA OnlyAgain ==
  ASSUME NEW l, NEW S \in SUBSET Tracks, \A t \in S : l[t] \in Nat
  PROVE  Only(Only(l, S), S) = Only(l, S)
  <1> USE RowLocksAssumption
  <1> DEFINE m == Only(l, S)
             B(t) == {u \in S : l[u] < l[t]}
  <1>1. \A t \in S : m[t] = Cardinality(B(t)) /\ m[t] \in Nat /\ IsFiniteSet(B(t))
    <2> TAKE t \in S
    <2>1. B(t) \in SUBSET Tracks
      OBVIOUS
    <2>2. IsFiniteSet(B(t)) /\ Cardinality(B(t)) \in Nat
      BY <2>1, FS_Subset, FS_CardinalityType
    <2> QED BY <2>2 DEF Only
  <1>2. ASSUME NEW u \in S, NEW t \in S, l[u] < l[t]
        PROVE  m[u] < m[t]
    <2>1. B(u) \in SUBSET B(t) /\ u \in B(t) /\ u \notin B(u)
      BY <1>2
    <2> HIDE DEF m, B
    <2>2. Cardinality(B(u)) <= Cardinality(B(t)) /\ Cardinality(B(u)) # Cardinality(B(t))
      BY <1>1, <2>1, FS_Subset
    <2> QED BY <1>1, <2>2
  <1>3. ASSUME NEW u \in S, NEW t \in S, ~(l[u] < l[t])
        PROVE  ~(m[u] < m[t])
    <2>1. B(t) \in SUBSET B(u)
      BY <1>3
    <2> HIDE DEF m, B
    <2>2. Cardinality(B(t)) <= Cardinality(B(u))
      BY <1>1, <2>1, FS_Subset
    <2> QED BY <1>1, <2>2
  <1>4. \A t \in S : {u \in S : m[u] < m[t]} = B(t)
    BY <1>2, <1>3
  <1>5. \A t \in Tracks : (IF t \in S THEN Cardinality({u \in S : m[u] < m[t]}) ELSE None)
                        = (IF t \in S THEN Cardinality(B(t)) ELSE None)
    BY <1>4
  <1>6. Only(m, S) = [t \in Tracks |-> IF t \in S THEN Cardinality({u \in S : m[u] < m[t]}) ELSE None]
    BY DEF Only
  <1>7. m = [t \in Tracks |-> IF t \in S THEN Cardinality(B(t)) ELSE None]
    BY DEF Only
  <1> HIDE DEF m, B
  <1> QED BY <1>5, <1>6, <1>7 DEF m

\* A track that is appended comes after the others.
LEMMA AppendedRanked ==
  ASSUME NEW l \in Lists, NEW t \in Tracks, l = Only(l, MembersOf(l))
  PROVE  Appended(l, t) = Only(Appended(l, t), MembersOf(Appended(l, t)))
  <1> USE RowLocksAssumption
  <1> DEFINE M == MembersOf(l)
             n == Cardinality(M)
             a == Appended(l, t)
             B(u) == {v \in M : l[v] < l[u]}
  <1>0. M \in SUBSET Tracks /\ IsFiniteSet(M) /\ n \in Nat
    BY FS_Subset, FS_CardinalityType DEF MembersOf
  <1>1. CASE l[t] # None
    BY <1>1 DEF Appended
  <1>2. CASE l[t] = None
    <2>1. a = [l EXCEPT ![t] = n] /\ a \in Lists /\ MembersOf(a) = M \cup {t} /\ t \notin M
      BY <1>2, AppendedList DEF Appended, MembersOf
    <2>2. \A u \in M : l[u] = Cardinality(B(u)) /\ l[u] \in Nat
      <3>1. l = [u \in Tracks |-> IF u \in M THEN Cardinality(B(u)) ELSE None]
        BY DEF Only
      <3>2. \A u \in M : u \in Tracks /\ l[u] \in Nat
        BY DEF Lists, MembersOf
      <3> HIDE DEF M, B
      <3> QED BY <3>1, <3>2
    <2>3. \A u \in M : l[u] < n
      <3> TAKE u \in M
      <3>0. l[u] \in Nat
        BY <2>2
      <3>1. B(u) \in SUBSET M /\ u \notin B(u)
        <4> HIDE DEF M
        <4> QED BY <3>0
      <3> HIDE DEF M, B
      <3>2. Cardinality(B(u)) <= Cardinality(M) /\ Cardinality(B(u)) # Cardinality(M)
        BY <1>0, <3>1, FS_Subset
      <3> QED BY <1>0, <2>2, <3>2
    <2>4. \A u \in Tracks : a[u] = IF u = t THEN n ELSE l[u]
      BY <2>1 DEF Lists
    <2>5. \A u \in M : {v \in M \cup {t} : a[v] < a[u]} = B(u)
      <3> TAKE u \in M
      <3>1. u \in Tracks /\ u # t /\ a[u] = l[u] /\ a[t] = n /\ ~(n < l[u])
        <4>1. u \in Tracks /\ t \in Tracks /\ u # t
          BY <1>0, <2>1
        <4>2. a[u] = l[u] /\ a[t] = n
          BY <2>4, <4>1
        <4>3. l[u] \in Nat /\ l[u] < n
          BY <2>2, <2>3
        <4> HIDE DEF M, n, a
        <4> QED BY <1>0, <4>1, <4>2, <4>3
      <3>2. \A v \in M : a[v] = l[v]
        BY <1>0, <2>1, <2>4
      <3> HIDE DEF M, n, a
      <3> QED BY <3>1, <3>2
    <2>6. {v \in M \cup {t} : a[v] < a[t]} = M
      <3>1. a[t] = n /\ \A v \in M : a[v] = l[v]
        BY <1>0, <2>1, <2>4
      <3> HIDE DEF M, n, a
      <3> QED BY <1>0, <2>3, <3>1
    <2>7. \A u \in Tracks \ (M \cup {t}) : a[u] = None
      BY <2>4 DEF MembersOf
    <2>8. \A u \in Tracks :
            a[u] = IF u \in M \cup {t} THEN Cardinality({v \in M \cup {t} : a[v] < a[u]}) ELSE None
      <3> HIDE DEF M, a, B
      <3> QED BY <1>0, <2>1, <2>2, <2>4, <2>5, <2>6, <2>7
    <2>9. Only(a, M \cup {t}) =
            [u \in Tracks |-> IF u \in M \cup {t}
                              THEN Cardinality({v \in M \cup {t} : a[v] < a[u]}) ELSE None]
      BY DEF Only
    <2>10. a = [u \in Tracks |-> a[u]]
      BY <2>1 DEF Lists
    <2> HIDE DEF M, a
    <2> QED BY <2>1, <2>8, <2>9, <2>10 DEF a
  <1> QED BY <1>1, <1>2

\* A playlist of two tracks.
LEMMA TwoRanked ==
  ASSUME NEW t \in Tracks, NEW u \in Tracks \ {t},
         NEW l, l = [v \in Tracks |-> CASE v = t -> 0 [] v = u -> 1 [] OTHER -> None],
         MembersOf(l) = {t, u}
  PROVE  l = Only(l, MembersOf(l))
  <1> DEFINE S == {t, u}
             B(v) == {w \in S : l[w] < l[v]}
  <1>1. l[t] = 0 /\ l[u] = 1
    OBVIOUS
  <1>2. B(t) = {} /\ B(u) = {t}
    BY <1>1
  <1>3. Cardinality(B(t)) = 0 /\ Cardinality(B(u)) = 1
    BY <1>2, FS_EmptySet, FS_Singleton
  <1>4. \A v \in Tracks \ S : l[v] = None
    OBVIOUS
  <1>5. Only(l, S) = [v \in Tracks |-> IF v \in S THEN Cardinality(B(v)) ELSE None]
    BY DEF Only
  <1>6. \A v \in Tracks : l[v] = IF v \in S THEN Cardinality(B(v)) ELSE None
    <2> HIDE DEF B
    <2> QED BY <1>1, <1>3, <1>4
  <1>7. l = [v \in Tracks |-> l[v]]
    OBVIOUS
  <1> HIDE DEF S, B
  <1> QED BY <1>5, <1>6, <1>7 DEF S

-----------------------------------------------------------------------------
(***************************************************************************)
(* What a commit makes of the playlists.                                   *)
(***************************************************************************)
LEMMA CommitAdds ==
  ASSUME RowInv, NEW x \in Requests, Commit(x)
  PROVE  /\ job[x] \in Jobs /\ JobOK(job[x]) /\ cat \in Catalogue
         /\ job[x].do = "AddTrack" => job[x].list \in LivePlaylists(cat)
  <1> USE RowLocksAssumption
  <1>1. job[x] \in Jobs /\ JobOK(job[x]) /\ cat \in Catalogue
    BY CommitStep DEF RowInv
  <1>2. ASSUME job[x].do = "AddTrack"
        PROVE  job[x].list \in LivePlaylists(cat)
    <2>1. "touch" \in Listed(job[x]) \cap Lasting
      BY <1>1, <1>2, ListsOfStatements DEF Lasting
    <2>2. <<Playlist(job[x].list), "NKU">> \in held[x]
      BY <2>1, CommitHolds DEF Demand
    <2>3. Playlist(job[x].list) \in Rows(cat)
      BY <2>2, CommitHolds
    <2> QED BY <1>1, <2>3, RowsOf
  <1> QED BY <1>1, <1>2

LEMMA RankedInserted ==
  ASSUME RowInv, NEW x \in Requests, Commit(x), Ranked(cat)
  PROVE  Ranked(Inserted(cat, job[x])) /\ Inserted(cat, job[x]) \in Catalogue
  <1> USE RowLocksAssumption
  <1> DEFINE d == job[x]
             e == Inserted(cat, d)
  <1>1. d \in Jobs /\ JobOK(d) /\ cat \in Catalogue
    BY CommitAdds
  <1>2. e \in Catalogue
    BY <1>1, CommitAdds, InsertedIs
  <1>3. \A p \in LivePlaylists(cat) :
          /\ p \in Playlists /\ cat.list[p] \in Lists
          /\ cat.list[p] = Only(cat.list[p], MembersOf(cat.list[p]))
    BY <1>1 DEF Ranked, LivePlaylists, Members, Catalogue
  <1>4. SUFFICES ASSUME NEW p \in LivePlaylists(e)
                 PROVE  e.list[p] = Only(e.list[p], MembersOf(e.list[p]))
    BY <1>2 DEF Ranked, Members
  <1>5. CASE d.do = "CreatePlaylist" /\ p = d.list
    <2> DEFINE l == [t \in Tracks |-> CASE t = d.track -> 0 [] t = d.other -> 1 [] OTHER -> None]
    <2>1. e = [cat EXCEPT !.list = [cat.list EXCEPT ![d.list] = l]]
      BY <1>5 DEF Inserted
    <2>2. d.list \in Playlists /\ d.track \in Tracks /\ d.other \in Tracks \ {d.track}
      BY <1>1, <1>5 DEF JobOK
    <2>3. MembersOf(l) = {d.track, d.other}
      BY <1>1, <1>5, InsertedList
    <2>4. l = Only(l, MembersOf(l))
      BY <2>2, <2>3, TwoRanked
    <2> HIDE DEF e, l
    <2>5. e.list[p] = l
      BY <1>1, <1>5, <2>1, <2>2 DEF Catalogue
    <2> QED BY <2>4, <2>5
  <1>6. CASE d.do = "AddTrack" /\ p = d.list
    <2> DEFINE l == Appended(cat.list[p], d.track)
    <2>1. e = [cat EXCEPT !.list = [cat.list EXCEPT ![p] = l]]
      BY <1>6 DEF Inserted
    <2>2. p \in LivePlaylists(cat) /\ d.track \in Tracks
      BY <1>1, <1>6, CommitAdds DEF JobOK
    <2>3. l = Only(l, MembersOf(l))
      BY <1>3, <2>2, AppendedRanked
    <2> HIDE DEF e, l
    <2>4. e.list[p] = l
      BY <1>1, <1>3, <2>1, <2>2 DEF Catalogue
    <2> QED BY <2>3, <2>4
  <1>7. CASE ~(d.do \in {"CreatePlaylist", "AddTrack"} /\ p = d.list)
    <2>1. e.list[p] = cat.list[p]
      <3>1. CASE d.do \in {"CreatePlaylist", "AddTrack"}
        BY <1>1, <1>7, <3>1 DEF Inserted, Catalogue
      <3>2. CASE d.do \in {"CreateAlbum", "CreateTrack"}
        BY <1>1, <3>2 DEF Inserted, Catalogue
      <3>3. CASE d.do \notin {"CreatePlaylist", "AddTrack", "CreateAlbum", "CreateTrack"}
        BY <3>3 DEF Inserted
      <3> QED BY <3>1, <3>2, <3>3
    <2>2. p \in LivePlaylists(cat)
      BY <2>1 DEF LivePlaylists
    <2> HIDE DEF e
    <2> QED BY <1>3, <2>1, <2>2
  <1> QED BY <1>2, <1>5, <1>6, <1>7

\* Of each playlist the commit leaves what it does not delete, in order.
LEMMA CommitLists ==
  ASSUME RowInv, NEW x \in Requests, Commit(x)
  PROVE  LET e == Inserted(cat, job[x])
         IN  \A p \in Playlists : cat'.list[p] =
               IF e.list[p] = None \/ Playlist(p) \in Doomed(x) THEN None
               ELSE Only(e.list[p], {t \in Members(e, p) : Member(p, t) \notin Doomed(x)})
  <1>1. cat' = Committed(x)
    BY CommitStep
  <1> QED BY <1>1 DEF Committed, Stays

LEMMA RankedCommit ==
  ASSUME RowInv, NEW x \in Requests, Commit(x), Ranked(cat)
  PROVE  Ranked(cat')
  <1> USE RowLocksAssumption
  <1> DEFINE e == Inserted(cat, job[x])
             Kept(p) == {t \in Members(e, p) : Member(p, t) \notin Doomed(x)}
  <1>1. e \in Catalogue
    BY RankedInserted
  <1>2. \A p \in Playlists : cat'.list[p] = IF e.list[p] = None \/ Playlist(p) \in Doomed(x) THEN None
                                           ELSE Only(e.list[p], Kept(p))
    BY CommitLists
  <1> SUFFICES ASSUME NEW p \in LivePlaylists(cat')
               PROVE  cat'.list[p] = Only(cat'.list[p], MembersOf(cat'.list[p]))
    BY DEF Ranked, Members
  <1>3. p \in Playlists /\ e.list[p] # None /\ cat'.list[p] = Only(e.list[p], Kept(p))
    BY <1>2 DEF LivePlaylists
  <1>4. Kept(p) \in SUBSET Tracks /\ \A t \in Kept(p) : e.list[p][t] \in Nat
    <2>1. e.list[p] \in Lists
      BY <1>1, <1>3 DEF Catalogue
    <2> HIDE DEF e
    <2> QED BY <2>1 DEF Lists, Members, MembersOf
  <1> HIDE DEF e, Kept
  <1> QED BY <1>3, <1>4, OnlyAgain, OnlyList

-----------------------------------------------------------------------------
(***************************************************************************)
(* SerialInv is kept.                                                      *)
(***************************************************************************)
\* A lock that is new to a request is one that its statement asks for.
LEMMA NewLock ==
  ASSUME RowInv, NEW x \in Requests, Moved(x), NEW y \in Requests,
         NEW l \in held'[y] \cup want'[y]
  PROVE  /\ Doomed(y) \subseteq Doomed(y)'
         /\ \/ l \in held[y] \cup want[y]
            \/ y = x /\ \E s \in Listed(job[x]) : l \in Demand(x, s) /\ l \in Asks(job[x], s)
  <1>1. JobsGiven /\ Standing /\ cat \in Catalogue /\ Others(x)
    BY DEF RowInv, Moved
  <1>2. CASE y # x
    BY <1>1, <1>2, OthersSame
  <1>3. CASE y = x
    <2>1. ~Rests(x)
      BY <1>3 DEF Rests
    <2>2. held[x] \subseteq held'[x]
      <3>1. ASSUME NEW i, NEW s, Skips(x, i, s) \/ Starts(x, i, s)
            PROVE  held'[x] = held[x]
        BY <3>1 DEF Skips, Starts
      <3>2. ASSUME NEW i, NEW s, NEW k, Granted(x, i, s, k)
            PROVE  held[x] \subseteq held'[x]
        BY <3>2 DEF Granted
      <3> QED BY <2>1, <3>1, <3>2 DEF Moved
    <2>3. Doomed(y) \subseteq Doomed(y)'
      BY <1>3, <2>2 DEF Doomed
    <2>4. ASSUME NEW i, NEW s \in Listed(job[x]), Starts(x, i, s)
          PROVE  l \in held[y] \cup want[y] \/ (l \in Demand(x, s) /\ l \in Asks(job[x], s))
      <3>1. Demand(x, s) \subseteq Asks(job[x], s)
        BY <1>1, DemandIsAsked
      <3> QED BY <1>3, <2>4, <3>1 DEF Starts
    <2>5. ASSUME NEW i, NEW s, Skips(x, i, s)
          PROVE  l \in held[y] \cup want[y]
      BY <1>3, <2>5 DEF Skips
    <2>6. ASSUME NEW i, NEW s, NEW k, Granted(x, i, s, k)
          PROVE  l \in held[y] \cup want[y]
      BY <1>3, <2>6 DEF Granted
    <2> QED BY <1>3, <2>1, <2>3, <2>4, <2>5, <2>6 DEF Moved
  <1> QED BY <1>2, <1>3

\* A row that is there is created by nobody.
LEMMA ThereIsSettled ==
  ASSUME RowInv, NEW r \in Rows(cat)
  PROVE  Settled(r)
  BY DEF RowInv, NotYetThere, Settled

LEMMA SettledMoves ==
  ASSUME RowInv, NEW x \in Requests, Moved(x), NEW r, Settled(r)
  PROVE  Settled(r)'
  <1>1. job' = job /\ \A y \in Requests : pc'[y] # "ended" => pc[y] # "ended"
    BY OthersSame DEF Moved, Others
  <1> QED BY <1>1 DEF Settled

\* Who asks to clear a track, and to delete a membership.
LEMMA WhoClears ==
  ASSUME NEW d \in Jobs, NEW s \in Listed(d), NEW t, <<Track(t), "NULL">> \in Asks(d, s)
  PROVE  s = "clearAlbum"
  <1> USE RowLocksAssumption
  <1>0. JobOK(d)
    OBVIOUS
  <1>1. CASE d.do \in {"CreateAlbum", "CreateTrack"}
    <2>1. s \in {"refArtist", "refAlbum"}
      BY <1>1, ListsOfStatements
    <2> QED BY <2>1 DEF Asks, Reference
  <1>2. CASE d.do \in {"SetTrackFile", "DeleteAlbum"}
    <2>1. s \in {"setFile", "deleteAlbum", "clearAlbum"}
      BY <1>2, ListsOfStatements
    <2> QED BY <2>1 DEF Asks
  <1>3. CASE d.do = "DeleteTrack"
    <2>1. s \in {"lockPlaylists", "readMemberships", "deleteTrack", "cascadeMembers", "renumber"}
      BY <1>3, ListsOfStatements
    <2> QED BY <2>1 DEF Asks
  <1>4. CASE d.do = "DeleteArtist"
    <2>1. s \in {"lockTracks", "deleteArtist", "cascadeAlbums", "clearAlbum", "cascadeTracks",
                 "cascadeMembers"}
      BY <1>4, ListsOfStatements
    <2> QED BY <2>1 DEF Asks
  <1>5. CASE d.do \in {"CreatePlaylist", "AddTrack"}
    <2>1. s \in {"refTrack", "refOther", "touch"}
      BY <1>5, ListsOfStatements
    <2> QED BY <2>1 DEF Asks, Reference
  <1>6. CASE d.do \in {"RemoveTrack", "DeletePlaylist"}
    <2>1. s \in {"touch", "removeMember", "renumber", "deletePlaylist", "cascadeMembers"}
      BY <1>6, ListsOfStatements
    <2> QED BY <2>1 DEF Asks
  <1> QED BY <1>0, <1>1, <1>2, <1>3, <1>4, <1>5, <1>6 DEF JobOK

LEMMA OwnAlbumsMoves ==
  ASSUME RowInv, OwnAlbums, NEW x \in Requests, Moved(x)
  PROVE  OwnAlbums'
  <1>1. JobsGiven /\ cat \in Catalogue /\ cat' = cat /\ job' = job
    BY DEF RowInv, Moved, Others
  <1> SUFFICES ASSUME NEW y \in Requests, job[y].do = "DeleteArtist", NEW b \in Albums,
                      <<Album(b), "DEL">> \in held'[y] \cup want'[y]
               PROVE  /\ Settled(Album(b))'
                      /\ b \in LiveAlbums(cat) => cat.album[b] = job[y].artist
    BY <1>1 DEF OwnAlbums
  <1>2. CASE <<Album(b), "DEL">> \in held[y] \cup want[y]
    BY <1>2, SettledMoves DEF OwnAlbums
  <1>3. CASE <<Album(b), "DEL">> \notin held[y] \cup want[y]
    <2>1. PICK s \in Listed(job[x]) :
            y = x /\ <<Album(b), "DEL">> \in Demand(x, s) /\ <<Album(b), "DEL">> \in Asks(job[x], s)
      BY <1>3, NewLock
    <2>2. s = "cascadeAlbums"
      BY <1>1, <2>1, WhoAsks DEF JobsGiven
    <2>3. b \in LiveAlbums(cat) /\ cat.album[b] = job[x].artist
      BY <2>1, <2>2, RowNames DEF Demand
    <2>4. Album(b) \in Rows(cat)
      BY <1>1, <2>3, RowsOf
    <2> QED BY <2>1, <2>3, <2>4, ThereIsSettled, SettledMoves
  <1> QED BY <1>2, <1>3

LEMMA OnDoomedMoves ==
  ASSUME RowInv, OnDoomedAlbums, NEW x \in Requests, Moved(x)
  PROVE  OnDoomedAlbums'
  <1>1. JobsGiven /\ cat \in Catalogue /\ cat' = cat /\ job' = job
    BY DEF RowInv, Moved, Others
  <1> SUFFICES ASSUME NEW y \in Requests, NEW t \in Tracks,
                      <<Track(t), "NULL">> \in held'[y] \cup want'[y]
               PROVE  /\ Settled(Track(t))'
                      /\ t \in LiveTracks(cat) =>
                           cat.track[t].album = None \/ Album(cat.track[t].album) \in Doomed(y)'
    BY <1>1 DEF OnDoomedAlbums
  <1>2. Doomed(y) \subseteq Doomed(y)'
    BY NewLock
  <1>3. CASE <<Track(t), "NULL">> \in held[y] \cup want[y]
    BY <1>2, <1>3, SettledMoves DEF OnDoomedAlbums
  <1>4. CASE <<Track(t), "NULL">> \notin held[y] \cup want[y]
    <2>1. PICK s \in Listed(job[x]) :
            y = x /\ <<Track(t), "NULL">> \in Demand(x, s) /\ <<Track(t), "NULL">> \in Asks(job[x], s)
      BY <1>4, NewLock
    <2>2. s = "clearAlbum"
      BY <1>1, <2>1, WhoClears DEF JobsGiven
    <2>3. <<Track(t), "NULL">> \in ClearAlbum(x)
      BY <2>1, <2>2 DEF Demand
    <2>4. t \in LiveTracks(cat) /\ Album(cat.track[t].album) \in Doomed(x)
      BY <2>3, RowNames DEF ClearAlbum
    <2>5. Track(t) \in Rows(cat)
      BY <1>1, <2>4, RowsOf
    <2> QED BY <1>2, <2>1, <2>4, <2>5, ThereIsSettled, SettledMoves
  <1> QED BY <1>3, <1>4

LEMMA OwnMembersMoves ==
  ASSUME RowInv, OwnMembers, NEW x \in Requests, Moved(x)
  PROVE  OwnMembers'
  <1>1. JobsGiven /\ cat' = cat /\ job' = job
    BY DEF RowInv, Moved, Others
  <1> SUFFICES ASSUME NEW y \in Requests, NEW p \in Playlists, NEW t \in Tracks,
                      <<Member(p, t), "DEL">> \in held'[y] \cup want'[y]
               PROVE  \/ job[y].do = "RemoveTrack" /\ p = job[y].list /\ t = job[y].track
                      \/ Playlist(p) \in Doomed(y)' \/ Track(t) \in Doomed(y)'
    BY <1>1 DEF OwnMembers
  <1>2. Doomed(y) \subseteq Doomed(y)'
    BY NewLock
  <1>3. CASE <<Member(p, t), "DEL">> \in held[y] \cup want[y]
    BY <1>2, <1>3 DEF OwnMembers
  <1>4. CASE <<Member(p, t), "DEL">> \notin held[y] \cup want[y]
    <2>1. PICK s \in Listed(job[x]) :
            /\ y = x
            /\ <<Member(p, t), "DEL">> \in Demand(x, s) /\ <<Member(p, t), "DEL">> \in Asks(job[x], s)
      BY <1>4, NewLock
    <2>2. (s = "removeMember" /\ job[x].do = "RemoveTrack") \/ s = "cascadeMembers"
      BY <1>1, <2>1, WhoAsks DEF JobsGiven
    <2>3. CASE s = "removeMember" /\ job[x].do = "RemoveTrack"
      <3>1. <<Member(p, t), "DEL">> = <<Member(job[x].list, job[x].track), "DEL">>
        BY <2>1, <2>3 DEF Demand
      <3> QED BY <2>1, <2>3, <3>1, RowNames
    <2>4. CASE s = "cascadeMembers"
      <3>1. <<Member(p, t), "DEL">> \in CascadeMembers(x)
        BY <2>1, <2>4 DEF Demand
      <3>2. Playlist(Member(p, t)[2]) \in Doomed(x) \/ Track(Member(p, t)[3]) \in Doomed(x)
        BY <3>1 DEF CascadeMembers
      <3> QED BY <1>2, <2>1, <3>2, RowParts
    <2> QED BY <2>2, <2>3, <2>4
  <1> QED BY <1>3, <1>4

LEMMA SerialCommits ==
  ASSUME RowInv, SerialInv, NEW x \in Requests, Commit(x)
  PROVE  SerialInv'
  <1>1. /\ Others(x) /\ Ended(x) /\ job' = job /\ Ranked(cat')
        /\ \A r : Settled(r) => Settled(r)' /\ r \notin NewRows(job[x])
    <2>1. /\ Others(x) /\ Ended(x) /\ job' = job /\ pc[x] = "running"
      BY CommitStep
    <2> QED BY <2>1, CommitOwnTracks, RankedCommit DEF SerialInv, Settled
  <1>2. ASSUME NEW y \in Requests, NEW l \in held'[y] \cup want'[y]
        PROVE  y # x /\ l \in held[y] \cup want[y] /\ Doomed(y)' = Doomed(y)
    BY <1>1, <1>2, OthersSame DEF Ended
  <1>3. \A b \in Albums : cat'.album[b] =
          IF Album(b) \in Doomed(x) THEN None
          ELSE IF job[x].do = "CreateAlbum" /\ b = job[x].album THEN job[x].artist ELSE cat.album[b]
    BY CommitMakes
  <1>4. OwnAlbums'
    <2> SUFFICES ASSUME NEW y \in Requests, job[y].do = "DeleteArtist", NEW b \in Albums,
                        <<Album(b), "DEL">> \in held'[y] \cup want'[y]
                 PROVE  /\ Settled(Album(b))'
                        /\ b \in LiveAlbums(cat') => cat'.album[b] = job[y].artist
      BY <1>1 DEF OwnAlbums
    <2>1. Settled(Album(b)) /\ (b \in LiveAlbums(cat) => cat.album[b] = job[y].artist)
      BY <1>2 DEF SerialInv, OwnAlbums
    <2>2. ~(job[x].do = "CreateAlbum" /\ b = job[x].album)
      BY <1>1, <2>1, CommitStep, NewRowsAre
    <2>3. b \in LiveAlbums(cat') => b \in LiveAlbums(cat) /\ cat'.album[b] = cat.album[b]
      BY <1>3, <2>2 DEF LiveAlbums
    <2> QED BY <1>1, <2>1, <2>3
  <1>5. OnDoomedAlbums'
    <2> SUFFICES ASSUME NEW y \in Requests, NEW t \in Tracks,
                        <<Track(t), "NULL">> \in held'[y] \cup want'[y]
                 PROVE  /\ Settled(Track(t))'
                        /\ t \in LiveTracks(cat') =>
                             cat'.track[t].album = None \/ Album(cat'.track[t].album) \in Doomed(y)'
      BY DEF OnDoomedAlbums
    <2>1. /\ Settled(Track(t))
          /\ t \in LiveTracks(cat) =>
               cat.track[t].album = None \/ Album(cat.track[t].album) \in Doomed(y)
      BY <1>2 DEF SerialInv, OnDoomedAlbums
    <2>2. t \in LiveTracks(cat') =>
            t \in LiveTracks(cat) /\ cat'.track[t].album \in {cat.track[t].album, None}
      BY <1>1, <2>1, CommitTracks
    <2> QED BY <1>1, <1>2, <2>1, <2>2
  <1>6. OwnMembers'
    <2> SUFFICES ASSUME NEW y \in Requests, NEW p \in Playlists, NEW t \in Tracks,
                        <<Member(p, t), "DEL">> \in held'[y] \cup want'[y]
                 PROVE  \/ job[y].do = "RemoveTrack" /\ p = job[y].list /\ t = job[y].track
                        \/ Playlist(p) \in Doomed(y)' \/ Track(t) \in Doomed(y)'
      BY <1>1 DEF OwnMembers
    <2> QED BY <1>2 DEF SerialInv, OwnMembers
  <1> QED BY <1>1, <1>4, <1>5, <1>6 DEF SerialInv

LEMMA SerialAlways == Spec => [](RowInv /\ SerialInv)
  <1>1. Init => SerialInv
    <2> SUFFICES ASSUME Init
                 PROVE  SerialInv
      OBVIOUS
    <2>1. /\ \A x \in Requests : held[x] = {} /\ want[x] = {}
          /\ cat \in Catalogues
      BY DEF Init
    <2> QED BY <2>1, RowLocksAssumption DEF SerialInv, OwnAlbums, OnDoomedAlbums, OwnMembers
  <1>2. RowInv /\ SerialInv /\ [Next]_vars => SerialInv'
    <2> SUFFICES ASSUME RowInv, SerialInv, [Next]_vars
                 PROVE  SerialInv'
      OBVIOUS
    <2>1. CASE UNCHANGED vars
      <3>1. cat' = cat /\ job' = job /\ pc' = pc /\ want' = want /\ held' = held
        BY <2>1 DEF vars
      <3>2. (\A r : Settled(r)' <=> Settled(r)) /\ (\A x : Doomed(x)' = Doomed(x))
        BY <3>1 DEF Settled, Doomed
      <3>3. OwnAlbums'
        BY <3>1, <3>2 DEF SerialInv, OwnAlbums
      <3>4. OnDoomedAlbums'
        BY <3>1, <3>2 DEF SerialInv, OnDoomedAlbums
      <3>5. OwnMembers'
        BY <3>1, <3>2 DEF SerialInv, OwnMembers
      <3> QED BY <3>1, <3>3, <3>4, <3>5 DEF SerialInv
    <2>2. ASSUME NEW x \in Requests, Moved(x)
          PROVE  SerialInv'
      <3>1. cat' = cat
        BY <2>2 DEF Moved
      <3> QED BY <2>2, <3>1, OwnAlbumsMoves, OnDoomedMoves, OwnMembersMoves DEF SerialInv
    <2> QED BY <2>1, <2>2, SerialCommits, MoveCases
  <1> QED BY <1>1, <1>2, RowAlways, RowInit, RowStep, PTL DEF Spec

-----------------------------------------------------------------------------
(***************************************************************************)
(* Each commit is a step of SerialCatalogue.                               *)
(***************************************************************************)
LEMMA SameOperators ==
  /\ \A c : /\ Serial!LiveTracks(c) = LiveTracks(c) /\ Serial!LiveAlbums(c) = LiveAlbums(c)
            /\ Serial!LivePlaylists(c) = LivePlaylists(c)
  /\ \A c, a : Serial!TracksBy(c, a) = TracksBy(c, a)
  /\ \A c, p : Serial!Members(c, p) = Members(c, p)
  /\ \A l, S : Serial!Only(l, S) = Only(l, S)
  /\ \A l, t : Serial!Appended(l, t) = Appended(l, t)
  <1>0. \A S : Serial!Cardinality(S) = Cardinality(S)
    BY DEF Serial!Cardinality, Cardinality
  <1>1. \A c : /\ Serial!LiveTracks(c) = LiveTracks(c) /\ Serial!LiveAlbums(c) = LiveAlbums(c)
               /\ Serial!LivePlaylists(c) = LivePlaylists(c)
    BY DEF Serial!LiveTracks, LiveTracks, Serial!LiveAlbums, LiveAlbums, Serial!LivePlaylists,
           LivePlaylists
  <1>2. \A c, a : Serial!TracksBy(c, a) = TracksBy(c, a)
    BY <1>1 DEF Serial!TracksBy, TracksBy
  <1>3. \A l : Serial!MembersOf(l) = MembersOf(l)
    BY DEF Serial!MembersOf, MembersOf
  <1>4. \A c, p : Serial!Members(c, p) = Members(c, p)
    BY <1>3 DEF Serial!Members, Members
  <1>5. \A l, S : Serial!Only(l, S) = Only(l, S)
    BY <1>0 DEF Serial!Only, Only
  <1>6. \A l, t : Serial!Appended(l, t) = Appended(l, t)
    BY <1>0, <1>3 DEF Serial!Appended, Appended
  <1> QED BY <1>1, <1>2, <1>4, <1>5, <1>6

LEMMA CatalogueOf ==
  ASSUME NEW c \in Catalogue, NEW F, NEW G, NEW H,
         F = [b \in Albums |-> F[b]], G = [t \in Tracks |-> G[t]], H = [p \in Playlists |-> H[p]],
         \A b \in Albums : c.album[b] = F[b],
         \A t \in Tracks : c.track[t] = G[t],
         \A p \in Playlists : c.list[p] = H[p]
  PROVE  c = [artists |-> c.artists, album |-> F, track |-> G, list |-> H]
  <1>1. c = [artists |-> c.artists, album |-> c.album, track |-> c.track, list |-> c.list]
    BY DEF Catalogue
  <1>2. /\ c.album = [b \in Albums |-> c.album[b]] /\ c.track = [t \in Tracks |-> c.track[t]]
        /\ c.list = [p \in Playlists |-> c.list[p]]
    BY DEF Catalogue
  <1>3. c.album = F
    BY <1>2
  <1>4. c.track = G
    BY <1>2
  <1>5. c.list = H
    BY <1>2
  <1> QED BY <1>1, <1>3, <1>4, <1>5

\* What a statement of a request locked is there at its commit.
LEMMA StillThere ==
  ASSUME RowInv, NEW x \in Requests, Commit(x), NEW s \in Listed(job[x]) \cap Lasting,
         NEW r, NEW m, <<r, m>> \in Demand(x, s)
  PROVE  r \in Rows(cat) /\ <<r, m>> \in held[x] /\ (m = "DEL" => r \in Doomed(x))
  <1>1. <<r, m>> \in held[x]
    BY CommitHolds
  <1>2. r \in Rows(cat)
    BY <1>1, CommitHolds
  <1>3. Standing
    BY DEF RowInv
  <1> QED BY <1>1, <1>2, <1>3, DoomedHeld

\* A request that only inserts, or sets a file, changes nothing else.
LEMMA OnlyInserts ==
  ASSUME RowInv, SerialInv, NEW x \in Requests, Commit(x),
         job[x].do \in {"CreateAlbum", "CreateTrack", "SetTrackFile", "CreatePlaylist", "AddTrack"}
  PROVE  cat' = Inserted(cat, job[x])
  <1> DEFINE e == Inserted(cat, job[x])
             cleared == {l[1] : l \in {l \in held[x] : l[2] = "NULL"}}
  <1>1. /\ JobsGiven /\ Standing /\ Asked
        /\ e \in Catalogue /\ Ranked(e) /\ cat' = Committed(x) /\ cat' \in Catalogue
    BY RankedInserted, CommitStep, CommitMakes DEF RowInv, SerialInv
  <1>2. Doomed(x) = {} /\ \A r : <<r, "NULL">> \notin held[x]
    BY <1>1, WhoDooms
  <1>3. cleared = {}
    <2>1. \A l \in held[x] : l = <<l[1], l[2]>>
      BY <1>1 DEF Standing, Locks
    <2> QED BY <1>2, <2>1
  <1>4. cat' = [artists |-> {a \in e.artists : Artist(a) \notin Doomed(x)},
                album |-> [b \in Albums |-> IF Album(b) \in Doomed(x) THEN None ELSE e.album[b]],
                track |-> [t \in Tracks |->
                             IF Track(t) \in Doomed(x) THEN None
                             ELSE IF Track(t) \in cleared THEN [e.track[t] EXCEPT !.album = None]
                             ELSE e.track[t]],
                list |-> [p \in Playlists |->
                            IF e.list[p] = None \/ Playlist(p) \in Doomed(x) THEN None
                            ELSE Only(e.list[p], {t \in Members(e, p) : Stays(x, p, t)})]]
    BY <1>1 DEF Committed
  <1> HIDE DEF e, cleared
  <1>5. /\ cat'.artists = e.artists
        /\ \A b \in Albums : cat'.album[b] = e.album[b]
        /\ \A t \in Tracks : cat'.track[t] = e.track[t]
    BY <1>2, <1>3, <1>4
  <1>6. ASSUME NEW p \in Playlists
        PROVE  cat'.list[p] = e.list[p]
    <2>1. cat'.list[p] = IF e.list[p] = None THEN None
                         ELSE Only(e.list[p], {t \in Members(e, p) : Stays(x, p, t)})
      BY <1>2, <1>4
    <2>2. {t \in Members(e, p) : Stays(x, p, t)} = Members(e, p)
      BY <1>2 DEF Stays
    <2>3. e.list[p] # None => e.list[p] = Only(e.list[p], Members(e, p))
      BY <1>1 DEF Ranked, LivePlaylists
    <2> QED BY <2>1, <2>2, <2>3
  <1>7. /\ e = [artists |-> e.artists, album |-> e.album, track |-> e.track, list |-> e.list]
        /\ e.album = [b \in Albums |-> e.album[b]] /\ e.track = [t \in Tracks |-> e.track[t]]
        /\ e.list = [p \in Playlists |-> e.list[p]]
    BY <1>1 DEF Catalogue
  <1>8. cat' = [artists |-> cat'.artists, album |-> e.album, track |-> e.track, list |-> e.list]
    BY <1>1, <1>5, <1>6, <1>7, CatalogueOf
  <1> QED BY <1>5, <1>7, <1>8 DEF e

LEMMA DoesInsert ==
  ASSUME RowInv, SerialInv, NEW x \in Requests, Commit(x),
         job[x].do \in {"CreateAlbum", "CreateTrack", "SetTrackFile", "CreatePlaylist", "AddTrack"}
  PROVE  Serial!Perform(job[x])
  <1> DEFINE d == job[x]
  <1>1. /\ d \in Jobs /\ JobOK(d) /\ cat \in Catalogue /\ cat' = Inserted(cat, d)
        /\ d.do = "AddTrack" => d.list \in LivePlaylists(cat)
    BY CommitAdds, OnlyInserts
  <1>2. \A s \in Listed(d) \cap Lasting : \A r, m : <<r, m>> \in Demand(x, s) => r \in Rows(cat)
    BY StillThere
  <1>3. CASE d.do = "CreateAlbum"
    <2>1. d.artist \in cat.artists
      <3>1. "refArtist" \in Listed(d) \cap Lasting
        BY <1>1, <1>3, ListsOfStatements DEF Lasting
      <3>2. Artist(d.artist) \in Rows(cat)
        BY <1>2, <3>1 DEF Demand, Reference
      <3> QED BY <1>1, <3>2, RowsOf
    <2>2. d.album \notin LiveAlbums(cat)
      BY <1>3, NewAtCommit
    <2>3. cat' = [cat EXCEPT !.album[d.album] = d.artist]
      BY <1>1, <1>3 DEF Inserted
    <2> QED BY <1>3, <2>1, <2>2, <2>3, SameOperators DEF Serial!Perform, Serial!CreateAlbum
  <1>4. CASE d.do = "CreateTrack"
    <2>1. d.artist \in cat.artists
      <3>1. "refArtist" \in Listed(d) \cap Lasting
        BY <1>1, <1>4, ListsOfStatements DEF Lasting
      <3>2. Artist(d.artist) \in Rows(cat)
        BY <1>2, <3>1 DEF Demand, Reference
      <3> QED BY <1>1, <3>2, RowsOf
    <2>2. d.album \in LiveAlbums(cat) \cup {None}
      <3> SUFFICES ASSUME d.album # None
                   PROVE  d.album \in LiveAlbums(cat)
        OBVIOUS
      <3>1. "refAlbum" \in Listed(d) \cap Lasting
        BY <1>1, <1>4, ListsOfStatements DEF Lasting
      <3>2. Album(d.album) \in Rows(cat)
        BY <1>2, <3>1 DEF Demand, Reference
      <3> QED BY <1>1, <3>2, RowsOf
    <2>3. d.track \notin LiveTracks(cat)
      BY <1>4, NewAtCommit
    <2>4. cat' = [cat EXCEPT !.track[d.track] = [artist |-> d.artist, album |-> d.album]]
      BY <1>1, <1>4 DEF Inserted
    <2> QED BY <1>4, <2>1, <2>2, <2>3, <2>4, SameOperators DEF Serial!Perform, Serial!CreateTrack
  <1>5. CASE d.do = "SetTrackFile"
    <2>1. "setFile" \in Listed(d) \cap Lasting
      BY <1>1, <1>5, ListsOfStatements DEF Lasting
    <2>2. Track(d.track) \in Rows(cat)
      BY <1>2, <2>1 DEF Demand
    <2>3. d.track \in LiveTracks(cat)
      BY <1>1, <2>2, RowsOf
    <2>4. cat' = cat
      BY <1>1, <1>5 DEF Inserted
    <2> QED BY <1>5, <2>3, <2>4, SameOperators DEF Serial!Perform, Serial!SetTrackFile
  <1>6. CASE d.do = "CreatePlaylist"
    <2>1. "refTrack" \in Listed(d) \cap Lasting /\ "refOther" \in Listed(d) \cap Lasting
      BY <1>1, <1>6, ListsOfStatements DEF Lasting
    <2>2. Track(d.track) \in Rows(cat) /\ Track(d.other) \in Rows(cat)
      BY <1>2, <2>1 DEF Demand, Reference
    <2>3. {d.track, d.other} \subseteq LiveTracks(cat)
      BY <1>1, <2>2, RowsOf
    <2>4. d.list \notin LivePlaylists(cat)
      BY <1>6, NewAtCommit
    <2>5. cat' = [cat EXCEPT !.list[d.list] =
                    [t \in Tracks |-> CASE t = d.track -> 0 [] t = d.other -> 1 [] OTHER -> None]]
      BY <1>1, <1>6 DEF Inserted
    <2> QED BY <1>6, <2>3, <2>4, <2>5, SameOperators DEF Serial!Perform, Serial!CreatePlaylist
  <1>7. CASE d.do = "AddTrack"
    <2>1. "refTrack" \in Listed(d) \cap Lasting
      BY <1>1, <1>7, ListsOfStatements DEF Lasting
    <2>2. Track(d.track) \in Rows(cat)
      BY <1>2, <2>1 DEF Demand, Reference
    <2>3. d.track \in LiveTracks(cat)
      BY <1>1, <2>2, RowsOf
    <2>4. cat' = [cat EXCEPT !.list[d.list] = Appended(@, d.track)]
      BY <1>1, <1>7 DEF Inserted
    <2> QED BY <1>1, <1>7, <2>3, <2>4, SameOperators DEF Serial!Perform, Serial!AddTrack
  <1> QED BY <1>3, <1>4, <1>5, <1>6, <1>7

\* A request that deletes takes away what is doomed, and no more.
LEMMA OnlyDeletes ==
  ASSUME RowInv, NEW x \in Requests, Commit(x),
         job[x].do \in {"DeleteTrack", "DeleteAlbum", "DeleteArtist", "RemoveTrack",
                        "DeletePlaylist"}
  PROVE  /\ cat' \in Catalogue
         /\ cat'.artists = {a \in cat.artists : Artist(a) \notin Doomed(x)}
         /\ \A b \in Albums : cat'.album[b] = IF Album(b) \in Doomed(x) THEN None ELSE cat.album[b]
         /\ \A t \in Tracks : cat'.track[t] =
              IF Track(t) \in Doomed(x) THEN None
              ELSE IF <<Track(t), "NULL">> \in held[x] THEN [cat.track[t] EXCEPT !.album = None]
              ELSE cat.track[t]
         /\ \A p \in Playlists : cat'.list[p] =
              IF p \notin LivePlaylists(cat) \/ Playlist(p) \in Doomed(x) THEN None
              ELSE Only(cat.list[p], {t \in Members(cat, p) : Member(p, t) \notin Doomed(x)})
  <1>1. Inserted(cat, job[x]) = cat
    BY DEF Inserted
  <1>2. \A p \in Playlists : cat'.list[p] =
          IF cat.list[p] = None \/ Playlist(p) \in Doomed(x) THEN None
          ELSE Only(cat.list[p], {t \in Members(cat, p) : Member(p, t) \notin Doomed(x)})
    BY <1>1, CommitLists
  <1>3. \A p \in Playlists : p \notin LivePlaylists(cat) <=> cat.list[p] = None
    BY DEF LivePlaylists
  <1>4. /\ cat' \in Catalogue
        /\ cat'.artists = {a \in cat.artists : Artist(a) \notin Doomed(x)}
    BY CommitMakes
  <1>5. \A b \in Albums : cat'.album[b] =
          IF Album(b) \in Doomed(x) THEN None
          ELSE IF job[x].do = "CreateAlbum" /\ b = job[x].album THEN job[x].artist ELSE cat.album[b]
    BY CommitMakes
  <1>6. \A t \in Tracks : cat'.track[t] =
          IF Track(t) \in Doomed(x) THEN None
          ELSE IF job[x].do = "CreateTrack" /\ t = job[x].track
               THEN [artist |-> job[x].artist, album |-> job[x].album]
          ELSE IF <<Track(t), "NULL">> \in held[x] THEN [cat.track[t] EXCEPT !.album = None]
          ELSE cat.track[t]
    BY CommitMakes
  <1>7. job[x].do # "CreateAlbum" /\ job[x].do # "CreateTrack"
    OBVIOUS
  <1> QED BY <1>2, <1>3, <1>4, <1>5, <1>6, <1>7

\* Whose locks clear tracks of their album: those on doomed albums.
LEMMA ClearsExactly ==
  ASSUME RowInv, SerialInv, NEW x \in Requests, Commit(x), NEW t \in Tracks
  PROVE  /\ <<Track(t), "NULL">> \in held[x] =>
              /\ t \in LiveTracks(cat)
              /\ cat.track[t].album = None \/ Album(cat.track[t].album) \in Doomed(x)
         /\ t \in LiveTracks(cat) /\ Album(cat.track[t].album) \in Doomed(x) =>
              <<Track(t), "NULL">> \in held[x]
  <1>1. <<Track(t), "NULL">> \in held[x] => t \in LiveTracks(cat)
    BY CommitMakes
  <1> QED BY <1>1, CascadesDone DEF SerialInv, OnDoomedAlbums

\* Which memberships go: those of a playlist or a track that goes, and the one
\* to be removed.
LEMMA MembersExactly ==
  ASSUME RowInv, SerialInv, NEW x \in Requests, Commit(x),
         NEW p \in LivePlaylists(cat), NEW t \in Members(cat, p), job[x].do # "RemoveTrack"
  PROVE  Member(p, t) \in Doomed(x) <=> Playlist(p) \in Doomed(x) \/ Track(t) \in Doomed(x)
  <1>1. p \in Playlists /\ t \in Tracks /\ Standing
    BY DEF LivePlaylists, Members, MembersOf, RowInv
  <1>2. Member(p, t) \in Doomed(x) => Playlist(p) \in Doomed(x) \/ Track(t) \in Doomed(x)
    BY <1>1, DoomedHeld DEF SerialInv, OwnMembers
  <1> QED BY <1>2, CascadesDone

LEMMA DoesDeleteTrack ==
  ASSUME RowInv, SerialInv, NEW x \in Requests, Commit(x), job[x].do = "DeleteTrack"
  PROVE  Serial!Perform(job[x])
  <1> DEFINE d == job[x]
             D == Doomed(x)
             W == Serial!Without({d.track})
  <1>1. /\ d \in Jobs /\ JobOK(d) /\ cat \in Catalogue /\ JobsGiven /\ Standing /\ Asked
        /\ d.track \in Tracks
    BY CommitAdds DEF RowInv, JobOK
  <1>2. Track(d.track) \in Rows(cat) /\ Track(d.track) \in D
    <2>1. "deleteTrack" \in Listed(d) \cap Lasting
      BY <1>1, ListsOfStatements DEF Lasting
    <2>2. <<Track(d.track), "DEL">> \in Demand(x, "deleteTrack")
      BY DEF Demand
    <2> QED BY <2>1, <2>2, StillThere
  <1>3. d.track \in LiveTracks(cat)
    BY <1>1, <1>2, RowsOf
  <1>4. /\ \A a : Artist(a) \notin D
        /\ \A b : Album(b) \notin D
        /\ \A t : Track(t) \in D <=> t = d.track
        /\ \A p : Playlist(p) \notin D
        /\ \A t : <<Track(t), "NULL">> \notin held[x]
    BY <1>1, <1>2, WhoDooms
  <1> HIDE DEF D
  <1>5. /\ cat' \in Catalogue /\ cat'.artists = cat.artists
        /\ \A b \in Albums : cat'.album[b] = cat.album[b]
        /\ \A t \in Tracks : cat'.track[t] = [cat.track EXCEPT ![d.track] = None][t]
    <2>1. cat.track \in [Tracks -> TrackRows \cup {None}]
      BY <1>1 DEF Catalogue
    <2>2. /\ cat' \in Catalogue
          /\ cat'.artists = {a \in cat.artists : Artist(a) \notin D}
          /\ \A b \in Albums : cat'.album[b] = IF Album(b) \in D THEN None ELSE cat.album[b]
          /\ \A t \in Tracks : cat'.track[t] =
               IF Track(t) \in D THEN None
               ELSE IF <<Track(t), "NULL">> \in held[x] THEN [cat.track[t] EXCEPT !.album = None]
               ELSE cat.track[t]
      BY OnlyDeletes DEF D
    <2> QED BY <1>4, <2>1, <2>2
  <1>6. \A p \in Playlists : cat'.list[p] = W[p]
    <2> TAKE p \in Playlists
    <2>1. W[p] = IF p \in LivePlaylists(cat) THEN Only(cat.list[p], Members(cat, p) \ {d.track})
                 ELSE None
      BY SameOperators DEF Serial!Without
    <2>2. cat'.list[p] = IF p \notin LivePlaylists(cat) THEN None
                         ELSE Only(cat.list[p], {t \in Members(cat, p) : Member(p, t) \notin D})
      BY <1>4, OnlyDeletes DEF D
    <2>3. p \in LivePlaylists(cat) =>
            {t \in Members(cat, p) : Member(p, t) \notin D} = Members(cat, p) \ {d.track}
      BY <1>4, MembersExactly DEF D
    <2> QED BY <2>1, <2>2, <2>3
  <1>7. W = [p \in Playlists |-> W[p]]
    BY DEF Serial!Without
  <1> HIDE DEF W
  <1>8. cat' = [artists |-> cat.artists, album |-> cat.album,
                track |-> [cat.track EXCEPT ![d.track] = None], list |-> W]
    <2>1. /\ cat.album = [b \in Albums |-> cat.album[b]]
          /\ [cat.track EXCEPT ![d.track] = None] =
               [t \in Tracks |-> [cat.track EXCEPT ![d.track] = None][t]]
      BY <1>1 DEF Catalogue
    <2> QED BY <1>5, <1>6, <1>7, <2>1, CatalogueOf
  <1> DEFINE e == [cat EXCEPT !.track[d.track] = None]
  <1>9. e = [artists |-> cat.artists, album |-> cat.album,
             track |-> [cat.track EXCEPT ![d.track] = None], list |-> cat.list]
    <2>1. cat = [artists |-> cat.artists, album |-> cat.album, track |-> cat.track,
                 list |-> cat.list]
      BY <1>1 DEF Catalogue
    <2> QED BY <2>1
  <1> HIDE DEF e
  <1>10. cat' = [e EXCEPT !.list = W]
    BY <1>8, <1>9
  <1>11. cat' = [cat EXCEPT !.track[d.track] = None, !.list = W]
    BY <1>10 DEF e
  <1> QED BY <1>3, <1>11, SameOperators DEF Serial!Perform, Serial!DeleteTrack, W

\* A playlist of which nothing goes stays as it is.
LEMMA ListStays ==
  ASSUME SerialInv, NEW p \in LivePlaylists(cat), NEW S, S = Members(cat, p)
  PROVE  Only(cat.list[p], S) = cat.list[p]
  BY DEF SerialInv, Ranked

LEMMA DoesDeleteAlbum ==
  ASSUME RowInv, SerialInv, NEW x \in Requests, Commit(x), job[x].do = "DeleteAlbum"
  PROVE  Serial!Perform(job[x])
  <1> DEFINE d == job[x]
             D == Doomed(x)
             G == Serial!OffAlbums({d.album})
  <1>1. /\ d \in Jobs /\ JobOK(d) /\ cat \in Catalogue /\ JobsGiven /\ Standing /\ Asked
        /\ d.album \in Albums
    BY CommitAdds DEF RowInv, JobOK
  <1>2. Album(d.album) \in Rows(cat) /\ Album(d.album) \in D
    <2>1. "deleteAlbum" \in Listed(d) \cap Lasting
      BY <1>1, ListsOfStatements DEF Lasting
    <2>2. <<Album(d.album), "DEL">> \in Demand(x, "deleteAlbum")
      BY DEF Demand
    <2> QED BY <2>1, <2>2, StillThere
  <1>3. d.album \in LiveAlbums(cat)
    BY <1>1, <1>2, RowsOf
  <1>4. /\ \A a : Artist(a) \notin D
        /\ \A b : Album(b) \in D <=> b = d.album
        /\ \A t : Track(t) \notin D
        /\ \A p : Playlist(p) \notin D
    BY <1>1, <1>2, WhoDooms
  <1> HIDE DEF D
  <1>5. /\ cat' \in Catalogue
        /\ cat'.artists = {a \in cat.artists : Artist(a) \notin D}
        /\ \A b \in Albums : cat'.album[b] = IF Album(b) \in D THEN None ELSE cat.album[b]
        /\ \A t \in Tracks : cat'.track[t] =
             IF Track(t) \in D THEN None
             ELSE IF <<Track(t), "NULL">> \in held[x] THEN [cat.track[t] EXCEPT !.album = None]
             ELSE cat.track[t]
    BY OnlyDeletes DEF D
  <1>6. cat'.artists = cat.artists
    BY <1>4, <1>5
  <1>7. \A b \in Albums : cat'.album[b] = [cat.album EXCEPT ![d.album] = None][b]
    <2>1. cat.album \in [Albums -> Artists \cup {None}]
      BY <1>1 DEF Catalogue
    <2> QED BY <1>4, <1>5, <2>1
  <1>8. \A t \in Tracks : cat'.track[t] = G[t]
    <2> TAKE t \in Tracks
    <2>1. G[t] = IF t \in LiveTracks(cat) /\ cat.track[t].album \in {d.album}
                 THEN [cat.track[t] EXCEPT !.album = None] ELSE cat.track[t]
      BY SameOperators DEF Serial!OffAlbums
    <2> HIDE DEF G
    <2>2. cat'.track[t] = IF <<Track(t), "NULL">> \in held[x]
                          THEN [cat.track[t] EXCEPT !.album = None] ELSE cat.track[t]
      BY <1>4, <1>5
    <2>3. CASE <<Track(t), "NULL">> \in held[x]
      <3>1. t \in LiveTracks(cat) /\ (cat.track[t].album = None \/ cat.track[t].album = d.album)
        BY <1>4, <2>3, ClearsExactly DEF D
      <3>2. cat.track[t].album = None => [cat.track[t] EXCEPT !.album = None] = cat.track[t]
        <4>1. cat.track[t] \in TrackRows
          BY <1>1, <3>1 DEF Catalogue, LiveTracks
        <4> QED BY <4>1 DEF TrackRows
      <3> QED BY <2>1, <2>2, <2>3, <3>1, <3>2
    <2>4. CASE <<Track(t), "NULL">> \notin held[x]
      <3>1. ~(t \in LiveTracks(cat) /\ cat.track[t].album = d.album)
        BY <1>4, <2>4, ClearsExactly DEF D
      <3> QED BY <2>1, <2>2, <2>4, <3>1
    <2> QED BY <2>3, <2>4
  <1>9. \A p \in Playlists : cat'.list[p] = cat.list[p]
    <2> TAKE p \in Playlists
    <2>1. cat'.list[p] = IF p \notin LivePlaylists(cat) THEN None
                         ELSE Only(cat.list[p], {t \in Members(cat, p) : Member(p, t) \notin D})
      BY <1>4, OnlyDeletes DEF D
    <2>2. p \in LivePlaylists(cat) =>
            {t \in Members(cat, p) : Member(p, t) \notin D} = Members(cat, p)
      BY <1>4, MembersExactly DEF D
    <2>3. p \notin LivePlaylists(cat) => cat.list[p] = None
      BY DEF LivePlaylists
    <2> QED BY <2>1, <2>2, <2>3, ListStays
  <1>10. G = [t \in Tracks |-> G[t]]
    BY DEF Serial!OffAlbums
  <1> HIDE DEF G
  <1>11. cat' = [artists |-> cat.artists, album |-> [cat.album EXCEPT ![d.album] = None],
                 track |-> G, list |-> cat.list]
    <2>1. /\ [cat.album EXCEPT ![d.album] = None] =
               [b \in Albums |-> [cat.album EXCEPT ![d.album] = None][b]]
          /\ cat.list = [p \in Playlists |-> cat.list[p]]
      BY <1>1 DEF Catalogue
    <2> QED BY <1>5, <1>6, <1>7, <1>8, <1>9, <1>10, <2>1, CatalogueOf
  <1> DEFINE e == [cat EXCEPT !.album[d.album] = None]
  <1>12. e = [artists |-> cat.artists, album |-> [cat.album EXCEPT ![d.album] = None],
              track |-> cat.track, list |-> cat.list]
    <2>1. cat = [artists |-> cat.artists, album |-> cat.album, track |-> cat.track,
                 list |-> cat.list]
      BY <1>1 DEF Catalogue
    <2> QED BY <2>1
  <1> HIDE DEF e
  <1>13. cat' = [e EXCEPT !.track = G]
    BY <1>11, <1>12
  <1>14. cat' = [cat EXCEPT !.album[d.album] = None, !.track = G]
    BY <1>13 DEF e
  <1> QED BY <1>3, <1>14, SameOperators DEF Serial!Perform, Serial!DeleteAlbum, G

LEMMA DoesDeletePlaylist ==
  ASSUME RowInv, SerialInv, NEW x \in Requests, Commit(x), job[x].do = "DeletePlaylist"
  PROVE  Serial!Perform(job[x])
  <1> DEFINE d == job[x]
             D == Doomed(x)
  <1>1. /\ d \in Jobs /\ JobOK(d) /\ cat \in Catalogue /\ JobsGiven /\ Standing /\ Asked
        /\ d.list \in Playlists
    BY CommitAdds DEF RowInv, JobOK
  <1>2. Playlist(d.list) \in Rows(cat) /\ Playlist(d.list) \in D
    <2>1. "deletePlaylist" \in Listed(d) \cap Lasting
      BY <1>1, ListsOfStatements DEF Lasting
    <2>2. <<Playlist(d.list), "DEL">> \in Demand(x, "deletePlaylist")
      BY DEF Demand
    <2> QED BY <2>1, <2>2, StillThere
  <1>3. d.list \in LivePlaylists(cat)
    BY <1>1, <1>2, RowsOf
  <1>4. /\ \A a : Artist(a) \notin D
        /\ \A b : Album(b) \notin D
        /\ \A t : Track(t) \notin D
        /\ \A p : Playlist(p) \in D <=> p = d.list
        /\ \A t : <<Track(t), "NULL">> \notin held[x]
    BY <1>1, <1>2, WhoDooms
  <1> HIDE DEF D
  <1>5. /\ cat' \in Catalogue /\ cat'.artists = cat.artists
        /\ \A b \in Albums : cat'.album[b] = cat.album[b]
        /\ \A t \in Tracks : cat'.track[t] = cat.track[t]
    <2>1. /\ cat' \in Catalogue
          /\ cat'.artists = {a \in cat.artists : Artist(a) \notin D}
          /\ \A b \in Albums : cat'.album[b] = IF Album(b) \in D THEN None ELSE cat.album[b]
          /\ \A t \in Tracks : cat'.track[t] =
               IF Track(t) \in D THEN None
               ELSE IF <<Track(t), "NULL">> \in held[x] THEN [cat.track[t] EXCEPT !.album = None]
               ELSE cat.track[t]
      BY OnlyDeletes DEF D
    <2> QED BY <1>4, <2>1
  <1>6. \A p \in Playlists : cat'.list[p] = [cat.list EXCEPT ![d.list] = None][p]
    <2> TAKE p \in Playlists
    <2>1. cat'.list[p] = IF p \notin LivePlaylists(cat) \/ p = d.list THEN None
                         ELSE Only(cat.list[p], {t \in Members(cat, p) : Member(p, t) \notin D})
      BY <1>4, OnlyDeletes DEF D
    <2>2. p \in LivePlaylists(cat) /\ p # d.list =>
            {t \in Members(cat, p) : Member(p, t) \notin D} = Members(cat, p)
      BY <1>4, MembersExactly DEF D
    <2>3. p \notin LivePlaylists(cat) => cat.list[p] = None
      BY DEF LivePlaylists
    <2>4. cat'.list[p] = IF p = d.list THEN None ELSE cat.list[p]
      BY <2>1, <2>2, <2>3, ListStays
    <2>5. cat.list \in [Playlists -> Lists \cup {None}]
      BY <1>1 DEF Catalogue
    <2> QED BY <2>4, <2>5
  <1>7. cat' = [artists |-> cat.artists, album |-> cat.album, track |-> cat.track,
                list |-> [cat.list EXCEPT ![d.list] = None]]
    <2>1. /\ cat.album = [b \in Albums |-> cat.album[b]]
          /\ cat.track = [t \in Tracks |-> cat.track[t]]
          /\ [cat.list EXCEPT ![d.list] = None] =
               [p \in Playlists |-> [cat.list EXCEPT ![d.list] = None][p]]
      BY <1>1 DEF Catalogue
    <2> QED BY <1>5, <1>6, <2>1, CatalogueOf
  <1>8. cat' = [cat EXCEPT !.list[d.list] = None]
    <2>1. cat = [artists |-> cat.artists, album |-> cat.album, track |-> cat.track,
                 list |-> cat.list]
      BY <1>1 DEF Catalogue
    <2> QED BY <1>7, <2>1
  <1> QED BY <1>3, <1>8, SameOperators DEF Serial!Perform, Serial!DeletePlaylist

LEMMA DoesRemoveTrack ==
  ASSUME RowInv, SerialInv, NEW x \in Requests, Commit(x), job[x].do = "RemoveTrack"
  PROVE  Serial!Perform(job[x])
  <1> DEFINE d == job[x]
             D == Doomed(x)
             l == Only(cat.list[d.list], Members(cat, d.list) \ {d.track})
  <1>1. /\ d \in Jobs /\ JobOK(d) /\ cat \in Catalogue /\ JobsGiven /\ Standing /\ Asked
        /\ d.list \in Playlists /\ d.track \in Tracks
    BY CommitAdds DEF RowInv, JobOK
  <1>2. Member(d.list, d.track) \in Rows(cat) /\ Member(d.list, d.track) \in D
    <2>1. "removeMember" \in Listed(d) \cap Lasting
      BY <1>1, ListsOfStatements DEF Lasting
    <2>2. <<Member(d.list, d.track), "DEL">> \in Demand(x, "removeMember")
      BY DEF Demand
    <2> QED BY <2>1, <2>2, StillThere
  <1>3. d.list \in LivePlaylists(cat) /\ d.track \in Members(cat, d.list)
    BY <1>1, <1>2, RowsOf
  <1>4. /\ \A a : Artist(a) \notin D
        /\ \A b : Album(b) \notin D
        /\ \A t : Track(t) \notin D
        /\ \A p : Playlist(p) \notin D
        /\ \A t : <<Track(t), "NULL">> \notin held[x]
    BY <1>1, WhoDooms
  <1>5. \A p \in Playlists, t \in Tracks : Member(p, t) \in D <=> p = d.list /\ t = d.track
    <2> TAKE p \in Playlists, t \in Tracks
    <2>1. Member(p, t) \in D => p = d.list /\ t = d.track
      BY <1>1, <1>4, DoomedHeld DEF SerialInv, OwnMembers
    <2> HIDE DEF D
    <2> QED BY <1>2, <2>1
  <1> HIDE DEF D
  <1>6. /\ cat' \in Catalogue /\ cat'.artists = cat.artists
        /\ \A b \in Albums : cat'.album[b] = cat.album[b]
        /\ \A t \in Tracks : cat'.track[t] = cat.track[t]
    <2>1. /\ cat' \in Catalogue
          /\ cat'.artists = {a \in cat.artists : Artist(a) \notin D}
          /\ \A b \in Albums : cat'.album[b] = IF Album(b) \in D THEN None ELSE cat.album[b]
          /\ \A t \in Tracks : cat'.track[t] =
               IF Track(t) \in D THEN None
               ELSE IF <<Track(t), "NULL">> \in held[x] THEN [cat.track[t] EXCEPT !.album = None]
               ELSE cat.track[t]
      BY OnlyDeletes DEF D
    <2> QED BY <1>4, <2>1
  <1>7. \A p \in Playlists : cat'.list[p] = [cat.list EXCEPT ![d.list] = l][p]
    <2> TAKE p \in Playlists
    <2>1. cat'.list[p] = IF p \notin LivePlaylists(cat) THEN None
                         ELSE Only(cat.list[p], {t \in Members(cat, p) : Member(p, t) \notin D})
      BY <1>4, OnlyDeletes DEF D
    <2>2. Members(cat, p) \subseteq Tracks
      BY DEF Members, MembersOf
    <2>3. p = d.list =>
            {t \in Members(cat, p) : Member(p, t) \notin D} = Members(cat, d.list) \ {d.track}
      BY <1>5, <2>2
    <2>4. p # d.list => {t \in Members(cat, p) : Member(p, t) \notin D} = Members(cat, p)
      BY <1>5, <2>2
    <2>5. p \notin LivePlaylists(cat) => cat.list[p] = None
      BY DEF LivePlaylists
    <2>6. cat'.list[p] = IF p = d.list THEN l ELSE cat.list[p]
      BY <1>3, <2>1, <2>3, <2>4, <2>5, ListStays
    <2>7. cat.list \in [Playlists -> Lists \cup {None}]
      BY <1>1 DEF Catalogue
    <2> HIDE DEF l
    <2> QED BY <2>6, <2>7
  <1> HIDE DEF l
  <1>8. cat' = [artists |-> cat.artists, album |-> cat.album, track |-> cat.track,
                list |-> [cat.list EXCEPT ![d.list] = l]]
    <2>1. /\ cat.album = [b \in Albums |-> cat.album[b]]
          /\ cat.track = [t \in Tracks |-> cat.track[t]]
          /\ [cat.list EXCEPT ![d.list] = l] =
               [p \in Playlists |-> [cat.list EXCEPT ![d.list] = l][p]]
      BY <1>1 DEF Catalogue
    <2> QED BY <1>6, <1>7, <2>1, CatalogueOf
  <1>9. cat' = [cat EXCEPT !.list[d.list] = l]
    <2>1. cat = [artists |-> cat.artists, album |-> cat.album, track |-> cat.track,
                 list |-> cat.list]
      BY <1>1 DEF Catalogue
    <2> QED BY <1>8, <2>1
  <1> QED BY <1>3, <1>9, SameOperators DEF Serial!Perform, Serial!RemoveTrack, l

LEMMA DoesDeleteArtist ==
  ASSUME RowInv, SerialInv, NEW x \in Requests, Commit(x), job[x].do = "DeleteArtist"
  PROVE  Serial!Perform(job[x])
  <1> USE RowLocksAssumption
  <1> DEFINE d == job[x]
             D == Doomed(x)
             B == {b \in LiveAlbums(cat) : cat.album[b] = d.artist}
             T == TracksBy(cat, d.artist)
             F == [b \in Albums |-> IF b \in B THEN None ELSE cat.album[b]]
             G == [t \in Tracks |-> IF t \in T THEN None ELSE Serial!OffAlbums(B)[t]]
             W == Serial!Without(T)
  <1>1. /\ d \in Jobs /\ JobOK(d) /\ cat \in Catalogue /\ Intact(cat)
        /\ JobsGiven /\ Standing /\ Asked
    BY CommitAdds DEF RowInv
  <1>2. Artist(d.artist) \in Rows(cat) /\ Artist(d.artist) \in D
    <2>1. "deleteArtist" \in Listed(d) \cap Lasting
      BY <1>1, ListsOfStatements DEF Lasting
    <2>2. <<Artist(d.artist), "DEL">> \in Demand(x, "deleteArtist")
      BY DEF Demand
    <2> QED BY <2>1, <2>2, StillThere
  <1>3. d.artist \in cat.artists
    BY <1>1, <1>2, RowsOf
  <1>4. /\ \A a : Artist(a) \in D <=> a = d.artist
        /\ \A p : Playlist(p) \notin D
    BY <1>1, <1>2, WhoDooms
  <1>5. \A b \in LiveAlbums(cat) : Album(b) \in D <=> b \in B
    <2> TAKE b \in LiveAlbums(cat)
    <2>1. b \in Albums
      BY DEF LiveAlbums
    <2>2. Album(b) \in D => cat.album[b] = d.artist
      BY <1>1, <2>1, DoomedHeld DEF SerialInv, OwnAlbums
    <2>3. cat.album[b] = d.artist => Album(b) \in D
      BY <1>2, CascadesDone
    <2> QED BY <2>2, <2>3
  <1>6. \A t \in LiveTracks(cat) : Track(t) \in D <=> t \in T
    <2> TAKE t \in LiveTracks(cat)
    <2>1. t \in Tracks
      BY DEF LiveTracks
    <2>2. Track(t) \in D => cat.track[t].artist = d.artist
      BY <1>1, <2>1, DoomedHeld DEF RowInv, OwnTracks
    <2>3. cat.track[t].artist = d.artist => Track(t) \in D
      BY <1>2, CascadesDone
    <2> QED BY <2>2, <2>3 DEF TracksBy
  <1> HIDE DEF D
  <1>7. /\ cat' \in Catalogue
        /\ cat'.artists = {a \in cat.artists : Artist(a) \notin D}
        /\ \A b \in Albums : cat'.album[b] = IF Album(b) \in D THEN None ELSE cat.album[b]
        /\ \A t \in Tracks : cat'.track[t] =
             IF Track(t) \in D THEN None
             ELSE IF <<Track(t), "NULL">> \in held[x] THEN [cat.track[t] EXCEPT !.album = None]
             ELSE cat.track[t]
    BY OnlyDeletes DEF D
  <1>8. cat'.artists = cat.artists \ {d.artist}
    BY <1>4, <1>7
  <1>9. \A b \in Albums : cat'.album[b] = F[b]
    <2> TAKE b \in Albums
    <2>1. b \notin LiveAlbums(cat) => cat.album[b] = None
      BY DEF LiveAlbums
    <2>2. b \notin LiveAlbums(cat) => b \notin B
      OBVIOUS
    <2>3. F[b] = IF b \in B THEN None ELSE cat.album[b]
      OBVIOUS
    <2> HIDE DEF B, F
    <2> QED BY <1>5, <1>7, <2>1, <2>2, <2>3
  <1>10. \A t \in Tracks : cat'.track[t] = G[t]
    <2> TAKE t \in Tracks
    <2>1. Serial!OffAlbums(B)[t] = IF t \in LiveTracks(cat) /\ cat.track[t].album \in B
                                   THEN [cat.track[t] EXCEPT !.album = None] ELSE cat.track[t]
      <3> HIDE DEF B
      <3> QED BY SameOperators DEF Serial!OffAlbums
    <2>2. G[t] = IF t \in T THEN None
                 ELSE IF t \in LiveTracks(cat) /\ cat.track[t].album \in B
                 THEN [cat.track[t] EXCEPT !.album = None] ELSE cat.track[t]
      BY <2>1
    <2>3. T \subseteq LiveTracks(cat) /\ B \subseteq LiveAlbums(cat)
      BY DEF TracksBy
    <2> HIDE DEF B, T, G
    <2>4. CASE t \notin LiveTracks(cat)
      <3>1. cat.track[t] = None
        BY <2>4 DEF LiveTracks
      <3>2. <<Track(t), "NULL">> \notin held[x]
        BY <2>4, ClearsExactly
      <3> QED BY <1>7, <2>2, <2>3, <2>4, <3>1, <3>2
    <2>5. CASE t \in T
      <3>1. Track(t) \in D
        BY <1>6, <2>3, <2>5
      <3> QED BY <1>7, <2>2, <2>5, <3>1
    <2>6. CASE t \in LiveTracks(cat) /\ t \notin T
      <3>1. Track(t) \notin D
        BY <1>6, <2>6
      <3>2. cat.track[t].album \in LiveAlbums(cat) \cup {None}
        BY <1>1, <2>6 DEF Intact
      <3>3. cat.track[t].album = None => [cat.track[t] EXCEPT !.album = None] = cat.track[t]
        <4>1. cat.track[t] \in TrackRows
          BY <1>1, <2>6 DEF Catalogue, LiveTracks
        <4> QED BY <4>1 DEF TrackRows
      <3>4. cat.track[t].album \in B => <<Track(t), "NULL">> \in held[x]
        BY <1>5, <2>3, <2>6, ClearsExactly DEF D
      <3>5. <<Track(t), "NULL">> \in held[x] =>
              cat.track[t].album = None \/ Album(cat.track[t].album) \in D
        BY ClearsExactly DEF D
      <3>6. <<Track(t), "NULL">> \in held[x] => cat.track[t].album \in B \cup {None}
        BY <1>5, <3>2, <3>5
      <3>7. cat'.track[t] = IF <<Track(t), "NULL">> \in held[x]
                            THEN [cat.track[t] EXCEPT !.album = None] ELSE cat.track[t]
        BY <1>7, <3>1
      <3>8. G[t] = IF cat.track[t].album \in B
                   THEN [cat.track[t] EXCEPT !.album = None] ELSE cat.track[t]
        BY <2>2, <2>6
      <3> DEFINE off == [cat.track[t] EXCEPT !.album = None]
      <3> HIDE DEF off
      <3>9. cat'.track[t] = IF <<Track(t), "NULL">> \in held[x] THEN off ELSE cat.track[t]
        BY <3>7 DEF off
      <3>10. G[t] = IF cat.track[t].album \in B THEN off ELSE cat.track[t]
        BY <3>8 DEF off
      <3>11. cat.track[t].album = None => off = cat.track[t]
        BY <3>3 DEF off
      <3> QED BY <3>4, <3>6, <3>9, <3>10, <3>11
    <2> QED BY <2>4, <2>5, <2>6
  <1>11. \A p \in Playlists : cat'.list[p] = W[p]
    <2> TAKE p \in Playlists
    <2>1. W[p] = IF p \in LivePlaylists(cat) THEN Only(cat.list[p], Members(cat, p) \ T) ELSE None
      BY SameOperators DEF Serial!Without
    <2>2. cat'.list[p] = IF p \notin LivePlaylists(cat) THEN None
                         ELSE Only(cat.list[p], {t \in Members(cat, p) : Member(p, t) \notin D})
      BY <1>4, OnlyDeletes DEF D
    <2>3. p \in LivePlaylists(cat) => Members(cat, p) \subseteq LiveTracks(cat)
      BY <1>1 DEF Intact
    <2> HIDE DEF T
    <2>4. p \in LivePlaylists(cat) =>
            {t \in Members(cat, p) : Member(p, t) \notin D} = Members(cat, p) \ T
      <3> SUFFICES ASSUME p \in LivePlaylists(cat)
                   PROVE  \A t \in Members(cat, p) : Member(p, t) \notin D <=> t \notin T
        OBVIOUS
      <3> TAKE t \in Members(cat, p)
      <3>1. Member(p, t) \in D <=> Playlist(p) \in D \/ Track(t) \in D
        BY MembersExactly DEF D
      <3> QED BY <1>4, <1>6, <2>3, <3>1
    <2> QED BY <2>1, <2>2, <2>4
  <1>12. /\ F = [b \in Albums |-> F[b]] /\ G = [t \in Tracks |-> G[t]]
         /\ W = [p \in Playlists |-> W[p]]
    BY DEF Serial!Without
  <1> HIDE DEF F, G, W
  <1>13. cat' = [artists |-> cat.artists \ {d.artist}, album |-> F, track |-> G, list |-> W]
    BY <1>7, <1>8, <1>9, <1>10, <1>11, <1>12, CatalogueOf
  <1> QED BY <1>3, <1>13, SameOperators DEF Serial!Perform, Serial!DeleteArtist, F, G, W

LEMMA CommitPerforms ==
  ASSUME RowInv, SerialInv, NEW x \in Requests, Commit(x)
  PROVE  Serial!Perform(job[x])
  <1>1. JobOK(job[x])
    BY CommitAdds
  <1> QED BY <1>1, DoesInsert, DoesDeleteTrack, DoesDeleteAlbum, DoesDeleteArtist,
             DoesRemoveTrack, DoesDeletePlaylist DEF JobOK

-----------------------------------------------------------------------------
(***************************************************************************)
(* The implementation.                                                     *)
(***************************************************************************)
LEMMA SerialStarts == Init => Serial!SerialInit
  <1> SUFFICES ASSUME Init
               PROVE  Serial!SerialInit
    OBVIOUS
  <1>1. cat \in Catalogues /\ job \in [Requests -> Jobs] /\ FreshIds(cat, job)
    BY DEF Init
  <1>2. {x \in Requests : pc[x] # "ended"} = Requests
    BY DEF Init
  <1>3. \A c : Serial!Rows(c) = Rows(c)
    BY SameOperators DEF Serial!Rows, Rows, Serial!Artist, Artist, Serial!Album, Album,
       Serial!Track, Track, Serial!Playlist, Playlist, Serial!Member, Member
  <1>4. \A d : Serial!NewRows(d) = NewRows(d)
    BY DEF Serial!NewRows, NewRows, Serial!Album, Album, Serial!Track, Track,
           Serial!Playlist, Playlist
  <1>5. Serial!FreshIds(cat, job)
    BY <1>1, <1>3, <1>4 DEF Serial!FreshIds, FreshIds
  <1> QED BY <1>1, <1>2, <1>5 DEF Serial!SerialInit

LEMMA SerialSteps ==
  RowInv /\ SerialInv /\ [Next]_vars => [Serial!SerialNext]_(Serial!serialVars)
  <1> SUFFICES ASSUME RowInv, SerialInv, [Next]_vars
               PROVE  [Serial!SerialNext]_(Serial!serialVars)
    OBVIOUS
  <1> DEFINE Open == {x \in Requests : pc[x] # "ended"}
  <1>1. CASE UNCHANGED vars
    <2>1. cat' = cat /\ job' = job /\ pc' = pc
      BY <1>1 DEF vars
    <2> QED BY <2>1 DEF Serial!serialVars
  <1>2. ASSUME NEW x \in Requests, Others(x), pc[x] # "ended"
        PROVE  x \in Open /\ Open' = IF pc'[x] = "ended" THEN Open \ {x} ELSE Open
    BY <1>2, OthersSame
  <1>3. ASSUME NEW x \in Requests, Moved(x)
        PROVE  [Serial!SerialNext]_(Serial!serialVars)
    <2>1. Others(x) /\ cat' = cat /\ job' = job /\ (pc[x] # "ended" \/ pc'[x] = "ended")
      BY <1>3 DEF Moved, Others
    <2>2. CASE pc[x] # "ended" /\ pc'[x] = "ended"
      <3>1. x \in Open /\ Open' = Open \ {x}
        BY <1>2, <2>1, <2>2
      <3>2. Serial!Fails(x)
        BY <2>1, <3>1 DEF Serial!Fails, Serial!Answered
      <3> QED BY <3>2 DEF Serial!SerialNext
    <2>3. CASE ~(pc[x] # "ended" /\ pc'[x] = "ended")
      <3>1. \A y \in Requests : pc'[y] # "ended" <=> pc[y] # "ended"
        BY <2>1, <2>3, OthersSame
      <3>2. Open' = Open
        BY <3>1
      <3> QED BY <2>1, <3>2 DEF Serial!serialVars
    <2> QED BY <2>2, <2>3
  <1>4. ASSUME NEW x \in Requests, Commit(x)
        PROVE  [Serial!SerialNext]_(Serial!serialVars)
    <2>1. /\ Others(x) /\ job' = job /\ pc[x] = "running" /\ pc'[x] = "ended"
      BY <1>4, CommitStep DEF Ended
    <2>2. x \in Open /\ Open' = Open \ {x}
      BY <1>2, <2>1
    <2>3. Serial!Perform(job[x])
      BY <1>4, CommitPerforms
    <2>4. Serial!TakesEffect(x)
      BY <2>1, <2>2, <2>3 DEF Serial!TakesEffect, Serial!Answered
    <2> QED BY <2>4 DEF Serial!SerialNext
  <1> QED BY <1>1, <1>3, <1>4, MoveCases

\* The requests that write take effect one after another, each at its commit,
\* for every catalogue, set of requests and size of the pool: with READ
\* COMMITTED, what a request found and locked while others were under way is
\* what it would find if it ran alone at that moment (trackrepo.go:66-170,
\* 198, artistrepo.go:56, albumrepo.go:38, playlistrepo.go:38-155).
THEOREM RequestsAreSerial == Spec => ImplementsSerial
  <1> QED BY SerialStarts, SerialSteps, SerialAlways, PTL
          DEF Spec, ImplementsSerial, Serial!SerialSpec

===============================================================================
