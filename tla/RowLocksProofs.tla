---------------------------- MODULE RowLocksProofs ----------------------------
(***************************************************************************)
(* Proofs about RowLocks, for any number of requests, over any catalogues  *)
(* that the schema allows.                                                 *)
(***************************************************************************)
EXTENDS RowLocks, FiniteNumbers, SequenceTheorems, TLAPS

USE RowLocksAssumption

-----------------------------------------------------------------------------
(***************************************************************************)
(* The inductive invariants behind the properties of RowLocks: what a      *)
(* transaction locks as its statements go by, and what stays true of the   *)
(* catalogue while it holds those locks.                                   *)
(***************************************************************************)
Locks == AllRows \X Modes

\* The statements that the transaction has behind it.
Done(x) ==
    IF pc[x] # "running" THEN {}
    ELSE {Statements(job[x])[i] : i \in 1 .. (Len(Statements(job[x])) - Len(todo[x]))}

Current(x) == IF at[x] = None THEN {} ELSE {Head(todo[x])}

\* What statement s of job d may ask for, whatever the catalogue.
Asks(d, s) ==
    CASE s = "refArtist" -> Reference(Artist(d.artist))
      [] s = "refAlbum" -> Reference(Album(d.album))
      [] s = "refTrack" -> Reference(Track(d.track))
      [] s = "refOther" -> Reference(Track(d.other))
      [] s = "setFile" -> {<<Track(d.track), "NKU">>}
      [] s = "touch" -> {<<Playlist(d.list), "NKU">>}
      [] s = "removeMember" -> {<<Member(d.list, d.track), "DEL">>}
      [] s = "renumber" -> {<<Member(p, t), "UPD">> : p \in Playlists, t \in Tracks}
      [] s = "lockPlaylists" -> {<<Playlist(p), "UPD">> : p \in Playlists}
      [] s = "readMemberships" -> {}
      [] s = "deleteTrack" -> {<<Track(d.track), "DEL">>}
      [] s = "deletePlaylist" -> {<<Playlist(d.list), "DEL">>}
      [] s = "deleteAlbum" -> {<<Album(d.album), "DEL">>}
      [] s = "lockTracks" -> {<<Track(t), "UPD">> : t \in Tracks}
      [] s = "deleteArtist" -> {<<Artist(d.artist), "DEL">>}
      [] s = "cascadeAlbums" -> {<<Album(b), "DEL">> : b \in Albums}
      [] s = "clearAlbum" -> {<<Track(t), "NULL">> : t \in Tracks}
      [] s = "cascadeTracks" -> {<<Track(t), "DEL">> : t \in Tracks}
      [] s = "cascadeMembers" -> {<<Member(p, t), "DEL">> : p \in Playlists, t \in Tracks}

-----------------------------------------------------------------------------
\* Jobs are as they were given, and what they create is nobody else's.
JobsGiven ==
    /\ job \in [Requests -> Jobs]
    /\ \A x, y \in Requests : x # y => NewRows(job[x]) \cap NewRows(job[y]) = {}

\* Where a request stands: what it does when it holds and wants something.
Standing ==
    /\ pc \in [Requests -> {"waiting", "running", "ended"}]
    /\ DOMAIN todo = Requests
    /\ want \in [Requests -> SUBSET Locks] /\ held \in [Requests -> SUBSET Locks]
    /\ at \in [Requests -> Locks \cup {None}]
    /\ read \in [Requests -> SUBSET Playlists]
    /\ \A x \in Requests :
         /\ pc[x] # "running" => /\ todo[x] = <<>> /\ want[x] = {} /\ at[x] = None
                                 /\ held[x] = {} /\ read[x] = {}
         /\ \E i \in 1 .. Len(Statements(job[x])) + 1 :
              todo[x] = SubSeq(Statements(job[x]), i, Len(Statements(job[x])))
         /\ at[x] = None => want[x] = {}
         /\ at[x] # None => at[x] \in want[x] /\ todo[x] # <<>>

\* Locks are those of the statements done and under way.
Asked ==
    \A x \in Requests :
        /\ want[x] \subseteq UNION {Asks(job[x], s) : s \in Current(x)}
        /\ held[x] \subseteq UNION {Asks(job[x], s) : s \in Done(x) \cup Current(x)}

\* Locks on a row do not conflict, and the row stays while it is locked.
LocksGranted ==
    /\ \A x, y \in Requests : x # y => \A l \in held[x] : ~Blocks(y, l)
    /\ \A x \in Requests : \A l \in held[x] : l[1] \in Rows(cat)

\* A row to be created is not there before.
NotYetThere == \A x \in Requests : pc[x] # "ended" => NewRows(job[x]) \cap Rows(cat) = {}

\* Statements of which it matters that what they find stays all there is to
\* find, thanks to the locks that are held.
Lasting ==
    {"refArtist", "refAlbum", "refTrack", "refOther", "setFile", "touch", "removeMember",
     "deleteTrack", "deletePlaylist", "deleteAlbum", "deleteArtist", "cascadeAlbums",
     "clearAlbum", "cascadeTracks", "cascadeMembers"}

\* What a statement has to lock is locked once it is done.
AllLocked ==
    \A x \in Requests :
        /\ \A s \in Done(x) \cap Lasting : Demand(x, s) \subseteq held[x]
        /\ \A s \in Current(x) \cap Lasting : Demand(x, s) \subseteq held[x] \cup want[x]

\* Nobody is about to create row r.
Settled(r) == \A y \in Requests : pc[y] # "ended" => r \notin NewRows(job[y])

\* The tracks that the delete of an artist takes along are its own.
OwnTracks ==
    \A x \in Requests : job[x].do = "DeleteArtist" =>
        \A t \in Tracks : <<Track(t), "DEL">> \in held[x] \cup want[x] =>
            /\ Settled(Track(t))
            /\ t \in LiveTracks(cat) => cat.track[t].artist = job[x].artist

PoolRespected == Cardinality(Running) <= MaxOpenConns

RowInv ==
    /\ JobsGiven
    /\ PoolRespected
    /\ cat \in Catalogue /\ Intact(cat)
    /\ Standing
    /\ Asked
    /\ LocksGranted
    /\ NotYetThere
    /\ AllLocked
    /\ OwnTracks

-----------------------------------------------------------------------------
\* The requests under way do not put a track where another deletes it.
QuietRunning == \A x, y \in Running : ~Disturbs(job[x], job[y])

\* All playlists that a track being deleted is in are locked.
ListsLocked ==
    \A x \in Requests :
        /\ "lockPlaylists" \in Done(x) => LockPlaylists(x) \subseteq held[x]
        /\ "lockPlaylists" \in Current(x) => LockPlaylists(x) \subseteq held[x] \cup want[x]

\* The playlists to renumber are locked.
ReadsLocked ==
    \A x \in Requests : \A p \in read[x] : \E m \in {"NKU", "UPD"} : <<Playlist(p), m>> \in held[x]

\* Memberships are locked under the lock of their playlist.
MembersUnder ==
    \A x \in Requests : job[x].do # "DeleteArtist" =>
        \A p \in Playlists, t \in Tracks, m \in Modes :
            <<Member(p, t), m>> \in held[x] \cup want[x] =>
                \E n \in {"NKU", "UPD", "DEL"} : <<Playlist(p), n>> \in held[x]

\* The playlists of a track are locked in the order of their ids.
InOrder ==
    \A x \in Requests : "lockPlaylists" \in Current(x) =>
        \A l \in want[x] :
            /\ at[x][1][2] <= l[1][2]
            /\ \A k \in held[x] : k[1][2] < l[1][2]

\* The tracks that album deletes leave without an album are on their album.
OnItsAlbum ==
    /\ \A x \in Requests : job[x].do = "DeleteAlbum" =>
         \A t \in Tracks : <<Track(t), "NULL">> \in held[x] \cup want[x] =>
            /\ Settled(Track(t))
            /\ t \in LiveTracks(cat) => cat.track[t].album \in {job[x].album, None}
    /\ \A x, y \in Requests : x # y /\ job[x].do = "DeleteAlbum" /\ job[y].do = "DeleteAlbum" =>
         \A t \in LiveTracks(cat) :
           ~(/\ <<Track(t), "NULL">> \in held[x] \cup want[x]
             /\ <<Track(t), "NULL">> \in held[y] \cup want[y])

OrderInv ==
    /\ QuietRunning
    /\ ListsLocked
    /\ ReadsLocked
    /\ MembersUnder
    /\ InOrder
    /\ OnItsAlbum

-----------------------------------------------------------------------------
(***************************************************************************)
(* Names of rows, and lists of statements.                                 *)
(***************************************************************************)
LEMMA RowNames ==
  /\ \A a, b : Artist(a) = Artist(b) => a = b
  /\ \A a, b : Album(a) = Album(b) => a = b
  /\ \A a, b : Track(a) = Track(b) => a = b
  /\ \A a, b : Playlist(a) = Playlist(b) => a = b
  /\ \A a, b, c, d : Member(a, b) = Member(c, d) => a = c /\ b = d
  /\ \A a, b : Artist(a) # Album(b) /\ Artist(a) # Track(b) /\ Artist(a) # Playlist(b)
  /\ \A a, b : Album(a) # Track(b) /\ Album(a) # Playlist(b) /\ Track(a) # Playlist(b)
  /\ \A a, b, c : /\ Artist(a) # Member(b, c) /\ Album(a) # Member(b, c)
                  /\ Track(a) # Member(b, c) /\ Playlist(a) # Member(b, c)
  BY DEF Artist, Album, Track, Playlist, Member

LEMMA RowParts ==
  /\ \A a : /\ Artist(a)[1] # "member" /\ Album(a)[1] # "member"
            /\ Track(a)[1] # "member" /\ Playlist(a)[1] # "member"
  /\ \A a, b : Member(a, b)[1] = "member" /\ Member(a, b)[2] = a /\ Member(a, b)[3] = b
  /\ \A a : Playlist(a)[2] = a
  BY DEF Artist, Album, Track, Playlist, Member

\* The statements of job d, and those before the i-th.
Listed(d) == {Statements(d)[i] : i \in 1 .. Len(Statements(d))}
Behind(d, i) == {Statements(d)[j] : j \in 1 .. (i - 1)}

LEMMA ListsOfStatements ==
  ASSUME NEW d \in Jobs
  PROVE  /\ Statements(d) \in Seq(Listed(d))
         /\ d.do = "CreateAlbum" => Listed(d) = {"refArtist"}
         /\ d.do = "CreateTrack" => Listed(d) = IF d.album = None THEN {"refArtist"}
                                                ELSE {"refArtist", "refAlbum"}
         /\ d.do = "SetTrackFile" => Listed(d) = {"setFile"}
         /\ d.do = "DeleteTrack" => Listed(d) = {"lockPlaylists", "readMemberships", "deleteTrack",
                                                 "cascadeMembers", "renumber"}
         /\ d.do = "DeleteAlbum" => Listed(d) = {"deleteAlbum", "clearAlbum"}
         /\ d.do = "DeleteArtist" => Listed(d) = {"lockTracks", "deleteArtist", "cascadeAlbums",
                                                  "clearAlbum", "cascadeTracks", "cascadeMembers"}
         /\ d.do = "CreatePlaylist" => Listed(d) = {"refTrack", "refOther"}
         /\ d.do = "AddTrack" => Listed(d) = {"touch", "refTrack"}
         /\ d.do = "RemoveTrack" => Listed(d) = {"touch", "removeMember", "renumber"}
         /\ d.do = "DeletePlaylist" => Listed(d) = {"deletePlaylist", "cascadeMembers"}
  <1>0. 1 .. 0 = {} /\ 1 .. 1 = {1} /\ 1 .. 2 = {1, 2} /\ 1 .. 3 = {1, 2, 3}
        /\ 1 .. 5 = {1, 2, 3, 4, 5} /\ 1 .. 6 = {1, 2, 3, 4, 5, 6}
    OBVIOUS
  <1>1. ASSUME NEW a, Statements(d) = <<a>>
        PROVE  Statements(d) \in Seq(Listed(d)) /\ Listed(d) = {a}
    BY <1>0, <1>1 DEF Listed
  <1>2. ASSUME NEW a, NEW b, Statements(d) = <<a, b>>
        PROVE  Statements(d) \in Seq(Listed(d)) /\ Listed(d) = {a, b}
    BY <1>0, <1>2 DEF Listed
  <1>3. ASSUME NEW a, NEW b, NEW c, Statements(d) = <<a, b, c>>
        PROVE  Statements(d) \in Seq(Listed(d)) /\ Listed(d) = {a, b, c}
    BY <1>0, <1>3 DEF Listed
  <1>5. ASSUME d.do = "DeleteTrack"
        PROVE  /\ Statements(d) \in Seq(Listed(d))
               /\ Listed(d) = {"lockPlaylists", "readMemberships", "deleteTrack",
                               "cascadeMembers", "renumber"}
    <2>1. Statements(d) = <<"lockPlaylists", "readMemberships", "deleteTrack",
                            "cascadeMembers", "renumber">>
      BY <1>5 DEF Statements
    <2> QED BY <1>0, <2>1 DEF Listed
  <1>6. ASSUME d.do = "DeleteArtist"
        PROVE  /\ Statements(d) \in Seq(Listed(d))
               /\ Listed(d) = {"lockTracks", "deleteArtist", "cascadeAlbums",
                               "clearAlbum", "cascadeTracks", "cascadeMembers"}
    <2>1. Statements(d) = <<"lockTracks", "deleteArtist", "cascadeAlbums",
                            "clearAlbum", "cascadeTracks", "cascadeMembers">>
      BY <1>6 DEF Statements
    <2> QED BY <1>0, <2>1 DEF Listed
  <1>7. CASE d.do \in {"CreateAlbum", "SetTrackFile"}
    <2>1. Statements(d) = <<IF d.do = "CreateAlbum" THEN "refArtist" ELSE "setFile">>
      BY <1>7 DEF Statements
    <2> QED BY <1>1, <1>7, <2>1
  <1>8. CASE d.do = "CreateTrack"
    <2>1. Statements(d) = IF d.album = None THEN <<"refArtist">> ELSE <<"refArtist", "refAlbum">>
      BY <1>8 DEF Statements
    <2> QED BY <1>1, <1>2, <1>8, <2>1
  <1>9. CASE d.do = "DeleteAlbum"
    <2>1. Statements(d) = <<"deleteAlbum", "clearAlbum">>
      BY <1>9 DEF Statements
    <2> QED BY <1>2, <1>9, <2>1
  <1>10. CASE d.do = "CreatePlaylist"
    <2>1. Statements(d) = <<"refTrack", "refOther">>
      BY <1>10 DEF Statements
    <2> QED BY <1>2, <1>10, <2>1
  <1>11. CASE d.do = "AddTrack"
    <2>1. Statements(d) = <<"touch", "refTrack">>
      BY <1>11 DEF Statements
    <2> QED BY <1>2, <1>11, <2>1
  <1>12. CASE d.do = "RemoveTrack"
    <2>1. Statements(d) = <<"touch", "removeMember", "renumber">>
      BY <1>12 DEF Statements
    <2> QED BY <1>3, <1>12, <2>1
  <1>13. CASE d.do = "DeletePlaylist"
    <2>1. Statements(d) = <<"deletePlaylist", "cascadeMembers">>
      BY <1>13 DEF Statements
    <2> QED BY <1>2, <1>13, <2>1
  <1> QED BY <1>5, <1>6, <1>7, <1>8, <1>9, <1>10, <1>11, <1>12, <1>13 DEF JobOK

\* Whose statement it is.
LEMMA WhoseStatement ==
  ASSUME NEW d \in Jobs, NEW s \in Listed(d)
  PROVE  /\ s = "lockPlaylists" => d.do = "DeleteTrack"
         /\ s \in {"refTrack", "refOther"} => d.do \in {"CreatePlaylist", "AddTrack"}
         /\ s = "removeMember" => d.do = "RemoveTrack"
         /\ s = "cascadeAlbums" => d.do = "DeleteArtist"
         /\ s = "clearAlbum" => d.do \in {"DeleteAlbum", "DeleteArtist"}
  <1> DEFINE Goal == /\ s = "lockPlaylists" => d.do = "DeleteTrack"
                     /\ s \in {"refTrack", "refOther"} => d.do \in {"CreatePlaylist", "AddTrack"}
                     /\ s = "removeMember" => d.do = "RemoveTrack"
                     /\ s = "cascadeAlbums" => d.do = "DeleteArtist"
                     /\ s = "clearAlbum" => d.do \in {"DeleteAlbum", "DeleteArtist"}
  <1> SUFFICES Goal
    OBVIOUS
  <1>1. CASE d.do = "CreateAlbum" \/ d.do = "CreateTrack"
    <2>1. s \in {"refArtist", "refAlbum"}
      BY <1>1, ListsOfStatements
    <2> QED BY <1>1, <2>1
  <1>2. CASE d.do = "SetTrackFile"
    <2>1. s \in {"setFile"}
      BY <1>2, ListsOfStatements
    <2> QED BY <1>2, <2>1
  <1>3. CASE d.do = "DeleteTrack"
    <2>1. s \in {"lockPlaylists", "readMemberships", "deleteTrack", "cascadeMembers",
               "renumber"}
      BY <1>3, ListsOfStatements
    <2> QED BY <1>3, <2>1
  <1>4. CASE d.do = "DeleteAlbum"
    <2>1. s \in {"deleteAlbum", "clearAlbum"}
      BY <1>4, ListsOfStatements
    <2> QED BY <1>4, <2>1
  <1>5. CASE d.do = "DeleteArtist"
    <2>1. s \in {"lockTracks", "deleteArtist", "cascadeAlbums", "clearAlbum", "cascadeTracks",
               "cascadeMembers"}
      BY <1>5, ListsOfStatements
    <2> QED BY <1>5, <2>1
  <1>6. CASE d.do = "CreatePlaylist"
    <2>1. s \in {"refTrack", "refOther"}
      BY <1>6, ListsOfStatements
    <2> QED BY <1>6, <2>1
  <1>7. CASE d.do = "AddTrack"
    <2>1. s \in {"touch", "refTrack"}
      BY <1>7, ListsOfStatements
    <2> QED BY <1>7, <2>1
  <1>8. CASE d.do = "RemoveTrack"
    <2>1. s \in {"touch", "removeMember", "renumber"}
      BY <1>8, ListsOfStatements
    <2> QED BY <1>8, <2>1
  <1>9. CASE d.do = "DeletePlaylist"
    <2>1. s \in {"deletePlaylist", "cascadeMembers"}
      BY <1>9, ListsOfStatements
    <2> QED BY <1>9, <2>1
  <1> HIDE DEF Goal
  <1>10. JobOK(d)
    OBVIOUS
  <1> QED BY <1>1, <1>2, <1>3, <1>4, <1>5, <1>6, <1>7, <1>8, <1>9, <1>10 DEF JobOK

\* What is behind a statement when its turn comes.
LEMMA OrderOfStatements ==
  ASSUME NEW d \in Jobs, NEW i \in 1 .. Len(Statements(d)), NEW s, s = Statements(d)[i]
  PROVE  /\ s \in Listed(d) /\ s \notin Behind(d, i)
         /\ s = "deleteArtist" => Behind(d, i) = {"lockTracks"}
         /\ s = "cascadeAlbums" => Behind(d, i) = {"lockTracks", "deleteArtist"}
         /\ s = "clearAlbum" /\ d.do = "DeleteArtist" =>
              Behind(d, i) = {"lockTracks", "deleteArtist", "cascadeAlbums"}
         /\ s = "clearAlbum" /\ d.do = "DeleteAlbum" => Behind(d, i) = {"deleteAlbum"}
         /\ s = "cascadeTracks" =>
              Behind(d, i) = {"lockTracks", "deleteArtist", "cascadeAlbums", "clearAlbum"}
         /\ s \in {"deleteAlbum", "deletePlaylist", "lockPlaylists", "touch"} => Behind(d, i) = {}
         /\ s = "readMemberships" => Behind(d, i) = {"lockPlaylists"}
         /\ s = "deleteTrack" => Behind(d, i) = {"lockPlaylists", "readMemberships"}
         /\ s = "cascadeMembers" /\ d.do = "DeleteTrack" =>
              Behind(d, i) = {"lockPlaylists", "readMemberships", "deleteTrack"}
         /\ s = "cascadeMembers" /\ d.do = "DeletePlaylist" => Behind(d, i) = {"deletePlaylist"}
         /\ s = "removeMember" => Behind(d, i) = {"touch"}
         /\ s = "renumber" /\ d.do = "RemoveTrack" => Behind(d, i) = {"touch", "removeMember"}
         /\ s = "refAlbum" => Behind(d, i) = {"refArtist"}
         /\ s = "refOther" => Behind(d, i) = {"refTrack"}
         /\ s = "refTrack" /\ d.do = "AddTrack" => Behind(d, i) = {"touch"}
  <1>0. s \in Listed(d)
    BY DEF Listed
  <1>1. 1 .. 0 = {} /\ 1 .. 1 = {1} /\ 1 .. 2 = {1, 2} /\ 1 .. 3 = {1, 2, 3}
        /\ 1 .. 4 = {1, 2, 3, 4} /\ 1 .. 5 = {1, 2, 3, 4, 5} /\ 1 .. 6 = {1, 2, 3, 4, 5, 6}
    OBVIOUS
  <1>2. CASE d.do = "DeleteArtist"
    <2>1. Statements(d) = <<"lockTracks", "deleteArtist", "cascadeAlbums",
                            "clearAlbum", "cascadeTracks", "cascadeMembers">>
      BY <1>2 DEF Statements
    <2> QED BY <1>0, <1>1, <1>2, <2>1 DEF Behind
  <1>3. CASE d.do = "DeleteTrack"
    <2>1. Statements(d) = <<"lockPlaylists", "readMemberships", "deleteTrack",
                            "cascadeMembers", "renumber">>
      BY <1>3 DEF Statements
    <2> QED BY <1>0, <1>1, <1>3, <2>1 DEF Behind
  <1>4. CASE d.do = "RemoveTrack"
    <2>1. Statements(d) = <<"touch", "removeMember", "renumber">>
      BY <1>4 DEF Statements
    <2> QED BY <1>0, <1>1, <1>4, <2>1 DEF Behind
  <1>5. ASSUME NEW a, NEW b, Statements(d) = <<a>> \/ (Statements(d) = <<a, b>> /\ a # b)
        PROVE  \/ s = a /\ Behind(d, i) = {}
               \/ s = b /\ Behind(d, i) = {a} /\ a # b
    BY <1>1, <1>5 DEF Behind
  <1>6. CASE d.do \in {"CreateAlbum", "SetTrackFile"}
    <2>1. Statements(d) = <<IF d.do = "CreateAlbum" THEN "refArtist" ELSE "setFile">>
      BY <1>6 DEF Statements
    <2> QED BY <1>0, <1>1, <1>6, <2>1 DEF Behind
  <1>7. CASE d.do \in {"CreateTrack", "DeleteAlbum", "CreatePlaylist", "AddTrack", "DeletePlaylist"}
    <2>1. CASE d.do = "CreateTrack"
      <3>1. Statements(d) = <<"refArtist">> \/ Statements(d) = <<"refArtist", "refAlbum">>
        BY <2>1 DEF Statements
      <3> QED BY <1>0, <1>5, <2>1, <3>1
    <2>2. CASE d.do = "DeleteAlbum"
      <3>1. Statements(d) = <<"deleteAlbum", "clearAlbum">>
        BY <2>2 DEF Statements
      <3> QED BY <1>0, <1>5, <2>2, <3>1
    <2>3. CASE d.do = "CreatePlaylist"
      <3>1. Statements(d) = <<"refTrack", "refOther">>
        BY <2>3 DEF Statements
      <3> QED BY <1>0, <1>5, <2>3, <3>1
    <2>4. CASE d.do = "AddTrack"
      <3>1. Statements(d) = <<"touch", "refTrack">>
        BY <2>4 DEF Statements
      <3> QED BY <1>0, <1>5, <2>4, <3>1
    <2>5. CASE d.do = "DeletePlaylist"
      <3>1. Statements(d) = <<"deletePlaylist", "cascadeMembers">>
        BY <2>5 DEF Statements
      <3> QED BY <1>0, <1>5, <2>5, <3>1
    <2> QED BY <1>7, <2>1, <2>2, <2>3, <2>4, <2>5
  <1> QED BY <1>2, <1>3, <1>4, <1>6, <1>7 DEF JobOK

-----------------------------------------------------------------------------
(***************************************************************************)
(* What statements ask for.                                                *)
(***************************************************************************)
LEMMA AskedAreLocks ==
  ASSUME NEW d \in Jobs, NEW s \in Listed(d)
  PROVE  Asks(d, s) \subseteq Locks
  <1>0. \/ d.do \in {"CreateAlbum", "CreateTrack"}
        \/ d.do \in {"SetTrackFile", "AddTrack", "CreatePlaylist"}
        \/ d.do \in {"DeleteTrack", "RemoveTrack"}
        \/ d.do \in {"DeleteAlbum", "DeletePlaylist"}
        \/ d.do = "DeleteArtist"
    BY DEF JobOK
  <1> USE DEF Locks, AllRows, Modes, Asks, Reference
  <1>1. CASE d.do \in {"CreateAlbum", "CreateTrack"}
    BY <1>1, ListsOfStatements DEF JobOK
  <1>2. CASE d.do \in {"SetTrackFile", "AddTrack", "CreatePlaylist"}
    BY <1>2, ListsOfStatements DEF JobOK
  <1>3. CASE d.do \in {"DeleteTrack", "RemoveTrack"}
    <2>1. d.track \in Tracks /\ (d.do = "RemoveTrack" => d.list \in Playlists)
      BY <1>3 DEF JobOK
    <2>2. s \in {"lockPlaylists", "readMemberships", "deleteTrack", "cascadeMembers", "renumber",
                 "touch", "removeMember"}
      BY <1>3, ListsOfStatements
    <2>3. CASE s \in {"lockPlaylists", "readMemberships", "deleteTrack"}
      BY <2>1, <2>3
    <2>4. CASE s = "cascadeMembers"
      BY <2>4
    <2>5. CASE s = "renumber"
      BY <2>5
    <2>6. CASE s \in {"touch", "removeMember"}
      BY <1>3, <2>1, <2>6, ListsOfStatements
    <2> QED BY <2>2, <2>3, <2>4, <2>5, <2>6
  <1>4. CASE d.do \in {"DeleteAlbum", "DeletePlaylist"}
    BY <1>4, ListsOfStatements DEF JobOK
  <1>5. CASE d.do = "DeleteArtist"
    BY <1>5, ListsOfStatements DEF JobOK
  <1> HIDE DEF Locks, AllRows, Modes, Asks, Reference
  <1> QED BY <1>0, <1>1, <1>2, <1>3, <1>4, <1>5

LEMMA FirstOf ==
  ASSUME NEW s, NEW L
  PROVE  First(s, L) \subseteq L
  BY DEF First

\* A catalogue's rows.
LEMMA RowsOf ==
  ASSUME NEW c \in Catalogue
  PROVE  /\ \A a : Artist(a) \in Rows(c) <=> a \in c.artists
         /\ \A b : Album(b) \in Rows(c) <=> b \in LiveAlbums(c)
         /\ \A t : Track(t) \in Rows(c) <=> t \in LiveTracks(c)
         /\ \A p : Playlist(p) \in Rows(c) <=> p \in LivePlaylists(c)
         /\ \A p, t : Member(p, t) \in Rows(c) <=> p \in LivePlaylists(c) /\ t \in Members(c, p)
         /\ Rows(c) \subseteq AllRows
         /\ \A r \in Rows(c) : r[1] = "member" =>
              \E p \in Playlists, t \in Tracks : /\ r = Member(p, t) /\ r[2] = p /\ r[3] = t
                                                /\ p \in LivePlaylists(c) /\ t \in Members(c, p)
  <1>1. /\ c.artists \subseteq Artists /\ LiveAlbums(c) \subseteq Albums
        /\ LiveTracks(c) \subseteq Tracks /\ LivePlaylists(c) \subseteq Playlists
        /\ \A p : Members(c, p) \subseteq Tracks
    BY DEF Catalogue, LiveAlbums, LiveTracks, LivePlaylists, Members, MembersOf
  <1>2. ASSUME NEW r
        PROVE  r \in Rows(c) <=>
                 \/ \E a \in c.artists : r = Artist(a)
                 \/ \E b \in LiveAlbums(c) : r = Album(b)
                 \/ \E t \in LiveTracks(c) : r = Track(t)
                 \/ \E p \in LivePlaylists(c) : r = Playlist(p)
                 \/ \E p \in LivePlaylists(c) : \E t \in Members(c, p) : r = Member(p, t)
    BY DEF Rows
  <1>3. Rows(c) \subseteq AllRows
    BY <1>1, <1>2 DEF AllRows
  <1>4. ASSUME NEW r \in Rows(c), r[1] = "member"
        PROVE  \E p \in Playlists, t \in Tracks : /\ r = Member(p, t) /\ r[2] = p /\ r[3] = t
                                                 /\ p \in LivePlaylists(c) /\ t \in Members(c, p)
    <2>1. PICK p \in LivePlaylists(c) : \E t \in Members(c, p) : r = Member(p, t)
      BY <1>2, <1>4, RowParts
    <2>2. PICK t \in Members(c, p) : r = Member(p, t)
      BY <2>1
    <2> QED BY <1>1, <2>1, <2>2, RowParts
  <1>5. ASSUME NEW a
        PROVE  Artist(a) \in Rows(c) <=> a \in c.artists
    <2>1. ASSUME a \in c.artists PROVE Artist(a) \in Rows(c)
      BY <1>2, <2>1
    <2>2. ASSUME Artist(a) \in Rows(c) PROVE a \in c.artists
      BY <1>2, <2>2 DEF Artist, Album, Track, Playlist, Member
    <2> QED BY <2>1, <2>2
  <1>6. ASSUME NEW b
        PROVE  Album(b) \in Rows(c) <=> b \in LiveAlbums(c)
    <2>1. ASSUME b \in LiveAlbums(c) PROVE Album(b) \in Rows(c)
      BY <1>2, <2>1
    <2>2. ASSUME Album(b) \in Rows(c) PROVE b \in LiveAlbums(c)
      BY <1>2, <2>2 DEF Artist, Album, Track, Playlist, Member
    <2> QED BY <2>1, <2>2
  <1>7. ASSUME NEW t
        PROVE  Track(t) \in Rows(c) <=> t \in LiveTracks(c)
    <2>1. ASSUME t \in LiveTracks(c) PROVE Track(t) \in Rows(c)
      BY <1>2, <2>1
    <2>2. ASSUME Track(t) \in Rows(c) PROVE t \in LiveTracks(c)
      BY <1>2, <2>2 DEF Artist, Album, Track, Playlist, Member
    <2> QED BY <2>1, <2>2
  <1>8. ASSUME NEW p
        PROVE  Playlist(p) \in Rows(c) <=> p \in LivePlaylists(c)
    <2>1. ASSUME p \in LivePlaylists(c) PROVE Playlist(p) \in Rows(c)
      BY <1>2, <2>1
    <2>2. ASSUME Playlist(p) \in Rows(c) PROVE p \in LivePlaylists(c)
      BY <1>2, <2>2 DEF Artist, Album, Track, Playlist, Member
    <2> QED BY <2>1, <2>2
  <1>9. ASSUME NEW p, NEW t
        PROVE  Member(p, t) \in Rows(c) <=> (p \in LivePlaylists(c) /\ t \in Members(c, p))
    <2>1. ASSUME (p \in LivePlaylists(c) /\ t \in Members(c, p)) PROVE Member(p, t) \in Rows(c)
      BY <1>2, <2>1
    <2>2. ASSUME Member(p, t) \in Rows(c) PROVE (p \in LivePlaylists(c) /\ t \in Members(c, p))
      BY <1>2, <2>2 DEF Artist, Album, Track, Playlist, Member
    <2> QED BY <2>1, <2>2
  <1> QED BY <1>3, <1>4, <1>5, <1>6, <1>7, <1>8, <1>9

LEMMA DemandIsAsked ==
  ASSUME cat \in Catalogue, JobsGiven, Standing, NEW x \in Requests, NEW s \in Listed(job[x])
  PROVE  Demand(x, s) \subseteq Asks(job[x], s)
  <1>0. job[x] \in Jobs
    BY DEF JobsGiven
  <1>1. CASE s = "cascadeMembers"
    <2>1. Demand(x, s) = CascadeMembers(x) /\ Asks(job[x], s) = {<<Member(p, t), "DEL">> : p \in Playlists, t \in Tracks}
      BY <1>1 DEF Demand, Asks
    <2> QED BY <2>1, RowsOf DEF CascadeMembers
  <1>2. CASE s = "renumber"
    <2>1. read[x] \subseteq Playlists
      BY DEF Standing
    <2>2. \A p : Later(cat, p, job[x].track) \subseteq Tracks
      BY DEF Later, Members, MembersOf
    <2>3. Demand(x, s) = Renumber(x) /\ Asks(job[x], s) = {<<Member(p, t), "UPD">> : p \in Playlists, t \in Tracks}
      BY <1>2 DEF Demand, Asks
    <2>4. ASSUME NEW l \in Renumber(x)
          PROVE  \E p \in Playlists, t \in Tracks : l = <<Member(p, t), "UPD">>
      <3>1. PICK p \in read[x] \cap LivePlaylists(cat) :
              l \in {<<Member(p, t), "UPD">> : t \in Later(cat, p, job[x].track)}
        BY <2>4 DEF Renumber
      <3> QED BY <2>1, <2>2, <3>1
    <2> QED BY <2>3, <2>4
  <1>3. CASE s \in {"lockPlaylists", "lockTracks", "cascadeAlbums", "clearAlbum", "cascadeTracks"}
    <2>1. /\ LiveAlbums(cat) \subseteq Albums /\ LiveTracks(cat) \subseteq Tracks
          /\ LivePlaylists(cat) \subseteq Playlists
      BY DEF LiveAlbums, LiveTracks, LivePlaylists
    <2>2. CASE s = "lockPlaylists"
      BY <2>1, <2>2 DEF Demand, Asks, LockPlaylists, ListsWith
    <2>3. CASE s \in {"lockTracks", "cascadeTracks"}
      BY <2>1, <2>3 DEF Demand, Asks, TracksBy
    <2>4. CASE s = "cascadeAlbums"
      BY <2>1, <2>4 DEF Demand, Asks
    <2>5. CASE s = "clearAlbum"
      BY <2>1, <2>5 DEF Demand, Asks, ClearAlbum
    <2> QED BY <1>3, <2>2, <2>3, <2>4, <2>5
  <1>4. CASE s \in {"refArtist", "refAlbum", "refTrack", "refOther", "setFile", "touch",
                    "removeMember", "readMemberships", "deleteTrack", "deletePlaylist",
                    "deleteAlbum", "deleteArtist"}
    BY <1>4 DEF Demand, Asks
  <1> QED BY <1>0, <1>1, <1>2, <1>3, <1>4, ListsOfStatements DEF JobOK

-----------------------------------------------------------------------------
(***************************************************************************)
(* What each step makes of the request that takes it.                      *)
(***************************************************************************)
Same(y) ==
    /\ pc'[y] = pc[y] /\ todo'[y] = todo[y] /\ want'[y] = want[y]
    /\ at'[y] = at[y] /\ held'[y] = held[y] /\ read'[y] = read[y]

LEMMA SameMeans ==
  ASSUME NEW y \in Requests, Same(y), UNCHANGED job
  PROVE  Done(y)' = Done(y) /\ Current(y)' = Current(y) /\ Doomed(y)' = Doomed(y)
  BY DEF Same, Done, Current, Doomed

Others(x) == UNCHANGED job /\ \A y \in Requests \ {x} : Same(y)

\* The statements from the i-th on.
From(d, i) == SubSeq(Statements(d), i, Len(Statements(d)))

LEMMA ToCome ==
  ASSUME NEW d \in Jobs, NEW i \in 1 .. Len(Statements(d)) + 1
  PROVE  /\ Len(Statements(d)) \in Nat /\ i \in Nat
         /\ Len(From(d, i)) = Len(Statements(d)) - i + 1
         /\ From(d, i) = <<>> <=> i = Len(Statements(d)) + 1
         /\ i <= Len(Statements(d)) =>
              /\ Head(From(d, i)) = Statements(d)[i] /\ Tail(From(d, i)) = From(d, i + 1)
              /\ Behind(d, i + 1) = Behind(d, i) \cup {Statements(d)[i]}
         /\ {Statements(d)[j] : j \in 1 .. (Len(Statements(d)) - Len(From(d, i)))} = Behind(d, i)
         /\ i = Len(Statements(d)) + 1 => Behind(d, i) = Listed(d)
         /\ Behind(d, 1) = {} /\ From(d, 1) = Statements(d)
  <1> DEFINE S == Statements(d)
             n == Len(S)
             L == Listed(d)
  <1>1. S \in Seq(L)
    BY ListsOfStatements
  <1>2. n \in Nat /\ i \in Nat /\ i <= n + 1
    BY <1>1
  <1>3. \A j \in i .. n : S[j] \in L
    BY <1>1, <1>2
  <1>4. Len(From(d, i)) = n - i + 1
    <2> HIDE DEF S, L
    <2>1. Len(SubSeq(S, i, n)) = IF i <= n THEN n - i + 1 ELSE 0
      BY <1>2, <1>3, SubSeqProperties
    <2> QED BY <1>2, <2>1 DEF From, S
  <1>5. i = n + 1 => From(d, i) = <<>>
    <2> HIDE DEF S
    <2> QED BY <1>2, SubSeqEmpty DEF From, S
  <1>6. i <= n => Head(From(d, i)) = S[i] /\ Tail(From(d, i)) = From(d, i + 1)
    <2> HIDE DEF S, L
    <2> SUFFICES ASSUME i <= n
                 PROVE  Head(SubSeq(S, i, n)) = S[i] /\ Tail(SubSeq(S, i, n)) = SubSeq(S, i + 1, n)
      BY DEF From, S
    <2>1. i \in 1 .. n /\ n \in i .. n
      BY <1>2
    <2> QED BY <1>1, <2>1, HeadTailOfSubSeq
  <1>7. i <= n => Behind(d, i + 1) = Behind(d, i) \cup {S[i]}
    <2> SUFFICES ASSUME i <= n PROVE Behind(d, i + 1) = Behind(d, i) \cup {S[i]}
      OBVIOUS
    <2>1. 1 .. ((i + 1) - 1) = (1 .. (i - 1)) \cup {i}
      BY <1>2
    <2> QED BY <2>1 DEF Behind
  <1>8. {S[j] : j \in 1 .. (n - Len(From(d, i)))} = Behind(d, i)
    <2>1. n - Len(From(d, i)) = i - 1
      BY <1>2, <1>4
    <2> QED BY <2>1 DEF Behind
  <1>9. i = n + 1 => Behind(d, i) = L
    <2>1. i = n + 1 => i - 1 = n
      BY <1>2
    <2> QED BY <2>1 DEF Behind, Listed
  <1>10. From(d, 1) = S
    <2>1. \A j \in 1 .. n : S[j] \in L
      BY <1>1
    <2>2. /\ SubSeq(S, 1, n) \in Seq(L)
          /\ Len(SubSeq(S, 1, n)) = n
          /\ \A j \in 1 .. n : SubSeq(S, 1, n)[j] = S[j]
      <3> HIDE DEF S, L
      <3>1. 1 \in Int /\ n \in Int
        BY <1>2
      <3>2. Len(SubSeq(S, 1, n)) = IF 1 <= n THEN n - 1 + 1 ELSE 0
        BY <3>1, <2>1, SubSeqProperties
      <3>3. SubSeq(S, 1, n) \in Seq(L)
        BY <3>1, <2>1, SubSeqProperties
      <3>4. \A j \in 1 .. (n - 1 + 1) : SubSeq(S, 1, n)[j] = S[1 + j - 1]
        BY <3>1, <2>1, SubSeqProperties
      <3> QED BY <1>2, <3>2, <3>3, <3>4
    <2> HIDE DEF S, L
    <2> QED BY <1>1, <2>2 DEF From, S
  <1>11. Behind(d, 1) = {}
    BY DEF Behind
  <1>12. From(d, i) = <<>> => i = n + 1
    BY <1>2, <1>4
  <1>13. n \in Nat /\ i \in Nat
    BY <1>2
  <1> HIDE DEF n, S, L
  <1> QED BY <1>13, <1>4, <1>5, <1>6, <1>7, <1>8, <1>9, <1>10, <1>11, <1>12 DEF n, S, L

\* x is at its i-th statement, s.
InTurn(x, i, s) ==
    /\ i \in 1 .. Len(Statements(job[x])) /\ s = Statements(job[x])[i]
    /\ pc[x] = "running" /\ Done(x) = Behind(job[x], i)

\* The statement finds nothing to lock.
Skips(x, i, s) ==
    /\ InTurn(x, i, s) /\ Current(x) = {} /\ Demand(x, s) = {}
    /\ Done(x)' = Done(x) \cup {s} /\ Current(x)' = {}
    /\ want[x] = {} /\ want'[x] = {} /\ at'[x] = None /\ held'[x] = held[x]
    /\ read'[x] = IF s = "readMemberships" THEN ListsWith(cat, job[x].track) ELSE read[x]

\* It finds its rows.
Starts(x, i, s) ==
    /\ InTurn(x, i, s) /\ Current(x) = {}
    /\ Done(x)' = Done(x) /\ Current(x)' = {s}
    /\ want'[x] = Demand(x, s) /\ at'[x] \in First(s, want'[x]) /\ held'[x] = held[x]
    /\ read'[x] = read[x]

\* Its lock l is granted, or the row has gone.
Granted(x, i, s, l) ==
    /\ InTurn(x, i, s) /\ Current(x) = {s}
    /\ l = at[x] /\ l \in want[x] /\ \A y \in Requests \ {x} : ~Blocks(y, l)
    /\ l[1] \in Rows(cat) \/ s \notin Needed
    /\ held'[x] = IF l[1] \in Rows(cat) THEN held[x] \cup {l} ELSE held[x]
    /\ want'[x] = want[x] \ {l}
    /\ \/ want'[x] = {} /\ at'[x] = None /\ Done(x)' = Done(x) \cup {s} /\ Current(x)' = {}
       \/ /\ want'[x] # {} /\ at'[x] \in First(s, want'[x])
          /\ Done(x)' = Done(x) /\ Current(x)' = {s}
    /\ read'[x] = IF s = "removeMember" THEN {job[x].list} ELSE read[x]

Ended(x) ==
    /\ pc'[x] = "ended" /\ Done(x)' = {} /\ Current(x)' = {}
    /\ want'[x] = {} /\ at'[x] = None /\ held'[x] = {} /\ read'[x] = {}

\* Where a request stands is well-formed.
StandsWell(x) ==
    /\ pc[x] \in {"waiting", "running", "ended"}
    /\ want[x] \in SUBSET Locks /\ held[x] \in SUBSET Locks /\ at[x] \in Locks \cup {None}
    /\ read[x] \in SUBSET Playlists
    /\ pc[x] # "running" => /\ todo[x] = <<>> /\ want[x] = {} /\ at[x] = None
                            /\ held[x] = {} /\ read[x] = {}
    /\ \E i \in 1 .. Len(Statements(job[x])) + 1 : todo[x] = From(job[x], i)
    /\ at[x] = None => want[x] = {}
    /\ at[x] # None => at[x] \in want[x] /\ todo[x] # <<>>

LEMMA NoneIsNoLock == None \notin Locks
  BY DEF Locks

LEMMA StandingAll ==
  ASSUME Standing, NEW x \in Requests
  PROVE  StandsWell(x)
  BY DEF Standing, StandsWell, From

LEMMA StandingAfter ==
  ASSUME Standing, NEW x \in Requests, Others(x), StandsWell(x)',
         NEW v \in {"waiting", "running", "ended"}, pc' = [pc EXCEPT ![x] = v],
         todo' = todo \/ (\E q : todo' = [todo EXCEPT ![x] = q]),
         want' = want \/ (\E q : want' = [want EXCEPT ![x] = q]),
         at' = at \/ (\E q : at' = [at EXCEPT ![x] = q]),
         held' = held \/ (\E q : held' = [held EXCEPT ![x] = q]),
         read' = read \/ (\E q : read' = [read EXCEPT ![x] = q])
  PROVE  Standing'
  <1>1. /\ DOMAIN pc' = Requests /\ DOMAIN todo' = Requests /\ DOMAIN want' = Requests
        /\ DOMAIN at' = Requests /\ DOMAIN held' = Requests /\ DOMAIN read' = Requests
    BY DEF Standing
  <1>2. /\ pc' = [y \in Requests |-> pc'[y]] /\ want' = [y \in Requests |-> want'[y]]
        /\ at' = [y \in Requests |-> at'[y]] /\ held' = [y \in Requests |-> held'[y]]
        /\ read' = [y \in Requests |-> read'[y]]
    <2>1. pc' = [y \in Requests |-> pc'[y]] BY DEF Standing
    <2>2. want' = [y \in Requests |-> want'[y]] BY DEF Standing
    <2>3. at' = [y \in Requests |-> at'[y]] BY DEF Standing
    <2>4. held' = [y \in Requests |-> held'[y]] BY DEF Standing
    <2>5. read' = [y \in Requests |-> read'[y]] BY DEF Standing
    <2> QED BY <2>1, <2>2, <2>3, <2>4, <2>5
  <1>3. ASSUME NEW y \in Requests
        PROVE  StandsWell(y)'
    <2>1. CASE y = x
      BY <2>1
    <2>2. CASE y # x
      <3>1. StandsWell(y)
        BY StandingAll
      <3>2. Same(y) /\ job' = job
        BY <2>2 DEF Others
      <3> QED BY <3>1, <3>2 DEF StandsWell, Same
    <2> QED BY <2>1, <2>2
  <1>4. /\ pc' \in [Requests -> {"waiting", "running", "ended"}]
        /\ want' \in [Requests -> SUBSET Locks] /\ held' \in [Requests -> SUBSET Locks]
        /\ at' \in [Requests -> Locks \cup {None}] /\ read' \in [Requests -> SUBSET Playlists]
    <2> USE <1>2, <1>3 DEF StandsWell
    <2>1. pc' \in [Requests -> {"waiting", "running", "ended"}]
      OBVIOUS
    <2>2. want' \in [Requests -> SUBSET Locks]
      OBVIOUS
    <2>3. held' \in [Requests -> SUBSET Locks]
      OBVIOUS
    <2>4. at' \in [Requests -> Locks \cup {None}]
      OBVIOUS
    <2>5. read' \in [Requests -> SUBSET Playlists]
      OBVIOUS
    <2> QED BY <2>1, <2>2, <2>3, <2>4, <2>5
  <1>5. \A y \in Requests :
         /\ pc'[y] # "running" => /\ todo'[y] = <<>> /\ want'[y] = {} /\ at'[y] = None
                                  /\ held'[y] = {} /\ read'[y] = {}
         /\ \E i \in 1 .. Len(Statements(job'[y])) + 1 :
              todo'[y] = SubSeq(Statements(job'[y]), i, Len(Statements(job'[y])))
         /\ at'[y] = None => want'[y] = {}
         /\ at'[y] # None => at'[y] \in want'[y] /\ todo'[y] # <<>>
    BY <1>3 DEF StandsWell, From
  <1> QED BY <1>1, <1>4, <1>5 DEF Standing

LEMMA BeginStep ==
  ASSUME RowInv, NEW x \in Requests, Begin(x)
  PROVE  /\ Others(x) /\ Standing' /\ cat' = cat
         /\ pc[x] = "waiting" /\ pc'[x] = "running" /\ held'[x] = {} /\ want'[x] = {}
         /\ at'[x] = None /\ read'[x] = {} /\ Done(x)' = {} /\ Current(x)' = {}
  <1> DEFINE d == job[x]
  <1>1. JobsGiven /\ Standing /\ d \in Jobs
    BY DEF RowInv, JobsGiven
  <1>2. DOMAIN pc = Requests /\ DOMAIN todo = Requests
    BY <1>1 DEF Standing
  <1>3. Others(x)
    BY <1>2 DEF Begin, Others, Same
  <1>4. /\ pc[x] = "waiting" /\ pc'[x] = "running" /\ want'[x] = {} /\ at'[x] = None
        /\ held'[x] = {} /\ read'[x] = {} /\ todo'[x] = Statements(d)
    BY <1>1, <1>2 DEF Begin, Standing
  <1>5. Len(Statements(d)) \in Nat /\ From(d, 1) = Statements(d)
    BY <1>1, ToCome, ListsOfStatements
  <1>6. Done(x)' = {} /\ Current(x)' = {}
    BY <1>3, <1>4, <1>5 DEF Done, Current, Others
  <1>7. StandsWell(x)'
    BY <1>3, <1>4, <1>5 DEF StandsWell, Others
  <1>8. Standing'
    BY <1>1, <1>3, <1>7, StandingAfter DEF Begin
  <1> QED BY <1>3, <1>4, <1>6, <1>8 DEF Begin

LEMMA EndsStep ==
  ASSUME RowInv, NEW x \in Requests, Ends(x), job' = job
  PROVE  Others(x) /\ Standing' /\ Ended(x)
  <1> DEFINE d == job[x]
  <1>1. JobsGiven /\ Standing /\ d \in Jobs
    BY DEF RowInv, JobsGiven
  <1>2. /\ DOMAIN pc = Requests /\ DOMAIN todo = Requests /\ DOMAIN want = Requests
        /\ DOMAIN at = Requests /\ DOMAIN held = Requests /\ DOMAIN read = Requests
    BY <1>1 DEF Standing
  <1>3. Others(x)
    BY <1>2 DEF Ends, Others, Same
  <1>4. /\ pc'[x] = "ended" /\ want'[x] = {} /\ at'[x] = None
        /\ held'[x] = {} /\ read'[x] = {} /\ todo'[x] = <<>>
    BY <1>1, <1>2 DEF Ends
  <1>5. /\ Len(Statements(d)) + 1 \in 1 .. Len(Statements(d)) + 1
        /\ From(d, Len(Statements(d)) + 1) = <<>>
    <2>1. Len(Statements(d)) + 1 \in 1 .. Len(Statements(d)) + 1
      BY <1>1, ListsOfStatements
    <2> QED BY <1>1, <2>1, ToCome
  <1>6. Done(x)' = {} /\ Current(x)' = {}
    BY <1>4 DEF Done, Current
  <1>7. StandsWell(x)'
    BY <1>3, <1>4, <1>5 DEF StandsWell, Others
  <1>8. Standing'
    BY <1>1, <1>3, <1>7, StandingAfter DEF Ends
  <1> QED BY <1>3, <1>4, <1>6, <1>8 DEF Ended

LEMMA Turn ==
  ASSUME JobsGiven, Standing, NEW x \in Requests, pc[x] = "running", todo[x] # <<>>
  PROVE  \E i \in 1 .. Len(Statements(job[x])) :
           /\ InTurn(x, i, Head(todo[x])) /\ i + 1 \in 1 .. Len(Statements(job[x])) + 1
           /\ todo[x] = From(job[x], i) /\ Tail(todo[x]) = From(job[x], i + 1)
           /\ Head(todo[x]) \in Listed(job[x]) /\ Head(todo[x]) \notin Behind(job[x], i)
           /\ Behind(job[x], i + 1) = Behind(job[x], i) \cup {Head(todo[x])}
  <1> DEFINE d == job[x]
             n == Len(Statements(d))
  <1>1. d \in Jobs
    BY DEF JobsGiven
  <1>2. PICK i \in 1 .. n + 1 : todo[x] = From(d, i)
    BY StandingAll DEF StandsWell
  <1>3. n \in Nat /\ i \in Nat /\ i <= n + 1
    BY <1>1, <1>2, ToCome
  <1>4. i # n + 1
    BY <1>1, <1>2, ToCome
  <1>5. i \in 1 .. n /\ i + 1 \in 1 .. n + 1 /\ i <= n
    BY <1>2, <1>3, <1>4
  <1>6. /\ Head(todo[x]) = Statements(d)[i] /\ Tail(todo[x]) = From(d, i + 1)
        /\ Behind(d, i + 1) = Behind(d, i) \cup {Statements(d)[i]}
    BY <1>1, <1>2, <1>5, ToCome
  <1>7. {Statements(d)[j] : j \in 1 .. (n - Len(todo[x]))} = Behind(d, i)
    BY <1>1, <1>2, ToCome
  <1>8. Done(x) = Behind(d, i)
    BY <1>7 DEF Done
  <1>9. Head(todo[x]) \in Listed(d) /\ Head(todo[x]) \notin Behind(d, i)
    BY <1>1, <1>5, <1>6, OrderOfStatements
  <1> HIDE DEF n, d
  <1> QED BY <1>2, <1>5, <1>6, <1>8, <1>9 DEF InTurn, d, n

\* Done, when the statements from the i-th on are still to come.
LEMMA DoneBefore ==
  ASSUME JobsGiven, NEW x \in Requests, NEW i \in 1 .. Len(Statements(job[x])) + 1,
         job' = job, pc'[x] = "running", todo'[x] = From(job[x], i)
  PROVE  Done(x)' = Behind(job[x], i)
  <1>1. {Statements(job[x])[j] : j \in 1 .. (Len(Statements(job[x])) - Len(todo'[x]))}
          = Behind(job[x], i)
    <2>1. job[x] \in Jobs
      BY DEF JobsGiven
    <2>2. \A d \in Jobs : \A k \in 1 .. Len(Statements(d)) + 1 :
            {Statements(d)[j] : j \in 1 .. (Len(Statements(d)) - Len(From(d, k)))} = Behind(d, k)
      BY ToCome
    <2> QED BY <2>1, <2>2
  <1> QED BY <1>1 DEF Done

LEMMA StatementStep ==
  ASSUME RowInv, NEW x \in Requests, Statement(x)
  PROVE  /\ Others(x) /\ Standing' /\ cat' = cat /\ pc' = pc
         /\ \E i \in 1 .. Len(Statements(job[x])), s \in Listed(job[x]) :
              Skips(x, i, s) \/ Starts(x, i, s)
  <1> DEFINE d == job[x]
             s == Head(todo[x])
  <1>1. JobsGiven /\ Standing /\ d \in Jobs /\ cat \in Catalogue
    BY DEF RowInv, JobsGiven
  <1>2. /\ pc[x] = "running" /\ at[x] = None /\ todo[x] # <<>> /\ job' = job /\ pc' = pc
        /\ cat' = cat /\ held' = held
    <2>1. Len(todo[x]) > 0 => todo[x] # <<>>
      OBVIOUS
    <2> QED BY <2>1 DEF Statement
  <1>3. PICK i \in 1 .. Len(Statements(d)) :
           /\ InTurn(x, i, s) /\ i + 1 \in 1 .. Len(Statements(d)) + 1
           /\ todo[x] = From(d, i) /\ Tail(todo[x]) = From(d, i + 1)
           /\ s \in Listed(d) /\ s \notin Behind(d, i)
           /\ Behind(d, i + 1) = Behind(d, i) \cup {s}
    BY <1>1, <1>2, Turn
  <1>4. /\ DOMAIN todo = Requests /\ DOMAIN want = Requests /\ DOMAIN at = Requests
        /\ DOMAIN read = Requests /\ want[x] = {}
        /\ StandsWell(x)
    <2>1. want[x] = {}
      BY <1>1, <1>2, StandingAll DEF StandsWell
    <2> QED BY <1>1, <2>1, StandingAll DEF Standing
  <1>5. Current(x) = {}
    BY <1>2 DEF Current
  <1>6. Demand(x, s) \subseteq Locks
    BY <1>1, <1>3, DemandIsAsked, AskedAreLocks
  <1>7. pc' = [pc EXCEPT ![x] = "running"]
    BY <1>1, <1>2 DEF Standing
  <1> HIDE DEF s
  <1>8. CASE Demand(x, s) = {}
    <2>1. /\ todo' = [todo EXCEPT ![x] = Tail(@)] /\ want' = want /\ at' = at
          /\ read' = IF s = "readMemberships" THEN [read EXCEPT ![x] = ListsWith(cat, d.track)]
                                              ELSE read
      BY <1>8 DEF Statement, s
    <2>2. Others(x)
      BY <1>2, <1>4, <2>1 DEF Others, Same
    <2>3. todo'[x] = From(d, i + 1)
      BY <1>3, <1>4, <2>1
    <2>4. Done(x)' = Done(x) \cup {s}
      BY <1>1, <1>2, <1>3, <2>3, DoneBefore DEF InTurn
    <2>5. Current(x)' = {}
      BY <1>2, <2>1 DEF Current
    <2>6. /\ want'[x] = {} /\ at'[x] = None /\ held'[x] = held[x]
          /\ read'[x] = IF s = "readMemberships" THEN ListsWith(cat, d.track) ELSE read[x]
      BY <1>2, <1>4, <2>1
    <2>7. Skips(x, i, s)
      BY <1>3, <1>4, <1>5, <1>8, <2>4, <2>5, <2>6 DEF Skips
    <2>8. ListsWith(cat, d.track) \subseteq Playlists
      BY DEF ListsWith, LivePlaylists
    <2>9. StandsWell(x)'
      BY <1>2, <1>3, <1>4, <2>3, <2>6, <2>8 DEF StandsWell
    <2>10. Standing'
      <3>1. todo' = todo \/ (\E q : todo' = [todo EXCEPT ![x] = q])
        BY <2>1
      <3>2. read' = read \/ (\E q : read' = [read EXCEPT ![x] = q])
        BY <2>1
      <3> QED BY <1>1, <1>2, <1>7, <2>1, <2>2, <2>9, <3>1, <3>2, StandingAfter
    <2> QED BY <1>2, <1>3, <2>2, <2>7, <2>10
  <1>9. CASE Demand(x, s) # {}
    <2>1. /\ Ask(x, s, Demand(x, s)) /\ todo' = todo /\ read' = read
      BY <1>9 DEF Statement, s
    <2>2. PICK l \in First(s, Demand(x, s)) : at' = [at EXCEPT ![x] = l]
      BY <1>9, <2>1 DEF Ask
    <2>3. want' = [want EXCEPT ![x] = Demand(x, s)]
      BY <2>1 DEF Ask
    <2>4. l \in Demand(x, s) /\ l # None
      BY <1>6, FirstOf, NoneIsNoLock
    <2>5. Others(x)
      BY <1>2, <1>4, <2>1, <2>2, <2>3 DEF Others, Same
    <2>6. want'[x] = Demand(x, s) /\ at'[x] = l
      BY <1>4, <2>2, <2>3
    <2>7. Done(x)' = Done(x) /\ Current(x)' = {s}
      BY <1>2, <2>1, <2>4, <2>6 DEF Done, Current, s
    <2>8. Starts(x, i, s)
      BY <1>2, <1>3, <1>5, <2>1, <2>6, <2>7 DEF Starts
    <2>9. StandsWell(x)'
      BY <1>2, <1>4, <1>6, <2>1, <2>4, <2>6 DEF StandsWell
    <2>10. Standing'
      BY <1>1, <1>2, <1>7, <2>1, <2>2, <2>3, <2>5, <2>9, StandingAfter
    <2> QED BY <1>2, <1>3, <2>5, <2>8, <2>10
  <1> QED BY <1>8, <1>9

LEMMA GrantStep ==
  ASSUME RowInv, NEW x \in Requests, Grant(x)
  PROVE  /\ Others(x) /\ Standing' /\ cat' = cat /\ pc' = pc
         /\ \E i \in 1 .. Len(Statements(job[x])), s \in Listed(job[x]), l \in Locks :
              Granted(x, i, s, l)
  <1> DEFINE d == job[x]
             s == Head(todo[x])
             l == at[x]
             w == want[x] \ {l}
  <1>1. JobsGiven /\ Standing /\ d \in Jobs /\ cat \in Catalogue
    BY DEF RowInv, JobsGiven
  <1>2. /\ at[x] # None /\ job' = job /\ pc' = pc /\ cat' = cat
        /\ \A y \in Requests : ~WaitsFor(x, y)
        /\ l[1] \in Rows(cat) \/ s \notin Needed
        /\ held' = IF l[1] \in Rows(cat) THEN [held EXCEPT ![x] = @ \cup {l}] ELSE held
        /\ Ask(x, s, w)
        /\ todo' = IF want[x] = {l} THEN [todo EXCEPT ![x] = Tail(@)] ELSE todo
        /\ read' = IF s = "removeMember" THEN [read EXCEPT ![x] = {job[x].list}] ELSE read
    BY DEF Grant
  <1>3. /\ StandsWell(x) /\ pc[x] = "running" /\ todo[x] # <<>> /\ l \in want[x] /\ l \in Locks
        /\ DOMAIN todo = Requests /\ DOMAIN want = Requests /\ DOMAIN at = Requests
        /\ DOMAIN read = Requests /\ DOMAIN held = Requests
    <2>1. StandsWell(x)
      BY <1>1, StandingAll
    <2>2. pc[x] = "running" /\ todo[x] # <<>> /\ l \in want[x] /\ l \in Locks
      BY <1>2, <2>1 DEF StandsWell
    <2> QED BY <1>1, <2>1, <2>2 DEF Standing
  <1>4. PICK i \in 1 .. Len(Statements(d)) :
           /\ InTurn(x, i, s) /\ i + 1 \in 1 .. Len(Statements(d)) + 1
           /\ todo[x] = From(d, i) /\ Tail(todo[x]) = From(d, i + 1)
           /\ s \in Listed(d) /\ s \notin Behind(d, i)
           /\ Behind(d, i + 1) = Behind(d, i) \cup {s}
    BY <1>1, <1>3, Turn
  <1>5. Current(x) = {s}
    BY <1>2 DEF Current
  <1>6. \A y \in Requests \ {x} : ~Blocks(y, l)
    BY <1>2 DEF WaitsFor
  <1>7. /\ want' = [want EXCEPT ![x] = w] /\ want'[x] = w
        /\ w = {} => at' = [at EXCEPT ![x] = None]
        /\ w # {} => \E k \in First(s, w) : at' = [at EXCEPT ![x] = k]
    BY <1>2, <1>3 DEF Ask
  <1>8. /\ held'[x] = IF l[1] \in Rows(cat) THEN held[x] \cup {l} ELSE held[x]
        /\ read'[x] = IF s = "removeMember" THEN {job[x].list} ELSE read[x]
    BY <1>2, <1>3
  <1>9. \E q : at' = [at EXCEPT ![x] = q]
    BY <1>7
  <1>10. Others(x)
    BY <1>2, <1>3, <1>7, <1>9 DEF Others, Same
  <1>11. w = {} <=> want[x] = {l}
    BY <1>3
  <1>12. w \subseteq Locks /\ held'[x] \subseteq Locks /\ read'[x] \subseteq Playlists
    <2>1. s = "removeMember" => d.list \in Playlists
      <3> HIDE DEF s
      <3> QED BY <1>1, <1>4, ListsOfStatements DEF JobOK
    <2> QED BY <1>3, <1>8, <2>1 DEF StandsWell
  <1>13. Standing' \/ ~StandsWell(x)'
    <2>1. \E q : want' = [want EXCEPT ![x] = q]
      BY <1>7
    <2>2. held' = held \/ (\E q : held' = [held EXCEPT ![x] = q])
      BY <1>2
    <2>3. read' = read \/ (\E q : read' = [read EXCEPT ![x] = q])
      BY <1>2
    <2>4. todo' = todo \/ (\E q : todo' = [todo EXCEPT ![x] = q])
      BY <1>2
    <2>5. pc' = [pc EXCEPT ![x] = "running"]
      BY <1>1, <1>2, <1>3 DEF Standing
    <2> QED BY <1>1, <1>9, <1>10, <2>1, <2>2, <2>3, <2>4, <2>5, StandingAfter
  <1> HIDE DEF s, l, w
  <1>14. CASE w = {}
    <2>1. at'[x] = None
      BY <1>3, <1>7, <1>14
    <2>2. todo'[x] = From(d, i + 1)
      BY <1>2, <1>3, <1>4, <1>11, <1>14
    <2>3. Done(x)' = Done(x) \cup {s}
      BY <1>1, <1>2, <1>3, <1>4, <2>2, DoneBefore DEF InTurn
    <2>4. Current(x)' = {}
      BY <2>1 DEF Current
    <2>5. Granted(x, i, s, l)
      BY <1>2, <1>3, <1>4, <1>5, <1>6, <1>7, <1>8, <1>14, <2>1, <2>3, <2>4 DEF Granted, w, l
    <2>6. StandsWell(x)'
      BY <1>2, <1>3, <1>4, <1>7, <1>12, <1>14, <2>1, <2>2 DEF StandsWell
    <2> QED BY <1>2, <1>3, <1>4, <1>10, <1>13, <2>5, <2>6
  <1>15. CASE w # {}
    <2>1. PICK k \in First(s, w) : at' = [at EXCEPT ![x] = k]
      BY <1>7, <1>15
    <2>2. at'[x] = k /\ k \in w /\ k # None
      BY <1>3, <1>12, <2>1, FirstOf, NoneIsNoLock
    <2>3. todo'[x] = todo[x]
      BY <1>2, <1>11, <1>15
    <2>4. Done(x)' = Done(x) /\ Current(x)' = {s}
      BY <1>2, <2>2, <2>3 DEF Done, Current, s
    <2>5. Granted(x, i, s, l)
      BY <1>2, <1>3, <1>4, <1>5, <1>6, <1>7, <1>8, <1>15, <2>1, <2>2, <2>4 DEF Granted, w, l
    <2>6. StandsWell(x)'
      BY <1>2, <1>3, <1>4, <1>7, <1>12, <2>2, <2>3 DEF StandsWell
    <2> QED BY <1>2, <1>3, <1>4, <1>10, <1>13, <2>5, <2>6
  <1> QED BY <1>14, <1>15

\* Nothing is held any more, or yet.
Rests(x) ==
    /\ Done(x)' = {} /\ Current(x)' = {}
    /\ want'[x] = {} /\ at'[x] = None /\ held'[x] = {} /\ read'[x] = {}

\* A step of x that leaves the catalogue alone.
Moved(x) ==
    /\ Others(x) /\ Standing' /\ cat' = cat
    /\ pc[x] # "ended" \/ pc'[x] = "ended"
    /\ \/ Rests(x)
       \/ \E i \in 1 .. Len(Statements(job[x])), s \in Listed(job[x]) :
            \/ Skips(x, i, s)
            \/ Starts(x, i, s)
            \/ \E l \in Locks : Granted(x, i, s, l)

LEMMA MoveCases ==
  ASSUME RowInv, Next
  PROVE  \/ UNCHANGED vars
         \/ \E x \in Requests : Moved(x)
         \/ \E x \in Requests : Commit(x)
  <1>1. CASE Terminating
    BY <1>1 DEF Terminating
  <1>2. ASSUME NEW x \in Requests, Progress(x) \/ Cancel(x), ~Commit(x)
        PROVE  Moved(x)
    <2>1. CASE Begin(x)
      BY <2>1, BeginStep DEF Moved, Rests
    <2>2. CASE Statement(x)
      <3>1. pc[x] = "running"
        BY <2>2 DEF Statement
      <3> QED BY <2>2, <3>1, StatementStep DEF Moved
    <2>3. CASE Grant(x)
      <3>1. pc[x] = "running"
        BY <2>3, StandingAll DEF Grant, StandsWell, RowInv
      <3> QED BY <2>3, <3>1, GrantStep DEF Moved
    <2>4. CASE NotFound(x) \/ Cancel(x) \/ DeadlockAbort(x)
      <3>1. Ends(x) /\ cat' = cat /\ job' = job
        BY <2>4 DEF NotFound, Cancel, DeadlockAbort
      <3>2. Others(x) /\ Standing' /\ Ended(x)
        BY <3>1, EndsStep
      <3> QED BY <3>1, <3>2 DEF Moved, Rests, Ended
    <2> QED BY <1>2, <2>1, <2>2, <2>3, <2>4 DEF Progress
  <1> QED BY <1>1, <1>2 DEF Next

-----------------------------------------------------------------------------
(***************************************************************************)
(* What holds while the catalogue stays as it is.                          *)
(***************************************************************************)
LEMMA RunningNext ==
  ASSUME Standing, Next
  PROVE  \/ Running' \subseteq Running
         \/ \E x \in Requests : /\ Begin(x) /\ pc' = [pc EXCEPT ![x] = "running"]
                                /\ x \notin Running /\ Running' = Running \cup {x}
  <1>1. ASSUME NEW x \in Requests, Begin(x)
        PROVE  /\ pc' = [pc EXCEPT ![x] = "running"]
               /\ x \notin Running /\ Running' = Running \cup {x}
    <2>1. pc' = [pc EXCEPT ![x] = "running"] /\ DOMAIN pc = Requests /\ pc[x] = "waiting"
      BY <1>1 DEF Begin, Standing
    <2> QED BY <2>1 DEF Running
  <1>2. ASSUME NEW x \in Requests, Statement(x) \/ Grant(x) \/ Ends(x)
        PROVE  Running' \subseteq Running
    BY <1>2 DEF Statement, Grant, Ends, Running, Standing
  <1>3. ASSUME NEW x \in Requests, Progress(x) \/ Cancel(x), ~Begin(x)
        PROVE  Statement(x) \/ Grant(x) \/ Ends(x)
    BY <1>3 DEF Progress, Cancel, NotFound, Commit, DeadlockAbort
  <1>4. Terminating => Running' = Running
    BY DEF Terminating, vars, Running
  <1> QED BY <1>1, <1>2, <1>3, <1>4 DEF Next

LEMMA PoolMoves ==
  ASSUME RowInv, Next
  PROVE  PoolRespected'
  <1>1. PoolRespected /\ Standing
    BY DEF RowInv
  <1>2. Running \subseteq Requests /\ IsFiniteSet(Running) /\ Cardinality(Running) \in Nat
    <2>1. Running \subseteq Requests
      BY DEF Running
    <2> QED BY <2>1, FS_Subset, FS_CardinalityType
  <1>3. ASSUME Running' \subseteq Running
        PROVE  PoolRespected'
    <2>1. Cardinality(Running') <= Cardinality(Running) /\ Cardinality(Running') \in Nat
      BY <1>2, <1>3, FS_Subset, FS_CardinalityType
    <2> QED BY <1>1, <1>2, <2>1 DEF PoolRespected
  <1>4. ASSUME NEW x \in Requests, Begin(x), x \notin Running, Running' = Running \cup {x}
        PROVE  PoolRespected'
    <2>1. Cardinality(Running) < MaxOpenConns
      BY <1>4 DEF Begin
    <2>2. Cardinality(Running') = Cardinality(Running) + 1
      BY <1>2, <1>4, FS_AddElement
    <2> QED BY <1>2, <2>1, <2>2 DEF PoolRespected
  <1> QED BY <1>1, <1>3, <1>4, RunningNext

\* Everybody but x stands where they stood.
LEMMA OthersSame ==
  ASSUME NEW x \in Requests, Others(x), NEW y \in Requests, y # x
  PROVE  /\ Done(y)' = Done(y) /\ Current(y)' = Current(y) /\ Doomed(y)' = Doomed(y)
         /\ held'[y] = held[y] /\ want'[y] = want[y] /\ at'[y] = at[y] /\ read'[y] = read[y]
         /\ pc'[y] = pc[y] /\ job' = job
  <1>1. Same(y) /\ job' = job
    BY DEF Others
  <1> QED BY <1>1, SameMeans DEF Same

LEMMA InTurnListed ==
  ASSUME JobsGiven, NEW x \in Requests, NEW i, NEW s, InTurn(x, i, s)
  PROVE  /\ job[x] \in Jobs /\ i \in 1 .. Len(Statements(job[x])) /\ s = Statements(job[x])[i]
         /\ s \in Listed(job[x]) /\ s \notin Done(x) /\ Done(x) = Behind(job[x], i)
  BY OrderOfStatements DEF JobsGiven, InTurn

LEMMA AskedMoves ==
  ASSUME RowInv, NEW x \in Requests, Moved(x)
  PROVE  Asked'
  <1>1. /\ JobsGiven /\ Asked /\ Standing /\ cat \in Catalogue /\ Others(x) /\ job' = job
    BY DEF RowInv, Moved, Others
  <1> DEFINE OK(y) == /\ want'[y] \subseteq UNION {Asks(job[y], s) : s \in Current(y)'}
                      /\ held'[y] \subseteq UNION {Asks(job[y], s) : s \in Done(y)' \cup Current(y)'}
  <1>2. SUFFICES \A y \in Requests : OK(y)
    BY <1>1 DEF Asked
  <1>3. ASSUME NEW y \in Requests, y # x
        PROVE  OK(y)
    BY <1>1, <1>3, OthersSame DEF Asked
  <1>4. /\ want[x] \subseteq UNION {Asks(job[x], s) : s \in Current(x)}
        /\ held[x] \subseteq UNION {Asks(job[x], s) : s \in Done(x) \cup Current(x)}
    BY <1>1 DEF Asked
  <1>5. ASSUME Rests(x)
        PROVE  OK(x)
    BY <1>5 DEF Rests
  <1>6. ASSUME NEW i, NEW s, Skips(x, i, s)
        PROVE  OK(x)
    BY <1>4, <1>6 DEF Skips
  <1>7. ASSUME NEW i, NEW s, Starts(x, i, s)
        PROVE  OK(x)
    <2>1. s \in Listed(job[x])
      BY <1>1, <1>7, InTurnListed DEF Starts
    <2>2. Demand(x, s) \subseteq Asks(job[x], s)
      BY <1>1, <2>1, DemandIsAsked
    <2> QED BY <1>4, <1>7, <2>2 DEF Starts
  <1>8. ASSUME NEW i, NEW s, NEW l \in Locks, Granted(x, i, s, l)
        PROVE  OK(x)
    <2>1. Current(x) = {s} /\ l \in want[x]
      BY <1>8 DEF Granted
    <2>2. want[x] \subseteq Asks(job[x], s)
      BY <1>4, <2>1
    <2>3. held[x] \cup {l} \subseteq UNION {Asks(job[x], r) : r \in Done(x) \cup {s}}
      BY <1>4, <2>1, <2>2
    <2>4. Done(x)' \cup Current(x)' = Done(x) \cup {s}
      BY <1>8 DEF Granted
    <2>5. held'[x] \subseteq held[x] \cup {l} /\ want'[x] \subseteq want[x]
      BY <1>8 DEF Granted
    <2>6. want'[x] = {} \/ Current(x)' = {s}
      BY <1>8 DEF Granted
    <2> QED BY <2>2, <2>3, <2>4, <2>5, <2>6
  <1> HIDE DEF OK
  <1>9. OK(x)
    BY <1>5, <1>6, <1>7, <1>8 DEF Moved
  <1> QED BY <1>3, <1>9

LEMMA ConflictSymmetric ==
  ASSUME NEW m, NEW n
  PROVE  Conflict(m, n) <=> Conflict(n, m)
  BY DEF Conflict

LEMMA GrantedMoves ==
  ASSUME RowInv, NEW x \in Requests, Moved(x)
  PROVE  LocksGranted'
  <1>1. LocksGranted /\ Others(x) /\ cat' = cat
    BY DEF RowInv, Moved
  <1> DEFINE Clash(k, l) == k[1] = l[1] /\ Conflict(k[2], l[2])
  <1>2. \A y, z \in Requests : y # z => \A k \in held[y], l \in held[z] : ~Clash(k, l)
    BY <1>1 DEF LocksGranted, Blocks
  <1>3. SUFFICES /\ \A y, z \in Requests : y # z => \A k \in held'[y], l \in held'[z] : ~Clash(k, l)
                 /\ \A y \in Requests : \A l \in held'[y] : l[1] \in Rows(cat)
    BY <1>1 DEF LocksGranted, Blocks
  <1>4. \A k, l : Clash(k, l) <=> Clash(l, k)
    BY ConflictSymmetric
  <1>5. \A y \in Requests \ {x} : held'[y] = held[y]
    BY <1>1, OthersSame
  <1> HIDE DEF Clash
  <1>6. CASE held'[x] \subseteq held[x]
    BY <1>1, <1>2, <1>5, <1>6 DEF LocksGranted
  <1>7. ASSUME NEW i, NEW s, NEW l \in Locks, Granted(x, i, s, l), ~(held'[x] \subseteq held[x])
        PROVE  /\ \A y, z \in Requests : y # z =>
                    \A k \in held'[y], m \in held'[z] : ~Clash(k, m)
               /\ \A y \in Requests : \A k \in held'[y] : k[1] \in Rows(cat)
    <2>1. held'[x] = held[x] \cup {l} /\ l[1] \in Rows(cat)
      BY <1>7 DEF Granted
    <2>2. \A y \in Requests \ {x} : \A k \in held[y] : ~Clash(k, l)
      BY <1>7 DEF Granted, Blocks, Clash
    <2>3. ASSUME NEW y \in Requests, NEW z \in Requests, y # z, NEW k \in held'[y], NEW m \in held'[z]
          PROVE  ~Clash(k, m)
      BY <1>2, <1>4, <1>5, <2>1, <2>2, <2>3
    <2>4. ASSUME NEW y \in Requests, NEW k \in held'[y]
          PROVE  k[1] \in Rows(cat)
      BY <1>1, <1>5, <2>1 DEF LocksGranted
    <2> QED BY <2>3, <2>4
  <1>8. ASSUME NEW i, NEW s, Skips(x, i, s) \/ Starts(x, i, s)
        PROVE  held'[x] = held[x]
    BY <1>8 DEF Skips, Starts
  <1>9. Rests(x) => held'[x] = {}
    BY DEF Rests
  <1> QED BY <1>6, <1>7, <1>8, <1>9 DEF Moved

LEMMA NotYetMoves ==
  ASSUME RowInv, NEW x \in Requests, Moved(x)
  PROVE  NotYetThere' /\ JobsGiven'
  <1>1. NotYetThere /\ JobsGiven /\ Others(x) /\ job' = job /\ cat' = cat
    BY DEF RowInv, Moved, Others
  <1>2. \A y \in Requests : pc'[y] # "ended" => pc[y] # "ended"
    BY <1>1, OthersSame DEF Moved
  <1>3. JobsGiven'
    BY <1>1 DEF JobsGiven
  <1> QED BY <1>1, <1>2, <1>3 DEF NotYetThere

\* What a statement has to lock depends on the catalogue and on the rows that
\* are doomed.
LEMMA DemandSame ==
  ASSUME cat' = cat, job' = job, NEW y \in Requests, NEW s \in Lasting,
         s = "clearAlbum" => \A b : Album(b) \in Doomed(y)' <=> Album(b) \in Doomed(y),
         s = "cascadeMembers" => \A r : /\ Playlist(r) \in Doomed(y)' <=> Playlist(r) \in Doomed(y)
                                        /\ Track(r) \in Doomed(y)' <=> Track(r) \in Doomed(y)
  PROVE  Demand(y, s)' = Demand(y, s)
  <1>1. CASE s \in {"refArtist", "refAlbum", "refTrack", "refOther", "setFile", "touch",
                    "removeMember", "deleteTrack", "deletePlaylist", "deleteAlbum", "deleteArtist"}
    BY <1>1 DEF Demand
  <1>2. CASE s = "cascadeAlbums"
    BY <1>2 DEF Demand
  <1>3. CASE s = "cascadeTracks"
    BY <1>3 DEF Demand
  <1>4. CASE s = "clearAlbum"
    <2>1. ClearAlbum(y)' = ClearAlbum(y)
      BY <1>4 DEF ClearAlbum
    <2> QED BY <1>4, <2>1 DEF Demand
  <1>5. CASE s = "cascadeMembers"
    <2>1. CascadeMembers(y)' = CascadeMembers(y)
      BY <1>5 DEF CascadeMembers
    <2> QED BY <1>5, <2>1 DEF Demand
  <1> QED BY <1>1, <1>2, <1>3, <1>4, <1>5 DEF Lasting

LEMMA DoomedIs ==
  ASSUME NEW x \in Requests
  PROVE  /\ \A r : r \in Doomed(x) <=> <<r, "DEL">> \in held[x] \/ \E l \in held[x] : l[1] = r /\ l[2] = "DEL"
         /\ \A r : r \in Doomed(x)' <=> \E l \in held'[x] : l[1] = r /\ l[2] = "DEL"
  BY DEF Doomed

\* What the late statements of a delete can lock dooms no row that others
\* cascade from.
LEMMA LateAsks ==
  ASSUME NEW d \in Jobs, NEW i, NEW s, i \in 1 .. Len(Statements(d)), s = Statements(d)[i],
         NEW l \in Asks(d, s)
  PROVE  /\ "clearAlbum" \in Behind(d, i) \cup {s} => l[2] # "DEL" \/ \A b : l[1] # Album(b)
         /\ "cascadeMembers" \in Behind(d, i) \cup {s} =>
              l[2] # "DEL" \/ \A r : l[1] # Playlist(r) /\ l[1] # Track(r)
  <1>1. s \in Listed(d)
    BY OrderOfStatements
  <1>2. ASSUME "clearAlbum" \in Behind(d, i) \cup {s}
        PROVE  s \in {"clearAlbum", "cascadeTracks", "cascadeMembers"}
    <2>1. d.do \in {"DeleteAlbum", "DeleteArtist"}
      <3>1. "clearAlbum" \in Listed(d)
        BY <1>1, <1>2 DEF Behind, Listed
      <3> QED BY <3>1, ListsOfStatements DEF JobOK
    <2>2. CASE d.do = "DeleteArtist"
      <3>1. Statements(d) = <<"lockTracks", "deleteArtist", "cascadeAlbums",
                              "clearAlbum", "cascadeTracks", "cascadeMembers">>
        BY <2>2 DEF Statements
      <3> QED BY <1>2, <3>1 DEF Behind
    <2>3. CASE d.do = "DeleteAlbum"
      <3>1. Statements(d) = <<"deleteAlbum", "clearAlbum">>
        BY <2>3 DEF Statements
      <3> QED BY <1>2, <3>1 DEF Behind
    <2> QED BY <2>1, <2>2, <2>3
  <1>3. ASSUME "cascadeMembers" \in Behind(d, i) \cup {s}
        PROVE  s \in {"cascadeMembers", "renumber"}
    <2>1. d.do \in {"DeleteTrack", "DeletePlaylist", "DeleteArtist"}
      <3>1. "cascadeMembers" \in Listed(d)
        BY <1>1, <1>3 DEF Behind, Listed
      <3> QED BY <3>1, ListsOfStatements DEF JobOK
    <2>2. CASE d.do = "DeleteArtist"
      <3>1. Statements(d) = <<"lockTracks", "deleteArtist", "cascadeAlbums",
                              "clearAlbum", "cascadeTracks", "cascadeMembers">>
        BY <2>2 DEF Statements
      <3> QED BY <1>3, <3>1 DEF Behind
    <2>3. CASE d.do = "DeleteTrack"
      <3>1. Statements(d) = <<"lockPlaylists", "readMemberships", "deleteTrack",
                              "cascadeMembers", "renumber">>
        BY <2>3 DEF Statements
      <3> QED BY <1>3, <3>1 DEF Behind
    <2>4. CASE d.do = "DeletePlaylist"
      <3>1. Statements(d) = <<"deletePlaylist", "cascadeMembers">>
        BY <2>4 DEF Statements
      <3> QED BY <1>3, <3>1 DEF Behind
    <2> QED BY <2>1, <2>2, <2>3, <2>4
  <1>4. s = "clearAlbum" => l[2] = "NULL"
    BY DEF Asks
  <1>5. s = "cascadeTracks" => \E t : l[1] = Track(t)
    BY DEF Asks
  <1>6. s = "cascadeMembers" => \E p, t : l[1] = Member(p, t)
    BY DEF Asks
  <1>7. s = "renumber" => l[2] = "UPD"
    BY DEF Asks
  <1>8. \A t, b, p, r : /\ Track(t) # Album(b) /\ Member(p, t) # Album(b)
                        /\ Member(p, t) # Playlist(r) /\ Member(p, t) # Track(r)
    BY DEF Track, Album, Member, Playlist
  <1>9. ASSUME "clearAlbum" \in Behind(d, i) \cup {s}
        PROVE  l[2] # "DEL" \/ \A b : l[1] # Album(b)
    BY <1>2, <1>4, <1>5, <1>6, <1>8, <1>9
  <1>10. ASSUME "cascadeMembers" \in Behind(d, i) \cup {s}
         PROVE  l[2] # "DEL" \/ \A r : l[1] # Playlist(r) /\ l[1] # Track(r)
    BY <1>3, <1>6, <1>7, <1>8, <1>10
  <1> QED BY <1>9, <1>10

\* The rows that a statement finds for itself are there.
LEMMA FoundRows ==
  ASSUME cat \in Catalogue, NEW x \in Requests, NEW s \in Lasting \ Needed, NEW l \in Demand(x, s)
  PROVE  l[1] \in Rows(cat)
  <1>1. s \in {"cascadeAlbums", "clearAlbum", "cascadeTracks", "cascadeMembers"}
    BY DEF Lasting, Needed
  <1>2. CASE s = "cascadeAlbums"
    <2>1. PICK b \in LiveAlbums(cat) : l = <<Album(b), "DEL">>
      BY <1>2 DEF Demand
    <2> QED BY <2>1, RowsOf
  <1>3. CASE s = "clearAlbum"
    <2>1. PICK t \in LiveTracks(cat) : l = <<Track(t), "NULL">>
      BY <1>3 DEF Demand, ClearAlbum
    <2> QED BY <2>1, RowsOf
  <1>4. CASE s = "cascadeTracks"
    <2>1. PICK t \in LiveTracks(cat) : l = <<Track(t), "DEL">>
      BY <1>4 DEF Demand, TracksBy
    <2> QED BY <2>1, RowsOf
  <1>5. CASE s = "cascadeMembers"
    BY <1>5 DEF Demand, CascadeMembers
  <1> QED BY <1>1, <1>2, <1>3, <1>4, <1>5

LEMMA AllLockedMoves ==
  ASSUME RowInv, NEW x \in Requests, Moved(x)
  PROVE  AllLocked'
  <1>1. /\ JobsGiven /\ Asked /\ Standing /\ AllLocked /\ cat \in Catalogue
        /\ Others(x) /\ job' = job /\ cat' = cat
    BY DEF RowInv, Moved, Others
  <1> DEFINE OK(y) == /\ \A s \in Done(y)' \cap Lasting : Demand(y, s)' \subseteq held'[y]
                      /\ \A s \in Current(y)' \cap Lasting :
                           Demand(y, s)' \subseteq held'[y] \cup want'[y]
  <1>2. SUFFICES \A y \in Requests : OK(y)
    BY DEF AllLocked
  <1>3. ASSUME NEW y \in Requests, y # x
        PROVE  OK(y)
    <2>1. \A s \in Lasting : Demand(y, s)' = Demand(y, s)
      BY <1>1, <1>3, OthersSame, DemandSame
    <2> QED BY <1>1, <1>3, <2>1, OthersSame DEF AllLocked
  <1>4. /\ \A s \in Done(x) \cap Lasting : Demand(x, s) \subseteq held[x]
        /\ \A s \in Current(x) \cap Lasting : Demand(x, s) \subseteq held[x] \cup want[x]
    BY <1>1 DEF AllLocked
  <1>5. ASSUME Rests(x)
        PROVE  OK(x)
    BY <1>5 DEF Rests
  <1>6. ASSUME held'[x] = held[x]
        PROVE  \A s \in Lasting : Demand(x, s)' = Demand(x, s)
    <2>1. Doomed(x)' = Doomed(x)
      BY <1>6 DEF Doomed
    <2> QED BY <1>1, <2>1, DemandSame
  <1>7. ASSUME NEW i, NEW s, Skips(x, i, s)
        PROVE  OK(x)
    BY <1>4, <1>6, <1>7 DEF Skips
  <1>8. ASSUME NEW i, NEW s, Starts(x, i, s)
        PROVE  OK(x)
    BY <1>4, <1>6, <1>8 DEF Starts
  <1>9. ASSUME NEW i, NEW s, NEW l \in Locks, Granted(x, i, s, l)
        PROVE  OK(x)
    <2>1. /\ job[x] \in Jobs /\ i \in 1 .. Len(Statements(job[x])) /\ s = Statements(job[x])[i]
          /\ s \in Listed(job[x]) /\ Done(x) = Behind(job[x], i)
      BY <1>1, <1>9, InTurnListed DEF Granted
    <2>2. /\ Current(x) = {s} /\ l \in want[x] /\ (l[1] \in Rows(cat) \/ s \notin Needed)
          /\ held'[x] = IF l[1] \in Rows(cat) THEN held[x] \cup {l} ELSE held[x]
          /\ want'[x] = want[x] \ {l}
          /\ \/ want'[x] = {} /\ Done(x)' = Done(x) \cup {s} /\ Current(x)' = {}
             \/ Done(x)' = Done(x) /\ Current(x)' = {s}
      BY <1>9 DEF Granted
    <2>3. l \in Asks(job[x], s)
      BY <1>1, <2>2 DEF Asked
    <2>4. ASSUME NEW r \in (Done(x) \cup {s}) \cap Lasting
          PROVE  Demand(x, r)' = Demand(x, r)
      <3>1. \A q : q \in Doomed(x)' <=> q \in Doomed(x) \/ (l[1] \in Rows(cat) /\ l[2] = "DEL" /\ q = l[1])
        BY <2>2 DEF Doomed
      <3>2. CASE r = "clearAlbum"
        <4>1. l[2] # "DEL" \/ \A b : l[1] # Album(b)
          BY <2>1, <2>3, <2>4, <3>2, LateAsks
        <4> QED BY <1>1, <3>1, <3>2, <4>1, DemandSame
      <3>3. CASE r = "cascadeMembers"
        <4>1. l[2] # "DEL" \/ \A q : l[1] # Playlist(q) /\ l[1] # Track(q)
          BY <2>1, <2>3, <2>4, <3>3, LateAsks
        <4> QED BY <1>1, <3>1, <3>3, <4>1, DemandSame
      <3> QED BY <1>1, <3>2, <3>3, DemandSame
    <2>5. s \in Lasting => Demand(x, s) \subseteq held'[x] \cup want'[x]
      <3> SUFFICES ASSUME s \in Lasting, NEW k \in Demand(x, s)
                   PROVE  k \in held'[x] \cup want'[x]
        OBVIOUS
      <3>1. k \in held[x] \cup want[x]
        BY <1>4, <2>2
      <3>2. l[1] \in Rows(cat) \/ k # l
        BY <1>1, <2>2, FoundRows
      <3> QED BY <2>2, <3>1, <3>2
    <2>6. held[x] \subseteq held'[x]
      BY <2>2
    <2> QED BY <1>4, <2>2, <2>4, <2>5, <2>6
  <1> HIDE DEF OK
  <1>10. OK(x)
    BY <1>5, <1>7, <1>8, <1>9 DEF Moved
  <1> QED BY <1>3, <1>10

\* The tracks an artist's delete locks, in its jobs.
LEMMA ArtistTracks ==
  ASSUME JobsGiven, NEW x \in Requests, job[x].do = "DeleteArtist", NEW s \in Listed(job[x]), NEW t,
         <<Track(t), "DEL">> \in Asks(job[x], s)
  PROVE  s = "cascadeTracks"
  <1>1. s \in {"lockTracks", "deleteArtist", "cascadeAlbums", "clearAlbum", "cascadeTracks",
               "cascadeMembers"}
    BY ListsOfStatements DEF JobsGiven
  <1> QED BY <1>1 DEF Asks, Artist, Album, Track, Member

LEMMA OwnTracksMoves ==
  ASSUME RowInv, NEW x \in Requests, Moved(x)
  PROVE  OwnTracks'
  <1>1. /\ JobsGiven /\ Asked /\ Standing /\ OwnTracks /\ cat \in Catalogue /\ NotYetThere
        /\ Others(x) /\ job' = job /\ cat' = cat
    BY DEF RowInv, Moved, Others
  <1>2. \A y \in Requests : pc'[y] # "ended" => pc[y] # "ended"
    BY <1>1, OthersSame DEF Moved
  <1>3. \A r : Settled(r) => Settled(r)'
    BY <1>1, <1>2 DEF Settled
  <1>4. SUFFICES ASSUME NEW y \in Requests, job[y].do = "DeleteArtist", NEW t \in Tracks,
                        <<Track(t), "DEL">> \in held'[y] \cup want'[y]
                 PROVE  /\ Settled(Track(t))
                        /\ t \in LiveTracks(cat) => cat.track[t].artist = job[y].artist
    BY <1>1, <1>3 DEF OwnTracks
  <1>5. CASE <<Track(t), "DEL">> \in held[y] \cup want[y]
    BY <1>1, <1>4, <1>5 DEF OwnTracks
  <1>6. CASE <<Track(t), "DEL">> \notin held[y] \cup want[y]
    <2>1. y = x
      BY <1>1, <1>4, <1>6, OthersSame
    <2>2. PICK i, s : Starts(x, i, s)
      BY <1>4, <1>6, <2>1 DEF Moved, Rests, Skips, Granted
    <2>3. s \in Listed(job[x]) /\ <<Track(t), "DEL">> \in Demand(x, s)
      BY <1>1, <1>4, <1>6, <2>1, <2>2, InTurnListed DEF Starts
    <2>4. <<Track(t), "DEL">> \in Asks(job[x], s)
      BY <1>1, <2>3, DemandIsAsked
    <2>5. s = "cascadeTracks"
      BY <1>1, <1>4, <2>1, <2>3, <2>4, ArtistTracks
    <2>6. t \in TracksBy(cat, job[x].artist)
      BY <2>3, <2>5, RowNames DEF Demand
    <2>7. t \in LiveTracks(cat) /\ cat.track[t].artist = job[x].artist
      BY <2>6 DEF TracksBy
    <2>8. Track(t) \in Rows(cat)
      BY <1>1, <2>7, RowsOf
    <2> QED BY <1>1, <2>1, <2>7, <2>8 DEF NotYetThere, Settled
  <1> QED BY <1>5, <1>6

-----------------------------------------------------------------------------
(***************************************************************************)
(* What a commit makes of the catalogue.                                   *)
(***************************************************************************)
LEMMA NoneIsNoRow ==
  /\ None \notin Artists /\ None \notin Albums /\ None \notin Nat /\ None \notin TrackRows
  /\ None \notin Lists
  OBVIOUS

\* The tracks of playlist p once the inserts of job d are in.
Joined(c, d, p) ==
    IF d.do = "CreatePlaylist" /\ p = d.list THEN {d.track, d.other}
    ELSE IF d.do = "AddTrack" /\ p = d.list THEN Members(c, p) \cup {d.track}
    ELSE Members(c, p)

LEMMA InsertedList ==
  ASSUME NEW c \in Catalogue, NEW d \in Jobs, d.do = "CreatePlaylist",
         NEW l, l = [t \in Tracks |-> CASE t = d.track -> 0 [] t = d.other -> 1 [] OTHER -> None]
  PROVE  /\ l \in Lists /\ MembersOf(l) = {d.track, d.other}
  <1>1. d.track \in Tracks /\ d.other \in Tracks /\ d.other # d.track
    BY DEF JobOK
  <1>2. \A t \in Tracks : l[t] = IF t = d.track THEN 0 ELSE IF t = d.other THEN 1 ELSE None
    BY <1>1
  <1>3. l \in Lists
    BY <1>2 DEF Lists
  <1> QED BY <1>1, <1>2, <1>3, NoneIsNoRow DEF MembersOf

LEMMA AppendedList ==
  ASSUME NEW l \in Lists, NEW t \in Tracks
  PROVE  /\ Appended(l, t) \in Lists /\ MembersOf(Appended(l, t)) = MembersOf(l) \cup {t}
  <1>1. MembersOf(l) \subseteq Tracks
    BY DEF MembersOf
  <1>2. Cardinality(MembersOf(l)) \in Nat
    BY <1>1, FS_Subset, FS_CardinalityType
  <1>3. CASE l[t] # None
    BY <1>3 DEF Appended, MembersOf
  <1>4. CASE l[t] = None
    <2> DEFINE n == Cardinality(MembersOf(l))
    <2> HIDE DEF n
    <2>1. Appended(l, t) = [l EXCEPT ![t] = n]
      BY <1>4 DEF Appended, n
    <2>2. n \in Nat /\ n # None
      BY <1>2, NoneIsNoRow DEF n
    <2>3. Appended(l, t) \in Lists
      BY <2>1, <2>2 DEF Lists
    <2>4. \A u \in Tracks : Appended(l, t)[u] = IF u = t THEN n ELSE l[u]
      BY <2>1 DEF Lists
    <2>5. MembersOf(Appended(l, t)) = MembersOf(l) \cup {t}
      BY <2>2, <2>4 DEF MembersOf
    <2> QED BY <2>3, <2>5
  <1> QED BY <1>3, <1>4

LEMMA OnlyList ==
  ASSUME NEW l, NEW S \in SUBSET Tracks
  PROVE  /\ Only(l, S) \in Lists /\ MembersOf(Only(l, S)) = S
  <1>1. \A t \in Tracks : Cardinality({u \in S : l[u] < l[t]}) \in Nat
    <2> TAKE t \in Tracks
    <2>1. {u \in S : l[u] < l[t]} \subseteq Tracks
      OBVIOUS
    <2> QED BY <2>1, FS_Subset, FS_CardinalityType
  <1> DEFINE n(t) == Cardinality({u \in S : l[u] < l[t]})
  <1>2. \A t \in Tracks : n(t) \in Nat /\ n(t) # None
    BY <1>1, NoneIsNoRow
  <1>3. Only(l, S) = [t \in Tracks |-> IF t \in S THEN n(t) ELSE None]
    BY DEF Only
  <1> HIDE DEF n
  <1>4. Only(l, S) \in Lists
    BY <1>2, <1>3 DEF Lists
  <1> QED BY <1>2, <1>3, <1>4 DEF MembersOf

LEMMA InsertedIs ==
  ASSUME NEW c \in Catalogue, NEW d \in Jobs, d.do = "AddTrack" => d.list \in LivePlaylists(c)
  PROVE  LET e == Inserted(c, d)
         IN  /\ e \in Catalogue /\ e.artists = c.artists
             /\ \A b \in Albums : e.album[b] = IF d.do = "CreateAlbum" /\ b = d.album THEN d.artist
                                               ELSE c.album[b]
             /\ \A t \in Tracks : e.track[t] = IF d.do = "CreateTrack" /\ t = d.track
                                               THEN [artist |-> d.artist, album |-> d.album]
                                               ELSE c.track[t]
             /\ LivePlaylists(e) = LivePlaylists(c) \cup
                                     (IF d.do = "CreatePlaylist" THEN {d.list} ELSE {})
             /\ \A p \in LivePlaylists(e) : Members(e, p) = Joined(c, d, p)
  <1> DEFINE e == Inserted(c, d)
             Goal == /\ e \in Catalogue /\ e.artists = c.artists
                     /\ \A b \in Albums : e.album[b] =
                          IF d.do = "CreateAlbum" /\ b = d.album THEN d.artist ELSE c.album[b]
                     /\ \A t \in Tracks : e.track[t] =
                          IF d.do = "CreateTrack" /\ t = d.track
                          THEN [artist |-> d.artist, album |-> d.album] ELSE c.track[t]
                     /\ LivePlaylists(e) = LivePlaylists(c) \cup
                                             (IF d.do = "CreatePlaylist" THEN {d.list} ELSE {})
                     /\ \A p \in LivePlaylists(e) : Members(e, p) = Joined(c, d, p)
  <1> SUFFICES Goal
    OBVIOUS
  <1>1. JobOK(d)
    OBVIOUS
  <1>2. CASE d.do = "CreateAlbum"
    <2>1. e = [c EXCEPT !.album = [c.album EXCEPT ![d.album] = d.artist]]
      BY <1>2 DEF Inserted
    <2>2. d.album \in Albums /\ d.artist \in Artists
      BY <1>1, <1>2 DEF JobOK
    <2> HIDE DEF e
    <2> QED BY <1>2, <2>1, <2>2 DEF Catalogue, LivePlaylists, Members, Joined
  <1>3. CASE d.do = "CreateTrack"
    <2> DEFINE r == [artist |-> d.artist, album |-> d.album]
    <2>1. e = [c EXCEPT !.track = [c.track EXCEPT ![d.track] = r]]
      BY <1>3 DEF Inserted
    <2>2. d.track \in Tracks /\ r \in TrackRows
      BY <1>1, <1>3 DEF JobOK, TrackRows
    <2> HIDE DEF e
    <2>3. r = [artist |-> d.artist, album |-> d.album]
      OBVIOUS
    <2> HIDE DEF r
    <2> QED BY <1>3, <2>1, <2>2, <2>3 DEF Catalogue, LivePlaylists, Members, Joined
  <1>4. CASE d.do = "CreatePlaylist"
    <2> DEFINE l == [t \in Tracks |-> CASE t = d.track -> 0 [] t = d.other -> 1 [] OTHER -> None]
    <2>1. e = [c EXCEPT !.list = [c.list EXCEPT ![d.list] = l]]
      BY <1>4 DEF Inserted
    <2>2. l \in Lists /\ MembersOf(l) = {d.track, d.other} /\ d.list \in Playlists /\ l # None
      BY <1>1, <1>4, InsertedList, NoneIsNoRow DEF JobOK
    <2> HIDE DEF e, l
    <2>3. e \in Catalogue /\ e.artists = c.artists /\ e.album = c.album /\ e.track = c.track
      BY <2>1, <2>2 DEF Catalogue
    <2>4. \A p \in Playlists : e.list[p] = IF p = d.list THEN l ELSE c.list[p]
      BY <2>1, <2>2 DEF Catalogue
    <2>5. LivePlaylists(e) = LivePlaylists(c) \cup {d.list}
      BY <2>2, <2>4 DEF LivePlaylists
    <2>6. \A p \in LivePlaylists(e) : Members(e, p) = Joined(c, d, p)
      BY <1>4, <2>2, <2>4 DEF LivePlaylists, Members, Joined
    <2> QED BY <1>4, <2>3, <2>5, <2>6
  <1>5. CASE d.do = "AddTrack"
    <2> DEFINE l == Appended(c.list[d.list], d.track)
    <2>1. e = [c EXCEPT !.list = [c.list EXCEPT ![d.list] = l]]
      BY <1>5 DEF Inserted
    <2>2. d.list \in Playlists /\ d.track \in Tracks /\ c.list[d.list] \in Lists
      BY <1>1, <1>5 DEF JobOK, LivePlaylists, Catalogue
    <2>3. l \in Lists /\ MembersOf(l) = MembersOf(c.list[d.list]) \cup {d.track} /\ l # None
      BY <2>2, AppendedList, NoneIsNoRow
    <2> HIDE DEF e, l
    <2>4. e \in Catalogue /\ e.artists = c.artists /\ e.album = c.album /\ e.track = c.track
      BY <2>1, <2>2, <2>3 DEF Catalogue
    <2>5. \A p \in Playlists : e.list[p] = IF p = d.list THEN l ELSE c.list[p]
      BY <2>1, <2>2 DEF Catalogue
    <2>6. LivePlaylists(e) = LivePlaylists(c)
      BY <1>5, <2>2, <2>3, <2>5 DEF LivePlaylists
    <2>7. \A p \in LivePlaylists(e) : Members(e, p) = Joined(c, d, p)
      BY <1>5, <2>3, <2>5 DEF LivePlaylists, Members, Joined
    <2> QED BY <1>5, <2>4, <2>6, <2>7
  <1>6. CASE d.do \notin {"CreateAlbum", "CreateTrack", "CreatePlaylist", "AddTrack"}
    <2>1. e = c
      BY <1>6 DEF Inserted
    <2> HIDE DEF e
    <2> QED BY <1>6, <2>1 DEF Joined
  <1> QED BY <1>2, <1>3, <1>4, <1>5, <1>6

LEMMA CommitStep ==
  ASSUME RowInv, NEW x \in Requests, Commit(x)
  PROVE  /\ Others(x) /\ Standing' /\ Ended(x) /\ cat' = Committed(x) /\ job' = job
         /\ Done(x) = Listed(job[x]) /\ Current(x) = {} /\ want[x] = {} /\ pc[x] = "running"
         /\ job[x] \in Jobs
  <1>1. JobsGiven /\ Standing
    BY DEF RowInv
  <1>2. Ends(x) /\ job' = job /\ pc[x] = "running" /\ todo[x] = <<>> /\ at[x] = None
    BY DEF Commit
  <1>3. job[x] \in Jobs
    BY <1>1 DEF JobsGiven
  <1>4. PICK i \in 1 .. Len(Statements(job[x])) + 1 : todo[x] = From(job[x], i)
    BY <1>1, StandingAll DEF StandsWell
  <1>5. {Statements(job[x])[j] : j \in 1 .. (Len(Statements(job[x])) - Len(todo[x]))}
          = Listed(job[x])
    BY <1>2, <1>3, <1>4, ToCome
  <1>6. Done(x) = Listed(job[x])
    BY <1>2, <1>5 DEF Done
  <1>7. want[x] = {}
    BY <1>1, <1>2, StandingAll DEF StandsWell
  <1> QED BY <1>2, <1>3, <1>6, <1>7, EndsStep DEF Current, Commit

LEMMA DoneListed ==
  ASSUME JobsGiven, Standing, NEW x \in Requests
  PROVE  Done(x) \subseteq Listed(job[x]) /\ Current(x) \subseteq Listed(job[x])
  <1>1. job[x] \in Jobs
    BY DEF JobsGiven
  <1>2. CASE pc[x] = "running" /\ todo[x] # <<>>
    <2>1. PICK i \in 1 .. Len(Statements(job[x])) :
            InTurn(x, i, Head(todo[x])) /\ Head(todo[x]) \in Listed(job[x])
      BY <1>2, Turn
    <2>2. Behind(job[x], i) \subseteq Listed(job[x])
      BY <1>1, ListsOfStatements DEF Behind, Listed
    <2> QED BY <2>1, <2>2 DEF InTurn, Current
  <1>3. CASE pc[x] = "running" /\ todo[x] = <<>>
    <2>1. Current(x) = {}
      BY StandingAll, <1>3 DEF StandsWell, Current
    <2>2. PICK i \in 1 .. Len(Statements(job[x])) + 1 : todo[x] = From(job[x], i)
      BY StandingAll DEF StandsWell
    <2>3. {Statements(job[x])[j] : j \in 1 .. (Len(Statements(job[x])) - Len(todo[x]))}
            = Listed(job[x])
      BY <1>1, <1>3, <2>2, ToCome
    <2> QED BY <1>3, <2>1, <2>3 DEF Done
  <1>4. CASE pc[x] # "running"
    BY <1>4, StandingAll DEF StandsWell, Done, Current
  <1> QED BY <1>2, <1>3, <1>4

LEMMA HeldIsAsked ==
  ASSUME JobsGiven, Standing, Asked, NEW x \in Requests, NEW l \in held[x] \cup want[x]
  PROVE  \E s \in Listed(job[x]) : s \in Done(x) \cup Current(x) /\ l \in Asks(job[x], s)
  BY DoneListed DEF Asked

\* Which statements doom which rows, and leave which without an album.
LEMMA WhoAsks ==
  ASSUME NEW d \in Jobs, NEW s \in Listed(d), NEW l \in Asks(d, s)
  PROVE  /\ \A a : l = <<Artist(a), "DEL">> =>
              s = "deleteArtist" /\ d.do = "DeleteArtist" /\ a = d.artist
         /\ \A b : l = <<Album(b), "DEL">> =>
              \/ s = "deleteAlbum" /\ d.do = "DeleteAlbum" /\ b = d.album
              \/ s = "cascadeAlbums" /\ d.do = "DeleteArtist"
         /\ \A t : l = <<Track(t), "DEL">> =>
              \/ s = "deleteTrack" /\ d.do = "DeleteTrack" /\ t = d.track
              \/ s = "cascadeTracks" /\ d.do = "DeleteArtist"
         /\ \A p : l = <<Playlist(p), "DEL">> =>
              s = "deletePlaylist" /\ d.do = "DeletePlaylist" /\ p = d.list
         /\ \A p, t : l = <<Member(p, t), "DEL">> =>
              \/ s = "removeMember" /\ d.do = "RemoveTrack"
              \/ s = "cascadeMembers" /\ d.do \in {"DeleteArtist", "DeleteTrack", "DeletePlaylist"}
         /\ l[2] = "NULL" => /\ s = "clearAlbum" /\ d.do \in {"DeleteAlbum", "DeleteArtist"}
                             /\ \E t \in Tracks : l = <<Track(t), "NULL">>
         /\ \E r, m : l = <<r, m>>
  <1>1. /\ s = "deleteArtist" => d.do = "DeleteArtist"
        /\ s = "deleteAlbum" => d.do = "DeleteAlbum"
        /\ s = "cascadeAlbums" => d.do = "DeleteArtist"
        /\ s = "deleteTrack" => d.do = "DeleteTrack"
        /\ s = "cascadeTracks" => d.do = "DeleteArtist"
        /\ s = "deletePlaylist" => d.do = "DeletePlaylist"
        /\ s = "removeMember" => d.do = "RemoveTrack"
        /\ s = "cascadeMembers" => d.do \in {"DeleteArtist", "DeleteTrack", "DeletePlaylist"}
        /\ s = "clearAlbum" => d.do \in {"DeleteAlbum", "DeleteArtist"}
        /\ s \in {"refArtist", "refAlbum", "refTrack", "refOther", "setFile", "touch",
                  "removeMember", "renumber", "lockPlaylists", "readMemberships", "deleteTrack",
                  "deletePlaylist", "deleteAlbum", "lockTracks", "deleteArtist", "cascadeAlbums",
                  "clearAlbum", "cascadeTracks", "cascadeMembers"}
    BY ListsOfStatements DEF JobOK
  <1>2. CASE s \in {"refArtist", "refAlbum", "refTrack", "refOther", "setFile", "touch"}
    <2>1. \E r : l = <<r, "KS">> \/ l = <<r, "NKU">>
      BY <1>2 DEF Asks, Reference
    <2> QED BY <2>1
  <1>3. CASE s \in {"renumber", "lockPlaylists", "lockTracks"}
    <2>1. \E r : l = <<r, "UPD">>
      BY <1>3 DEF Asks
    <2> QED BY <2>1
  <1>4. CASE s = "readMemberships"
    BY <1>4 DEF Asks
  <1>5. CASE s = "deleteArtist"
    BY <1>1, <1>5, RowNames DEF Asks
  <1>6. CASE s \in {"deleteAlbum", "cascadeAlbums"}
    <2>1. \E b : l = <<Album(b), "DEL">> /\ (s = "deleteAlbum" => b = d.album)
      BY <1>6 DEF Asks
    <2> QED BY <1>1, <1>6, <2>1, RowNames
  <1>7. CASE s \in {"deleteTrack", "cascadeTracks"}
    <2>1. \E t : l = <<Track(t), "DEL">> /\ (s = "deleteTrack" => t = d.track)
      BY <1>7 DEF Asks
    <2> QED BY <1>1, <1>7, <2>1, RowNames
  <1>8. CASE s = "deletePlaylist"
    BY <1>1, <1>8, RowNames DEF Asks
  <1>9. CASE s \in {"removeMember", "cascadeMembers"}
    <2>1. \E p, t : l = <<Member(p, t), "DEL">>
      BY <1>9 DEF Asks
    <2> QED BY <1>1, <1>9, <2>1, RowNames
  <1>10. CASE s = "clearAlbum"
    <2>1. \E t \in Tracks : l = <<Track(t), "NULL">>
      BY <1>10 DEF Asks
    <2> QED BY <1>1, <1>10, <2>1
  <1> QED BY <1>1, <1>2, <1>3, <1>4, <1>5, <1>6, <1>7, <1>8, <1>9, <1>10

LEMMA DoomedHeld ==
  ASSUME Standing, NEW x \in Requests
  PROVE  \A r : r \in Doomed(x) <=> <<r, "DEL">> \in held[x]
  <1>1. held[x] \subseteq Locks
    BY DEF Standing
  <1>2. \A l \in Locks : l = <<l[1], l[2]>>
    BY DEF Locks
  <1> TAKE r
  <1>3. ASSUME r \in Doomed(x) PROVE <<r, "DEL">> \in held[x]
    BY <1>1, <1>2, <1>3 DEF Doomed
  <1>4. ASSUME <<r, "DEL">> \in held[x] PROVE r \in Doomed(x)
    BY <1>4 DEF Doomed
  <1> QED BY <1>3, <1>4

\* Who may hold the delete of a row.
LEMMA WhoDooms ==
  ASSUME JobsGiven, Standing, Asked, NEW x \in Requests
  PROVE  LET d == job[x] IN
         /\ \A a : Artist(a) \in Doomed(x) =>
              d.do = "DeleteArtist" /\ a = d.artist /\ "deleteArtist" \in Done(x) \cup Current(x)
         /\ \A b : Album(b) \in Doomed(x) =>
              \/ d.do = "DeleteAlbum" /\ b = d.album /\ "deleteAlbum" \in Done(x) \cup Current(x)
              \/ d.do = "DeleteArtist"
         /\ \A t : Track(t) \in Doomed(x) =>
              (d.do = "DeleteTrack" /\ t = d.track) \/ d.do = "DeleteArtist"
         /\ \A p : Playlist(p) \in Doomed(x) =>
              d.do = "DeletePlaylist" /\ p = d.list
         /\ \A r : <<r, "NULL">> \in held[x] => d.do \in {"DeleteAlbum", "DeleteArtist"}
         /\ d.do \in {"CreateAlbum", "CreateTrack", "SetTrackFile", "CreatePlaylist", "AddTrack"} =>
              Doomed(x) = {}
  <1> DEFINE d == job[x]
  <1>1. d \in Jobs
    BY DEF JobsGiven
  <1>2. \A l \in held[x] : \E s \in Listed(d) : s \in Done(x) \cup Current(x) /\ l \in Asks(d, s)
    BY HeldIsAsked
  <1>3. \A r : r \in Doomed(x) => <<r, "DEL">> \in held[x]
    BY DoomedHeld
  <1> HIDE DEF d
  <1>4. ASSUME NEW a, Artist(a) \in Doomed(x)
        PROVE  d.do = "DeleteArtist" /\ a = d.artist /\ "deleteArtist" \in Done(x) \cup Current(x)
    <2>1. PICK s \in Listed(d) :
            s \in Done(x) \cup Current(x) /\ <<Artist(a), "DEL">> \in Asks(d, s)
      BY <1>2, <1>3, <1>4
    <2> QED BY <1>1, <2>1, WhoAsks
  <1>5. ASSUME NEW b, Album(b) \in Doomed(x)
        PROVE  \/ d.do = "DeleteAlbum" /\ b = d.album /\ "deleteAlbum" \in Done(x) \cup Current(x)
               \/ d.do = "DeleteArtist"
    <2>1. PICK s \in Listed(d) :
            s \in Done(x) \cup Current(x) /\ <<Album(b), "DEL">> \in Asks(d, s)
      BY <1>2, <1>3, <1>5
    <2> QED BY <1>1, <2>1, WhoAsks
  <1>6. ASSUME NEW t, Track(t) \in Doomed(x)
        PROVE  (d.do = "DeleteTrack" /\ t = d.track) \/ d.do = "DeleteArtist"
    <2>1. PICK s \in Listed(d) :
            s \in Done(x) \cup Current(x) /\ <<Track(t), "DEL">> \in Asks(d, s)
      BY <1>2, <1>3, <1>6
    <2> QED BY <1>1, <2>1, WhoAsks
  <1>7. ASSUME NEW p, Playlist(p) \in Doomed(x)
        PROVE  d.do = "DeletePlaylist" /\ p = d.list
    <2>1. PICK s \in Listed(d) :
            s \in Done(x) \cup Current(x) /\ <<Playlist(p), "DEL">> \in Asks(d, s)
      BY <1>2, <1>3, <1>7
    <2> QED BY <1>1, <2>1, WhoAsks
  <1>8. ASSUME NEW r, <<r, "NULL">> \in held[x]
        PROVE  d.do \in {"DeleteAlbum", "DeleteArtist"}
    <2>1. PICK s \in Listed(d) : <<r, "NULL">> \in Asks(d, s)
      BY <1>2, <1>8
    <2>2. <<r, "NULL">>[2] = "NULL"
      OBVIOUS
    <2> QED BY <1>1, <2>1, <2>2, WhoAsks
  <1>9. ASSUME d.do \in {"CreateAlbum", "CreateTrack", "SetTrackFile", "CreatePlaylist", "AddTrack"},
               NEW r \in Doomed(x)
        PROVE  FALSE
    <2>1. PICK s \in Listed(d) : <<r, "DEL">> \in Asks(d, s)
      BY <1>2, <1>3, <1>9
    <2>2. s \in {"refArtist", "refAlbum", "setFile", "refTrack", "refOther", "touch"}
      BY <1>1, <1>9, <2>1, ListsOfStatements
    <2> QED BY <2>1, <2>2 DEF Asks, Reference
  <1> QED BY <1>4, <1>5, <1>6, <1>7, <1>8, <1>9 DEF d

\* What a transaction that commits has locked.
LEMMA CommitHolds ==
  ASSUME RowInv, NEW x \in Requests, Commit(x)
  PROVE  /\ \A s \in Listed(job[x]) \cap Lasting : Demand(x, s) \subseteq held[x]
         /\ \A l \in held[x] : l[1] \in Rows(cat)
  <1>1. AllLocked /\ LocksGranted /\ Done(x) = Listed(job[x])
    BY CommitStep DEF RowInv
  <1> QED BY <1>1 DEF AllLocked, LocksGranted, Lasting

LEMMA CommitMakes ==
  ASSUME RowInv, NEW x \in Requests, Commit(x)
  PROVE  LET d == job[x] IN
         /\ cat' \in Catalogue
         /\ cat'.artists = {a \in cat.artists : Artist(a) \notin Doomed(x)}
         /\ \A b \in Albums : cat'.album[b] =
              IF Album(b) \in Doomed(x) THEN None
              ELSE IF d.do = "CreateAlbum" /\ b = d.album THEN d.artist ELSE cat.album[b]
         /\ \A t \in Tracks : cat'.track[t] =
              IF Track(t) \in Doomed(x) THEN None
              ELSE IF d.do = "CreateTrack" /\ t = d.track
                   THEN [artist |-> d.artist, album |-> d.album]
              ELSE IF <<Track(t), "NULL">> \in held[x] THEN [cat.track[t] EXCEPT !.album = None]
              ELSE cat.track[t]
         /\ \A t \in Tracks : <<Track(t), "NULL">> \in held[x] => t \in LiveTracks(cat)
         /\ \A p : p \in LivePlaylists(cat') <=>
              /\ p \in LivePlaylists(cat) \/ (d.do = "CreatePlaylist" /\ p = d.list)
              /\ Playlist(p) \notin Doomed(x)
         /\ \A p \in LivePlaylists(cat') :
              Members(cat', p) = {t \in Joined(cat, d, p) : Member(p, t) \notin Doomed(x)}
  <1> DEFINE d == job[x]
             c == Inserted(cat, d)
             cleared == {l[1] : l \in {l \in held[x] : l[2] = "NULL"}}
             keep(p) == {t \in Members(c, p) : Member(p, t) \notin Doomed(x)}
             C == Committed(x)
  <1>1. /\ JobsGiven /\ Standing /\ Asked /\ cat \in Catalogue /\ d \in Jobs /\ JobOK(d)
        /\ Done(x) = Listed(d) /\ cat' = Committed(x)
    BY CommitStep DEF RowInv
  <1>2. \A l \in held[x] : l[1] \in Rows(cat)
    BY CommitHolds
  <1>3. ASSUME d.do = "AddTrack"
        PROVE  d.list \in LivePlaylists(cat)
    <2>1. "touch" \in Listed(d) \cap Lasting
      BY <1>1, <1>3, ListsOfStatements DEF Lasting
    <2>2. <<Playlist(d.list), "NKU">> \in held[x]
      BY <2>1, CommitHolds DEF Demand
    <2>3. Playlist(d.list) \in Rows(cat)
      BY <1>2, <2>2
    <2> QED BY <1>1, <2>3, RowsOf
  <1>4. /\ c \in Catalogue /\ c.artists = cat.artists
        /\ \A b \in Albums : c.album[b] = IF d.do = "CreateAlbum" /\ b = d.album THEN d.artist
                                           ELSE cat.album[b]
        /\ \A t \in Tracks : c.track[t] = IF d.do = "CreateTrack" /\ t = d.track
                                           THEN [artist |-> d.artist, album |-> d.album]
                                           ELSE cat.track[t]
        /\ LivePlaylists(c) = LivePlaylists(cat) \cup
                                (IF d.do = "CreatePlaylist" THEN {d.list} ELSE {})
        /\ \A p \in LivePlaylists(c) : Members(c, p) = Joined(cat, d, p)
    <2> HIDE DEF d
    <2> QED BY <1>1, <1>3, InsertedIs
  <1>5. \A t : Track(t) \in cleared <=> <<Track(t), "NULL">> \in held[x]
    <2>1. \A l \in held[x] : l = <<l[1], l[2]>>
      BY <1>1 DEF Standing, Locks
    <2> QED BY <2>1
  <1>6. C = [artists |-> {a \in c.artists : Artist(a) \notin Doomed(x)},
             album |-> [b \in Albums |-> IF Album(b) \in Doomed(x) THEN None ELSE c.album[b]],
             track |-> [t \in Tracks |->
                          IF Track(t) \in Doomed(x) THEN None
                          ELSE IF Track(t) \in cleared THEN [c.track[t] EXCEPT !.album = None]
                          ELSE c.track[t]],
             list |-> [p \in Playlists |->
                         IF c.list[p] = None \/ Playlist(p) \in Doomed(x) THEN None
                         ELSE Only(c.list[p], keep(p))]]
    BY DEF Committed, Stays
  <1>7. \A t \in Tracks : <<Track(t), "NULL">> \in held[x] =>
          /\ t \in LiveTracks(cat) /\ d.do # "CreateTrack"
          /\ c.track[t] = cat.track[t] /\ cat.track[t] \in TrackRows
    <2> TAKE t \in Tracks
    <2> HAVE <<Track(t), "NULL">> \in held[x]
    <2>1. Track(t) \in Rows(cat)
      BY <1>2
    <2>2. t \in LiveTracks(cat)
      BY <1>1, <2>1, RowsOf
    <2>3. d.do \in {"DeleteAlbum", "DeleteArtist"}
      BY <1>1, WhoDooms
    <2>4. cat.track[t] \in TrackRows
      BY <1>1, <2>2 DEF LiveTracks, Catalogue
    <2>5. d.do # "CreateTrack"
      BY <2>3
    <2> HIDE DEF d, c
    <2> QED BY <1>4, <2>2, <2>4, <2>5
  <1>8. \A p \in Playlists : keep(p) \subseteq Tracks /\
          Only(c.list[p], keep(p)) \in Lists /\ MembersOf(Only(c.list[p], keep(p))) = keep(p)
    <2> TAKE p \in Playlists
    <2>1. keep(p) \subseteq Tracks
      BY DEF Members, MembersOf
    <2> HIDE DEF keep, c
    <2> QED BY <2>1, OnlyList
  <1> HIDE DEF d, c, cleared, keep, C
  <1>9. C.artists = {a \in cat.artists : Artist(a) \notin Doomed(x)}
    BY <1>4, <1>6
  <1>10. \A b \in Albums : C.album[b] = IF Album(b) \in Doomed(x) THEN None ELSE c.album[b]
    BY <1>6
  <1>11. \A t \in Tracks : C.track[t] = IF Track(t) \in Doomed(x) THEN None
                          ELSE IF Track(t) \in cleared THEN [c.track[t] EXCEPT !.album = None]
                          ELSE c.track[t]
    BY <1>6
  <1>12. \A p \in Playlists : C.list[p] = IF c.list[p] = None \/ Playlist(p) \in Doomed(x) THEN None
                                          ELSE Only(c.list[p], keep(p))
    BY <1>6
  <1>13. C \in Catalogue
    <2>1. C.artists \in SUBSET Artists
      BY <1>1, <1>9 DEF Catalogue
    <2>2. \A b \in Albums : C.album[b] \in Artists \cup {None}
      BY <1>4, <1>10 DEF Catalogue
    <2>3. \A t \in Tracks : C.track[t] \in TrackRows \cup {None}
      <3> TAKE t \in Tracks
      <3>1. c.track[t] \in TrackRows \cup {None}
        BY <1>4 DEF Catalogue
      <3>2. \A r \in TrackRows : [r EXCEPT !.album = None] \in TrackRows
        BY DEF TrackRows
      <3>3. Track(t) \in cleared => c.track[t] \in TrackRows
        BY <1>5, <1>7
      <3> QED BY <1>11, <3>1, <3>2, <3>3
    <2>4. \A p \in Playlists : C.list[p] \in Lists \cup {None}
      BY <1>8, <1>12
    <2>5. C.album \in [Albums -> Artists \cup {None}]
      BY <1>6, <2>2
    <2>6. C.track \in [Tracks -> TrackRows \cup {None}]
      BY <1>6, <2>3
    <2>7. C.list \in [Playlists -> Lists \cup {None}]
      BY <1>6, <2>4
    <2>8. C = [artists |-> C.artists, album |-> C.album, track |-> C.track, list |-> C.list]
      BY <1>6
    <2> QED BY <2>1, <2>5, <2>6, <2>7, <2>8 DEF Catalogue
  <1>14. \A b \in Albums : C.album[b] =
              IF Album(b) \in Doomed(x) THEN None
              ELSE IF d.do = "CreateAlbum" /\ b = d.album THEN d.artist ELSE cat.album[b]
    BY <1>4, <1>10
  <1>15. \A t \in Tracks : C.track[t] =
              IF Track(t) \in Doomed(x) THEN None
              ELSE IF d.do = "CreateTrack" /\ t = d.track
                   THEN [artist |-> d.artist, album |-> d.album]
              ELSE IF <<Track(t), "NULL">> \in held[x] THEN [cat.track[t] EXCEPT !.album = None]
              ELSE cat.track[t]
    BY <1>4, <1>5, <1>7, <1>11
  <1>16. \A p : p \in LivePlaylists(C) <=>
              /\ p \in LivePlaylists(cat) \/ (d.do = "CreatePlaylist" /\ p = d.list)
              /\ Playlist(p) \notin Doomed(x)
    <2>1. \A p : p \in LivePlaylists(C) <=> p \in LivePlaylists(c) /\ Playlist(p) \notin Doomed(x)
      BY <1>8, <1>12, NoneIsNoRow DEF LivePlaylists
    <2> QED BY <1>4, <2>1
  <1>17. \A p \in LivePlaylists(C) :
              Members(C, p) = {t \in Joined(cat, d, p) : Member(p, t) \notin Doomed(x)}
    <2> TAKE p \in LivePlaylists(C)
    <2>1. p \in Playlists /\ p \in LivePlaylists(c) /\ C.list[p] = Only(c.list[p], keep(p))
      BY <1>12 DEF LivePlaylists
    <2>2. Members(C, p) = keep(p)
      BY <1>8, <2>1 DEF Members
    <2> QED BY <1>4, <2>1, <2>2 DEF keep
  <1> QED BY <1>1, <1>7, <1>9, <1>13, <1>14, <1>15, <1>16, <1>17 DEF C, d

LEMMA RowKinds ==
  ASSUME NEW c \in Catalogue, NEW r
  PROVE  r \in Rows(c) <=>
           \/ \E a \in c.artists : r = Artist(a)
           \/ \E b \in LiveAlbums(c) : r = Album(b)
           \/ \E t \in LiveTracks(c) : r = Track(t)
           \/ \E p \in LivePlaylists(c) : r = Playlist(p)
           \/ \E p \in LivePlaylists(c) : \E t \in Members(c, p) : r = Member(p, t)
  BY DEF Rows

LEMMA NewRowsAre ==
  ASSUME NEW d \in Jobs
  PROVE  /\ \A a : Artist(a) \notin NewRows(d)
         /\ \A b : Album(b) \in NewRows(d) <=> d.do = "CreateAlbum" /\ b = d.album
         /\ \A t : Track(t) \in NewRows(d) <=> d.do = "CreateTrack" /\ t = d.track
         /\ \A p : Playlist(p) \in NewRows(d) <=> d.do = "CreatePlaylist" /\ p = d.list
         /\ \A p, t : Member(p, t) \notin NewRows(d)
  <1>1. CASE d.do = "CreateAlbum"
    <2>1. NewRows(d) = {Album(d.album)}
      BY <1>1 DEF NewRows
    <2> QED BY <1>1, <2>1 DEF Artist, Album, Track, Playlist, Member
  <1>2. CASE d.do = "CreateTrack"
    <2>1. NewRows(d) = {Track(d.track)}
      BY <1>2 DEF NewRows
    <2> QED BY <1>2, <2>1 DEF Artist, Album, Track, Playlist, Member
  <1>3. CASE d.do = "CreatePlaylist"
    <2>1. NewRows(d) = {Playlist(d.list)}
      BY <1>3 DEF NewRows
    <2> QED BY <1>3, <2>1 DEF Artist, Album, Track, Playlist, Member
  <1>4. CASE d.do \notin {"CreateAlbum", "CreateTrack", "CreatePlaylist"}
    BY <1>4 DEF NewRows
  <1> QED BY <1>1, <1>2, <1>3, <1>4

\* The row to be created is not there when its request commits.
LEMMA NewAtCommit ==
  ASSUME RowInv, NEW x \in Requests, Commit(x)
  PROVE  /\ job[x].do = "CreateAlbum" => job[x].album \in Albums \ LiveAlbums(cat)
         /\ job[x].do = "CreateTrack" => job[x].track \in Tracks \ LiveTracks(cat)
         /\ job[x].do = "CreatePlaylist" => job[x].list \in Playlists \ LivePlaylists(cat)
  <1> DEFINE d == job[x]
  <1>1. /\ d \in Jobs /\ JobOK(d) /\ cat \in Catalogue /\ NewRows(d) \cap Rows(cat) = {}
    BY CommitStep DEF RowInv, NotYetThere
  <1> HIDE DEF d
  <1>2. d.do = "CreateAlbum" => d.album \in Albums \ LiveAlbums(cat)
    BY <1>1, RowsOf, NewRowsAre DEF JobOK
  <1>3. d.do = "CreateTrack" => d.track \in Tracks \ LiveTracks(cat)
    BY <1>1, RowsOf, NewRowsAre DEF JobOK
  <1>4. d.do = "CreatePlaylist" => d.list \in Playlists \ LivePlaylists(cat)
    BY <1>1, RowsOf, NewRowsAre DEF JobOK
  <1> QED BY <1>2, <1>3, <1>4 DEF d

\* What a delete cascades to is doomed with it when it commits.
LEMMA CascadesDone ==
  ASSUME RowInv, NEW x \in Requests, Commit(x)
  PROVE  /\ \A p \in LivePlaylists(cat) : \A t \in Members(cat, p) :
              Playlist(p) \in Doomed(x) \/ Track(t) \in Doomed(x) => Member(p, t) \in Doomed(x)
         /\ \A b \in LiveAlbums(cat) : Artist(cat.album[b]) \in Doomed(x) => Album(b) \in Doomed(x)
         /\ \A t \in LiveTracks(cat) :
              /\ Artist(cat.track[t].artist) \in Doomed(x) => Track(t) \in Doomed(x)
              /\ Album(cat.track[t].album) \in Doomed(x) => <<Track(t), "NULL">> \in held[x]
  <1> DEFINE d == job[x]
             D == Doomed(x)
  <1>1. /\ JobsGiven /\ Standing /\ Asked /\ cat \in Catalogue /\ d \in Jobs /\ JobOK(d)
    BY CommitStep DEF RowInv
  <1>2. \A s \in Listed(d) \cap Lasting : Demand(x, s) \subseteq held[x]
    BY CommitHolds
  <1>3. \A r : <<r, "DEL">> \in held[x] => r \in D
    BY <1>1, DoomedHeld
  <1>4. /\ d.do = "DeleteArtist" => {"cascadeAlbums", "clearAlbum", "cascadeTracks",
                                     "cascadeMembers"} \subseteq Listed(d)
        /\ d.do \in {"DeleteTrack", "DeletePlaylist"} => "cascadeMembers" \in Listed(d)
        /\ d.do = "DeleteAlbum" => "clearAlbum" \in Listed(d)
    BY <1>1, ListsOfStatements
  <1>5. ASSUME NEW p \in LivePlaylists(cat), NEW t \in Members(cat, p),
               Playlist(p) \in D \/ Track(t) \in D
        PROVE  Member(p, t) \in D
    <2>1. d.do \in {"DeleteTrack", "DeletePlaylist", "DeleteArtist"}
      BY <1>1, <1>5, WhoDooms
    <2>2. "cascadeMembers" \in Listed(d) \cap Lasting
      BY <1>4, <2>1 DEF Lasting
    <2>3. CascadeMembers(x) \subseteq held[x]
      BY <1>2, <2>2 DEF Demand
    <2>4. Member(p, t) \in Rows(cat)
      BY <1>1, RowsOf
    <2>5. <<Member(p, t), "DEL">> \in CascadeMembers(x)
      BY <1>5, <2>4, RowParts DEF CascadeMembers
    <2> QED BY <1>3, <2>3, <2>5
  <1>6. ASSUME NEW b \in LiveAlbums(cat), Artist(cat.album[b]) \in D
        PROVE  Album(b) \in D
    <2>1. d.do = "DeleteArtist" /\ cat.album[b] = d.artist
      BY <1>1, <1>6, WhoDooms
    <2>2. "cascadeAlbums" \in Listed(d) \cap Lasting
      BY <1>4, <2>1 DEF Lasting
    <2>3. <<Album(b), "DEL">> \in Demand(x, "cascadeAlbums")
      BY <2>1 DEF Demand
    <2> QED BY <1>2, <1>3, <2>2, <2>3
  <1>7. ASSUME NEW t \in LiveTracks(cat), Artist(cat.track[t].artist) \in D
        PROVE  Track(t) \in D
    <2>1. d.do = "DeleteArtist" /\ cat.track[t].artist = d.artist
      BY <1>1, <1>7, WhoDooms
    <2>2. "cascadeTracks" \in Listed(d) \cap Lasting
      BY <1>4, <2>1 DEF Lasting
    <2>3. <<Track(t), "DEL">> \in Demand(x, "cascadeTracks")
      BY <2>1 DEF Demand, TracksBy
    <2> QED BY <1>2, <1>3, <2>2, <2>3
  <1>8. ASSUME NEW t \in LiveTracks(cat), Album(cat.track[t].album) \in D
        PROVE  <<Track(t), "NULL">> \in held[x]
    <2>1. d.do \in {"DeleteAlbum", "DeleteArtist"}
      BY <1>1, <1>8, WhoDooms
    <2>2. "clearAlbum" \in Listed(d) \cap Lasting
      BY <1>4, <2>1 DEF Lasting
    <2>3. <<Track(t), "NULL">> \in Demand(x, "clearAlbum")
      BY <1>8 DEF Demand, ClearAlbum
    <2> QED BY <1>2, <2>2, <2>3
  <1> QED BY <1>5, <1>6, <1>7, <1>8

LEMMA RowsAfter ==
  ASSUME RowInv, NEW x \in Requests, Commit(x)
  PROVE  /\ \A r \in Rows(cat) : r \notin Doomed(x) => r \in Rows(cat')
         /\ \A a : Artist(a) \in Rows(cat') => Artist(a) \in Rows(cat)
         /\ \A b : Album(b) \in Rows(cat') => Album(b) \in Rows(cat) \cup NewRows(job[x])
         /\ \A t : Track(t) \in Rows(cat') => Track(t) \in Rows(cat) \cup NewRows(job[x])
         /\ \A p : Playlist(p) \in Rows(cat') => Playlist(p) \in Rows(cat) \cup NewRows(job[x])
  <1> DEFINE d == job[x]
             D == Doomed(x)
             e == cat'
  <1>1. cat \in Catalogue /\ d \in Jobs /\ JobOK(d)
    BY CommitStep DEF RowInv
  <1>2. /\ e \in Catalogue
        /\ e.artists = {a \in cat.artists : Artist(a) \notin D}
        /\ \A b \in Albums : e.album[b] =
              IF Album(b) \in D THEN None
              ELSE IF d.do = "CreateAlbum" /\ b = d.album THEN d.artist ELSE cat.album[b]
        /\ \A t \in Tracks : e.track[t] =
              IF Track(t) \in D THEN None
              ELSE IF d.do = "CreateTrack" /\ t = d.track
                   THEN [artist |-> d.artist, album |-> d.album]
              ELSE IF <<Track(t), "NULL">> \in held[x] THEN [cat.track[t] EXCEPT !.album = None]
              ELSE cat.track[t]
        /\ \A t \in Tracks : <<Track(t), "NULL">> \in held[x] => t \in LiveTracks(cat)
        /\ \A p : p \in LivePlaylists(e) <=>
              /\ p \in LivePlaylists(cat) \/ (d.do = "CreatePlaylist" /\ p = d.list)
              /\ Playlist(p) \notin D
        /\ \A p \in LivePlaylists(e) :
              Members(e, p) = {t \in Joined(cat, d, p) : Member(p, t) \notin D}
    BY CommitMakes
  <1>3. d.do = "CreatePlaylist" => d.list \notin LivePlaylists(cat)
    BY NewAtCommit
  <1>4. \A p \in LivePlaylists(cat) : \A t \in Members(cat, p) :
              Playlist(p) \in D \/ Track(t) \in D => Member(p, t) \in D
    BY CascadesDone
  <1> HIDE DEF d, D, e
  <1>5. ASSUME NEW b \in LiveAlbums(cat), Album(b) \notin D
        PROVE  b \in LiveAlbums(e)
    BY <1>1, <1>2, <1>5, NoneIsNoRow DEF LiveAlbums, JobOK
  <1>6. ASSUME NEW t \in LiveTracks(cat), Track(t) \notin D
        PROVE  t \in LiveTracks(e)
    <2>1. t \in Tracks /\ cat.track[t] \in TrackRows
      BY <1>1 DEF LiveTracks, Catalogue
    <2>2. [cat.track[t] EXCEPT !.album = None] \in TrackRows
      BY <2>1 DEF TrackRows
    <2>3. d.do = "CreateTrack" => [artist |-> d.artist, album |-> d.album] \in TrackRows
      BY <1>1 DEF JobOK, TrackRows
    <2>4. e.track[t] \in TrackRows
      BY <1>2, <1>6, <2>1, <2>2, <2>3
    <2> QED BY <2>1, <2>4, NoneIsNoRow DEF LiveTracks
  <1>7. ASSUME NEW p \in LivePlaylists(cat), NEW t \in Members(cat, p), Member(p, t) \notin D
        PROVE  p \in LivePlaylists(e) /\ t \in Members(e, p)
    <2>1. p \in LivePlaylists(e)
      BY <1>2, <1>4, <1>7
    <2>2. t \in Joined(cat, d, p)
      BY <1>3 DEF Joined
    <2> QED BY <1>2, <1>7, <2>1, <2>2
  <1>8. ASSUME NEW r \in Rows(cat), r \notin D
        PROVE  r \in Rows(e)
    <2>1. CASE \E a \in cat.artists : r = Artist(a)
      BY <1>2, <1>8, <2>1, RowsOf
    <2>2. CASE \E b \in LiveAlbums(cat) : r = Album(b)
      BY <1>2, <1>5, <1>8, <2>2, RowsOf
    <2>3. CASE \E t \in LiveTracks(cat) : r = Track(t)
      BY <1>2, <1>6, <1>8, <2>3, RowsOf
    <2>4. CASE \E p \in LivePlaylists(cat) : r = Playlist(p)
      BY <1>2, <1>8, <2>4, RowsOf
    <2>5. CASE \E p \in LivePlaylists(cat) : \E t \in Members(cat, p) : r = Member(p, t)
      BY <1>2, <1>7, <1>8, <2>5, RowsOf
    <2> QED BY <1>1, <2>1, <2>2, <2>3, <2>4, <2>5, RowKinds
  <1>9. ASSUME NEW b, Album(b) \in Rows(e)
        PROVE  Album(b) \in Rows(cat) \cup NewRows(d)
    <2>1. b \in Albums /\ e.album[b] # None
      BY <1>2, <1>9, RowsOf DEF LiveAlbums
    <2>2. b \in LiveAlbums(cat) \/ (d.do = "CreateAlbum" /\ b = d.album)
      BY <1>2, <2>1 DEF LiveAlbums
    <2> QED BY <1>1, <2>2, RowsOf, NewRowsAre
  <1>10. ASSUME NEW t, Track(t) \in Rows(e)
         PROVE  Track(t) \in Rows(cat) \cup NewRows(d)
    <2>1. t \in Tracks /\ e.track[t] # None
      BY <1>2, <1>10, RowsOf DEF LiveTracks
    <2>2. t \in LiveTracks(cat) \/ (d.do = "CreateTrack" /\ t = d.track)
      BY <1>2, <2>1 DEF LiveTracks
    <2> QED BY <1>1, <2>2, RowsOf, NewRowsAre
  <1>11. ASSUME NEW p, Playlist(p) \in Rows(e)
         PROVE  Playlist(p) \in Rows(cat) \cup NewRows(d)
    BY <1>1, <1>2, <1>11, RowsOf, NewRowsAre
  <1>12. ASSUME NEW a, Artist(a) \in Rows(e)
         PROVE  Artist(a) \in Rows(cat)
    BY <1>1, <1>2, <1>12, RowsOf
  <1> QED BY <1>8, <1>9, <1>10, <1>11, <1>12 DEF e, D, d

LEMMA CommitIntact ==
  ASSUME RowInv, NEW x \in Requests, Commit(x)
  PROVE  Intact(cat')
  <1> DEFINE d == job[x]
             D == Doomed(x)
             e == cat'
  <1>1. /\ cat \in Catalogue /\ Intact(cat) /\ d \in Jobs /\ JobOK(d)
        /\ JobsGiven /\ Standing /\ Asked
    BY CommitStep DEF RowInv
  <1>2. /\ e \in Catalogue
        /\ e.artists = {a \in cat.artists : Artist(a) \notin D}
        /\ \A b \in Albums : e.album[b] =
              IF Album(b) \in D THEN None
              ELSE IF d.do = "CreateAlbum" /\ b = d.album THEN d.artist ELSE cat.album[b]
        /\ \A t \in Tracks : e.track[t] =
              IF Track(t) \in D THEN None
              ELSE IF d.do = "CreateTrack" /\ t = d.track
                   THEN [artist |-> d.artist, album |-> d.album]
              ELSE IF <<Track(t), "NULL">> \in held[x] THEN [cat.track[t] EXCEPT !.album = None]
              ELSE cat.track[t]
        /\ \A t \in Tracks : <<Track(t), "NULL">> \in held[x] => t \in LiveTracks(cat)
        /\ \A p : p \in LivePlaylists(e) <=>
              /\ p \in LivePlaylists(cat) \/ (d.do = "CreatePlaylist" /\ p = d.list)
              /\ Playlist(p) \notin D
        /\ \A p \in LivePlaylists(e) :
              Members(e, p) = {t \in Joined(cat, d, p) : Member(p, t) \notin D}
    BY CommitMakes
  <1>3. /\ \A p \in LivePlaylists(cat) : \A t \in Members(cat, p) :
              Playlist(p) \in D \/ Track(t) \in D => Member(p, t) \in D
        /\ \A b \in LiveAlbums(cat) : Artist(cat.album[b]) \in D => Album(b) \in D
        /\ \A t \in LiveTracks(cat) :
              /\ Artist(cat.track[t].artist) \in D => Track(t) \in D
              /\ Album(cat.track[t].album) \in D => <<Track(t), "NULL">> \in held[x]
    BY CascadesDone
  <1>4. \A s \in Listed(d) \cap Lasting : \A l \in Demand(x, s) : l[1] \in Rows(cat)
    BY CommitHolds
  <1>5. d.do \in {"CreateAlbum", "CreateTrack", "SetTrackFile", "CreatePlaylist", "AddTrack"} =>
          D = {}
    BY <1>1, WhoDooms
  <1>6. /\ d.do \in {"CreateAlbum", "CreateTrack"} => d.artist \in cat.artists
        /\ d.do = "CreateTrack" /\ d.album # None => d.album \in LiveAlbums(cat)
        /\ d.do \in {"CreatePlaylist", "AddTrack"} => d.track \in LiveTracks(cat)
        /\ d.do = "CreatePlaylist" => d.other \in LiveTracks(cat)
    <2>1. d.do \in {"CreateAlbum", "CreateTrack"} => "refArtist" \in Listed(d) \cap Lasting
      BY <1>1, ListsOfStatements DEF Lasting
    <2>2. d.do = "CreateTrack" /\ d.album # None => "refAlbum" \in Listed(d) \cap Lasting
      BY <1>1, ListsOfStatements DEF Lasting
    <2>3. d.do \in {"CreatePlaylist", "AddTrack"} => "refTrack" \in Listed(d) \cap Lasting
      BY <1>1, ListsOfStatements DEF Lasting
    <2>4. d.do = "CreatePlaylist" => "refOther" \in Listed(d) \cap Lasting
      BY <1>1, ListsOfStatements DEF Lasting
    <2>5. /\ Demand(x, "refArtist") = {<<Artist(d.artist), "KS">>}
          /\ Demand(x, "refAlbum") = {<<Album(d.album), "KS">>}
          /\ Demand(x, "refTrack") = {<<Track(d.track), "KS">>}
          /\ Demand(x, "refOther") = {<<Track(d.other), "KS">>}
      BY DEF Demand, Reference
    <2> HIDE DEF d
    <2>6. /\ d.do \in {"CreateAlbum", "CreateTrack"} => Artist(d.artist) \in Rows(cat)
          /\ d.do = "CreateTrack" /\ d.album # None => Album(d.album) \in Rows(cat)
          /\ d.do \in {"CreatePlaylist", "AddTrack"} => Track(d.track) \in Rows(cat)
          /\ d.do = "CreatePlaylist" => Track(d.other) \in Rows(cat)
      <3>1. ASSUME NEW s \in Listed(d) \cap Lasting, NEW r, Demand(x, s) = {<<r, "KS">>}
            PROVE  r \in Rows(cat)
        <4>1. <<r, "KS">>[1] \in Rows(cat)
          BY <1>4, <3>1
        <4> QED BY <4>1
      <3> QED BY <2>1, <2>2, <2>3, <2>4, <2>5, <3>1
    <2> QED BY <1>1, <2>6, RowsOf
  <1> HIDE DEF d, D, e
  <1>7. ASSUME NEW b \in LiveAlbums(e)
        PROVE  e.album[b] \in e.artists
    <2>1. b \in Albums /\ Album(b) \notin D /\ e.album[b] # None
      BY <1>2 DEF LiveAlbums
    <2>2. CASE d.do = "CreateAlbum" /\ b = d.album
      BY <1>2, <1>5, <1>6, <2>1, <2>2
    <2>3. CASE ~(d.do = "CreateAlbum" /\ b = d.album)
      <3>1. e.album[b] = cat.album[b] /\ b \in LiveAlbums(cat)
        BY <1>2, <2>1, <2>3 DEF LiveAlbums
      <3>2. cat.album[b] \in cat.artists /\ Artist(cat.album[b]) \notin D
        BY <1>1, <1>3, <2>1, <3>1 DEF Intact
      <3> QED BY <1>2, <3>1, <3>2
    <2> QED BY <2>2, <2>3
  <1>8. ASSUME NEW t \in LiveTracks(e)
        PROVE  e.track[t].artist \in e.artists /\ e.track[t].album \in LiveAlbums(e) \cup {None}
    <2>1. t \in Tracks /\ Track(t) \notin D /\ e.track[t] # None
      BY <1>2 DEF LiveTracks
    <2>2. \A b \in LiveAlbums(cat) : Album(b) \notin D => b \in LiveAlbums(e)
      BY <1>1, <1>2, NoneIsNoRow DEF LiveAlbums, JobOK
    <2>3. CASE d.do = "CreateTrack" /\ t = d.track
      <3>1. e.track[t] = [artist |-> d.artist, album |-> d.album]
        BY <1>2, <2>1, <2>3
      <3>2. e.track[t].artist = d.artist /\ e.track[t].album = d.album
        BY <3>1
      <3>3. d.artist \in e.artists
        BY <1>2, <1>5, <1>6, <2>3
      <3>4. d.album \in LiveAlbums(e) \cup {None}
        BY <1>5, <1>6, <2>2, <2>3
      <3> QED BY <3>2, <3>3, <3>4
    <2>4. CASE ~(d.do = "CreateTrack" /\ t = d.track)
      <3>1. e.track[t] = IF <<Track(t), "NULL">> \in held[x]
                         THEN [cat.track[t] EXCEPT !.album = None] ELSE cat.track[t]
        BY <1>2, <2>1, <2>4
      <3>2. t \in LiveTracks(cat) /\ cat.track[t] \in TrackRows
        BY <1>1, <1>2, <2>1, <3>1 DEF LiveTracks, Catalogue
      <3>3. /\ cat.track[t].artist \in cat.artists
            /\ cat.track[t].album \in LiveAlbums(cat) \cup {None}
            /\ Artist(cat.track[t].artist) \notin D
        BY <1>1, <1>3, <2>1, <3>2 DEF Intact
      <3>4. CASE <<Track(t), "NULL">> \in held[x]
        <4>1. e.track[t].artist = cat.track[t].artist /\ e.track[t].album = None
          BY <3>1, <3>2, <3>4 DEF TrackRows
        <4> QED BY <1>2, <3>3, <4>1
      <3>5. CASE <<Track(t), "NULL">> \notin held[x]
        <4>1. e.track[t] = cat.track[t]
          BY <3>1, <3>5
        <4>2. Album(cat.track[t].album) \notin D
          BY <1>3, <3>2, <3>5
        <4> QED BY <1>2, <2>2, <3>3, <4>1, <4>2
      <3> QED BY <3>4, <3>5
    <2> QED BY <2>3, <2>4
  <1>9. ASSUME NEW p \in LivePlaylists(e), NEW t \in Members(e, p)
        PROVE  t \in LiveTracks(e)
    <2>1. t \in Joined(cat, d, p) /\ Member(p, t) \notin D /\ Playlist(p) \notin D
      BY <1>2
    <2>2. t \in LiveTracks(cat) /\ Track(t) \notin D
      <3>1. CASE d.do \in {"CreatePlaylist", "AddTrack"} /\ p = d.list
        <4>1. D = {}
          BY <1>5, <3>1
        <4>2. t \in {d.track, d.other} \/ (d.do = "AddTrack" /\ t \in Members(cat, p) \cup {d.track})
          BY <2>1, <3>1 DEF Joined
        <4>3. d.do = "AddTrack" => p \in LivePlaylists(cat)
          BY <1>2
        <4>4. t \in LiveTracks(cat)
          BY <1>1, <1>6, <2>1, <3>1, <4>3 DEF Intact, Joined
        <4> QED BY <4>1, <4>4
      <3>2. CASE ~(d.do \in {"CreatePlaylist", "AddTrack"} /\ p = d.list)
        <4>1. p \in LivePlaylists(cat) /\ t \in Members(cat, p)
          BY <1>2, <2>1, <3>2 DEF Joined
        <4> QED BY <1>1, <1>3, <2>1, <4>1 DEF Intact
      <3> QED BY <3>1, <3>2
    <2>3. Track(t) \in Rows(cat) /\ Track(t) \in Rows(e)
      BY <1>1, <2>2, RowsOf, RowsAfter DEF D, e
    <2> QED BY <1>2, <2>3, RowsOf
  <1> QED BY <1>7, <1>8, <1>9 DEF Intact, e

LEMMA CommitGranted ==
  ASSUME RowInv, NEW x \in Requests, Commit(x)
  PROVE  LocksGranted'
  <1>1. /\ LocksGranted /\ Standing /\ Others(x) /\ held'[x] = {}
    BY CommitStep DEF RowInv, Ended
  <1>2. \A y \in Requests \ {x} : held'[y] = held[y]
    BY <1>1, OthersSame
  <1>3. ASSUME NEW y \in Requests, NEW l \in held'[y]
        PROVE  l[1] \in Rows(cat')
    <2>1. y # x /\ l \in held[y]
      BY <1>1, <1>2, <1>3
    <2>2. l[1] \in Rows(cat) /\ ~Blocks(x, l)
      BY <1>1, <2>1 DEF LocksGranted
    <2>3. l[1] \notin Doomed(x)
      <3>1. \A m : Conflict("DEL", m)
        BY DEF Conflict, Strength
      <3> QED BY <2>2, <3>1 DEF Blocks, Doomed
    <2> QED BY <2>2, <2>3, RowsAfter
  <1>4. ASSUME NEW y \in Requests, NEW z \in Requests, y # z, NEW l \in held'[y]
        PROVE  ~Blocks(z, l)'
    <2>1. y # x /\ l \in held[y]
      BY <1>1, <1>2, <1>4
    <2>2. held'[z] \subseteq held[z]
      BY <1>1, <1>2
    <2>3. ~Blocks(z, l)
      BY <1>1, <1>4, <2>1 DEF LocksGranted
    <2> QED BY <2>2, <2>3 DEF Blocks
  <1> QED BY <1>3, <1>4 DEF LocksGranted

LEMMA CommitNotYet ==
  ASSUME RowInv, NEW x \in Requests, Commit(x)
  PROVE  NotYetThere' /\ JobsGiven' /\ Asked'
  <1>1. /\ JobsGiven /\ NotYetThere /\ Asked /\ Others(x) /\ Ended(x) /\ job' = job
    BY CommitStep DEF RowInv
  <1>2. JobsGiven'
    BY <1>1 DEF JobsGiven
  <1>3. Asked'
    <2> DEFINE OK(y) == /\ want'[y] \subseteq UNION {Asks(job[y], s) : s \in Current(y)'}
                        /\ held'[y] \subseteq UNION {Asks(job[y], s) : s \in Done(y)' \cup Current(y)'}
    <2>1. ASSUME NEW y \in Requests, y # x
          PROVE  OK(y)
      BY <1>1, <2>1, OthersSame DEF Asked
    <2>2. OK(x)
      BY <1>1 DEF Ended
    <2> QED BY <1>1, <2>1, <2>2 DEF Asked
  <1>4. ASSUME NEW y \in Requests, pc'[y] # "ended", NEW r \in NewRows(job[y])
        PROVE  r \notin Rows(cat')
    <2>1. y # x /\ pc[y] # "ended"
      BY <1>1, <1>4, OthersSame DEF Ended
    <2>2. r \notin Rows(cat) /\ r \notin NewRows(job[x])
      BY <1>1, <2>1 DEF NotYetThere, JobsGiven
    <2>3. \/ \E b : r = Album(b)
          \/ \E t : r = Track(t)
          \/ \E p : r = Playlist(p)
      BY DEF NewRows
    <2> QED BY <2>2, <2>3, RowsAfter
  <1> QED BY <1>1, <1>2, <1>3, <1>4 DEF NotYetThere

\* A creator of a row and a delete of what it refers to exclude each other.
LEMMA KeepsApart ==
  ASSUME RowInv, NEW x \in Requests, Commit(x), NEW y \in Requests \ {x}, NEW s \in Listed(job[x]),
         s \in {"refArtist", "refAlbum", "refTrack", "refOther", "touch"},
         NEW r, NEW m, <<r, m>> \in Demand(x, s)
  PROVE  r \notin Doomed(y)
  <1>1. <<r, m>> \in held[x]
    BY CommitHolds DEF Lasting
  <1>2. ~Blocks(y, <<r, m>>)
    BY <1>1 DEF RowInv, LocksGranted
  <1>3. Conflict("DEL", m)
    BY DEF Conflict, Strength
  <1>4. <<r, m>>[1] = r /\ <<r, m>>[2] = m
    OBVIOUS
  <1> QED BY <1>2, <1>3, <1>4 DEF Blocks, Doomed

\* Statements are done in their order.
LEMMA InSequence ==
  ASSUME JobsGiven, Standing, NEW y \in Requests, NEW s \in Done(y) \cup Current(y)
  PROVE  /\ s \in Listed(job[y])
         /\ \E i \in 1 .. Len(Statements(job[y])) :
              s = Statements(job[y])[i] /\ Behind(job[y], i) \subseteq Done(y)
  <1>1. job[y] \in Jobs
    BY DEF JobsGiven
  <1>2. CASE s \in Done(y)
    <2>1. PICK i \in 1 .. (Len(Statements(job[y])) - Len(todo[y])) : s = Statements(job[y])[i]
      BY <1>2 DEF Done
    <2>2. /\ Len(Statements(job[y])) \in Nat /\ Len(todo[y]) \in Nat
      <3>1. PICK k \in 1 .. Len(Statements(job[y])) + 1 : todo[y] = From(job[y], k)
        BY StandingAll DEF StandsWell
      <3>2. /\ Len(Statements(job[y])) \in Nat
            /\ Len(todo[y]) = Len(Statements(job[y])) - k + 1
        BY <1>1, <3>1, ToCome
      <3> QED BY <3>2
    <2>3. i \in 1 .. Len(Statements(job[y]))
      BY <2>2
    <2>4. Behind(job[y], i) \subseteq Done(y)
      <3> DEFINE k == Len(Statements(job[y])) - Len(todo[y])
      <3>1. k \in Int /\ i \in 1 .. k
        BY <2>2
      <3>2. pc[y] = "running"
        BY <1>2 DEF Done
      <3>3. Done(y) = {Statements(job[y])[j] : j \in 1 .. k}
        BY <3>2 DEF Done
      <3> HIDE DEF k
      <3>4. \A j \in 1 .. (i - 1) : j \in 1 .. k
        BY <3>1
      <3> QED BY <3>3, <3>4 DEF Behind
    <2> QED BY <1>1, <2>1, <2>3, <2>4, OrderOfStatements
  <1>3. CASE s \in Current(y)
    <2>1. at[y] # None /\ s = Head(todo[y])
      BY <1>3 DEF Current
    <2>2. pc[y] = "running" /\ todo[y] # <<>>
      BY <2>1, StandingAll DEF StandsWell
    <2> QED BY <1>1, <2>1, <2>2, Turn DEF InTurn
  <1> QED BY <1>2, <1>3

\* A commit leaves nothing more to lock to the statements of others.
LEMMA CommitDemand ==
  ASSUME RowInv, NEW x \in Requests, Commit(x), NEW y \in Requests \ {x}, NEW s \in Lasting,
         s \in Done(y) \cup Current(y)
  PROVE  Demand(y, s)' \subseteq Demand(y, s)
  <1> DEFINE d == job[x]
             D == Doomed(x)
             e == cat'
  <1>1. /\ cat \in Catalogue /\ Intact(cat) /\ d \in Jobs /\ JobOK(d) /\ job[y] \in Jobs
        /\ JobsGiven /\ Standing /\ Asked /\ AllLocked /\ Others(x) /\ job' = job
        /\ LocksGranted
    BY CommitStep DEF RowInv, JobsGiven
  <1>2. /\ e \in Catalogue
        /\ \A b \in Albums : e.album[b] =
              IF Album(b) \in D THEN None
              ELSE IF d.do = "CreateAlbum" /\ b = d.album THEN d.artist ELSE cat.album[b]
        /\ \A t \in Tracks : e.track[t] =
              IF Track(t) \in D THEN None
              ELSE IF d.do = "CreateTrack" /\ t = d.track
                   THEN [artist |-> d.artist, album |-> d.album]
              ELSE IF <<Track(t), "NULL">> \in held[x] THEN [cat.track[t] EXCEPT !.album = None]
              ELSE cat.track[t]
        /\ \A t \in Tracks : <<Track(t), "NULL">> \in held[x] => t \in LiveTracks(cat)
        /\ \A p : p \in LivePlaylists(e) <=>
              /\ p \in LivePlaylists(cat) \/ (d.do = "CreatePlaylist" /\ p = d.list)
              /\ Playlist(p) \notin D
        /\ \A p \in LivePlaylists(e) :
              Members(e, p) = {t \in Joined(cat, d, p) : Member(p, t) \notin D}
    BY CommitMakes
  <1>3. Doomed(y)' = Doomed(y)
    BY <1>1, OthersSame
  <1>4. /\ s \in Listed(job[y])
        /\ \E i \in 1 .. Len(Statements(job[y])) :
             s = Statements(job[y])[i] /\ Behind(job[y], i) \subseteq Done(y)
    BY <1>1, InSequence
  <1>5. \A r \in Lasting : r \in Done(y) => Demand(y, r) \subseteq held[y]
    BY <1>1 DEF AllLocked
  <1>6. \A r : <<r, "DEL">> \in held[y] => r \in Doomed(y)
    BY <1>1, DoomedHeld
  <1>7. \A r \in Doomed(y) : r \in Rows(cat)
    BY <1>1 DEF LocksGranted, Doomed
  <1>8. job[y].do = "DeleteArtist" /\ s \in {"cascadeAlbums", "cascadeTracks"} =>
          Artist(job[y].artist) \in Doomed(y)
    <2> SUFFICES ASSUME job[y].do = "DeleteArtist", s \in {"cascadeAlbums", "cascadeTracks"}
                 PROVE  Artist(job[y].artist) \in Doomed(y)
      OBVIOUS
    <2>1. PICK i \in 1 .. Len(Statements(job[y])) :
             s = Statements(job[y])[i] /\ Behind(job[y], i) \subseteq Done(y)
      BY <1>4
    <2>2. "deleteArtist" \in Done(y)
      BY <1>1, <2>1, OrderOfStatements
    <2>3. <<Artist(job[y].artist), "DEL">> \in Demand(y, "deleteArtist")
      BY DEF Demand
    <2> QED BY <1>5, <1>6, <2>2, <2>3 DEF Lasting
  <1>9. s \in {"cascadeAlbums", "cascadeTracks"} => job[y].do = "DeleteArtist"
    BY <1>1, <1>4, ListsOfStatements DEF JobOK
  <1>10. /\ d.do \in {"CreateAlbum", "CreateTrack"} => Artist(d.artist) \notin Doomed(y)
         /\ d.do = "CreateTrack" /\ d.album # None => Album(d.album) \notin Doomed(y)
         /\ d.do \in {"CreatePlaylist", "AddTrack"} => Track(d.track) \notin Doomed(y)
         /\ d.do = "CreatePlaylist" => Track(d.other) \notin Doomed(y)
         /\ d.do = "AddTrack" => Playlist(d.list) \notin Doomed(y)
    <2>1. d.do \in {"CreateAlbum", "CreateTrack"} => "refArtist" \in Listed(d)
      BY <1>1, ListsOfStatements
    <2>2. d.do = "CreateTrack" /\ d.album # None => "refAlbum" \in Listed(d)
      BY <1>1, ListsOfStatements
    <2>3. d.do \in {"CreatePlaylist", "AddTrack"} => "refTrack" \in Listed(d)
      BY <1>1, ListsOfStatements
    <2>4. d.do = "CreatePlaylist" => "refOther" \in Listed(d)
      BY <1>1, ListsOfStatements
    <2>5. d.do = "AddTrack" => "touch" \in Listed(d)
      BY <1>1, ListsOfStatements
    <2>6. /\ <<Artist(d.artist), "KS">> \in Demand(x, "refArtist")
          /\ <<Album(d.album), "KS">> \in Demand(x, "refAlbum")
          /\ <<Track(d.track), "KS">> \in Demand(x, "refTrack")
          /\ <<Track(d.other), "KS">> \in Demand(x, "refOther")
          /\ <<Playlist(d.list), "NKU">> \in Demand(x, "touch")
      BY DEF Demand, Reference
    <2> QED BY <2>1, <2>2, <2>3, <2>4, <2>5, <2>6, KeepsApart
  <1>11. d.do = "CreatePlaylist" => Playlist(d.list) \notin Doomed(y)
    <2>1. d.do = "CreatePlaylist" => d.list \notin LivePlaylists(cat)
      BY NewAtCommit
    <2> QED BY <1>1, <1>7, <2>1, RowsOf
  <1> HIDE DEF d, D, e
  <1>12. CASE s \in {"refArtist", "refAlbum", "refTrack", "refOther", "setFile", "touch",
                     "removeMember", "deleteTrack", "deletePlaylist", "deleteAlbum", "deleteArtist"}
    BY <1>1, <1>12 DEF Demand
  <1>13. CASE s = "cascadeAlbums"
    <2>1. ASSUME NEW b \in LiveAlbums(e), e.album[b] = job[y].artist
          PROVE  b \in LiveAlbums(cat) /\ cat.album[b] = job[y].artist
      <3>1. ~(d.do = "CreateAlbum" /\ b = d.album)
        BY <1>2, <1>8, <1>9, <1>10, <1>13, <2>1 DEF LiveAlbums
      <3> QED BY <1>2, <2>1, <3>1 DEF LiveAlbums
    <2>2. /\ Demand(y, s)' = {<<Album(b), "DEL">> : b \in {b \in LiveAlbums(e) : e.album[b] = job[y].artist}}
          /\ Demand(y, s) = {<<Album(b), "DEL">> : b \in {b \in LiveAlbums(cat) : cat.album[b] = job[y].artist}}
      BY <1>1, <1>13 DEF Demand, e
    <2> QED BY <2>1, <2>2
  <1>14. ASSUME NEW t \in LiveTracks(e), ~(d.do = "CreateTrack" /\ t = d.track)
         PROVE  /\ t \in LiveTracks(cat)
                /\ e.track[t].artist = cat.track[t].artist
                /\ e.track[t].album \in {cat.track[t].album, None}
    <2>1. t \in Tracks /\ e.track[t] # None
      BY DEF LiveTracks
    <2>2. e.track[t] = IF <<Track(t), "NULL">> \in held[x]
                       THEN [cat.track[t] EXCEPT !.album = None] ELSE cat.track[t]
      BY <1>2, <1>14, <2>1
    <2>3. t \in LiveTracks(cat) /\ cat.track[t] \in TrackRows
      BY <1>1, <1>2, <2>1, <2>2 DEF LiveTracks, Catalogue
    <2> QED BY <2>2, <2>3 DEF TrackRows
  <1>15. d.do = "CreateTrack" => e.track[d.track] \in {None, [artist |-> d.artist, album |-> d.album]}
    BY <1>1, <1>2 DEF JobOK
  <1>16. CASE s = "cascadeTracks"
    <2>1. ASSUME NEW t \in TracksBy(e, job[y].artist)
          PROVE  t \in TracksBy(cat, job[y].artist)
      <3>1. t \in LiveTracks(e) /\ e.track[t].artist = job[y].artist
        BY <2>1 DEF TracksBy
      <3>2. ~(d.do = "CreateTrack" /\ t = d.track)
        BY <1>8, <1>9, <1>10, <1>15, <1>16, <3>1 DEF LiveTracks
      <3> QED BY <1>14, <3>1, <3>2 DEF TracksBy
    <2>2. /\ Demand(y, s)' = {<<Track(t), "DEL">> : t \in TracksBy(e, job[y].artist)}
          /\ Demand(y, s) = {<<Track(t), "DEL">> : t \in TracksBy(cat, job[y].artist)}
      BY <1>1, <1>16 DEF Demand, e
    <2> QED BY <2>1, <2>2
  <1>17. CASE s = "clearAlbum"
    <2>1. Album(None) \notin Doomed(y)
      <3>1. None \notin LiveAlbums(cat)
        BY NoneIsNoRow DEF LiveAlbums
      <3> QED BY <1>1, <1>7, <3>1, RowsOf
    <2>2. ASSUME NEW t \in LiveTracks(e), Album(e.track[t].album) \in Doomed(y)
          PROVE  t \in LiveTracks(cat) /\ Album(cat.track[t].album) \in Doomed(y)
      <3>1. ~(d.do = "CreateTrack" /\ t = d.track)
        BY <1>10, <1>15, <2>1, <2>2 DEF LiveTracks
      <3> QED BY <1>14, <2>1, <2>2, <3>1
    <2>3. /\ Demand(y, s)' = {<<Track(t), "NULL">> : t \in {t \in LiveTracks(e) : Album(e.track[t].album) \in Doomed(y)'}}
          /\ Demand(y, s) = {<<Track(t), "NULL">> : t \in {t \in LiveTracks(cat) : Album(cat.track[t].album) \in Doomed(y)}}
      BY <1>17 DEF Demand, ClearAlbum, e
    <2> QED BY <1>3, <2>2, <2>3
  <1>18. CASE s = "cascadeMembers"
    <2>1. ASSUME NEW r \in Rows(e), r[1] = "member",
                 Playlist(r[2]) \in Doomed(y) \/ Track(r[3]) \in Doomed(y)
          PROVE  r \in Rows(cat)
      <3>1. PICK p \in Playlists, t \in Tracks :
               /\ r = Member(p, t) /\ r[2] = p /\ r[3] = t
               /\ p \in LivePlaylists(e) /\ t \in Members(e, p)
        BY <1>2, <2>1, RowsOf
      <3>2. t \in Joined(cat, d, p) /\ (p \in LivePlaylists(cat) \/ (d.do = "CreatePlaylist" /\ p = d.list))
        BY <1>2, <3>1
      <3>3. ~(d.do = "CreatePlaylist" /\ p = d.list)
        BY <1>10, <1>11, <2>1, <3>1, <3>2 DEF Joined
      <3>4. p \in LivePlaylists(cat) /\ t \in Members(cat, p)
        BY <1>10, <2>1, <3>1, <3>2, <3>3 DEF Joined
      <3> QED BY <1>1, <3>1, <3>4, RowsOf
    <2>2. /\ Demand(y, s)' = {<<r, "DEL">> : r \in {r \in Rows(e) : /\ r[1] = "member"
                                            /\ \/ Playlist(r[2]) \in Doomed(y)'
                                               \/ Track(r[3]) \in Doomed(y)'}}
          /\ Demand(y, s) = {<<r, "DEL">> : r \in {r \in Rows(cat) : /\ r[1] = "member"
                                            /\ \/ Playlist(r[2]) \in Doomed(y)
                                               \/ Track(r[3]) \in Doomed(y)}}
      BY <1>18 DEF Demand, CascadeMembers, e
    <2> QED BY <1>3, <2>1, <2>2
  <1> QED BY <1>12, <1>13, <1>16, <1>17, <1>18 DEF Lasting

LEMMA CommitAllLocked ==
  ASSUME RowInv, NEW x \in Requests, Commit(x)
  PROVE  AllLocked'
  <1>1. AllLocked /\ Others(x) /\ Ended(x)
    BY CommitStep DEF RowInv
  <1> DEFINE OK(y) == /\ \A s \in Done(y)' \cap Lasting : Demand(y, s)' \subseteq held'[y]
                      /\ \A s \in Current(y)' \cap Lasting :
                           Demand(y, s)' \subseteq held'[y] \cup want'[y]
  <1>2. SUFFICES \A y \in Requests : OK(y)
    BY DEF AllLocked
  <1>3. OK(x)
    BY <1>1 DEF Ended
  <1>4. ASSUME NEW y \in Requests \ {x}
        PROVE  OK(y)
    <2>1. \A s \in Lasting : s \in Done(y) \cup Current(y) => Demand(y, s)' \subseteq Demand(y, s)
      BY CommitDemand
    <2>2. /\ Done(y)' = Done(y) /\ Current(y)' = Current(y)
          /\ held'[y] = held[y] /\ want'[y] = want[y]
      BY <1>1, OthersSame
    <2> QED BY <1>1, <2>1, <2>2 DEF AllLocked
  <1> QED BY <1>3, <1>4

\* A track keeps its artist, and its album or none.
LEMMA CommitTracks ==
  ASSUME RowInv, NEW x \in Requests, Commit(x), NEW t \in LiveTracks(cat'),
         Track(t) \notin NewRows(job[x])
  PROVE  /\ t \in LiveTracks(cat) /\ cat'.track[t].artist = cat.track[t].artist
         /\ cat'.track[t].album \in {cat.track[t].album, None}
  <1>1. cat \in Catalogue /\ job[x] \in Jobs
    BY CommitStep DEF RowInv
  <1>2. ~(job[x].do = "CreateTrack" /\ t = job[x].track)
    BY <1>1, NewRowsAre
  <1>3. t \in Tracks /\ cat'.track[t] # None
    BY DEF LiveTracks
  <1>4. /\ cat'.track[t] = IF <<Track(t), "NULL">> \in held[x]
                           THEN [cat.track[t] EXCEPT !.album = None] ELSE cat.track[t]
        /\ <<Track(t), "NULL">> \in held[x] => t \in LiveTracks(cat)
    BY <1>2, <1>3, CommitMakes
  <1>5. t \in LiveTracks(cat) /\ cat.track[t] \in TrackRows
    BY <1>1, <1>3, <1>4 DEF LiveTracks, Catalogue
  <1> QED BY <1>4, <1>5 DEF TrackRows

LEMMA CommitOwnTracks ==
  ASSUME RowInv, NEW x \in Requests, Commit(x)
  PROVE  OwnTracks' /\ \A r : Settled(r) => Settled(r)'
  <1>1. OwnTracks /\ Others(x) /\ Ended(x) /\ job' = job /\ pc[x] = "running"
    BY CommitStep DEF RowInv
  <1>2. \A y \in Requests : pc'[y] # "ended" => pc[y] # "ended"
    BY <1>1, OthersSame
  <1>3. \A r : Settled(r) => Settled(r)' /\ r \notin NewRows(job[x])
    BY <1>1, <1>2 DEF Settled
  <1>4. ASSUME NEW y \in Requests, job[y].do = "DeleteArtist", NEW t \in Tracks,
               <<Track(t), "DEL">> \in held'[y] \cup want'[y]
        PROVE  /\ Settled(Track(t))'
               /\ t \in LiveTracks(cat') => cat'.track[t].artist = job[y].artist
    <2>1. y # x /\ <<Track(t), "DEL">> \in held[y] \cup want[y]
      BY <1>1, <1>4, OthersSame DEF Ended
    <2>2. Settled(Track(t)) /\ (t \in LiveTracks(cat) => cat.track[t].artist = job[y].artist)
      BY <1>1, <1>4, <2>1 DEF OwnTracks
    <2> QED BY <1>3, <2>2, CommitTracks
  <1> QED BY <1>1, <1>3, <1>4 DEF OwnTracks

-----------------------------------------------------------------------------
(***************************************************************************)
(* The invariant.                                                          *)
(***************************************************************************)
LEMMA RowInit == Init => RowInv
  <1> SUFFICES ASSUME Init
               PROVE  RowInv
    OBVIOUS
  <1>1. /\ cat \in Catalogue /\ Intact(cat)
        /\ job \in [Requests -> Jobs] /\ FreshIds(cat, job)
        /\ pc = [x \in Requests |-> "waiting"]
        /\ todo = [x \in Requests |-> <<>>] /\ want = [x \in Requests |-> {}]
        /\ at = [x \in Requests |-> None] /\ held = [x \in Requests |-> {}]
        /\ read = [x \in Requests |-> {}]
    BY DEF Init
  <1>2. JobsGiven /\ NotYetThere
    BY <1>1 DEF FreshIds, JobsGiven, NotYetThere
  <1>3. PoolRespected
    <2>1. Running = {}
      BY <1>1 DEF Running
    <2> QED BY <2>1, FS_EmptySet DEF PoolRespected
  <1>4. Standing
    <2>1. \A x \in Requests : \E i \in 1 .. Len(Statements(job[x])) + 1 : <<>> = From(job[x], i)
      <3> TAKE x \in Requests
      <3>1. job[x] \in Jobs
        BY <1>1
      <3>2. Len(Statements(job[x])) + 1 \in 1 .. Len(Statements(job[x])) + 1
        BY <3>1, ListsOfStatements
      <3> QED BY <3>1, <3>2, ToCome
    <2> QED BY <1>1, <2>1 DEF Standing, From
  <1>5. \A x \in Requests : Done(x) = {} /\ Current(x) = {}
    BY <1>1 DEF Done, Current
  <1>6. Asked /\ LocksGranted /\ AllLocked /\ OwnTracks
    BY <1>1, <1>5 DEF Asked, LocksGranted, AllLocked, OwnTracks
  <1> QED BY <1>1, <1>2, <1>3, <1>4, <1>6 DEF RowInv

LEMMA RowStep == RowInv /\ [Next]_vars => RowInv'
  <1> SUFFICES ASSUME RowInv, [Next]_vars
               PROVE  RowInv'
    OBVIOUS
  <1>1. CASE UNCHANGED vars
    <2>1. /\ cat' = cat /\ job' = job /\ pc' = pc /\ todo' = todo /\ want' = want /\ at' = at
          /\ held' = held /\ read' = read
      BY <1>1 DEF vars
    <2>2. (JobsGiven /\ PoolRespected /\ Standing /\ NotYetThere)'
      BY <2>1 DEF RowInv, JobsGiven, PoolRespected, Running, Standing, NotYetThere
    <2>3. \A x \in Requests : /\ Done(x)' = Done(x) /\ Current(x)' = Current(x)
                              /\ Doomed(x)' = Doomed(x)
      BY <2>1 DEF Done, Current, Doomed
    <2>4. \A x \in Requests : \A s \in Lasting : Demand(x, s)' = Demand(x, s)
      BY <2>1, <2>3, DemandSame
    <2>5. Asked'
      BY <2>1, <2>3 DEF RowInv, Asked
    <2>6. AllLocked'
      BY <2>1, <2>3, <2>4 DEF RowInv, AllLocked
    <2>7. LocksGranted'
      BY <2>1 DEF RowInv, LocksGranted, Blocks
    <2>8. OwnTracks'
      BY <2>1 DEF RowInv, OwnTracks, Settled
    <2> QED BY <2>1, <2>2, <2>5, <2>6, <2>7, <2>8 DEF RowInv
  <1>2. CASE Next
    <2>1. PoolRespected'
      BY <1>2, PoolMoves
    <2>2. ASSUME NEW x \in Requests, Moved(x)
          PROVE  RowInv'
      <3>1. cat' = cat /\ Standing' /\ cat \in Catalogue /\ Intact(cat)
        BY <2>2 DEF Moved, RowInv
      <3> QED BY <2>1, <2>2, <3>1, AskedMoves, GrantedMoves, NotYetMoves, AllLockedMoves,
                 OwnTracksMoves DEF RowInv
    <2>3. ASSUME NEW x \in Requests, Commit(x)
          PROVE  RowInv'
      <3>1. cat' \in Catalogue /\ Standing'
        BY <2>3, CommitMakes, CommitStep
      <3> QED BY <2>1, <2>3, <3>1, CommitIntact, CommitGranted, CommitNotYet, CommitAllLocked,
                 CommitOwnTracks DEF RowInv
    <2> QED BY <1>1, <1>2, <2>2, <2>3, MoveCases
  <1> QED BY <1>1, <1>2

LEMMA RowAlways == Spec => []RowInv
  BY RowInit, RowStep, PTL DEF Spec

\* The shapes of the schema hold, and no more requests run than the pool has
\* connections (database.go: SetMaxOpenConns).
THEOREM RowsTypeCorrect == Spec => []TypeOK
  <1>1. RowInv => TypeOK
    BY DEF RowInv, Standing, Locks, PoolRespected, TypeOK
  <1> QED BY <1>1, RowAlways, PTL

\* No row is left that refers to one that is gone, whatever creates and
\* deletes run at the same time: the locks that the foreign keys' checks take
\* keep the row that is referred to until the one that refers to it is there,
\* and the cascades find all that do.
THEOREM ReferencesStayIntact == Spec => []ReferencesIntact
  <1>1. RowInv => ReferencesIntact
    BY DEF RowInv, ReferencesIntact
  <1> QED BY <1>1, RowAlways, PTL

\* A track goes only with its own delete or with its artist's: the delete of
\* an album, or of the artist of an album it is on, leaves it
\* (ON DELETE SET NULL).
THEOREM TracksStay == Spec => TracksOutliveAlbums
  <1> DEFINE Stay ==
        \A t \in LiveTracks(cat) :
          cat'.track[t] = None =>
            \E x \in Requests :
              /\ pc[x] = "running" /\ pc'[x] = "ended"
              /\ \/ job[x].do = "DeleteTrack" /\ job[x].track = t
                 \/ job[x].do = "DeleteArtist" /\ job[x].artist = cat.track[t].artist
  <1>1. RowInv /\ [Next]_vars => [Stay]_vars
    <2> SUFFICES ASSUME RowInv, Next, NEW t \in LiveTracks(cat), cat'.track[t] = None
                 PROVE  \E x \in Requests :
                          /\ pc[x] = "running" /\ pc'[x] = "ended"
                          /\ \/ job[x].do = "DeleteTrack" /\ job[x].track = t
                             \/ job[x].do = "DeleteArtist" /\ job[x].artist = cat.track[t].artist
      OBVIOUS
    <2>1. t \in Tracks /\ cat.track[t] # None /\ cat \in Catalogue
      BY DEF LiveTracks, RowInv
    <2>2. cat' # cat
      BY <2>1
    <2>3. PICK x \in Requests : Commit(x)
      BY <2>2, MoveCases DEF Moved, vars
    <2>4. /\ pc[x] = "running" /\ pc'[x] = "ended" /\ job[x] \in Jobs
      BY <2>3, CommitStep DEF Ended
    <2>5. Track(t) \in Doomed(x)
      <3>1. SUFFICES ASSUME Track(t) \notin Doomed(x) PROVE FALSE
        OBVIOUS
      <3>2. Track(t) \in Rows(cat)
        BY <2>1, RowsOf
      <3>3. Track(t) \in Rows(cat') /\ cat' \in Catalogue
        BY <2>3, <3>1, <3>2, RowsAfter, CommitMakes
      <3>4. t \in LiveTracks(cat')
        BY <3>3, RowsOf
      <3> QED BY <3>4 DEF LiveTracks
    <2>6. JobsGiven /\ Standing /\ Asked /\ OwnTracks
      BY DEF RowInv
    <2>7. (job[x].do = "DeleteTrack" /\ t = job[x].track) \/ job[x].do = "DeleteArtist"
      BY <2>5, <2>6, WhoDooms
    <2>8. job[x].do = "DeleteArtist" => cat.track[t].artist = job[x].artist
      BY <2>1, <2>5, <2>6, DoomedHeld DEF OwnTracks
    <2> QED BY <2>4, <2>7, <2>8
  <1> QED BY <1>1, RowAlways, PTL DEF Spec, TracksOutliveAlbums

-----------------------------------------------------------------------------
(***************************************************************************)
(* The order of locks, when no track is put where it is being deleted.     *)
(***************************************************************************)
LEMMA QuietKept ==
  ASSUME RowInv, QuietRunning, QuietDeletes, Next
  PROVE  QuietRunning'
  <1>1. \A d : ~Disturbs(d, d)
    BY DEF Disturbs, Puts, Deletes
  <1>2. job' = job
    <2>1. ASSUME NEW x \in Requests, Moved(x)
          PROVE  job' = job
      BY <2>1 DEF Moved, Others
    <2> QED BY <2>1, MoveCases, CommitStep DEF vars
  <1>3. CASE Running' \subseteq Running
    BY <1>2, <1>3 DEF QuietRunning
  <1>4. ASSUME NEW x \in Requests, Begin(x), Running' = Running \cup {x}
        PROVE  QuietRunning'
    <2>1. \A y \in Running : ~Disturbs(job[x], job[y]) /\ ~Disturbs(job[y], job[x])
      BY <1>4 DEF Begin
    <2> QED BY <1>1, <1>2, <1>4, <2>1 DEF QuietRunning
  <1> QED BY <1>3, <1>4, RunningNext DEF RowInv

\* Who has something done or under way is running.
LEMMA BusyRuns ==
  ASSUME Standing, NEW x \in Requests, NEW s \in Done(x) \cup Current(x)
  PROVE  x \in Running
  BY StandingAll DEF StandsWell, Done, Current, Running

LEMMA ListsMoves ==
  ASSUME RowInv, ListsLocked, NEW x \in Requests, Moved(x)
  PROVE  ListsLocked'
  <1>1. /\ JobsGiven /\ Standing /\ cat \in Catalogue
        /\ Others(x) /\ job' = job /\ cat' = cat
    BY DEF RowInv, Moved, Others
  <1> DEFINE OK(y) ==
        /\ "lockPlaylists" \in Done(y)' => LockPlaylists(y) \subseteq held'[y]
        /\ "lockPlaylists" \in Current(y)' => LockPlaylists(y) \subseteq held'[y] \cup want'[y]
  <1>2. \A y \in Requests : LockPlaylists(y)' = LockPlaylists(y)
    BY <1>1 DEF LockPlaylists
  <1>3. SUFFICES \A y \in Requests : OK(y)
    BY <1>2 DEF ListsLocked
  <1>4. ASSUME NEW y \in Requests, y # x
        PROVE  OK(y)
    BY <1>1, <1>4, OthersSame DEF ListsLocked
  <1>5. /\ "lockPlaylists" \in Done(x) => LockPlaylists(x) \subseteq held[x]
        /\ "lockPlaylists" \in Current(x) => LockPlaylists(x) \subseteq held[x] \cup want[x]
    BY DEF ListsLocked
  <1>6. Demand(x, "lockPlaylists") = LockPlaylists(x)
    BY DEF Demand
  <1>7. ASSUME Rests(x)
        PROVE  OK(x)
    BY <1>7 DEF Rests
  <1>8. ASSUME NEW i, NEW s, Skips(x, i, s) \/ Starts(x, i, s)
        PROVE  OK(x)
    <2> HIDE DEF LockPlaylists
    <2> QED BY <1>5, <1>6, <1>8 DEF Skips, Starts
  <1>9. ASSUME NEW i, NEW s, NEW l \in Locks, Granted(x, i, s, l)
        PROVE  OK(x)
    <2>1. /\ Current(x) = {s} /\ l \in want[x]
          /\ held'[x] = IF l[1] \in Rows(cat) THEN held[x] \cup {l} ELSE held[x]
          /\ want'[x] = want[x] \ {l}
          /\ \/ want'[x] = {} /\ Done(x)' = Done(x) \cup {s} /\ Current(x)' = {}
             \/ Done(x)' = Done(x) /\ Current(x)' = {s}
      BY <1>9 DEF Granted
    <2>2. \A k \in LockPlaylists(x) : k[1] \in Rows(cat)
      BY <1>1, RowsOf DEF LockPlaylists, ListsWith
    <2> QED BY <1>5, <2>1, <2>2
  <1> HIDE DEF OK
  <1>10. OK(x)
    BY <1>7, <1>8, <1>9 DEF Moved
  <1> QED BY <1>4, <1>10

LEMMA ListsCommit ==
  ASSUME RowInv, QuietRunning, ListsLocked, NEW x \in Requests, Commit(x)
  PROVE  ListsLocked'
  <1>1. /\ JobsGiven /\ Standing /\ cat \in Catalogue /\ Others(x) /\ Ended(x)
        /\ pc[x] = "running" /\ job' = job
    BY CommitStep DEF RowInv
  <1> DEFINE OK(y) ==
        /\ "lockPlaylists" \in Done(y)' => LockPlaylists(y)' \subseteq held'[y]
        /\ "lockPlaylists" \in Current(y)' => LockPlaylists(y)' \subseteq held'[y] \cup want'[y]
  <1>2. OK(x)
    BY <1>1 DEF Ended
  <1>3. ASSUME NEW y \in Requests \ {x}
        PROVE  OK(y)
    <2>1. ASSUME "lockPlaylists" \in Done(y) \cup Current(y)
          PROVE  LockPlaylists(y)' \subseteq LockPlaylists(y)
      <3> DEFINE t == job[y].track
      <3>1. x \in Running /\ y \in Running
        BY <1>1, <2>1, BusyRuns DEF Running
      <3>2. job[y].do = "DeleteTrack" /\ t \in Tracks
        <4>1. "lockPlaylists" \in Listed(job[y]) /\ job[y] \in Jobs /\ JobOK(job[y])
          BY <1>1, <2>1, InSequence DEF JobsGiven
        <4>2. job[y].do = "DeleteTrack"
          BY <4>1, WhoseStatement
        <4> QED BY <4>1, <4>2 DEF JobOK
      <3>3. ~Puts(job[x], t)
        BY <3>1, <3>2 DEF QuietRunning, Disturbs, Deletes
      <3>4. ASSUME NEW p \in ListsWith(cat', t)
            PROVE  p \in ListsWith(cat, t)
        <4>1. p \in LivePlaylists(cat') /\ t \in Members(cat', p)
          BY DEF ListsWith
        <4>2. /\ p \in LivePlaylists(cat) \/ (job[x].do = "CreatePlaylist" /\ p = job[x].list)
              /\ t \in Joined(cat, job[x], p)
          <5>1. /\ \A q : q \in LivePlaylists(cat') <=>
                     /\ q \in LivePlaylists(cat) \/ (job[x].do = "CreatePlaylist" /\ q = job[x].list)
                     /\ Playlist(q) \notin Doomed(x)
                /\ \A q \in LivePlaylists(cat') : Members(cat', q) =
                     {u \in Joined(cat, job[x], q) : Member(q, u) \notin Doomed(x)}
            BY CommitMakes
          <5> HIDE DEF t
          <5> QED BY <4>1, <5>1
        <4>3. p \in LivePlaylists(cat) /\ t \in Members(cat, p)
          BY <3>3, <4>2 DEF Joined, Puts
        <4> QED BY <4>3 DEF ListsWith
      <3>5. /\ LockPlaylists(y) = {<<Playlist(p), "UPD">> : p \in ListsWith(cat, t)}
            /\ LockPlaylists(y)' = {<<Playlist(p), "UPD">> : p \in ListsWith(cat', t)}
        BY <1>1 DEF LockPlaylists
      <3> QED BY <3>4, <3>5
    <2>2. /\ Done(y)' = Done(y) /\ Current(y)' = Current(y)
          /\ held'[y] = held[y] /\ want'[y] = want[y]
      BY <1>1, OthersSame
    <2> QED BY <2>1, <2>2 DEF ListsLocked
  <1> QED BY <1>2, <1>3 DEF ListsLocked

LEMMA ReadsMoves ==
  ASSUME RowInv, ListsLocked, ReadsLocked, NEW x \in Requests, Moved(x)
  PROVE  ReadsLocked'
  <1>1. /\ JobsGiven /\ Standing /\ Asked /\ AllLocked /\ Others(x)
    BY DEF RowInv, Moved
  <1> DEFINE OK(y) ==
        \A p \in read'[y] : \E m \in {"NKU", "UPD"} : <<Playlist(p), m>> \in held'[y]
  <1>2. ASSUME NEW y \in Requests, y # x
        PROVE  OK(y)
    BY <1>1, <1>2, OthersSame DEF ReadsLocked
  <1>3. \A p \in read[x] : \E m \in {"NKU", "UPD"} : <<Playlist(p), m>> \in held[x]
    BY DEF ReadsLocked
  <1>4. ASSUME Rests(x)
        PROVE  OK(x)
    BY <1>4 DEF Rests
  <1>5. ASSUME NEW i, NEW s, Skips(x, i, s)
        PROVE  OK(x)
    <2>1. held'[x] = held[x] /\ InTurn(x, i, s)
          /\ read'[x] = IF s = "readMemberships" THEN ListsWith(cat, job[x].track) ELSE read[x]
      BY <1>5 DEF Skips
    <2>2. CASE s = "readMemberships"
      <3>1. Done(x) = {"lockPlaylists"}
        BY <1>1, <2>1, <2>2, InTurnListed, OrderOfStatements
      <3>2. LockPlaylists(x) \subseteq held[x]
        BY <3>1 DEF ListsLocked
      <3> QED BY <2>1, <2>2, <3>2 DEF LockPlaylists
    <2>3. CASE s # "readMemberships"
      BY <1>3, <2>1, <2>3
    <2> QED BY <2>2, <2>3
  <1>6. ASSUME NEW i, NEW s, Starts(x, i, s)
        PROVE  OK(x)
    BY <1>3, <1>6 DEF Starts
  <1>7. ASSUME NEW i, NEW s, NEW l \in Locks, Granted(x, i, s, l)
        PROVE  OK(x)
    <2>1. held[x] \subseteq held'[x] /\ InTurn(x, i, s)
          /\ read'[x] = IF s = "removeMember" THEN {job[x].list} ELSE read[x]
      BY <1>7 DEF Granted
    <2>2. CASE s = "removeMember"
      <3>1. Done(x) = {"touch"}
        BY <1>1, <2>1, <2>2, InTurnListed, OrderOfStatements
      <3>2. <<Playlist(job[x].list), "NKU">> \in held[x]
        BY <1>1, <3>1 DEF AllLocked, Lasting, Demand
      <3> QED BY <2>1, <2>2, <3>2
    <2>3. CASE s # "removeMember"
      BY <1>3, <2>1, <2>3
    <2> QED BY <2>2, <2>3
  <1> HIDE DEF OK
  <1>8. OK(x)
    BY <1>4, <1>5, <1>6, <1>7 DEF Moved
  <1>9. \A y \in Requests : OK(y)
    BY <1>2, <1>8
  <1> QED BY <1>9 DEF ReadsLocked, OK

\* Under which locks the memberships of a statement are found.
LEMMA MembersFound ==
  ASSUME RowInv, ListsLocked, ReadsLocked, NEW x \in Requests, job[x].do # "DeleteArtist",
         NEW i, NEW s, InTurn(x, i, s), NEW p \in Playlists, NEW t \in Tracks, NEW m \in Modes,
         <<Member(p, t), m>> \in Demand(x, s)
  PROVE  \E n \in {"NKU", "UPD", "DEL"} : <<Playlist(p), n>> \in held[x]
  <1> DEFINE d == job[x]
  <1>1. /\ JobsGiven /\ Standing /\ Asked /\ AllLocked /\ cat \in Catalogue /\ d \in Jobs
        /\ s \in Listed(d) /\ i \in 1 .. Len(Statements(d)) /\ s = Statements(d)[i]
        /\ Done(x) = Behind(d, i)
    BY InTurnListed DEF RowInv
  <1>2. <<Member(p, t), m>> \in Asks(d, s)
    BY <1>1, DemandIsAsked
  <1>3. s \in {"removeMember", "renumber", "cascadeMembers"}
    <2>1. s \in {"refArtist", "refAlbum", "refTrack", "refOther", "setFile", "touch",
                 "removeMember", "renumber", "lockPlaylists", "readMemberships", "deleteTrack",
                 "deletePlaylist", "deleteAlbum", "clearAlbum", "cascadeMembers"}
      BY <1>1, ListsOfStatements DEF JobOK
    <2>2. CASE s \in {"refArtist", "refAlbum", "refTrack", "refOther", "setFile", "touch"}
      BY <1>2, <2>2 DEF Asks, Reference, Member, Artist, Album, Track, Playlist
    <2>3. CASE s \in {"lockPlaylists", "readMemberships", "deleteTrack", "deletePlaylist",
                      "deleteAlbum", "clearAlbum"}
      BY <1>2, <2>3 DEF Asks, Member, Album, Track, Playlist
    <2> QED BY <2>1, <2>2, <2>3
  <1>4. CASE s = "removeMember"
    <2>1. p = d.list
      BY <1>2, <1>4 DEF Asks, Member
    <2>2. "touch" \in Done(x)
      <3>1. Behind(d, i) = {"touch"}
        BY <1>1, <1>4, OrderOfStatements
      <3> QED BY <1>1, <3>1
    <2>3. <<Playlist(d.list), "NKU">> \in held[x]
      BY <1>1, <2>2 DEF AllLocked, Lasting, Demand
    <2> QED BY <2>1, <2>3
  <1>5. CASE s = "renumber"
    <2>1. Demand(x, s) = Renumber(x)
      BY <1>5 DEF Demand
    <2>2. PICK q \in read[x] \cap LivePlaylists(cat) :
            <<Member(p, t), m>> \in {<<Member(q, u), "UPD">> : u \in Later(cat, q, d.track)}
      BY <2>1 DEF Renumber
    <2>3. p = q
      BY <2>2 DEF Member
    <2> QED BY <2>2, <2>3 DEF ReadsLocked
  <1>6. CASE s = "cascadeMembers"
    <2>1. /\ Member(p, t) \in Rows(cat)
          /\ Playlist(p) \in Doomed(x) \/ Track(t) \in Doomed(x)
      BY <1>6, RowParts DEF Demand, CascadeMembers
    <2>2. CASE Playlist(p) \in Doomed(x)
      BY <1>1, <2>2, DoomedHeld
    <2>3. CASE Track(t) \in Doomed(x)
      <3>1. d.do = "DeleteTrack" /\ t = d.track
        BY <1>1, <2>3, WhoDooms
      <3>2. "lockPlaylists" \in Done(x)
        <4>1. Behind(d, i) = {"lockPlaylists", "readMemberships", "deleteTrack"}
          BY <1>1, <1>6, <3>1, OrderOfStatements
        <4> QED BY <1>1, <4>1
      <3>3. p \in ListsWith(cat, d.track)
        BY <1>1, <2>1, <3>1, RowsOf DEF ListsWith
      <3>4. <<Playlist(p), "UPD">> \in LockPlaylists(x)
        BY <3>3 DEF LockPlaylists
      <3> QED BY <3>2, <3>4 DEF ListsLocked
    <2> QED BY <2>1, <2>2, <2>3
  <1> QED BY <1>3, <1>4, <1>5, <1>6

LEMMA MembersMoves ==
  ASSUME RowInv, ListsLocked, ReadsLocked, MembersUnder, NEW x \in Requests, Moved(x)
  PROVE  MembersUnder'
  <1>1. Others(x) /\ job' = job
    BY DEF Moved, Others
  <1>2. SUFFICES ASSUME NEW y \in Requests, job[y].do # "DeleteArtist", NEW p \in Playlists,
                        NEW t \in Tracks, NEW m \in Modes,
                        <<Member(p, t), m>> \in held'[y] \cup want'[y]
                 PROVE  \E n \in {"NKU", "UPD", "DEL"} : <<Playlist(p), n>> \in held'[y]
    BY <1>1 DEF MembersUnder
  <1>3. CASE <<Member(p, t), m>> \in held[y] \cup want[y] /\ held[y] \subseteq held'[y]
    <2>1. PICK n \in {"NKU", "UPD", "DEL"} : <<Playlist(p), n>> \in held[y]
      BY <1>2, <1>3 DEF MembersUnder
    <2> QED BY <1>3, <2>1
  <1>4. CASE ~(<<Member(p, t), m>> \in held[y] \cup want[y] /\ held[y] \subseteq held'[y])
    <2>1. y = x
      BY <1>1, <1>2, <1>4, OthersSame
    <2>2. PICK i, s : Starts(x, i, s)
      BY <1>2, <1>4, <2>1 DEF Moved, Rests, Skips, Granted
    <2>3. InTurn(x, i, s) /\ held'[x] = held[x] /\ want'[x] = Demand(x, s)
      BY <2>2 DEF Starts
    <2>4. <<Member(p, t), m>> \in Demand(x, s)
      BY <1>2, <1>4, <2>1, <2>3
    <2>5. \E n \in {"NKU", "UPD", "DEL"} : <<Playlist(p), n>> \in held[x]
      BY <1>2, <2>1, <2>3, <2>4, MembersFound
    <2> QED BY <2>1, <2>3, <2>5
  <1> QED BY <1>3, <1>4

LEMMA OrderMoves ==
  ASSUME RowInv, InOrder, NEW x \in Requests, Moved(x)
  PROVE  InOrder'
  <1>1. JobsGiven /\ Standing /\ Asked /\ cat \in Catalogue /\ Others(x)
    BY DEF RowInv, Moved
  <1> DEFINE OK(y) == "lockPlaylists" \in Current(y)' =>
        \A l \in want'[y] :
            /\ at'[y][1][2] <= l[1][2]
            /\ \A k \in held'[y] : k[1][2] < l[1][2]
  <1>2. ASSUME NEW y \in Requests, y # x
        PROVE  OK(y)
    BY <1>1, <1>2, OthersSame DEF InOrder
  <1>3. \A L, l : l \in First("lockPlaylists", L) => \A k \in L : l[1][2] <= k[1][2]
    BY DEF First
  <1>4. ASSUME Rests(x)
        PROVE  OK(x)
    BY <1>4 DEF Rests
  <1>5. ASSUME NEW i, NEW s, Skips(x, i, s)
        PROVE  OK(x)
    BY <1>5 DEF Skips
  <1>6. ASSUME NEW i, NEW s, Starts(x, i, s)
        PROVE  OK(x)
    <2> SUFFICES ASSUME s = "lockPlaylists" PROVE OK(x)
      BY <1>6 DEF Starts
    <2>1. Done(x) = {} /\ Current(x) = {}
      BY <1>1, <1>6, InTurnListed, OrderOfStatements DEF Starts
    <2>2. held'[x] = {}
      BY <1>1, <1>6, <2>1 DEF Starts, Asked
    <2>3. \A l \in want'[x] : at'[x][1][2] <= l[1][2]
      BY <1>3, <1>6 DEF Starts
    <2> QED BY <2>2, <2>3
  <1>7. ASSUME NEW i, NEW s, NEW l \in Locks, Granted(x, i, s, l)
        PROVE  OK(x)
    <2> SUFFICES ASSUME s = "lockPlaylists", Current(x)' = {s} PROVE OK(x)
      BY <1>7 DEF Granted
    <2>1. /\ Current(x) = {"lockPlaylists"} /\ l = at[x] /\ l \in want[x]
          /\ held'[x] \subseteq held[x] \cup {l} /\ want'[x] = want[x] \ {l}
          /\ at'[x] \in First("lockPlaylists", want'[x])
      BY <1>7 DEF Granted
    <2>2. \A k \in want[x] : /\ l[1][2] <= k[1][2]
                             /\ \A h \in held[x] : h[1][2] < k[1][2]
      BY <2>1 DEF InOrder
    <2>3. \A k \in want[x] : \E p \in Playlists : k = <<Playlist(p), "UPD">> /\ k[1][2] = p
      <3> TAKE k \in want[x]
      <3>1. k \in Asks(job[x], "lockPlaylists")
        BY <1>1, <2>1 DEF Asked
      <3>2. PICK p \in Playlists : k = <<Playlist(p), "UPD">>
        BY <3>1 DEF Asks
      <3> QED BY <3>2, RowParts
    <2>4. \A k \in want'[x] : l[1][2] < k[1][2]
      <3> TAKE k \in want'[x]
      <3>1. k \in want[x] /\ k # l
        BY <2>1
      <3>2. PICK p \in Playlists : k = <<Playlist(p), "UPD">> /\ k[1][2] = p
        BY <2>3, <3>1
      <3>3. PICK q \in Playlists : l = <<Playlist(q), "UPD">> /\ l[1][2] = q
        BY <2>1, <2>3
      <3>4. p # q /\ p \in Nat /\ q \in Nat /\ q <= p
        BY <2>2, <3>1, <3>2, <3>3
      <3> QED BY <3>2, <3>3, <3>4
    <2>5. \A k \in want'[x] : at'[x][1][2] <= k[1][2]
      BY <1>3, <2>1
    <2> QED BY <2>1, <2>2, <2>4, <2>5
  <1> HIDE DEF OK
  <1>8. OK(x)
    BY <1>4, <1>5, <1>6, <1>7 DEF Moved
  <1>9. \A y \in Requests : OK(y)
    BY <1>2, <1>8
  <1> QED BY <1>9 DEF InOrder, OK

\* The tracks that an album's delete finds are on the album, which is doomed.
LEMMA ClearedIsOn ==
  ASSUME RowInv, NEW x \in Requests, job[x].do = "DeleteAlbum", NEW i, NEW s, InTurn(x, i, s),
         NEW t \in Tracks, <<Track(t), "NULL">> \in Demand(x, s)
  PROVE  /\ t \in LiveTracks(cat) /\ Settled(Track(t))
         /\ cat.track[t].album = job[x].album /\ Album(job[x].album) \in Doomed(x)
  <1>1. /\ JobsGiven /\ Standing /\ Asked /\ cat \in Catalogue /\ NotYetThere
        /\ s \in Listed(job[x]) /\ job[x] \in Jobs
    BY InTurnListed DEF RowInv
  <1>2. <<Track(t), "NULL">> \in Asks(job[x], s)
    BY <1>1, DemandIsAsked
  <1>3. s = "clearAlbum"
    <2>1. <<Track(t), "NULL">>[2] = "NULL"
      OBVIOUS
    <2> QED BY <1>1, <1>2, <2>1, WhoAsks
  <1>4. t \in LiveTracks(cat) /\ Album(cat.track[t].album) \in Doomed(x)
    BY <1>3, RowNames DEF Demand, ClearAlbum
  <1>5. cat.track[t].album = job[x].album
    BY <1>1, <1>4, WhoDooms
  <1>6. Track(t) \in Rows(cat)
    BY <1>1, <1>4, RowsOf
  <1> QED BY <1>1, <1>4, <1>5, <1>6 DEF NotYetThere, Settled

\* A delete that is at the tracks of its album has the album.
LEMMA AlbumFirst ==
  ASSUME RowInv, NEW x \in Requests, job[x].do = "DeleteAlbum", NEW t \in Tracks,
         <<Track(t), "NULL">> \in held[x] \cup want[x]
  PROVE  <<Album(job[x].album), "DEL">> \in held[x]
  <1>1. JobsGiven /\ Standing /\ Asked /\ AllLocked /\ job[x] \in Jobs
    BY DEF RowInv, JobsGiven
  <1>2. PICK s \in Listed(job[x]) :
          s \in Done(x) \cup Current(x) /\ <<Track(t), "NULL">> \in Asks(job[x], s)
    BY <1>1, HeldIsAsked
  <1>3. s = "clearAlbum"
    <2>1. <<Track(t), "NULL">>[2] = "NULL"
      OBVIOUS
    <2> QED BY <1>1, <1>2, <2>1, WhoAsks
  <1>4. PICK i \in 1 .. Len(Statements(job[x])) :
          s = Statements(job[x])[i] /\ Behind(job[x], i) \subseteq Done(x)
    BY <1>1, <1>2, InSequence
  <1>5. Behind(job[x], i) = {"deleteAlbum"}
    BY <1>1, <1>3, <1>4, OrderOfStatements
  <1>6. "deleteAlbum" \in Done(x) \cap Lasting
    BY <1>4, <1>5 DEF Lasting
  <1> QED BY <1>1, <1>6 DEF AllLocked, Demand

LEMMA AlbumMoves ==
  ASSUME RowInv, OnItsAlbum, NEW x \in Requests, Moved(x)
  PROVE  OnItsAlbum'
  <1>1. /\ Others(x) /\ job' = job /\ cat' = cat /\ Standing /\ LocksGranted /\ Standing'
        /\ cat \in Catalogue
    BY DEF RowInv, Moved, Others
  <1>2. \A y \in Requests : pc'[y] # "ended" => pc[y] # "ended"
    BY <1>1, OthersSame DEF Moved
  <1>3. \A r : Settled(r) => Settled(r)'
    BY <1>1, <1>2 DEF Settled
  <1> DEFINE Has(y, t) == <<Track(t), "NULL">> \in held[y] \cup want[y]
  \* What is new is found by a statement that starts.
  <1>4. ASSUME NEW y \in Requests, job[y].do = "DeleteAlbum", NEW t \in Tracks, Has(y, t)', ~Has(y, t)
        PROVE  /\ y = x /\ t \in LiveTracks(cat) /\ Settled(Track(t))
               /\ cat.track[t].album = job[y].album /\ Album(job[y].album) \in Doomed(y)
    <2>1. y = x
      BY <1>1, <1>4, OthersSame
    <2>2. PICK i, s : Starts(x, i, s)
      BY <1>4, <2>1 DEF Moved, Rests, Skips, Granted
    <2>3. InTurn(x, i, s) /\ <<Track(t), "NULL">> \in Demand(x, s)
      BY <1>4, <2>1, <2>2 DEF Starts
    <2> QED BY <1>4, <2>1, <2>3, ClearedIsOn
  <1>5. ASSUME NEW y \in Requests, job[y].do = "DeleteAlbum", NEW t \in Tracks, Has(y, t)
        PROVE  /\ Settled(Track(t))
               /\ t \in LiveTracks(cat) => cat.track[t].album \in {job[y].album, None}
    BY <1>5 DEF OnItsAlbum
  <1>6. ASSUME NEW y \in Requests, job[y].do = "DeleteAlbum", NEW t \in Tracks, Has(y, t)'
        PROVE  /\ Settled(Track(t))'
               /\ t \in LiveTracks(cat') => cat'.track[t].album \in {job'[y].album, None}
    <2> HIDE DEF Has
    <2> QED BY <1>1, <1>3, <1>4, <1>5, <1>6
  \* Two deletes of the same album exclude each other.
  <1>7. ASSUME NEW y \in Requests, NEW z \in Requests, y # z, job[y].do = "DeleteAlbum",
               job[z].do = "DeleteAlbum", NEW t \in LiveTracks(cat), Has(y, t)', ~Has(y, t), Has(z, t)
        PROVE  FALSE
    <2>1. t \in Tracks
      BY DEF LiveTracks
    <2>2. cat.track[t].album = job[y].album /\ Album(job[y].album) \in Doomed(y)
      BY <1>4, <1>7, <2>1
    <2>3. <<Album(job[y].album), "DEL">> \in held[y] /\ <<Album(job[z].album), "DEL">> \in held[z]
      BY <1>1, <1>7, <2>1, <2>2, AlbumFirst, DoomedHeld
    <2>4. job[y].album \in Albums
      <3>1. Album(job[y].album) \in Rows(cat)
        BY <1>1, <2>3 DEF LocksGranted
      <3> QED BY <1>1, <3>1, RowsOf DEF LiveAlbums
    <2>5. job[z].album = job[y].album
      BY <1>5, <1>7, <2>1, <2>2, <2>4, NoneIsNoRow
    <2>6. Blocks(z, <<Album(job[y].album), "DEL">>)
      BY <2>3, <2>5 DEF Blocks, Conflict, Strength
    <2> QED BY <1>1, <1>7, <2>3, <2>6 DEF LocksGranted
  <1>8. ASSUME NEW y \in Requests, NEW z \in Requests, y # z, job[y].do = "DeleteAlbum",
               job[z].do = "DeleteAlbum", NEW t \in LiveTracks(cat), Has(y, t)', Has(z, t)'
        PROVE  FALSE
    <2>1. t \in Tracks
      BY DEF LiveTracks
    <2>2. ~(Has(y, t) /\ Has(z, t))
      BY <1>8 DEF OnItsAlbum
    <2> HIDE DEF Has
    <2>3. Has(y, t) \/ Has(z, t)
      BY <1>4, <1>8, <2>1
    <2> QED BY <1>7, <1>8, <2>2, <2>3
  <1> QED BY <1>1, <1>6, <1>8 DEF OnItsAlbum

LEMMA OthersCommit ==
  ASSUME RowInv, ReadsLocked, MembersUnder, InOrder, OnItsAlbum, NEW x \in Requests, Commit(x)
  PROVE  ReadsLocked' /\ MembersUnder' /\ InOrder' /\ OnItsAlbum'
  <1>1. Others(x) /\ Ended(x) /\ job' = job
    BY CommitStep
  <1>2. held'[x] = {} /\ want'[x] = {} /\ read'[x] = {} /\ Current(x)' = {}
    BY <1>1 DEF Ended
  <1>3. \A y \in Requests \ {x} : /\ held'[y] = held[y] /\ want'[y] = want[y] /\ at'[y] = at[y]
                                  /\ read'[y] = read[y] /\ Current(y)' = Current(y)
    BY <1>1, OthersSame
  <1>4. ReadsLocked'
    <2> SUFFICES ASSUME NEW y \in Requests, NEW p \in read'[y]
                 PROVE  \E m \in {"NKU", "UPD"} : <<Playlist(p), m>> \in held'[y]
      BY DEF ReadsLocked
    <2> QED BY <1>2, <1>3 DEF ReadsLocked
  <1>5. MembersUnder'
    <2> SUFFICES ASSUME NEW y \in Requests, job[y].do # "DeleteArtist", NEW p \in Playlists,
                        NEW t \in Tracks, NEW m \in Modes,
                        <<Member(p, t), m>> \in held'[y] \cup want'[y]
                 PROVE  \E n \in {"NKU", "UPD", "DEL"} : <<Playlist(p), n>> \in held'[y]
      BY <1>1 DEF MembersUnder
    <2>1. y # x /\ <<Member(p, t), m>> \in held[y] \cup want[y]
      BY <1>2, <1>3
    <2>2. PICK n \in {"NKU", "UPD", "DEL"} : <<Playlist(p), n>> \in held[y]
      BY <2>1 DEF MembersUnder
    <2> QED BY <1>3, <2>1, <2>2
  <1>6. InOrder'
    <2> SUFFICES ASSUME NEW y \in Requests, "lockPlaylists" \in Current(y)'
                 PROVE  \A l \in want'[y] : /\ at'[y][1][2] <= l[1][2]
                                            /\ \A k \in held'[y] : k[1][2] < l[1][2]
      BY DEF InOrder
    <2>1. y # x
      BY <1>2
    <2> QED BY <1>3, <2>1 DEF InOrder
  <1>7. OnItsAlbum'
    <2>1. \A r : Settled(r) => Settled(r)'
      BY CommitOwnTracks
    <2>2. \A r : Settled(r) => r \notin NewRows(job[x])
      BY CommitStep DEF Settled
    <2>3. ASSUME NEW y \in Requests, job[y].do = "DeleteAlbum", NEW t \in Tracks,
                 <<Track(t), "NULL">> \in held'[y] \cup want'[y]
          PROVE  /\ Settled(Track(t))
                 /\ t \in LiveTracks(cat') => t \in LiveTracks(cat)
                 /\ t \in LiveTracks(cat') => cat'.track[t].album \in {job[y].album, None}
      <3>1. y # x /\ <<Track(t), "NULL">> \in held[y] \cup want[y]
        BY <1>2, <1>3, <2>3
      <3>2. /\ Settled(Track(t))
            /\ t \in LiveTracks(cat) => cat.track[t].album \in {job[y].album, None}
        BY <2>3, <3>1 DEF OnItsAlbum
      <3> QED BY <2>2, <3>2, CommitTracks
    <2>4. ASSUME NEW y \in Requests, NEW z \in Requests, y # z, job[y].do = "DeleteAlbum",
                 job[z].do = "DeleteAlbum", NEW t \in LiveTracks(cat'),
                 <<Track(t), "NULL">> \in held'[y] \cup want'[y],
                 <<Track(t), "NULL">> \in held'[z] \cup want'[z]
          PROVE  FALSE
      <3>1. t \in Tracks
        BY DEF LiveTracks
      <3>2. t \in LiveTracks(cat)
        BY <2>3, <2>4, <3>1
      <3>3. y # x /\ z # x
        BY <1>2, <2>4
      <3>4. /\ <<Track(t), "NULL">> \in held[y] \cup want[y]
            /\ <<Track(t), "NULL">> \in held[z] \cup want[z]
        BY <1>3, <2>4, <3>3
      <3> QED BY <2>4, <3>2, <3>4 DEF OnItsAlbum
    <2> QED BY <1>1, <2>1, <2>3, <2>4 DEF OnItsAlbum
  <1> QED BY <1>4, <1>5, <1>6, <1>7

LEMMA OrderInit == Init => OrderInv
  <1> SUFFICES ASSUME Init
               PROVE  OrderInv
    OBVIOUS
  <1>1. /\ pc = [x \in Requests |-> "waiting"] /\ want = [x \in Requests |-> {}]
        /\ at = [x \in Requests |-> None] /\ held = [x \in Requests |-> {}]
        /\ read = [x \in Requests |-> {}]
    BY DEF Init
  <1>2. Running = {} /\ \A x \in Requests : Done(x) = {} /\ Current(x) = {}
    BY <1>1 DEF Running, Done, Current
  <1> QED BY <1>1, <1>2 DEF OrderInv, QuietRunning, ListsLocked, ReadsLocked, MembersUnder, InOrder,
                            OnItsAlbum

LEMMA OrderStep ==
  ASSUME QuietDeletes
  PROVE  RowInv /\ OrderInv /\ [Next]_vars => OrderInv'
  <1> SUFFICES ASSUME RowInv, OrderInv, [Next]_vars
               PROVE  OrderInv'
    OBVIOUS
  <1>1. CASE UNCHANGED vars
    <2>1. /\ cat' = cat /\ job' = job /\ pc' = pc /\ todo' = todo /\ want' = want /\ at' = at
          /\ held' = held /\ read' = read
      BY <1>1 DEF vars
    <2>2. Running' = Running /\ \A x \in Requests : Done(x)' = Done(x) /\ Current(x)' = Current(x)
      BY <2>1 DEF Running, Done, Current
    <2>3. QuietRunning'
      BY <2>1, <2>2 DEF OrderInv, QuietRunning
    <2>4. ListsLocked'
      BY <2>1, <2>2 DEF OrderInv, ListsLocked, LockPlaylists
    <2>5. ReadsLocked'
      BY <2>1 DEF OrderInv, ReadsLocked
    <2>6. MembersUnder'
      BY <2>1 DEF OrderInv, MembersUnder
    <2>7. InOrder'
      BY <2>1, <2>2 DEF OrderInv, InOrder
    <2>8. OnItsAlbum'
      BY <2>1 DEF OrderInv, OnItsAlbum, Settled
    <2> QED BY <2>3, <2>4, <2>5, <2>6, <2>7, <2>8 DEF OrderInv
  <1>2. CASE Next
    <2>1. QuietRunning'
      BY <1>2, QuietKept DEF OrderInv
    <2>2. ASSUME NEW x \in Requests, Moved(x)
          PROVE  OrderInv'
      BY <2>1, <2>2, ListsMoves, ReadsMoves, MembersMoves, OrderMoves, AlbumMoves DEF OrderInv
    <2>3. ASSUME NEW x \in Requests, Commit(x)
          PROVE  OrderInv'
      BY <2>1, <2>3, ListsCommit, OthersCommit DEF OrderInv
    <2> QED BY <1>1, <1>2, <2>2, <2>3, MoveCases
  <1> QED BY <1>1, <1>2

LEMMA OrderAlways == ASSUME QuietDeletes PROVE Spec => [](RowInv /\ OrderInv)
  BY RowInit, RowStep, OrderInit, OrderStep, PTL DEF Spec

-----------------------------------------------------------------------------
(***************************************************************************)
(* Deadlocks.                                                              *)
(***************************************************************************)
\* Locks on rows other than artists and memberships.
Plain(l) == (\A a : l[1] # Artist(a)) /\ \A p, t : l[1] # Member(p, t)

\* The locks of a statement, unless an artist is deleted.
LEMMA LocksOf ==
  ASSUME NEW d \in Jobs, d.do # "DeleteArtist", NEW s \in Listed(d), NEW l \in Asks(d, s)
  PROVE  /\ \A a : l[1] = Artist(a) => l[2] = "KS"
         /\ Plain(l) =>
              \/ s \in {"refAlbum", "setFile", "touch", "deletePlaylist", "deleteAlbum",
                        "deleteTrack", "refTrack", "refOther"}
              \/ s \in {"lockPlaylists", "clearAlbum"}
  <1>1. \/ s \in {"refArtist", "refAlbum", "refTrack", "refOther", "setFile", "touch"}
        \/ s \in {"removeMember", "renumber", "cascadeMembers"}
        \/ s \in {"readMemberships", "lockPlaylists", "deleteTrack", "deletePlaylist",
                  "deleteAlbum", "clearAlbum"}
    BY ListsOfStatements DEF JobOK
  <1>2. CASE s \in {"removeMember", "renumber", "cascadeMembers"}
    <2>1. \E p, t, m : l = <<Member(p, t), m>>
      BY <1>2 DEF Asks
    <2>2. PICK p, t : l[1] = Member(p, t)
      BY <2>1
    <2> QED BY <2>2, RowNames DEF Plain
  <1>3. CASE s = "refArtist"
    <2>1. l = <<Artist(d.artist), "KS">>
      BY <1>3 DEF Asks, Reference
    <2>2. l[1] = Artist(d.artist) /\ l[2] = "KS"
      BY <2>1
    <2> QED BY <2>2 DEF Plain
  <1>4. CASE s \in {"refAlbum", "refTrack", "refOther", "setFile", "touch"}
    <2>1. \E v, m : l = <<Album(v), m>> \/ l = <<Track(v), m>> \/ l = <<Playlist(v), m>>
      BY <1>4 DEF Asks, Reference
    <2>2. \E v : l[1] = Album(v) \/ l[1] = Track(v) \/ l[1] = Playlist(v)
      BY <2>1
    <2> QED BY <1>4, <2>2, RowNames
  <1>5. CASE s \in {"readMemberships", "lockPlaylists", "deleteTrack", "deletePlaylist",
                    "deleteAlbum", "clearAlbum"}
    <2>1. \E v, m : l = <<Album(v), m>> \/ l = <<Track(v), m>> \/ l = <<Playlist(v), m>>
      BY <1>5 DEF Asks
    <2>2. \E v : l[1] = Album(v) \/ l[1] = Track(v) \/ l[1] = Playlist(v)
      BY <2>1
    <2>3. s # "readMemberships"
      BY DEF Asks
    <2> QED BY <1>5, <2>2, <2>3, RowNames
  <1> QED BY <1>1, <1>2, <1>3, <1>4, <1>5

\* What a request can have, and what it can still wait for.
LEMMA WaitsAndHolds ==
  ASSUME JobsGiven, Standing, Asked, NEW y \in Requests, job[y].do # "DeleteArtist",
         at[y] # None, at[y] \notin held[y], Plain(at[y]), NEW k \in held[y], Plain(k)
  PROVE  \/ /\ \E t : at[y] = <<Track(t), "KS">>
            /\ \/ \E t : k = <<Track(t), "KS">>
               \/ \E p : k = <<Playlist(p), "NKU">>
         \/ /\ job[y].do = "DeleteAlbum" /\ \E t \in Tracks : at[y] = <<Track(t), "NULL">>
            /\ \/ \E b : k = <<Album(b), "DEL">>
               \/ \E t : k = <<Track(t), "NULL">>
         \/ /\ \E p : k = <<Playlist(p), "UPD">>
            /\ \/ \E t : at[y] = <<Track(t), "DEL">>
               \/ Current(y) = {"lockPlaylists"}
  <1> DEFINE d == job[y]
             Goal ==
         \/ /\ \E t : at[y] = <<Track(t), "KS">>
            /\ \/ \E t : k = <<Track(t), "KS">>
               \/ \E p : k = <<Playlist(p), "NKU">>
         \/ /\ d.do = "DeleteAlbum" /\ \E t \in Tracks : at[y] = <<Track(t), "NULL">>
            /\ \/ \E b : k = <<Album(b), "DEL">>
               \/ \E t : k = <<Track(t), "NULL">>
         \/ /\ \E p : k = <<Playlist(p), "UPD">>
            /\ \/ \E t : at[y] = <<Track(t), "DEL">>
               \/ Current(y) = {"lockPlaylists"}
  <1> SUFFICES Goal
    OBVIOUS
  <1> HIDE DEF Goal
  <1>1. d \in Jobs /\ at[y] \in want[y]
    BY StandingAll DEF JobsGiven, StandsWell
  <1>2. PICK i \in 1 .. Len(Statements(d)), s \in Listed(d) :
          /\ Current(y) = {s} /\ s = Statements(d)[i] /\ Done(y) = Behind(d, i)
    <2>1. pc[y] = "running" /\ todo[y] # <<>>
      BY StandingAll DEF StandsWell
    <2>2. Current(y) = {Head(todo[y])}
      BY DEF Current
    <2> QED BY <2>1, <2>2, Turn DEF InTurn
  <1>3. at[y] \in Asks(d, s)
    BY <1>1, <1>2 DEF Asked
  <1>4. PICK r \in Listed(d) : r \in Behind(d, i) \cup {s} /\ k \in Asks(d, r)
    BY <1>2, HeldIsAsked
  <1>5. CASE s \in {"refAlbum", "setFile", "touch", "deletePlaylist", "deleteAlbum",
                    "deleteTrack", "refTrack", "refOther"}
    <2>1. Asks(d, s) = {at[y]}
      <3>1. CASE s \in {"refAlbum", "refTrack", "refOther", "setFile", "touch"}
        <4>1. \A l \in Asks(d, s), m \in Asks(d, s) : l = m
          BY <3>1 DEF Asks, Reference
        <4> QED BY <1>3, <4>1
      <3>2. CASE s \in {"deletePlaylist", "deleteAlbum", "deleteTrack"}
        <4>1. \A l \in Asks(d, s), m \in Asks(d, s) : l = m
          BY <3>2 DEF Asks
        <4> QED BY <1>3, <4>1
      <3> QED BY <1>5, <3>1, <3>2
    <2>2. r # s /\ r \in Behind(d, i)
      BY <1>4, <2>1
    <2>3. CASE s = "refAlbum"
      <3>1. r = "refArtist"
        <4>1. Behind(d, i) = {"refArtist"}
          BY <1>1, <1>2, <2>3, OrderOfStatements
        <4> QED BY <2>2, <4>1
      <3>2. k[1] = Artist(d.artist)
        BY <1>4, <3>1 DEF Asks, Reference
      <3> QED BY <3>2 DEF Plain
    <2>4. CASE s = "setFile"
      <3>1. d.do = "SetTrackFile"
        BY <1>1, <1>2, <2>4, ListsOfStatements DEF JobOK
      <3> QED BY <1>1, <1>4, <2>2, <2>4, <3>1, ListsOfStatements
    <2>5. CASE s \in {"touch", "deletePlaylist", "deleteAlbum"}
      BY <1>1, <1>2, <2>2, <2>5, OrderOfStatements
    <2>6. CASE s = "deleteTrack"
      <3>1. r \in {"lockPlaylists", "readMemberships"}
        BY <1>1, <1>2, <2>2, <2>6, OrderOfStatements
      <3>2. \E p : k = <<Playlist(p), "UPD">>
        BY <1>4, <3>1 DEF Asks
      <3>3. \E t : at[y] = <<Track(t), "DEL">>
        BY <1>3, <2>6 DEF Asks
      <3> QED BY <3>2, <3>3 DEF Goal
    <2>7. CASE s \in {"refTrack", "refOther"}
      <3>1. \E t : at[y] = <<Track(t), "KS">>
        BY <1>3, <2>7 DEF Asks, Reference
      <3>2. r \in {"refTrack", "refOther", "touch"}
        <4>1. d.do \in {"CreatePlaylist", "AddTrack"}
          BY <1>1, <1>2, <2>7, WhoseStatement
        <4> QED BY <1>1, <1>4, <4>1, ListsOfStatements
      <3>3. \/ \E t : k = <<Track(t), "KS">>
            \/ \E p : k = <<Playlist(p), "NKU">>
        BY <1>4, <3>2 DEF Asks, Reference
      <3> QED BY <3>1, <3>3 DEF Goal
    <2> QED BY <1>5, <2>3, <2>4, <2>5, <2>6, <2>7
  <1>6. CASE s = "lockPlaylists"
    <2>1. r = "lockPlaylists"
      BY <1>1, <1>2, <1>4, <1>6, OrderOfStatements
    <2>2. \E p : k = <<Playlist(p), "UPD">>
      BY <1>4, <2>1 DEF Asks
    <2> QED BY <1>2, <1>6, <2>2 DEF Goal
  <1>7. CASE s = "clearAlbum"
    <2>1. d.do = "DeleteAlbum"
      BY <1>1, <1>2, <1>7, ListsOfStatements DEF JobOK
    <2>2. \E t \in Tracks : at[y] = <<Track(t), "NULL">>
      BY <1>3, <1>7 DEF Asks
    <2>3. r \in {"deleteAlbum", "clearAlbum"}
      BY <1>1, <1>4, <2>1, ListsOfStatements
    <2>4. \/ \E b : k = <<Album(b), "DEL">>
          \/ \E t : k = <<Track(t), "NULL">>
      BY <1>4, <2>3 DEF Asks
    <2> QED BY <2>1, <2>2, <2>4 DEF Goal
  <1> QED BY <1>1, <1>2, <1>3, <1>5, <1>6, <1>7, LocksOf


\* What each of a circle waits for, when none of them deletes an artist.
LEMMA InACircle ==
  ASSUME RowInv, OrderInv, NEW X \in SUBSET Requests, \A x \in X : job[x].do # "DeleteArtist",
         NEW x \in X, NEW y \in X, WaitsFor(x, y)
  PROVE  \E k \in held[y] : k[1] = at[x][1] /\ Conflict(k[2], at[x][2]) /\ Plain(k)
  <1>1. /\ JobsGiven /\ Standing /\ Asked /\ LocksGranted /\ MembersUnder
        /\ job[x] \in Jobs /\ job[y] \in Jobs /\ x # y /\ at[x] # None
    BY DEF RowInv, OrderInv, JobsGiven, WaitsFor
  <1>2. PICK k \in held[y] : k[1] = at[x][1] /\ Conflict(k[2], at[x][2])
    BY DEF WaitsFor, Blocks
  <1>3. at[x] \in want[x]
    BY <1>1, StandingAll DEF StandsWell
  <1>4. ASSUME NEW a, k[1] = Artist(a) PROVE FALSE
    <2>1. k[2] = "KS"
      BY <1>1, <1>4, HeldIsAsked, LocksOf
    <2>2. at[x][2] = "KS"
      <3>1. at[x][1] = Artist(a) /\ job[x].do # "DeleteArtist"
        BY <1>2, <1>4
      <3>2. PICK s \in Listed(job[x]) : at[x] \in Asks(job[x], s)
        BY <1>1, <1>3, HeldIsAsked
      <3> QED BY <1>1, <3>1, <3>2, LocksOf
    <2> QED BY <1>2, <2>1, <2>2 DEF Conflict, Strength
  <1>5. ASSUME NEW p, NEW t, k[1] = Member(p, t) PROVE FALSE
    <2>1. k \in Locks /\ at[x] \in Locks
      BY <1>1, <1>3 DEF Standing
    <2>2. PICK m \in Modes, n \in Modes : k = <<k[1], m>> /\ at[x] = <<k[1], n>>
      BY <1>2, <2>1 DEF Locks
    <2>3. p \in Playlists /\ t \in Tracks
      <3>1. Member(p, t) \in AllRows
        BY <1>5, <2>1 DEF Locks
      <3> QED BY <3>1, RowNames DEF AllRows
    <2>4. <<Member(p, t), m>> \in held[y] /\ <<Member(p, t), n>> \in want[x]
      BY <1>2, <1>3, <1>5, <2>2
    <2>5. PICK g \in {"NKU", "UPD", "DEL"} : <<Playlist(p), g>> \in held[y]
      BY <1>1, <2>3, <2>4 DEF MembersUnder
    <2>6. PICK h \in {"NKU", "UPD", "DEL"} : <<Playlist(p), h>> \in held[x]
      BY <1>1, <2>3, <2>4 DEF MembersUnder
    <2>7. Conflict(g, h)
      BY DEF Conflict, Strength
    <2>8. Blocks(y, <<Playlist(p), h>>)
      BY <2>5, <2>7 DEF Blocks
    <2> QED BY <1>1, <2>6, <2>8 DEF LocksGranted
  <1> QED BY <1>2, <1>4, <1>5 DEF Plain

\* A circle without a delete of an artist climbs the playlists for ever.
LEMMA NoOtherCircle ==
  ASSUME RowInv, OrderInv, NEW X \in SUBSET Requests, Circle(X),
         \A x \in X : job[x].do # "DeleteArtist"
  PROVE  FALSE
  <1>1. /\ JobsGiven /\ Standing /\ Asked /\ LocksGranted /\ InOrder /\ OnItsAlbum
        /\ cat \in Catalogue
    BY DEF RowInv, OrderInv
  <1>2. \A x \in X : \E y \in X : WaitsFor(x, y)
    BY DEF Circle
  \* Locks stand in each other's way.
  <1> DEFINE Bars(k, l) == k[1] = l[1] /\ Conflict(k[2], l[2])
  <1>3. \A x, y \in X : WaitsFor(x, y) => \E k \in held[y] : Bars(k, at[x]) /\ Plain(k)
    BY InACircle
  <1>4. \A x \in X : x \in Requests /\ at[x] # None /\ at[x] \in want[x] /\ at[x] \notin held[x]
    <2> TAKE x \in X
    <2>1. PICK y \in X : WaitsFor(x, y)
      BY <1>2
    <2>2. x # y /\ at[x] # None /\ Blocks(y, at[x])
      BY <2>1 DEF WaitsFor
    <2> QED BY <1>1, <2>2, StandingAll DEF StandsWell, LocksGranted
  <1>5. \A x \in X : Plain(at[x])
    BY <1>2, <1>3 DEF Plain
  \* One that is waited for holds and wants one of these.
  <1> DEFINE Refers(y, k) == /\ \E t : at[y] = <<Track(t), "KS">>
                             /\ \/ \E t : k = <<Track(t), "KS">>
                                \/ \E p : k = <<Playlist(p), "NKU">>
             Clears(y, k) == /\ job[y].do = "DeleteAlbum"
                             /\ \E t \in Tracks : at[y] = <<Track(t), "NULL">>
                             /\ \/ \E b : k = <<Album(b), "DEL">>
                                \/ \E t : k = <<Track(t), "NULL">>
             Empties(y, k) == /\ \E p : k = <<Playlist(p), "UPD">>
                               /\ \/ \E t : at[y] = <<Track(t), "DEL">>
                                  \/ Current(y) = {"lockPlaylists"}
  <1>6. \A x, y \in X : WaitsFor(x, y) =>
          \E k \in held[y] : Bars(k, at[x]) /\ (Refers(y, k) \/ Clears(y, k) \/ Empties(y, k))
    <2> SUFFICES ASSUME NEW x \in X, NEW y \in X, WaitsFor(x, y)
                 PROVE  \E k \in held[y] :
                          Bars(k, at[x]) /\ (Refers(y, k) \/ Clears(y, k) \/ Empties(y, k))
      OBVIOUS
    <2>1. PICK k \in held[y] : Bars(k, at[x]) /\ Plain(k)
      BY <1>3
    <2>2. Refers(y, k) \/ Clears(y, k) \/ Empties(y, k)
      BY <1>1, <1>4, <1>5, <2>1, WaitsAndHolds
    <2> QED BY <2>1, <2>2
  <1> HIDE DEF Bars
  \* Nobody bars a foreign key's check of a track,
  <1>7. ASSUME NEW x \in X, NEW t, at[x] = <<Track(t), "KS">> PROVE FALSE
    <2>1. PICK y \in X : WaitsFor(x, y)
      BY <1>2
    <2>2. PICK k \in held[y] :
            Bars(k, at[x]) /\ (Refers(y, k) \/ Clears(y, k) \/ Empties(y, k))
      BY <1>6, <2>1
    <2>3. \/ \E u : k = <<Track(u), "KS">> \/ k = <<Playlist(u), "NKU">> \/ k = <<Album(u), "DEL">>
                    \/ k = <<Track(u), "NULL">> \/ k = <<Playlist(u), "UPD">>
      BY <2>2
    <2>4. k[1] = Track(t) /\ Conflict(k[2], "KS")
      BY <1>7, <2>2 DEF Bars
    <2>5. k[2] \in {"KS", "NULL"}
      BY <2>3, <2>4, RowNames
    <2> QED BY <2>4, <2>5 DEF Conflict, Strength
  \* nor the tracks of an album that is deleted,
  <1>8. ASSUME NEW x \in X, NEW t \in Tracks, at[x] = <<Track(t), "NULL">>,
               job[x].do = "DeleteAlbum"
        PROVE  FALSE
    <2>1. PICK y \in X : WaitsFor(x, y)
      BY <1>2
    <2>2. PICK k \in held[y] :
            Bars(k, at[x]) /\ (Refers(y, k) \/ Clears(y, k) \/ Empties(y, k))
      BY <1>6, <2>1
    <2>3. k[1] = Track(t)
      BY <1>8, <2>2 DEF Bars
    <2>4. ~Refers(y, k)
      BY <1>7
    <2>5. job[y].do = "DeleteAlbum" /\ k = <<Track(t), "NULL">>
      BY <2>2, <2>3, <2>4, RowNames
    <2>6. t \in LiveTracks(cat)
      <3>1. Track(t) \in Rows(cat)
        BY <1>1, <2>3 DEF LocksGranted
      <3> QED BY <1>1, <3>1, RowsOf
    <2>7. x # y
      BY <2>1 DEF WaitsFor
    <2> QED BY <1>1, <1>4, <1>8, <2>5, <2>6, <2>7 DEF OnItsAlbum
  \* so that all who are waited for lock playlists, and have others.
  <1>9. \A x, y \in X : WaitsFor(x, y) =>
          \E k \in held[y] :
            /\ Bars(k, at[x]) /\ \E p : k = <<Playlist(p), "UPD">>
            /\ \/ \E t : at[y] = <<Track(t), "DEL">>
               \/ Current(y) = {"lockPlaylists"}
    <2> TAKE x, y \in X
    <2> HAVE WaitsFor(x, y)
    <2>1. PICK k \in held[y] :
            Bars(k, at[x]) /\ (Refers(y, k) \/ Clears(y, k) \/ Empties(y, k))
      BY <1>6
    <2>2. ~Refers(y, k) /\ ~Clears(y, k)
      BY <1>7, <1>8
    <2> QED BY <2>1, <2>2
  <1>10. ASSUME NEW x \in X, NEW y \in X, WaitsFor(x, y)
         PROVE  \E p : at[x][1] = Playlist(p) /\ <<Playlist(p), "UPD">> \in held[y]
    BY <1>9, <1>10 DEF Bars
  <1>11. ASSUME NEW x \in X, NEW y \in X, WaitsFor(x, y)
         PROVE  Current(y) = {"lockPlaylists"}
    <2>1. PICK z \in X : WaitsFor(y, z)
      BY <1>2
    <2>2. PICK p : at[y][1] = Playlist(p)
      BY <1>10, <2>1
    <2>3. \A t : at[y] # <<Track(t), "DEL">>
      BY <2>2, RowNames
    <2> QED BY <1>9, <1>11, <2>3
  <1>12. ASSUME NEW x \in X, NEW y \in X, WaitsFor(x, y)
         PROVE  at[x][1][2] < at[y][1][2]
    <2>1. PICK p : at[x][1] = Playlist(p) /\ <<Playlist(p), "UPD">> \in held[y]
      BY <1>10, <1>12
    <2>2. <<Playlist(p), "UPD">>[1][2] < at[y][1][2]
      BY <1>1, <1>4, <1>11, <1>12, <2>1 DEF InOrder
    <2>3. <<Playlist(p), "UPD">>[1] = Playlist(p)
      OBVIOUS
    <2> QED BY <2>1, <2>2, <2>3
  <1> DEFINE f == [x \in X |-> at[x][1][2]]
  <1>13. \A x \in X : f[x] \in Nat
    <2> TAKE x \in X
    <2>1. PICK p : at[x][1] = Playlist(p)
      BY <1>2, <1>10
    <2>2. at[x] \in Locks
      BY <1>1, <1>4 DEF Standing
    <2>3. Playlist(p) \in AllRows
      BY <2>1, <2>2 DEF Locks
    <2>4. p \in Playlists
      BY <2>3, RowNames DEF AllRows
    <2> QED BY <2>1, <2>4, RowParts
  <1>14. \A x \in X : \E y \in X : f[x] < f[y]
    BY <1>2, <1>12
  <1>15. IsFiniteSet(X) /\ X # {}
    BY FS_Subset DEF Circle
  <1> HIDE DEF f
  <1> QED BY <1>13, <1>14, <1>15, NoEndlessRise

\* Requests wait for each other in a circle only if one of them deletes an
\* artist: DeleteTrack locks the playlists in the order of their ids
\* (trackrepo.go, SELECT ... ORDER BY id FOR UPDATE) before it touches what is
\* in them, and the others lock one playlist first and what is in it next.
THEOREM OnlyArtistsDeadlock == ASSUME QuietDeletes PROVE Spec => []OnlyArtistDeletesDeadlock
  <1>1. RowInv /\ OrderInv => OnlyArtistDeletesDeadlock
    BY NoOtherCircle DEF OnlyArtistDeletesDeadlock
  <1> QED BY <1>1, OrderAlways, PTL

-----------------------------------------------------------------------------
\* While a request is not answered there is one with nothing to wait for: the
\* first of those that wait for a connection when none runs, a running one
\* whose lock is free, or else all that run, who then wait for each other.
\* What is waited for is held by one that runs, since locks and connection go
\* when a request ends, however it does (the deferred rollbacks).
THEOREM NobodyStuck == Spec => []NoneStuck
  <1>1. ASSUME RowInv, NEW z \in Requests, pc[z] # "ended"
        PROVE  \E x \in Requests : CanGoOn(x)
    <2>1. Standing /\ Running \subseteq Requests /\ pc[z] \in {"waiting", "running"}
      BY <1>1 DEF RowInv, Standing, Running
    <2>2. CASE Running = {}
      <3>1. Cardinality(Running) < MaxOpenConns
        BY <2>2, FS_EmptySet
      <3>2. pc[z] = "waiting"
        BY <2>1, <2>2 DEF Running
      <3> QED BY <2>2, <3>1, <3>2 DEF CanGoOn
    <2>3. CASE \E x \in Running : \A y \in Requests : ~WaitsFor(x, y)
      BY <2>1, <2>3 DEF CanGoOn, Running
    <2>4. CASE Running # {} /\ \A x \in Running : \E y \in Requests : WaitsFor(x, y)
      <3>1. ASSUME NEW x \in Running, NEW y \in Requests, WaitsFor(x, y)
            PROVE  y \in Running
        <4>1. held[y] # {}
          BY <3>1 DEF WaitsFor, Blocks
        <4> QED BY <2>1, <4>1, StandingAll DEF StandsWell, Running
      <3>2. Circle(Running)
        BY <2>4, <3>1 DEF Circle
      <3> QED BY <2>1, <2>4, <3>2 DEF CanGoOn
    <2> QED BY <2>2, <2>3, <2>4
  <1>2. RowInv => NoneStuck
    BY <1>1 DEF NoneStuck
  <1> QED BY <1>2, RowAlways, PTL

===============================================================================
