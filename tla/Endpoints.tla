------------------------------ MODULE Endpoints ------------------------------
(***************************************************************************)
(* What each handler does with a request (internal/api/handlers, through   *)
(* the services and repositories): a sequence of stages, each of which may *)
(* end the request.  A stage that only looks at the request has one        *)
(* result; one that asks Postgres or the bucket has several.               *)
(*                                                                         *)
(* Data is reduced to what the code tells apart.  An id is a "uuid" as     *)
(* Postgres writes it; a "UUID" in another spelling that Postgres takes    *)
(* (upper case, braces, no hyphens); a "urn" (urn:uuid:...), which         *)
(* uuid.Parse takes and Postgres does not; or "junk".  A text is "", "x"   *)
(* or one with a "nul" byte, which JSON can carry and a Postgres TEXT      *)
(* cannot.  Integers are words of -WordMax-1 .. WordMax, the column type   *)
(* INTEGER goes to IntMax, and a millisecond is Ms nanoseconds.            *)
(***************************************************************************)
EXTENDS Integers, Sequences, FiniteSets

CONSTANTS
    WordMax,    \* math.MaxInt64
    IntMax,     \* math.MaxInt32
    Ms,         \* time.Millisecond
    Null        \* SQL NULL, JSON null, a nil slice

ASSUME WidthAssumption ==
    /\ WordMax \in Nat /\ IntMax \in Nat /\ Ms \in Nat \ {0}
    /\ IntMax * Ms <= WordMax

\* The sentinels of the domain package.
Sentinels == {"NotFound", "InvalidInput", "Conflict", "DuplicateAudio"}

\* A stage's result: on to the next, a classified error, a body over its cap,
\* data that Postgres refuses, or a call that fails.
Results == {"ok", "TooLarge", "rejected", "fault"} \cup Sentinels

Stage(at, may) == [at |-> at, may |-> may]

Check(at, cond) == Stage(at, IF cond THEN {"ok"} ELSE {"InvalidInput"})

\* A call that takes any data.
Call(at, may) == Stage(at, may \cup {"fault"})

\* A statement over data that Postgres may refuse.
Statement(at, accepted, may) ==
    Stage(at, IF accepted THEN may \cup {"fault"} ELSE {"rejected", "fault"})

-----------------------------------------------------------------------------
\* Words: two's complement, as the build's int64.
Wrap(n) == ((n + WordMax + 1) % (2 * (WordMax + 1))) - (WordMax + 1)

\* time.Duration.Milliseconds truncates towards zero.
Milliseconds(d) == IF d >= 0 THEN d \div Ms ELSE -((-d) \div Ms)

UUIDParses(id) == id \in {"uuid", "UUID", "urn"}
PostgresUUID(id) == id \in {"uuid", "UUID"}
PostgresText(s) == s # "nul"
PostgresInteger(n) == n \in (-IntMax - 1) .. IntMax

PathUUID(id) == Check("pathUUID", UUIDParses(id))
RequireUUID(id) == Check("requireUUID", UUIDParses(id))
RequireNonEmpty(s) == Check("requireNonEmpty", s # "")

\* Mutant: the lower bound only.
RequireNotNegative(n, low, high) == Check("requireInRange", n >= low)

RequireInRange(n, low, high) == Check("requireInRange", n >= low /\ n <= high)

\* One JSON value, of known fields, of at most 1 MiB: "good"; any other body
\* ("malformed", "unknownField", "trailing", "tooBig") is the same 400.
DecodeJSON(json) == Check("decodeJSON", json = "good")

-----------------------------------------------------------------------------
Word == (-WordMax - 1) .. WordMax

\* What the routes, the decoders and the path leave of a request.
Request ==
    [to : STRING, head : BOOLEAN, requestId : STRING, id : STRING, track : STRING,
     json : STRING, title : STRING, artist : STRING, album : STRING, duration : Word,
     bitrate : Word, fileSize : Word, trackNumber : Word, discNumber : Word, date : STRING,
     tracks : Seq(STRING) \cup {Null}, upload : STRING]

\* A request, with its least remarkable content.
Plain(e) ==
    [to |-> e, head |-> FALSE, requestId |-> "", id |-> "uuid", track |-> "uuid",
     json |-> "good", title |-> "x", artist |-> "uuid", album |-> "", duration |-> 0,
     bitrate |-> 0, fileSize |-> 0, trackNumber |-> 0, discNumber |-> 0, date |-> "",
     tracks |-> Null, upload |-> "audio"]

\* A uuid column gives back 36 characters in lower case, however the id was
\* spelt.  "T" is another spelling of the track "t".
Canonical(id) ==
    CASE id = "UUID" -> "uuid"
      [] id = "T" -> "t"
      [] OTHER -> id

\* createTrackRequest.toDomain: the product wraps.
TrackOf(q) ==
    [artist |-> q.artist, album |-> q.album, duration |-> Wrap(q.duration * Ms), bitrate |-> q.bitrate,
     fileSize |-> q.fileSize, trackNumber |-> q.trackNumber, discNumber |-> q.discNumber,
     storageKey |-> ""]

\* Mutant: the duration goes in as nanoseconds.
TrackRowRaw(t) ==
    [t EXCEPT !.artist = Canonical(t.artist),
              !.album = IF t.album = "" THEN Null ELSE Canonical(t.album)]

\* The row CreateTrack inserts.
TrackRow(t) ==
    [t EXCEPT !.artist = Canonical(t.artist),
              !.album = IF t.album = "" THEN Null ELSE Canonical(t.album),
              !.duration = Milliseconds(t.duration)]

\* Mutant: the column's milliseconds are taken for nanoseconds.
ScanTrackRaw(row) == [row EXCEPT !.album = IF row.album = Null THEN "" ELSE row.album]

ScanTrack(row) ==
    [row EXCEPT !.album = IF row.album = Null THEN "" ELSE row.album,
                !.duration = Wrap(row.duration * Ms)]

TrackResponse(t) ==
    [artist |-> t.artist, album |-> IF t.album = "" THEN Null ELSE t.album,
     duration |-> Milliseconds(t.duration), bitrate |-> t.bitrate, fileSize |-> t.fileSize,
     trackNumber |-> t.trackNumber, discNumber |-> t.discNumber, hasFile |-> t.storageKey # ""]

\* createAlbumRequest.toDomain; a date it cannot parse is an error.
AlbumOf(q) ==
    [artist |-> q.artist, date |-> IF q.date = "" THEN Null ELSE q.date, coverKey |-> ""]

\* The row CreateAlbum inserts, and GetAlbumByID reads as it is.
AlbumRow(a) == [a EXCEPT !.artist = Canonical(a.artist)]

AlbumResponse(a) ==
    [artist |-> a.artist, date |-> a.date, coverKey |-> IF a.coverKey = "" THEN Null ELSE a.coverKey]

PlaylistOf(q) == [tracks |-> q.tracks]

PlaylistResponse(p) == [tracks |-> IF p.tracks = Null THEN <<>> ELSE p.tracks]

\* The memberships CreatePlaylist inserts at 0, 1, ...
PlaylistRow(p) ==
    LET ids == IF p.tracks = Null THEN <<>> ELSE p.tracks
    IN  [position \in DOMAIN ids |-> Canonical(ids[position])]

\* trackIDs: in the order of position, and never nil.
ScanPlaylist(row) == [tracks |-> row]

-----------------------------------------------------------------------------
Found == {"ok", "NotFound"}

GetByID(at, q) == <<PathUUID(q.id), Statement(at, PostgresUUID(q.id), Found)>>

GetArtist(q) == GetByID("GetArtistByID", q)
GetTrack(q) == GetByID("GetTrackByID", q)
GetAlbum(q) == GetByID("GetAlbumByID", q)
DeleteAlbum(q) == GetByID("DeleteAlbum", q)
DeletePlaylist(q) == GetByID("DeletePlaylist", q)

\* The two statements of GetPlaylistByID.
GetPlaylist(q) == Append(GetByID("GetPlaylistByID", q), Call("trackIDs", {"ok"}))

CreateArtist(q) ==
    <<DecodeJSON(q.json), RequireNonEmpty(q.title),
      Statement("CreateArtist", PostgresText(q.title), {"ok"})>>

\* Locks, delete and commit; the objects' deletes only log.
DeleteArtist(q) ==
    <<PathUUID(q.id), Statement("DeleteArtist", PostgresUUID(q.id), Found),
      Call("commit", {"ok"})>>

\* A missing artist or album violates a foreign key.
InsertTrack(q) ==
    LET row == TrackRow(TrackOf(q))
    IN  Statement("CreateTrack",
            /\ PostgresText(q.title)
            /\ PostgresUUID(q.artist) /\ (q.album = "" \/ PostgresUUID(q.album))
            /\ \A n \in {row.duration, row.bitrate, row.trackNumber, row.discNumber} :
                   PostgresInteger(n),
            {"ok", "InvalidInput"})

CreateTrack(q) ==
    LET t == TrackOf(q)
    IN  <<DecodeJSON(q.json), RequireNonEmpty(q.title), RequireUUID(q.artist)>>
          \o (IF t.album # "" THEN <<RequireUUID(t.album)>> ELSE <<>>)
          \o <<RequireInRange(Milliseconds(t.duration), 0, IntMax),
               RequireInRange(t.bitrate, 0, IntMax),
               RequireInRange(t.fileSize, 0, WordMax),
               RequireInRange(t.trackNumber, 0, IntMax),
               RequireInRange(t.discNumber, 0, IntMax),
               InsertTrack(q)>>

DeleteTrack(q) ==
    <<PathUUID(q.id), Statement("lockPlaylists", PostgresUUID(q.id), {"ok"}),
      Call("DeleteTrack", Found), Call("renumber", {"ok"}), Call("commit", {"ok"})>>

CreateAlbum(q) ==
    <<DecodeJSON(q.json), Check("toDomain", q.date # "bad"), RequireNonEmpty(q.title),
      RequireUUID(q.artist),
      Statement("CreateAlbum", PostgresText(q.title) /\ PostgresUUID(q.artist),
                {"ok", "InvalidInput"})>>

\* Track ids in a body are whole ids, "t" (or "T") and "u", or one of the other
\* forms.
TrackID(id) ==
    CASE id \in {"t", "u"} -> "uuid"
      [] id = "T" -> "UUID"
      [] OTHER -> id

\* The insert of the i-th track: one given before, however it was spelt, meets
\* the primary key, one that does not exist the foreign key.
InsertMembership(ids, i) ==
    Statement("playlist_tracks", PostgresUUID(TrackID(ids[i])),
              IF \E j \in 1 .. (i - 1) : Canonical(ids[j]) = Canonical(ids[i])
              THEN {"Conflict"}
              ELSE {"ok", "InvalidInput"})

CreatePlaylist(q) ==
    LET ids == IF q.tracks = Null THEN <<>> ELSE q.tracks
    IN  <<DecodeJSON(q.json), RequireNonEmpty(q.title)>>
          \o [i \in DOMAIN ids |-> RequireUUID(TrackID(ids[i]))]
          \o <<Statement("CreatePlaylist", PostgresText(q.title), {"ok"})>>
          \o [i \in DOMAIN ids |-> InsertMembership(ids, i)]
          \o <<Call("commit", {"ok"})>>

TouchPlaylist(q) ==
    <<PathUUID(q.id), PathUUID(q.track), Statement("touchPlaylist", PostgresUUID(q.id), Found)>>

\* A missing track violates a foreign key.
AddTrackToPlaylist(q) ==
    TouchPlaylist(q)
      \o <<Statement("AddTrack", PostgresUUID(q.track), {"ok", "InvalidInput"}),
           Call("commit", {"ok"})>>

RemoveTrackFromPlaylist(q) ==
    TouchPlaylist(q)
      \o <<Statement("RemoveTrack", PostgresUUID(q.track), Found),
           Call("renumber", {"ok"}), Call("commit", {"ok"})>>

\* An upload is "audio", "empty", "noAudio", declared "tooLong", found
\* "overCap" while its head or the rest is read, or "cut" by the client.
SniffAudio(upload) == Check("sniffAudio", upload # "noAudio")

PutAudio(upload) ==
    Stage("Put", CASE upload = "overCap" -> {"TooLarge", "fault"}
                   [] upload = "cut" -> {"rejected", "fault"}
                   [] OTHER -> {"ok", "fault"})

\* A cut within the head reads like a short body, or like an empty one.
ReadHead(upload) ==
    Stage("head", CASE upload = "empty" -> {"InvalidInput"}
                    [] upload = "overCap" -> {"ok", "TooLarge"}
                    [] upload = "cut" -> {"ok", "InvalidInput", "rejected"}
                    [] OTHER -> {"ok"})

\* The handler's deletes of objects only log.
UploadTrackFile(q) ==
    GetByID("GetTrackByID", q)
      \o <<Call("SetReadDeadline", {"ok"}),
           Stage("ContentLength", IF q.upload = "tooLong" THEN {"TooLarge"} ELSE {"ok"}),
           ReadHead(q.upload), SniffAudio(q.upload), Call("suffix", {"ok"}),
           PutAudio(q.upload),
           Call("SetTrackFile", {"ok", "NotFound", "DuplicateAudio"})>>

\* A track without a file, or whose object is gone, is ErrNotFound.
StreamTrack(q) ==
    GetByID("GetTrackByID", q) \o <<Stage("storageKey", Found), Call("Get", Found)>>

Healthz == <<>>

\* Both dependencies are asked whatever the first one answers.
Readyz == <<Call("database", {"ok"}), Call("blobstore", {"ok"})>>

=============================================================================
