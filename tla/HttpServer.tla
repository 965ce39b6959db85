------------------------------ MODULE HttpServer ------------------------------
(***************************************************************************)
(* One connection of the server: requests answered one after another by    *)
(* the middleware chain RequestID, Logging, Recover, jsonMuxErrors, the    *)
(* mux and a handler (internal/api/router.go, middleware.go).  A handler   *)
(* goes through the stages of its endpoint, then makes the calls on the    *)
(* response writer that their result asks for; a panic takes the goroutine *)
(* back to Recover.                                                        *)
(***************************************************************************)
EXTENDS ResponseWriter, Endpoints

CONSTANT Inputs     \* the requests a client may send

\* The ids a request may have: its own, or a generated one.
RequestIds == {"generated"} \cup {r.requestId : r \in Inputs}

\* True of every TLA+ value, but the provers do not know it of a literal.
ASSUME LiteralsAssumption == {"", "uuid", "UUID", "t", "T"} \subseteq STRING

ASSUME InputsAssumption ==
    /\ Inputs \subseteq Request
    /\ Null \notin STRING /\ Null \notin Seq(STRING)
    /\ Null \notin [head : BOOLEAN, status : Nat, type : Types, body : Seq(Pieces)]
    /\ Null \notin [status : Nat, bytes : Nat, id : RequestIds]

VARIABLES
    pc,         \* "ready", then "handling", "responding", "returned", "logged"
    q,          \* the request
    id,         \* its id in the context
    stages,     \* what the handler still has to do
    result,     \* the result that ended them, or "ok"
    faulted,    \* a dependency failed
    panicked,
    calls,      \* the calls on the writer still to come
    w,          \* the response
    echoed,     \* its X-Request-Id
    errors,     \* the ids on the error lines logged for this request
    line,       \* its line in the access log
    stored,     \* the row created by the last request, and its response
    shown       \* the entity in this response, if it is that row

vars == <<pc, q, id, stages, result, faulted, panicked, calls, w, echoed, errors, line,
          stored, shown>>

-----------------------------------------------------------------------------
\* What the mux answers without a handler.
MuxRoutes == {"noRoute", "wrongMethod", "uncleanPath"}
MuxCalls(to) ==
    CASE to = "noRoute" -> PlainError(404)
      [] to = "wrongMethod" -> PlainError(405)
      [] to = "uncleanPath" -> RedirectToCleanPath

Creates == {"CreateArtist", "CreateTrack", "CreateAlbum", "CreatePlaylist"}
Fetches == {"GetArtist", "GetTrack", "GetAlbum", "GetPlaylist"}

\* registerRoutes: the handler of a request, as its stages.
Handler(r) ==
    CASE r.to = "CreateArtist" -> CreateArtist(r)
      [] r.to = "GetArtist" -> GetArtist(r)
      [] r.to = "DeleteArtist" -> DeleteArtist(r)
      [] r.to = "CreateTrack" -> CreateTrack(r)
      [] r.to = "GetTrack" -> GetTrack(r)
      [] r.to = "DeleteTrack" -> DeleteTrack(r)
      [] r.to = "UploadTrackFile" -> UploadTrackFile(r)
      [] r.to = "CreateAlbum" -> CreateAlbum(r)
      [] r.to = "GetAlbum" -> GetAlbum(r)
      [] r.to = "DeleteAlbum" -> DeleteAlbum(r)
      [] r.to = "StreamTrack" -> StreamTrack(r)
      [] r.to = "CreatePlaylist" -> CreatePlaylist(r)
      [] r.to = "GetPlaylist" -> GetPlaylist(r)
      [] r.to = "DeletePlaylist" -> DeletePlaylist(r)
      [] r.to = "AddTrackToPlaylist" -> AddTrackToPlaylist(r)
      [] r.to = "RemoveTrackFromPlaylist" -> RemoveTrackFromPlaylist(r)
      [] r.to = "Readyz" -> Readyz
      [] OTHER -> Healthz

\* The row a request creates, and the entity its response shows.
Inserted(r) ==
    CASE r.to = "CreateTrack" ->
           [get |-> "GetTrack", row |-> TrackRow(TrackOf(r)), shown |-> TrackResponse(TrackOf(r))]
      [] r.to = "CreateAlbum" ->
           [get |-> "GetAlbum", row |-> AlbumRow(AlbumOf(r)), shown |-> AlbumResponse(AlbumOf(r))]
      [] r.to = "CreatePlaylist" ->
           [get |-> "GetPlaylist", row |-> PlaylistRow(PlaylistOf(r)),
            shown |-> PlaylistResponse(PlaylistOf(r))]
      [] OTHER -> Null

\* The entity a GET of that row shows.
Fetched(s) ==
    CASE s.get = "GetTrack" -> TrackResponse(ScanTrack(s.row))
      [] s.get = "GetAlbum" -> AlbumResponse(s.row)
      [] s.get = "GetPlaylist" -> PlaylistResponse(ScanPlaylist(s.row))

-----------------------------------------------------------------------------
StatusForError(err) ==
    CASE err = "NotFound" -> 404
      [] err = "InvalidInput" -> 400
      [] err \in {"Conflict", "DuplicateAudio"} -> 409    \* the second wraps the first
      [] OTHER -> 500

\* Mutant: the sentinel's own name goes out as the code.
CodeForErrorRaw(err) == err

CodeForError(err) ==
    CASE err = "DuplicateAudio" -> "duplicate_audio"
      [] err = "NotFound" -> "not_found"
      [] err = "InvalidInput" -> "invalid_input"
      [] err = "Conflict" -> "conflict"
      [] OTHER -> "internal_error"

WriteError(err) == RespondWithJSON(StatusForError(err), CodeForError(err))

WriteTooLarge == RespondWithJSON(413, "payload_too_large")

\* The calls a handler may make once its stages have come to a result.
Replies(r, res) ==
    IF r.to = "Healthz" THEN {RespondWithJSON(200, "entity")}
    ELSE IF r.to = "Readyz" THEN {RespondWithJSON(IF res = "ok" THEN 200 ELSE 503, "entity")}
    ELSE IF res = "TooLarge" THEN {WriteTooLarge}
    ELSE IF res # "ok" THEN {WriteError(res)}
    ELSE CASE r.to \in Creates -> {RespondWithJSON(201, "entity")}
           [] r.to \in Fetches -> {RespondWithJSON(200, "entity")}
           [] r.to = "StreamTrack" ->
                {ServeContent(s, r.head) : s \in {200, 206, 304, 412, 416}}
           [] OTHER -> {RespondNoContent}

\* The error lines that go with it: a readiness check's carries no id.
LogsError(r, res) ==
    IF r.to = "Readyz" THEN (IF res = "ok" THEN {} ELSE {""})
    ELSE IF res \notin {"ok", "TooLarge"} /\ StatusForError(res) = 500 THEN {id}
    ELSE {}

-----------------------------------------------------------------------------
Init ==
    /\ pc = "ready" /\ q = Plain("Healthz") /\ id = "" /\ echoed = ""
    /\ stages = <<>> /\ calls = <<>> /\ result = "ok"
    /\ faulted = FALSE /\ panicked = FALSE
    /\ w = NewResponse(FALSE) /\ errors = {} /\ line = Null
    /\ stored = Null /\ shown = Null

\* RequestID: the client's id, or a generated one.
RequestID(r) ==
    LET rid == IF r.requestId = "" THEN "generated" ELSE r.requestId
    IN  [context |-> rid, header |-> rid]

\* The row is kept in mind for a GET that follows at once.
Arrive(r) ==
    /\ pc \in {"ready", "logged"}
    /\ q' = r /\ id' = RequestID(r).context /\ echoed' = RequestID(r).header
    /\ w' = NewResponse(r.head)
    /\ result' = "ok" /\ faulted' = FALSE /\ panicked' = FALSE
    /\ errors' = {} /\ line' = Null /\ shown' = Null
    /\ stored' = IF stored # Null /\ stored.get = r.to THEN stored ELSE Null
    /\ IF r.to \in MuxRoutes
       THEN pc' = "responding" /\ stages' = <<>> /\ calls' = MuxCalls(r.to)
       ELSE pc' = "handling" /\ stages' = Handler(r) /\ calls' = <<>>

\* Mutant: the last check decides.
ReadyAfterLast(res) == res

\* Readyz: one failed check is enough.
ReadyAfter(res) == IF result = "ok" THEN res ELSE result

\* The next stage, with one of its results.  A failure ends the handler, but
\* for Readyz, which asks both dependencies.  The last stage stores the row.
Step ==
    /\ pc = "handling" /\ stages # <<>>
    /\ \E res \in Head(stages).may :
         /\ result' = IF q.to = "Readyz" THEN ReadyAfter(res) ELSE res
         /\ stages' = IF res = "ok" \/ q.to = "Readyz" THEN Tail(stages) ELSE <<>>
         /\ faulted' = (faulted \/ res = "fault")
         /\ stored' = IF res = "ok" /\ Tail(stages) = <<>> /\ q.to \in Creates
                      THEN Inserted(q) ELSE stored
    /\ UNCHANGED <<pc, q, id, panicked, calls, w, echoed, errors, line, shown>>

\* The handler writes what its result asks for.
Respond ==
    /\ pc = "handling" /\ stages = <<>>
    /\ calls' \in Replies(q, result)
    /\ pc' = "responding"
    /\ errors' = errors \cup LogsError(q, result)
    /\ shown' = IF result # "ok" \/ stored = Null THEN Null
                ELSE IF q.to \in Creates THEN stored.shown ELSE Fetched(stored)
    /\ UNCHANGED <<q, id, stages, result, faulted, panicked, w, echoed, line, stored>>

Write ==
    /\ pc = "responding" /\ calls # <<>>
    /\ w' = Apply(w, Head(calls)) /\ calls' = Tail(calls)
    /\ UNCHANGED <<pc, q, id, stages, result, faulted, panicked, echoed, errors, line,
                   stored, shown>>

AudioNext == calls # <<>> /\ Head(calls) = [write |-> "audio"]

\* The bucket fails a read of StreamTrack's body.  ServeContent drops the error
\* of its io.CopyN and returns: nothing is logged, and the client gets less than
\* the Content-Length it was told.
ObjectReadFails ==
    /\ pc = "responding" /\ AudioNext
    /\ calls' = <<>> /\ faulted' = TRUE
    /\ UNCHANGED <<pc, q, id, stages, result, panicked, w, echoed, errors, line,
                   stored, shown>>

Return ==
    /\ pc = "responding" /\ calls = <<>>
    /\ pc' = "returned"
    /\ UNCHANGED <<q, id, stages, result, faulted, panicked, calls, w, echoed, errors, line,
                   stored, shown>>

\* A handler can panic while it works, and while ServeContent seeks or reads.
CanPanic ==
    \/ pc = "handling"
    \/ /\ pc = "responding" /\ q.to = "StreamTrack" /\ result = "ok"
       /\ w.status = 0 \/ AudioNext

\* Recover logs the panic, and answers 500 unless the response has begun.
Recover ==
    /\ CanPanic
    /\ panicked' = TRUE /\ errors' = errors \cup {id}
    /\ w' = IF w.wroteHeader THEN w
            ELSE RecorderWrite(RecorderWriteHeader(SetHeader(w, "json"), 500), "internal_error")
    /\ pc' = "returned" /\ stages' = <<>> /\ calls' = <<>> /\ shown' = Null
    /\ UNCHANGED <<q, id, result, faulted, echoed, line, stored>>

\* The line of Logging, after everything below it has returned.
Logging ==
    /\ pc = "returned"
    /\ pc' = "logged"
    /\ line' = [status |-> w.logStatus, bytes |-> w.logBytes, id |-> id]
    /\ UNCHANGED <<q, id, stages, result, faulted, panicked, calls, w, echoed, errors,
                   stored, shown>>

Next ==
    \/ \E r \in Inputs : Arrive(r)
    \/ Step \/ Respond \/ Write \/ ObjectReadFails \/ Return \/ Recover \/ Logging

Spec == Init /\ [][Next]_vars

-----------------------------------------------------------------------------
\* The shape of the state (router.go, middleware.go).
TypeOK ==
    /\ pc \in {"ready", "handling", "responding", "returned", "logged"}
    /\ q \in Inputs \cup {Plain("Healthz")}
    /\ \A i \in DOMAIN stages : stages[i].may \subseteq Results
    /\ result \in Results
    /\ faulted \in BOOLEAN /\ panicked \in BOOLEAN
    /\ w.status \in {0} \cup 200 .. 503
    /\ \A i \in DOMAIN w.body : w.body[i] \in Pieces
    /\ (line = Null) = (pc # "logged")

Reply ==
    IF pc \in {"returned", "logged"}
    THEN [head |-> w.head, status |-> w.status, type |-> w.type, body |-> w.body]
    ELSE Null

HTTP == INSTANCE Exchange WITH None <- Null, reply <- Reply

\* Every request gets one well-formed reply, its code that of its status, and
\* one log line that says what was sent: panics, the mux's own errors and HEAD
\* requests included (README "Errors"; middleware.go:37 and :61).
ImplementsExchange == HTTP!Spec

\* Inputs that validation lets through and Postgres, or the body's reader,
\* refuses as an unclassified error.
Slips(r) ==
    \/ "urn" \in {r.id, r.track, r.artist, r.album}
    \/ r.tracks # Null /\ \E i \in DOMAIN r.tracks : r.tracks[i] = "urn"
    \/ r.title = "nul"
    \/ r.upload = "cut"

\* A 500 is ours: a dependency failed or the code panicked.  Whatever a client
\* sends is a 4xx, but for the inputs named by Slips (validate.go:30-33,
\* trackservice.go:47-50).
ServerErrorIsOurs ==
    pc = "logged" /\ w.status >= 500 => faulted \/ panicked \/ Slips(q)

\* A failed dependency or a panic is never passed off as a whole success: the
\* client sees a 5xx or, if the audio had begun, fewer bytes than it was
\* promised; and it sees that of nothing else.  The error is in the log, but for
\* one fault: a bucket read that fails under ServeContent leaves no error line
\* (streamhandler.go:75).  A 500 can be traced: an error line carries the id the
\* client was given (httpx.go, middleware.go).
FaultsSurface ==
    pc = "logged" =>
      /\ faulted \/ panicked => w.status >= 500 \/ CutShort(w)
      /\ CutShort(w) => faulted \/ panicked
      /\ faulted \/ panicked => errors # {} \/ (~panicked /\ CutShort(w))
      /\ w.status = 500 => echoed \in errors
      /\ line.id = echoed

\* An entity with its ids as a uuid column gives them back.
InCanonicalIds(entity) ==
    [f \in DOMAIN entity |->
       CASE f \in {"artist", "album"} -> Canonical(entity[f])
         [] f = "tracks" -> [i \in DOMAIN entity[f] |-> Canonical(entity[f][i])]
         [] OTHER -> entity[f]]

\* What a GET shows of a row is what its creation answered, through the row,
\* its NULLs and the two units of duration (dto.go, scanTrack), but for the
\* spelling of ids: the creation echoes the client's, as it scans only id and
\* created_at from its insert (trackrepo.go:66-72), the GET shows Postgres'.
ReadsBackAsCreated ==
    shown # Null /\ q.to \in Fetches => shown = InCanonicalIds(stored.shown)

\* A created track has every number it was sent, unless the duration in
\* nanoseconds has left the word (dto.go:60).
StoredAsSent ==
    /\ pc = "responding" /\ q.to = "CreateTrack" /\ shown # Null
    /\ q.duration * Ms \in (-WordMax - 1) .. WordMax
    => \A n \in {"duration", "bitrate", "fileSize", "trackNumber", "discNumber"} :
           stored.row[n] = q[n]

\* "An oversized value fails here" (trackservice.go:47-50): a track is created
\* only with a duration that its column holds.  Violated: the product wraps.
OversizedRefused ==
    pc = "responding" /\ q.to = "CreateTrack" /\ result = "ok" => q.duration \in 0 .. IntMax

=============================================================================
