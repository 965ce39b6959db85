--------------------------- MODULE HttpServerProofs ---------------------------
(***************************************************************************)
(* Proofs about HttpServer, for any requests a client may send and any     *)
(* width of the words.                                                     *)
(***************************************************************************)
EXTENDS HttpServer, SequenceTheorems, TLAPS

-----------------------------------------------------------------------------
(***************************************************************************)
(* The inductive invariants behind the properties of HttpServer: how far   *)
(* the handler has come, which answer it is writing and how much of it is  *)
(* on the wire, and what the answer has to do with the request.            *)
(***************************************************************************)
Responses ==
    [head : BOOLEAN, header : Types, status : Nat, type : Types, body : Seq(Pieces),
     logStatus : Nat, logBytes : Nat, wroteHeader : BOOLEAN, rewriting : BOOLEAN]

\* A response before and after its header goes out.
Unsent(v, header) ==
    /\ v \in Responses /\ v.head = q.head /\ v.header = header
    /\ v.status = 0 /\ v.type = "none" /\ v.body = <<>>
    /\ v.logBytes = 0 /\ ~v.wroteHeader /\ ~v.rewriting

Sent(v, header, status, body, n, rewriting) ==
    /\ v \in Responses /\ v.head = q.head /\ v.header = header
    /\ v.status = status /\ v.type = header /\ v.body = body
    /\ v.logStatus = status /\ v.logBytes = n /\ v.wroteHeader /\ v.rewriting = rewriting

StageNames ==
    {"decodeJSON", "toDomain", "pathUUID", "requireUUID", "requireNonEmpty", "requireInRange",
     "GetArtistByID", "GetTrackByID", "GetAlbumByID", "GetPlaylistByID", "trackIDs",
     "CreateArtist", "CreateTrack", "CreateAlbum", "CreatePlaylist", "playlist_tracks",
     "DeleteArtist", "DeleteTrack", "DeleteAlbum", "DeletePlaylist", "lockPlaylists",
     "touchPlaylist", "AddTrack", "RemoveTrack", "renumber", "commit", "SetReadDeadline",
     "ContentLength", "head", "sniffAudio", "suffix", "Put", "SetTrackFile", "storageKey", "Get",
     "database", "blobstore"}

Stages == [at : StageNames, may : SUBSET Results]

\* Postgres refuses data, or a body cannot be read; nothing comes after it.
Refuses(e) == "rejected" \in e.may
Blocks(e) == "ok" \notin e.may

\* What the stages before let through is refused only where Slips says so.
Sound(s, r) ==
    \A i \in 1 .. Len(s) : Refuses(s[i]) => Slips(r) \/ \E j \in 1 .. (i - 1) : Blocks(s[j])

\* The stages to come, of which there are none after a failure; nothing has been
\* written yet.
Stepping ==
    pc = "handling" =>
        /\ q.to \notin MuxRoutes
        /\ stages \in Seq(Stages) /\ Sound(stages, q)
        /\ result # "ok" /\ q.to # "Readyz" => stages = <<>>
        /\ q.to = "Healthz" => stages = <<>>
        /\ q.to = "Readyz" => \A i \in 1 .. Len(stages) : stages[i].may \subseteq {"ok", "fault"}
        /\ Unsent(w, "none") /\ calls = <<>> /\ errors = {} /\ shown = Null

\* A failure is the result, but for one that comes while the answer is written.
\* Only some requests are refused by Postgres.
ResultMeans ==
    /\ result \in Results /\ faulted \in BOOLEAN
    /\ result = "fault" => faulted
    /\ faulted /\ result # "fault" => pc \in {"responding", "returned", "logged"}
    /\ result = "rejected" => Slips(q)
    /\ q.to \in {"Healthz"} \cup MuxRoutes => result = "ok"
    /\ q.to = "Readyz" => result \in {"ok", "fault"}
    /\ panicked \in BOOLEAN
    /\ pc \notin {"returned", "logged"} => ~panicked

-----------------------------------------------------------------------------
\* What a body becomes on the wire.
Body(pieces) == IF q.head THEN <<>> ELSE pieces

\* The answer may be this error, or this entity.
Means(status, payload) ==
    /\ \/ payload \in DOMAIN HTTP!StatusOf /\ status \in HTTP!StatusOf[payload]
       \/ payload = "entity" /\ status \in {200, 201, 503}
    /\ faulted => status >= 500
    /\ status >= 500 => faulted \/ Slips(q)
    /\ status = 500 => id \in errors

\* How far each kind of answer is written: what is still to be called, and what
\* has become of the response.
WritingJSON(status, payload) ==
    \/ calls = RespondWithJSON(status, payload) /\ Unsent(w, "none")
    \/ calls = <<[status |-> status], [write |-> payload]>> /\ Unsent(w, "json")
    \/ calls = <<[write |-> payload]>> /\ Sent(w, "json", status, <<>>, 0, FALSE)
    \/ calls = <<>> /\ Sent(w, "json", status, Body(<<payload>>), 1, FALSE)

WritesJSON ==
    \E status \in {200, 201, 400, 404, 409, 413, 500, 503}, payload \in Pieces :
        Means(status, payload) /\ WritingJSON(status, payload)

WritesNothing ==
    \/ calls = RespondNoContent /\ Unsent(w, "none")
    \/ calls = <<>> /\ Sent(w, "none", 204, <<>>, 0, FALSE)

WritingMuxError(status) ==
    \/ calls = PlainError(status) /\ Unsent(w, "none")
    \/ calls = <<[status |-> status], [write |-> "text"]>> /\ Unsent(w, "text")
    \/ /\ calls \in {<<[write |-> "text"]>>, <<>>}
       /\ Sent(w, "json", status, Body(<<muxErrors[status]>>), 1, TRUE)

WritesMuxError == \E status \in {404, 405} : WritingMuxError(status)

WritesRedirect ==
    \/ calls = RedirectToCleanPath /\ Unsent(w, "none")
    \/ calls = <<[status |-> 301], [write |-> "html"]>> /\ Unsent(w, "html")
    \/ calls = <<[write |-> "html"]>> /\ Sent(w, "html", 301, <<>>, 0, FALSE)
    \/ calls = <<>> /\ Sent(w, "html", 301, Body(<<"html">>), 1, FALSE)

WritingAudio(status) ==
    \/ calls = ServeContent(status, q.head) /\ Unsent(w, "none")
    \/ calls = Tail(ServeContent(status, q.head)) /\ Unsent(w, "audio")
    \/ q.head /\ calls = <<>> /\ Sent(w, "audio", status, <<>>, 0, FALSE)
    \/ /\ ~q.head
       /\ \/ /\ calls = <<[write |-> "audio"], [write |-> "audio"]>>
             /\ Sent(w, "audio", status, <<>>, 0, FALSE)
          \/ /\ calls = <<[write |-> "audio"]>>
             /\ Sent(w, "audio", status, <<"audio">>, 1, FALSE)
          \/ calls = <<>> /\ Sent(w, "audio", status, <<"audio", "audio">>, 2, FALSE)

WritesAudio == \E status \in {200, 206} : WritingAudio(status)

\* A read of the object has failed, before the first piece or between the two.
BreaksOff ==
    /\ calls = <<>> /\ faulted /\ ~q.head
    /\ \E status \in {200, 206} :
         \/ Sent(w, "audio", status, <<>>, 0, FALSE)
         \/ Sent(w, "audio", status, <<"audio">>, 1, FALSE)

WritesNotModified ==
    \/ calls = ServeContent(304, q.head) /\ Unsent(w, "none")
    \/ calls = <<[status |-> 304]>> /\ Unsent(w, "none")
    \/ calls = <<>> /\ Sent(w, "none", 304, <<>>, 0, FALSE)

WritesPreconditionFailed ==
    \/ calls = ServeContent(412, q.head) /\ Unsent(w, "none")
    \/ calls = <<[status |-> 412]>> /\ Unsent(w, "audio")
    \/ calls = <<>> /\ Sent(w, "audio", 412, <<>>, 0, FALSE)

WritesRangeError ==
    \/ calls = ServeContent(416, q.head) /\ Unsent(w, "none")
    \/ calls = Tail(ServeContent(416, q.head)) /\ Unsent(w, "audio")
    \/ calls = <<[status |-> 416], [write |-> "text"]>> /\ Unsent(w, "text")
    \/ calls = <<[write |-> "text"]>> /\ Sent(w, "text", 416, <<>>, 0, FALSE)
    \/ calls = <<>> /\ Sent(w, "text", 416, Body(<<"text">>), 1, FALSE)

Responding ==
    pc = "responding" =>
        \/ WritesJSON /\ (faulted => errors # {})
        \/ /\ ~faulted
           /\ \/ WritesNothing \/ WritesMuxError \/ WritesRedirect \/ WritesAudio
              \/ WritesNotModified \/ WritesPreconditionFailed \/ WritesRangeError
        \/ BreaksOff

-----------------------------------------------------------------------------
ReplyOf(v) == [head |-> v.head, status |-> v.status, type |-> v.type, body |-> v.body]

\* All has been written.
Complete ==
    /\ w \in Responses /\ w.status \in 200 .. 503 /\ HTTP!WellFormed(ReplyOf(w))
    /\ w.logStatus = w.status
    /\ ~w.head => w.logBytes = Len(w.body)
    /\ faulted \/ panicked => w.status >= 500 \/ CutShort(w)
    /\ CutShort(w) => faulted \/ panicked
    /\ faulted \/ panicked => errors # {} \/ (~panicked /\ CutShort(w))
    /\ w.status >= 500 => faulted \/ panicked \/ Slips(q)
    /\ w.status = 500 => id \in errors

Answered == pc \in {"returned", "logged"} => Complete

Logged ==
    /\ echoed = id
    /\ pc # "logged" => line = Null
    /\ pc = "logged" => line = [status |-> w.logStatus, bytes |-> w.logBytes, id |-> id]

\* The row that is kept in mind was created by a request that came in, the
\* current one if it is a creation; the entity shown is the one it answered, as
\* Postgres gives it back unless this is the creation.
Remembered ==
    /\ stored # Null => \E r \in Inputs : r.to \in Creates /\ stored = Inserted(r)
    /\ q.to \in Creates => stored \in {Null, Inserted(q)}
    /\ shown # Null =>
         /\ stored # Null
         /\ shown = IF q.to \in Creates THEN stored.shown ELSE InCanonicalIds(stored.shown)

HttpInv ==
    /\ pc \in {"ready", "handling", "responding", "returned", "logged"}
    /\ q \in Inputs \cup {Plain("Healthz")}
    /\ pc = "ready" => Unsent(w, "none") /\ stages = <<>>
    /\ pc # "ready" => q \in Inputs /\ id \in RequestIds
    /\ pc # "handling" => stages = <<>>
    /\ ResultMeans
    /\ Stepping
    /\ Responding
    /\ Answered
    /\ Logged
    /\ Remembered

\* What there is to see of an exchange, by how far it has come.
Seen ==
    /\ Reply = Null <=> pc \notin {"returned", "logged"}
    /\ line = Null <=> pc # "logged"

-----------------------------------------------------------------------------
(***************************************************************************)
(* The calls on the response writer.                                       *)
(***************************************************************************)
LEMMA WhatIsCalled ==
  /\ \A x : /\ Does([set |-> x], "set") /\ ~Does([set |-> x], "status")
            /\ ~Does([status |-> x], "set") /\ ~Does([write |-> x], "set")
            /\ Does([status |-> x], "status") /\ ~Does([write |-> x], "status")
  /\ \A x, y : [status |-> x] # [write |-> y] /\ [set |-> x] # [write |-> y]
  /\ \A x, y : [write |-> x] = [write |-> y] => x = y
  <1>1. \A x : /\ Does([set |-> x], "set") /\ ~Does([set |-> x], "status")
               /\ ~Does([status |-> x], "set") /\ ~Does([write |-> x], "set")
               /\ Does([status |-> x], "status") /\ ~Does([write |-> x], "status")
    BY DEF Does
  <1>2. \A x, y : [status |-> x] # [write |-> y] /\ [set |-> x] # [write |-> y]
    OBVIOUS
  <1>3. \A x, y : [write |-> x] = [write |-> y] => x = y
    <2> TAKE x, y
    <2>1. [write |-> x].write = x /\ [write |-> y].write = y
      OBVIOUS
    <2> QED BY <2>1
  <1> QED BY <1>1, <1>2, <1>3

\* A call that sets the content type of a response not yet begun.
LEMMA SetsHeader ==
  ASSUME NEW v, NEW old, NEW new \in Types, Unsent(v, old)
  PROVE  Unsent(SetHeader(v, new), new) /\ Unsent(Apply(v, [set |-> new]), new)
  <1>1. v \in Responses
    BY DEF Unsent
  <1> DEFINE u == [v EXCEPT !.header = new]
  <1>2. u \in Responses
    BY <1>1 DEF Responses
  <1>3. u.header = new /\ u.head = v.head /\ u.status = v.status /\ u.type = v.type
    BY <1>1 DEF Responses
  <1>4. u.body = v.body /\ u.logBytes = v.logBytes /\ u.wroteHeader = v.wroteHeader
          /\ u.rewriting = v.rewriting
    BY <1>1 DEF Responses
  <1>5. SetHeader(v, new) = u
    BY DEF SetHeader
  <1>6. [set |-> new].set = new
    OBVIOUS
  <1>7. Apply(v, [set |-> new]) = SetHeader(v, new)
    BY <1>6, WhatIsCalled DEF Apply
  <1> HIDE DEF u
  <1> QED BY <1>2, <1>3, <1>4, <1>5, <1>7 DEF Unsent

LEMMA RecordsHeader ==
  ASSUME NEW v, NEW header, NEW status \in Nat \ {0}, Unsent(v, header)
  PROVE  Sent(RecorderWriteHeader(v, status), header, status, <<>>, 0, FALSE)
  BY DEF RecorderWriteHeader, NetWriteHeader, Sent, Unsent, Responses

LEMMA SendsHeader ==
  ASSUME NEW v, NEW header, NEW status \in Nat \ {0},
         status \notin DOMAIN muxErrors \/ header # "text", Unsent(v, header)
  PROVE  Sent(Apply(v, [status |-> status]), header, status, <<>>, 0, FALSE)
  <1>1. Apply(v, [status |-> status]) = RewriterWriteHeader(v, status)
    BY WhatIsCalled DEF Apply
  <1>2. RewriterWriteHeader(v, status) = RecorderWriteHeader(v, status)
    BY DEF RewriterWriteHeader, Unsent
  <1> QED BY <1>1, <1>2, RecordsHeader

LEMMA RecordsPiece ==
  ASSUME NEW v, NEW header, NEW status \in Nat \ {0, 204, 304}, NEW body \in Seq(Pieces),
         NEW n \in Nat, NEW piece \in Pieces, Sent(v, header, status, body, n, FALSE)
  PROVE  Sent(RecorderWrite(v, piece), header, status, IF q.head THEN body ELSE Append(body, piece),
              n + 1, FALSE)
  <1> DEFINE now == IF q.head THEN body ELSE Append(body, piece)
             b == [v EXCEPT !.body = now]
             u == [b EXCEPT !.logBytes = n + 1]
  <1>1. NetAccepts(v) /\ NetWriteHeader(v, 200) = v /\ v.wroteHeader
    BY DEF NetAccepts, NetWriteHeader, Sent
  <1>2. v \in Responses /\ v.body = body /\ v.logBytes = n /\ v.head = q.head
    BY DEF Sent
  <1>3. now \in Seq(Pieces)
    OBVIOUS
  <1>4. NetWrite(v, piece) = b
    <2>1. CASE q.head
      <3>1. NetWrite(v, piece) = v
        BY <1>1, <1>2, <2>1 DEF NetWrite
      <3>2. [v EXCEPT !.body = v.body] = v
        BY <1>2 DEF Responses
      <3> QED BY <1>2, <2>1, <3>1, <3>2
    <2>2. CASE ~q.head
      BY <1>1, <1>2, <2>2, ZenonT(60) DEF NetWrite
    <2> QED BY <2>1, <2>2
  <1> HIDE DEF now
  <1>5. b \in Responses
    BY <1>2, <1>3 DEF Responses
  <1>6. b.body = now /\ b.logBytes = n /\ b.head = v.head /\ b.header = v.header
    BY <1>2, <1>3 DEF Responses
  <1>7. b.status = v.status /\ b.type = v.type /\ b.logStatus = v.logStatus
          /\ b.wroteHeader = v.wroteHeader /\ b.rewriting = v.rewriting
    BY <1>2, <1>3 DEF Responses
  <1> HIDE DEF b
  <1>8. RecorderWrite(v, piece) = u
    BY <1>1, <1>4, <1>6 DEF RecorderWrite
  <1>9. u \in Responses
    BY <1>5, SMTT(60) DEF Responses
  <1>10. u.body = b.body /\ u.logBytes = n + 1 /\ u.head = b.head /\ u.header = b.header
    BY <1>5 DEF Responses
  <1>11. u.status = b.status /\ u.type = b.type /\ u.logStatus = b.logStatus
          /\ u.wroteHeader = b.wroteHeader /\ u.rewriting = b.rewriting
    BY <1>5 DEF Responses
  <1> HIDE DEF u
  <1>12. Sent(u, header, status, now, n + 1, FALSE)
    BY <1>6, <1>7, <1>9, <1>10, <1>11 DEF Sent
  <1> QED BY <1>8, <1>12 DEF now

LEMMA SendsPiece ==
  ASSUME NEW v, NEW header, NEW status \in Nat \ {0, 204, 304}, NEW body \in Seq(Pieces),
         NEW n \in Nat, NEW piece \in Pieces, Sent(v, header, status, body, n, FALSE)
  PROVE  Sent(Apply(v, [write |-> piece]), header, status,
              IF q.head THEN body ELSE Append(body, piece), n + 1, FALSE)
  <1>1. Apply(v, [write |-> piece]) = RewriterWrite(v, piece)
    BY WhatIsCalled DEF Apply
  <1>2. RewriterWrite(v, piece) = RecorderWrite(v, piece)
    BY DEF RewriterWrite, Sent
  <1> QED BY <1>1, <1>2, RecordsPiece, ZenonT(60)

LEMMA DropsPiece ==
  ASSUME NEW v, NEW header, NEW status, NEW body, NEW n, NEW piece,
         Sent(v, header, status, body, n, TRUE)
  PROVE  Sent(Apply(v, [write |-> piece]), header, status, body, n, TRUE)
  BY WhatIsCalled DEF Apply, RewriterWrite, Sent

\* A header and a body of JSON, through the recorder.
LEMMA RecordsJSON ==
  ASSUME NEW v, NEW header, NEW status \in Nat \ {0, 204, 304}, NEW payload \in Pieces,
         Unsent(v, header)
  PROVE  Sent(RecorderWrite(RecorderWriteHeader(SetHeader(v, "json"), status), payload),
              "json", status, Body(<<payload>>), 1, FALSE)
  <1>1. Unsent(SetHeader(v, "json"), "json")
    BY SetsHeader DEF Types
  <1>2. Sent(RecorderWriteHeader(SetHeader(v, "json"), status), "json", status, <<>>, 0, FALSE)
    BY <1>1, RecordsHeader
  <1>3. /\ <<>> \in Seq(Pieces) /\ Append(<<>>, payload) = <<payload>> /\ 0 + 1 = 1
    OBVIOUS
  <1>4. Body(<<payload>>) = IF q.head THEN <<>> ELSE Append(<<>>, payload)
    BY <1>3 DEF Body
  <1> DEFINE u == RecorderWriteHeader(SetHeader(v, "json"), status)
  <1> HIDE DEF u
  <1>5. Sent(u, "json", status, <<>>, 0, FALSE)
    BY <1>2 DEF u
  <1> DEFINE none == <<>>
             zero == 0
  <1>6. none \in Seq(Pieces) /\ zero \in Nat
    BY <1>3
  <1>7. Sent(u, "json", status, none, zero, FALSE)
    BY <1>5
  <1>8. zero + 1 = 1
    OBVIOUS
  <1>9. Body(<<payload>>) = IF q.head THEN none ELSE Append(none, payload)
    BY <1>4
  <1> HIDE DEF none, zero
  <1>10. Sent(RecorderWrite(u, payload), "json", status,
              IF q.head THEN none ELSE Append(none, payload), zero + 1, FALSE)
    BY <1>6, <1>7, RecordsPiece
  <1>11. Sent(RecorderWrite(u, payload), "json", status, Body(<<payload>>), zero + 1, FALSE)
    BY <1>9, <1>10
  <1>12. Sent(RecorderWrite(u, payload), "json", status, Body(<<payload>>), 1, FALSE)
    BY <1>8, <1>11
  <1> QED BY <1>12 DEF u

LEMMA RewritesMuxError ==
  ASSUME NEW v, NEW status \in Nat \ {0, 204, 304}, status \in DOMAIN muxErrors,
         muxErrors[status] \in Pieces, Unsent(v, "text")
  PROVE  Sent(Apply(v, [status |-> status]), "json", status, Body(<<muxErrors[status]>>), 1, TRUE)
  <1> DEFINE m == muxErrors[status]
  <1>1. m \in Pieces
    OBVIOUS
  <1>2. Apply(v, [status |-> status]) = RewriterWriteHeader(v, status)
    BY WhatIsCalled DEF Apply
  <1> DEFINE u == RecorderWrite(RecorderWriteHeader(SetHeader(v, "json"), status), m)
             x == [u EXCEPT !.rewriting = TRUE]
  <1>3. RewriterWriteHeader(v, status) = x
    BY <1>1 DEF RewriterWriteHeader, Unsent
  <1> HIDE DEF m, x
  <1>4. Sent(u, "json", status, Body(<<m>>), 1, FALSE)
    BY <1>1, RecordsJSON
  <1> HIDE DEF u
  <1>5. u \in Responses
    BY <1>4 DEF Sent
  <1> USE DEF x
  <1>6. x \in Responses /\ x.rewriting = TRUE /\ x.body = u.body /\ x.head = u.head
    BY <1>5 DEF Responses
  <1>7. x.header = u.header /\ x.logBytes = u.logBytes /\ x.status = u.status
    BY <1>5 DEF Responses
  <1>8. x.type = u.type /\ x.logStatus = u.logStatus /\ x.wroteHeader = u.wroteHeader
    BY <1>5 DEF Responses
  <1> HIDE DEF x
  <1>9. Sent(x, "json", status, Body(<<m>>), 1, TRUE)
    BY <1>4, <1>6, <1>7, <1>8 DEF Sent
  <1> QED BY <1>2, <1>3, <1>9 DEF m

-----------------------------------------------------------------------------
(***************************************************************************)
(* The stages of the handlers.                                             *)
(***************************************************************************)
LEMMA CheckStage ==
  ASSUME NEW n \in StageNames, NEW c \in BOOLEAN
  PROVE  Check(n, c) \in Stages /\ ~Refuses(Check(n, c)) /\ (~c => Blocks(Check(n, c)))
  <1>1. {"ok"} \subseteq Results /\ {"InvalidInput"} \subseteq Results
    BY DEF Results, Sentinels
  <1>2. CASE c
    BY <1>1, <1>2 DEF Check, Stage, Stages, Refuses, Blocks
  <1>3. CASE ~c
    BY <1>1, <1>3 DEF Check, Stage, Stages, Refuses, Blocks
  <1> QED BY <1>2, <1>3

LEMMA CallStage ==
  ASSUME NEW n \in StageNames, NEW may \in SUBSET (Results \ {"rejected"})
  PROVE  Call(n, may) \in Stages /\ ~Refuses(Call(n, may))
  <1>1. "fault" \in Results
    BY DEF Results
  <1> QED BY <1>1 DEF Call, Stage, Stages, Refuses

LEMMA StatementStage ==
  ASSUME NEW n \in StageNames, NEW c \in BOOLEAN, NEW may \in SUBSET (Results \ {"rejected"})
  PROVE  Statement(n, c, may) \in Stages /\ (c => ~Refuses(Statement(n, c, may)))
  <1>1. {"fault", "rejected"} \subseteq Results
    BY DEF Results
  <1>2. CASE c
    BY <1>1, <1>2 DEF Statement, Stage, Stages, Refuses
  <1>3. CASE ~c
    BY <1>1, <1>3 DEF Statement, Stage, Stages, Refuses
  <1> QED BY <1>2, <1>3

LEMMA OneStage ==
  ASSUME NEW r, NEW e \in Stages, Refuses(e) => Slips(r)
  PROVE  <<e>> \in Seq(Stages) /\ Sound(<<e>>, r)
  <1> HIDE DEF Stages, Refuses, Slips
  <1> QED BY DEF Sound

\* One more stage.
LEMMA MoreStages ==
  ASSUME NEW r, NEW s \in Seq(Stages), Sound(s, r), NEW e \in Stages,
         Refuses(e) => Slips(r) \/ \E j \in 1 .. Len(s) : Blocks(s[j])
  PROVE  /\ Append(s, e) \in Seq(Stages) /\ Sound(Append(s, e), r)
         /\ Len(Append(s, e)) = Len(s) + 1
         /\ \A j \in 1 .. Len(s) : Append(s, e)[j] = s[j]
         /\ Append(s, e)[Len(s) + 1] = e
  <1> DEFINE t == Append(s, e)
  <1>1. t \in Seq(Stages) /\ Len(t) = Len(s) + 1 /\ Len(s) \in Nat
    OBVIOUS
  <1>2. \A j \in 1 .. Len(s) : t[j] = s[j]
    OBVIOUS
  <1>3. t[Len(s) + 1] = e
    OBVIOUS
  <1> HIDE DEF t
  <1>4. Sound(t, r)
    <2> SUFFICES ASSUME NEW i \in 1 .. Len(t), Refuses(t[i])
                 PROVE  Slips(r) \/ \E j \in 1 .. (i - 1) : Blocks(t[j])
      BY DEF Sound
    <2>1. CASE i = Len(s) + 1
      <3>1. Slips(r) \/ \E j \in 1 .. Len(s) : Blocks(s[j])
        BY <1>3, <2>1
      <3> QED BY <1>1, <1>2, <2>1, <3>1
    <2>2. CASE i \in 1 .. Len(s)
      <3>1. Slips(r) \/ \E j \in 1 .. (i - 1) : Blocks(s[j])
        BY <1>2, <2>2 DEF Sound
      <3> QED BY <1>1, <1>2, <2>2, <3>1
    <2> QED BY <1>1, <2>1, <2>2
  <1> QED BY <1>1, <1>2, <1>3, <1>4 DEF t

LEMMA StagesInARow ==
  ASSUME NEW r, NEW s \in Seq(Stages), NEW t \in Seq(Stages), Sound(s, r),
         \A i \in 1 .. Len(t) :
           Refuses(t[i]) => \/ Slips(r)
                            \/ \E j \in 1 .. Len(s) : Blocks(s[j])
                            \/ \E j \in 1 .. (i - 1) : Blocks(t[j])
  PROVE  /\ s \o t \in Seq(Stages) /\ Sound(s \o t, r)
         /\ Len(s \o t) = Len(s) + Len(t)
         /\ \A j \in 1 .. Len(s) : (s \o t)[j] = s[j]
         /\ \A j \in 1 .. Len(t) : (s \o t)[Len(s) + j] = t[j]
  <1> DEFINE u == s \o t
  <1>1. Len(s) \in Nat /\ Len(t) \in Nat
    OBVIOUS
  <1>2. /\ u \in Seq(Stages) /\ Len(u) = Len(s) + Len(t)
        /\ \A j \in 1 .. Len(u) : u[j] = IF j <= Len(s) THEN s[j] ELSE t[j - Len(s)]
    BY ConcatProperties
  <1> HIDE DEF u
  <1>3. \A j \in 1 .. Len(s) : u[j] = s[j]
    BY <1>1, <1>2
  <1>4. \A j \in 1 .. Len(t) : u[Len(s) + j] = t[j]
    <2> TAKE j \in 1 .. Len(t)
    <2>1. Len(s) + j \in 1 .. Len(u) /\ ~(Len(s) + j <= Len(s)) /\ Len(s) + j - Len(s) = j
      BY <1>1, <1>2
    <2> QED BY <1>2, <2>1
  <1>5. Sound(u, r)
    <2> SUFFICES ASSUME NEW i \in 1 .. Len(u), Refuses(u[i])
                 PROVE  Slips(r) \/ \E j \in 1 .. (i - 1) : Blocks(u[j])
      BY DEF Sound
    <2>1. CASE i \in 1 .. Len(s)
      <3>1. Slips(r) \/ \E j \in 1 .. (i - 1) : Blocks(s[j])
        BY <1>3, <2>1 DEF Sound
      <3> QED BY <1>1, <1>3, <2>1, <3>1
    <2>2. CASE i \notin 1 .. Len(s)
      <3> DEFINE k == i - Len(s)
      <3>1. k \in 1 .. Len(t) /\ i = Len(s) + k
        BY <1>1, <1>2, <2>2
      <3>2. \/ Slips(r)
            \/ \E j \in 1 .. Len(s) : Blocks(s[j])
            \/ \E j \in 1 .. (k - 1) : Blocks(t[j])
        BY <1>4, <3>1
      <3>3. CASE \E j \in 1 .. Len(s) : Blocks(s[j])
        <4>1. PICK j \in 1 .. Len(s) : Blocks(s[j])
          BY <3>3
        <4>2. j \in 1 .. (i - 1) /\ Blocks(u[j])
          BY <1>1, <1>3, <3>1, <4>1
        <4> QED BY <4>2
      <3>4. CASE \E j \in 1 .. (k - 1) : Blocks(t[j])
        <4>1. PICK j \in 1 .. (k - 1) : Blocks(t[j])
          BY <3>4
        <4>2. j \in 1 .. Len(t) /\ Len(s) + j \in 1 .. (i - 1)
          BY <1>1, <3>1
        <4> QED BY <1>4, <4>1, <4>2
      <3> QED BY <3>2, <3>3, <3>4
    <2> QED BY <2>1, <2>2
  <1> QED BY <1>2, <1>3, <1>4, <1>5 DEF u

\* Checks of the request itself may follow anything.
LEMMA ChecksInARow ==
  ASSUME NEW r, NEW s \in Seq(Stages), NEW t \in Seq(Stages), Sound(s, r),
         \A i \in 1 .. Len(t) : ~Refuses(t[i])
  PROVE  /\ s \o t \in Seq(Stages) /\ Sound(s \o t, r)
         /\ Len(s \o t) = Len(s) + Len(t)
         /\ \A j \in 1 .. Len(s) : (s \o t)[j] = s[j]
         /\ \A j \in 1 .. Len(t) : (s \o t)[Len(s) + j] = t[j]
  <1>1. \A i \in 1 .. Len(t) :
          Refuses(t[i]) => \/ Slips(r)
                           \/ \E j \in 1 .. Len(s) : Blocks(s[j])
                           \/ \E j \in 1 .. (i - 1) : Blocks(t[j])
    OBVIOUS
  <1> QED BY <1>1, StagesInARow

\* A stage that let the request through, or that refuses nothing, can be left out.
LEMMA RestSound ==
  ASSUME NEW r, NEW s \in Seq(Stages), s # <<>>, Sound(s, r),
         \/ ~Blocks(s[1])
         \/ \A i \in 1 .. Len(s) : ~Refuses(s[i])
  PROVE  Sound(Tail(s), r)
  <1> DEFINE u == Tail(s)
  <1>1. /\ Len(s) \in Nat \ {0} /\ Len(u) = Len(s) - 1
        /\ \A i \in 1 .. (Len(s) - 1) : u[i] = s[i + 1]
    <2> HIDE DEF Stages
    <2> QED OBVIOUS
  <1> HIDE DEF u
  <1>2. SUFFICES ASSUME NEW i \in 1 .. Len(u), Refuses(u[i])
                 PROVE  Slips(r) \/ \E j \in 1 .. (i - 1) : Blocks(u[j])
    BY DEF Sound, u
  <1>3. i + 1 \in 1 .. Len(s) /\ Refuses(s[i + 1]) /\ i \in Nat /\ i + 1 - 1 = i
    BY <1>1, <1>2
  <1>4. Slips(r) \/ \E j \in 1 .. (i + 1 - 1) : Blocks(s[j])
    BY <1>3 DEF Sound
  <1>5. CASE \E j \in 1 .. i : Blocks(s[j])
    <2>1. PICK j \in 1 .. i : Blocks(s[j])
      BY <1>5
    <2>2. j # 1
      BY <1>3, <2>1
    <2>3. j - 1 \in 1 .. (i - 1) /\ j - 1 \in 1 .. (Len(s) - 1) /\ j - 1 + 1 = j
      BY <1>1, <1>2, <1>3, <2>1, <2>2
    <2>4. u[j - 1] = s[j]
      BY <1>1, <2>3
    <2> QED BY <2>1, <2>3, <2>4
  <1> QED BY <1>3, <1>4, <1>5

LEMMA TwoStages ==
  ASSUME NEW r, NEW a \in Stages, NEW b \in Stages, Refuses(a) => Slips(r),
         Refuses(b) => Slips(r) \/ Blocks(a)
  PROVE  /\ <<a, b>> \in Seq(Stages) /\ Sound(<<a, b>>, r)
         /\ Len(<<a, b>>) = 2 /\ <<a, b>>[1] = a /\ <<a, b>>[2] = b
  <1>1. <<a>> \in Seq(Stages) /\ Sound(<<a>>, r) /\ Len(<<a>>) = 1 /\ <<a>>[1] = a
    BY OneStage
  <1>2. <<a, b>> = Append(<<a>>, b)
    OBVIOUS
  <1> DEFINE s == <<a>>
  <1>3. Refuses(b) => Slips(r) \/ \E j \in 1 .. Len(s) : Blocks(s[j])
    BY <1>1
  <1>4. Append(s, b) \in Seq(Stages) /\ Sound(Append(s, b), r)
    <2>1. s \in Seq(Stages) /\ Sound(s, r)
      BY <1>1
    <2> HIDE DEF s
    <2> QED BY <1>3, <2>1, MoreStages
  <1> QED BY <1>2, <1>4

\* Of the ids that uuid.Parse takes, Postgres refuses only the urn.
LEMMA KindsOfId ==
  ASSUME NEW x
  PROVE  /\ UUIDParses(x) \in BOOLEAN /\ PostgresUUID(x) \in BOOLEAN
         /\ UUIDParses(x) /\ ~PostgresUUID(x) => x = "urn"
  <1>1. UUIDParses(x) <=> x \in {"uuid", "UUID", "urn"}
    BY DEF UUIDParses
  <1>2. PostgresUUID(x) <=> x \in {"uuid", "UUID"}
    BY DEF PostgresUUID
  <1>3. UUIDParses(x) \in BOOLEAN
    BY DEF UUIDParses
  <1>4. PostgresUUID(x) \in BOOLEAN
    BY DEF PostgresUUID
  <1>5. UUIDParses(x) /\ ~PostgresUUID(x) => x = "urn"
    BY <1>1, <1>2
  <1> QED BY <1>3, <1>4, <1>5

LEMMA PathStage ==
  ASSUME NEW x
  PROVE  /\ PathUUID(x) \in Stages /\ ~Refuses(PathUUID(x))
         /\ RequireUUID(x) \in Stages /\ ~Refuses(RequireUUID(x))
         /\ ~UUIDParses(x) => Blocks(PathUUID(x)) /\ Blocks(RequireUUID(x))
  <1>1. UUIDParses(x) \in BOOLEAN
    BY KindsOfId
  <1>2. "pathUUID" \in StageNames /\ "requireUUID" \in StageNames
    BY DEF StageNames
  <1> QED BY <1>1, <1>2, CheckStage DEF PathUUID, RequireUUID

LEMMA GetByIDSound ==
  ASSUME NEW r, NEW n \in StageNames
  PROVE  GetByID(n, r) \in Seq(Stages) /\ Sound(GetByID(n, r), r) /\ Len(GetByID(n, r)) = 2
  <1> DEFINE a == PathUUID(r.id)
             b == Statement(n, PostgresUUID(r.id), Found)
  <1>1. a \in Stages /\ ~Refuses(a) /\ (~UUIDParses(r.id) => Blocks(a))
    BY PathStage
  <1>2. Found \in SUBSET (Results \ {"rejected"})
    BY DEF Found, Results, Sentinels
  <1>3. PostgresUUID(r.id) \in BOOLEAN
    BY KindsOfId
  <1>4. b \in Stages /\ (Refuses(b) => ~PostgresUUID(r.id))
    BY <1>2, <1>3, StatementStage
  <1>5. UUIDParses(r.id) /\ ~PostgresUUID(r.id) => Slips(r)
    BY KindsOfId DEF Slips
  <1>6. GetByID(n, r) = <<a, b>>
    BY DEF GetByID
  <1> HIDE DEF a, b
  <1> QED BY <1>1, <1>4, <1>5, <1>6, TwoStages

\* A call that takes any data, after others.
LEMMA CallMore ==
  ASSUME NEW r, NEW s \in Seq(Stages), Sound(s, r), NEW e \in Stages, ~Refuses(e)
  PROVE  Append(s, e) \in Seq(Stages) /\ Sound(Append(s, e), r)
  BY MoreStages


LEMMA ByIDSound ==
  ASSUME NEW r, NEW n \in StageNames, NEW may \in SUBSET (Results \ {"rejected"})
  PROVE  LET s == <<PathUUID(r.id), Statement(n, PostgresUUID(r.id), may)>>
         IN  s \in Seq(Stages) /\ Sound(s, r)
  <1> DEFINE a == PathUUID(r.id)
             b == Statement(n, PostgresUUID(r.id), may)
  <1>1. a \in Stages /\ ~Refuses(a) /\ (~UUIDParses(r.id) => Blocks(a))
    BY PathStage
  <1>3. PostgresUUID(r.id) \in BOOLEAN
    BY KindsOfId
  <1>4. b \in Stages /\ (Refuses(b) => ~PostgresUUID(r.id))
    BY <1>3, StatementStage
  <1>5. UUIDParses(r.id) /\ ~PostgresUUID(r.id) => Slips(r)
    BY KindsOfId DEF Slips
  <1> HIDE DEF a, b
  <1>6. <<a, b>> \in Seq(Stages) /\ Sound(<<a, b>>, r)
    BY <1>1, <1>4, <1>5, TwoStages
  <1> QED BY <1>6 DEF a, b

LEMMA Mays ==
  /\ Found \in SUBSET (Results \ {"rejected"})
  /\ {"ok"} \in SUBSET (Results \ {"rejected"})
  /\ {"Conflict"} \in SUBSET (Results \ {"rejected"})
  /\ {"ok", "InvalidInput"} \in SUBSET (Results \ {"rejected"})
  /\ {"ok", "NotFound", "DuplicateAudio"} \in SUBSET (Results \ {"rejected"})
  BY DEF Found, Results, Sentinels

LEMMA FetchesSound ==
  ASSUME NEW r
  PROVE  /\ GetArtist(r) \in Seq(Stages) /\ Sound(GetArtist(r), r)
         /\ GetTrack(r) \in Seq(Stages) /\ Sound(GetTrack(r), r)
         /\ GetAlbum(r) \in Seq(Stages) /\ Sound(GetAlbum(r), r)
         /\ DeleteAlbum(r) \in Seq(Stages) /\ Sound(DeleteAlbum(r), r)
         /\ DeletePlaylist(r) \in Seq(Stages) /\ Sound(DeletePlaylist(r), r)
         /\ GetPlaylist(r) \in Seq(Stages) /\ Sound(GetPlaylist(r), r)
  <1>1. \A n \in {"GetArtistByID", "GetTrackByID", "GetAlbumByID", "DeleteAlbum", "DeletePlaylist",
                  "GetPlaylistByID"} :
          GetByID(n, r) \in Seq(Stages) /\ Sound(GetByID(n, r), r)
    BY GetByIDSound DEF StageNames
  <1>2. Call("trackIDs", {"ok"}) \in Stages /\ ~Refuses(Call("trackIDs", {"ok"}))
    BY Mays, CallStage DEF StageNames
  <1>3. GetPlaylist(r) \in Seq(Stages) /\ Sound(GetPlaylist(r), r)
    BY <1>1, <1>2, CallMore DEF GetPlaylist
  <1> QED BY <1>1, <1>3 DEF GetArtist, GetTrack, GetAlbum, DeleteAlbum, DeletePlaylist

LEMMA DeletesSound ==
  ASSUME NEW r
  PROVE  /\ DeleteArtist(r) \in Seq(Stages) /\ Sound(DeleteArtist(r), r)
         /\ DeleteTrack(r) \in Seq(Stages) /\ Sound(DeleteTrack(r), r)
  <1>1. \A n \in {"commit", "renumber"} :
          Call(n, {"ok"}) \in Stages /\ ~Refuses(Call(n, {"ok"}))
    BY Mays, CallStage DEF StageNames
  <1>2. Call("DeleteTrack", Found) \in Stages /\ ~Refuses(Call("DeleteTrack", Found))
    BY Mays, CallStage DEF StageNames
  <1>3. DeleteArtist(r) \in Seq(Stages) /\ Sound(DeleteArtist(r), r)
    <2> DEFINE s == <<PathUUID(r.id), Statement("DeleteArtist", PostgresUUID(r.id), Found)>>
    <2>1. s \in Seq(Stages) /\ Sound(s, r)
      BY Mays, ByIDSound DEF StageNames
    <2>2. DeleteArtist(r) = Append(s, Call("commit", {"ok"}))
      BY DEF DeleteArtist
    <2> HIDE DEF s
    <2> QED BY <1>1, <2>1, <2>2, CallMore
  <1>4. DeleteTrack(r) \in Seq(Stages) /\ Sound(DeleteTrack(r), r)
    <2> DEFINE s == <<PathUUID(r.id), Statement("lockPlaylists", PostgresUUID(r.id), {"ok"})>>
               t == Append(s, Call("DeleteTrack", Found))
               u == Append(t, Call("renumber", {"ok"}))
    <2>1. s \in Seq(Stages) /\ Sound(s, r)
      BY Mays, ByIDSound DEF StageNames
    <2>2. DeleteTrack(r) = Append(u, Call("commit", {"ok"}))
      BY DEF DeleteTrack
    <2> HIDE DEF s
    <2>3. t \in Seq(Stages) /\ Sound(t, r)
      BY <1>2, <2>1, CallMore
    <2> HIDE DEF t
    <2>4. u \in Seq(Stages) /\ Sound(u, r)
      BY <1>1, <2>3, CallMore
    <2> HIDE DEF u
    <2> QED BY <1>1, <2>2, <2>4, CallMore
  <1> QED BY <1>3, <1>4

LEMMA TextStage ==
  ASSUME NEW x
  PROVE  /\ DecodeJSON(x) \in Stages /\ ~Refuses(DecodeJSON(x))
         /\ RequireNonEmpty(x) \in Stages /\ ~Refuses(RequireNonEmpty(x))
         /\ \A n \in {"CreateArtist", "CreatePlaylist"} :
              /\ Statement(n, PostgresText(x), {"ok"}) \in Stages
              /\ Refuses(Statement(n, PostgresText(x), {"ok"})) => x = "nul"
  <1>1. "decodeJSON" \in StageNames /\ "requireNonEmpty" \in StageNames
          /\ {"CreateArtist", "CreatePlaylist"} \subseteq StageNames
    BY DEF StageNames
  <1>2. (x = "good") \in BOOLEAN /\ (x # "") \in BOOLEAN
    OBVIOUS
  <1>3. PostgresText(x) \in BOOLEAN /\ (PostgresText(x) <=> x # "nul")
    BY DEF PostgresText
  <1> QED BY <1>1, <1>2, <1>3, Mays, CheckStage, StatementStage DEF DecodeJSON, RequireNonEmpty

LEMMA CreateArtistSound ==
  ASSUME NEW r
  PROVE  CreateArtist(r) \in Seq(Stages) /\ Sound(CreateArtist(r), r)
  <1> DEFINE a == DecodeJSON(r.json)
             b == RequireNonEmpty(r.title)
             c == Statement("CreateArtist", PostgresText(r.title), {"ok"})
             s == <<a, b>>
  <1>1. a \in Stages /\ ~Refuses(a) /\ b \in Stages /\ ~Refuses(b) /\ c \in Stages
    BY TextStage
  <1>2. Refuses(c) => Slips(r)
    BY TextStage DEF Slips
  <1>3. CreateArtist(r) = Append(s, c)
    BY DEF CreateArtist
  <1> HIDE DEF a, b, c
  <1>4. s \in Seq(Stages) /\ Sound(s, r)
    BY <1>1, TwoStages
  <1> HIDE DEF s
  <1> QED BY <1>1, <1>2, <1>3, <1>4, MoreStages


LEMMA CreateAlbumSound ==
  ASSUME NEW r
  PROVE  CreateAlbum(r) \in Seq(Stages) /\ Sound(CreateAlbum(r), r)
  <1> DEFINE a == DecodeJSON(r.json)
             b == Check("toDomain", r.date # "bad")
             c == RequireNonEmpty(r.title)
             d == RequireUUID(r.artist)
             ok == PostgresText(r.title) /\ PostgresUUID(r.artist)
             e == Statement("CreateAlbum", ok, {"ok", "InvalidInput"})
  <1>1. a \in Stages /\ ~Refuses(a) /\ c \in Stages /\ ~Refuses(c)
    BY TextStage
  <1>2. b \in Stages /\ ~Refuses(b)
    BY CheckStage DEF StageNames
  <1>3. d \in Stages /\ ~Refuses(d) /\ (~UUIDParses(r.artist) => Blocks(d))
    BY PathStage
  <1>4. e \in Stages /\ (ok => ~Refuses(e))
    <2>1. ok \in BOOLEAN /\ "CreateAlbum" \in StageNames
      BY DEF StageNames
    <2> HIDE DEF ok
    <2> QED BY <2>1, Mays, StatementStage
  <1>5. Refuses(e) => Slips(r) \/ Blocks(d)
    BY <1>3, <1>4, KindsOfId DEF PostgresText, Slips
  <1>6. CreateAlbum(r) = <<a, b, c, d, e>>
    BY DEF CreateAlbum
  <1> HIDE DEF a, b, c, d, e
  <1> DEFINE s == <<a, b>>
             t == Append(s, c)
             u == Append(t, d)
  <1>7. s \in Seq(Stages) /\ Sound(s, r) /\ Len(s) = 2
    BY <1>1, <1>2, TwoStages
  <1>8. CreateAlbum(r) = Append(u, e)
    BY <1>6
  <1> HIDE DEF s
  <1>9. t \in Seq(Stages) /\ Sound(t, r)
    BY <1>1, <1>7, CallMore
  <1> HIDE DEF t
  <1>10. u \in Seq(Stages) /\ Sound(u, r) /\ Len(t) + 1 \in 1 .. Len(u) /\ u[Len(t) + 1] = d
    <2>1. Len(t) \in Nat
      BY <1>9
    <2>2. u \in Seq(Stages) /\ Sound(u, r) /\ Len(u) = Len(t) + 1 /\ u[Len(t) + 1] = d
      BY <1>3, <1>9, MoreStages
    <2> HIDE DEF u
    <2> QED BY <2>1, <2>2
  <1> HIDE DEF u
  <1>11. Refuses(e) => Slips(r) \/ \E j \in 1 .. Len(u) : Blocks(u[j])
    BY <1>5, <1>10
  <1> QED BY <1>4, <1>8, <1>10, <1>11, MoreStages

LEMMA TouchSound ==
  ASSUME NEW r
  PROVE  /\ TouchPlaylist(r) \in Seq(Stages) /\ Sound(TouchPlaylist(r), r)
         /\ ~UUIDParses(r.track) =>
              \E j \in 1 .. Len(TouchPlaylist(r)) : Blocks(TouchPlaylist(r)[j])
  <1> DEFINE a == PathUUID(r.id)
             b == PathUUID(r.track)
             c == Statement("touchPlaylist", PostgresUUID(r.id), Found)
             s == <<a, b>>
  <1>1. /\ a \in Stages /\ ~Refuses(a) /\ (~UUIDParses(r.id) => Blocks(a))
        /\ b \in Stages /\ ~Refuses(b) /\ (~UUIDParses(r.track) => Blocks(b))
    BY PathStage
  <1>2. PostgresUUID(r.id) \in BOOLEAN
    BY KindsOfId
  <1>3. c \in Stages /\ (Refuses(c) => ~PostgresUUID(r.id))
    BY <1>2, Mays, StatementStage DEF StageNames
  <1>4. Refuses(c) => Slips(r) \/ Blocks(a)
    BY <1>1, <1>3, KindsOfId DEF Slips
  <1>5. TouchPlaylist(r) = Append(s, c)
    BY DEF TouchPlaylist
  <1> HIDE DEF a, b, c
  <1>6. s \in Seq(Stages) /\ Sound(s, r) /\ Len(s) = 2 /\ s[1] = a /\ s[2] = b
    BY <1>1, TwoStages
  <1> HIDE DEF s
  <1>7. Refuses(c) => Slips(r) \/ \E j \in 1 .. Len(s) : Blocks(s[j])
    BY <1>4, <1>6
  <1> DEFINE t == Append(s, c)
  <1>8. /\ t \in Seq(Stages) /\ Sound(t, r) /\ Len(t) = Len(s) + 1
        /\ \A j \in 1 .. Len(s) : t[j] = s[j]
    BY <1>3, <1>6, <1>7, MoreStages, ZenonT(60)
  <1> HIDE DEF t
  <1>9. 2 \in 1 .. Len(t) /\ t[2] = b
    BY <1>6, <1>8
  <1>10. TouchPlaylist(r) = t
    BY <1>5 DEF t
  <1> QED BY <1>1, <1>8, <1>9, <1>10

LEMMA MembershipsSound ==
  ASSUME NEW r
  PROVE  /\ AddTrackToPlaylist(r) \in Seq(Stages) /\ Sound(AddTrackToPlaylist(r), r)
         /\ RemoveTrackFromPlaylist(r) \in Seq(Stages) /\ Sound(RemoveTrackFromPlaylist(r), r)
  <1> DEFINE s == TouchPlaylist(r)
  <1>1. \A n \in {"commit", "renumber"} :
          Call(n, {"ok"}) \in Stages /\ ~Refuses(Call(n, {"ok"}))
    BY Mays, CallStage DEF StageNames
  <1>2. PostgresUUID(r.track) \in BOOLEAN
    BY KindsOfId
  <1>3. s \in Seq(Stages) /\ Sound(s, r)
    BY TouchSound
  <1>4. ~PostgresUUID(r.track) => Slips(r) \/ \E j \in 1 .. Len(s) : Blocks(s[j])
    <2>1. UUIDParses(r.track) /\ ~PostgresUUID(r.track) => Slips(r)
      BY KindsOfId DEF Slips
    <2> QED BY <2>1, TouchSound
  <1>5. ASSUME NEW e \in Stages, Refuses(e) => ~PostgresUUID(r.track)
        PROVE  /\ Append(s, e) \in Seq(Stages) /\ Sound(Append(s, e), r)
               /\ Append(Append(s, e), Call("commit", {"ok"})) \in Seq(Stages)
               /\ Sound(Append(Append(s, e), Call("commit", {"ok"})), r)
    <2> HIDE DEF s
    <2> DEFINE t == Append(s, e)
    <2>1. t \in Seq(Stages) /\ Sound(t, r)
      BY <1>3, <1>4, <1>5, MoreStages
    <2> HIDE DEF t
    <2>2. /\ Append(t, Call("commit", {"ok"})) \in Seq(Stages)
          /\ Sound(Append(t, Call("commit", {"ok"})), r)
      BY <1>1, <2>1, CallMore
    <2> QED BY <2>1, <2>2 DEF t
  <1>6. AddTrackToPlaylist(r) \in Seq(Stages) /\ Sound(AddTrackToPlaylist(r), r)
    <2> DEFINE e == Statement("AddTrack", PostgresUUID(r.track), {"ok", "InvalidInput"})
               c == Call("commit", {"ok"})
    <2>1. e \in Stages /\ (Refuses(e) => ~PostgresUUID(r.track))
      BY <1>2, Mays, StatementStage DEF StageNames
    <2>2. AddTrackToPlaylist(r) = s \o <<e, c>>
      BY DEF AddTrackToPlaylist
    <2>3. c \in Stages /\ ~Refuses(c)
      BY <1>1
    <2> HIDE DEF s, e, c
    <2>4. s \o <<e, c>> = Append(Append(s, e), c)
      BY <1>3, <2>1, <2>3
    <2> QED BY <1>5, <2>1, <2>2, <2>4 DEF c
  <1>7. RemoveTrackFromPlaylist(r) \in Seq(Stages) /\ Sound(RemoveTrackFromPlaylist(r), r)
    <2> DEFINE e == Statement("RemoveTrack", PostgresUUID(r.track), Found)
               d == Call("renumber", {"ok"})
               c == Call("commit", {"ok"})
               t == Append(s, e)
               u == Append(t, d)
    <2>1. e \in Stages /\ (Refuses(e) => ~PostgresUUID(r.track))
      BY <1>2, Mays, StatementStage DEF StageNames
    <2>2. RemoveTrackFromPlaylist(r) = s \o <<e, d, c>>
      BY DEF RemoveTrackFromPlaylist
    <2>3. c \in Stages /\ ~Refuses(c) /\ d \in Stages /\ ~Refuses(d)
      BY <1>1
    <2> HIDE DEF s, e, d, c
    <2>4. t \in Seq(Stages) /\ Sound(t, r)
      BY <1>5, <2>1
    <2>5. s \o <<e, d, c>> = Append(u, c)
      BY <1>3, <2>1, <2>3
    <2> HIDE DEF t
    <2>6. u \in Seq(Stages) /\ Sound(u, r)
      BY <2>3, <2>4, CallMore
    <2> HIDE DEF u
    <2> QED BY <2>2, <2>3, <2>5, <2>6, CallMore
  <1> QED BY <1>6, <1>7


LEMMA StreamSound ==
  ASSUME NEW r
  PROVE  StreamTrack(r) \in Seq(Stages) /\ Sound(StreamTrack(r), r)
  <1> DEFINE s == GetByID("GetTrackByID", r)
             a == Stage("storageKey", Found)
             b == Call("Get", Found)
             t == Append(s, a)
  <1>1. s \in Seq(Stages) /\ Sound(s, r)
    BY GetByIDSound DEF StageNames
  <1>2. b \in Stages /\ ~Refuses(b)
    BY Mays, CallStage DEF StageNames
  <1>3. a \in Stages /\ ~Refuses(a)
    BY Mays DEF Stage, Stages, StageNames, Refuses
  <1>4. StreamTrack(r) = s \o <<a, b>>
    BY DEF StreamTrack
  <1> HIDE DEF s, a, b
  <1>5. s \o <<a, b>> = Append(t, b)
    BY <1>1, <1>2, <1>3
  <1>6. t \in Seq(Stages) /\ Sound(t, r)
    BY <1>1, <1>3, CallMore
  <1> HIDE DEF t
  <1> QED BY <1>2, <1>4, <1>5, <1>6, CallMore

LEMMA UploadStage ==
  ASSUME NEW r
  PROVE  /\ ReadHead(r.upload) \in Stages /\ (Refuses(ReadHead(r.upload)) => Slips(r))
         /\ PutAudio(r.upload) \in Stages /\ (Refuses(PutAudio(r.upload)) => Slips(r))
  <1>1. /\ {"InvalidInput"} \subseteq Results /\ {"ok", "TooLarge"} \subseteq Results
        /\ {"ok", "InvalidInput", "rejected"} \subseteq Results /\ {"ok"} \subseteq Results
        /\ {"TooLarge", "fault"} \subseteq Results /\ {"rejected", "fault"} \subseteq Results
        /\ {"ok", "fault"} \subseteq Results
    BY DEF Results, Sentinels
  <1>2. r.upload = "cut" => Slips(r)
    BY DEF Slips
  <1>3. "head" \in StageNames /\ "Put" \in StageNames
    BY DEF StageNames
  <1>4. CASE r.upload = "empty"
    BY <1>1, <1>3, <1>4 DEF ReadHead, PutAudio, Stage, Stages, Refuses
  <1>5. CASE r.upload = "overCap"
    BY <1>1, <1>3, <1>5 DEF ReadHead, PutAudio, Stage, Stages, Refuses
  <1>6. CASE r.upload = "cut"
    BY <1>1, <1>2, <1>3, <1>6 DEF ReadHead, PutAudio, Stage, Stages, Refuses
  <1>7. CASE r.upload \notin {"empty", "overCap", "cut"}
    BY <1>1, <1>3, <1>7 DEF ReadHead, PutAudio, Stage, Stages, Refuses
  <1> QED BY <1>4, <1>5, <1>6, <1>7

LEMMA UploadSound ==
  ASSUME NEW r
  PROVE  UploadTrackFile(r) \in Seq(Stages) /\ Sound(UploadTrackFile(r), r)
  <1> DEFINE s == GetByID("GetTrackByID", r)
             a == Call("SetReadDeadline", {"ok"})
             b == Stage("ContentLength", IF r.upload = "tooLong" THEN {"TooLarge"} ELSE {"ok"})
             c == ReadHead(r.upload)
             d == SniffAudio(r.upload)
             e == Call("suffix", {"ok"})
             f == PutAudio(r.upload)
             g == Call("SetTrackFile", {"ok", "NotFound", "DuplicateAudio"})
             t == <<a, b, c, d, e, f, g>>
  <1>1. s \in Seq(Stages) /\ Sound(s, r)
    BY GetByIDSound DEF StageNames
  <1>2. a \in Stages /\ ~Refuses(a) /\ e \in Stages /\ ~Refuses(e) /\ g \in Stages /\ ~Refuses(g)
    BY Mays, CallStage DEF StageNames
  <1>3. b \in Stages /\ ~Refuses(b)
    <2>1. {"TooLarge"} \subseteq Results /\ {"ok"} \subseteq Results /\ "ContentLength" \in StageNames
      BY DEF Results, StageNames
    <2> QED BY <2>1 DEF Stage, Stages, Refuses
  <1>4. d \in Stages /\ ~Refuses(d)
    BY CheckStage DEF SniffAudio, StageNames
  <1>5. c \in Stages /\ (Refuses(c) => Slips(r)) /\ f \in Stages /\ (Refuses(f) => Slips(r))
    BY UploadStage
  <1>6. UploadTrackFile(r) = s \o t
    BY DEF UploadTrackFile
  <1> HIDE DEF s, a, b, c, d, e, f, g
  <1>7. t \in Seq(Stages)
    BY <1>2, <1>3, <1>4, <1>5
  <1>8. \A i \in 1 .. Len(t) : Refuses(t[i]) => Slips(r)
    <2>1. Len(t) = 7
      OBVIOUS
    <2>2. /\ t[1] = a /\ t[2] = b /\ t[3] = c /\ t[4] = d /\ t[5] = e /\ t[6] = f /\ t[7] = g
      OBVIOUS
    <2> HIDE DEF t
    <2> QED BY <1>2, <1>3, <1>4, <1>5, <2>1, <2>2
  <1> HIDE DEF t
  <1> QED BY <1>1, <1>6, <1>7, <1>8, StagesInARow

LEMMA ReadySound ==
  ASSUME NEW r
  PROVE  /\ Readyz \in Seq(Stages) /\ Sound(Readyz, r)
         /\ \A i \in 1 .. Len(Readyz) : Readyz[i].may \subseteq {"ok", "fault"}
         /\ Healthz \in Seq(Stages) /\ Sound(Healthz, r)
  <1> DEFINE a == Call("database", {"ok"})
             b == Call("blobstore", {"ok"})
  <1>1. a \in Stages /\ ~Refuses(a) /\ b \in Stages /\ ~Refuses(b)
    BY Mays, CallStage DEF StageNames
  <1>2. a.may = {"ok", "fault"} /\ b.may = {"ok", "fault"}
    BY DEF Call, Stage
  <1>3. Readyz = <<a, b>>
    BY DEF Readyz
  <1>4. Healthz \in Seq(Stages) /\ Sound(Healthz, r)
    BY DEF Healthz, Sound
  <1> HIDE DEF a, b
  <1>5. Readyz \in Seq(Stages) /\ Sound(Readyz, r)
    BY <1>1, <1>3, TwoStages
  <1>6. \A i \in 1 .. Len(Readyz) : Readyz[i].may \subseteq {"ok", "fault"}
    BY <1>2, <1>3
  <1> QED BY <1>4, <1>5, <1>6


\* A stage for each of n things.
LEMMA StagePerItem ==
  ASSUME NEW n \in Nat, NEW s, DOMAIN s = 1 .. n, s = [i \in 1 .. n |-> s[i]],
         \A i \in 1 .. n : s[i] \in Stages
  PROVE  s \in Seq(Stages) /\ Len(s) = n
  <1>1. s \in [1 .. n -> Stages]
    OBVIOUS
  <1> QED BY <1>1

LEMMA CreatePlaylistSound ==
  ASSUME NEW r, r.tracks \in Seq(STRING) \cup {Null}
  PROVE  CreatePlaylist(r) \in Seq(Stages) /\ Sound(CreatePlaylist(r), r)
  <1> DEFINE ids == IF r.tracks = Null THEN <<>> ELSE r.tracks
             a == DecodeJSON(r.json)
             b == RequireNonEmpty(r.title)
             c == Statement("CreatePlaylist", PostgresText(r.title), {"ok"})
             d == Call("commit", {"ok"})
             x == [i \in DOMAIN ids |-> RequireUUID(TrackID(ids[i]))]
             y == [i \in DOMAIN ids |-> InsertMembership(ids, i)]
             n == Len(ids)
             s == <<a, b>>
             t == s \o x
             u == t \o <<c>>
             v == u \o y
  <1>1. ids \in Seq(STRING) /\ n \in Nat /\ DOMAIN ids = 1 .. n
    <2>1. <<>> \in Seq(STRING)
      OBVIOUS
    <2>2. ids \in Seq(STRING)
      BY <2>1
    <2> HIDE DEF ids
    <2> QED BY <2>2
  <1>2. a \in Stages /\ ~Refuses(a) /\ b \in Stages /\ ~Refuses(b) /\ c \in Stages
    BY TextStage
  <1>3. Refuses(c) => Slips(r)
    BY TextStage DEF Slips
  <1>4. d \in Stages /\ ~Refuses(d)
    BY Mays, CallStage DEF StageNames
  <1>5. CreatePlaylist(r) = v \o <<d>>
    BY DEF CreatePlaylist
  <1>6. \A i \in 1 .. n : x[i] = RequireUUID(TrackID(ids[i]))
    BY <1>1
  <1>7. \A i \in 1 .. n : x[i] \in Stages /\ ~Refuses(x[i])
    BY <1>6, PathStage
  <1>8. x \in Seq(Stages) /\ Len(x) = n
    <2>1. DOMAIN x = 1 .. n /\ x = [i \in 1 .. n |-> x[i]]
      BY <1>1
    <2> HIDE DEF x, n
    <2> QED BY <1>1, <1>7, <2>1, StagePerItem
  <1>9. \A i \in 1 .. n : y[i] = InsertMembership(ids, i)
    BY <1>1
  <1>10. \A i \in 1 .. n : y[i] \in Stages /\ (Refuses(y[i]) => ~PostgresUUID(TrackID(ids[i])))
    <2> TAKE i \in 1 .. n
    <2> DEFINE may == IF \E j \in 1 .. (i - 1) : Canonical(ids[j]) = Canonical(ids[i])
                      THEN {"Conflict"} ELSE {"ok", "InvalidInput"}
    <2>1. may \in SUBSET (Results \ {"rejected"})
      BY Mays
    <2>2. InsertMembership(ids, i) = Statement("playlist_tracks", PostgresUUID(TrackID(ids[i])), may)
      BY DEF InsertMembership
    <2>3. PostgresUUID(TrackID(ids[i])) \in BOOLEAN
      BY KindsOfId
    <2>4. "playlist_tracks" \in StageNames
      BY DEF StageNames
    <2> HIDE DEF may, ids, n
    <2> QED BY <1>9, <2>1, <2>2, <2>3, <2>4, StatementStage
  <1>11. y \in Seq(Stages) /\ Len(y) = n
    <2>1. DOMAIN y = 1 .. n /\ y = [i \in 1 .. n |-> y[i]]
      BY <1>1
    <2>2. \A i \in 1 .. n : y[i] \in Stages
      BY <1>10
    <2> HIDE DEF y, n
    <2> QED BY <1>1, <2>1, <2>2, StagePerItem
  <1>12. \A i \in 1 .. n : Refuses(y[i]) => Slips(r) \/ Blocks(x[i])
    <2> SUFFICES ASSUME NEW i \in 1 .. n, Refuses(y[i]), ~Blocks(x[i]) PROVE Slips(r)
      OBVIOUS
    <2>1. ~PostgresUUID(TrackID(ids[i]))
      BY <1>10
    <2>2. TrackID(ids[i]) = "urn"
      BY <1>6, <2>1, PathStage, KindsOfId
    <2>3. ids[i] = "urn"
      BY <2>2 DEF TrackID
    <2>4. r.tracks # Null /\ ids = r.tracks
      BY <1>1
    <2> QED BY <1>1, <2>3, <2>4 DEF Slips
  <1> HIDE DEF a, b, c, d, x, y, n
  <1>13. s \in Seq(Stages) /\ Sound(s, r)
    BY <1>2, TwoStages
  <1> HIDE DEF s
  <1>14. t \in Seq(Stages) /\ Sound(t, r) /\ Len(t) = Len(s) + n
           /\ \A j \in 1 .. n : t[Len(s) + j] = x[j]
    BY <1>7, <1>8, <1>13, StagesInARow
  <1> HIDE DEF t
  <1>15. /\ <<c>> \in Seq(Stages) /\ Sound(<<c>>, r) /\ Len(<<c>>) = 1 /\ <<c>>[1] = c
         /\ <<d>> \in Seq(Stages) /\ Sound(<<d>>, r) /\ Len(<<d>>) = 1 /\ <<d>>[1] = d
    BY <1>2, <1>3, <1>4, OneStage
  <1>16. u \in Seq(Stages) /\ Sound(u, r) /\ Len(u) = Len(t) + 1
           /\ \A j \in 1 .. Len(t) : u[j] = t[j]
    <2> DEFINE z == <<c>>
    <2>1. z \in Seq(Stages) /\ Len(z) = 1
      BY <1>15
    <2>2. \A i \in 1 .. Len(z) : Refuses(z[i]) => Slips(r)
      BY <1>3, <1>15
    <2>3. u = t \o z
      OBVIOUS
    <2> HIDE DEF z, u
    <2>4. /\ t \o z \in Seq(Stages) /\ Sound(t \o z, r) /\ Len(t \o z) = Len(t) + Len(z)
          /\ \A j \in 1 .. Len(t) : (t \o z)[j] = t[j]
      BY <1>14, <2>1, <2>2, StagesInARow, SMTT(60)
    <2> QED BY <2>1, <2>3, <2>4
  <1> HIDE DEF u
  <1>17. \A i \in 1 .. n : Blocks(x[i]) => \E j \in 1 .. Len(u) : Blocks(u[j])
    <2> TAKE i \in 1 .. n
    <2>1. Len(s) \in Nat /\ Len(t) \in Nat
      BY <1>13, <1>14
    <2>2. Len(s) + i \in 1 .. Len(t)
      BY <1>1, <1>14, <2>1
    <2>3. Len(s) + i \in 1 .. Len(u) /\ u[Len(s) + i] = x[i]
      BY <1>14, <1>16, <2>1, <2>2
    <2> QED BY <2>3
  <1>18. v \in Seq(Stages) /\ Sound(v, r)
    BY <1>11, <1>12, <1>16, <1>17, StagesInARow
  <1> HIDE DEF v
  <1>19. v \o <<d>> = Append(v, d)
    BY <1>4, <1>18
  <1> QED BY <1>4, <1>5, <1>18, <1>19, CallMore


-----------------------------------------------------------------------------
(***************************************************************************)
(* Words, and the two units of a duration.                                 *)
(***************************************************************************)
LEMMA Remainder ==
  ASSUME NEW n \in Int, NEW k \in Nat \ {0}
  PROVE  /\ n % k \in 0 .. (k - 1)
         /\ n \in 0 .. (k - 1) => n % k = n
  <1>1. n % k \in 0 .. (k - 1)
    OBVIOUS
  <1>2. ASSUME NEW m \in Nat, m < k PROVE m % k = m
    BY <1>2
  <1> QED BY <1>1, <1>2

LEMMA WrapIsWord == ASSUME NEW n \in Int PROVE Wrap(n) \in Word /\ Wrap(n) \in Int
  <1> DEFINE k == 2 * (WordMax + 1)
             m == n + WordMax + 1
  <1>1. WordMax \in Nat
    BY WidthAssumption
  <1>2. k \in Nat \ {0} /\ m \in Int
    BY <1>1
  <1>3. Wrap(n) = (m % k) - (WordMax + 1)
    BY DEF Wrap
  <1> HIDE DEF k, m
  <1>4. m % k \in 0 .. (k - 1)
    BY <1>2, Remainder
  <1> QED BY <1>1, <1>3, <1>4 DEF Word, k

LEMMA WrapKeeps == ASSUME NEW n \in Word PROVE Wrap(n) = n
  <1> DEFINE k == 2 * (WordMax + 1)
             m == n + WordMax + 1
  <1>1. WordMax \in Nat
    BY WidthAssumption
  <1>2. k \in Nat \ {0} /\ n \in Int /\ m \in 0 .. (k - 1)
    BY <1>1 DEF Word
  <1>3. Wrap(n) = (m % k) - (WordMax + 1)
    BY DEF Wrap
  <1> HIDE DEF k
  <1>4. m % k = m
    <2> HIDE DEF m
    <2>1. m \in Int
      BY <1>2
    <2> QED BY <1>2, <2>1, Remainder
  <1> QED BY <1>1, <1>2, <1>3, <1>4

LEMMA Quotient ==
  ASSUME NEW n \in Nat, NEW k \in Nat \ {0}
  PROVE  /\ n \div k \in Nat /\ (n \div k) * k <= n
         /\ (n * k) \div k = n
  OBVIOUS

\* Milliseconds become nanoseconds and milliseconds again.
LEMMA MillisecondsExact == ASSUME NEW n \in Int PROVE Milliseconds(n * Ms) = n
  <1>1. Ms \in Nat \ {0}
    BY WidthAssumption
  <1>2. CASE n \in Nat
    <2>1. n * Ms >= 0 /\ (n * Ms) \div Ms = n
      BY <1>1, <1>2, Quotient
    <2> QED BY <2>1 DEF Milliseconds
  <1>3. CASE n \notin Nat
    <2>1. -n \in Nat /\ -n > 0
      BY <1>3
    <2>2. -(n * Ms) = (-n) * Ms
      BY <1>1
    <2>3. (-n) * Ms > 0
      BY <1>1, <2>1
    <2>4. ((-n) * Ms) \div Ms = -n
      BY <1>1, <2>1, Quotient
    <2>5. n * Ms \in Int
      BY <1>1
    <2>6. ~(n * Ms >= 0)
      BY <2>2, <2>3, <2>5
    <2>7. Milliseconds(n * Ms) = -((-(n * Ms)) \div Ms)
      BY <2>6 DEF Milliseconds
    <2> QED BY <2>2, <2>4, <2>7
  <1> QED BY <1>2, <1>3

\* Back in nanoseconds, milliseconds still fit into a word.
LEMMA MillisecondsFit ==
  ASSUME NEW d \in Word PROVE Milliseconds(d) \in Int /\ Milliseconds(d) * Ms \in Word
  <1>1. Ms \in Nat \ {0} /\ WordMax \in Nat /\ d \in Int
    BY WidthAssumption DEF Word
  <1>2. CASE d >= 0
    <2> DEFINE m == d \div Ms
    <2>1. d \in Nat
      BY <1>1, <1>2
    <2>2. m \in Nat /\ m * Ms <= d
      BY <1>1, <2>1, Quotient
    <2>3. Milliseconds(d) = m
      BY <1>2 DEF Milliseconds
    <2> HIDE DEF m
    <2>4. m * Ms \in Nat
      BY <1>1, <2>2
    <2>5. m * Ms \in Word
      BY <1>1, <2>2, <2>4 DEF Word
    <2> QED BY <2>2, <2>3, <2>5
  <1>3. CASE ~(d >= 0)
    <2> DEFINE m == (-d) \div Ms
    <2>1. -d \in Nat
      BY <1>1, <1>3
    <2>2. m \in Nat /\ m * Ms <= -d
      BY <1>1, <2>1, Quotient
    <2>3. Milliseconds(d) = -m
      BY <1>3 DEF Milliseconds
    <2> HIDE DEF m
    <2>4. m * Ms \in Nat /\ (-m) * Ms = -(m * Ms)
      BY <1>1, <2>2
    <2>5. -(m * Ms) \in Word
      BY <1>1, <2>2, <2>4 DEF Word
    <2> QED BY <2>2, <2>3, <2>4, <2>5
  <1> QED BY <1>2, <1>3


-----------------------------------------------------------------------------
LEMMA RangeStage ==
  ASSUME NEW n \in Int, NEW high \in Int
  PROVE  LET e == RequireInRange(n, 0, high)
         IN  e \in Stages /\ ~Refuses(e) /\ (n \notin 0 .. high => Blocks(e))
  <1>1. "requireInRange" \in StageNames
    BY DEF StageNames
  <1>2. (n >= 0 /\ n <= high) \in BOOLEAN /\ (n >= 0 /\ n <= high <=> n \in 0 .. high)
    OBVIOUS
  <1> QED BY <1>1, <1>2, CheckStage DEF RequireInRange

\* The row CreateTrack inserts has the numbers that were checked.
LEMMA InsertedNumbers ==
  ASSUME NEW r
  PROVE  LET t == TrackOf(r)
             row == TrackRow(t)
         IN  /\ t.duration = Wrap(r.duration * Ms) /\ row.duration = Milliseconds(t.duration)
             /\ t.album = r.album /\ t.bitrate = r.bitrate /\ row.bitrate = r.bitrate
             /\ t.fileSize = r.fileSize /\ row.fileSize = r.fileSize
             /\ t.trackNumber = r.trackNumber /\ row.trackNumber = r.trackNumber
             /\ t.discNumber = r.discNumber /\ row.discNumber = r.discNumber
  BY DEF TrackOf, TrackRow

LEMMA InsertTrackSound ==
  ASSUME NEW r, r.duration \in Word, r.bitrate \in Word, r.trackNumber \in Word,
         r.discNumber \in Word
  PROVE  LET ms == Milliseconds(TrackOf(r).duration)
         IN  /\ InsertTrack(r) \in Stages
             /\ Refuses(InsertTrack(r)) =>
                  \/ Slips(r)
                  \/ ~UUIDParses(r.artist)
                  \/ r.album # "" /\ ~UUIDParses(r.album)
                  \/ ms \notin 0 .. IntMax \/ r.bitrate \notin 0 .. IntMax
                  \/ r.trackNumber \notin 0 .. IntMax \/ r.discNumber \notin 0 .. IntMax
  <1> DEFINE ms == Milliseconds(TrackOf(r).duration)
             row == TrackRow(TrackOf(r))
             ok == /\ PostgresText(r.title)
                   /\ PostgresUUID(r.artist) /\ (r.album = "" \/ PostgresUUID(r.album))
                   /\ \A n \in {row.duration, row.bitrate, row.trackNumber, row.discNumber} :
                          PostgresInteger(n)
  <1>1. InsertTrack(r) = Statement("CreateTrack", ok, {"ok", "InvalidInput"})
    BY DEF InsertTrack
  <1>2. ok \in BOOLEAN /\ "CreateTrack" \in StageNames
    BY DEF StageNames
  <1>3. row.duration = ms /\ row.bitrate = r.bitrate /\ row.trackNumber = r.trackNumber
          /\ row.discNumber = r.discNumber
    BY InsertedNumbers
  <1>4. \A n \in 0 .. IntMax : PostgresInteger(n)
    <2>1. IntMax \in Nat
      BY WidthAssumption
    <2> QED BY <2>1 DEF PostgresInteger
  <1>5. ASSUME ~Slips(r), UUIDParses(r.artist), r.album # "" => UUIDParses(r.album),
               ms \in 0 .. IntMax, r.bitrate \in 0 .. IntMax, r.trackNumber \in 0 .. IntMax,
               r.discNumber \in 0 .. IntMax
        PROVE  ok
    <2>1. PostgresText(r.title) /\ PostgresUUID(r.artist) /\ (r.album = "" \/ PostgresUUID(r.album))
      BY <1>5 DEF PostgresText, PostgresUUID, UUIDParses, Slips
    <2> HIDE DEF ms, row
    <2>2. \A n \in {row.duration, row.bitrate, row.trackNumber, row.discNumber} : PostgresInteger(n)
      BY <1>3, <1>4, <1>5
    <2> QED BY <2>1, <2>2
  <1> HIDE DEF ok
  <1>6. InsertTrack(r) \in Stages /\ (ok => ~Refuses(InsertTrack(r)))
    BY <1>1, <1>2, Mays, StatementStage
  <1> HIDE DEF ms
  <1>7. Refuses(InsertTrack(r)) =>
          \/ Slips(r)
          \/ ~UUIDParses(r.artist)
          \/ r.album # "" /\ ~UUIDParses(r.album)
          \/ ms \notin 0 .. IntMax \/ r.bitrate \notin 0 .. IntMax
          \/ r.trackNumber \notin 0 .. IntMax \/ r.discNumber \notin 0 .. IntMax
    BY <1>5, <1>6
  <1> QED BY <1>6, <1>7 DEF ms

LEMMA OptionalStage ==
  ASSUME NEW e \in Stages, ~Refuses(e), NEW c \in BOOLEAN
  PROVE  LET x == IF c THEN <<e>> ELSE <<>>
         IN  /\ x \in Seq(Stages) /\ Len(x) \in Nat
             /\ \A i \in 1 .. Len(x) : ~Refuses(x[i])
             /\ c => Len(x) = 1 /\ x[1] = e
  <1>1. <<e>> \in Seq(Stages) /\ Len(<<e>>) = 1 /\ <<e>>[1] = e
    OBVIOUS
  <1>2. <<>> \in Seq(Stages) /\ Len(<<>>) = 0
    OBVIOUS
  <1> QED BY <1>1, <1>2

LEMMA LaterStage ==
  ASSUME NEW s \in Seq(Stages), NEW x \in Seq(Stages), NEW i \in 1 .. Len(x)
  PROVE  \E j \in 1 .. Len(s \o x) : (s \o x)[j] = x[i]
  <1> DEFINE u == s \o x
             k == Len(s) + i
  <1>1. Len(s) \in Nat
    OBVIOUS
  <1>2. /\ Len(u) = Len(s) + Len(x)
        /\ \A j \in 1 .. Len(u) : u[j] = IF j <= Len(s) THEN s[j] ELSE x[j - Len(s)]
    BY ConcatProperties
  <1> HIDE DEF u
  <1>3. k \in 1 .. Len(u) /\ ~(k <= Len(s)) /\ k - Len(s) = i
    BY <1>1, <1>2
  <1>4. u[k] = x[i]
    BY <1>2, <1>3
  <1> QED BY <1>3, <1>4 DEF u

LEMMA CreateTrackSound ==
  ASSUME NEW r, r.duration \in Word, r.bitrate \in Word, r.trackNumber \in Word,
         r.discNumber \in Word, r.fileSize \in Word
  PROVE  CreateTrack(r) \in Seq(Stages) /\ Sound(CreateTrack(r), r)
  <1> DEFINE tr == TrackOf(r)
             ms == Milliseconds(tr.duration)
             a == DecodeJSON(r.json)
             b == RequireNonEmpty(r.title)
             c == RequireUUID(r.artist)
             al == RequireUUID(r.album)
             d == RequireInRange(ms, 0, IntMax)
             e == RequireInRange(r.bitrate, 0, IntMax)
             f == RequireInRange(r.fileSize, 0, WordMax)
             g == RequireInRange(r.trackNumber, 0, IntMax)
             h == RequireInRange(r.discNumber, 0, IntMax)
             ins == InsertTrack(r)
             s == <<a, b, c>>
             x == IF r.album # "" THEN <<al>> ELSE <<>>
             t == s \o x
             y == <<d, e, f, g, h, ins>>
  <1>1. IntMax \in Int /\ WordMax \in Int /\ r.bitrate \in Int /\ r.fileSize \in Int
          /\ r.trackNumber \in Int /\ r.discNumber \in Int /\ r.duration \in Int
    BY WidthAssumption DEF Word
  <1>2. ms \in Int
    <2>1. r.duration * Ms \in Int
      BY <1>1, WidthAssumption
    <2>2. tr.duration \in Word
      BY <2>1, WrapIsWord, InsertedNumbers
    <2> HIDE DEF tr
    <2> QED BY <2>2, MillisecondsFit
  <1>3. CreateTrack(r) = t \o y
    <2>1. tr.album = r.album /\ tr.bitrate = r.bitrate /\ tr.fileSize = r.fileSize
            /\ tr.trackNumber = r.trackNumber /\ tr.discNumber = r.discNumber
      BY InsertedNumbers
    <2> QED BY <2>1 DEF CreateTrack
  <1>4. a \in Stages /\ ~Refuses(a) /\ b \in Stages /\ ~Refuses(b)
    BY TextStage
  <1>5. /\ c \in Stages /\ ~Refuses(c) /\ (~UUIDParses(r.artist) => Blocks(c))
        /\ al \in Stages /\ ~Refuses(al) /\ (~UUIDParses(r.album) => Blocks(al))
    BY PathStage DEF UUIDParses
  <1> HIDE DEF tr
  <1>6. d \in Stages /\ ~Refuses(d) /\ (ms \notin 0 .. IntMax => Blocks(d))
    BY <1>1, <1>2, RangeStage
  <1>7. /\ e \in Stages /\ ~Refuses(e) /\ (r.bitrate \notin 0 .. IntMax => Blocks(e))
        /\ f \in Stages /\ ~Refuses(f)
        /\ g \in Stages /\ ~Refuses(g) /\ (r.trackNumber \notin 0 .. IntMax => Blocks(g))
        /\ h \in Stages /\ ~Refuses(h) /\ (r.discNumber \notin 0 .. IntMax => Blocks(h))
    BY <1>1, RangeStage
  <1>8. /\ ins \in Stages
        /\ Refuses(ins) =>
             \/ Slips(r)
             \/ ~UUIDParses(r.artist)
             \/ r.album # "" /\ ~UUIDParses(r.album)
             \/ ms \notin 0 .. IntMax \/ r.bitrate \notin 0 .. IntMax
             \/ r.trackNumber \notin 0 .. IntMax \/ r.discNumber \notin 0 .. IntMax
    BY InsertTrackSound DEF tr
  <1> HIDE DEF ms, a, b, c, al, d, e, f, g, h, ins
  <1>9. s \in Seq(Stages) /\ Sound(s, r) /\ Len(s) = 3 /\ s[3] = c
    <2> DEFINE z == <<a, b>>
    <2>1. z \in Seq(Stages) /\ Sound(z, r)
      BY <1>4, TwoStages
    <2>2. s = Append(z, c)
      OBVIOUS
    <2>3. Len(s) = 3 /\ s[3] = c
      OBVIOUS
    <2> HIDE DEF z, s
    <2> QED BY <1>5, <2>1, <2>2, <2>3, CallMore
  <1>10. /\ x \in Seq(Stages) /\ Len(x) \in Nat /\ \A i \in 1 .. Len(x) : ~Refuses(x[i])
         /\ r.album # "" => Len(x) = 1 /\ x[1] = al
    BY <1>5, OptionalStage
  <1>11. y \in Seq(Stages) /\ Len(y) = 6
    <2>1. d \in Stages /\ e \in Stages /\ f \in Stages /\ g \in Stages /\ h \in Stages
            /\ ins \in Stages
      BY <1>6, <1>7, <1>8
    <2> QED BY <2>1
  <1>12. y[1] = d /\ y[2] = e /\ y[3] = f /\ y[4] = g /\ y[5] = h /\ y[6] = ins
    OBVIOUS
  <1> HIDE DEF s, x, y
  <1>13. /\ t \in Seq(Stages) /\ Sound(t, r) /\ Len(t) = Len(s) + Len(x)
         /\ \A j \in 1 .. Len(s) : t[j] = s[j]
         /\ \A j \in 1 .. Len(x) : t[Len(s) + j] = x[j]
    BY <1>9, <1>10, ChecksInARow, ZenonT(60)
  <1> HIDE DEF t
  <1>14. 3 \in 1 .. Len(t) /\ t[3] = c
    <2>1. Len(s) = 3 /\ Len(x) \in Nat
      BY <1>9, <1>10
    <2>2. 3 \in 1 .. Len(s) /\ 3 \in 1 .. (Len(s) + Len(x))
      BY <2>1
    <2>3. t[3] = s[3] /\ 3 \in 1 .. Len(t)
      BY <1>13, <2>2
    <2> QED BY <1>9, <2>3
  <1>15. r.album # "" => \E j \in 1 .. Len(t) : t[j] = al
    <2>1. \A i \in 1 .. Len(x) : \E j \in 1 .. Len(t) : t[j] = x[i]
      BY <1>9, <1>10, LaterStage DEF t
    <2>2. Len(x) = 1 => 1 \in 1 .. Len(x)
      OBVIOUS
    <2> QED BY <1>10, <2>1, <2>2
  <1>16. \A i \in 1 .. Len(y) :
           Refuses(y[i]) => \/ Slips(r)
                            \/ \E j \in 1 .. Len(t) : Blocks(t[j])
                            \/ \E j \in 1 .. (i - 1) : Blocks(y[j])
    <2> SUFFICES ASSUME NEW i \in 1 .. Len(y), Refuses(y[i]), ~Slips(r)
                 PROVE  (\E j \in 1 .. Len(t) : Blocks(t[j])) \/ (\E j \in 1 .. (i - 1) : Blocks(y[j]))
      OBVIOUS
    <2>1. i = 6
      BY <1>6, <1>7, <1>11, <1>12
    <2>2. Refuses(ins)
      BY <1>12, <2>1
    <2>3. CASE ~UUIDParses(r.artist)
      BY <1>5, <1>14, <2>3
    <2>4. CASE r.album # "" /\ ~UUIDParses(r.album)
      BY <1>5, <1>15, <2>4
    <2>5. CASE ms \notin 0 .. IntMax
      <3>1. 1 \in 1 .. (i - 1) /\ Blocks(y[1])
        BY <1>6, <1>12, <2>1, <2>5
      <3> QED BY <3>1
    <2>6. CASE r.bitrate \notin 0 .. IntMax
      <3>1. 2 \in 1 .. (i - 1) /\ Blocks(y[2])
        BY <1>7, <1>12, <2>1, <2>6
      <3> QED BY <3>1
    <2>7. CASE r.trackNumber \notin 0 .. IntMax
      <3>1. 4 \in 1 .. (i - 1) /\ Blocks(y[4])
        BY <1>7, <1>12, <2>1, <2>7
      <3> QED BY <3>1
    <2>8. CASE r.discNumber \notin 0 .. IntMax
      <3>1. 5 \in 1 .. (i - 1) /\ Blocks(y[5])
        BY <1>7, <1>12, <2>1, <2>8
      <3> QED BY <3>1
    <2> QED BY <1>8, <2>2, <2>3, <2>4, <2>5, <2>6, <2>7, <2>8
  <1> QED BY <1>3, <1>11, <1>13, <1>16, StagesInARow

\* Whatever handler a request has.
LEMMA HandlerSound ==
  ASSUME NEW r \in Request
  PROVE  /\ Handler(r) \in Seq(Stages) /\ Sound(Handler(r), r)
         /\ r.to = "Healthz" => Handler(r) = <<>>
         /\ r.to = "Readyz" => \A i \in 1 .. Len(Handler(r)) : Handler(r)[i].may \subseteq {"ok", "fault"}
  <1> DEFINE Fine(s) == s \in Seq(Stages) /\ Sound(s, r)
  <1>1. Fine(CreateArtist(r)) /\ Fine(CreateAlbum(r)) /\ Fine(StreamTrack(r)) /\ Fine(UploadTrackFile(r))
    BY CreateArtistSound, CreateAlbumSound, StreamSound, UploadSound
  <1>2. /\ Fine(GetArtist(r)) /\ Fine(GetTrack(r)) /\ Fine(GetAlbum(r)) /\ Fine(GetPlaylist(r))
        /\ Fine(DeleteArtist(r)) /\ Fine(DeleteTrack(r)) /\ Fine(DeleteAlbum(r)) /\ Fine(DeletePlaylist(r))
    BY FetchesSound, DeletesSound
  <1>3. Fine(AddTrackToPlaylist(r)) /\ Fine(RemoveTrackFromPlaylist(r))
    BY MembershipsSound
  <1>4. Fine(CreatePlaylist(r))
    <2>1. r.tracks \in Seq(STRING) \cup {Null}
      BY DEF Request
    <2> QED BY <2>1, CreatePlaylistSound
  <1>5. Fine(CreateTrack(r))
    <2>1. r.duration \in Word /\ r.bitrate \in Word /\ r.trackNumber \in Word /\ r.discNumber \in Word
            /\ r.fileSize \in Word
      BY DEF Request
    <2> QED BY <2>1, CreateTrackSound
  <1>6. Fine(Readyz) /\ Fine(Healthz)
    BY ReadySound
  <1> HIDE DEF Fine
  <1>7. Fine(Handler(r))
    BY <1>1, <1>2, <1>3, <1>4, <1>5, <1>6 DEF Handler
  <1>8. r.to = "Healthz" => Handler(r) = <<>>
    BY DEF Handler, Healthz
  <1>9. r.to = "Readyz" => Handler(r) = Readyz
    BY DEF Handler
  <1> QED BY <1>7, <1>8, <1>9, ReadySound DEF Fine

\* A uuid column gives back an id: never NULL, and never an empty one for
\* one that was not.
LEMMA CanonicalIds ==
  /\ \A x \in STRING : Canonical(x) \in STRING /\ Canonical(x) # Null
  /\ \A x \in STRING \ {""} : Canonical(x) # ""
  /\ Canonical("") = "" /\ Canonical(Null) = Null
  <1>1. Null \notin STRING
    BY InputsAssumption
  <1>2. "uuid" \in STRING /\ "UUID" \in STRING /\ "t" \in STRING /\ "T" \in STRING
    BY LiteralsAssumption
  <1>3. \A x : Canonical(x) = "uuid" \/ Canonical(x) = "t" \/ Canonical(x) = x
    BY DEF Canonical
  <1>4. Canonical("") = ""
    BY DEF Canonical
  <1>5. Canonical(Null) = Null
    <2>1. Null # "UUID" /\ Null # "T"
      BY <1>1, <1>2
    <2> QED BY <2>1 DEF Canonical
  <1>6. \A x \in STRING : Canonical(x) \in STRING
    BY <1>2, <1>3
  <1>7. \A x \in STRING \ {""} : Canonical(x) # ""
    BY <1>3
  <1>8. \A x \in STRING : Canonical(x) # Null
    BY <1>1, <1>6
  <1> QED BY <1>4, <1>5, <1>6, <1>7, <1>8

LEMMA TrackInCanonicalIds ==
  ASSUME NEW t
  PROVE  InCanonicalIds(TrackResponse(t)) =
           [artist |-> Canonical(t.artist),
            album |-> Canonical(IF t.album = "" THEN Null ELSE t.album),
            duration |-> Milliseconds(t.duration), bitrate |-> t.bitrate,
            fileSize |-> t.fileSize, trackNumber |-> t.trackNumber,
            discNumber |-> t.discNumber, hasFile |-> t.storageKey # ""]
  <1> DEFINE album == IF t.album = "" THEN Null ELSE t.album
             ms == Milliseconds(t.duration)
             has == t.storageKey # ""
             e == TrackResponse(t)
             g == InCanonicalIds(e)
  <1>1. e = [artist |-> t.artist, album |-> album, duration |-> ms, bitrate |-> t.bitrate,
             fileSize |-> t.fileSize, trackNumber |-> t.trackNumber,
             discNumber |-> t.discNumber, hasFile |-> has]
    BY DEF TrackResponse
  <1> HIDE DEF album, ms, has, e
  <1>2. g = [f \in DOMAIN e |->
               CASE f \in {"artist", "album"} -> Canonical(e[f])
                 [] f = "tracks" -> [i \in DOMAIN e[f] |-> Canonical(e[f][i])]
                 [] OTHER -> e[f]]
    BY DEF InCanonicalIds
  <1> HIDE DEF g
  <1>3. DOMAIN e = {"artist", "album", "duration", "bitrate", "fileSize", "trackNumber",
                    "discNumber", "hasFile"}
    BY <1>1
  <1>4. /\ g["artist"] = Canonical(t.artist) /\ g["album"] = Canonical(album)
        /\ \A f \in {"duration", "bitrate", "fileSize", "trackNumber", "discNumber", "hasFile"} :
             g[f] = e[f]
    BY <1>1, <1>2, <1>3
  <1>5. g = [artist |-> Canonical(t.artist), album |-> Canonical(album), duration |-> ms,
             bitrate |-> t.bitrate, fileSize |-> t.fileSize, trackNumber |-> t.trackNumber,
             discNumber |-> t.discNumber, hasFile |-> has]
    BY <1>1, <1>2, <1>3, <1>4
  <1> QED BY <1>5 DEF g, e, album, ms, has

LEMMA AlbumInCanonicalIds ==
  ASSUME NEW a \in [artist : STRING, date : STRING \cup {Null}, coverKey : STRING]
  PROVE  InCanonicalIds(AlbumResponse(a)) = AlbumResponse(AlbumRow(a))
  <1> DEFINE cover == IF a.coverKey = "" THEN Null ELSE a.coverKey
             e == AlbumResponse(a)
             g == InCanonicalIds(e)
  <1>1. e = [artist |-> a.artist, date |-> a.date, coverKey |-> cover]
    BY DEF AlbumResponse
  <1>2. AlbumResponse(AlbumRow(a))
          = [artist |-> Canonical(a.artist), date |-> a.date, coverKey |-> cover]
    BY DEF AlbumResponse, AlbumRow
  <1> HIDE DEF cover, e
  <1>3. g = [f \in DOMAIN e |->
               CASE f \in {"artist", "album"} -> Canonical(e[f])
                 [] f = "tracks" -> [i \in DOMAIN e[f] |-> Canonical(e[f][i])]
                 [] OTHER -> e[f]]
    BY DEF InCanonicalIds
  <1> HIDE DEF g
  <1>4. DOMAIN e = {"artist", "date", "coverKey"}
    BY <1>1
  <1>5. g["artist"] = Canonical(a.artist) /\ g["date"] = a.date /\ g["coverKey"] = cover
    BY <1>1, <1>3, <1>4
  <1>6. g = [artist |-> Canonical(a.artist), date |-> a.date, coverKey |-> cover]
    BY <1>3, <1>4, <1>5
  <1> QED BY <1>2, <1>6 DEF g, e

LEMMA PlaylistInCanonicalIds ==
  ASSUME NEW p, p.tracks \in Seq(STRING) \cup {Null}
  PROVE  InCanonicalIds(PlaylistResponse(p)) = PlaylistResponse(ScanPlaylist(PlaylistRow(p)))
  <1> DEFINE ids == IF p.tracks = Null THEN <<>> ELSE p.tracks
             row == [i \in DOMAIN ids |-> Canonical(ids[i])]
  <1>1. PlaylistRow(p) = row /\ PlaylistResponse(p) = [tracks |-> ids]
    BY DEF PlaylistRow, PlaylistResponse
  <1>2. ScanPlaylist(row) = [tracks |-> row] /\ ScanPlaylist(row).tracks = row
    BY DEF ScanPlaylist
  <1>3. row # Null
    <2>1. ids \in Seq(STRING)
      <3>1. <<>> \in Seq(STRING)
        OBVIOUS
      <3> QED BY <3>1
    <2>2. row \in Seq(STRING)
      <3> HIDE DEF ids
      <3>1. Len(ids) \in Nat /\ DOMAIN ids = 1 .. Len(ids) /\ \A i \in DOMAIN ids : ids[i] \in STRING
        BY <2>1
      <3>2. \A i \in DOMAIN ids : Canonical(ids[i]) \in STRING
        BY <3>1, CanonicalIds
      <3>3. row \in [1 .. Len(ids) -> STRING]
        BY <3>1, <3>2
      <3> HIDE DEF row
      <3> QED BY <3>1, <3>3
    <2> HIDE DEF row
    <2>3. Null \notin Seq(STRING)
      BY InputsAssumption
    <2> QED BY <2>2, <2>3
  <1>4. InCanonicalIds([tracks |-> ids]) = [tracks |-> row]
    <2> HIDE DEF ids
    <2> QED BY DEF InCanonicalIds
  <1>5. PlaylistResponse([tracks |-> row]) = [tracks |-> row]
    <2> HIDE DEF row
    <2> QED BY <1>3 DEF PlaylistResponse
  <1> QED BY <1>1, <1>2, <1>4, <1>5

\* The entity a creation answers is the one a GET then shows, but for the
\* spelling of its ids.
LEMMA FetchedAsInserted ==
  ASSUME NEW r \in Request, r.to \in Creates, Inserted(r) # Null
  PROVE  /\ Fetched(Inserted(r)) = InCanonicalIds(Inserted(r).shown)
         /\ Inserted(r).get \in {"GetTrack", "GetAlbum", "GetPlaylist"}
  <1>1. r.to # "CreateArtist"
    BY DEF Inserted
  <1>2. CASE r.to = "CreateTrack"
    <2> DEFINE t == TrackOf(r)
               ms == Milliseconds(t.duration)
               s == Inserted(r)
               u == ScanTrack(TrackRow(t))
    <2>1. s = [get |-> "GetTrack", row |-> TrackRow(t), shown |-> TrackResponse(t)]
      BY <1>2 DEF Inserted
    <2>2. s.get = "GetTrack" /\ s.row = TrackRow(t) /\ s.shown = TrackResponse(t)
      BY <2>1
    <2>3. Fetched(s) = TrackResponse(u)
      <3> HIDE DEF s, u
      <3> QED BY <2>2 DEF Fetched, u
    <2>4. ms \in Int /\ ms * Ms \in Word
      <3>1. r.duration \in Int /\ Ms \in Int
        BY WidthAssumption DEF Request, Word
      <3>2. r.duration * Ms \in Int
        BY <3>1
      <3>3. t.duration \in Word
        BY <3>2, WrapIsWord, InsertedNumbers
      <3> HIDE DEF t
      <3> QED BY <3>3, MillisecondsFit
    <2>5. u.duration = ms * Ms
      <3>1. TrackRow(t).duration = ms
        BY InsertedNumbers
      <3>2. u.duration = Wrap(ms * Ms)
        BY <3>1 DEF ScanTrack, TrackRow, TrackOf
      <3> QED BY <2>4, <3>2, WrapKeeps
    <2>6. Milliseconds(u.duration) = ms
      BY <2>4, <2>5, MillisecondsExact
    <2>7. t.album = r.album /\ r.album \in STRING
      BY InsertedNumbers DEF Request
    <2>8. u.album = Canonical(t.album)
      <3>1. TrackRow(t).album = IF t.album = "" THEN Null ELSE Canonical(t.album)
        BY DEF TrackRow, TrackOf
      <3>2. u.album = IF TrackRow(t).album = Null THEN "" ELSE TrackRow(t).album
        BY DEF ScanTrack, TrackRow, TrackOf
      <3> HIDE DEF u, t
      <3> QED BY <2>7, <3>1, <3>2, CanonicalIds
    <2>9. u.bitrate = t.bitrate /\ u.fileSize = t.fileSize /\ u.trackNumber = t.trackNumber
            /\ u.discNumber = t.discNumber /\ u.storageKey = t.storageKey
            /\ u.artist = Canonical(t.artist)
      BY DEF ScanTrack, TrackRow, TrackOf
    <2>10. (IF u.album = "" THEN Null ELSE u.album)
             = Canonical(IF t.album = "" THEN Null ELSE t.album)
      <3> HIDE DEF u, t
      <3> QED BY <2>7, <2>8, CanonicalIds
    <2> HIDE DEF u
    <2>11. TrackResponse(u) = InCanonicalIds(TrackResponse(t))
      <3> HIDE DEF t, ms
      <3> QED BY <2>6, <2>9, <2>10, TrackInCanonicalIds DEF TrackResponse, ms
    <2> QED BY <2>2, <2>3, <2>11
  <1>3. CASE r.to = "CreateAlbum"
    <2> DEFINE s == Inserted(r)
               a == AlbumOf(r)
    <2>1. s = [get |-> "GetAlbum", row |-> AlbumRow(a), shown |-> AlbumResponse(a)]
      BY <1>3 DEF Inserted
    <2>2. s.get = "GetAlbum" /\ s.row = AlbumRow(a) /\ s.shown = AlbumResponse(a)
      BY <2>1
    <2>3. Fetched(s) = AlbumResponse(AlbumRow(a))
      <3> HIDE DEF s, a
      <3> QED BY <2>2 DEF Fetched
    <2>4. a \in [artist : STRING, date : STRING \cup {Null}, coverKey : STRING]
      <3> DEFINE d == IF r.date = "" THEN Null ELSE r.date
      <3>1. r.artist \in STRING /\ r.date \in STRING /\ "" \in STRING
        BY LiteralsAssumption DEF Request
      <3>2. d \in STRING \cup {Null}
        BY <3>1
      <3>3. a = [artist |-> r.artist, date |-> d, coverKey |-> ""]
        BY DEF AlbumOf
      <3> HIDE DEF a, d
      <3> QED BY <3>1, <3>2, <3>3
    <2> HIDE DEF a
    <2> QED BY <2>2, <2>3, <2>4, AlbumInCanonicalIds
  <1>4. CASE r.to = "CreatePlaylist"
    <2> DEFINE s == Inserted(r)
               p == PlaylistOf(r)
    <2>1. s = [get |-> "GetPlaylist", row |-> PlaylistRow(p), shown |-> PlaylistResponse(p)]
      BY <1>4 DEF Inserted
    <2>2. s.get = "GetPlaylist" /\ s.row = PlaylistRow(p) /\ s.shown = PlaylistResponse(p)
      BY <2>1
    <2>3. Fetched(s) = PlaylistResponse(ScanPlaylist(PlaylistRow(p)))
      <3> HIDE DEF s, p
      <3> QED BY <2>2 DEF Fetched
    <2>4. p.tracks \in Seq(STRING) \cup {Null}
      BY DEF PlaylistOf, Request
    <2> HIDE DEF p
    <2> QED BY <2>2, <2>3, <2>4, PlaylistInCanonicalIds
  <1> QED BY <1>1, <1>2, <1>3, <1>4 DEF Creates

-----------------------------------------------------------------------------
(***************************************************************************)
(* The invariant.                                                          *)
(***************************************************************************)
LEMMA NewResponses ==
  ASSUME NEW head \in BOOLEAN
  PROVE  LET v == NewResponse(head)
         IN  /\ v \in Responses /\ v.head = head /\ v.header = "none" /\ v.status = 0
             /\ v.type = "none" /\ v.body = <<>> /\ v.logBytes = 0 /\ ~v.wroteHeader /\ ~v.rewriting
  <1>1. <<>> \in Seq(Pieces) /\ "none" \in Types
    BY DEF Types
  <1> QED BY <1>1 DEF NewResponse, Responses

LEMMA InitInv == Init => HttpInv
  <1> SUFFICES ASSUME Init PROVE HttpInv
    OBVIOUS
  <1>1. q.head = FALSE /\ q.to = "Healthz"
    BY DEF Init, Plain
  <1>2. Unsent(w, "none")
    <2>1. w = NewResponse(FALSE)
      BY DEF Init
    <2> QED BY <1>1, <2>1, NewResponses DEF Unsent
  <1>3. ResultMeans
    BY <1>1 DEF Init, ResultMeans, Results, MuxRoutes
  <1>4. Remembered
    BY <1>1 DEF Init, Remembered, Creates
  <1> QED BY <1>2, <1>3, <1>4 DEF Init, HttpInv, Stepping, Responding, Answered, Logged

LEMMA ArriveInv ==
  ASSUME HttpInv, NEW r \in Inputs, Arrive(r)
  PROVE  HttpInv'
  <1>1. r \in Request /\ r.head \in BOOLEAN
    BY InputsAssumption DEF Request
  <1>2. /\ q' = r /\ result' = "ok" /\ faulted' = FALSE /\ panicked' = FALSE /\ errors' = {}
        /\ line' = Null /\ shown' = Null
    BY DEF Arrive
  <1>3. id' = echoed' /\ id' \in RequestIds
    BY <1>1 DEF Arrive, RequestID, RequestIds
  <1>4. Unsent(w, "none")'
    <2>1. w' = NewResponse(r.head)
      BY DEF Arrive
    <2> QED BY <1>1, <1>2, <2>1, NewResponses DEF Unsent
  <1>5. ResultMeans'
    BY <1>2 DEF ResultMeans, Results
  <1>6. Remembered'
    <2>1. stored' \in {stored, Null} /\ (stored' # Null => stored # Null /\ stored.get = r.to)
      BY DEF Arrive
    <2>2. stored # Null => \E x \in Inputs : x.to \in Creates /\ stored = Inserted(x)
      BY DEF HttpInv, Remembered
    <2>3. stored' # Null => r.to \notin Creates
      <3> SUFFICES ASSUME stored' # Null PROVE r.to \notin Creates
        OBVIOUS
      <3>1. PICK x \in Inputs : x.to \in Creates /\ stored = Inserted(x)
        BY <2>1, <2>2
      <3>2. x \in Request /\ stored # Null
        BY <2>1, InputsAssumption
      <3>3. stored.get \in {"GetTrack", "GetAlbum", "GetPlaylist"}
        BY <3>1, <3>2, FetchedAsInserted
      <3> QED BY <2>1, <3>3 DEF Creates
    <2> QED BY <1>2, <2>1, <2>2, <2>3 DEF Remembered
  <1>7. CASE r.to \in MuxRoutes
    <2>1. pc' = "responding" /\ stages' = <<>> /\ calls' = MuxCalls(r.to)
      BY <1>7 DEF Arrive
    <2>2. calls' \in {PlainError(404), PlainError(405), RedirectToCleanPath}
      BY <1>7, <2>1 DEF MuxCalls, MuxRoutes
    <2>3. WritesMuxError' \/ WritesRedirect'
      BY <1>4, <2>2, ZenonT(60) DEF WritesMuxError, WritingMuxError, WritesRedirect
    <2> QED BY <1>2, <1>3, <1>4, <1>5, <1>6, <2>1, <2>3
            DEF HttpInv, Stepping, Responding, Answered, Logged
  <1>8. CASE r.to \notin MuxRoutes
    <2>1. pc' = "handling" /\ stages' = Handler(r) /\ calls' = <<>>
      BY <1>8 DEF Arrive
    <2>2. Stepping'
      BY <1>1, <1>2, <1>4, <1>8, <2>1, HandlerSound DEF Stepping
    <2> QED BY <1>2, <1>3, <1>5, <1>6, <2>1, <2>2
            DEF HttpInv, Responding, Answered, Logged
  <1> QED BY <1>7, <1>8

LEMMA StepInv ==
  ASSUME HttpInv, Step
  PROVE  HttpInv'
  <1> DEFINE e == stages[1]
             n == Len(stages)
  <1>1. pc = "handling" /\ stages # <<>> /\ q \in Inputs /\ ResultMeans /\ Stepping
    BY DEF HttpInv, Step
  <1>2. stages \in Seq(Stages) /\ Sound(stages, q)
    BY <1>1 DEF Stepping
  <1>3. PICK res \in Head(stages).may :
          /\ result' = IF q.to = "Readyz" THEN ReadyAfter(res) ELSE res
          /\ stages' = IF res = "ok" \/ q.to = "Readyz" THEN Tail(stages) ELSE <<>>
          /\ faulted' = (faulted \/ res = "fault")
          /\ stored' = IF res = "ok" /\ Tail(stages) = <<>> /\ q.to \in Creates
                       THEN Inserted(q) ELSE stored
    BY DEF Step
  <1>4. UNCHANGED <<pc, q, id, panicked, calls, w, echoed, errors, line, shown>>
    BY DEF Step
  <1>5. /\ n \in Nat \ {0} /\ e \in Stages /\ Head(stages) = e
        /\ Tail(stages) \in Seq(Stages) /\ Len(Tail(stages)) = n - 1
        /\ \A i \in 1 .. (n - 1) : Tail(stages)[i] = stages[i + 1]
    <2> HIDE DEF Stages
    <2>1. \A s \in Seq(Stages) : s # <<>> =>
            /\ Len(s) \in Nat \ {0} /\ s[1] \in Stages /\ Head(s) = s[1]
            /\ Tail(s) \in Seq(Stages) /\ Len(Tail(s)) = Len(s) - 1
            /\ \A i \in 1 .. (Len(s) - 1) : Tail(s)[i] = s[i + 1]
      OBVIOUS
    <2> QED BY <1>1, <1>2, <2>1
  <1>6. res \in e.may /\ res \in Results
    BY <1>3, <1>5 DEF Stages
  <1>7. q.to # "Readyz" => result = "ok"
    BY <1>1 DEF Stepping
  <1>8. q.to = "Readyz" => result \in {"ok", "fault"} /\ res \in {"ok", "fault"}
    <2>1. q.to = "Readyz" => e.may \subseteq {"ok", "fault"}
      <3>1. 1 \in 1 .. n
        BY <1>5
      <3> QED BY <1>1, <3>1 DEF Stepping
    <2> QED BY <1>1, <1>6, <2>1 DEF ResultMeans
  <1>9. q.to \notin {"Healthz"} \cup MuxRoutes
    BY <1>1 DEF Stepping
  <1>10. result' \in Results /\ faulted' \in BOOLEAN /\ (faulted' <=> result' = "fault")
         /\ (q.to = "Readyz" => result' \in {"ok", "fault"})
    <2>1. (faulted <=> result = "fault") /\ result \in Results /\ faulted \in BOOLEAN
      BY <1>1 DEF ResultMeans
    <2>2. faulted' \in BOOLEAN
      BY <1>3
    <2>3. result' \in Results /\ (q.to = "Readyz" => result' \in {"ok", "fault"})
      BY <1>3, <1>6, <1>8, <2>1 DEF ReadyAfter
    <2>4. faulted' <=> faulted \/ res = "fault"
      BY <1>3, <2>1
    <2>5. result' = "fault" <=> faulted \/ res = "fault"
      BY <1>3, <1>7, <1>8, <2>1 DEF ReadyAfter
    <2> QED BY <2>2, <2>3, <2>4, <2>5
  <1>11. result' = "rejected" => Slips(q)
    <2> SUFFICES ASSUME result' = "rejected" PROVE Slips(q)
      OBVIOUS
    <2>1. res = "rejected"
      BY <1>3, <1>8, <1>10
    <2>2. Refuses(stages[1]) /\ 1 \in 1 .. Len(stages) /\ 1 .. (1 - 1) = {}
      BY <1>5, <1>6, <2>1 DEF Refuses
    <2> QED BY <1>2, <2>2 DEF Sound
  <1>12. ResultMeans'
    BY <1>1, <1>4, <1>9, <1>10, <1>11 DEF ResultMeans
  <1>13. Unsent(w, "none")'
    BY <1>1, <1>4 DEF Stepping, Unsent
  <1>14. res = "ok" \/ q.to = "Readyz" => Sound(Tail(stages), q)
    <2>1. CASE q.to = "Readyz"
      <3>1. \A i \in 1 .. n : stages[i].may \subseteq {"ok", "fault"}
        BY <1>1, <2>1 DEF Stepping
      <3>2. \A i \in 1 .. n : ~Refuses(stages[i])
        BY <3>1 DEF Refuses
      <3> QED BY <1>1, <1>2, <3>2, RestSound
    <2>2. CASE res = "ok"
      <3>1. ~Blocks(stages[1])
        BY <1>6, <2>2 DEF Blocks
      <3> QED BY <1>1, <1>2, <3>1, RestSound
    <2> QED BY <2>1, <2>2
  <1>15. Stepping'
    <2>1. <<>> \in Seq(Stages) /\ Sound(<<>>, q) /\ Len(<<>>) = 0
      BY DEF Sound
    <2>2. stages' \in Seq(Stages) /\ Sound(stages', q)
      BY <1>3, <1>5, <1>14, <2>1
    <2>3. result' # "ok" /\ q.to # "Readyz" => stages' = <<>>
      BY <1>3
    <2>4. q.to = "Readyz" => \A i \in 1 .. Len(stages') : stages'[i].may \subseteq {"ok", "fault"}
      <3> SUFFICES ASSUME q.to = "Readyz", NEW i \in 1 .. Len(stages')
                   PROVE  stages'[i].may \subseteq {"ok", "fault"}
        OBVIOUS
      <3>1. stages' = Tail(stages)
        BY <1>3
      <3>2. i \in 1 .. (n - 1) /\ i + 1 \in 1 .. n
        BY <1>5, <3>1
      <3>3. stages'[i] = stages[i + 1]
        BY <1>5, <3>1, <3>2
      <3> QED BY <1>1, <3>2, <3>3 DEF Stepping
    <2> QED BY <1>1, <1>4, <1>9, <1>13, <2>2, <2>3, <2>4 DEF Stepping, Sound
  <1>16. Remembered'
    <2>1. shown' = Null
      BY <1>1, <1>4 DEF Stepping
    <2> QED BY <1>1, <1>3, <1>4, <2>1 DEF HttpInv, Remembered
  <1> QED BY <1>1, <1>4, <1>12, <1>15, <1>16 DEF HttpInv, Responding, Answered, Logged

LEMMA ErrorCodesKnown ==
  /\ \A x \in ErrorCodes : x \in Pieces /\ x \in DOMAIN HTTP!StatusOf
  /\ "entity" \in Pieces /\ "audio" \in Pieces /\ "text" \in Pieces /\ "html" \in Pieces
  /\ "audio" \notin DOMAIN HTTP!StatusOf /\ "entity" \notin DOMAIN HTTP!StatusOf
  /\ HTTP!StatusOf["duplicate_audio"] = {409} /\ HTTP!StatusOf["not_found"] = {404}
  /\ HTTP!StatusOf["invalid_input"] = {400} /\ HTTP!StatusOf["conflict"] = {409}
  /\ HTTP!StatusOf["internal_error"] = {500} /\ HTTP!StatusOf["payload_too_large"] = {413}
  /\ HTTP!StatusOf["method_not_allowed"] = {405}
  BY DEF HTTP!StatusOf, ErrorCodes, Pieces

\* The code of an error stands for its status; only what no sentinel names is a 500.
LEMMA ErrorReplies ==
  ASSUME NEW res \in Results \ {"ok", "TooLarge"}
  PROVE  /\ StatusForError(res) \in {400, 404, 409, 500}
         /\ CodeForError(res) \in ErrorCodes
         /\ StatusForError(res) \in HTTP!StatusOf[CodeForError(res)]
         /\ StatusForError(res) = 500 <=> res \in {"rejected", "fault"}
  <1>1. CASE res = "NotFound"
    <2>1. StatusForError(res) = 404 /\ CodeForError(res) = "not_found"
      BY <1>1 DEF StatusForError, CodeForError
    <2> QED BY <1>1, <2>1, ErrorCodesKnown DEF ErrorCodes
  <1>2. CASE res = "InvalidInput"
    <2>1. StatusForError(res) = 400 /\ CodeForError(res) = "invalid_input"
      BY <1>2 DEF StatusForError, CodeForError
    <2> QED BY <1>2, <2>1, ErrorCodesKnown DEF ErrorCodes
  <1>3. CASE res = "Conflict"
    <2>1. StatusForError(res) = 409 /\ CodeForError(res) = "conflict"
      BY <1>3 DEF StatusForError, CodeForError
    <2> QED BY <1>3, <2>1, ErrorCodesKnown DEF ErrorCodes
  <1>4. CASE res = "DuplicateAudio"
    <2>1. StatusForError(res) = 409 /\ CodeForError(res) = "duplicate_audio"
      BY <1>4 DEF StatusForError, CodeForError
    <2> QED BY <1>4, <2>1, ErrorCodesKnown DEF ErrorCodes
  <1>5. CASE res \in {"rejected", "fault"}
    <2>1. StatusForError(res) = 500 /\ CodeForError(res) = "internal_error"
      BY <1>5 DEF StatusForError, CodeForError
    <2> QED BY <1>5, <2>1, ErrorCodesKnown DEF ErrorCodes
  <1> QED BY <1>1, <1>2, <1>3, <1>4, <1>5 DEF Results, Sentinels

LEMMA RespondInv ==
  ASSUME HttpInv, Respond
  PROVE  HttpInv'
  <1>1. pc = "handling" /\ q \in Inputs /\ ResultMeans /\ Stepping /\ Remembered /\ id \in RequestIds
    BY DEF HttpInv, Respond
  <1>2. /\ calls' \in Replies(q, result) /\ pc' = "responding" /\ stages = <<>>
        /\ errors' = errors \cup LogsError(q, result)
        /\ shown' = IF result # "ok" \/ stored = Null THEN Null
                    ELSE IF q.to \in Creates THEN stored.shown ELSE Fetched(stored)
    BY DEF Respond
  <1>3. UNCHANGED <<q, id, stages, result, faulted, panicked, w, echoed, line, stored>>
    BY DEF Respond
  <1>4. result \in Results /\ (faulted <=> result = "fault") /\ (result = "rejected" => Slips(q))
    BY <1>1 DEF ResultMeans
  <1>5. Unsent(w, "none")'
    BY <1>1, <1>3 DEF Stepping, Unsent
  <1>6. ResultMeans'
    BY <1>1, <1>2, <1>3 DEF ResultMeans, Slips
  <1>7. Remembered'
    <2>1. stored # Null => Fetched(stored) = InCanonicalIds(stored.shown)
      <3> SUFFICES ASSUME stored # Null PROVE Fetched(stored) = InCanonicalIds(stored.shown)
        OBVIOUS
      <3>1. PICK x \in Inputs : x.to \in Creates /\ stored = Inserted(x)
        BY <1>1 DEF Remembered
      <3> QED BY <3>1, InputsAssumption, FetchedAsInserted
    <2>2. shown' # Null =>
            /\ stored # Null
            /\ shown' = IF q.to \in Creates THEN stored.shown ELSE InCanonicalIds(stored.shown)
      BY <1>2, <2>1
    <2> QED BY <1>1, <1>3, <2>2 DEF Remembered
  <1>8. result = "ok" => Means(200, "entity")' /\ Means(201, "entity")'
    <2> SUFFICES ASSUME result = "ok" PROVE Means(200, "entity")' /\ Means(201, "entity")'
      OBVIOUS
    <2>1. ~faulted'
      BY <1>3, <1>4
    <2> QED BY <2>1 DEF Means
  <1>9. ASSUME NEW status \in {200, 201, 400, 404, 409, 413, 500, 503}, NEW payload \in Pieces,
               calls' = RespondWithJSON(status, payload), Means(status, payload)'
        PROVE  WritesJSON'
    <2>1. WritingJSON(status, payload)'
      BY <1>5, <1>9, ZenonT(60) DEF WritingJSON
    <2> QED BY <1>9, <2>1 DEF WritesJSON
  <1>10. /\ faulted => errors' # {}
         /\ \/ WritesJSON'
            \/ /\ ~faulted
               /\ \/ WritesNothing' \/ WritesAudio' \/ WritesNotModified'
                  \/ WritesPreconditionFailed' \/ WritesRangeError'
    <2>1. CASE q.to = "Healthz"
      <3>1. result = "ok" /\ ~faulted
        BY <1>1, <1>4, <2>1 DEF ResultMeans
      <3>2. calls' = RespondWithJSON(200, "entity")
        BY <1>2, <2>1 DEF Replies
      <3> QED BY <1>8, <1>9, <3>1, <3>2, ErrorCodesKnown
    <2>2. CASE q.to = "Readyz" /\ result = "ok"
      <3>1. calls' = RespondWithJSON(200, "entity")
        BY <1>2, <2>2 DEF Replies
      <3> QED BY <1>4, <1>8, <1>9, <2>2, <3>1, ErrorCodesKnown
    <2>3. CASE q.to = "Readyz" /\ result # "ok"
      <3>1. calls' = RespondWithJSON(503, "entity")
        BY <1>2, <2>3 DEF Replies
      <3>2. result = "fault" /\ faulted
        BY <1>1, <1>4, <2>3 DEF ResultMeans
      <3>3. Means(503, "entity")'
        BY <1>3, <3>2 DEF Means
      <3>4. LogsError(q, result) = {""}
        BY <2>3 DEF LogsError
      <3>5. errors' # {}
        BY <1>2, <3>4
      <3>6. WritesJSON'
        BY <1>9, <3>1, <3>3, ErrorCodesKnown
      <3> QED BY <3>5, <3>6
    <2>4. CASE q.to \notin {"Healthz", "Readyz"} /\ result = "TooLarge"
      <3>1. calls' = RespondWithJSON(413, "payload_too_large")
        BY <1>2, <2>4 DEF Replies, WriteTooLarge
      <3>2. ~faulted /\ "payload_too_large" \in Pieces
        BY <1>4, <2>4, ErrorCodesKnown DEF ErrorCodes
      <3>3. Means(413, "payload_too_large")'
        BY <1>3, <3>2, ErrorCodesKnown DEF Means, ErrorCodes
      <3> QED BY <1>9, <3>1, <3>2, <3>3
    <2>5. CASE q.to \notin {"Healthz", "Readyz"} /\ result \notin {"ok", "TooLarge"}
      <3>1. PICK status \in {400, 404, 409, 500}, payload \in ErrorCodes :
              status = StatusForError(result) /\ payload = CodeForError(result)
        BY <1>4, <2>5, ErrorReplies
      <3>2. /\ calls' = RespondWithJSON(status, payload)
            /\ status \in HTTP!StatusOf[payload]
            /\ status = 500 <=> result \in {"rejected", "fault"}
        BY <1>2, <1>4, <2>5, <3>1, ErrorReplies DEF Replies, WriteError
      <3>3. LogsError(q, result) = IF status = 500 THEN {id} ELSE {}
        BY <2>5, <3>1, ZenonT(60) DEF LogsError
      <3>4. Means(status, payload)'
        <4>1. payload \in DOMAIN HTTP!StatusOf
          BY <3>1, ErrorCodesKnown
        <4>2. (faulted => status >= 500) /\ (status >= 500 => faulted \/ Slips(q))
          BY <1>4, <3>2
        <4>3. status = 500 => id \in errors'
          BY <1>2, <3>3
        <4>4. (faulted <=> faulted') /\ (Slips(q) <=> Slips(q)') /\ id' = id
          BY <1>3 DEF Slips
        <4> QED BY <3>2, <4>1, <4>2, <4>3, <4>4 DEF Means
      <3>5. faulted => errors' # {}
        BY <1>2, <1>4, <3>2, <3>3
      <3>6. payload \in Pieces /\ status \in {200, 201, 400, 404, 409, 413, 500, 503}
        BY <3>2, ErrorCodesKnown
      <3>7. WritesJSON'
        BY <1>9, <3>2, <3>4, <3>6
      <3> QED BY <3>5, <3>7
    <2>6. CASE q.to \notin {"Healthz", "Readyz"} /\ result = "ok"
      <3>1. ~faulted
        BY <1>4, <2>6
      <3>2. CASE q.to \in Creates
        <4>1. calls' = RespondWithJSON(201, "entity")
          BY <1>2, <2>6, <3>2 DEF Replies, Creates, Fetches
        <4> QED BY <1>8, <1>9, <2>6, <3>1, <4>1, ErrorCodesKnown
      <3>3. CASE q.to \in Fetches
        <4>1. calls' = RespondWithJSON(200, "entity")
          BY <1>2, <2>6, <3>3 DEF Replies, Creates, Fetches
        <4> QED BY <1>8, <1>9, <2>6, <3>1, <4>1, ErrorCodesKnown
      <3>4. CASE q.to = "StreamTrack"
        <4>1. calls' \in {ServeContent(s, q.head) : s \in {200, 206, 304, 412, 416}}
          BY <1>2, <2>6, <3>4 DEF Replies, Creates, Fetches
        <4>2. PICK s \in {200, 206, 304, 412, 416} : calls' = ServeContent(s, q'.head)
          BY <1>3, <4>1
        <4>3. CASE s \in {200, 206}
          BY <1>5, <4>2, <4>3, <3>1, ZenonT(60) DEF WritesAudio, WritingAudio
        <4>4. CASE s = 304
          BY <1>5, <4>2, <4>4, <3>1 DEF WritesNotModified
        <4>5. CASE s = 412
          BY <1>5, <4>2, <4>5, <3>1 DEF WritesPreconditionFailed
        <4>6. CASE s = 416
          BY <1>5, <4>2, <4>6, <3>1 DEF WritesRangeError
        <4> QED BY <3>1, <4>3, <4>4, <4>5, <4>6
      <3>5. CASE q.to \notin Creates \cup Fetches \cup {"StreamTrack"}
        <4>1. calls' = RespondNoContent
          BY <1>2, <2>6, <3>5 DEF Replies
        <4> QED BY <1>5, <3>1, <4>1 DEF WritesNothing
      <3> QED BY <3>2, <3>3, <3>4, <3>5
    <2> QED BY <2>1, <2>2, <2>3, <2>4, <2>5, <2>6
  <1>11. Responding'
    BY <1>3, <1>10 DEF Responding
  <1> QED BY <1>1, <1>2, <1>3, <1>6, <1>7, <1>11 DEF HttpInv, Stepping, Answered, Logged

\* A response that goes on being what it was, in the next state.
LEMMA NextUnsent == ASSUME q' = q, NEW header, Unsent(w', header) PROVE Unsent(w, header)'
  BY DEF Unsent

LEMMA NextSent ==
  ASSUME q' = q, NEW header, NEW status, NEW body, NEW n, NEW rewriting,
         Sent(w', header, status, body, n, rewriting)
  PROVE  Sent(w, header, status, body, n, rewriting)'
  BY DEF Sent

LEMMA HeadAndTail ==
  /\ \A a : Head(<<a>>) = a /\ Tail(<<a>>) = <<>>
  /\ \A a, b : Head(<<a, b>>) = a /\ Tail(<<a, b>>) = <<b>> /\ <<a, b>> # <<>>
  /\ \A a, b, c : Head(<<a, b, c>>) = a /\ Tail(<<a, b, c>>) = <<b, c>>
  /\ \A a, b, c, d : Head(<<a, b, c, d>>) = a /\ Tail(<<a, b, c, d>>) = <<b, c, d>>
  OBVIOUS

\* The first piece of a body.
LEMMA SendsFirst ==
  ASSUME NEW v, NEW header, NEW status \in Nat \ {0, 204, 304}, NEW piece \in Pieces
  PROVE  Sent(v, header, status, <<>>, 0, FALSE)
           => Sent(Apply(v, [write |-> piece]), header, status, Body(<<piece>>), 1, FALSE)
  <1> DEFINE none == <<>>
             zero == 0
  <1>1. zero + 1 = 1 /\ Append(none, piece) = <<piece>>
    OBVIOUS
  <1>2. Body(<<piece>>) = IF q.head THEN none ELSE Append(none, piece)
    BY <1>1 DEF Body
  <1>3. none \in Seq(Pieces) /\ zero \in Nat
    OBVIOUS
  <1> HIDE DEF none, zero
  <1>4. Sent(v, header, status, none, zero, FALSE)
          => Sent(Apply(v, [write |-> piece]), header, status,
                  IF q.head THEN none ELSE Append(none, piece), zero + 1, FALSE)
    BY <1>3, SendsPiece
  <1>5. Sent(v, header, status, none, zero, FALSE)
          => Sent(Apply(v, [write |-> piece]), header, status, Body(<<piece>>), 1, FALSE)
    <2>1. Sent(v, header, status, none, zero, FALSE)
            => Sent(Apply(v, [write |-> piece]), header, status, Body(<<piece>>), zero + 1, FALSE)
      BY <1>2, <1>4
    <2>2. zero + 1 = 1
      BY <1>1
    <2> QED BY <2>1, <2>2, ZenonT(60)
  <1> QED BY <1>5 DEF none, zero

LEMMA WriteJSON ==
  ASSUME NEW status \in Nat \ {0, 204, 304}, NEW payload \in Pieces, WritingJSON(status, payload),
         calls # <<>>, w' = Apply(w, Head(calls)), calls' = Tail(calls), q' = q
  PROVE  WritingJSON(status, payload)'
  <1>1. CASE calls = RespondWithJSON(status, payload) /\ Unsent(w, "none")
    <2>1. w' = Apply(w, [set |-> "json"]) /\ calls' = <<[status |-> status], [write |-> payload]>>
      BY <1>1, HeadAndTail DEF RespondWithJSON
    <2>2. Unsent(w', "json")
      BY <1>1, <2>1, SetsHeader DEF Types
    <2> QED BY <2>1, <2>2, NextUnsent DEF WritingJSON
  <1>2. CASE calls = <<[status |-> status], [write |-> payload]>> /\ Unsent(w, "json")
    <2>1. w' = Apply(w, [status |-> status]) /\ calls' = <<[write |-> payload]>>
      BY <1>2, HeadAndTail
    <2>2. Sent(w', "json", status, <<>>, 0, FALSE)
      BY <1>2, <2>1, SendsHeader, ZenonT(60)
    <2> QED BY <2>1, <2>2, NextSent DEF WritingJSON
  <1>3. CASE calls = <<[write |-> payload]>> /\ Sent(w, "json", status, <<>>, 0, FALSE)
    <2>1. w' = Apply(w, [write |-> payload]) /\ calls' = <<>>
      BY <1>3, HeadAndTail
    <2>2. Sent(w', "json", status, Body(<<payload>>), 1, FALSE)
      BY <1>3, <2>1, SendsFirst, ZenonT(60)
    <2>3. Sent(w, "json", status, Body(<<payload>>), 1, FALSE)'
      BY <2>2, NextSent DEF Body
    <2> QED BY <2>1, <2>3 DEF WritingJSON
  <1> QED BY <1>1, <1>2, <1>3 DEF WritingJSON

LEMMA WriteMuxError ==
  ASSUME NEW status \in Nat \ {0, 204, 304}, status \in DOMAIN muxErrors,
         muxErrors[status] \in Pieces, WritingMuxError(status),
         calls # <<>>, w' = Apply(w, Head(calls)), calls' = Tail(calls), q' = q
  PROVE  WritingMuxError(status)'
  <1>0. PICK m : m = muxErrors[status]
    OBVIOUS
  <1>2. \A s : Body(s)' = Body(s)
    BY DEF Body
  <1>3. CASE calls = PlainError(status) /\ Unsent(w, "none")
    <2>1. w' = Apply(w, [set |-> "text"]) /\ calls' = <<[status |-> status], [write |-> "text"]>>
      BY <1>3, HeadAndTail DEF PlainError
    <2>2. Unsent(w', "text")
      BY <1>3, <2>1, SetsHeader DEF Types
    <2> QED BY <2>1, <2>2, NextUnsent DEF WritingMuxError
  <1>4. CASE calls = <<[status |-> status], [write |-> "text"]>> /\ Unsent(w, "text")
    <2>1. w' = Apply(w, [status |-> status]) /\ calls' = <<[write |-> "text"]>>
      BY <1>4, HeadAndTail
    <2>2. Sent(w', "json", status, Body(<<m>>), 1, TRUE)
      BY <1>0, <1>4, <2>1, RewritesMuxError, ZenonT(60)
    <2>3. Sent(w, "json", status, Body(<<m>>), 1, TRUE)'
      BY <1>2, <2>2, NextSent
    <2> QED BY <1>0, <2>1, <2>3 DEF WritingMuxError
  <1>5. CASE calls = <<[write |-> "text"]>> /\ Sent(w, "json", status, Body(<<m>>), 1, TRUE)
    <2>1. w' = Apply(w, [write |-> "text"]) /\ calls' = <<>>
      BY <1>5, HeadAndTail
    <2>2. Sent(w', "json", status, Body(<<m>>), 1, TRUE)
      BY <1>5, <2>1, DropsPiece, ZenonT(60)
    <2>3. Sent(w, "json", status, Body(<<m>>), 1, TRUE)'
      BY <1>2, <2>2, NextSent
    <2> QED BY <1>0, <2>1, <2>3 DEF WritingMuxError
  <1> QED BY <1>0, <1>3, <1>4, <1>5 DEF WritingMuxError

LEMMA WriteRedirect ==
  ASSUME WritesRedirect, calls # <<>>, w' = Apply(w, Head(calls)), calls' = Tail(calls), q' = q
  PROVE  WritesRedirect'
  <1>1. CASE calls = RedirectToCleanPath /\ Unsent(w, "none")
    <2>1. w' = Apply(w, [set |-> "html"]) /\ calls' = <<[status |-> 301], [write |-> "html"]>>
      BY <1>1, HeadAndTail DEF RedirectToCleanPath
    <2>2. Unsent(w', "html")
      BY <1>1, <2>1, SetsHeader DEF Types
    <2> QED BY <2>1, <2>2, NextUnsent DEF WritesRedirect
  <1>2. CASE calls = <<[status |-> 301], [write |-> "html"]>> /\ Unsent(w, "html")
    <2>1. w' = Apply(w, [status |-> 301]) /\ calls' = <<[write |-> "html"]>>
      BY <1>2, HeadAndTail
    <2>2. PICK s \in Nat \ {0} : s = 301
      OBVIOUS
    <2>3. Sent(Apply(w, [status |-> s]), "html", s, <<>>, 0, FALSE)
      <3>1. Unsent(w, "html")
        BY <1>2
      <3> QED BY <3>1, SendsHeader
    <2>4. Sent(w', "html", 301, <<>>, 0, FALSE)
      BY <2>1, <2>2, <2>3
    <2> QED BY <2>1, <2>4, NextSent DEF WritesRedirect
  <1>3. CASE calls = <<[write |-> "html"]>> /\ Sent(w, "html", 301, <<>>, 0, FALSE)
    <2>1. w' = Apply(w, [write |-> "html"]) /\ calls' = <<>>
      BY <1>3, HeadAndTail
    <2>2. PICK s \in Nat \ {0, 204, 304} : s = 301
      OBVIOUS
    <2>3. Sent(Apply(w, [write |-> "html"]), "html", s, Body(<<"html">>), 1, FALSE)
      <3>1. Sent(w, "html", s, <<>>, 0, FALSE) /\ "html" \in Pieces
        BY <1>3, <2>2, ErrorCodesKnown, ZenonT(60)
      <3> QED BY <3>1, SendsFirst
    <2>4. Sent(w', "html", 301, Body(<<"html">>), 1, FALSE)
      <3>1. Sent(w', "html", s, Body(<<"html">>), 1, FALSE)
        BY <2>1, <2>3
      <3> QED BY <2>2, <3>1
    <2>5. Sent(w, "html", 301, Body(<<"html">>), 1, FALSE)'
      BY <2>4, NextSent, ZenonT(60) DEF Body
    <2> QED BY <2>1, <2>5 DEF WritesRedirect
  <1> QED BY <1>1, <1>2, <1>3 DEF WritesRedirect

LEMMA WriteNothing ==
  ASSUME WritesNothing, calls # <<>>, w' = Apply(w, Head(calls)), calls' = Tail(calls), q' = q
  PROVE  WritesNothing'
  <1>1. calls = <<[status |-> 204]>> /\ Unsent(w, "none")
    BY DEF WritesNothing, RespondNoContent
  <1>2. w' = Apply(w, [status |-> 204]) /\ calls' = <<>>
    BY <1>1, HeadAndTail
  <1>3. PICK s \in Nat \ {0} : s = 204
    OBVIOUS
  <1>4. Sent(Apply(w, [status |-> s]), "none", s, <<>>, 0, FALSE)
    <2>1. Unsent(w, "none")
      BY <1>1
    <2> QED BY <2>1, SendsHeader
  <1>5. Sent(w', "none", 204, <<>>, 0, FALSE)
    BY <1>2, <1>3, <1>4
  <1> QED BY <1>2, <1>5, NextSent DEF WritesNothing

LEMMA ContentServed ==
  ASSUME NEW head
  PROVE  /\ \A status \in {200, 206} :
              ServeContent(status, head) =
                IF head THEN <<[set |-> "audio"], [status |-> status]>>
                ELSE <<[set |-> "audio"], [status |-> status], [write |-> "audio"], [write |-> "audio"]>>
         /\ ServeContent(304, head) = <<[set |-> "none"], [status |-> 304]>>
         /\ ServeContent(412, head) = <<[set |-> "audio"], [status |-> 412]>>
         /\ ServeContent(416, head)
              = <<[set |-> "audio"], [set |-> "text"], [status |-> 416], [write |-> "text"]>>
  <1>1. ServeContent(200, head) =
          IF head THEN <<[set |-> "audio"], [status |-> 200]>>
          ELSE <<[set |-> "audio"], [status |-> 200], [write |-> "audio"], [write |-> "audio"]>>
    BY DEF ServeContent
  <1>2. ServeContent(206, head) =
          IF head THEN <<[set |-> "audio"], [status |-> 206]>>
          ELSE <<[set |-> "audio"], [status |-> 206], [write |-> "audio"], [write |-> "audio"]>>
    BY DEF ServeContent
  <1>3. ServeContent(304, head) = <<[set |-> "none"], [status |-> 304]>>
    BY DEF ServeContent
  <1>4. ServeContent(412, head) = <<[set |-> "audio"], [status |-> 412]>>
    BY DEF ServeContent
  <1>5. ServeContent(416, head)
          = <<[set |-> "audio"], [set |-> "text"], [status |-> 416], [write |-> "text"]>>
    BY DEF ServeContent
  <1>6. \A status \in {200, 206} : status = 200 \/ status = 206
    OBVIOUS
  <1> QED BY <1>1, <1>2, <1>3, <1>4, <1>5, <1>6

LEMMA WriteNotModified ==
  ASSUME WritesNotModified, calls # <<>>, w' = Apply(w, Head(calls)), calls' = Tail(calls), q' = q
  PROVE  WritesNotModified'
  <1>1. CASE calls = ServeContent(304, q.head) /\ Unsent(w, "none")
    <2>1. w' = Apply(w, [set |-> "none"]) /\ calls' = <<[status |-> 304]>>
      <3>1. calls = <<[set |-> "none"], [status |-> 304]>>
        BY <1>1, ContentServed
      <3> QED BY <3>1, HeadAndTail
    <2>2. Unsent(w', "none")
      BY <1>1, <2>1, SetsHeader DEF Types
    <2> QED BY <2>1, <2>2, NextUnsent DEF WritesNotModified
  <1>2. CASE calls = <<[status |-> 304]>> /\ Unsent(w, "none")
    <2>1. w' = Apply(w, [status |-> 304]) /\ calls' = <<>>
      BY <1>2, HeadAndTail
    <2>2. PICK s \in Nat \ {0} : s = 304
      OBVIOUS
    <2>3. Sent(Apply(w, [status |-> s]), "none", s, <<>>, 0, FALSE)
      <3>1. Unsent(w, "none")
        BY <1>2
      <3> QED BY <3>1, SendsHeader
    <2>4. Sent(w', "none", 304, <<>>, 0, FALSE)
      BY <2>1, <2>2, <2>3
    <2> QED BY <2>1, <2>4, NextSent DEF WritesNotModified
  <1> QED BY <1>1, <1>2 DEF WritesNotModified

LEMMA WritePreconditionFailed ==
  ASSUME WritesPreconditionFailed, calls # <<>>, w' = Apply(w, Head(calls)), calls' = Tail(calls),
         q' = q
  PROVE  WritesPreconditionFailed'
  <1>1. CASE calls = ServeContent(412, q.head) /\ Unsent(w, "none")
    <2>1. w' = Apply(w, [set |-> "audio"]) /\ calls' = <<[status |-> 412]>>
      <3>1. calls = <<[set |-> "audio"], [status |-> 412]>>
        BY <1>1, ContentServed
      <3> QED BY <3>1, HeadAndTail
    <2>2. Unsent(w', "audio")
      BY <1>1, <2>1, SetsHeader DEF Types
    <2> QED BY <2>1, <2>2, NextUnsent DEF WritesPreconditionFailed
  <1>2. CASE calls = <<[status |-> 412]>> /\ Unsent(w, "audio")
    <2>1. w' = Apply(w, [status |-> 412]) /\ calls' = <<>>
      BY <1>2, HeadAndTail
    <2>2. PICK s \in Nat \ {0} : s = 412
      OBVIOUS
    <2>3. Sent(Apply(w, [status |-> s]), "audio", s, <<>>, 0, FALSE)
      <3>1. Unsent(w, "audio")
        BY <1>2
      <3> QED BY <3>1, SendsHeader
    <2>4. Sent(w', "audio", 412, <<>>, 0, FALSE)
      BY <2>1, <2>2, <2>3
    <2> QED BY <2>1, <2>4, NextSent, ZenonT(60) DEF WritesPreconditionFailed
  <1> QED BY <1>1, <1>2 DEF WritesPreconditionFailed

LEMMA WriteRangeError ==
  ASSUME WritesRangeError, calls # <<>>, w' = Apply(w, Head(calls)), calls' = Tail(calls), q' = q
  PROVE  WritesRangeError'
  <1>1. CASE calls = ServeContent(416, q.head) /\ Unsent(w, "none")
    <2>1. w' = Apply(w, [set |-> "audio"]) /\ calls' = Tail(ServeContent(416, q'.head))
      <3>1. calls = <<[set |-> "audio"], [set |-> "text"], [status |-> 416], [write |-> "text"]>>
        BY <1>1, ContentServed
      <3>2. Head(calls) = [set |-> "audio"] /\ Tail(calls) = Tail(ServeContent(416, q'.head))
        BY <1>1, <3>1, HeadAndTail
      <3> QED BY <3>2
    <2>2. Unsent(w', "audio")
      BY <1>1, <2>1, SetsHeader DEF Types
    <2> QED BY <2>1, <2>2, NextUnsent DEF WritesRangeError
  <1>2. CASE calls = Tail(ServeContent(416, q.head)) /\ Unsent(w, "audio")
    <2>1. w' = Apply(w, [set |-> "text"]) /\ calls' = <<[status |-> 416], [write |-> "text"]>>
      <3>1. calls = <<[set |-> "text"], [status |-> 416], [write |-> "text"]>>
        <4>1. ServeContent(416, q.head)
                = <<[set |-> "audio"], [set |-> "text"], [status |-> 416], [write |-> "text"]>>
          BY ContentServed
        <4>2. Tail(<<[set |-> "audio"], [set |-> "text"], [status |-> 416], [write |-> "text"]>>)
                = <<[set |-> "text"], [status |-> 416], [write |-> "text"]>>
          OBVIOUS
        <4> QED BY <1>2, <4>1, <4>2, ZenonT(60)
      <3> QED BY <3>1, HeadAndTail
    <2>2. Unsent(w', "text")
      BY <1>2, <2>1, SetsHeader, ZenonT(60) DEF Types
    <2> QED BY <2>1, <2>2, NextUnsent DEF WritesRangeError
  <1>3. CASE calls = <<[status |-> 416], [write |-> "text"]>> /\ Unsent(w, "text")
    <2>1. w' = Apply(w, [status |-> 416]) /\ calls' = <<[write |-> "text"]>>
      BY <1>3, HeadAndTail
    <2>2. PICK s \in Nat \ {0} : s = 416
      OBVIOUS
    <2>3. s \notin DOMAIN muxErrors
      BY <2>2 DEF muxErrors
    <2>4. Sent(Apply(w, [status |-> s]), "text", s, <<>>, 0, FALSE)
      <3>1. Unsent(w, "text")
        BY <1>3
      <3> QED BY <2>3, <3>1, SendsHeader
    <2>5. Sent(w', "text", 416, <<>>, 0, FALSE)
      BY <2>1, <2>2, <2>4, ZenonT(60)
    <2> QED BY <2>1, <2>5, NextSent, ZenonT(60) DEF WritesRangeError
  <1>4. CASE calls = <<[write |-> "text"]>> /\ Sent(w, "text", 416, <<>>, 0, FALSE)
    <2>1. w' = Apply(w, [write |-> "text"]) /\ calls' = <<>>
      BY <1>4, HeadAndTail
    <2>2. PICK s \in Nat \ {0, 204, 304} : s = 416
      OBVIOUS
    <2>3. Sent(Apply(w, [write |-> "text"]), "text", s, Body(<<"text">>), 1, FALSE)
      <3>1. Sent(w, "text", s, <<>>, 0, FALSE) /\ "text" \in Pieces
        BY <1>4, <2>2, ErrorCodesKnown, ZenonT(60)
      <3> QED BY <3>1, SendsFirst
    <2>4. Sent(w', "text", 416, Body(<<"text">>), 1, FALSE)
      <3>1. Sent(w', "text", s, Body(<<"text">>), 1, FALSE)
        BY <2>1, <2>3
      <3> QED BY <2>2, <3>1
    <2>5. Sent(w, "text", 416, Body(<<"text">>), 1, FALSE)'
      BY <2>4, NextSent, ZenonT(60) DEF Body
    <2> QED BY <2>1, <2>5 DEF WritesRangeError
  <1> QED BY <1>1, <1>2, <1>3, <1>4 DEF WritesRangeError

\* The second piece of audio.
LEMMA SendsSecond ==
  ASSUME NEW v, NEW status \in Nat \ {0, 204, 304}, ~q.head
  PROVE  Sent(v, "audio", status, <<"audio">>, 1, FALSE)
           => Sent(Apply(v, [write |-> "audio"]), "audio", status, <<"audio", "audio">>, 2, FALSE)
  <1> DEFINE piece == "audio"
             first == <<piece>>
             one == 1
             both == <<piece, piece>>
             two == 2
  <1>1. Append(first, piece) = both
    <2>1. \A p : <<p, p>> = Append(<<p>>, p)
      OBVIOUS
    <2> HIDE DEF piece
    <2> QED BY <2>1
  <1>2. one + 1 = two /\ one \in Nat
    OBVIOUS
  <1>3. piece \in Pieces /\ first \in Seq(Pieces)
    BY DEF Pieces
  <1> HIDE DEF piece, first, one, both, two
  <1>4. Sent(v, piece, status, first, one, FALSE)
          => Sent(Apply(v, [write |-> piece]), piece, status,
                  IF q.head THEN first ELSE Append(first, piece), one + 1, FALSE)
    BY <1>2, <1>3, SendsPiece
  <1>5. Sent(v, piece, status, first, one, FALSE)
          => Sent(Apply(v, [write |-> piece]), piece, status, both, two, FALSE)
    <2>1. (IF q.head THEN first ELSE Append(first, piece)) = both
      BY <1>1
    <2>2. one + 1 = two
      BY <1>2
    <2> QED BY <1>4, <2>1, <2>2
  <1> QED BY <1>5 DEF piece, first, one, both, two

LEMMA WriteAudio ==
  ASSUME NEW status \in Nat \ {0, 204, 304},
         ServeContent(status, q.head) =
           IF q.head THEN <<[set |-> "audio"], [status |-> status]>>
           ELSE <<[set |-> "audio"], [status |-> status], [write |-> "audio"], [write |-> "audio"]>>,
         WritingAudio(status), calls # <<>>, w' = Apply(w, Head(calls)), calls' = Tail(calls), q' = q
  PROVE  WritingAudio(status)'
  <1> DEFINE a == [write |-> "audio"]
             rest == IF q.head THEN <<[status |-> status]>> ELSE <<[status |-> status], a, a>>
  <1>1. Head(ServeContent(status, q.head)) = [set |-> "audio"]
          /\ Tail(ServeContent(status, q.head)) = rest
    <2>1. CASE q.head
      BY <2>1, HeadAndTail
    <2>2. CASE ~q.head
      BY <2>2, HeadAndTail
    <2> QED BY <2>1, <2>2
  <1>2. ~q.head /\ Sent(w, "audio", status, <<"audio">>, 1, FALSE)
          => Sent(Apply(w, a), "audio", status, <<"audio", "audio">>, 2, FALSE)
    BY SendsSecond
  <1>3. Sent(w, "audio", status, <<>>, 0, FALSE)
          => Sent(Apply(w, a), "audio", status, Body(<<"audio">>), 1, FALSE)
    <2>1. "audio" \in Pieces
      BY DEF Pieces
    <2> QED BY <2>1, SendsFirst
  <1>4. CASE calls = ServeContent(status, q.head) /\ Unsent(w, "none")
    <2>1. w' = Apply(w, [set |-> "audio"]) /\ calls' = Tail(ServeContent(status, q'.head))
      BY <1>1, <1>4
    <2>2. Unsent(w', "audio")
      BY <1>4, <2>1, SetsHeader DEF Types
    <2> QED BY <2>1, <2>2, NextUnsent DEF WritingAudio
  <1>5. CASE calls = Tail(ServeContent(status, q.head)) /\ Unsent(w, "audio")
    <2>1. /\ w' = Apply(w, [status |-> status])
          /\ q.head => calls' = <<>>
          /\ ~q.head => calls' = <<a, a>>
      <3>1. CASE q.head
        BY <1>1, <1>5, <3>1, HeadAndTail
      <3>2. CASE ~q.head
        BY <1>1, <1>5, <3>2, HeadAndTail
      <3> QED BY <3>1, <3>2
    <2>2. Sent(Apply(w, [status |-> status]), "audio", status, <<>>, 0, FALSE)
      BY <1>5, SendsHeader
    <2>3. Sent(w, "audio", status, <<>>, 0, FALSE)'
      BY <2>1, <2>2, NextSent
    <2> QED BY <2>1, <2>3 DEF WritingAudio
  <1>6. CASE ~q.head /\ calls = <<a, a>> /\ Sent(w, "audio", status, <<>>, 0, FALSE)
    <2>1. w' = Apply(w, a) /\ calls' = <<a>>
      BY <1>6, HeadAndTail
    <2>2. Sent(Apply(w, a), "audio", status, Body(<<"audio">>), 1, FALSE)
      BY <1>6, <1>3
    <2>3. Sent(w', "audio", status, <<"audio">>, 1, FALSE)
      BY <1>6, <2>1, <2>2 DEF Body
    <2>4. Sent(w, "audio", status, <<"audio">>, 1, FALSE)'
      BY <2>3, NextSent
    <2> QED BY <1>6, <2>1, <2>4 DEF WritingAudio
  <1>7. CASE ~q.head /\ calls = <<a>> /\ Sent(w, "audio", status, <<"audio">>, 1, FALSE)
    <2>1. w' = Apply(w, a) /\ calls' = <<>>
      BY <1>7, HeadAndTail
    <2>2. Sent(Apply(w, a), "audio", status, <<"audio", "audio">>, 2, FALSE)
      <3>1. ~q.head /\ Sent(w, "audio", status, <<"audio">>, 1, FALSE)
        BY <1>7
      <3> QED BY <1>2, <3>1
    <2>3. Sent(w, "audio", status, <<"audio", "audio">>, 2, FALSE)'
      BY <2>1, <2>2, NextSent
    <2> QED BY <1>7, <2>1, <2>3 DEF WritingAudio
  <1> QED BY <1>4, <1>5, <1>6, <1>7 DEF WritingAudio

LEMMA WriteInv ==
  ASSUME HttpInv, Write
  PROVE  HttpInv'
  <1>1. /\ pc = "responding" /\ calls # <<>> /\ w' = Apply(w, Head(calls)) /\ calls' = Tail(calls)
        /\ q' = q
    BY DEF Write
  <1>2. UNCHANGED <<pc, q, id, stages, result, faulted, panicked, echoed, errors, line, stored, shown>>
    BY DEF Write
  <1>3. \/ WritesJSON /\ (faulted => errors # {})
        \/ /\ ~faulted
           /\ \/ WritesNothing \/ WritesMuxError \/ WritesRedirect \/ WritesAudio
              \/ WritesNotModified \/ WritesPreconditionFailed \/ WritesRangeError
    BY <1>1 DEF HttpInv, Responding, BreaksOff
  <1>4. WritesJSON => WritesJSON'
    <2> SUFFICES ASSUME NEW status \in {200, 201, 400, 404, 409, 413, 500, 503}, NEW payload \in Pieces,
                        Means(status, payload), WritingJSON(status, payload)
                 PROVE  WritesJSON'
      BY DEF WritesJSON
    <2>1. Means(status, payload)'
      BY <1>2 DEF Means, Slips
    <2>2. WritingJSON(status, payload)'
      <3>1. PICK s \in Nat \ {0, 204, 304} : s = status
        OBVIOUS
      <3>2. WritingJSON(s, payload)
        BY <3>1
      <3>3. WritingJSON(s, payload)'
        BY <1>1, <3>2, WriteJSON
      <3> QED BY <3>1, <3>3
    <2> QED BY <2>1, <2>2 DEF WritesJSON
  <1>5. WritesMuxError => WritesMuxError'
    <2> SUFFICES ASSUME NEW status \in {404, 405}, WritingMuxError(status)
                 PROVE  WritesMuxError'
      BY DEF WritesMuxError
    <2>1. status \in Nat \ {0, 204, 304} /\ status \in DOMAIN muxErrors /\ muxErrors[status] \in Pieces
      BY DEF muxErrors, Pieces, ErrorCodes
    <2>2. PICK s \in Nat \ {0, 204, 304} : s = status
      BY <2>1
    <2>3. s \in DOMAIN muxErrors /\ muxErrors[s] \in Pieces /\ WritingMuxError(s)
      BY <2>1, <2>2
    <2>4. WritingMuxError(s)'
      BY <1>1, <2>3, WriteMuxError
    <2> QED BY <2>2, <2>4 DEF WritesMuxError
  <1>6. WritesAudio => WritesAudio'
    <2> SUFFICES ASSUME NEW status \in {200, 206}, WritingAudio(status)
                 PROVE  WritesAudio'
      BY DEF WritesAudio
    <2>1. ServeContent(status, q.head) =
            IF q.head THEN <<[set |-> "audio"], [status |-> status]>>
            ELSE <<[set |-> "audio"], [status |-> status], [write |-> "audio"], [write |-> "audio"]>>
      <3>1. \A x \in {200, 206} : ServeContent(x, q.head) =
              IF q.head THEN <<[set |-> "audio"], [status |-> x]>>
              ELSE <<[set |-> "audio"], [status |-> x], [write |-> "audio"], [write |-> "audio"]>>
        BY ContentServed, ZenonT(60)
      <3> QED BY <3>1, ZenonT(60)
    <2>2. PICK s \in Nat \ {0, 204, 304} : s = status
      OBVIOUS
    <2>3. WritingAudio(s)'
      <3>1. /\ WritingAudio(s)
            /\ ServeContent(s, q.head) =
                 IF q.head THEN <<[set |-> "audio"], [status |-> s]>>
                 ELSE <<[set |-> "audio"], [status |-> s], [write |-> "audio"], [write |-> "audio"]>>
        BY <2>1, <2>2
      <3> QED BY <1>1, <3>1, WriteAudio
    <2> QED BY <2>2, <2>3 DEF WritesAudio
  <1>7. /\ (WritesNothing => WritesNothing') /\ (WritesRedirect => WritesRedirect')
        /\ (WritesNotModified => WritesNotModified')
        /\ (WritesPreconditionFailed => WritesPreconditionFailed')
        /\ (WritesRangeError => WritesRangeError')
    <2>1. WritesNothing => WritesNothing'
      BY <1>1, WriteNothing
    <2>2. WritesRedirect => WritesRedirect'
      BY <1>1, WriteRedirect
    <2>3. WritesNotModified => WritesNotModified'
      BY <1>1, WriteNotModified
    <2>4. WritesPreconditionFailed => WritesPreconditionFailed'
      BY <1>1, WritePreconditionFailed
    <2>5. WritesRangeError => WritesRangeError'
      BY <1>1, WriteRangeError
    <2> QED BY <2>1, <2>2, <2>3, <2>4, <2>5
  <1>8. Responding'
    <2>1. faulted' = faulted /\ errors' = errors
      BY <1>2
    <2> QED BY <1>3, <1>4, <1>5, <1>6, <1>7, <2>1 DEF Responding
  <1>9. ResultMeans'
    BY <1>2 DEF HttpInv, ResultMeans, Slips
  <1>10. Remembered'
    BY <1>2 DEF HttpInv, Remembered
  <1> QED BY <1>1, <1>2, <1>8, <1>9, <1>10 DEF HttpInv, Stepping, Answered, Logged

\* Whose call writes audio: only a stream's that is not a HEAD.
LEMMA AudioIsAStream ==
  ASSUME Responding, pc = "responding", AudioNext
  PROVE  /\ ~faulted /\ ~q.head
         /\ \E status \in {200, 206} :
              \/ Sent(w, "audio", status, <<>>, 0, FALSE)
              \/ Sent(w, "audio", status, <<"audio">>, 1, FALSE)
  <1>1. calls # <<>> /\ Head(calls) = [write |-> "audio"]
    BY DEF AudioNext
  <1>2. ~WritesJSON
    <2> SUFFICES ASSUME NEW status \in {200, 201, 400, 404, 409, 413, 500, 503}, NEW payload \in Pieces,
                        Means(status, payload), WritingJSON(status, payload)
                 PROVE  FALSE
      BY DEF WritesJSON
    <2>1. payload # "audio"
      BY ErrorCodesKnown DEF Means
    <2>2. \/ calls = RespondWithJSON(status, payload)
          \/ calls = <<[status |-> status], [write |-> payload]>>
          \/ calls = <<[write |-> payload]>>
      BY <1>1, ZenonT(60) DEF WritingJSON
    <2>3. \/ Head(calls) = [set |-> "json"] \/ Head(calls) = [status |-> status]
          \/ Head(calls) = [write |-> payload]
      BY <2>2, HeadAndTail DEF RespondWithJSON
    <2> QED BY <1>1, <2>1, <2>3, WhatIsCalled
  <1>3. ~WritesNothing
    <2> SUFFICES ASSUME WritesNothing PROVE FALSE
      OBVIOUS
    <2>1. Head(calls) = [status |-> 204]
      BY <1>1, HeadAndTail DEF WritesNothing, RespondNoContent
    <2> QED BY <1>1, <2>1, WhatIsCalled
  <1>4. ~WritesMuxError
    <2> SUFFICES ASSUME NEW status \in {404, 405}, WritingMuxError(status) PROVE FALSE
      BY DEF WritesMuxError
    <2>1. \/ calls = PlainError(status)
          \/ calls = <<[status |-> status], [write |-> "text"]>>
          \/ calls = <<[write |-> "text"]>>
      BY <1>1 DEF WritingMuxError
    <2>2. \/ Head(calls) = [set |-> "text"] \/ Head(calls) = [status |-> status]
          \/ Head(calls) = [write |-> "text"]
      BY <2>1, HeadAndTail DEF PlainError
    <2> QED BY <1>1, <2>2, WhatIsCalled
  <1>5. ~WritesRedirect
    <2> SUFFICES ASSUME WritesRedirect PROVE FALSE
      OBVIOUS
    <2>1. \/ calls = <<[set |-> "html"], [status |-> 301], [write |-> "html"]>>
          \/ calls = <<[status |-> 301], [write |-> "html"]>>
          \/ calls = <<[write |-> "html"]>>
      BY <1>1 DEF WritesRedirect, RedirectToCleanPath
    <2>2. \/ Head(calls) = [set |-> "html"] \/ Head(calls) = [status |-> 301]
          \/ Head(calls) = [write |-> "html"]
      BY <2>1, HeadAndTail
    <2> QED BY <1>1, <2>2, WhatIsCalled
  <1>6. ~WritesNotModified
    <2> SUFFICES ASSUME WritesNotModified PROVE FALSE
      OBVIOUS
    <2>1. ServeContent(304, q.head) = <<[set |-> "none"], [status |-> 304]>>
      BY ContentServed
    <2>2. calls = <<[set |-> "none"], [status |-> 304]>> \/ calls = <<[status |-> 304]>>
      BY <1>1, <2>1 DEF WritesNotModified
    <2>3. Head(calls) = [set |-> "none"] \/ Head(calls) = [status |-> 304]
      BY <2>2, HeadAndTail
    <2> QED BY <1>1, <2>3, WhatIsCalled
  <1>7. ~WritesPreconditionFailed
    <2> SUFFICES ASSUME WritesPreconditionFailed PROVE FALSE
      OBVIOUS
    <2>1. ServeContent(412, q.head) = <<[set |-> "audio"], [status |-> 412]>>
      BY ContentServed
    <2>2. calls = <<[set |-> "audio"], [status |-> 412]>> \/ calls = <<[status |-> 412]>>
      BY <1>1, <2>1 DEF WritesPreconditionFailed
    <2>3. Head(calls) = [set |-> "audio"] \/ Head(calls) = [status |-> 412]
      BY <2>2, HeadAndTail
    <2> QED BY <1>1, <2>3, WhatIsCalled
  <1>8. ~WritesRangeError
    <2> SUFFICES ASSUME WritesRangeError PROVE FALSE
      OBVIOUS
    <2>1. ServeContent(416, q.head)
            = <<[set |-> "audio"], [set |-> "text"], [status |-> 416], [write |-> "text"]>>
      BY ContentServed
    <2>2. Tail(<<[set |-> "audio"], [set |-> "text"], [status |-> 416], [write |-> "text"]>>)
            = <<[set |-> "text"], [status |-> 416], [write |-> "text"]>>
      OBVIOUS
    <2>3. \/ calls = <<[set |-> "audio"], [set |-> "text"], [status |-> 416], [write |-> "text"]>>
          \/ calls = <<[set |-> "text"], [status |-> 416], [write |-> "text"]>>
          \/ calls = <<[status |-> 416], [write |-> "text"]>>
          \/ calls = <<[write |-> "text"]>>
      <3>1. \/ calls = ServeContent(416, q.head) \/ calls = Tail(ServeContent(416, q.head))
            \/ calls = <<[status |-> 416], [write |-> "text"]>> \/ calls = <<[write |-> "text"]>>
        BY <1>1 DEF WritesRangeError
      <3>2. Tail(ServeContent(416, q.head)) = <<[set |-> "text"], [status |-> 416], [write |-> "text"]>>
        BY <2>1, <2>2, ZenonT(60)
      <3> QED BY <2>1, <3>1, <3>2, ZenonT(60)
    <2>4. \/ Head(calls) = [set |-> "audio"] \/ Head(calls) = [set |-> "text"]
          \/ Head(calls) = [status |-> 416] \/ Head(calls) = [write |-> "text"]
      BY <2>3, HeadAndTail
    <2> QED BY <1>1, <2>4, WhatIsCalled
  <1>9. ~faulted /\ WritesAudio
    <2>1. ~BreaksOff
      BY <1>1 DEF BreaksOff
    <2> QED BY <1>2, <1>3, <1>4, <1>5, <1>6, <1>7, <1>8, <2>1 DEF Responding
  <1>10. PICK status \in {200, 206} : WritingAudio(status)
    BY <1>9 DEF WritesAudio
  <1>11. PICK status2 : status2 = status
    OBVIOUS
  <1>12. ServeContent(status, q.head) =
           IF q.head THEN <<[set |-> "audio"], [status |-> status2]>>
           ELSE <<[set |-> "audio"], [status |-> status2], [write |-> "audio"], [write |-> "audio"]>>
    <2>1. \A x \in {200, 206} : ServeContent(x, q.head) =
            IF q.head THEN <<[set |-> "audio"], [status |-> x]>>
            ELSE <<[set |-> "audio"], [status |-> x], [write |-> "audio"], [write |-> "audio"]>>
      BY ContentServed, SMTT(60)
    <2> QED BY <1>11, <2>1, ZenonT(60)
  <1>13. calls # ServeContent(status, q.head) /\ calls # Tail(ServeContent(status, q.head))
    <2>1. CASE q.head
      <3>1. Head(ServeContent(status, q.head)) = [set |-> "audio"]
              /\ Head(Tail(ServeContent(status, q.head))) = [status |-> status2]
        BY <1>12, <2>1, HeadAndTail
      <3>2. [set |-> "audio"] # [write |-> "audio"] /\ [status |-> status2] # [write |-> "audio"]
        BY WhatIsCalled
      <3> QED BY <1>1, <3>1, <3>2
    <2>2. CASE ~q.head
      <3>1. Head(ServeContent(status, q.head)) = [set |-> "audio"]
              /\ Head(Tail(ServeContent(status, q.head))) = [status |-> status2]
        BY <1>12, <2>2, HeadAndTail
      <3>2. [set |-> "audio"] # [write |-> "audio"] /\ [status |-> status2] # [write |-> "audio"]
        BY WhatIsCalled
      <3> QED BY <1>1, <3>1, <3>2
    <2> QED BY <2>1, <2>2
  <1>14. /\ ~q.head
         /\ \/ Sent(w, "audio", status, <<>>, 0, FALSE)
            \/ Sent(w, "audio", status, <<"audio">>, 1, FALSE)
    BY <1>1, <1>10, <1>13 DEF WritingAudio
  <1> QED BY <1>9, <1>14

LEMMA ObjectReadFailsInv ==
  ASSUME HttpInv, ObjectReadFails
  PROVE  HttpInv'
  <1>1. pc = "responding" /\ AudioNext /\ calls' = <<>> /\ faulted' = TRUE /\ Responding
    BY DEF ObjectReadFails, HttpInv
  <1>2. UNCHANGED <<pc, q, id, stages, result, panicked, w, echoed, errors, line, stored, shown>>
    BY DEF ObjectReadFails
  <1>3. BreaksOff'
    <2>1. PICK status \in {200, 206} : \/ Sent(w, "audio", status, <<>>, 0, FALSE)
                                       \/ Sent(w, "audio", status, <<"audio">>, 1, FALSE)
      BY <1>1, AudioIsAStream
    <2>2. ~q'.head
      BY <1>1, <1>2, AudioIsAStream
    <2>3. \/ Sent(w, "audio", status, <<>>, 0, FALSE)'
          \/ Sent(w, "audio", status, <<"audio">>, 1, FALSE)'
      <3>1. w' = w /\ q' = q
        BY <1>2
      <3>2. Sent(w, "audio", status, <<>>, 0, FALSE) => Sent(w, "audio", status, <<>>, 0, FALSE)'
        BY <3>1, NextSent
      <3>3. Sent(w, "audio", status, <<"audio">>, 1, FALSE) => Sent(w, "audio", status, <<"audio">>, 1, FALSE)'
        BY <3>1 DEF Sent
      <3> QED BY <2>1, <3>2, <3>3, Zenon
    <2> QED BY <1>1, <2>2, <2>3 DEF BreaksOff
  <1>4. Responding'
    BY <1>3 DEF Responding
  <1>5. ResultMeans'
    BY <1>1, <1>2 DEF HttpInv, ResultMeans, Slips
  <1>6. Remembered'
    BY <1>2 DEF HttpInv, Remembered
  <1> QED BY <1>1, <1>2, <1>4, <1>5, <1>6 DEF HttpInv, Stepping, Answered, Logged

LEMMA LoggingInv ==
  ASSUME HttpInv, Logging
  PROVE  HttpInv'
  <1>1. /\ pc = "returned" /\ pc' = "logged"
        /\ line' = [status |-> w.logStatus, bytes |-> w.logBytes, id |-> id]
    BY DEF Logging
  <1>2. UNCHANGED <<q, id, stages, result, faulted, panicked, calls, w, echoed, errors, stored, shown>>
    BY DEF Logging
  <1>3. Complete
    BY <1>1 DEF HttpInv, Answered
  <1>4. Complete'
    BY <1>2, <1>3 DEF Complete, ReplyOf, Slips
  <1>5. ResultMeans'
    BY <1>1, <1>2 DEF HttpInv, ResultMeans, Slips
  <1>6. Remembered'
    BY <1>2 DEF HttpInv, Remembered
  <1> QED BY <1>1, <1>2, <1>4, <1>5, <1>6 DEF HttpInv, Stepping, Responding, Answered, Logged

LEMMA OnePiece ==
  ASSUME NEW body, NEW piece, body = <<piece>>
  PROVE  Len(body) = 1 /\ \A i \in DOMAIN body : body[i] = piece
  OBVIOUS

LEMMA SomethingServed ==
  ASSUME NEW head
  PROVE  /\ ServeContent(304, head) # <<>> /\ ServeContent(412, head) # <<>>
         /\ ServeContent(416, head) # <<>> /\ Tail(ServeContent(416, head)) # <<>>
  <1>1. ServeContent(304, head) # <<>> /\ ServeContent(412, head) # <<>>
    BY DEF ServeContent
  <1>2. ServeContent(416, head) # <<>>
    BY DEF ServeContent
  <1>3. Tail(ServeContent(416, head)) # <<>>
    BY DEF ServeContent
  <1> QED BY <1>1, <1>2, <1>3

\* What was sent is well formed, and its pieces are counted.
LEMMA JSONIsWellFormed ==
  ASSUME NEW v, NEW payload, v.head = q.head, v.type = "json", v.body = Body(<<payload>>),
         v.logBytes = 1,
         \/ payload \in DOMAIN HTTP!StatusOf /\ v.status \in HTTP!StatusOf[payload]
         \/ payload = "entity" /\ v.status \in {200, 201, 503}
  PROVE  HTTP!WellFormed(ReplyOf(v)) /\ (~v.head => v.logBytes = Len(v.body))
  <1>1. v.head = q.head /\ v.type = "json" /\ v.body = Body(<<payload>>) /\ v.logBytes = 1
    OBVIOUS
  <1>2. CASE q.head
    <2>1. v.body = <<>>
      BY <1>1, <1>2 DEF Body
    <2>2. Len(<<>>) <= 1 /\ DOMAIN <<>> = {}
      OBVIOUS
    <2>3. HTTP!JSONReply(ReplyOf(v))
      BY <1>1, <2>1, <2>2 DEF HTTP!JSONReply, ReplyOf
    <2> QED BY <1>1, <1>2, <2>3 DEF HTTP!WellFormed
  <1>3. CASE ~q.head
    <2>1. v.body = <<payload>>
      BY <1>1, <1>3 DEF Body
    <2>2. Len(v.body) <= 1 /\ \A i \in DOMAIN v.body : v.body[i] = payload
      <3>1. Len(v.body) = 1 /\ \A i \in DOMAIN v.body : v.body[i] = payload
        BY <2>1, OnePiece
      <3> QED BY <3>1
    <2>3. HTTP!JSONReply(ReplyOf(v))
      BY <1>1, <2>2 DEF HTTP!JSONReply, ReplyOf
    <2>4. v.logBytes = Len(v.body)
      BY <1>1, <2>1, OnePiece
    <2> QED BY <2>3, <2>4 DEF HTTP!WellFormed
  <1> QED BY <1>2, <1>3

LEMMA AudioIsWellFormed ==
  ASSUME NEW v, v.type = "audio", v.status \in {200, 206},
         \/ v.body = <<>> /\ v.logBytes = 0
         \/ v.body = <<"audio">> /\ v.logBytes = 1
         \/ v.body = <<"audio", "audio">> /\ v.logBytes = 2
  PROVE  HTTP!WellFormed(ReplyOf(v)) /\ v.logBytes = Len(v.body)
  <1>1. v.logBytes = Len(v.body)
    BY Len(<<>>) = 0, Len(<<"audio">>) = 1, Len(<<"audio", "audio">>) = 2, ZenonT(60)
  <1>2. \A i \in DOMAIN v.body : v.body[i] = "audio"
    <2>1. CASE v.body = <<>>
      BY <2>1
    <2>2. CASE v.body = <<"audio">>
      BY <2>2
    <2>3. CASE v.body = <<"audio", "audio">>
      BY <2>3
    <2> QED BY <2>1, <2>2, <2>3
  <1>3. HTTP!AudioReply(ReplyOf(v))
    BY <1>2 DEF HTTP!AudioReply, ReplyOf
  <1> QED BY <1>1, <1>3 DEF HTTP!WellFormed

LEMMA FailedPreconditionIsWellFormed ==
  ASSUME NEW v, v.type = "audio", v.status = 412, v.body = <<>>, v.logBytes = 0
  PROVE  HTTP!WellFormed(ReplyOf(v)) /\ v.logBytes = Len(v.body)
  <1>1. HTTP!FailedPrecondition(ReplyOf(v))
    BY DEF HTTP!FailedPrecondition, ReplyOf
  <1> QED BY <1>1, Len(<<>>) = 0 DEF HTTP!WellFormed

\* Audio that ends before the second piece is seen to be cut short.
LEMMA EndsEarly ==
  ASSUME NEW v, v.type = "audio", v.status \in {200, 206}, ~v.head,
         v.body = <<>> \/ v.body = <<"audio">>
  PROVE  CutShort(v)
  <1>1. Len(<<>>) = 0 /\ Len(<<"audio">>) = 1
    OBVIOUS
  <1>2. Len(v.body) = 0 \/ Len(v.body) = 1
    BY <1>1
  <1>3. 0 < ContentLength /\ 1 < ContentLength
    BY DEF ContentLength
  <1>4. Len(v.body) < ContentLength
    BY <1>2, <1>3
  <1> QED BY <1>4 DEF CutShort

LEMMA OtherIsWellFormed ==
  ASSUME NEW v,
         <<v.type, v.status>> \in {<<"none", 204>>, <<"none", 304>>, <<"html", 301>>, <<"text", 416>>},
         \/ v.body = <<>> /\ (v.head \/ v.logBytes = 0)
         \/ v.body = <<v.type>> /\ v.logBytes = 1
  PROVE  HTTP!WellFormed(ReplyOf(v)) /\ (~v.head => v.logBytes = Len(v.body))
  <1>1. ~v.head => v.logBytes = Len(v.body)
    BY Len(<<>>) = 0, Len(<<v.type>>) = 1, ZenonT(60)
  <1>2. \A i \in DOMAIN v.body : v.body[i] = v.type
    <2>1. CASE v.body = <<>>
      BY <2>1
    <2>2. CASE v.body = <<v.type>>
      BY <2>2
    <2> QED BY <2>1, <2>2
  <1>3. HTTP!OtherReply(ReplyOf(v))
    BY <1>2 DEF HTTP!OtherReply, ReplyOf
  <1> QED BY <1>1, <1>3 DEF HTTP!WellFormed

\* The response when the calls are over.
LEMMA Finished ==
  ASSUME HttpInv, pc = "responding", calls = <<>>
  PROVE  Complete
  <1>1. Responding /\ ~panicked
    BY Zenon DEF HttpInv, ResultMeans
  <1>2. ASSUME NEW status \in {200, 201, 400, 404, 409, 413, 500, 503}, NEW payload \in Pieces,
               Means(status, payload), WritingJSON(status, payload), faulted => errors # {}
        PROVE  Complete
    <2>1. Sent(w, "json", status, Body(<<payload>>), 1, FALSE)
      <3>1. calls # RespondWithJSON(status, payload)
        BY DEF RespondWithJSON
      <3>2. calls # <<[status |-> status], [write |-> payload]>>
        OBVIOUS
      <3>3. calls # <<[write |-> payload]>>
        OBVIOUS
      <3> QED BY <1>2, <3>1, <3>2, <3>3, Zenon DEF WritingJSON
    <2>2. HTTP!WellFormed(ReplyOf(w)) /\ (~w.head => w.logBytes = Len(w.body))
      <3>1. \/ payload \in DOMAIN HTTP!StatusOf /\ status \in HTTP!StatusOf[payload]
            \/ payload = "entity" /\ status \in {200, 201, 503}
        BY <1>2 DEF Means
      <3>2. /\ w.head = q.head /\ w.type = "json" /\ w.body = Body(<<payload>>)
            /\ w.logBytes = 1 /\ w.status = status
        BY <2>1 DEF Sent
      <3> QED BY <3>1, <3>2, JSONIsWellFormed
    <2>3. w \in Responses /\ w.status = status /\ w.logStatus = status /\ status \in 200 .. 503
      BY <2>1 DEF Sent
    <2>4. /\ faulted => w.status >= 500
          /\ w.status >= 500 => faulted \/ Slips(q)
          /\ w.status = 500 => id \in errors
      BY <1>2, <2>3 DEF Means
    <2>5. ~CutShort(w)
      BY <2>1 DEF Sent, CutShort
    <2> QED BY <1>1, <1>2, <2>2, <2>3, <2>4, <2>5 DEF Complete
  <1>3. ASSUME ~faulted, w \in Responses, w.status \in 200 .. 499, w.logStatus = w.status,
               HTTP!WellFormed(ReplyOf(w)), ~w.head => w.logBytes = Len(w.body), ~CutShort(w)
        PROVE  Complete
    <2>1. \A n \in 200 .. 499 : n \in 200 .. 503 /\ ~(n >= 500) /\ n # 500
      OBVIOUS
    <2>2. w.status \in 200 .. 503 /\ ~(w.status >= 500) /\ w.status # 500
      BY <1>3, <2>1, ZenonT(60)
    <2> QED BY <1>1, <1>3, <2>2 DEF Complete
  <1>4. CASE WritesMuxError /\ ~faulted
    <2>1. PICK status \in {404, 405} : WritingMuxError(status)
      BY <1>4 DEF WritesMuxError
    <2>2. Sent(w, "json", status, Body(<<muxErrors[status]>>), 1, TRUE)
      BY <2>1 DEF WritingMuxError, PlainError
    <2>3. muxErrors[status] \in DOMAIN HTTP!StatusOf /\ status \in HTTP!StatusOf[muxErrors[status]]
      <3>1. CASE status = 404
        BY <3>1, ErrorCodesKnown DEF muxErrors, ErrorCodes
      <3>2. CASE status = 405
        BY <3>2, ErrorCodesKnown DEF muxErrors, ErrorCodes
      <3> QED BY <3>1, <3>2
    <2>4. HTTP!WellFormed(ReplyOf(w)) /\ (~w.head => w.logBytes = Len(w.body))
      <3>1. PICK payload : payload = muxErrors[status]
        OBVIOUS
      <3>2. /\ w.head = q.head /\ w.type = "json" /\ w.body = Body(<<payload>>)
            /\ w.logBytes = 1 /\ w.status = status
        BY <2>2, <3>1 DEF Sent
      <3> QED BY <2>3, <3>1, <3>2, JSONIsWellFormed
    <2>5. w \in Responses /\ w.status \in 200 .. 499 /\ w.logStatus = w.status /\ w.type = "json"
      BY <2>2 DEF Sent
    <2>6. ~CutShort(w)
      BY <2>5 DEF CutShort
    <2> QED BY <1>3, <1>4, <2>4, <2>5, <2>6
  <1>5. CASE WritesAudio /\ ~faulted
    <2>1. PICK status \in {200, 206} : WritingAudio(status)
      BY <1>5 DEF WritesAudio
    <2>2. \A x \in {200, 206} : ServeContent(x, q.head) =
            IF q.head THEN <<[set |-> "audio"], [status |-> x]>>
            ELSE <<[set |-> "audio"], [status |-> x], [write |-> "audio"], [write |-> "audio"]>>
      BY ContentServed
    <2>3. ServeContent(status, q.head) # <<>> /\ Tail(ServeContent(status, q.head)) # <<>>
      <3>1. PICK x : x = status
        OBVIOUS
      <3>2. ServeContent(status, q.head) =
              IF q.head THEN <<[set |-> "audio"], [status |-> x]>>
              ELSE <<[set |-> "audio"], [status |-> x], [write |-> "audio"], [write |-> "audio"]>>
        BY <2>2, <3>1, ZenonT(60)
      <3>3. CASE q.head
        BY <3>2, <3>3, HeadAndTail
      <3>4. CASE ~q.head
        BY <3>2, <3>4, HeadAndTail
      <3> QED BY <3>3, <3>4
    <2>4. \/ q.head /\ Sent(w, "audio", status, <<>>, 0, FALSE)
          \/ Sent(w, "audio", status, <<"audio", "audio">>, 2, FALSE)
      BY <2>1, <2>3 DEF WritingAudio
    <2>5. /\ w \in Responses /\ w.status = status /\ w.logStatus = status /\ w.type = "audio"
          /\ \/ w.head /\ w.body = <<>> /\ w.logBytes = 0
             \/ w.body = <<"audio", "audio">> /\ w.logBytes = 2
      BY <2>4 DEF Sent
    <2>6. w.status \in {200, 206} /\ w.status \in 200 .. 499
      BY <2>5
    <2>7. HTTP!WellFormed(ReplyOf(w)) /\ w.logBytes = Len(w.body)
      BY <2>5, <2>6, AudioIsWellFormed
    <2>8. ~CutShort(w)
      <3>1. w.head \/ Len(w.body) = 2
        BY <2>5, <2>7
      <3>2. ~(2 < ContentLength)
        BY DEF ContentLength
      <3> QED BY <3>1, <3>2 DEF CutShort
    <2> QED BY <1>3, <1>5, <2>5, <2>6, <2>7, <2>8
  <1>6. CASE WritesPreconditionFailed /\ ~faulted
    <2>1. ServeContent(412, q.head) # <<>>
      BY ContentServed
    <2>2. Sent(w, "audio", 412, <<>>, 0, FALSE)
      BY <1>6, <2>1 DEF WritesPreconditionFailed
    <2>3. /\ w \in Responses /\ w.status = 412 /\ w.logStatus = 412 /\ w.type = "audio"
          /\ w.body = <<>> /\ w.logBytes = 0
      BY <2>2 DEF Sent
    <2>4. w.status \in 200 .. 499 /\ w.status \notin {200, 206}
      BY <2>3
    <2>5. HTTP!WellFormed(ReplyOf(w)) /\ w.logBytes = Len(w.body)
      BY <2>3, FailedPreconditionIsWellFormed
    <2>6. ~CutShort(w)
      BY <2>4 DEF CutShort
    <2> QED BY <1>3, <1>6, <2>3, <2>4, <2>5, <2>6
  <1>7. CASE (WritesNothing \/ WritesNotModified \/ WritesRedirect \/ WritesRangeError) /\ ~faulted
    <2>1. ServeContent(304, q.head) # <<>> /\ ServeContent(416, q.head) # <<>>
            /\ Tail(ServeContent(416, q.head)) # <<>>
      BY SomethingServed
    <2>2. \/ Sent(w, "none", 204, <<>>, 0, FALSE)
          \/ Sent(w, "none", 304, <<>>, 0, FALSE)
          \/ Sent(w, "html", 301, Body(<<"html">>), 1, FALSE)
          \/ Sent(w, "text", 416, Body(<<"text">>), 1, FALSE)
      BY <1>7, <2>1 DEF WritesNothing, WritesNotModified, WritesRedirect, WritesRangeError,
                        RespondNoContent, RedirectToCleanPath
    <2>3. /\ w \in Responses /\ w.logStatus = w.status
          /\ <<w.type, w.status>> \in {<<"none", 204>>, <<"none", 304>>, <<"html", 301>>, <<"text", 416>>}
          /\ w.status \in 200 .. 499
      BY <2>2 DEF Sent
    <2>4. \/ w.body = <<>> /\ (w.head \/ w.logBytes = 0)
          \/ w.body = <<w.type>> /\ w.logBytes = 1
      BY <2>2 DEF Sent, Body
    <2>5. HTTP!WellFormed(ReplyOf(w)) /\ (~w.head => w.logBytes = Len(w.body))
      BY <2>3, <2>4, OtherIsWellFormed
    <2>6. w.type \in {"none", "html", "text"}
      BY <2>2 DEF Sent
    <2>7. ~CutShort(w)
      BY <2>6 DEF CutShort
    <2> QED BY <1>3, <1>7, <2>3, <2>5, <2>7
  <1>8. CASE WritesJSON /\ (faulted => errors # {})
    BY <1>2, <1>8 DEF WritesJSON
  <1>9. CASE BreaksOff
    <2>1. PICK status \in {200, 206} : \/ Sent(w, "audio", status, <<>>, 0, FALSE)
                                       \/ Sent(w, "audio", status, <<"audio">>, 1, FALSE)
      BY <1>9 DEF BreaksOff
    <2>2. /\ w \in Responses /\ w.status = status /\ w.logStatus = status /\ w.type = "audio"
          /\ w.head = q.head
          /\ \/ w.body = <<>> /\ w.logBytes = 0
             \/ w.body = <<"audio">> /\ w.logBytes = 1
      BY <2>1 DEF Sent
    <2>3. faulted /\ ~w.head
      BY <1>9, <2>2 DEF BreaksOff
    <2>4. HTTP!WellFormed(ReplyOf(w)) /\ w.logBytes = Len(w.body)
      BY <2>2, AudioIsWellFormed
    <2>5. CutShort(w)
      BY <2>2, <2>3, EndsEarly
    <2>6. \A n \in {200, 206} : n \in 200 .. 503 /\ ~(n >= 500) /\ n # 500
      OBVIOUS
    <2>7. w.status \in 200 .. 503 /\ ~(w.status >= 500) /\ w.status # 500
      BY <2>2, <2>6
    <2> QED BY <1>1, <2>2, <2>3, <2>4, <2>5, <2>7 DEF Complete
  <1> QED BY <1>1, <1>4, <1>5, <1>6, <1>7, <1>8, <1>9 DEF Responding

LEMMA ReturnInv ==
  ASSUME HttpInv, Return
  PROVE  HttpInv'
  <1>1. pc = "responding" /\ calls = <<>> /\ pc' = "returned"
    BY DEF Return
  <1>2. UNCHANGED <<q, id, stages, result, faulted, panicked, calls, w, echoed, errors, line, stored, shown>>
    BY DEF Return
  <1>3. Complete'
    BY <1>1, <1>2, Finished DEF Complete, ReplyOf, Slips
  <1>4. ResultMeans'
    BY <1>1, <1>2 DEF HttpInv, ResultMeans, Slips
  <1>5. Remembered'
    BY <1>2 DEF HttpInv, Remembered
  <1> QED BY <1>1, <1>2, <1>3, <1>4, <1>5 DEF HttpInv, Stepping, Responding, Answered, Logged

\* A response whose header is not out yet.
LEMMA BeforeTheHeader ==
  ASSUME Responding, pc = "responding", w.status = 0
  PROVE  \E header \in Types : Unsent(w, header)
  <1>1. "none" \in Types /\ "json" \in Types /\ "text" \in Types /\ "html" \in Types /\ "audio" \in Types
    BY DEF Types
  <1>2. CASE WritesJSON
    <2>1. PICK status \in {200, 201, 400, 404, 409, 413, 500, 503}, payload \in Pieces :
            WritingJSON(status, payload)
      BY <1>2 DEF WritesJSON
    <2>2. status # 0
      OBVIOUS
    <2>3. Unsent(w, "none") \/ Unsent(w, "json") \/ w.status = status
      BY <2>1 DEF WritingJSON, Sent
    <2> QED BY <1>1, <2>2, <2>3
  <1>3. CASE WritesMuxError
    <2>1. PICK status \in {404, 405} : WritingMuxError(status)
      BY <1>3 DEF WritesMuxError
    <2>2. status # 0
      OBVIOUS
    <2>3. Unsent(w, "none") \/ Unsent(w, "text") \/ w.status = status
      BY <2>1 DEF WritingMuxError, Sent
    <2> QED BY <1>1, <2>2, <2>3
  <1>4. CASE WritesAudio
    <2>1. PICK status \in {200, 206} : WritingAudio(status)
      BY <1>4 DEF WritesAudio
    <2>2. status # 0
      OBVIOUS
    <2>3. Unsent(w, "none") \/ Unsent(w, "audio") \/ w.status = status
      BY <2>1 DEF WritingAudio, Sent
    <2> QED BY <1>1, <2>2, <2>3
  <1>5. CASE WritesNothing \/ WritesRedirect
    <2>1. Unsent(w, "none") \/ Unsent(w, "html") \/ w.status \in {204, 301}
      BY <1>5 DEF WritesNothing, WritesRedirect, Sent
    <2> QED BY <1>1, <2>1
  <1>6. CASE WritesNotModified \/ WritesPreconditionFailed
    <2>1. Unsent(w, "none") \/ Unsent(w, "audio") \/ w.status \in {304, 412}
      BY <1>6 DEF WritesNotModified, WritesPreconditionFailed, Sent
    <2> QED BY <1>1, <2>1
  <1>7. CASE WritesRangeError
    <2>1. Unsent(w, "none") \/ Unsent(w, "audio") \/ Unsent(w, "text") \/ w.status = 416
      BY <1>7 DEF WritesRangeError, Sent
    <2> QED BY <1>1, <2>1
  <1>8. ~BreaksOff
    BY DEF BreaksOff, Sent
  <1> QED BY <1>2, <1>3, <1>4, <1>5, <1>6, <1>7, <1>8 DEF Responding

\* A panic before the header goes out is answered; one later, which only the
\* copy of the audio meets, leaves what was sent.
LEMMA RecoverInv ==
  ASSUME HttpInv, Recover
  PROVE  HttpInv'
  <1>1. /\ CanPanic /\ panicked' = TRUE /\ errors' = errors \cup {id}
        /\ pc' = "returned" /\ stages' = <<>> /\ shown' = Null
        /\ w' = IF w.wroteHeader THEN w
                ELSE RecorderWrite(RecorderWriteHeader(SetHeader(w, "json"), 500), "internal_error")
    BY DEF Recover
  <1>2. UNCHANGED <<q, id, result, faulted, echoed, line, stored>>
    BY DEF Recover
  <1>3. Responding /\ Stepping
    BY DEF HttpInv
  <1>4. ASSUME NEW header \in Types, Unsent(w, header)
        PROVE  Complete'
    <2>1. w' = RecorderWrite(RecorderWriteHeader(SetHeader(w, "json"), 500), "internal_error")
      BY <1>1, <1>4 DEF Unsent
    <2>2. PICK s \in Nat \ {0, 204, 304} : s = 500
      OBVIOUS
    <2>3. PICK payload \in Pieces : payload = "internal_error"
      BY DEF Pieces, ErrorCodes
    <2>4. Sent(RecorderWrite(RecorderWriteHeader(SetHeader(w, "json"), s), payload),
               "json", s, Body(<<payload>>), 1, FALSE)
      BY <1>4, RecordsJSON
    <2>5. Sent(w', "json", s, Body(<<payload>>), 1, FALSE)
      BY <2>1, <2>2, <2>3, <2>4, ZenonT(60)
    <2>6. /\ w'.head = q.head /\ w'.type = "json" /\ w'.body = Body(<<payload>>) /\ w'.logBytes = 1
          /\ w'.status = s /\ w'.logStatus = s /\ w' \in Responses
      BY <2>5 DEF Sent
    <2>7. payload \in DOMAIN HTTP!StatusOf /\ s \in HTTP!StatusOf[payload]
      BY <2>2, <2>3, ErrorCodesKnown DEF ErrorCodes
    <2>8. HTTP!WellFormed(ReplyOf(w')) /\ (~w'.head => w'.logBytes = Len(w'.body))
      <3>1. PICK v : v = w'
        OBVIOUS
      <3>2. HTTP!WellFormed(ReplyOf(v)) /\ (~v.head => v.logBytes = Len(v.body))
        BY <2>6, <2>7, <3>1, JSONIsWellFormed
      <3> QED BY <3>1, <3>2
    <2>9. \A n \in Nat : n = 500 => n \in 200 .. 503 /\ n >= 500
      OBVIOUS
    <2>10. w'.status \in 200 .. 503 /\ w'.status >= 500 /\ w'.logStatus = w'.status
      BY <2>2, <2>6, <2>9
    <2>11. panicked' /\ errors' # {} /\ id' \in errors'
      BY <1>1, <1>2
    <2> QED BY <2>6, <2>8, <2>10, <2>11 DEF Complete, ReplyOf
  <1>5. ASSUME NEW status \in {200, 206}, pc = "responding", AudioNext,
               \/ Sent(w, "audio", status, <<>>, 0, FALSE)
               \/ Sent(w, "audio", status, <<"audio">>, 1, FALSE)
        PROVE  Complete'
    <2>1. /\ w \in Responses /\ w.status = status /\ w.logStatus = status /\ w.type = "audio"
          /\ w.wroteHeader /\ w.head = q.head
          /\ \/ w.body = <<>> /\ w.logBytes = 0
             \/ w.body = <<"audio">> /\ w.logBytes = 1
      BY <1>5 DEF Sent
    <2>2. w' = w
      BY <1>1, <2>1
    <2>3. HTTP!WellFormed(ReplyOf(w)) /\ w.logBytes = Len(w.body)
      <3>1. w.status \in {200, 206}
        BY <2>1
      <3> QED BY <2>1, <3>1, AudioIsWellFormed
    <2>4. \A n \in {200, 206} : n \in 200 .. 503 /\ ~(n >= 500) /\ n # 500
      OBVIOUS
    <2>5. w.status \in 200 .. 503 /\ ~(w.status >= 500) /\ w.status # 500
      BY <2>1, <2>4
    <2>6. HTTP!WellFormed(ReplyOf(w'))
      BY <2>2, <2>3
    <2>7. errors' # {} /\ panicked'
      BY <1>1
    <2>8. /\ w' \in Responses /\ w'.status \in 200 .. 503 /\ w'.logStatus = w'.status
          /\ w'.type = "audio" /\ w'.logBytes = Len(w'.body) /\ ~(w'.status >= 500) /\ w'.status # 500
      BY <2>1, <2>2, <2>3, <2>5
    <2>9. CutShort(w')
      <3>1. ~w.head /\ w.status \in {200, 206}
        BY <1>3, <1>5, <2>1, AudioIsAStream
      <3> QED BY <2>1, <2>2, <3>1, EndsEarly
    <2> QED BY <2>6, <2>7, <2>8, <2>9 DEF Complete, ReplyOf
  <1>6. Complete'
    <2>1. CASE pc = "handling"
      <3>1. Unsent(w, "none") /\ "none" \in Types
        BY <1>3, <2>1 DEF Stepping, Types
      <3> QED BY <1>4, <3>1
    <2>2. CASE pc = "responding" /\ w.status = 0
      BY <1>3, <1>4, <2>2, BeforeTheHeader
    <2>3. CASE pc = "responding" /\ AudioNext
      BY <1>3, <1>5, <2>3, AudioIsAStream
    <2> QED BY <1>1, <2>1, <2>2, <2>3 DEF CanPanic
  <1>7. pc # "ready" /\ pc # "logged"
    BY <1>1 DEF CanPanic
  <1>8. ResultMeans'
    BY <1>1, <1>2 DEF HttpInv, ResultMeans, Slips
  <1>9. Remembered'
    BY <1>1, <1>2 DEF HttpInv, Remembered
  <1> QED BY <1>1, <1>2, <1>6, <1>7, <1>8, <1>9 DEF HttpInv, Stepping, Responding, Answered, Logged

LEMMA StutterInv == HttpInv /\ UNCHANGED vars => HttpInv'
  <1> SUFFICES ASSUME HttpInv, UNCHANGED vars PROVE HttpInv'
    OBVIOUS
  <1>1. ResultMeans'
    BY DEF HttpInv, vars, ResultMeans, Slips
  <1>2. Remembered'
    BY DEF HttpInv, vars, Remembered
  <1>3. Stepping'
    BY DEF HttpInv, vars, Stepping, Sound, Slips, Unsent
  <1>4. Complete => Complete'
    BY DEF vars, Complete, ReplyOf, Slips
  <1>5. Responding'
    <2>1. /\ \A status, payload : WritingJSON(status, payload) => WritingJSON(status, payload)'
          /\ \A status, payload : Means(status, payload) => Means(status, payload)'
      BY DEF vars, WritingJSON, Means, Slips, Unsent, Sent, Body
    <2>2. WritesJSON => WritesJSON'
      BY <2>1 DEF WritesJSON
    <2>3. WritesMuxError => WritesMuxError'
      BY DEF vars, WritesMuxError, WritingMuxError, Unsent, Sent, Body
    <2>4. WritesAudio => WritesAudio'
      BY DEF vars, WritesAudio, WritingAudio, Unsent, Sent
    <2>5. (WritesNothing => WritesNothing') /\ (WritesRedirect => WritesRedirect')
      BY DEF vars, WritesNothing, WritesRedirect, Unsent, Sent, Body
    <2>6. /\ WritesNotModified => WritesNotModified'
          /\ WritesPreconditionFailed => WritesPreconditionFailed'
      BY DEF vars, WritesNotModified, WritesPreconditionFailed, Unsent, Sent
    <2>7. WritesRangeError => WritesRangeError'
      BY DEF vars, WritesRangeError, Unsent, Sent, Body
    <2>8. pc' = pc /\ (faulted' <=> faulted) /\ errors' = errors
      BY DEF vars
    <2>9. BreaksOff => BreaksOff'
      BY DEF vars, BreaksOff, Sent
    <2> QED BY <2>2, <2>3, <2>4, <2>5, <2>6, <2>7, <2>8, <2>9 DEF HttpInv, Responding
  <1> QED BY <1>1, <1>2, <1>3, <1>4, <1>5 DEF HttpInv, vars, Answered, Logged, Unsent

\* The inductive invariant.
THEOREM HttpInvariant == Spec => []HttpInv
  <1>1. HttpInv /\ [Next]_vars => HttpInv'
    BY ArriveInv, StepInv, RespondInv, WriteInv, ObjectReadFailsInv, ReturnInv, RecoverInv,
       LoggingInv, StutterInv DEF Next
  <1> QED BY <1>1, InitInv, PTL DEF Spec

-----------------------------------------------------------------------------
(***************************************************************************)
(* What follows from the invariant.                                        *)
(***************************************************************************)
LEMMA StatusInRange ==
  ASSUME Responding, pc = "responding"
  PROVE  w \in Responses /\ w.status \in {0} \cup 200 .. 503
  <1>1. CASE WritesJSON
    <2>1. PICK status \in {200, 201, 400, 404, 409, 413, 500, 503}, payload \in Pieces :
            WritingJSON(status, payload)
      BY <1>1 DEF WritesJSON
    <2>2. status \in 200 .. 503
      OBVIOUS
    <2>3. w \in Responses /\ (w.status = 0 \/ w.status = status)
      BY <2>1 DEF WritingJSON, Unsent, Sent
    <2> QED BY <2>2, <2>3
  <1>2. CASE WritesMuxError
    <2>1. PICK status \in {404, 405} : WritingMuxError(status)
      BY <1>2 DEF WritesMuxError
    <2>2. status \in 200 .. 503
      OBVIOUS
    <2>3. w \in Responses /\ (w.status = 0 \/ w.status = status)
      BY <2>1 DEF WritingMuxError, Unsent, Sent
    <2> QED BY <2>2, <2>3
  <1>3. CASE WritesAudio
    <2>1. PICK status \in {200, 206} : WritingAudio(status)
      BY <1>3 DEF WritesAudio
    <2>2. status \in 200 .. 503
      OBVIOUS
    <2>3. w \in Responses /\ (w.status = 0 \/ w.status = status)
      BY <2>1 DEF WritingAudio, Unsent, Sent
    <2> QED BY <2>2, <2>3
  <1>4. CASE WritesNothing \/ WritesRedirect
    <2>1. w \in Responses /\ w.status \in {0, 204, 301}
      BY <1>4 DEF WritesNothing, WritesRedirect, Unsent, Sent
    <2> QED BY <2>1
  <1>5. CASE WritesNotModified \/ WritesPreconditionFailed \/ WritesRangeError
    <2>1. w \in Responses /\ w.status \in {0, 304, 412, 416}
      BY <1>5 DEF WritesNotModified, WritesPreconditionFailed, WritesRangeError, Unsent, Sent
    <2> QED BY <2>1
  <1>6. CASE BreaksOff
    <2>1. w \in Responses /\ w.status \in {200, 206}
      BY <1>6 DEF BreaksOff, Sent
    <2> QED BY <2>1
  <1> QED BY <1>1, <1>2, <1>3, <1>4, <1>5, <1>6 DEF Responding

LEMMA InvImpliesTypeOK == HttpInv => TypeOK
  <1> SUFFICES ASSUME HttpInv PROVE TypeOK
    OBVIOUS
  <1>1. w \in Responses /\ w.status \in {0} \cup 200 .. 503
    <2>1. CASE pc = "ready"
      BY <2>1 DEF HttpInv, Unsent
    <2>2. CASE pc = "handling"
      BY <2>2 DEF HttpInv, Stepping, Unsent
    <2>3. CASE pc = "responding"
      BY <2>3, StatusInRange DEF HttpInv
    <2>4. CASE pc \in {"returned", "logged"}
      BY <2>4 DEF HttpInv, Answered, Complete
    <2> QED BY <2>1, <2>2, <2>3, <2>4 DEF HttpInv
  <1>2. \A i \in DOMAIN w.body : w.body[i] \in Pieces
    BY <1>1 DEF Responses
  <1>3. \A i \in DOMAIN stages : stages[i].may \subseteq Results
    <2>1. CASE pc = "handling"
      <3>1. stages \in Seq(Stages)
        BY <2>1 DEF HttpInv, Stepping
      <3>2. \A i \in DOMAIN stages : stages[i] \in Stages
        BY <3>1
      <3>3. \A e \in Stages : e.may \subseteq Results
        BY DEF Stages
      <3> QED BY <3>2, <3>3
    <2>2. CASE pc # "handling"
      <3>1. stages = <<>>
        BY <2>2 DEF HttpInv
      <3> QED BY <3>1
    <2> QED BY <2>1, <2>2
  <1>4. (line = Null) = (pc # "logged")
    <2>1. CASE pc = "logged"
      <3>1. line = [status |-> w.logStatus, bytes |-> w.logBytes, id |-> id] /\ id \in RequestIds
        BY <2>1 DEF HttpInv, Logged
      <3>2. w.logStatus \in Nat /\ w.logBytes \in Nat
        BY <1>1 DEF Responses
      <3>3. line # Null
        BY <3>1, <3>2, InputsAssumption
      <3> QED BY <2>1, <3>3
    <2>2. CASE pc # "logged"
      BY <2>2 DEF HttpInv, Logged
    <2> QED BY <2>1, <2>2
  <1>5. result \in Results /\ faulted \in BOOLEAN /\ panicked \in BOOLEAN
    BY DEF HttpInv, ResultMeans
  <1> QED BY <1>1, <1>2, <1>3, <1>4, <1>5 DEF HttpInv, TypeOK

\* The shape of the state, whatever the requests and the width of the words.
THEOREM TypesOK == Spec => []TypeOK
  BY InvImpliesTypeOK, HttpInvariant, PTL

\* A 5xx is ours: whatever a client sends is a 4xx, but for the inputs that
\* slip through validation (validate.go:30-33, trackservice.go:47-50).
THEOREM ServerErrorsAreOurs == Spec => []ServerErrorIsOurs
  <1>1. HttpInv => ServerErrorIsOurs
    BY DEF HttpInv, Answered, Complete, ServerErrorIsOurs
  <1> QED BY <1>1, HttpInvariant, PTL

\* A failed dependency or a panic is a 5xx or, with audio under way, a body
\* shorter than its announced length, which nothing else is; all but the failed
\* read of an object being served is in the log, a 500 under the id the client
\* was given (streamhandler.go:75, httpx.go, middleware.go).
THEOREM FaultsAlwaysSurface == Spec => []FaultsSurface
  <1>1. HttpInv => FaultsSurface
    <2> SUFFICES ASSUME HttpInv, pc = "logged" PROVE FaultsSurface
      BY DEF FaultsSurface
    <2>1. Complete /\ echoed = id /\ line.id = id
      BY DEF HttpInv, Answered, Logged
    <2> QED BY <2>1 DEF Complete, FaultsSurface
  <1> QED BY <1>1, HttpInvariant, PTL

\* A GET shows of a row what its creation answered, for every duration, its
\* NULLs and its lists included, with the ids as Postgres spells them (dto.go,
\* scanTrack, trackIDs).
THEOREM ReadsBack == Spec => []ReadsBackAsCreated
  <1>1. HttpInv => ReadsBackAsCreated
    BY DEF HttpInv, Remembered, ReadsBackAsCreated, Creates, Fetches
  <1> QED BY <1>1, HttpInvariant, PTL

\* A created track has every number it was sent, whenever the duration in
\* nanoseconds is a word (dto.go:60).
THEOREM TracksAreStoredAsSent == Spec => []StoredAsSent
  <1>1. HttpInv => StoredAsSent
    <2> SUFFICES ASSUME HttpInv, pc = "responding", q.to = "CreateTrack", shown # Null,
                        q.duration * Ms \in (-WordMax - 1) .. WordMax
                 PROVE  \A n \in {"duration", "bitrate", "fileSize", "trackNumber", "discNumber"} :
                            stored.row[n] = q[n]
      BY DEF StoredAsSent
    <2>1. stored = Inserted(q)
      BY DEF HttpInv, Remembered, Creates
    <2>2. stored.row = TrackRow(TrackOf(q))
      BY <2>1 DEF Inserted
    <2>3. q.duration \in Int
      BY InputsAssumption, WidthAssumption DEF HttpInv, Request, Word
    <2>4. Wrap(q.duration * Ms) = q.duration * Ms
      BY WrapKeeps DEF Word
    <2>5. TrackRow(TrackOf(q)).duration = Milliseconds(q.duration * Ms)
      BY <2>4, InsertedNumbers
    <2>6. Milliseconds(q.duration * Ms) = q.duration
      BY <2>3, MillisecondsExact
    <2>7. /\ stored.row.duration = q.duration /\ stored.row.bitrate = q.bitrate
          /\ stored.row.fileSize = q.fileSize /\ stored.row.trackNumber = q.trackNumber
          /\ stored.row.discNumber = q.discNumber
      BY <2>2, <2>5, <2>6, InsertedNumbers
    <2> QED BY <2>7
  <1> QED BY <1>1, HttpInvariant, PTL

-----------------------------------------------------------------------------
(***************************************************************************)
(* The refinement of Exchange.                                             *)
(***************************************************************************)
LEMMA InvImpliesSeen == HttpInv => Seen
  <1> SUFFICES ASSUME HttpInv, pc \in {"returned", "logged"} PROVE Reply # Null
    BY InvImpliesTypeOK DEF Reply, Seen, TypeOK
  <1>1. w \in Responses
    BY DEF HttpInv, Answered, Complete
  <1>2. ReplyOf(w) \in [head : BOOLEAN, status : Nat, type : Types, body : Seq(Pieces)]
    BY <1>1 DEF Responses, ReplyOf
  <1> QED BY <1>2, InputsAssumption DEF Reply, ReplyOf

LEMMA ExchangeStep ==
  HttpInv /\ HttpInv' /\ Seen /\ Seen' /\ [Next]_vars => [HTTP!Next]_(HTTP!vars)
  <1> SUFFICES ASSUME HttpInv, HttpInv', Seen, Seen', [Next]_vars
               PROVE  [HTTP!Next]_(HTTP!vars)
    OBVIOUS
  <1>1. (Reply = Null <=> pc \notin {"returned", "logged"})
          /\ (Reply' = Null <=> pc' \notin {"returned", "logged"})
    BY DEF Seen
  <1>2. (pc # "logged" => line = Null) /\ (pc' # "logged" => line' = Null)
    BY DEF Seen
  <1>3. (pc = "logged" => line # Null) /\ (pc' = "logged" => line' # Null)
    BY DEF Seen
  <1>4. CASE \E r \in Inputs : Arrive(r)
    <2>1. pc \in {"ready", "logged"} /\ pc' \in {"responding", "handling"}
      BY <1>4 DEF Arrive
    <2>2. Reply' = Null /\ line' = Null
      BY <1>1, <1>2, <2>1
    <2>3. CASE pc = "ready"
      <3>1. Reply = Null /\ line = Null
        BY <1>1, <1>2, <2>3
      <3> QED BY <2>2, <3>1 DEF HTTP!vars
    <2>4. CASE pc = "logged"
      BY <1>3, <2>2, <2>4 DEF HTTP!Next, HTTP!NextRequest
    <2> QED BY <2>1, <2>3, <2>4
  <1>5. CASE Step \/ Respond \/ Write \/ ObjectReadFails
    <2>1. pc \in {"handling", "responding"} /\ pc' \in {"handling", "responding"}
      BY <1>5 DEF Step, Respond, Write, ObjectReadFails
    <2>2. Reply = Null /\ line = Null /\ Reply' = Null /\ line' = Null
      BY <1>1, <1>2, <2>1
    <2> QED BY <2>2 DEF HTTP!vars
  <1>6. CASE Return \/ Recover
    <2>1. pc \in {"handling", "responding"} /\ pc' = "returned"
      BY <1>6 DEF Return, Recover, CanPanic
    <2>2. Reply = Null /\ line = Null /\ Reply' # Null /\ line' = Null
      BY <1>1, <1>2, <2>1
    <2>3. HTTP!WellFormed(Reply')
      <3>1. Complete' /\ Reply' = ReplyOf(w)'
        BY <2>1 DEF HttpInv, Answered, Reply, ReplyOf
      <3> QED BY <3>1 DEF Complete
    <2> QED BY <2>2, <2>3 DEF HTTP!Next, HTTP!Answer
  <1>7. CASE Logging
    <2>1. pc = "returned" /\ pc' = "logged" /\ w' = w
            /\ line' = [status |-> w.logStatus, bytes |-> w.logBytes, id |-> id]
      BY <1>7 DEF Logging
    <2>2. Reply # Null /\ line = Null /\ line' # Null
      BY <1>1, <1>2, <1>3, <2>1
    <2>3. Reply = ReplyOf(w) /\ Reply' = ReplyOf(w)
      BY <2>1 DEF Reply, ReplyOf
    <2>4. w.logStatus = w.status /\ (~w.head => w.logBytes = Len(w.body))
      BY <2>1 DEF HttpInv, Answered, Complete
    <2>5. line'.status = Reply.status /\ (~Reply.head => line'.bytes = Len(Reply.body))
      BY <2>1, <2>3, <2>4 DEF ReplyOf
    <2>6. Reply' = Reply
      BY <2>3
    <2> QED BY <2>2, <2>5, <2>6 DEF HTTP!Next, HTTP!Record
  <1>8. CASE UNCHANGED vars
    BY <1>8 DEF vars, HTTP!vars, Reply
  <1> QED BY <1>4, <1>5, <1>6, <1>7, <1>8 DEF Next

\* Each request gets one well-formed reply, and then one line in the access
\* log that says what it was: panics, the mux's own errors and HEAD included
\* (README "Errors"; middleware.go:37 and :61).
THEOREM ServerImplementsExchange == Spec => ImplementsExchange
  <1>1. HttpInv /\ HttpInv' /\ Seen /\ Seen' /\ [Next]_vars => [HTTP!Next]_(HTTP!vars)
    BY ExchangeStep
  <1>2. Init => HTTP!Init
    BY DEF Init, Reply, HTTP!Init
  <1> QED BY <1>1, <1>2, InvImpliesSeen, HttpInvariant, PTL DEF Spec, ImplementsExchange, HTTP!Spec

=============================================================================
