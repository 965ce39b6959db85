---------------------------- MODULE ResponseWriter ----------------------------
(***************************************************************************)
(* The http.ResponseWriter a handler is given (internal/api): the mux      *)
(* error rewriter around the logging recorder around net/http's own.       *)
(* Each method is an operator from the state of the response to its next   *)
(* state.  A status of 0 means that no header is on the wire; a body is    *)
(* the sequence of the pieces written: "text", "html", "audio", or JSON,   *)
(* which is an "entity" or the stable code of an error.                    *)
(***************************************************************************)
EXTENDS Naturals, Sequences

ErrorCodes == {"duplicate_audio", "not_found", "invalid_input", "conflict",
               "internal_error", "method_not_allowed", "payload_too_large"}
Pieces == {"entity", "text", "html", "audio"} \cup ErrorCodes
Types == {"none", "json", "text", "html", "audio"}      \* Content-Type

\* The response to a request, which may be a HEAD.
NewResponse(head) ==
    [head |-> head, header |-> "none",                      \* Content-Type, not yet sent
     status |-> 0, type |-> "none", body |-> <<>>,          \* on the wire
     logStatus |-> 200, logBytes |-> 0, wroteHeader |-> FALSE,
     rewriting |-> FALSE]

SetHeader(w, type) == [w EXCEPT !.header = type]

-----------------------------------------------------------------------------
\* net/http: the first status counts, a write implies 200, and 204 and 304
\* carry no body.  To a HEAD it sends no body, but counts it as written.
NetWriteHeader(w, status) ==
    IF w.status # 0 THEN w ELSE [w EXCEPT !.status = status, !.type = w.header]

NetAccepts(w) == w.status \notin {204, 304}

NetWrite(w, piece) ==
    LET sent == NetWriteHeader(w, 200)
    IN  IF NetAccepts(sent) /\ ~w.head THEN [sent EXCEPT !.body = Append(@, piece)] ELSE sent

-----------------------------------------------------------------------------
RecorderWriteHeader(w, status) ==
    IF w.wroteHeader THEN w
    ELSE NetWriteHeader([w EXCEPT !.logStatus = status, !.wroteHeader = TRUE], status)

RecorderWrite(w, piece) ==
    LET begun == IF w.wroteHeader THEN w ELSE RecorderWriteHeader(w, 200)
        n == IF NetAccepts(begun) THEN 1 ELSE 0
    IN  [NetWrite(begun, piece) EXCEPT !.logBytes = @ + n]

-----------------------------------------------------------------------------
\* The statuses the stdlib mux answers on its own, and their codes.
muxErrors == [status \in {404, 405} |-> IF status = 404 THEN "not_found" ELSE "method_not_allowed"]

\* Only net/http.Error's plain text is rewritten, never a handler's JSON.
RewriterWriteHeader(w, status) ==
    IF status \in DOMAIN muxErrors /\ w.header = "text"
    THEN [RecorderWrite(RecorderWriteHeader(SetHeader(w, "json"), status), muxErrors[status])
            EXCEPT !.rewriting = TRUE]
    ELSE RecorderWriteHeader(w, status)

\* Mutant: the mux's own body follows the JSON one.
RewriterWriteAlways(w, piece) == RecorderWrite(w, piece)

\* What follows a rewritten header is the mux's plain text: discarded.
RewriterWrite(w, piece) == IF w.rewriting THEN w ELSE RecorderWrite(w, piece)

-----------------------------------------------------------------------------
\* The calls of a handler on its writer, in order.
RespondWithJSON(status, payload) ==
    <<[set |-> "json"], [status |-> status], [write |-> payload]>>

RespondNoContent == <<[status |-> 204]>>

\* net/http.Error, which the mux and ServeContent use.
PlainError(status) == <<[set |-> "text"], [status |-> status], [write |-> "text"]>>

RedirectToCleanPath == <<[set |-> "html"], [status |-> 301], [write |-> "html"]>>

\* http.ServeContent, once StreamTrack has set the content type.  The body is
\* copied in pieces; 304 takes the content type back.
ServeContent(status, head) ==
    CASE status \in {200, 206} ->
           IF head THEN <<[set |-> "audio"], [status |-> status]>>
           ELSE <<[set |-> "audio"], [status |-> status], [write |-> "audio"], [write |-> "audio"]>>
      [] status = 304 -> <<[set |-> "none"], [status |-> 304]>>
      [] status = 412 -> <<[set |-> "audio"], [status |-> 412]>>
      [] OTHER -> <<[set |-> "audio"], [set |-> "text"], [status |-> 416], [write |-> "text"]>>

\* The Content-Length that ServeContent announces, in pieces of audio.
ContentLength == 2

\* What a client that compares the two sees of audio broken off.
CutShort(w) ==
    /\ w.type = "audio" /\ w.status \in {200, 206} /\ ~w.head
    /\ Len(w.body) < ContentLength

Does(call, method) == method \in DOMAIN call

\* One call of the handler, through all three writers.
Apply(w, call) ==
    CASE Does(call, "set") -> SetHeader(w, call.set)
      [] Does(call, "status") -> RewriterWriteHeader(w, call.status)
      [] OTHER -> RewriterWrite(w, call.write)

=============================================================================
