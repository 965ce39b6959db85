------------------------------- MODULE Exchange -------------------------------
(***************************************************************************)
(* What the HTTP layer promises for one request after another: exactly one *)
(* reply, of one kind of body, whose error code goes with its status; then *)
(* one line in the access log, which says what the reply was.              *)
(***************************************************************************)
EXTENDS Naturals, Sequences

CONSTANT None

VARIABLES reply, line
vars == <<reply, line>>

-----------------------------------------------------------------------------
\* Which statuses an error code stands for (README, "Errors").
StatusOf == [duplicate_audio |-> {409}, not_found |-> {404}, invalid_input |-> {400},
             conflict |-> {409}, internal_error |-> {500}, method_not_allowed |-> {405},
             payload_too_large |-> {413}]

\* A body of JSON: one value, an error's code or an entity.
JSONReply(r) ==
    /\ r.type = "json"
    /\ Len(r.body) <= 1
    /\ \A i \in DOMAIN r.body :
         \/ r.body[i] \in DOMAIN StatusOf /\ r.status \in StatusOf[r.body[i]]
         \/ r.body[i] = "entity" /\ r.status \in {200, 201, 503}

\* Audio may be cut short, but nothing else comes after it.
AudioReply(r) ==
    /\ r.type = "audio"
    /\ r.status \in {200, 206}
    /\ \A i \in DOMAIN r.body : r.body[i] = "audio"

\* A stream's failed If-Match or If-Unmodified-Since: net/http's error, of the
\* audio's type and without a body.  README "Errors" does not know of it: there
\* the 416 is the one error that is not JSON.
FailedPrecondition(r) == r.type = "audio" /\ r.status = 412 /\ r.body = <<>>

\* No content, not modified, the mux's redirect, net/http's range error.
OtherReply(r) ==
    /\ <<r.type, r.status>> \in {<<"none", 204>>, <<"none", 304>>, <<"html", 301>>, <<"text", 416>>}
    /\ \A i \in DOMAIN r.body : r.body[i] = r.type

WellFormed(r) ==
    JSONReply(r) \/ AudioReply(r) \/ FailedPrecondition(r) \/ OtherReply(r)

-----------------------------------------------------------------------------
Init == reply = None /\ line = None

Answer ==
    /\ reply = None
    /\ reply' # None /\ WellFormed(reply')
    /\ UNCHANGED line

\* The body of an answer to a HEAD is counted, though it is not sent.
Record ==
    /\ reply # None /\ line = None
    /\ line' # None /\ line'.status = reply.status
    /\ ~reply.head => line'.bytes = Len(reply.body)
    /\ UNCHANGED reply

NextRequest ==
    /\ line # None
    /\ reply' = None /\ line' = None

Next == Answer \/ Record \/ NextRequest

Spec == Init /\ [][Next]_vars

=============================================================================
