------------------------------ MODULE LiveServer ------------------------------
(***************************************************************************)
(* The server and an orphan sweep working on one catalogue and one bucket, *)
(* with time passing, server crashes and failing calls.                    *)
(*                                                                         *)
(* The code bounds how long an upload's body may take (ReadTimeout) but    *)
(* neither how long its SetTrackFile may take, whose context has no        *)
(* deadline, nor the time a sweep needs between reading the catalogue and  *)
(* fixing its cutoff.  CommitDelay and ReadGap bound them here: Tick waits *)
(* for both.  Safety against the sweep needs a grace period longer than    *)
(* all three together (GraceCoversUpload).                                 *)
(***************************************************************************)
EXTENDS TrackHandlers, OrphanSweep

CONSTANTS
    CommitDelay,    \* longest time from an object's Put to its row's commit
    ReadGap         \* longest time from the sweep's catalogue read to its cutoff

ASSUME DelayAssumption == CommitDelay \in Nat /\ ReadGap \in Nat

vars == <<blobVars, catalogueVars, req, sweep>>

\* What gc.go asks of the grace period: to exceed the longest an upload can
\* take.  The object's age may start with the upload's first byte.
GraceCoversUpload == Grace > ReadTimeout + CommitDelay + ReadGap

Init == BlobInit /\ CatalogueInit /\ RequestsInit /\ SweepsInit

\* A request's clock runs while its body arrives and until its row is set.
RequestAges(q) ==
    CASE q.pc = "reading" /\ q.clock <= ReadTimeout -> [q EXCEPT !.clock = @ + 1]
      [] q.pc = "stored" -> [q EXCEPT !.clock = @ + 1]
      [] OTHER -> q

SweepAges(q) == IF q.pc = "keysRead" THEN [q EXCEPT !.clock = @ + 1] ELSE q

Tick ==
    /\ \A r \in Requests : req[r].pc = "stored" => req[r].clock < CommitDelay
    /\ \A s \in Sweepers : sweep[s].pc = "keysRead" => sweep[s].clock < ReadGap
    /\ BlobsAge
    /\ req' = [r \in Requests |-> RequestAges(req[r])]
    /\ sweep' = [s \in Sweepers |-> SweepAges(sweep[s])]
    /\ UNCHANGED catalogueVars

\* The server dies, or is stopped with requests still in flight when the
\* shutdown timeout runs out: goroutines vanish, transactions roll back.
Crash ==
    /\ req' = [r \in Requests |-> IdleRequest]
    /\ rowLock' = [t \in Tracks |-> None]
    /\ UNCHANGED <<blobVars, artistRow, trackRow, artistOf, storageKey, contentHash, sweep>>

Server == (RowCreation \/ \E r \in Requests : HandlerStep(r)) /\ UNCHANGED sweep

Sweeping == (\E s \in Sweepers : SweepStep(s)) /\ UNCHANGED req

Next == Server \/ Sweeping \/ Tick \/ Crash

Spec == Init /\ [][Next]_vars

\* The same system when the answer to a committed SetTrackFile can be lost.
AckLoss == (\E r \in Requests : UploadAckLost(r)) /\ UNCHANGED sweep

LossySpec == Init /\ [][Next \/ AckLoss]_vars

(***************************************************************************)
(* Fairness.  Time passes, and a call returns one way or another, so an    *)
(* upload settles and a sweep process goes on to its end.                  *)
(* Nothing in the code runs the sweep: an operator does, again and again,  *)
(* and for real.  A run may be killed and a delete may fail, but a step    *)
(* that such runs reach again and again succeeds in the end.               *)
(***************************************************************************)
UploadSettles(r) ==
    (UploadCommit(r) \/ UploadRefused(r) \/ UploadDBError(r)) /\ UNCHANGED sweep

SweepGoesOn(s) == sweep[s].pc # "idle" /\ SweepStep(s) /\ UNCHANGED req

ForReal(s, A) == A /\ ~sweep[s].dryRun /\ UNCHANGED req

Fairness ==
    /\ SF_vars(Tick)
    /\ \A r \in Requests : WF_vars(UploadSettles(r))
    /\ \A s \in Sweepers :
         /\ WF_vars(SweepGoesOn(s))
         /\ SF_vars(ForReal(s, SweepList(s, FALSE)))
         /\ SF_vars(ForReal(s, SweepReadKeys(s)))
         /\ SF_vars(ForReal(s, SweepCutoff(s)))
         /\ \A k \in Keys : SF_vars(ForReal(s, SweepDelete(s, k)))

FairSpec == Spec /\ Fairness

-----------------------------------------------------------------------------
TypeOK ==
    /\ BlobTypeOK
    /\ CatalogueTypeOK
    /\ req \in [Requests -> Request]
    /\ sweep \in [Sweepers -> Sweep]

CleanupPCs == {"undo", "replace", "trackGone", "artistGone"}

Cleaning(r) == req[r].pc \in CleanupPCs

\* A row with a file has its object: "a surviving row with no object is a
\* broken track" (trackservice.go).  Every delete of an object, by a handler
\* or by a sweep running at any moment, must respect it.
NoBrokenTrack == RefKeys \subseteq objects

\* The row's hash, which is the stream's ETag and the dedup index's entry, is
\* that of the bytes its key leads to, and no other row has the same audio,
\* whichever of two racing uploads commits first (trackrepo.go:199).
RowDescribesObject ==
    \A t \in LiveTracks : storageKey[t] # None =>
        /\ content[storageKey[t]] = contentHash[t]
        /\ \A u \in LiveTracks \ {t} : contentHash[u] # contentHash[t]

\* The keys a handler's tail is about to delete are nobody's: the delete
\* after a commit "can only orphan an object, never detach one still
\* referenced", and the one after a failed SetTrackFile finds that "nothing
\* points at the object we just wrote" (trackhandler.go).
CleanupOnlyUnreferenced ==
    \A r \in Requests : Cleaning(r) => req[r].doomed \cap RefKeys = {}

\* A response's bytes are those its ETag names, for as long as the object is
\* there: no upload, delete or sweep changes an object under a reader.
StreamMatchesETag ==
    \A r \in Requests :
        req[r].pc = "serving" /\ Exists(req[r].key) => content[req[r].key] = req[r].hash

\* A stream answers that an object is gone only when the row has moved on: the
\* file a track has now is never a 404 (streamhandler.go:56-65).
NotFoundIsStale ==
    \A r \in Requests : req[r].pc = "notFound" => req[r].key \notin RefKeys

\* A sweep never reports (and so never deletes) as an orphan an object that a
\* row points at, or that an upload in flight may still point a row at.
OrphanReportSound ==
    \A s \in Sweepers : \A k \in sweep[s].orphaned :
        k \notin RefKeys /\ \A r \in Requests : req[r].pc = "stored" => req[r].key # k

\* A finished sweep that deletes and reports no error has removed every
\* object it reports as orphaned.
SweepReclaims ==
    \A s \in Sweepers :
        sweep[s].pc = "done" /\ ~sweep[s].dryRun /\ ~sweep[s].failed
            => sweep[s].orphaned \cap objects = {}

\* A key reported missing has no object: the Stat tells an upload that
\* committed after the listing from a lost object.
MissingIsAbsent == \A s \in Sweepers : sweep[s].missing \cap objects = {}

\* An object no row points at and no upload will point a row at.
Stray(k) ==
    /\ k \in objects \ RefKeys
    /\ \A r \in Requests : req[r].pc = "stored" => req[r].key # k

\* Whatever leaves an object behind (a crash, a failed delete, a lost answer,
\* racing uploads), the sweep reclaims it in the end: every "Orphaned object"
\* log line "is a promise that this exists" (main.go).
StraysReclaimed == \A k \in Keys : Stray(k) ~> k \notin objects

-----------------------------------------------------------------------------
(***************************************************************************)
(* A claim of the code's comments that does not hold.                       *)
(***************************************************************************)

\* DeleteArtist: "no track can finish an upload whose key this method fails
\* to collect".
ArtistDeleteCollects ==
    [][\A r \in Requests :
         req[r].pc = "artistLocked" /\ req'[r].pc # "artistLocked"
             => RefKeys \ RefKeys' \subseteq req[r].doomed]_vars

-----------------------------------------------------------------------------
\* What a client can get of track t: the bytes its row leads to.  A row
\* whose object is gone is "broken", which AudioLibrary does not know.
Audio(t) ==
    CASE trackRow[t] # "live" -> trackRow[t]
      [] trackRow[t] = "live" /\ storageKey[t] = None -> None
      [] OTHER -> IF Exists(storageKey[t]) THEN content[storageKey[t]] ELSE "broken"

Library == INSTANCE AudioLibrary WITH
    Silent <- None,
    library <- [t \in Tracks |-> Audio(t)]

\* Rows, objects, handlers and sweeps together implement the abstract
\* library: a track's audio changes in one step, to bytes no other track has.
ImplementsLibrary == Library!LibrarySpec

=============================================================================
