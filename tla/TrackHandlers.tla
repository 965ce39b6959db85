---------------------------- MODULE TrackHandlers ----------------------------
(***************************************************************************)
(* The HTTP handlers that touch both the catalogue and the bucket: upload, *)
(* stream and delete of a track, delete of an artist, and the creation of  *)
(* the rows they work on.  One action per step between two calls to        *)
(* Postgres or the blob store: anything may happen in between.             *)
(*                                                                         *)
(* A request is a handler's goroutine: where it stands (pc) and the local  *)
(* variables it still needs.  A path that answers without changing         *)
(* anything (bad UUID, missing row) is a stuttering step and has no        *)
(* action.                                                                 *)
(***************************************************************************)
EXTENDS BlobStore, Catalogue

CONSTANT ReadTimeout    \* uploadReadTimeout, in ticks

ASSUME ReadTimeoutAssumption == ReadTimeout \in Nat

VARIABLE req

PCs == {"idle",
        "reading",          \* UploadTrackFile: row read, body arriving
        "stored",           \* its object is in the bucket, its row is not set
        "undo", "replace",  \* it deletes the new object / the previous one
        "trackGone",        \* DeleteTrack: row deleted, object not yet
        "artistLocked",     \* DeleteArtist: track rows locked, keys read
        "artistGone",       \* committed, deleting the objects
        "opening",          \* StreamTrack: row read, Get not yet called
        "serving",          \* Get succeeded, ServeContent under way
        "notFound"}         \* Get found no object: the 404 is being written

Request == [pc : PCs,
            track : Tracks \cup {None},
            artist : Artists \cup {None},
            hash : Contents \cup {None},    \* body uploaded / row's hash, the ETag
            key : Keys \cup {None},         \* storageKey of the upload / of the row
            previousKey : Keys \cup {None},
            doomed : SUBSET Keys,           \* keys left to delete / collected
            clock : Nat]                    \* ticks since body or object began

IdleRequest ==
    [pc |-> "idle", track |-> None, artist |-> None, hash |-> None,
     key |-> None, previousKey |-> None, doomed |-> {}, clock |-> 0]

RequestsInit == req = [r \in Requests |-> IdleRequest]

Begin(r, fields) == req[r].pc = "idle" /\ req' = [req EXCEPT ![r] = fields]

Finish(r) == req' = [req EXCEPT ![r] = IdleRequest]

\* The handler goes on to delete the objects in ks.
GoDelete(r, p, ks) ==
    req' = [req EXCEPT ![r] =
              IF ks = {} THEN IdleRequest
              ELSE [IdleRequest EXCEPT !.pc = p, !.doomed = ks]]

\* One blobs.Delete of a handler's tail; a failure is logged, not retried.
DeleteDoomed(r, p) ==
    /\ req[r].pc = p
    /\ \E k \in req[r].doomed :
         /\ TryDelete(k)
         /\ GoDelete(r, p, req[r].doomed \ {k})
    /\ UNCHANGED catalogueVars

-----------------------------------------------------------------------------
CreateArtist(a) ==
    /\ InsertArtist(a)
    /\ UNCHANGED <<blobVars, req>>

CreateTrack(t, a) ==
    /\ InsertTrack(t, a)
    /\ UNCHANGED <<blobVars, req>>

-----------------------------------------------------------------------------
\* UploadTrackFile.  The row is read before the body: previousKey is from then.
UploadBegin(r, t) ==
    /\ trackRow[t] = "live"
    /\ Begin(r, [IdleRequest EXCEPT !.pc = "reading", !.track = t,
                                    !.previousKey = storageKey[t]])
    /\ UNCHANGED <<blobVars, catalogueVars>>

\* The body is too large, empty, not audio or late, or Put fails outright.
UploadRejected(r) ==
    /\ req[r].pc = "reading"
    /\ Finish(r)
    /\ UNCHANGED <<blobVars, catalogueVars>>

\* Put under a fresh key: the whole body was read before the read deadline.
UploadPut(r) ==
    /\ req[r].pc = "reading"
    /\ req[r].clock <= ReadTimeout
    /\ \E k \in FreshKeys, c \in Contents, a \in 0..req[r].clock :
         /\ Put(k, c, a)
         /\ req' = [req EXCEPT ![r] = [@ EXCEPT !.pc = "stored", !.key = k,
                                                !.hash = c, !.clock = 0]]
    /\ UNCHANGED catalogueVars

\* Put reports an error although the object is there: the handler leaves it.
UploadPutLost(r) ==
    /\ req[r].pc = "stored"
    /\ Finish(r)
    /\ UNCHANGED <<blobVars, catalogueVars>>

UploadCommit(r) ==
    /\ req[r].pc = "stored"
    /\ SetTrackFile(req[r].track, req[r].key, req[r].hash)
    /\ GoDelete(r, "replace", {req[r].previousKey} \ {None, req[r].key})
    /\ UNCHANGED blobVars

\* SetTrackFile answers ErrNotFound or ErrDuplicateAudio.
UploadRefused(r) ==
    /\ req[r].pc = "stored"
    /\ SetTrackFileRefused(req[r].track, req[r].hash)
    /\ GoDelete(r, "undo", {req[r].key})
    /\ UNCHANGED <<blobVars, catalogueVars>>

\* Mutant: the error path deletes the previous object.
UploadDBErrorWrongKey(r) ==
    /\ req[r].pc = "stored"
    /\ GoDelete(r, "undo", {req[r].previousKey} \ {None})
    /\ UNCHANGED <<blobVars, catalogueVars>>

\* SetTrackFile fails on the way to the database: the row is as it was.
UploadDBError(r) ==
    /\ req[r].pc = "stored"
    /\ GoDelete(r, "undo", {req[r].key})
    /\ UNCHANGED <<blobVars, catalogueVars>>

\* SetTrackFile commits, but its answer is lost and the handler sees an error.
UploadAckLost(r) ==
    /\ req[r].pc = "stored"
    /\ SetTrackFile(req[r].track, req[r].key, req[r].hash)
    /\ GoDelete(r, "undo", {req[r].key})
    /\ UNCHANGED blobVars

UploadUndo(r) == DeleteDoomed(r, "undo")

UploadReplace(r) == DeleteDoomed(r, "replace")

-----------------------------------------------------------------------------
\* TrackService.DeleteTrack: the row first, then the object it named.
DeleteTrack(r, t) ==
    /\ req[r].pc = "idle"
    /\ DeleteTrackRow(t)
    /\ GoDelete(r, "trackGone", KeysOf({t}))
    /\ UNCHANGED blobVars

DeleteTrackObject(r) == DeleteDoomed(r, "trackGone")

-----------------------------------------------------------------------------
\* ArtistRepository.DeleteArtist up to the end of its SELECT ... FOR UPDATE.
DeleteArtistLock(r, a) ==
    /\ artistRow[a] # "unborn"
    /\ LockTracksOf(a, r)
    /\ Begin(r, [IdleRequest EXCEPT !.pc = "artistLocked", !.artist = a,
                                    !.doomed = KeysOf(TracksOf(a))])
    /\ UNCHANGED blobVars

DeleteArtistCommit(r) ==
    /\ req[r].pc = "artistLocked"
    /\ DeleteArtistRow(req[r].artist, r)
    /\ GoDelete(r, "artistGone", req[r].doomed)
    /\ UNCHANGED blobVars

\* Mutant: the objects go although the transaction rolled back.
DeleteArtistAbortIgnored(r) ==
    /\ req[r].pc = "artistLocked"
    /\ Rollback(r)
    /\ GoDelete(r, "artistGone", req[r].doomed)
    /\ UNCHANGED blobVars

\* The DELETE affects no row, fails, or the request's context is cancelled.
DeleteArtistAbort(r) ==
    /\ req[r].pc = "artistLocked"
    /\ Rollback(r)
    /\ Finish(r)
    /\ UNCHANGED blobVars

DeleteArtistObject(r) == DeleteDoomed(r, "artistGone")

-----------------------------------------------------------------------------
\* StreamTrack reads the row, and answers 404 when it has no file.
StreamBegin(r, t) ==
    /\ trackRow[t] = "live"
    /\ storageKey[t] # None
    /\ Begin(r, [IdleRequest EXCEPT !.pc = "opening", !.track = t,
                                    !.key = storageKey[t], !.hash = contentHash[t]])
    /\ UNCHANGED <<blobVars, catalogueVars>>

\* blobs.Get finds the object, or wraps ErrNotFound.
StreamGet(r) ==
    /\ req[r].pc = "opening"
    /\ req' = [req EXCEPT ![r].pc = IF Exists(req[r].key) THEN "serving" ELSE "notFound"]
    /\ UNCHANGED <<blobVars, catalogueVars>>

\* The response ends, or Get fails for another reason and answers 500.
StreamEnd(r) ==
    /\ req[r].pc \in {"opening", "serving", "notFound"}
    /\ Finish(r)
    /\ UNCHANGED <<blobVars, catalogueVars>>

-----------------------------------------------------------------------------
HandlerStep(r) ==
    \/ \E t \in Tracks : UploadBegin(r, t) \/ DeleteTrack(r, t) \/ StreamBegin(r, t)
    \/ UploadRejected(r) \/ UploadPut(r) \/ UploadPutLost(r)
    \/ UploadCommit(r) \/ UploadRefused(r) \/ UploadDBError(r)
    \/ UploadUndo(r) \/ UploadReplace(r) \/ DeleteTrackObject(r)
    \/ \E a \in Artists : DeleteArtistLock(r, a)
    \/ DeleteArtistCommit(r) \/ DeleteArtistAbort(r) \/ DeleteArtistObject(r)
    \/ StreamGet(r) \/ StreamEnd(r)

RowCreation == \E a \in Artists : CreateArtist(a) \/ \E t \in Tracks : CreateTrack(t, a)

=============================================================================
