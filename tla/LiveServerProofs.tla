--------------------------- MODULE LiveServerProofs ---------------------------
(***************************************************************************)
(* Proofs about LiveServer, for any numbers of artists, tracks, requests,  *)
(* keys, bodies and sweeps and any time bounds.                            *)
(***************************************************************************)
EXTENDS LiveServerInv, TLAPS

USE GraceAssumption, ReadTimeoutAssumption, DelayAssumption,
    MediaNoneAssumption, CatalogueNoneAssumption

-----------------------------------------------------------------------------
\* Every request record an action builds is a request.
LEMMA IdleIsRequest == IdleRequest \in Request /\ IdleRequest.pc = "idle"
  BY DEF IdleRequest, Request, PCs

LEMMA IdleIsSweep == IdleSweep \in Sweep /\ IdleSweep.pc = "idle"
  BY DEF IdleSweep, Sweep, SweepPCs

LEMMA GoDeleteType ==
  ASSUME NEW r \in Requests, NEW p \in CleanupPCs, NEW ks \in SUBSET Keys,
         req \in [Requests -> Request], GoDelete(r, p, ks)
  PROVE  req' \in [Requests -> Request]
  <1>1. [IdleRequest EXCEPT !.pc = p, !.doomed = ks] \in Request
    BY DEF IdleRequest, Request, PCs, CleanupPCs
  <1> QED BY <1>1, IdleIsRequest DEF GoDelete

LEMMA DeleteDoomedType ==
  ASSUME NEW r \in Requests, NEW p \in CleanupPCs, TypeOK, DeleteDoomed(r, p), UNCHANGED sweep
  PROVE  TypeOK'
  <1>1. BlobTypeOK'
    BY DEF TypeOK, BlobTypeOK, DeleteDoomed, TryDelete, Delete, blobVars
  <1>2. CatalogueTypeOK'
    BY DEF TypeOK, CatalogueTypeOK, DeleteDoomed, catalogueVars
  <1>3. req' \in [Requests -> Request]
    <2>1. PICK k \in req[r].doomed : GoDelete(r, p, req[r].doomed \ {k})
      BY DEF DeleteDoomed
    <2>2. req[r].doomed \ {k} \in SUBSET Keys
      BY DEF TypeOK, Request
    <2> QED BY <2>1, <2>2, GoDeleteType DEF TypeOK
  <1> QED BY <1>1, <1>2, <1>3 DEF TypeOK

LEMMA HandlerType ==
  ASSUME TypeInv, NEW r \in Requests, HandlerStep(r), UNCHANGED sweep
  PROVE  TypeOK'
  <1> USE DEF TypeInv, StoredTyped
  <1>1. ASSUME NEW t \in Tracks, UploadBegin(r, t) PROVE TypeOK'
    BY <1>1 DEF TypeOK, BlobTypeOK, CatalogueTypeOK, blobVars, catalogueVars,
                UploadBegin, Begin, IdleRequest, Request, PCs
  <1>2. ASSUME NEW t \in Tracks, DeleteTrack(r, t) PROVE TypeOK'
    <2>1. KeysOf({t}) \in SUBSET Keys
      BY DEF TypeOK, CatalogueTypeOK, KeysOf
    <2>2. req' \in [Requests -> Request]
      BY <1>2, <2>1, GoDeleteType DEF TypeOK, DeleteTrack, CleanupPCs
    <2> QED
      BY <1>2, <2>2 DEF TypeOK, BlobTypeOK, CatalogueTypeOK, blobVars, RowStatus,
                        DeleteTrack, DeleteTrackRow, RemoveTrackRows
  <1>3. ASSUME NEW t \in Tracks, StreamBegin(r, t) PROVE TypeOK'
    BY <1>3 DEF TypeOK, BlobTypeOK, CatalogueTypeOK, blobVars, catalogueVars,
                StreamBegin, Begin, IdleRequest, Request, PCs
  <1>4. CASE UploadRejected(r) \/ UploadPutLost(r) \/ StreamEnd(r)
    BY <1>4, IdleIsRequest DEF TypeOK, BlobTypeOK, CatalogueTypeOK, blobVars, catalogueVars,
                UploadRejected, UploadPutLost, StreamEnd, Finish
  <1>5. CASE UploadPut(r)
    <2>1. PICK k \in Keys, c \in Contents, a \in 0..req[r].clock :
            /\ Put(k, c, a)
            /\ req' = [req EXCEPT ![r] = [@ EXCEPT !.pc = "stored", !.key = k,
                                                   !.hash = c, !.clock = 0]]
      BY <1>5 DEF UploadPut, FreshKeys
    <2>2. BlobTypeOK'
      BY <2>1 DEF Put, TypeOK, BlobTypeOK, Request
    <2>3. req' \in [Requests -> Request]
      <3>0. req[r] \in Request /\ "stored" \in PCs
        BY DEF TypeOK, PCs
      <3>1. [req[r] EXCEPT !.pc = "stored", !.key = k, !.hash = c, !.clock = 0] \in Request
        BY <3>0 DEF Request
      <3> QED BY <2>1, <3>1 DEF TypeOK
    <2> QED BY <1>5, <2>2, <2>3 DEF TypeOK, CatalogueTypeOK, catalogueVars, UploadPut
  <1>6. CASE UploadCommit(r)
    <2>1. {req[r].previousKey} \ {None, req[r].key} \in SUBSET Keys
      BY DEF TypeOK, Request
    <2>2. req' \in [Requests -> Request]
      BY <1>6, <2>1, GoDeleteType DEF TypeOK, UploadCommit, CleanupPCs
    <2> QED
      BY <1>6, <2>2 DEF TypeOK, BlobTypeOK, CatalogueTypeOK, blobVars,
                        UploadCommit, SetTrackFile, Request
  <1>7. CASE UploadRefused(r) \/ UploadDBError(r)
    <2>1. GoDelete(r, "undo", {req[r].key}) /\ {req[r].key} \in SUBSET Keys
      BY <1>7 DEF UploadRefused, UploadDBError
    <2>2. req' \in [Requests -> Request]
      BY <2>1, GoDeleteType DEF TypeOK, CleanupPCs
    <2> QED
      BY <1>7, <2>2 DEF TypeOK, BlobTypeOK, CatalogueTypeOK, blobVars, catalogueVars,
                        UploadRefused, UploadDBError
  <1>8. CASE UploadUndo(r) \/ UploadReplace(r) \/ DeleteTrackObject(r) \/ DeleteArtistObject(r)
    BY <1>8, DeleteDoomedType
       DEF UploadUndo, UploadReplace, DeleteTrackObject, DeleteArtistObject, CleanupPCs
  <1>9. ASSUME NEW a \in Artists, DeleteArtistLock(r, a) PROVE TypeOK'
    <2>1. KeysOf(TracksOf(a)) \in SUBSET Keys
      BY DEF TypeOK, CatalogueTypeOK, KeysOf, TracksOf, LiveTracks
    <2>2. req' \in [Requests -> Request]
      BY <1>9, <2>1 DEF TypeOK, DeleteArtistLock, Begin, IdleRequest, Request, PCs
    <2>3. rowLock' \in [Tracks -> Requests \cup {None}]
      BY <1>9 DEF TypeOK, CatalogueTypeOK, DeleteArtistLock, LockTracksOf
    <2> QED
      BY <1>9, <2>2, <2>3 DEF TypeOK, BlobTypeOK, CatalogueTypeOK, blobVars,
                              DeleteArtistLock, LockTracksOf
  <1>10. CASE DeleteArtistCommit(r)
    <2>1. req' \in [Requests -> Request]
      BY <1>10, GoDeleteType DEF TypeOK, Request, DeleteArtistCommit, CleanupPCs
    <2>2. CatalogueTypeOK'
      BY <1>10 DEF TypeOK, CatalogueTypeOK, RowStatus, DeleteArtistCommit, DeleteArtistRow,
                   RemoveTrackRows, Unlocked
    <2> QED
      BY <1>10, <2>1, <2>2 DEF TypeOK, BlobTypeOK, blobVars, DeleteArtistCommit
  <1>11. CASE DeleteArtistAbort(r)
    BY <1>11, IdleIsRequest DEF TypeOK, BlobTypeOK, CatalogueTypeOK, blobVars,
                DeleteArtistAbort, Rollback, Unlocked, Finish
  <1>12. CASE StreamGet(r)
    <2>1. req' \in [Requests -> Request]
      BY <1>12 DEF TypeOK, StreamGet, Request, PCs
    <2> QED
      BY <1>12, <2>1 DEF TypeOK, BlobTypeOK, CatalogueTypeOK, blobVars, catalogueVars, StreamGet
  <1> QED
    BY <1>1, <1>2, <1>3, <1>4, <1>5, <1>6, <1>7, <1>8, <1>9, <1>10, <1>11, <1>12

    DEF HandlerStep

LEMMA SweepType ==
  ASSUME TypeInv, NEW s \in Sweepers, SweepStep(s), UNCHANGED req
  PROVE  TypeInv'
  <1> USE DEF TypeInv, StoredTyped
  <1>1. blobVars' = blobVars \/ \E k \in Keys : Delete(k)
    BY DEF SweepStep, SweepList, SweepReadKeys, SweepCutoff, SweepDelete, SweepDeleteFails,
           SweepDeletesDone, SweepStat, SweepStatFails, SweepReport, SweepExit
  <1>2. BlobTypeOK'
    BY <1>1 DEF TypeOK, BlobTypeOK, blobVars, Delete
  <1>3. catalogueVars' = catalogueVars
    BY DEF SweepStep, SweepList, SweepReadKeys, SweepCutoff, SweepDelete, SweepDeleteFails,
           SweepDeletesDone, SweepStat, SweepStatFails, SweepReport, SweepExit
  <1>4. CatalogueTypeOK'
    BY <1>3 DEF TypeOK, CatalogueTypeOK, catalogueVars
  <1>5. sweep' \in [Sweepers -> Sweep]
    <2>1. ASSUME NEW dry \in BOOLEAN, SweepList(s, dry) PROVE sweep' \in [Sweepers -> Sweep]
      BY <2>1 DEF TypeOK, BlobTypeOK, SweepList, IdleSweep, Sweep, SweepPCs
    <2>2. CASE SweepReadKeys(s)
      <3>1. RefKeys \in SUBSET Keys
        BY DEF TypeOK, CatalogueTypeOK, RefKeys, LiveTracks
      <3>2. [sweep[s] EXCEPT !.pc = "keysRead", !.refs = RefKeys] \in Sweep
        BY <3>1 DEF TypeOK, Sweep, SweepPCs
      <3> QED BY <2>2, <3>2 DEF TypeOK, SweepReadKeys
    <2>3. CASE SweepCutoff(s)
      <3>1. PICK old \in SUBSET Keys :
              sweep' = [sweep EXCEPT ![s] =
                         [@ EXCEPT !.pc = "deleting",
                                   !.orphaned = old,
                                   !.listed = IF sweep[s].dryRun THEN {} ELSE old,
                                   !.refs = sweep[s].refs \ sweep[s].listed,
                                   !.clock = 0]]
        BY <2>3 DEF TypeOK, SweepCutoff, Sweep
      <3> DEFINE left == IF sweep[s].dryRun THEN {} ELSE old
      <3>2. left \in SUBSET Keys
        OBVIOUS
      <3>3. [sweep[s] EXCEPT !.pc = "deleting", !.orphaned = old, !.listed = left,
               !.refs = sweep[s].refs \ sweep[s].listed, !.clock = 0] \in Sweep
        BY <3>2 DEF TypeOK, Sweep, SweepPCs
      <3> QED BY <3>1, <3>3 DEF TypeOK
    <2>4. ASSUME NEW k \in Keys, SweepDelete(s, k) \/ SweepDeleteFails(s, k)
          PROVE  sweep' \in [Sweepers -> Sweep]
      BY <2>4 DEF TypeOK, SweepDelete, SweepDeleteFails, Sweep
    <2>5. ASSUME NEW k \in Keys, SweepStat(s, k) \/ SweepStatFails(s, k)
          PROVE  sweep' \in [Sweepers -> Sweep]
      BY <2>5 DEF TypeOK, SweepStat, SweepStatFails, Sweep
    <2>6. CASE SweepDeletesDone(s) \/ SweepReport(s)
      BY <2>6 DEF TypeOK, SweepDeletesDone, SweepReport, Sweep, SweepPCs
    <2>7. CASE SweepExit(s)
      BY <2>7, IdleIsSweep DEF TypeOK, SweepExit
    <2> QED BY <2>1, <2>2, <2>3, <2>4, <2>5, <2>6, <2>7 DEF SweepStep
  <1> QED BY <1>2, <1>4, <1>5 DEF TypeOK

LEMMA TickType ==
  ASSUME TypeInv, Tick
  PROVE  TypeInv'
  <1>1. req' \in [Requests -> Request] /\ StoredTyped'
    BY DEF TypeInv, TypeOK, StoredTyped, Tick, RequestAges, Request
  <1>2. sweep' \in [Sweepers -> Sweep]
    BY DEF TypeInv, TypeOK, Tick, SweepAges, Sweep
  <1>3. BlobTypeOK'
    BY DEF TypeInv, TypeOK, BlobTypeOK, Tick, BlobsAge, Older
  <1> QED BY <1>1, <1>2, <1>3 DEF TypeInv, TypeOK, CatalogueTypeOK, Tick, catalogueVars

-----------------------------------------------------------------------------
\* What one request's step does to the requests: the others stay, and only
\* a Put makes an upload "stored".
LEMMA GoDeleteFrame ==
  ASSUME NEW r \in Requests, NEW p, NEW ks, req \in [Requests -> Request], GoDelete(r, p, ks)
  PROVE  /\ \A q \in Requests : q # r => req'[q] = req[q]
         /\ req'[r].pc \in {"idle", p}
         /\ req'[r].pc = p => req'[r].doomed = ks \/ p = "idle"
         /\ req'[r].doomed \in {{}, ks}
  BY DEF GoDelete, IdleRequest

LEMMA StreamBeginFrame ==
  ASSUME TypeInv, NEW r \in Requests, NEW t \in Tracks, StreamBegin(r, t)
  PROVE  /\ req'[r].pc = "opening"
         /\ req'[r].track = t /\ req'[r].key = storageKey[t] /\ req'[r].hash = contentHash[t]
  <1>1. req'[r] = [IdleRequest EXCEPT !.pc = "opening", !.track = t,
                                      !.key = storageKey[t], !.hash = contentHash[t]]
    BY DEF StreamBegin, Begin, TypeInv, TypeOK
  <1> QED BY <1>1, IdleIsRequest DEF Request

LEMMA HandlerFrame ==
  ASSUME TypeInv, NEW r \in Requests, HandlerStep(r)
  PROVE  /\ \A q \in Requests : q # r => req'[q] = req[q]
         /\ req'[r].pc = "stored" => UploadPut(r)
  <1> USE DEF TypeInv, TypeOK
  <1>1. CASE UploadPut(r)
    BY <1>1 DEF UploadPut
  <1>2. CASE \E p \in CleanupPCs : \E ks : GoDelete(r, p, ks)
    BY <1>2, GoDeleteFrame DEF CleanupPCs
  <1>3. CASE \E t \in Tracks : UploadBegin(r, t) \/ StreamBegin(r, t)
    BY <1>3 DEF UploadBegin, StreamBegin, Begin, IdleRequest
  <1>4. CASE UploadRejected(r) \/ UploadPutLost(r) \/ StreamEnd(r) \/ DeleteArtistAbort(r)
    BY <1>4 DEF UploadRejected, UploadPutLost, StreamEnd, DeleteArtistAbort, Finish, IdleRequest
  <1>5. CASE \E a \in Artists : DeleteArtistLock(r, a)
    BY <1>5 DEF DeleteArtistLock, Begin, IdleRequest
  <1>6. CASE StreamGet(r)
    BY <1>6 DEF StreamGet, Request
  <1>7. CASE UploadCommit(r) \/ UploadRefused(r) \/ UploadDBError(r)
               \/ (\E t \in Tracks : DeleteTrack(r, t)) \/ DeleteArtistCommit(r)
    BY <1>7, <1>2 DEF UploadCommit, UploadRefused, UploadDBError, DeleteTrack,
                      DeleteArtistCommit, CleanupPCs
  <1>8. CASE UploadUndo(r) \/ UploadReplace(r) \/ DeleteTrackObject(r) \/ DeleteArtistObject(r)
    BY <1>8, <1>2 DEF UploadUndo, UploadReplace, DeleteTrackObject, DeleteArtistObject,
                      DeleteDoomed, CleanupPCs
  <1> QED
    BY <1>1, <1>3, <1>4, <1>5, <1>6, <1>7, <1>8 DEF HandlerStep

LEMMA TypeStep ==
  ASSUME TypeInv, [Next]_vars
  PROVE  TypeInv'
  <1>1. ASSUME NEW r \in Requests, HandlerStep(r), UNCHANGED sweep PROVE TypeInv'
    <2>1. TypeOK'
      BY <1>1, HandlerType
    <2>2. StoredTyped'
      <3>1. UploadPut(r) => req'[r].key \in Keys
        BY DEF UploadPut, FreshKeys, TypeInv, TypeOK, Request
      <3> QED BY <1>1, <3>1, HandlerFrame DEF TypeInv, StoredTyped
    <2> QED BY <2>1, <2>2 DEF TypeInv
  <1>2. CASE RowCreation /\ UNCHANGED sweep
    <2>1. CatalogueTypeOK'
      BY <1>2 DEF TypeInv, TypeOK, CatalogueTypeOK, RowStatus, RowCreation,
                  CreateArtist, CreateTrack, InsertArtist, InsertTrack
    <2>2. UNCHANGED <<blobVars, req>>
      BY <1>2 DEF RowCreation, CreateArtist, CreateTrack
    <2> QED BY <1>2, <2>1, <2>2 DEF TypeInv, TypeOK, StoredTyped, BlobTypeOK, blobVars
  <1>3. CASE Sweeping
    BY <1>3, SweepType DEF Sweeping
  <1>4. CASE Tick
    BY <1>4, TickType
  <1>5. CASE Crash
    BY <1>5, IdleIsRequest DEF TypeInv, TypeOK, StoredTyped, BlobTypeOK, CatalogueTypeOK,
                               Crash, blobVars
  <1>6. CASE UNCHANGED vars
    BY <1>6 DEF TypeInv, TypeOK, StoredTyped, BlobTypeOK, CatalogueTypeOK, vars, blobVars,
                catalogueVars
  <1> QED BY <1>1, <1>2, <1>3, <1>4, <1>5, <1>6 DEF Next, Server

\* Every variable of the catalogue, the bucket, the handlers and the sweeps
\* keeps its type, whatever the interleaving, the crashes and the failures.
THEOREM TypeCorrect == Spec => []TypeOK
  <1>1. Init => TypeInv
    BY IdleIsRequest, IdleIsSweep
       DEF Init, BlobInit, CatalogueInit, RequestsInit, SweepsInit, TypeInv, TypeOK,
           StoredTyped, BlobTypeOK, CatalogueTypeOK, RowStatus
  <1>2. TypeInv /\ [Next]_vars => TypeInv'
    BY TypeStep
  <1>3. TypeInv => TypeOK
    BY DEF TypeInv
  <1> QED BY <1>1, <1>2, <1>3, PTL DEF Spec

-----------------------------------------------------------------------------
\* The four ways a step can change the bucket.
LEMMA BucketStep ==
  ASSUME IInv, [Next]_vars
  PROVE  \/ UNCHANGED blobVars
         \/ \E k \in Keys : Delete(k) /\ Dead(k) /\ UNCHANGED catalogueVars
         \/ \E r \in Requests : UploadPut(r) /\ UNCHANGED sweep
         \/ Tick
  <1> DEFINE Goal ==
        \/ UNCHANGED blobVars
        \/ \E k \in Keys : Delete(k) /\ Dead(k) /\ UNCHANGED catalogueVars
        \/ \E r \in Requests : UploadPut(r) /\ UNCHANGED sweep
        \/ Tick
  <1>1. ASSUME NEW r \in Requests, HandlerStep(r), UNCHANGED sweep PROVE Goal
    <2>1. ASSUME NEW p \in CleanupPCs, DeleteDoomed(r, p) PROVE Goal
      <3>1. PICK k \in req[r].doomed : TryDelete(k)
        BY <2>1 DEF DeleteDoomed
      <3>2. k \in Keys /\ Dead(k)
        BY <2>1, <3>1 DEF IInv, TypeInv, TypeOK, Request, DoomedDead, Cleaning, DeleteDoomed
      <3> QED BY <2>1, <3>1, <3>2 DEF TryDelete, DeleteDoomed
    <2>2. CASE UploadUndo(r) \/ UploadReplace(r) \/ DeleteTrackObject(r) \/ DeleteArtistObject(r)
      BY <2>1, <2>2 DEF UploadUndo, UploadReplace, DeleteTrackObject, DeleteArtistObject, CleanupPCs
    <2>3. CASE UploadPut(r)
      <3>1. UploadPut(r) /\ UNCHANGED sweep
        BY <1>1, <2>3
      <3> QED BY <3>1, Zenon
    <2>4. CASE \E t \in Tracks : UploadBegin(r, t) \/ DeleteTrack(r, t) \/ StreamBegin(r, t)
      BY <2>4 DEF UploadBegin, DeleteTrack, StreamBegin
    <2>5. CASE UploadRejected(r) \/ UploadPutLost(r) \/ UploadCommit(r) \/ UploadRefused(r)
                 \/ UploadDBError(r) \/ StreamGet(r) \/ StreamEnd(r)
      BY <2>5 DEF UploadRejected, UploadPutLost, UploadCommit, UploadRefused, UploadDBError,
                  StreamGet, StreamEnd
    <2>6. CASE (\E a \in Artists : DeleteArtistLock(r, a)) \/ DeleteArtistCommit(r)
                 \/ DeleteArtistAbort(r)
      BY <2>6 DEF DeleteArtistLock, DeleteArtistCommit, DeleteArtistAbort
    <2> QED BY <1>1, <2>2, <2>3, <2>4, <2>5, <2>6 DEF HandlerStep
  <1>2. ASSUME NEW s \in Sweepers, SweepStep(s), UNCHANGED req PROVE Goal
    <2>1. ASSUME NEW k \in Keys, SweepDelete(s, k) PROVE Goal
      <3>1. Dead(k)
        BY <2>1 DEF IInv, SweepsInformed, SweepDelete
      <3> QED BY <2>1, <3>1 DEF SweepDelete
    <2> QED
      BY <1>2, <2>1 DEF SweepStep, SweepList, SweepReadKeys, SweepCutoff, SweepDeleteFails,
                        SweepDeletesDone, SweepStat, SweepStatFails, SweepReport, SweepExit
  <1>3. CASE RowCreation
    BY <1>3 DEF RowCreation, CreateArtist, CreateTrack
  <1>4. CASE Crash \/ UNCHANGED vars
    BY <1>4 DEF Crash, vars
  <1> QED BY <1>1, <1>2, <1>3, <1>4 DEF Next, Server, Sweeping

\* The three ways a step can change which row names which key.
LEMMA NamesStep ==
  ASSUME IInv, [Next]_vars
  PROVE  \/ UNCHANGED storageKey
         \/ \E r \in Requests : UploadCommit(r) /\ UNCHANGED sweep
         \/ \E ts \in SUBSET Tracks :
              storageKey' = [t \in Tracks |-> IF t \in ts THEN None ELSE storageKey[t]]
  <1> DEFINE Cleared(ts) == storageKey' = [t \in Tracks |-> IF t \in ts THEN None ELSE storageKey[t]]
             Goal ==
               \/ UNCHANGED storageKey
               \/ \E r \in Requests : UploadCommit(r) /\ UNCHANGED sweep
               \/ \E ts \in SUBSET Tracks : Cleared(ts)
  <1>1. ASSUME NEW r \in Requests, HandlerStep(r), UNCHANGED sweep PROVE Goal
    <2>1. CASE UploadCommit(r)
      BY <1>1, <2>1
    <2>2. ASSUME NEW t \in Tracks, DeleteTrack(r, t) PROVE Goal
      <3>1. Cleared({t})
        BY <2>2 DEF DeleteTrack, DeleteTrackRow, RemoveTrackRows
      <3> QED BY <3>1
    <2>3. CASE DeleteArtistCommit(r)
      <3>1. Cleared(TracksOf(req[r].artist))
        BY <2>3 DEF DeleteArtistCommit, DeleteArtistRow, RemoveTrackRows
      <3>2. TracksOf(req[r].artist) \in SUBSET Tracks
        BY DEF TracksOf, LiveTracks
      <3> HIDE DEF Cleared
      <3> QED BY <3>1, <3>2
    <2>4. CASE UploadUndo(r) \/ UploadReplace(r) \/ DeleteTrackObject(r) \/ DeleteArtistObject(r)
      BY <2>4 DEF UploadUndo, UploadReplace, DeleteTrackObject, DeleteArtistObject,
                  DeleteDoomed, catalogueVars
    <2>5. CASE \E t \in Tracks : UploadBegin(r, t) \/ StreamBegin(r, t)
      BY <2>5 DEF UploadBegin, StreamBegin, catalogueVars
    <2>6. CASE UploadRejected(r) \/ UploadPut(r) \/ UploadPutLost(r) \/ UploadRefused(r)
                 \/ UploadDBError(r) \/ StreamGet(r) \/ StreamEnd(r)
      BY <2>6 DEF UploadRejected, UploadPut, UploadPutLost, UploadRefused, UploadDBError,
                  StreamGet, StreamEnd, catalogueVars
    <2>7. CASE (\E a \in Artists : DeleteArtistLock(r, a)) \/ DeleteArtistAbort(r)
      BY <2>7 DEF DeleteArtistLock, DeleteArtistAbort, LockTracksOf, Rollback
    <2> HIDE DEF Goal
    <2> QED BY <1>1, <2>1, <2>2, <2>3, <2>4, <2>5, <2>6, <2>7 DEF HandlerStep
  <1>2. CASE Sweeping
    BY <1>2 DEF Sweeping, SweepStep, SweepList, SweepReadKeys, SweepCutoff, SweepDelete,
                SweepDeleteFails, SweepDeletesDone, SweepStat, SweepStatFails, SweepReport,
                SweepExit, catalogueVars
  <1>3. CASE RowCreation
    BY <1>3 DEF RowCreation, CreateArtist, CreateTrack, InsertArtist, InsertTrack
  <1>4. CASE Crash \/ Tick \/ UNCHANGED vars
    BY <1>4 DEF Crash, Tick, vars, catalogueVars
  <1> QED BY <1>1, <1>2, <1>3, <1>4 DEF Next, Server

\* An upload becomes "stored" by its Put, and leaves that state for good.
LEMMA StoresStep ==
  ASSUME IInv, [Next]_vars, NEW r \in Requests, (req[r].pc = "stored")'
  PROVE  \/ UploadPut(r) /\ UNCHANGED sweep
         \/ /\ req[r].pc = "stored"
            /\ req'[r].key = req[r].key
            /\ req'[r].track = req[r].track
            /\ req'[r].previousKey = req[r].previousKey
            /\ req'[r].hash = req[r].hash
            /\ Tick \/ req'[r] = req[r]
            /\ Tick => req'[r].clock = req[r].clock + 1
  <1> USE DEF IInv, TypeInv, TypeOK
  <1>1. ASSUME NEW q \in Requests, HandlerStep(q), UNCHANGED sweep, ~Tick
        PROVE  (UploadPut(r) /\ UNCHANGED sweep) \/ req'[r] = req[r]
    BY <1>1, HandlerFrame
  <1>2. CASE Tick
    BY <1>2 DEF Tick, RequestAges, Request
  <1>3. CASE Crash
    BY <1>3 DEF Crash, IdleRequest
  <1>4. CASE ~Tick /\ ((RowCreation /\ UNCHANGED sweep) \/ Sweeping \/ UNCHANGED vars)
    <2>1. UNCHANGED req
      BY <1>4 DEF RowCreation, CreateArtist, CreateTrack, Sweeping, vars
    <2> QED BY <1>4, <2>1
  <1> QED BY <1>1, <1>2, <1>3, <1>4 DEF Next, Server

\* What an upload's Put does.
LEMMA PutStep ==
  ASSUME IInv, NEW r \in Requests, UploadPut(r)
  PROVE  \E k \in Keys, c \in Contents, a \in 0..req[r].clock :
           /\ Put(k, c, a)
           /\ k \notin used
           /\ req[r].pc = "reading"
           /\ req[r].clock <= ReadTimeout
           /\ req'[r] = [req[r] EXCEPT !.pc = "stored", !.key = k, !.hash = c, !.clock = 0]
           /\ req'[r].pc = "stored" /\ req'[r].key = k /\ req'[r].hash = c /\ req'[r].clock = 0
           /\ req'[r].track = req[r].track /\ req'[r].previousKey = req[r].previousKey
           /\ \A q \in Requests : q # r => req'[q] = req[q]
           /\ UNCHANGED catalogueVars
  <1>1. PICK k \in Keys, c \in Contents, a \in 0..req[r].clock :
           /\ Put(k, c, a)
           /\ k \notin used
           /\ req[r].pc = "reading"
           /\ req[r].clock <= ReadTimeout
           /\ req' = [req EXCEPT ![r] = [@ EXCEPT !.pc = "stored", !.key = k,
                                                  !.hash = c, !.clock = 0]]
           /\ UNCHANGED catalogueVars
    BY DEF UploadPut, FreshKeys
  <1>2. req[r] \in Request /\ req \in [Requests -> Request]
    BY DEF IInv, TypeInv, TypeOK
  <1>3. req'[r] = [req[r] EXCEPT !.pc = "stored", !.key = k, !.hash = c, !.clock = 0]
    BY <1>1, <1>2
  <1>4. /\ req'[r].pc = "stored" /\ req'[r].key = k /\ req'[r].hash = c /\ req'[r].clock = 0
        /\ req'[r].track = req[r].track /\ req'[r].previousKey = req[r].previousKey
    BY <1>2, <1>3 DEF Request
  <1>5. \A q \in Requests : q # r => req'[q] = req[q]
    BY <1>1, <1>2
  <1> QED BY <1>1, <1>3, <1>4, <1>5

\* A dead key stays dead.
LEMMA DeadStays ==
  ASSUME IInv, [Next]_vars, NEW k \in Keys, Dead(k)
  PROVE  Dead(k)'
  <1>1. k \in used'
    <2>1. used \subseteq used'
      BY BucketStep, PutStep DEF blobVars, Delete, Put, Tick, BlobsAge
    <2> QED BY <2>1 DEF Dead
  <1>2. ASSUME NEW t \in Tracks, Names(t, k)' PROVE FALSE
    <2>1. CASE UNCHANGED storageKey
      BY <1>2, <2>1 DEF Names, Dead
    <2>2. ASSUME NEW r \in Requests, UploadCommit(r) PROVE FALSE
      BY <1>2, <2>2 DEF UploadCommit, SetTrackFile, Names, Dead, Stores,
                        IInv, TypeInv, TypeOK, CatalogueTypeOK
    <2>3. ASSUME NEW ts \in SUBSET Tracks,
                 storageKey' = [u \in Tracks |-> IF u \in ts THEN None ELSE storageKey[u]]
          PROVE  FALSE
      BY <1>2, <2>3 DEF Names, Dead
    <2> QED BY <2>1, <2>2, <2>3, NamesStep
  <1>3. ASSUME NEW r \in Requests, Stores(r, k)' PROVE FALSE
    <2>1. CASE UploadPut(r)
      BY ZenonT(40), <1>3, <2>1, PutStep DEF Dead, Stores, IInv, TypeInv, TypeOK, Request
    <2>2. CASE ~UploadPut(r)
      BY <1>3, <2>2, StoresStep DEF Dead, Stores
    <2> QED BY <2>1, <2>2
  <1> QED BY <1>1, <1>2, <1>3 DEF Dead

-----------------------------------------------------------------------------
\* One lemma per part of the invariant.

LEMMA RowsStep ==
  ASSUME IInv, [Next]_vars
  PROVE  RowsBacked'
  <1> USE DEF IInv, TypeInv, TypeOK, BlobTypeOK, CatalogueTypeOK
  <1>1. objects' \subseteq used'
    <2>1. CASE UNCHANGED blobVars
      BY <2>1 DEF RowsBacked, blobVars
    <2>2. CASE \E k \in Keys : Delete(k)
      BY <2>2 DEF RowsBacked, Delete
    <2>3. CASE \E r \in Requests : UploadPut(r)
      BY ZenonT(40), <2>3, PutStep DEF RowsBacked, Put
    <2>4. CASE Tick
      BY <2>4 DEF RowsBacked, Tick, BlobsAge
    <2> QED BY <2>1, <2>2, <2>3, <2>4, BucketStep
  <1>2. ASSUME NEW t \in Tracks, storageKey[t] \in objects, storageKey[t] # None
        PROVE  storageKey'[t] = storageKey[t] => storageKey[t] \in objects'
    <2>1. CASE UNCHANGED blobVars
      BY <1>2, <2>1 DEF blobVars
    <2>2. ASSUME NEW k \in Keys, Delete(k), Dead(k) PROVE storageKey[t] \in objects'
      BY <1>2, <2>2 DEF Delete, Dead, Names
    <2>3. CASE \E r \in Requests : UploadPut(r)
      BY <1>2, <2>3, PutStep DEF Put
    <2>4. CASE Tick
      BY <1>2, <2>4 DEF Tick, BlobsAge
    <2> QED BY <2>1, <2>2, <2>3, <2>4, BucketStep
  <1>3. CASE UNCHANGED storageKey
    BY <1>1, <1>2, <1>3 DEF RowsBacked
  <1>4. ASSUME NEW r \in Requests, UploadCommit(r) PROVE RowsBacked'
    <2>1. /\ req[r].pc = "stored" /\ UNCHANGED blobVars
          /\ storageKey' = [storageKey EXCEPT ![req[r].track] = req[r].key]
      BY <1>4 DEF UploadCommit, SetTrackFile
    <2>2. req[r].key \in objects /\ \A t \in Tracks : storageKey[t] # req[r].key
      BY <2>1 DEF StoredOwned
    <2> QED BY <1>1, <2>1, <2>2 DEF RowsBacked, blobVars
  <1>5. ASSUME NEW ts \in SUBSET Tracks,
               storageKey' = [t \in Tracks |-> IF t \in ts THEN None ELSE storageKey[t]]
        PROVE  RowsBacked'
    <2>1. ASSUME NEW t \in Tracks, storageKey'[t] # None
          PROVE  storageKey'[t] = storageKey[t]
      BY <1>5, <2>1
    <2> QED BY <1>1, <1>2, <2>1 DEF RowsBacked
  <1> QED BY <1>3, <1>4, <1>5, NamesStep

LEMMA RowsHoldKeysStep ==
  ASSUME IInv, [Next]_vars
  PROVE  RowsHoldKeys'
  <1> USE DEF IInv, TypeInv, TypeOK, CatalogueTypeOK
  <1>1. ASSUME NEW r \in Requests, HandlerStep(r) PROVE RowsHoldKeys'
    <2>1. CASE UploadCommit(r)
      BY <2>1 DEF RowsHoldKeys, UploadCommit, SetTrackFile
    <2>2. ASSUME NEW t \in Tracks, DeleteTrack(r, t) PROVE RowsHoldKeys'
      BY <2>2 DEF RowsHoldKeys, DeleteTrack, DeleteTrackRow, RemoveTrackRows
    <2>3. CASE DeleteArtistCommit(r)
      BY <2>3 DEF RowsHoldKeys, DeleteArtistCommit, DeleteArtistRow, RemoveTrackRows
    <2>4. CASE UNCHANGED <<trackRow, storageKey>>
      BY <2>4 DEF RowsHoldKeys
    <2>5. CASE UploadUndo(r) \/ UploadReplace(r) \/ DeleteTrackObject(r) \/ DeleteArtistObject(r)
      BY <2>4, <2>5 DEF UploadUndo, UploadReplace, DeleteTrackObject, DeleteArtistObject,
                        DeleteDoomed, catalogueVars
    <2>6. CASE \E t \in Tracks : UploadBegin(r, t) \/ StreamBegin(r, t)
      BY <2>4, <2>6 DEF UploadBegin, StreamBegin, catalogueVars
    <2>7. CASE UploadRejected(r) \/ UploadPut(r) \/ UploadPutLost(r) \/ UploadRefused(r)
                 \/ UploadDBError(r) \/ StreamGet(r) \/ StreamEnd(r)
      BY <2>4, <2>7 DEF UploadRejected, UploadPut, UploadPutLost, UploadRefused, UploadDBError,
                        StreamGet, StreamEnd, catalogueVars
    <2>8. CASE (\E a \in Artists : DeleteArtistLock(r, a)) \/ DeleteArtistAbort(r)
      BY <2>4, <2>8 DEF DeleteArtistLock, DeleteArtistAbort, LockTracksOf, Rollback
    <2> QED BY <1>1, <2>1, <2>2, <2>3, <2>5, <2>6, <2>7, <2>8 DEF HandlerStep
  <1>2. CASE RowCreation
    BY <1>2 DEF RowsHoldKeys, RowCreation, CreateArtist, CreateTrack, InsertArtist, InsertTrack
  <1>3. CASE Sweeping \/ Tick \/ Crash \/ UNCHANGED vars
    <2>1. UNCHANGED <<trackRow, storageKey>>
      BY <1>3 DEF Tick, Crash, vars, catalogueVars, Sweeping, SweepStep, SweepList,
                  SweepReadKeys, SweepCutoff, SweepDelete, SweepDeleteFails, SweepDeletesDone,
                  SweepStat, SweepStatFails, SweepReport, SweepExit
    <2> QED BY <2>1 DEF RowsHoldKeys
  <1> QED BY <1>1, <1>2, <1>3 DEF Next, Server

LEMMA StoredStep ==
  ASSUME IInv, [Next]_vars
  PROVE  StoredOwned'
  <1> USE DEF IInv, TypeInv, TypeOK, BlobTypeOK, CatalogueTypeOK
  <1> SUFFICES ASSUME NEW r \in Requests, (req[r].pc = "stored")'
               PROVE  /\ req'[r].key \in objects'
                      /\ \A t \in Tracks : storageKey'[t] # req'[r].key
                      /\ \A q \in Requests : Stores(q, req[r].key)' => q = r
                      /\ req'[r].clock <= CommitDelay
                      /\ age'[req'[r].key] <= ReadTimeout + req'[r].clock
    BY DEF StoredOwned
  <1>1. CASE UploadPut(r)
    <2>1. PICK k \in Keys, a \in 0..req[r].clock :
            /\ \E c \in Contents : Put(k, c, a)
            /\ k \notin used
            /\ req[r].clock <= ReadTimeout
            /\ req'[r].key = k /\ req'[r].clock = 0
            /\ \A q \in Requests : q # r => req'[q] = req[q]
            /\ UNCHANGED catalogueVars
      BY <1>1, PutStep
    <2>2. k \in objects' /\ age'[k] <= ReadTimeout
      BY <2>1 DEF Put, Request
    <2>3. \A t \in Tracks : storageKey'[t] # k
      BY <2>1 DEF catalogueVars, RowsBacked
    <2>4. \A q \in Requests : Stores(q, k)' => q = r
      BY <2>1 DEF Stores, StoredOwned, RowsBacked
    <2> QED BY <2>1, <2>2, <2>3, <2>4 DEF Stores
  <1>2. CASE ~UploadPut(r)
    <2>1. /\ req[r].pc = "stored" /\ req'[r].key = req[r].key
          /\ Tick \/ req'[r] = req[r]
          /\ Tick => req'[r].clock = req[r].clock + 1
      BY <1>2, StoresStep
    <2>0. PICK k \in Keys : k = req[r].key
      BY <2>1 DEF StoredTyped
    <2>2. /\ k \in Keys /\ k \in objects /\ k \in used
          /\ \A t \in Tracks : storageKey[t] # k
          /\ \A q \in Requests : Stores(q, k) => q = r
          /\ req[r].clock <= CommitDelay
          /\ age[k] <= ReadTimeout + req[r].clock
      BY <2>0, <2>1 DEF StoredOwned, RowsBacked
    <2>3. \A d \in Keys : Dead(d) => d # k
      BY <2>0, <2>1 DEF Dead, Stores
    <2>4. k \in objects' /\ (~Tick => age'[k] = age[k])
      <3>1. CASE UNCHANGED blobVars
        BY <2>2, <3>1 DEF blobVars
      <3>2. CASE \E d \in Keys : Delete(d) /\ Dead(d)
        BY <2>2, <2>3, <3>2 DEF Delete
      <3>3. ASSUME NEW q \in Requests, UploadPut(q)
            PROVE  k \in objects' /\ age'[k] = age[k]
        <4>1. PICK d \in Keys : d \notin used /\ \E c \in Contents : \E a : Put(d, c, a)
          BY <3>3, PutStep
        <4> QED BY <2>2, <4>1 DEF Put
      <3>4. CASE Tick
        BY <2>2, <3>4 DEF Tick, BlobsAge
      <3> QED BY <3>1, <3>2, <3>3, <3>4, BucketStep
    <2>5. \A t \in Tracks : storageKey'[t] # k
      <3>1. CASE UNCHANGED storageKey
        BY <2>2, <3>1
      <3>2. ASSUME NEW q \in Requests, UploadCommit(q) PROVE \A t \in Tracks : storageKey'[t] # k
        <4>1. q # r
          <5>1. UploadCommit(r) => req'[r].pc # "stored"
            BY GoDeleteFrame DEF UploadCommit
          <5> QED BY <3>2, <5>1
        <4>2. req[q].key # k
          BY <2>2, <3>2, <4>1 DEF UploadCommit, Stores
        <4> QED BY <2>2, <3>2, <4>2 DEF UploadCommit, SetTrackFile
      <3>3. CASE \E ts \in SUBSET Tracks :
                   storageKey' = [t \in Tracks |-> IF t \in ts THEN None ELSE storageKey[t]]
        BY <2>2, <3>3 DEF StoredTyped
      <3> QED BY <3>1, <3>2, <3>3, NamesStep
    <2>6. ASSUME NEW q \in Requests, Stores(q, k)' PROVE q = r
      <3>1. CASE UploadPut(q)
        <4>1. PICK d \in Keys : d \notin used /\ req'[q].key = d
          BY <3>1, PutStep
        <4> QED BY <2>2, <2>6, <4>1 DEF Stores
      <3>2. CASE ~UploadPut(q)
        <4>1. Stores(q, k)
          BY <2>6, <3>2, StoresStep DEF Stores
        <4> QED BY <2>2, <4>1
      <3> QED BY <3>1, <3>2
    <2>7. /\ req'[r].clock <= CommitDelay
          /\ age'[k] <= ReadTimeout + req'[r].clock
      <3>1. CASE Tick
        <4>1. req[r].clock < CommitDelay /\ age' = [j \in Keys |-> IF j \in objects THEN Older(age[j]) ELSE age[j]]
          BY <2>1, <3>1 DEF Tick, BlobsAge
        <4>2. req[r].clock \in Nat /\ age[k] \in Nat
          BY <2>2 DEF Request
        <4> QED BY <2>1, <2>2, <3>1, <4>1, <4>2 DEF Older
      <3>2. CASE ~Tick
        BY <2>1, <2>2, <2>4, <3>2
      <3> QED BY <3>1, <3>2
    <2>8. req'[r].key = k
      BY <2>0, <2>1
    <2>9. \A q \in Requests : Stores(q, req[r].key)' => q = r
      BY <2>6, <2>8 DEF Stores
    <2> QED BY <2>4, <2>5, <2>7, <2>8, <2>9
  <1> QED BY <1>1, <1>2

LEMMA PreviousStep ==
  ASSUME IInv, [Next]_vars
  PROVE  PreviousKeyOwned'
  <1> USE DEF IInv, TypeInv, TypeOK, BlobTypeOK, CatalogueTypeOK
  <1> DEFINE Owned(k, u) ==
        /\ k \in used
        /\ \A t \in Tracks : Names(t, k) => t = u
        /\ \A q \in Requests : ~Stores(q, k)
  <1>1. ASSUME NEW k \in Keys, NEW u \in Tracks, Owned(k, u)
        PROVE  Owned(k, u)'
    <2>1. k \in used'
      BY <1>1, BucketStep, PutStep DEF blobVars, Delete, Put, Tick, BlobsAge
    <2>2. ASSUME NEW t \in Tracks, Names(t, k)' PROVE t = u
      <3>1. CASE UNCHANGED storageKey
        BY <1>1, <2>2, <3>1 DEF Names
      <3>2. ASSUME NEW q \in Requests, UploadCommit(q) PROVE Names(t, k)
        BY <1>1, <2>2, <3>2 DEF UploadCommit, SetTrackFile, Names, Stores
      <3>3. CASE \E ts \in SUBSET Tracks :
                   storageKey' = [v \in Tracks |-> IF v \in ts THEN None ELSE storageKey[v]]
        BY <1>1, <2>2, <3>3 DEF Names
      <3> QED BY <1>1, <3>1, <3>2, <3>3, NamesStep
    <2>3. ASSUME NEW q \in Requests, Stores(q, k)' PROVE FALSE
      <3>1. CASE UploadPut(q)
        <4>1. PICK d \in Keys : d \notin used /\ req'[q].key = d
          BY <3>1, PutStep
        <4> QED BY <1>1, <2>3, <4>1 DEF Stores
      <3>2. CASE ~UploadPut(q)
        <4>1. Stores(q, k)
          BY <2>3, <3>2, StoresStep DEF Stores
        <4> QED BY <1>1, <4>1
      <3> QED BY <3>1, <3>2
    <2> QED BY <2>1, <2>2, <2>3
  <1> SUFFICES ASSUME NEW r \in Requests, req'[r].pc \in {"reading", "stored"}
               PROVE  /\ req'[r].track \in Tracks
                      /\ \A k \in Keys, u \in Tracks :
                           k = req'[r].previousKey /\ u = req'[r].track => Owned(k, u)'
    <2>1. \A r \in Requests : req'[r].previousKey \in Keys \cup {None}
      BY TypeStep DEF Request
    <2> QED BY <2>1 DEF PreviousKeyOwned
  <1>2. CASE /\ req[r].pc \in {"reading", "stored"}
             /\ req'[r].track = req[r].track /\ req'[r].previousKey = req[r].previousKey
    <2>1. PICK u \in Tracks : u = req[r].track
      BY <1>2 DEF PreviousKeyOwned
    <2>2. ASSUME NEW k \in Keys, k = req[r].previousKey PROVE Owned(k, u)'
      <3>1. Owned(k, u)
        BY <1>2, <2>1, <2>2 DEF PreviousKeyOwned
      <3> QED BY <1>1, <3>1
    <2>3. req[r].previousKey \in Keys \cup {None}
      BY DEF Request
    <2> QED BY <1>2, <2>1, <2>2, <2>3
  <1>3. ASSUME NEW t \in Tracks, UploadBegin(r, t)
        PROVE  /\ req'[r].track \in Tracks
               /\ \A k \in Keys, u \in Tracks :
                    k = req'[r].previousKey /\ u = req'[r].track => Owned(k, u)'
    <2>1. /\ req'[r].track = t /\ req'[r].previousKey = storageKey[t]
      BY <1>3 DEF UploadBegin, Begin, IdleRequest
    <2>2. ASSUME NEW k \in Keys, k = storageKey[t] PROVE Owned(k, t)'
      <3>1. Owned(k, t)
        BY <2>2 DEF RowsBacked, StoredOwned, Names, Stores
      <3> QED BY <1>1, <3>1
    <2> QED BY <2>1, <2>2
  <1>4. CASE ~\E t \in Tracks : UploadBegin(r, t)
    <2>1. CASE UploadPut(r)
      BY <1>2, <2>1, PutStep
    <2>2. ASSUME NEW q \in Requests, HandlerStep(q), q # r
          PROVE  req'[r] = req[r]
      BY <2>2, HandlerFrame
    <2>3. ASSUME HandlerStep(r) PROVE UploadPut(r)
      <3>1. req'[r].pc # "stored" => req'[r].pc = "reading"
        OBVIOUS
      <3>2. ASSUME NEW p \in CleanupPCs, NEW ks, GoDelete(r, p, ks) PROVE FALSE
        BY <3>2, GoDeleteFrame DEF CleanupPCs
      <3>3. CASE UploadCommit(r) \/ UploadRefused(r) \/ UploadDBError(r)
                   \/ (\E t \in Tracks : DeleteTrack(r, t)) \/ DeleteArtistCommit(r)
        BY <3>2, <3>3 DEF UploadCommit, UploadRefused, UploadDBError, DeleteTrack,
                          DeleteArtistCommit, CleanupPCs
      <3>4. CASE UploadUndo(r) \/ UploadReplace(r) \/ DeleteTrackObject(r) \/ DeleteArtistObject(r)
        BY <3>2, <3>4 DEF UploadUndo, UploadReplace, DeleteTrackObject, DeleteArtistObject,
                          DeleteDoomed, CleanupPCs
      <3>5. CASE UploadRejected(r) \/ UploadPutLost(r) \/ StreamEnd(r) \/ DeleteArtistAbort(r)
        BY <3>5 DEF UploadRejected, UploadPutLost, StreamEnd, DeleteArtistAbort, Finish, IdleRequest
      <3>6. CASE (\E t \in Tracks : StreamBegin(r, t)) \/ (\E a \in Artists : DeleteArtistLock(r, a))
        <4>1. CASE \E t \in Tracks : StreamBegin(r, t)
          BY <4>1, StreamBeginFrame
        <4>2. CASE \E a \in Artists : DeleteArtistLock(r, a)
          BY <4>2 DEF DeleteArtistLock, Begin, IdleRequest
        <4> QED BY <3>6, <4>1, <4>2
      <3>7. CASE StreamGet(r)
        BY <3>7 DEF StreamGet, Request
      <3> QED BY <1>4, <2>3, <3>3, <3>4, <3>5, <3>6, <3>7 DEF HandlerStep
    <2>4. CASE Tick
      BY <1>2, <2>4 DEF Tick, RequestAges, Request
    <2>5. CASE Crash
      BY <2>5 DEF Crash, IdleRequest
    <2>6. CASE UNCHANGED req
      BY <1>2, <2>6
    <2>7. RowCreation \/ Sweeping \/ UNCHANGED vars => UNCHANGED req
      BY DEF RowCreation, CreateArtist, CreateTrack, Sweeping, vars
    <2> QED BY <1>2, <2>1, <2>2, <2>3, <2>4, <2>5, <2>6, <2>7 DEF Next, Server
  <1> QED BY <1>3, <1>4

\* A handler's tail deletes dead keys only: the point of "row first, then
\* object".
LEMMA DoomedStep ==
  ASSUME IInv, [Next]_vars
  PROVE  DoomedDead'
  <1> USE DEF IInv, TypeInv, TypeOK, BlobTypeOK, CatalogueTypeOK
  <1> SUFFICES ASSUME NEW r \in Requests, req'[r].pc \in CleanupPCs,
                      NEW k \in Keys, k \in req'[r].doomed
               PROVE  Dead(k)'
    <2>1. \A r \in Requests : req'[r].doomed \in SUBSET Keys
      BY TypeStep DEF Request
    <2> QED BY <2>1 DEF DoomedDead, Cleaning
  <1>1. CASE Cleaning(r) /\ req'[r].doomed \subseteq req[r].doomed
    BY <1>1, DeadStays DEF DoomedDead
  <1>2. CASE UNCHANGED req
    BY <1>1, <1>2 DEF Cleaning
  <1>3. ASSUME NEW q \in Requests, HandlerStep(q), q # r PROVE Dead(k)'
    <2>1. req'[r] = req[r]
      BY <1>3, HandlerFrame
    <2> QED BY <1>1, <2>1 DEF Cleaning
  <1>4. ASSUME HandlerStep(r) PROVE Dead(k)'
    <2>1. \A q \in Requests : q # r => req'[q] = req[q]
      BY <1>4, HandlerFrame
    <2>2. ASSUME NEW p \in CleanupPCs, DeleteDoomed(r, p) PROVE Dead(k)'
      <3>1. PICK d : d \in req[r].doomed /\ GoDelete(r, p, req[r].doomed \ {d})
        BY <2>2 DEF DeleteDoomed
      <3>2. req'[r].doomed \subseteq req[r].doomed
        BY <3>1, GoDeleteFrame
      <3> QED BY <1>1, <2>2, <3>2 DEF DeleteDoomed, Cleaning
    <2>3. CASE UploadUndo(r) \/ UploadReplace(r) \/ DeleteTrackObject(r) \/ DeleteArtistObject(r)
      BY <2>2, <2>3 DEF UploadUndo, UploadReplace, DeleteTrackObject, DeleteArtistObject, CleanupPCs
    <2>4. CASE UploadCommit(r)
      <3>1. /\ req[r].pc = "stored"
            /\ storageKey' = [storageKey EXCEPT ![req[r].track] = req[r].key]
            /\ UNCHANGED blobVars
            /\ req'[r].pc \in {"idle", "replace"}
            /\ req'[r].doomed \in {{}, {req[r].previousKey} \ {None, req[r].key}}
        BY <2>4, GoDeleteFrame DEF UploadCommit, SetTrackFile
      <3>2. k = req[r].previousKey /\ k # req[r].key
        BY <3>1
      <3>3. k \in used'
        BY <3>1, <3>2 DEF PreviousKeyOwned, blobVars
      <3>4. \A t \in Tracks : ~Names(t, k)'
        BY <3>1, <3>2 DEF PreviousKeyOwned, Names
      <3>5. \A q \in Requests : ~Stores(q, k)'
        BY <2>1, <3>1, <3>2 DEF PreviousKeyOwned, Stores
      <3> QED BY <3>3, <3>4, <3>5 DEF Dead
    <2>5. CASE UploadRefused(r) \/ UploadDBError(r)
      <3>1. /\ req[r].pc = "stored" /\ UNCHANGED <<blobVars, catalogueVars>>
            /\ req'[r].pc \in {"idle", "undo"} /\ req'[r].doomed \in {{}, {req[r].key}}
        BY <2>5, GoDeleteFrame DEF UploadRefused, UploadDBError
      <3>2. k = req[r].key
        BY <3>1
      <3> QED
        BY <2>1, <3>1, <3>2 DEF Dead, Names, Stores, StoredOwned, RowsBacked, blobVars, catalogueVars
    <2>6. ASSUME NEW t \in Tracks, DeleteTrack(r, t) PROVE Dead(k)'
      <3>1. /\ storageKey' = [u \in Tracks |-> IF u \in {t} THEN None ELSE storageKey[u]]
            /\ UNCHANGED blobVars
            /\ req'[r].pc \in {"idle", "trackGone"} /\ req'[r].doomed \in {{}, KeysOf({t})}
        BY <2>6, GoDeleteFrame DEF DeleteTrack, DeleteTrackRow, RemoveTrackRows
      <3>2. k = storageKey[t]
        BY <3>1 DEF KeysOf
      <3>3. \A u \in Tracks : ~Names(u, k)'
        BY <3>1, <3>2 DEF Names, RowsBacked
      <3>4. \A q \in Requests : ~Stores(q, k)'
        BY <2>1, <3>1, <3>2 DEF Stores, StoredOwned
      <3> QED BY <3>1, <3>2, <3>3, <3>4 DEF Dead, RowsBacked, blobVars
    <2>7. CASE DeleteArtistCommit(r)
      <3>1. /\ req[r].pc = "artistLocked"
            /\ storageKey' = [u \in Tracks |->
                                IF u \in TracksOf(req[r].artist) THEN None ELSE storageKey[u]]
            /\ UNCHANGED blobVars
            /\ req'[r].pc \in {"idle", "artistGone"} /\ req'[r].doomed \in {{}, req[r].doomed}
        BY <2>7, GoDeleteFrame DEF DeleteArtistCommit, DeleteArtistRow, RemoveTrackRows
      <3>2. k \in req[r].doomed
        BY <3>1
      <3>3. \A t \in Tracks : ~Names(t, k)'
        BY <3>1, <3>2 DEF LockedKeys, Names, RowsHoldKeys, TracksOf, LiveTracks
      <3>4. \A q \in Requests : ~Stores(q, k)'
        BY <2>1, <3>1, <3>2 DEF LockedKeys, Stores
      <3> QED BY <3>1, <3>2, <3>3, <3>4 DEF Dead, LockedKeys, blobVars
    <2>8. CASE \E t \in Tracks : UploadBegin(r, t) \/ StreamBegin(r, t)
      <3>1. ASSUME NEW t \in Tracks, UploadBegin(r, t) PROVE req'[r].pc = "reading"
        BY <3>1 DEF UploadBegin, Begin, IdleRequest
      <3> QED BY <2>8, <3>1, StreamBeginFrame DEF CleanupPCs
    <2>9. CASE UploadRejected(r) \/ UploadPutLost(r) \/ StreamEnd(r) \/ DeleteArtistAbort(r)
      BY <2>9 DEF UploadRejected, UploadPutLost, StreamEnd, DeleteArtistAbort, Finish,
                  IdleRequest, CleanupPCs
    <2>10. CASE UploadPut(r)
      BY <2>10, PutStep DEF CleanupPCs
    <2>11. CASE (\E a \in Artists : DeleteArtistLock(r, a)) \/ StreamGet(r)
      <3>1. ASSUME NEW a \in Artists, DeleteArtistLock(r, a) PROVE req'[r].pc = "artistLocked"
        BY <3>1 DEF DeleteArtistLock, Begin, IdleRequest
      <3>2. StreamGet(r) => req'[r].pc \in {"serving", "notFound"}
        BY DEF StreamGet, Request
      <3> QED BY <2>11, <3>1, <3>2 DEF CleanupPCs
    <2> QED BY <1>4, <2>3, <2>4, <2>5, <2>6, <2>7, <2>8, <2>9, <2>10, <2>11 DEF HandlerStep
  <1>5. CASE Tick
    BY <1>1, <1>5 DEF Tick, RequestAges, Cleaning, CleanupPCs
  <1>6. CASE Crash
    BY <1>6 DEF Crash, IdleRequest, CleanupPCs
  <1>7. RowCreation \/ Sweeping \/ UNCHANGED vars => UNCHANGED req
    BY DEF RowCreation, CreateArtist, CreateTrack, Sweeping, vars
  <1> QED BY <1>2, <1>3, <1>4, <1>5, <1>6, <1>7 DEF Next, Server

LEMMA LockedStep ==
  ASSUME IInv, [Next]_vars
  PROVE  LockedKeys'
  <1> USE DEF IInv, TypeInv, TypeOK, BlobTypeOK, CatalogueTypeOK
  <1> DEFINE Held(r, a, k) ==
        /\ k \in used
        /\ \A t \in Tracks : Names(t, k) => rowLock[t] = r /\ artistOf[t] = a
        /\ \A q \in Requests : ~Stores(q, k)
  <1> SUFFICES ASSUME NEW r \in Requests, req'[r].pc = "artistLocked"
               PROVE  /\ req'[r].artist \in Artists
                      /\ \A a \in Artists, k \in Keys :
                           a = req'[r].artist /\ k \in req'[r].doomed => Held(r, a, k)'
    <2>1. \A r \in Requests : req'[r].doomed \in SUBSET Keys
      BY TypeStep DEF Request
    <2> QED BY <2>1 DEF LockedKeys
  <1>1. ASSUME NEW a \in Artists, DeleteArtistLock(r, a)
        PROVE  /\ req'[r].artist \in Artists
               /\ \A b \in Artists, k \in Keys :
                    b = req'[r].artist /\ k \in req'[r].doomed => Held(r, b, k)'
    <2>1. /\ req'[r].artist = a /\ req'[r].doomed = KeysOf(TracksOf(a))
          /\ req'[r].pc = "artistLocked"
      BY <1>1 DEF DeleteArtistLock, Begin, IdleRequest
    <2>2. /\ rowLock' = [t \in Tracks |-> IF t \in TracksOf(a) THEN r ELSE rowLock[t]]
          /\ UNCHANGED <<storageKey, artistOf, blobVars>>
      BY <1>1 DEF DeleteArtistLock, LockTracksOf
    <2>3. \A q \in Requests : q # r => req'[q] = req[q]
      BY <1>1 DEF DeleteArtistLock, Begin
    <2>4. ASSUME NEW k \in Keys, k \in KeysOf(TracksOf(a)) PROVE Held(r, a, k)'
      <3>1. PICK t \in Tracks : t \in TracksOf(a) /\ storageKey[t] = k
        BY <2>4 DEF KeysOf, TracksOf, LiveTracks
      <3>2. k \in used'
        BY <2>2, <3>1 DEF RowsBacked, blobVars
      <3>3. ASSUME NEW u \in Tracks, Names(u, k)' PROVE (rowLock[u] = r /\ artistOf[u] = a)'
        <4>1. u = t
          BY <2>2, <3>1, <3>3 DEF Names, RowsBacked
        <4> QED BY <2>2, <3>1, <4>1 DEF TracksOf
      <3>4. \A q \in Requests : ~Stores(q, k)'
        BY <2>1, <2>3, <3>1 DEF Stores, StoredOwned
      <3> QED BY <3>2, <3>3, <3>4
    <2> HIDE DEF Held
    <2> QED BY <2>1, <2>4
  <1>2. CASE req'[r] = req[r] /\ ~Crash
    <2>1. req[r].pc = "artistLocked" /\ req[r].artist \in Artists
      BY <1>2 DEF LockedKeys
    <2>2. ASSUME NEW k \in Keys, k \in req[r].doomed, NEW a \in Artists, a = req[r].artist
          PROVE  Held(r, a, k)'
      <3>1. Held(r, a, k)
        BY <2>1, <2>2 DEF LockedKeys
      <3>2. k \in used'
        BY <3>1, BucketStep, PutStep DEF blobVars, Delete, Put, Tick, BlobsAge
      <3>3. ASSUME NEW q \in Requests, Stores(q, k)' PROVE FALSE
        <4>1. CASE UploadPut(q)
          <5>1. PICK d \in Keys : d \notin used /\ req'[q].key = d
            BY <4>1, PutStep
          <5> QED BY <3>1, <3>3, <5>1 DEF Stores
        <4>2. CASE ~UploadPut(q)
          <5>1. Stores(q, k)
            BY <3>3, <4>2, StoresStep DEF Stores
          <5> QED BY <3>1, <5>1
        <4> QED BY <4>1, <4>2
      <3>4. ASSUME NEW t \in Tracks, Names(t, k)' PROVE Names(t, k)
        <4>1. ASSUME NEW q \in Requests, UploadCommit(q) PROVE Names(t, k)
          BY <3>1, <3>4, <4>1 DEF UploadCommit, SetTrackFile, Names, Stores
        <4>2. CASE \E ts \in SUBSET Tracks :
                     storageKey' = [v \in Tracks |-> IF v \in ts THEN None ELSE storageKey[v]]
          BY <3>4, <4>2 DEF Names
        <4> QED BY <3>4, <4>1, <4>2, NamesStep DEF Names
      <3>5. ASSUME NEW t \in Tracks, Names(t, k), rowLock[t] = r, artistOf[t] = a
            PROVE  rowLock'[t] = r /\ artistOf'[t] = a
        <4>1. trackRow[t] = "live"
          BY <3>5 DEF Names, RowsHoldKeys
        <4>2. ASSUME NEW b \in Artists, CreateArtist(b) \/ \E u \in Tracks : CreateTrack(u, b)
              PROVE  rowLock'[t] = r /\ artistOf'[t] = a
          BY <3>5, <4>1, <4>2 DEF CreateTrack, CreateArtist, InsertTrack, InsertArtist
        <4>3. CASE RowCreation
          BY <4>2, <4>3 DEF RowCreation
        <4>4. ASSUME NEW q \in Requests, HandlerStep(q)
              PROVE  rowLock'[t] = r /\ artistOf'[t] = a
          <5>1. CASE UNCHANGED <<rowLock, artistOf>>
            BY <3>5, <5>1
          <5>2. ASSUME NEW b \in Artists, DeleteArtistLock(q, b)
                PROVE  rowLock'[t] = r /\ artistOf'[t] = a
            BY <3>5, <5>2 DEF DeleteArtistLock, LockTracksOf
          <5>3. CASE DeleteArtistCommit(q) \/ DeleteArtistAbort(q)
            <6>1. q # r
              <7>1. DeleteArtistCommit(r) => req'[r].pc \in {"idle", "artistGone"}
                BY GoDeleteFrame DEF DeleteArtistCommit
              <7>2. DeleteArtistAbort(r) => req'[r].pc = "idle"
                BY DEF DeleteArtistAbort, Finish, IdleRequest
              <7> QED BY <5>3, <7>1, <7>2
            <6> QED BY <3>5, <5>3, <6>1 DEF DeleteArtistCommit, DeleteArtistAbort, Rollback,
                                            DeleteArtistRow, RemoveTrackRows, Unlocked
          <5>4. CASE UploadUndo(q) \/ UploadReplace(q) \/ DeleteTrackObject(q) \/ DeleteArtistObject(q)
            BY <5>1, <5>4 DEF UploadUndo, UploadReplace, DeleteTrackObject, DeleteArtistObject,
                              DeleteDoomed, catalogueVars
          <5>5. CASE \E u \in Tracks : UploadBegin(q, u) \/ DeleteTrack(q, u) \/ StreamBegin(q, u)
            BY <5>1, <5>5 DEF UploadBegin, StreamBegin, DeleteTrack, DeleteTrackRow,
                              RemoveTrackRows, catalogueVars
          <5>6. CASE UploadRejected(q) \/ UploadPut(q) \/ UploadPutLost(q) \/ UploadCommit(q)
                       \/ UploadRefused(q) \/ UploadDBError(q) \/ StreamGet(q) \/ StreamEnd(q)
            BY <5>1, <5>6 DEF UploadRejected, UploadPut, UploadPutLost, UploadCommit, SetTrackFile,
                              UploadRefused, UploadDBError, StreamGet, StreamEnd, catalogueVars
          <5> QED BY <4>4, <5>2, <5>3, <5>4, <5>5, <5>6 DEF HandlerStep
        <4>5. CASE Sweeping \/ Tick \/ UNCHANGED vars
          BY <3>5, <4>5 DEF Tick, vars, catalogueVars, Sweeping, SweepStep, SweepList,
                  SweepReadKeys, SweepCutoff, SweepDelete, SweepDeleteFails, SweepDeletesDone,
                  SweepStat, SweepStatFails, SweepReport, SweepExit
        <4> QED BY <1>2, <4>3, <4>4, <4>5 DEF Next, Server
      <3> QED BY <3>1, <3>2, <3>3, <3>4, <3>5
    <2> HIDE DEF Held
    <2> QED BY <1>2, <2>1, <2>2
  <1>3. CASE \A a \in Artists : ~DeleteArtistLock(r, a)
    <2>1. ASSUME HandlerStep(r) PROVE FALSE
      <3>1. ASSUME NEW p \in CleanupPCs, NEW ks, GoDelete(r, p, ks) PROVE FALSE
        BY <3>1, GoDeleteFrame DEF CleanupPCs
      <3>2. CASE UploadCommit(r) \/ UploadRefused(r) \/ UploadDBError(r)
                   \/ (\E t \in Tracks : DeleteTrack(r, t)) \/ DeleteArtistCommit(r)
        BY <3>1, <3>2 DEF UploadCommit, UploadRefused, UploadDBError, DeleteTrack,
                          DeleteArtistCommit, CleanupPCs
      <3>3. CASE UploadUndo(r) \/ UploadReplace(r) \/ DeleteTrackObject(r) \/ DeleteArtistObject(r)
        BY <3>1, <3>3 DEF UploadUndo, UploadReplace, DeleteTrackObject, DeleteArtistObject,
                          DeleteDoomed, CleanupPCs
      <3>4. CASE UploadRejected(r) \/ UploadPutLost(r) \/ StreamEnd(r) \/ DeleteArtistAbort(r)
        BY <3>4 DEF UploadRejected, UploadPutLost, StreamEnd, DeleteArtistAbort, Finish, IdleRequest
      <3>5. CASE \E t \in Tracks : UploadBegin(r, t) \/ StreamBegin(r, t)
        <4>1. ASSUME NEW t \in Tracks, UploadBegin(r, t) PROVE req'[r].pc = "reading"
          BY <4>1 DEF UploadBegin, Begin, IdleRequest
        <4> QED BY <3>5, <4>1, StreamBeginFrame
      <3>6. CASE UploadPut(r)
        BY <3>6, PutStep
      <3>7. CASE StreamGet(r)
        BY <3>7 DEF StreamGet, Request
      <3> QED BY <1>3, <2>1, <3>2, <3>3, <3>4, <3>5, <3>6, <3>7 DEF HandlerStep
    <2>2. ASSUME NEW q \in Requests, HandlerStep(q), q # r PROVE req'[r] = req[r]
      BY <2>2, HandlerFrame
    <2>3. ~Crash
      BY DEF Crash, IdleRequest
    <2>4. Tick => req'[r] = req[r]
      BY DEF Tick, RequestAges, Request
    <2>5. RowCreation \/ Sweeping \/ UNCHANGED vars => UNCHANGED req
      BY DEF RowCreation, CreateArtist, CreateTrack, Sweeping, vars
    <2>6. req'[r] = req[r]
      BY <2>1, <2>2, <2>3, <2>4, <2>5 DEF Next, Server
    <2> QED BY <1>2, <2>3, <2>6
  <1> QED BY <1>1, <1>3

\* The one place where the grace period counts: what the catalogue read
\* missed is younger than the cutoff.
LEMMA SweepStepInformed ==
  ASSUME IInv, [Next]_vars, GraceCoversUpload
  PROVE  SweepsInformed'
  <1> USE DEF IInv, TypeInv, TypeOK, BlobTypeOK, CatalogueTypeOK
  <1> DEFINE Bound == ReadTimeout + CommitDelay
             Young(s) ==
               sweep[s].pc = "keysRead" =>
                 /\ sweep[s].clock <= ReadGap
                 /\ \A t \in Tracks : storageKey[t] \in sweep[s].listed \ sweep[s].refs =>
                      age[storageKey[t]] <= Bound + sweep[s].clock
             Small(s) ==
               /\ sweep[s].listed \subseteq used
               /\ sweep[s].pc \notin {"listed", "keysRead"} => sweep[s].listed \subseteq sweep[s].orphaned
               /\ sweep[s].pc \in {"listed", "idle"} => sweep[s].clock = 0
               /\ \A k \in sweep[s].orphaned : Dead(k)
  <1>1. used \subseteq used'
    BY BucketStep, PutStep DEF blobVars, Delete, Put, Tick, BlobsAge
  <1>2. \A k \in Keys : Dead(k) => Dead(k)'
    BY DeadStays
  <1>3. \A s \in Sweepers : Young(s) /\ Small(s) /\ sweep[s] \in Sweep
    BY DEF SweepsInformed
  <1> SUFFICES ASSUME NEW s \in Sweepers
               PROVE  Young(s)' /\ Small(s)'
    BY DEF SweepsInformed
  <1>4. \A k \in sweep[s].orphaned : Dead(k)'
    BY <1>2, <1>3 DEF Sweep
  \* The sweep stands still: only the catalogue and the bucket move.
  <1>5. ASSUME sweep'[s] = sweep[s], ~Tick PROVE Young(s)' /\ Small(s)'
    <2>1. Small(s)'
      BY <1>1, <1>3, <1>4, <1>5
    <2>2. ASSUME sweep[s].pc = "keysRead", NEW t \in Tracks,
                 storageKey'[t] \in sweep[s].listed \ sweep[s].refs
          PROVE  age'[storageKey'[t]] <= Bound + sweep[s].clock
      <3>1. PICK k \in Keys : k = storageKey'[t]
        BY <2>2 DEF Sweep
      <3>2. sweep[s].clock \in Nat
        BY DEF Sweep
      <3>3. k \in used /\ age[k] <= Bound + sweep[s].clock /\ ~Dead(k)
        <4>1. CASE Names(t, k)
          BY <1>3, <2>2, <3>1, <4>1 DEF Names, Dead
        <4>2. ASSUME ~Names(t, k), NEW r \in Requests, UploadCommit(r)
              PROVE  k \in used /\ age[k] <= Bound + sweep[s].clock /\ ~Dead(k)
          <5>1. req[r].key = k /\ req[r].pc = "stored"
            BY <3>1, <4>2 DEF UploadCommit, SetTrackFile, Names
          <5>2. age[k] <= ReadTimeout + req[r].clock /\ req[r].clock <= CommitDelay /\ k \in used
            BY <5>1 DEF StoredOwned, RowsBacked
          <5>3. req[r].clock \in Nat /\ age[k] \in Nat
            BY DEF Request
          <5> QED BY <3>2, <5>1, <5>2, <5>3 DEF Dead, Stores
        <4>3. CASE UNCHANGED storageKey
          BY <3>1, <4>1, <4>3 DEF Names
        <4>4. CASE \E ts \in SUBSET Tracks :
                     storageKey' = [v \in Tracks |-> IF v \in ts THEN None ELSE storageKey[v]]
          BY <3>1, <4>1, <4>4 DEF Names
        <4> QED BY <4>1, <4>2, <4>3, <4>4, NamesStep
      <3>4. age'[k] = age[k]
        <4>1. CASE UNCHANGED blobVars
          BY <4>1 DEF blobVars
        <4>2. CASE \E d \in Keys : Delete(d) /\ Dead(d)
          BY <3>3, <4>2 DEF Delete
        <4>3. ASSUME NEW q \in Requests, UploadPut(q) PROVE age'[k] = age[k]
          <5>1. PICK d \in Keys : d \notin used /\ \E c \in Contents : \E a : Put(d, c, a)
            BY <4>3, PutStep
          <5> QED BY <3>3, <5>1 DEF Put
        <4> QED BY <1>5, <4>1, <4>2, <4>3, BucketStep
      <3> QED BY <3>1, <3>3, <3>4
    <2> QED BY <1>3, <1>5, <2>1, <2>2
  <1>6. CASE Tick
    <2>1. /\ UNCHANGED <<storageKey, used>>
          /\ age' = [k \in Keys |-> IF k \in objects THEN Older(age[k]) ELSE age[k]]
          /\ sweep'[s] = SweepAges(sweep[s])
          /\ sweep[s].pc = "keysRead" => sweep[s].clock < ReadGap
      BY <1>6 DEF Tick, BlobsAge, catalogueVars
    <2>2. CASE sweep[s].pc = "keysRead"
      <3>1. /\ sweep'[s].pc = "keysRead" /\ sweep'[s].clock = sweep[s].clock + 1
            /\ sweep'[s].listed = sweep[s].listed /\ sweep'[s].refs = sweep[s].refs
            /\ sweep'[s].orphaned = sweep[s].orphaned
        BY <2>1, <2>2 DEF SweepAges, Sweep
      <3>2. sweep[s].clock \in Nat
        BY DEF Sweep
      <3>3. \A k \in Keys : age'[k] <= age[k] + 1 /\ age[k] \in Nat /\ age'[k] \in Nat
        BY <2>1 DEF Older
      <3>4. ASSUME NEW t \in Tracks, storageKey[t] \in sweep[s].listed \ sweep[s].refs
            PROVE  age'[storageKey[t]] <= Bound + (sweep[s].clock + 1)
        <4>1. storageKey[t] \in Keys
          BY <3>4 DEF Sweep
        <4>2. age[storageKey[t]] <= Bound + sweep[s].clock
          BY <1>3, <2>2, <3>4
        <4> QED BY <3>2, <3>3, <4>1, <4>2
      <3>5. Young(s)'
        <4>1. sweep'[s].clock <= ReadGap
          BY <2>1, <2>2, <3>1, <3>2
        <4>2. ASSUME NEW t \in Tracks, storageKey'[t] \in sweep'[s].listed \ sweep'[s].refs
              PROVE  age'[storageKey'[t]] <= Bound + sweep'[s].clock
          BY <2>1, <3>1, <3>4, <4>2
        <4> QED BY <4>1, <4>2
      <3>6. Small(s)'
        BY <1>1, <1>3, <1>4, <2>2, <3>1
      <3> QED BY <3>5, <3>6
    <2>3. CASE sweep[s].pc # "keysRead"
      BY <1>1, <1>3, <1>4, <2>1, <2>3 DEF SweepAges
    <2> QED BY <2>2, <2>3
  <1>7. ASSUME NEW q \in Sweepers, SweepStep(q), q # s PROVE sweep'[s] = sweep[s]
    BY <1>7 DEF SweepStep, SweepList, SweepReadKeys, SweepCutoff, SweepDelete, SweepDeleteFails,
           SweepDeletesDone, SweepStat, SweepStatFails, SweepReport, SweepExit
  <1>8. ASSUME SweepStep(s), UNCHANGED req PROVE Young(s)' /\ Small(s)'
    <2>1. ASSUME NEW dry \in BOOLEAN, SweepList(s, dry) PROVE Young(s)' /\ Small(s)'
      <3>1. /\ sweep'[s].pc = "listed" /\ sweep'[s].listed = objects
            /\ sweep'[s].orphaned = {} /\ sweep'[s].clock = 0
        BY <2>1 DEF SweepList, IdleSweep
      <3>2. objects \subseteq used'
        BY <1>1 DEF RowsBacked
      <3> QED BY <3>1, <3>2
    <2>2. CASE SweepReadKeys(s)
      <3>1. /\ sweep[s].pc = "listed" /\ UNCHANGED <<blobVars, catalogueVars>>
            /\ sweep'[s] = [sweep[s] EXCEPT !.pc = "keysRead", !.refs = RefKeys]
        BY <2>2 DEF SweepReadKeys
      <3>2. /\ sweep'[s].pc = "keysRead" /\ sweep'[s].refs = RefKeys
            /\ sweep'[s].listed = sweep[s].listed /\ sweep'[s].clock = sweep[s].clock
            /\ sweep'[s].orphaned = sweep[s].orphaned
        BY <3>1 DEF Sweep
      <3>3. \A t \in Tracks : storageKey[t] \in Keys => storageKey[t] \in RefKeys
        BY DEF RefKeys, LiveTracks, RowsHoldKeys
      <3>4. sweep'[s].clock = 0
        BY <1>3, <3>1, <3>2
      <3>5. \A t \in Tracks : storageKey'[t] \notin sweep'[s].listed \ sweep'[s].refs
        BY <3>1, <3>2, <3>3 DEF catalogueVars, Sweep
      <3>6. Young(s)'
        BY <3>4, <3>5
      <3>7. Small(s)'
        BY <1>1, <1>3, <1>4, <3>2
      <3> QED BY <3>6, <3>7
    <2>3. CASE SweepCutoff(s)
      <3>1. PICK vanished \in SUBSET (sweep[s].listed \ (sweep[s].refs \cup objects)),
                 old \in SUBSET Keys :
              /\ old = vanished \cup {k \in (sweep[s].listed \ sweep[s].refs) \cap objects : PastGrace(k)}
              /\ sweep'[s] = [sweep[s] EXCEPT !.pc = "deleting",
                                   !.orphaned = old,
                                   !.listed = IF sweep[s].dryRun THEN {} ELSE old,
                                   !.refs = sweep[s].refs \ sweep[s].listed,
                                   !.clock = 0]
        <4>1. PICK vanished \in SUBSET (sweep[s].listed \ (sweep[s].refs \cup objects)) :
                LET old == vanished \cup {k \in (sweep[s].listed \ sweep[s].refs) \cap objects : PastGrace(k)}
                IN  sweep' = [sweep EXCEPT ![s] =
                         [@ EXCEPT !.pc = "deleting",
                                   !.orphaned = old,
                                   !.listed = IF sweep[s].dryRun THEN {} ELSE old,
                                   !.refs = sweep[s].refs \ sweep[s].listed,
                                   !.clock = 0]]
          BY <2>3 DEF SweepCutoff
        <4>2. vanished \cup {k \in (sweep[s].listed \ sweep[s].refs) \cap objects : PastGrace(k)}
                \in SUBSET Keys
          BY <4>1 DEF Sweep
        <4> QED BY <4>1, <4>2
      <3>2. /\ sweep[s].pc = "keysRead" /\ UNCHANGED <<blobVars, catalogueVars, req>>
        BY <1>8, <2>3 DEF SweepCutoff
      <3>3. sweep'[s].pc = "deleting" /\ sweep'[s].orphaned = old /\ sweep'[s].listed \subseteq old
        BY <3>1 DEF Sweep
      <3>4. ASSUME NEW k \in Keys, k \in old PROVE Dead(k)
        <4>1. k \in sweep[s].listed /\ k \notin sweep[s].refs /\ k \in used
          BY <1>3, <3>1, <3>4
        <4>2. CASE k \notin objects
          BY <4>1, <4>2 DEF Dead, Names, Stores, RowsBacked, StoredOwned
        <4>3. CASE k \in objects
          <5>1. age[k] >= Grace /\ age[k] \in Nat
            BY <3>1, <3>4, <4>3 DEF PastGrace
          <5>2. ASSUME NEW t \in Tracks, Names(t, k) PROVE FALSE
            <6>1. age[k] <= Bound + sweep[s].clock /\ sweep[s].clock <= ReadGap
              BY <1>3, <3>2, <4>1, <5>2 DEF Names
            <6>2. sweep[s].clock \in Nat
              BY DEF Sweep
            <6> QED BY <5>1, <6>1, <6>2 DEF GraceCoversUpload
          <5>3. ASSUME NEW r \in Requests, Stores(r, k) PROVE FALSE
            <6>1. age[k] <= ReadTimeout + req[r].clock /\ req[r].clock <= CommitDelay
              BY <5>3 DEF StoredOwned, Stores
            <6>2. req[r].clock \in Nat
              BY DEF Request
            <6> QED BY <5>1, <6>1, <6>2 DEF GraceCoversUpload
          <5> QED BY <4>1, <5>2, <5>3 DEF Dead
        <4> QED BY <4>2, <4>3
      <3>5. \A k \in old : k \in Keys /\ Dead(k)'
        BY <1>2, <3>1, <3>4
      <3>6. old \subseteq used'
        BY <3>5 DEF Dead
      <3> QED BY <3>3, <3>5, <3>6
    <2>4. ASSUME NEW k \in Keys, SweepDelete(s, k) \/ SweepDeleteFails(s, k)
          PROVE  Young(s)' /\ Small(s)'
      <3>1. /\ sweep[s].pc = "deleting" /\ sweep'[s].pc = "deleting"
            /\ sweep'[s].listed \subseteq sweep[s].listed
            /\ sweep'[s].orphaned = sweep[s].orphaned
        BY <2>4 DEF SweepDelete, SweepDeleteFails, Sweep
      <3> QED BY <1>1, <1>3, <1>4, <3>1
    <2>5. CASE \/ SweepDeletesDone(s) \/ SweepReport(s)
               \/ \E k \in Keys : SweepStat(s, k) \/ SweepStatFails(s, k)
      <3>1. /\ sweep[s].pc \in {"deleting", "stat"} /\ sweep'[s].pc \in {"stat", "done"}
            /\ sweep'[s].listed = sweep[s].listed /\ sweep'[s].orphaned = sweep[s].orphaned
        <4>1. CASE SweepDeletesDone(s) \/ SweepReport(s)
          BY <4>1 DEF SweepDeletesDone, SweepReport, Sweep
        <4>2. ASSUME NEW k \in Keys, SweepStat(s, k) \/ SweepStatFails(s, k)
              PROVE  /\ sweep[s].pc = "stat" /\ sweep'[s].pc = "stat"
                     /\ sweep'[s].listed = sweep[s].listed
                     /\ sweep'[s].orphaned = sweep[s].orphaned
          BY <4>2 DEF SweepStat, SweepStatFails, Sweep
        <4> QED BY <2>5, <4>1, <4>2
      <3> QED BY <1>1, <1>3, <1>4, <3>1
    <2>6. CASE SweepExit(s)
      BY <2>6 DEF SweepExit, IdleSweep
    <2> HIDE DEF Young, Small
    <2> QED BY <1>8, <2>1, <2>2, <2>3, <2>4, <2>5, <2>6 DEF SweepStep
  <1>9. CASE Server \/ Crash \/ UNCHANGED vars
    <2>1. UNCHANGED sweep
      BY <1>9 DEF Server, Crash, vars
    <2> HIDE DEF Young, Small
    <2> QED BY <1>5, <1>6, <2>1
  <1>10. CASE Sweeping
    <2> HIDE DEF Young, Small
    <2> QED BY <1>5, <1>6, <1>7, <1>8, <1>10 DEF Sweeping
  <1> HIDE DEF Young, Small
  <1> QED BY <1>6, <1>9, <1>10 DEF Next

-----------------------------------------------------------------------------
LEMMA InvStep ==
  ASSUME IInv, [Next]_vars, GraceCoversUpload
  PROVE  IInv'
  <1>1. TypeInv'
    BY TypeStep DEF IInv
  <1> QED
    BY <1>1, RowsStep, RowsHoldKeysStep, StoredStep, PreviousStep, DoomedStep, LockedStep,
       SweepStepInformed DEF IInv

LEMMA InvInit == Init => IInv
  <1> SUFFICES ASSUME Init PROVE IInv
    OBVIOUS
  <1>1. TypeInv
    BY IdleIsRequest, IdleIsSweep
       DEF Init, BlobInit, CatalogueInit, RequestsInit, SweepsInit, TypeInv, TypeOK,
           StoredTyped, BlobTypeOK, CatalogueTypeOK, RowStatus
  <1>2. /\ \A r \in Requests : req[r].pc = "idle" /\ req[r].doomed = {}
        /\ \A s \in Sweepers : /\ sweep[s].pc = "idle" /\ sweep[s].listed = {}
                              /\ sweep[s].orphaned = {} /\ sweep[s].clock = 0
    BY DEF Init, RequestsInit, SweepsInit, IdleRequest, IdleSweep
  <1>3. objects = {} /\ \A t \in Tracks : storageKey[t] = None
    BY DEF Init, BlobInit, CatalogueInit
  <1> QED
    BY <1>1, <1>2, <1>3 DEF IInv, RowsHoldKeys, RowsBacked, StoredOwned, PreviousKeyOwned,
       DoomedDead, Cleaning, CleanupPCs, LockedKeys, SweepsInformed

LEMMA InvAlways ==
  ASSUME GraceCoversUpload
  PROVE  Spec => []IInv
  <1>1. IInv /\ [Next]_vars => IInv'
    BY InvStep
  <1> QED BY <1>1, InvInit, PTL DEF Spec

-----------------------------------------------------------------------------
LEMMA InvImpliesSafety ==
  ASSUME IInv
  PROVE  NoBrokenTrack /\ CleanupOnlyUnreferenced /\ OrphanReportSound
  <1>1. NoBrokenTrack
    BY DEF NoBrokenTrack, RefKeys, LiveTracks, IInv, RowsBacked
  <1>2. CleanupOnlyUnreferenced
    BY DEF CleanupOnlyUnreferenced, RefKeys, LiveTracks, IInv, DoomedDead, Dead, Names
  <1>3. OrphanReportSound
    BY DEF OrphanReportSound, RefKeys, LiveTracks, IInv, SweepsInformed, Dead, Names, Stores
  <1> QED BY <1>1, <1>2, <1>3

\* No upload, re-upload, delete, crash, failed call or sweep ever leaves a row
\* whose object is gone, provided the grace period exceeds the upload's read
\* deadline, the delay of its commit and the sweep's own delay together.
THEOREM TracksNeverBroken ==
  ASSUME GraceCoversUpload
  PROVE  Spec => []NoBrokenTrack
  <1>1. IInv => NoBrokenTrack
    BY InvImpliesSafety
  <1> QED BY <1>1, InvAlways, PTL

\* What a handler deletes after its commit, or after a failed SetTrackFile
\* whose failure was real, is referenced by no row.
THEOREM CleanupIsSafe ==
  ASSUME GraceCoversUpload
  PROVE  Spec => []CleanupOnlyUnreferenced
  <1>1. IInv => CleanupOnlyUnreferenced
    BY InvImpliesSafety
  <1> QED BY <1>1, InvAlways, PTL

\* A sweep beside a live server reports as orphaned only objects that no row
\* and no upload in flight will ever need.
THEOREM OrphansAreOrphans ==
  ASSUME GraceCoversUpload
  PROVE  Spec => []OrphanReportSound
  <1>1. IInv => OrphanReportSound
    BY InvImpliesSafety
  <1> QED BY <1>1, InvAlways, PTL

=============================================================================
