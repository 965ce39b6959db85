----------------------------- MODULE LibraryProofs -----------------------------
(***************************************************************************)
(* Proofs about what clients and operators get from LiveServer: the bytes  *)
(* behind a row and a stream, the report of a sweep, and the refinement of *)
(* AudioLibrary.                                                           *)
(***************************************************************************)
EXTENDS LiveServerProofs

USE GraceAssumption, ReadTimeoutAssumption, DelayAssumption,
    MediaNoneAssumption, CatalogueNoneAssumption

-----------------------------------------------------------------------------
\* What a step can do to the rows, all three of their fields at a time.
LEMMA RowStep ==
  ASSUME IInv, [Next]_vars
  PROVE  \/ UNCHANGED <<trackRow, storageKey, contentHash>>
         \/ \E r \in Requests : UploadCommit(r) /\ UNCHANGED sweep
         \/ \E ts \in SUBSET Tracks : ts \subseteq LiveTracks /\ RemoveTrackRows(ts)
         \/ \E t \in Tracks, a \in Artists : InsertTrack(t, a)
  <1> DEFINE Goal ==
         \/ UNCHANGED <<trackRow, storageKey, contentHash>>
         \/ \E r \in Requests : UploadCommit(r) /\ UNCHANGED sweep
         \/ \E ts \in SUBSET Tracks : ts \subseteq LiveTracks /\ RemoveTrackRows(ts)
         \/ \E t \in Tracks, a \in Artists : InsertTrack(t, a)
  <1> SUFFICES Goal
    OBVIOUS
  <1>1. CASE UNCHANGED <<trackRow, storageKey, contentHash>>
    BY <1>1
  <1>2. ASSUME NEW r \in Requests, HandlerStep(r), UNCHANGED sweep PROVE Goal
    <2>1. CASE UploadCommit(r)
      BY <1>2, <2>1
    <2>2. ASSUME NEW t \in Tracks, DeleteTrack(r, t) PROVE Goal
      <3>1. RemoveTrackRows({t}) /\ {t} \subseteq LiveTracks
        BY <2>2 DEF DeleteTrack, DeleteTrackRow, LiveTracks
      <3>2. {t} \in SUBSET Tracks
        OBVIOUS
      <3> HIDE DEF Goal
      <3> QED BY <3>1, <3>2 DEF Goal
    <2>3. CASE DeleteArtistCommit(r)
      <3>1. RemoveTrackRows(TracksOf(req[r].artist))
        BY <2>3 DEF DeleteArtistCommit, DeleteArtistRow
      <3>2. TracksOf(req[r].artist) \in SUBSET Tracks /\ TracksOf(req[r].artist) \subseteq LiveTracks
        BY DEF TracksOf, LiveTracks
      <3> QED BY <3>1, <3>2
    <2>4. CASE UploadUndo(r) \/ UploadReplace(r) \/ DeleteTrackObject(r) \/ DeleteArtistObject(r)
      BY <1>1, <2>4 DEF UploadUndo, UploadReplace, DeleteTrackObject, DeleteArtistObject,
                        DeleteDoomed, catalogueVars
    <2>5. CASE \E t \in Tracks : UploadBegin(r, t) \/ StreamBegin(r, t)
      BY <1>1, <2>5 DEF UploadBegin, StreamBegin, catalogueVars
    <2>6. CASE UploadRejected(r) \/ UploadPut(r) \/ UploadPutLost(r) \/ UploadRefused(r)
                 \/ UploadDBError(r) \/ StreamGet(r) \/ StreamEnd(r)
      BY <1>1, <2>6 DEF UploadRejected, UploadPut, UploadPutLost, UploadRefused, UploadDBError,
                        StreamGet, StreamEnd, catalogueVars
    <2>7. CASE (\E a \in Artists : DeleteArtistLock(r, a)) \/ DeleteArtistAbort(r)
      BY <1>1, <2>7 DEF DeleteArtistLock, DeleteArtistAbort, LockTracksOf, Rollback
    <2> HIDE DEF Goal
    <2> QED BY <1>2, <2>1, <2>2, <2>3, <2>4, <2>5, <2>6, <2>7 DEF HandlerStep
  <1>3. CASE RowCreation
    <2>1. PICK a \in Artists : CreateArtist(a) \/ \E t \in Tracks : CreateTrack(t, a)
      BY <1>3 DEF RowCreation
    <2>2. CASE CreateArtist(a)
      BY <1>1, <2>2 DEF CreateArtist, InsertArtist
    <2>3. ASSUME NEW t \in Tracks, CreateTrack(t, a) PROVE Goal
      <3>1. InsertTrack(t, a)
        BY <2>3 DEF CreateTrack
      <3> QED BY <3>1
    <2> HIDE DEF Goal
    <2> QED BY <2>1, <2>2, <2>3
  <1>4. CASE Sweeping \/ Tick \/ Crash \/ UNCHANGED vars
    <2>1. UNCHANGED <<trackRow, storageKey, contentHash>>
      BY <1>4 DEF Tick, Crash, vars, catalogueVars, Sweeping, SweepStep, SweepList,
                  SweepReadKeys, SweepCutoff, SweepDelete, SweepDeleteFails, SweepDeletesDone,
                  SweepStat, SweepStatFails, SweepReport, SweepExit
    <2> QED BY <1>1, <2>1
  <1> HIDE DEF Goal
  <1> QED BY <1>2, <1>3, <1>4 DEF Next, Server

\* Behind a generated key the bytes never change, and do not come back.
LEMMA KeyStep ==
  ASSUME IInv, [Next]_vars, NEW k \in Keys, k \in used
  PROVE  /\ k \in used'
         /\ k \in objects' => k \in objects /\ content'[k] = content[k]
  <1> USE DEF IInv, TypeInv, TypeOK, BlobTypeOK
  <1>1. CASE UNCHANGED blobVars
    BY <1>1 DEF blobVars
  <1>2. CASE \E d \in Keys : Delete(d)
    BY <1>2 DEF Delete
  <1>3. CASE \E r \in Requests : UploadPut(r)
    <2>1. PICK d \in Keys : d \notin used /\ \E c \in Contents : \E a : Put(d, c, a)
      BY <1>3, PutStep
    <2> QED BY <2>1 DEF Put
  <1>4. CASE Tick
    BY <1>4 DEF Tick, BlobsAge
  <1> QED BY <1>1, <1>2, <1>3, <1>4, BucketStep

LEMMA HoldsStays ==
  ASSUME IInv, [Next]_vars, NEW k \in Keys, NEW h, Holds(k, h)
  PROVE  k \in used' /\ (k \in objects' => content'[k] = h)
  BY KeyStep DEF Holds

LEMMA GoneStays ==
  ASSUME IInv, [Next]_vars, NEW k \in Keys, Gone(k)
  PROVE  Gone(k)'
  BY KeyStep DEF Gone

-----------------------------------------------------------------------------
LEMMA RowsDescribedStep ==
  ASSUME IInv, [Next]_vars, RowsDescribed, UploadsDescribed
  PROVE  RowsDescribed'
  <1> USE DEF IInv, TypeInv, TypeOK, CatalogueTypeOK
  <1> DEFINE Kept(t) == storageKey'[t] = storageKey[t] /\ contentHash'[t] = contentHash[t]
             Bare(t) == storageKey'[t] = None /\ contentHash'[t] = None
             Backed(t) == storageKey'[t] # None =>
                            /\ storageKey'[t] \in used'
                            /\ storageKey'[t] \in objects' =>
                                 content'[storageKey'[t]] = contentHash'[t]
  <1>1. ASSUME NEW t \in Tracks, Kept(t) PROVE Backed(t)
    BY <1>1, HoldsStays DEF RowsDescribed
  <1>2. CASE \A t \in Tracks : Kept(t) \/ Bare(t)
    <2>1. \A t \in Tracks : Backed(t)
      BY <1>1, <1>2
    <2> QED BY <1>2, <2>1 DEF RowsDescribed, Holds
  <1>3. ASSUME NEW r \in Requests, UploadCommit(r) PROVE RowsDescribed'
    <2> DEFINE T == req[r].track
    <2>1. /\ T \in Tracks /\ req[r].key \in Keys /\ req[r].hash \in Contents
          /\ Holds(req[r].key, req[r].hash)
      BY <1>3 DEF UploadCommit, PreviousKeyOwned, StoredTyped, UploadsDescribed
    <2>2. /\ storageKey' = [storageKey EXCEPT ![T] = req[r].key]
          /\ contentHash' = [contentHash EXCEPT ![T] = req[r].hash]
          /\ UNCHANGED blobVars
          /\ HashFree(T, req[r].hash)
      BY <1>3 DEF UploadCommit, SetTrackFile
    <2>3. \A t \in Tracks : t # T => Kept(t) /\ contentHash[t] # req[r].hash
      BY <2>1, <2>2 DEF HashFree, LiveTracks, RowsHoldKeys, RowsDescribed
    <2>4. \A t \in Tracks : Backed(t)
      BY <1>1, <2>1, <2>2, <2>3 DEF Holds, blobVars
    <2> QED BY <2>1, <2>2, <2>3, <2>4 DEF RowsDescribed, Holds
  <1>4. CASE UNCHANGED <<storageKey, contentHash>>
    BY <1>2, <1>4
  <1>5. ASSUME NEW ts \in SUBSET Tracks, RemoveTrackRows(ts) PROVE \A t \in Tracks : Kept(t) \/ Bare(t)
    BY <1>5 DEF RemoveTrackRows
  <1>6. ASSUME NEW t \in Tracks, NEW a \in Artists, InsertTrack(t, a)
        PROVE  UNCHANGED <<storageKey, contentHash>>
    BY <1>6 DEF InsertTrack
  <1> HIDE DEF Kept, Bare
  <1> QED BY <1>2, <1>3, <1>4, <1>5, <1>6, RowStep

LEMMA UploadsDescribedStep ==
  ASSUME IInv, [Next]_vars, UploadsDescribed
  PROVE  UploadsDescribed'
  <1> USE DEF IInv, TypeInv, TypeOK
  <1> SUFFICES ASSUME NEW r \in Requests, (req[r].pc = "stored")'
               PROVE  req'[r].hash \in Contents /\ Holds(req[r].key, req[r].hash)'
    BY DEF UploadsDescribed
  <1>1. CASE UploadPut(r)
    <2>1. PICK k \in Keys, c \in Contents : /\ req'[r].key = k /\ req'[r].hash = c
                                           /\ \E a : Put(k, c, a)
      BY <1>1, PutStep
    <2> QED BY <2>1 DEF Put, Holds, BlobTypeOK
  <1>2. CASE req[r].pc = "stored" /\ req'[r].key = req[r].key /\ req'[r].hash = req[r].hash
    <2>1. req[r].key \in Keys /\ req[r].hash \in Contents /\ Holds(req[r].key, req[r].hash)
      BY <1>2 DEF StoredTyped, UploadsDescribed
    <2> QED BY <1>2, <2>1, HoldsStays DEF Holds
  <1> QED BY <1>1, <1>2, StoresStep

\* How a stream comes to where it stands.
LEMMA StreamStep ==
  ASSUME IInv, [Next]_vars, NEW r \in Requests, (req[r].pc \in {"opening", "serving", "notFound"})'
  PROVE  \/ req'[r] = req[r]
         \/ \E t \in Tracks : StreamBegin(r, t)
         \/ StreamGet(r)
  <1> USE DEF IInv, TypeInv, TypeOK
  <1>1. ASSUME NEW q \in Requests, HandlerStep(q), UNCHANGED sweep
        PROVE  req'[r] = req[r] \/ (\E t \in Tracks : StreamBegin(r, t)) \/ StreamGet(r)
    <2>1. CASE q # r
      BY <1>1, <2>1, HandlerFrame
    <2> SUFFICES ASSUME q = r, ~StreamGet(r), \A t \in Tracks : ~StreamBegin(r, t)
                 PROVE  FALSE
      BY <2>1
    <2>2. CASE \E p \in CleanupPCs : \E ks : GoDelete(r, p, ks)
      BY <2>2, GoDeleteFrame DEF CleanupPCs
    <2>3. CASE UploadPut(r)
      BY <2>3, PutStep
    <2>4. CASE \E t \in Tracks : UploadBegin(r, t)
      BY <2>4 DEF UploadBegin, Begin, IdleRequest
    <2>5. CASE UploadRejected(r) \/ UploadPutLost(r) \/ StreamEnd(r) \/ DeleteArtistAbort(r)
      BY <2>5 DEF UploadRejected, UploadPutLost, StreamEnd, DeleteArtistAbort, Finish, IdleRequest
    <2>6. CASE \E a \in Artists : DeleteArtistLock(r, a)
      BY <2>6 DEF DeleteArtistLock, Begin, IdleRequest
    <2>7. CASE UploadCommit(r) \/ UploadRefused(r) \/ UploadDBError(r)
                 \/ (\E t \in Tracks : DeleteTrack(r, t)) \/ DeleteArtistCommit(r)
      BY <2>2, <2>7 DEF UploadCommit, UploadRefused, UploadDBError, DeleteTrack,
                        DeleteArtistCommit, CleanupPCs
    <2>8. CASE UploadUndo(r) \/ UploadReplace(r) \/ DeleteTrackObject(r) \/ DeleteArtistObject(r)
      BY <2>2, <2>8 DEF UploadUndo, UploadReplace, DeleteTrackObject, DeleteArtistObject,
                        DeleteDoomed, CleanupPCs
    <2> QED BY <1>1, <2>3, <2>4, <2>5, <2>6, <2>7, <2>8 DEF HandlerStep
  <1>2. CASE Tick
    BY <1>2 DEF Tick, RequestAges, Request
  <1>3. CASE Crash
    BY <1>3 DEF Crash, IdleRequest
  <1>4. CASE RowCreation \/ Sweeping \/ UNCHANGED vars
    BY <1>4 DEF RowCreation, CreateArtist, CreateTrack, Sweeping, vars
  <1> QED BY <1>1, <1>2, <1>3, <1>4 DEF Next, Server

LEMMA StreamsDescribedStep ==
  ASSUME IInv, [Next]_vars, RowsDescribed, StreamsDescribed
  PROVE  StreamsDescribed'
  <1> USE DEF IInv, TypeInv, TypeOK
  <1> SUFFICES ASSUME NEW r \in Requests, (req[r].pc \in {"opening", "serving", "notFound"})'
               PROVE  /\ req'[r].pc \in {"opening", "serving"} => Holds(req[r].key, req[r].hash)'
                      /\ req'[r].pc = "notFound" => Gone(req[r].key)'
    BY DEF StreamsDescribed
  <1>1. CASE req'[r] = req[r]
    <2>1. ASSUME req[r].pc \in {"opening", "serving"} PROVE Holds(req[r].key, req[r].hash)'
      <3>1. Holds(req[r].key, req[r].hash)
        BY <2>1 DEF StreamsDescribed
      <3>2. req[r].key \in Keys
        BY <3>1 DEF Holds, BlobTypeOK
      <3> QED BY <1>1, <3>1, <3>2, HoldsStays DEF Holds
    <2>2. ASSUME req[r].pc = "notFound" PROVE Gone(req[r].key)'
      <3>1. Gone(req[r].key)
        BY <2>2 DEF StreamsDescribed
      <3>2. req[r].key \in Keys
        BY <3>1 DEF Gone, BlobTypeOK
      <3> QED BY <1>1, <3>1, <3>2, GoneStays DEF Gone
    <2> QED BY <1>1, <2>1, <2>2
  <1>2. ASSUME NEW t \in Tracks, StreamBegin(r, t)
        PROVE  req'[r].pc = "opening" /\ Holds(req[r].key, req[r].hash)'
    <2>1. Holds(storageKey[t], contentHash[t])
      BY <1>2 DEF StreamBegin, RowsDescribed
    <2> QED BY <1>2, <2>1, StreamBeginFrame DEF Holds, StreamBegin, blobVars
  <1>3. CASE StreamGet(r)
    <2>1. /\ req'[r].pc = IF Exists(req[r].key) THEN "serving" ELSE "notFound"
          /\ req'[r].key = req[r].key /\ req'[r].hash = req[r].hash
          /\ UNCHANGED blobVars
      BY <1>3 DEF StreamGet, Request
    <2>2. Holds(req[r].key, req[r].hash)
      BY <1>3 DEF StreamGet, StreamsDescribed
    <2> QED BY <2>1, <2>2 DEF Holds, Gone, Exists, blobVars
  <1> QED BY <1>1, <1>2, <1>3, StreamStep

LEMMA SweepsConcludeStep ==
  ASSUME IInv, [Next]_vars, SweepsConclude
  PROVE  SweepsConclude'
  <1> USE DEF IInv, TypeInv, TypeOK, BlobTypeOK, CatalogueTypeOK
  <1> DEFINE Facts(s) ==
               /\ sweep[s].refs \subseteq used
               /\ \A k \in sweep[s].missing : Gone(k)
               /\ sweep[s].pc \in {"idle", "listed", "keysRead"} => sweep[s].missing = {} /\ ~sweep[s].failed
               /\ sweep[s].pc \in {"stat", "done"} => sweep[s].listed = {}
             Reclaimed(s) ==
               sweep[s].pc \in {"deleting", "stat", "done"} /\ ~sweep[s].dryRun /\ ~sweep[s].failed
                 => \A k \in sweep[s].orphaned \ sweep[s].listed : Gone(k)
  <1>1. used \subseteq used'
    BY BucketStep, PutStep DEF blobVars, Delete, Put, Tick, BlobsAge
  <1>2. \A k \in Keys : Gone(k) => Gone(k)'
    BY GoneStays
  <1>3. \A s \in Sweepers : Facts(s) /\ Reclaimed(s) /\ sweep[s] \in Sweep
    BY DEF SweepsConclude
  <1> SUFFICES ASSUME NEW s \in Sweepers
               PROVE  Facts(s)' /\ Reclaimed(s)'
    BY DEF SweepsConclude
  <1>4. /\ sweep[s].missing \subseteq Keys /\ sweep[s].orphaned \subseteq Keys
        /\ sweep[s].refs \subseteq Keys /\ sweep[s].listed \subseteq Keys
        /\ \A k \in sweep[s].missing : Gone(k)'
    BY <1>2, <1>3 DEF Sweep
  <1>5. ASSUME /\ sweep'[s].pc = sweep[s].pc /\ sweep'[s].refs = sweep[s].refs
               /\ sweep'[s].missing = sweep[s].missing /\ sweep'[s].failed = sweep[s].failed
               /\ sweep'[s].listed = sweep[s].listed /\ sweep'[s].dryRun = sweep[s].dryRun
               /\ sweep'[s].orphaned = sweep[s].orphaned
        PROVE  Facts(s)' /\ Reclaimed(s)'
    <2>1. Facts(s)'
      BY <1>1, <1>3, <1>4, <1>5
    <2>2. Reclaimed(s)'
      BY <1>2, <1>3, <1>4, <1>5
    <2> QED BY <2>1, <2>2
  <1>6. ASSUME NEW q \in Sweepers, SweepStep(q), q # s PROVE sweep'[s] = sweep[s]
    BY <1>6 DEF SweepStep, SweepList, SweepReadKeys, SweepCutoff, SweepDelete, SweepDeleteFails,
           SweepDeletesDone, SweepStat, SweepStatFails, SweepReport, SweepExit
  <1>7. ASSUME SweepStep(s) PROVE Facts(s)' /\ Reclaimed(s)'
    <2>1. ASSUME NEW dry \in BOOLEAN, SweepList(s, dry) PROVE Facts(s)' /\ Reclaimed(s)'
      BY <2>1 DEF SweepList, IdleSweep
    <2>2. CASE SweepReadKeys(s)
      <3>1. /\ sweep'[s].pc = "keysRead" /\ sweep'[s].refs = RefKeys
            /\ sweep'[s].missing = {} /\ ~sweep'[s].failed
        BY <1>3, <2>2 DEF SweepReadKeys, Sweep
      <3>2. RefKeys \subseteq used
        BY DEF RefKeys, LiveTracks, RowsBacked
      <3> QED BY <1>1, <3>1, <3>2
    <2>3. CASE SweepCutoff(s)
      <3>1. PICK old \in SUBSET Keys :
              sweep'[s] = [sweep[s] EXCEPT !.pc = "deleting",
                                   !.orphaned = old,
                                   !.listed = IF sweep[s].dryRun THEN {} ELSE old,
                                   !.refs = sweep[s].refs \ sweep[s].listed,
                                   !.clock = 0]
        BY ZenonT(40), <2>3 DEF SweepCutoff, Sweep
      <3>2. /\ sweep'[s].pc = "deleting" /\ sweep'[s].orphaned = old
            /\ sweep'[s].refs = sweep[s].refs \ sweep[s].listed
            /\ sweep'[s].missing = {} /\ sweep'[s].dryRun = sweep[s].dryRun
            /\ ~sweep'[s].dryRun => sweep'[s].listed = old
        <4>1. sweep[s].pc = "keysRead"
          BY <2>3 DEF SweepCutoff
        <4> QED BY <1>3, <3>1, <4>1 DEF Sweep
      <3> QED BY <1>1, <1>3, <3>2
    <2>4. ASSUME NEW k \in Keys, SweepDelete(s, k) PROVE Facts(s)' /\ Reclaimed(s)'
      <3>1. /\ sweep[s].pc = "deleting" /\ sweep'[s].pc = "deleting"
            /\ sweep'[s].listed = sweep[s].listed \ {k}
            /\ sweep'[s].refs = sweep[s].refs /\ sweep'[s].missing = sweep[s].missing
            /\ sweep'[s].failed = sweep[s].failed /\ sweep'[s].dryRun = sweep[s].dryRun
            /\ sweep'[s].orphaned = sweep[s].orphaned
            /\ k \in sweep[s].listed
            /\ k \notin objects'
        BY <2>4 DEF SweepDelete, Delete, Sweep
      <3>2. Gone(k)'
        BY <1>1, <3>1 DEF Gone, SweepsInformed
      <3>3. Facts(s)'
        BY <1>1, <1>3, <1>4, <3>1
      <3>4. Reclaimed(s)'
        BY <1>2, <1>3, <1>4, <3>1, <3>2
      <3> QED BY <3>3, <3>4
    <2>5. ASSUME NEW k \in Keys, SweepDeleteFails(s, k) PROVE Facts(s)' /\ Reclaimed(s)'
      <3>1. /\ sweep[s].pc = "deleting" /\ sweep'[s].pc = "deleting" /\ sweep'[s].failed
            /\ sweep'[s].refs = sweep[s].refs /\ sweep'[s].missing = sweep[s].missing
        BY <2>5 DEF SweepDeleteFails, Sweep
      <3> QED BY <1>1, <1>3, <1>4, <3>1
    <2>6. CASE SweepDeletesDone(s) \/ SweepReport(s)
      <3>1. /\ sweep[s].pc \in {"deleting", "stat"} /\ sweep'[s].pc \in {"stat", "done"}
            /\ sweep[s].listed = {} /\ sweep'[s].listed = {}
            /\ sweep'[s].refs = sweep[s].refs /\ sweep'[s].missing = sweep[s].missing
            /\ sweep'[s].failed = sweep[s].failed /\ sweep'[s].dryRun = sweep[s].dryRun
            /\ sweep'[s].orphaned = sweep[s].orphaned
        BY <1>3, <2>6 DEF SweepDeletesDone, SweepReport, Sweep
      <3>2. Facts(s)'
        BY <1>1, <1>3, <1>4, <3>1
      <3>3. Reclaimed(s)'
        BY <1>2, <1>3, <1>4, <3>1
      <3> QED BY <3>2, <3>3
    <2>7. ASSUME NEW k \in Keys, SweepStat(s, k) \/ SweepStatFails(s, k)
          PROVE  Facts(s)' /\ Reclaimed(s)'
      <3>1. /\ sweep[s].pc = "stat" /\ sweep'[s].pc = "stat"
            /\ sweep'[s].listed = sweep[s].listed
            /\ sweep'[s].refs \subseteq sweep[s].refs
            /\ sweep'[s].missing = sweep[s].missing
                 \/ (sweep'[s].missing = sweep[s].missing \cup {k} /\ k \notin objects)
            /\ sweep'[s].failed = sweep[s].failed \/ sweep'[s].failed
            /\ sweep'[s].dryRun = sweep[s].dryRun
            /\ sweep'[s].orphaned = sweep[s].orphaned
            /\ k \in sweep[s].refs
            /\ UNCHANGED blobVars
        <4>1. CASE SweepStat(s, k)
          BY <4>1 DEF SweepStat, Exists, Sweep
        <4>2. CASE SweepStatFails(s, k)
          BY <4>2 DEF SweepStatFails, Sweep
        <4> QED BY <2>7, <4>1, <4>2
      <3>2. k \notin objects => Gone(k)'
        BY <1>3, <3>1 DEF Gone, blobVars
      <3>3. Facts(s)'
        BY <1>1, <1>3, <1>4, <3>1, <3>2
      <3>4. Reclaimed(s)'
        BY <1>2, <1>3, <1>4, <3>1
      <3> QED BY <3>3, <3>4
    <2>8. CASE SweepExit(s)
      BY <2>8 DEF SweepExit, IdleSweep
    <2> HIDE DEF Facts, Reclaimed
    <2> QED BY <1>7, <2>1, <2>2, <2>3, <2>4, <2>5, <2>6, <2>7, <2>8 DEF SweepStep
  <1>8. CASE Tick
    BY <1>5, <1>8 DEF Tick, SweepAges, Sweep
  <1>9. CASE Server \/ Crash \/ UNCHANGED vars
    BY <1>5, <1>9 DEF Server, Crash, vars
  <1>10. CASE Sweeping
    BY <1>5, <1>6, <1>7, <1>10 DEF Sweeping
  <1> HIDE DEF Facts, Reclaimed
  <1> QED BY <1>8, <1>9, <1>10 DEF Next

-----------------------------------------------------------------------------
LEMMA ContentInit == Init => ContentInv
  <1> SUFFICES ASSUME Init PROVE ContentInv
    OBVIOUS
  <1>1. \A r \in Requests : req[r].pc = "idle"
    BY DEF Init, RequestsInit, IdleRequest
  <1>2. \A s \in Sweepers : /\ sweep[s].pc = "idle" /\ sweep[s].refs = {}
                            /\ sweep[s].missing = {} /\ ~sweep[s].failed
    BY DEF Init, SweepsInit, IdleSweep
  <1>3. \A t \in Tracks : storageKey[t] = None /\ contentHash[t] = None
    BY DEF Init, CatalogueInit
  <1> QED BY <1>1, <1>2, <1>3 DEF ContentInv, RowsDescribed, UploadsDescribed,
                                  StreamsDescribed, SweepsConclude

LEMMA ContentAlways ==
  ASSUME GraceCoversUpload
  PROVE  Spec => [](IInv /\ ContentInv)
  <1>1. IInv /\ ContentInv /\ [Next]_vars => (IInv /\ ContentInv)'
    BY InvStep, RowsDescribedStep, UploadsDescribedStep, StreamsDescribedStep,
       SweepsConcludeStep DEF ContentInv
  <1>2. Init => IInv /\ ContentInv
    BY InvInit, ContentInit
  <1> QED BY <1>1, <1>2, PTL DEF Spec

LEMMA ContentImpliesSafety ==
  ASSUME IInv, ContentInv
  PROVE  /\ RowDescribesObject /\ StreamMatchesETag /\ NotFoundIsStale
         /\ SweepReclaims /\ MissingIsAbsent
  <1>1. RowDescribesObject
    <2>1. ASSUME NEW t \in LiveTracks, storageKey[t] # None
          PROVE  content[storageKey[t]] = contentHash[t]
      BY <2>1 DEF LiveTracks, IInv, RowsBacked, ContentInv, RowsDescribed, Holds
    <2>2. ASSUME NEW t \in LiveTracks, storageKey[t] # None, NEW u \in LiveTracks \ {t}
          PROVE  contentHash[u] # contentHash[t]
      BY <2>2 DEF LiveTracks, ContentInv, RowsDescribed
    <2> QED BY <2>1, <2>2 DEF RowDescribesObject
  <1>2. StreamMatchesETag
    BY DEF StreamMatchesETag, Exists, ContentInv, StreamsDescribed, Holds
  <1>3. NotFoundIsStale
    BY InvImpliesSafety DEF NotFoundIsStale, NoBrokenTrack, ContentInv, StreamsDescribed, Gone
  <1>4. SweepReclaims
    BY DEF SweepReclaims, ContentInv, SweepsConclude, Gone
  <1>5. MissingIsAbsent
    BY DEF MissingIsAbsent, ContentInv, SweepsConclude, Gone
  <1> QED BY <1>1, <1>2, <1>3, <1>4, <1>5

\* The content_hash of a track's row, which is the stream's ETag and the
\* dedup index's entry, is the hash of the bytes its storage_key leads to, and
\* no other row has it, through every re-upload, delete, crash and sweep.
THEOREM RowsDescribeObjects ==
  ASSUME GraceCoversUpload
  PROVE  Spec => []RowDescribesObject
  <1>1. IInv /\ ContentInv => RowDescribesObject
    BY ContentImpliesSafety
  <1> QED BY <1>1, ContentAlways, PTL

\* A stream that has read its row sends the bytes its ETag names or, once the
\* object is gone, none: nothing replaces an object under a reader.
THEOREM StreamsMatchTheirETag ==
  ASSUME GraceCoversUpload
  PROVE  Spec => []StreamMatchesETag
  <1>1. IInv /\ ContentInv => StreamMatchesETag
    BY ContentImpliesSafety
  <1> QED BY <1>1, ContentAlways, PTL

\* StreamTrack answers 404 for a file only when the row it read has been
\* deleted or re-uploaded since: the file a row names now is never missing.
THEOREM NotFoundOnlyWhenStale ==
  ASSUME GraceCoversUpload
  PROVE  Spec => []NotFoundIsStale
  <1>1. IInv /\ ContentInv => NotFoundIsStale
    BY ContentImpliesSafety
  <1> QED BY <1>1, ContentAlways, PTL

\* A sweep that deletes for real and reports no error leaves none of the
\* objects it reports as orphaned, whatever the server did meanwhile.
THEOREM SweepsReclaim ==
  ASSUME GraceCoversUpload
  PROVE  Spec => []SweepReclaims
  <1>1. IInv /\ ContentInv => SweepReclaims
    BY ContentImpliesSafety
  <1> QED BY <1>1, ContentAlways, PTL

\* A key a sweep reports as missing has no object, and never will have one.
THEOREM MissingAreAbsent ==
  ASSUME GraceCoversUpload
  PROVE  Spec => []MissingIsAbsent
  <1>1. IInv /\ ContentInv => MissingIsAbsent
    BY ContentImpliesSafety
  <1> QED BY <1>1, ContentAlways, PTL

-----------------------------------------------------------------------------
(***************************************************************************)
(* The refinement of AudioLibrary.  With the two invariants a track's      *)
(* audio is what its row says, so only the steps of RowStep can change it. *)
(***************************************************************************)
PlainAudio(t) == IF trackRow[t] = "live" THEN contentHash[t] ELSE trackRow[t]

Plain == \A t \in Tracks : Audio(t) = PlainAudio(t)

LEMMA AudioIsPlain == IInv /\ ContentInv => Plain
  <1> SUFFICES ASSUME IInv, ContentInv, NEW t \in Tracks
               PROVE  Audio(t) = PlainAudio(t)
    BY DEF Plain
  <1>1. CASE trackRow[t] = "live" /\ storageKey[t] # None
    BY <1>1 DEF Audio, PlainAudio, Exists, IInv, RowsBacked, ContentInv, RowsDescribed, Holds
  <1>2. CASE trackRow[t] = "live" /\ storageKey[t] = None
    BY <1>2 DEF Audio, PlainAudio, ContentInv, RowsDescribed
  <1>3. CASE trackRow[t] # "live"
    BY <1>3 DEF Audio, PlainAudio
  <1> QED BY <1>1, <1>2, <1>3

\* A row that is live has audio or silence; one that is not has neither.
LEMMA LiveIsAudible ==
  ASSUME IInv, NEW t \in Tracks
  PROVE  /\ trackRow[t] = "live" => PlainAudio(t) \in Contents \cup {None}
         /\ trackRow[t] # "live" => PlainAudio(t) \in {"unborn", "gone"}
  BY DEF PlainAudio, IInv, TypeInv, TypeOK, CatalogueTypeOK, RowStatus

LEMMA LibraryStep ==
  ASSUME IInv, ContentInv, Plain, Plain', [Next]_vars
  PROVE  [Library!LibraryNext]_([t \in Tracks |-> Audio(t)])
  <1> USE DEF IInv, TypeInv, TypeOK, CatalogueTypeOK
  <1> DEFINE lib == [t \in Tracks |-> PlainAudio(t)]
  <1>1. [t \in Tracks |-> Audio(t)] = lib
    BY DEF Plain
  <1>2. [t \in Tracks |-> Audio(t)]' = lib'
    BY DEF Plain
  <1>3. CASE UNCHANGED <<trackRow, storageKey, contentHash>>
    BY <1>1, <1>2, <1>3 DEF PlainAudio
  <1>4. ASSUME NEW r \in Requests, UploadCommit(r) PROVE Library!LibraryNext
    <2> DEFINE T == req[r].track
               h == req[r].hash
    <2>1. T \in Tracks /\ h \in Contents
      BY <1>4 DEF UploadCommit, PreviousKeyOwned, ContentInv, UploadsDescribed
    <2>2. /\ trackRow[T] = "live" /\ UNCHANGED trackRow /\ HashFree(T, h)
          /\ contentHash' = [contentHash EXCEPT ![T] = h]
      BY <1>4 DEF UploadCommit, SetTrackFile
    <2>3. lib[T] \in Contents \cup {None}
      BY <2>1, <2>2, LiveIsAudible
    <2>4. \A u \in Tracks \ {T} : lib[u] # h
      BY <2>1, <2>2, LiveIsAudible, StatusAssumption DEF HashFree, LiveTracks, PlainAudio
    <2>5. lib' = [lib EXCEPT ![T] = h]
      BY <2>1, <2>2 DEF PlainAudio
    <2>6. Library!Attach(T, h)
      BY <1>1, <1>2, <2>3, <2>4, <2>5 DEF Library!Attach, Library!Audible
    <2> QED BY <2>1, <2>6 DEF Library!LibraryNext
  <1>5. ASSUME NEW ts \in SUBSET Tracks, ts \subseteq LiveTracks, RemoveTrackRows(ts)
        PROVE  Library!LibraryNext
    <2>1. \A t \in ts : lib[t] \in Contents \cup {None}
      BY <1>5, LiveIsAudible DEF LiveTracks
    <2>2. lib' = [t \in Tracks |-> IF t \in ts THEN "gone" ELSE lib[t]]
      BY <1>5 DEF RemoveTrackRows, PlainAudio
    <2>3. Library!Remove(ts)
      BY <1>1, <1>2, <2>1, <2>2 DEF Library!Remove, Library!Audible
    <2> QED BY <2>3 DEF Library!LibraryNext
  <1>6. ASSUME NEW t \in Tracks, NEW a \in Artists, InsertTrack(t, a) PROVE Library!LibraryNext
    <2>1. trackRow[t] = "unborn" /\ contentHash[t] = None
      BY <1>6 DEF InsertTrack, RowsHoldKeys, ContentInv, RowsDescribed
    <2>2. lib[t] = "unborn" /\ lib' = [lib EXCEPT ![t] = None]
      BY <1>6, <2>1 DEF InsertTrack, PlainAudio
    <2>3. Library!Add(t)
      BY <1>1, <1>2, <2>2 DEF Library!Add
    <2> QED BY <2>3 DEF Library!LibraryNext
  <1> QED BY <1>3, <1>4, <1>5, <1>6, RowStep

LEMMA LibraryStart ==
  ASSUME Init
  PROVE  Library!LibraryInit
  BY DEF Init, CatalogueInit, Audio, Library!LibraryInit

\* Rows, objects, handlers and sweeps together implement the abstract library:
\* to a client a track's audio is added, replaced and removed in single steps,
\* is never broken and is stored once, whatever crashes, retries and sweeps do.
THEOREM ServerImplementsLibrary ==
  ASSUME GraceCoversUpload
  PROVE  Spec => ImplementsLibrary
  <1>1. IInv /\ ContentInv /\ Plain /\ Plain' /\ [Next]_vars
          => [Library!LibraryNext]_([t \in Tracks |-> Audio(t)])
    BY LibraryStep
  <1>2. Init => Library!LibraryInit
    BY LibraryStart
  <1> QED BY <1>1, <1>2, AudioIsPlain, ContentAlways, PTL DEF Spec, ImplementsLibrary, Library!LibrarySpec

=============================================================================
