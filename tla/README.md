# TLA+ models of Mydal

Mydal is a music catalogue and streaming server in Go: HTTP handlers over a
Postgres catalogue and a MinIO bucket of audio objects, with a sweep of
orphaned objects run as a process of its own. Postgres and the bucket share no
transaction, so the interesting correctness of the program is in the order in
which handlers, sweeps and crashes touch the two. These modules model that
core, the playlists, the row locks behind them, the HTTP layer in front, and
the startup of the processes; TLC checks them on small instances and TLAPS
proves the main safety properties for all sizes.

Contents:
[1 the system](#1-the-system) ·
[2 modules and code](#2-modules-and-how-they-correspond-to-the-code) ·
[3 runs](#3-runs) ·
[4 fairness](#4-fairness) ·
[5 proofs](#5-proofs) ·
[6 disagreements with the code's documents](#6-where-the-code-and-its-documents-disagree) ·
[7 limits](#7-what-is-not-modelled) ·
[8 plan](#8-plan)

To run: `tlc -workers 2 -config MCSweep.cfg MCLiveServer`, and
`tlapm LiveServerProofs.tla` (the longest, HttpServerProofs, takes eight minutes).

## 1 The system

| Component | State | Operations | Correct when |
|---|---|---|---|
| Blob store (`internal/storage`) | bucket: key → bytes, LastModified | Put, Get, Stat, List, Delete | an object never changes under its key; Delete is idempotent |
| Catalogue (`internal/repository`, `migrations/*.sql`) | rows of artists, tracks, albums; unique `content_hash`; cascades | create, delete, SetTrackFile, AllStorageKeys | a row with a file has its object; its hash is that of the object; no audio is stored twice |
| Upload, stream, delete (`handlers`, `service`) | one goroutine per request with its locals (previousKey, storageKey, collected keys) | UploadTrackFile, StreamTrack, DeleteTrack, DeleteArtist | cleanup deletes only what nothing names; a stream's bytes are those of its ETag |
| Orphan sweep (`internal/gc`, `-gc`) | listing, referenced keys, report | gc.Sweep | deletes only true orphans; every orphan goes in the end; reports what it failed to do |
| Playlists (`playlistrepo.go`, `trackrepo.go` DeleteTrack) | playlist rows with `updated_at`; membership rows with positions | create, read, delete, add, remove, the renumbering in DeleteTrack | order survives; positions dense; a change shows in the stamp, also to a reader between two statements |
| Albums (`albumrepo.go`) | album rows; `tracks.album_id` | create, read, delete | deleting an album never takes a track along |
| Row locks (`repository`, `migrations/*.sql`) | per transaction the rows it locks and waits for; the connection pool | every writing request, statement by statement | references stay intact; no deadlock the code claims to rule out; nobody waits for the dead |
| HTTP layer (`internal/api`, `internal/httpx`) | per request: response wrappers, request id, log line | routing, recover, logging, JSON errors | exactly one well-formed response per request, logged as sent; a failure is never a success |
| Decoding and validation (`decode.go`, `dto.go`, `validate.go`, services) | none | each handler's checks and conversions | a client's mistake is no 500; what is stored is what was sent and, but for the spelling of ids, what is read back |
| Lifecycle (`cmd/server/main.go`) | process: starting, serving, draining | run, openDB, ensureBucket, serve | nothing works on an incomplete schema; a startup ends |
| Migrations (`migrations/migrations.go`) | schema version, dirty flag, advisory lock | Up | a clean version names exactly the files in effect |
| Health probes | none | Healthz, Readyz | one failed dependency is enough for a 503 |
| Configuration, logging, generated docs, test support | none that changes | | |

How they interact. A handler is a goroutine that calls Postgres and the bucket
in turn; between two calls anything else may happen. Handlers share nothing in
memory: all interaction goes through rows (with their locks) and objects. The
sweep is another process over the same two stores and knows of no handler. All
processes migrate the same schema when they start. Around each handler stand
the middleware and two wrappers of its response writer, which see only the
calls it makes on that writer, and a panic.

What is hard here:

* **Two stores, no transaction.** An upload puts its object, then sets the row,
  then deletes the previous object; deletes remove the row, then the object.
  Any step can fail, or be the last one before a crash.
* **State read early, used late.** `previousKey` is read before the body
  arrives, which may take 15 minutes. DeleteArtist collects keys in one
  statement and deletes rows in another. The sweep's listing, its key set and
  its cutoff are of three different moments. DeleteTrack reads positions before
  it renumbers from them. GetPlaylistByID reads the marker before the list.
* **Time.** The only thing between a slow upload and the sweep is the grace
  period.
* **Row locks and READ COMMITTED.** What a statement sees is what was
  committed when it started; what it locks is what it saw. Half of the locks
  appear nowhere in the code: foreign keys and cascades take them.
* **Unreliable calls.** A delete that fails is logged and not retried; an
  answer can be lost after the commit it would have confirmed.
* **One response, many writers.** A handler, the mux, net/http's file serving
  and the panic guard all write to it, through wrappers that rewrite some of it.
* **Numbers and texts of different widths** in JSON, Go and Postgres.

`PROJECT.json` lists each of these at its line in the code, with the properties
that would catch it going wrong.

## 2 Modules and how they correspond to the code

```
Media ─┬─ BlobStore ──┬─ TrackHandlers ─┐
       └─ Catalogue ──┴─ OrphanSweep  ──┴─ LiveServer ─ LiveServerInv ─┬─ MCLiveServer
                          AudioLibrary <··· refined by ···┘            └─ LiveServerProofs ─ LibraryProofs
PlaylistOrder <··· refined by ··· Playlists ─┬─ MCPlaylists
                                             └─ PlaylistReads ─┬─ MCPlaylistReads
                                                             └─ PlaylistProofs
CatalogueRows ─┬─ RowLocks ─┬─ MCRowLocks
               │      ┊     └─ RowLocksProofs ─ SerialProofs
               │      └··· refines ···┐
               └─ SerialCatalogue <···┘
ResponseWriter ─┬─ HttpServer ─┬─ MCHttpServer
Endpoints ──────┘      ┊       └─ HttpServerProofs
                       └··· refines ···> Exchange
Deployment <··· refined by ··· Lifecycle ─ LifecycleProofs
FiniteNumbers (lemmas) used by PlaylistProofs, RowLocksProofs
```

**BlobStore**: `objects`, `content`, `age` are what MinIO holds. A key has 16
random bytes, so a fresh one is drawn from those never `used`. LastModified is
an age in ticks, capped at the grace period (the only age it is compared with);
an object may be stamped anywhere between the start and the end of its upload,
so `Put` takes the age as a parameter. A body stands for its SHA-256.

**Catalogue**: a row is `unborn`, `live` or `gone` (ids are generated UUIDs, so
a deleted one never returns). A single statement, or a transaction nobody can
see the middle of, is one action. `ArtistRepository.DeleteArtist` is the
transaction that holds row locks while uploads run: `LockTracksOf` is its
`SELECT ... FOR UPDATE`, `DeleteArtistRow` its `DELETE`, cascade and commit,
`Rollback` everything else. `HashFree` is the partial unique index.

**TrackHandlers**: `req[r]` is a handler's goroutine, `pc` where it stands, the
other fields the locals it still needs. There is one action between any two
calls to Postgres or the bucket:
UploadTrackFile is UploadBegin (row read), UploadPut, UploadCommit or
UploadRefused or UploadDBError (three ways SetTrackFile returns), then
UploadReplace or UploadUndo; DeleteTrack its row, then its object; DeleteArtist
lock, commit or abort, then object after object; StreamTrack the row, then Get,
then the body. A path that answers without changing anything (bad id, no row) is
a stuttering step.

**OrphanSweep**: one action per call of `gc.Sweep`: List, the catalogue read,
the cutoff with its split of the listing, each Delete with its failure, each
Stat with its failure, the report; and the process's end at any point.

**LiveServer** composes them and adds `Tick` (time), `Crash` (the server dies
or stops with requests still running when its 30 s are up) and, in `LossySpec`
only, `UploadAckLost`. It states the properties.

**AudioLibrary** is what all this promises a client: each track has audio or
not, changes it in one step, never shows a broken file and never the bytes
of another track. The refinement mapping `Audio(t)` follows row → key → object;
a row whose object is gone maps to `"broken"`, a value AudioLibrary has no
step to.

**Playlists**: `tx[x]` is a transaction, `held` the playlist rows it locks. All
mutations lock the playlist's row first (touchPlaylist, or the locking UPDATE
of DeleteTrack); the actions are split after each lock and each read. The
writes to `playlist_tracks` and the commit are one step, as nobody sees them
before. `inList` and `position` are the membership rows. `updated_at` is kept
as a bit that each stamp flips: whether a change is visible is a question
about one step, and the bit answers it.
`QuietDeletes` and `ArtistDeletes` switch the environment: see the runs.

**PlaylistOrder** is the promise: an order on distinct tracks, in which adding
appends and removing keeps the order of the rest. Positions do not appear in
it; the mapping derives the order from them, so it must survive gaps, too.

**PlaylistReads** puts a client beside Playlists that fetches a playlist
(`GetRow`, then `GetTracks`: two statements, two snapshots) and keeps the copy
with its `updated_at`. Of a marker it keeps only whether it is still the
playlist's current one; a copy whose marker is not is known to be old and is
dropped.

**CatalogueRows** is the catalogue of the next two: rows, what refers to what,
and the jobs of requests.

**RowLocks** is a second view of the database, with less of the data and all of
the locks. A request is a list of statements (`Statements`), each of which
demands locks on rows (`Demand`): what the code asks for, the key-share lock of
every foreign key, the rows of every cascade. `Statement` finds the rows among
those committed, `Grant` takes one lock, `NotFound` is the early return when a
needed row is not there, `Commit` applies what the locks stand for, `Cancel` is
a client that goes away at any point, `DeadlockAbort` is Postgres choosing a
victim. A playlist is kept as the ranks of its tracks, as only the order of
positions matters to locks. Two requests never create the same row, since ids
are generated (`FreshIds`). Unordered statements lock in any order; `First` is
the one `ORDER BY id FOR UPDATE`. `Begin` waits for one of the pool's
connections. A membership that is there already is waited for like the row of
its track.

**SerialCatalogue** is what those requests promise together: each takes effect
at most once, in one step, on the whole catalogue of that moment, and a request
that fails leaves no trace. A delete of an artist takes the artist's albums and
tracks of that moment, those tracks' memberships, and the album off the tracks
of others; it knows of no statements and no locks. RowLocks has to arrive at
the same from what its statements found, one by one, while others committed.

**ResponseWriter**: a response is a record of what is on the wire and of what
the two wrappers remember; each method of `responseRecorder` and
`muxErrorRewriter` is an operator on it, over net/http's own writer, which is
external. A body is the sequence of the pieces written.

**Endpoints**: a handler, with its service and repository, is the sequence of
its stages; a stage is a check of the request, with one result, or a call of
Postgres or the bucket, with several. Values are of the kinds the code tells
apart (an id in the spelling Postgres keeps, in another it takes, in one only
`uuid.Parse` takes, or none), numbers are words that wrap, and the conversions
between request, row and response are operators; a uuid column is one of them
(`Canonical`).

**HttpServer** is one connection: `Arrive` (routing, RequestID), `Step` through
the stages, `Respond` (what the result is answered with, and logged), one
`Write` per call on the writer, `Return` and `Logging`; `Recover` at any point
where a handler may panic, `ObjectReadFails` within an audio body: a fault of
the bucket that nobody logs. The last row created is remembered for a GET that
follows, to compare the two answers.

**Exchange** is what the layer promises: one reply, of one kind of body, whose
code goes with its status; then one log line that says what it was. Two errors
have no code, the 416 and the 412 of a stream (section 6 has the second).

**Lifecycle**: `pc[p]` is a process started as server, `-gc` or
`-migrate-only`, on one database and bucket. The order is that of `run`: openDB,
migrations.Up, ensureBucket, work. What golang-migrate does behind Up is
external and modelled from its contract: the advisory lock (waited for without
limit when newMigrator opens the driver, with a timeout in Up), the dirty flag
around each file, a file in one transaction, which fails
if the file is in effect already, as none of them says IF NOT EXISTS. That no file
takes effect twice rests on that as well; that none is begun a second time is
CleanMeansApplied's.

**Deployment** is what the processes promise together: the migrations take
effect one after another, each once and before anybody works, and once one was
cut short (dirty, with nobody at it) nothing is run and nobody gets to work. The
versions, the lock and the steps of a startup do not show in it.

Definitions whose comment begins with `Mutant` are not part of a
model: each is a plausible bug in the definition that follows it. Putting it in
that definition's place makes the property `PROJECT.json` pairs it with fail,
so every property is known to be able to fail.

## 3 Runs

| Run | Instance | Checks | Shows |
|---|---|---|---|
| live | 2 requests, 2 tracks, 1 artist, 3 keys, 2 bodies, no sweep | TypeOK, NoBrokenTrack, RowDescribesObject, CleanupOnlyUnreferenced, StreamMatchesETag, NotFoundIsStale, ImplementsLibrary | No interleaving of two uploads, deletes and streams, no failing call and no crash breaks a track, hides the file it has, serves bytes under another's ETag or gives two tracks the same audio |
| sweep | 2 requests, 1 track, 2 keys, 1 body, 1 sweep, grace 4, three delays of 1 | NoBrokenTrack, OrphanReportSound, SweepReclaims, MissingIsAbsent | At the shortest grace period the assumption allows, the sweep takes only true orphans and reports honestly |
| reclaim | 1 request, 1 track, 2 keys, 1 sweep | StraysReclaimed (liveness) | Whatever leaves an object behind, repeated sweeps remove it |
| playlists | 1 playlist, 3 tracks, 3 transactions, every race and artist deletes | TypeOK, ImplementsOrder | The order of a playlist's tracks is never disturbed, gaps or not |
| playlist_reads | 2 playlists, one of them read, 3 tracks, 2 transactions, no artist deletes, no add of a track being deleted | ReadTypeOK, Dense, NoDeadlock, MarkerFaithful, ChangeStamped | Within those limits positions are dense, changes are stamped, playlist locks never form a circle, and a client whose marker is the current one has the current list |
| rowlocks | 2 requests of any kind; 2 artists, an album, 2 tracks, 2 playlists in 55 catalogues; 2 connections | TypeOK, ReferencesIntact, OnlyArtistDeletesDeadlock, NoneStuck, NoDeadEnd, TracksOutliveAlbums, ImplementsSerial | Each request takes effect as if it ran alone; references stay intact whatever races, an album's delete spares its tracks, only an artist's delete can deadlock with another request, and nobody waits for a request that has ended |
| http | every route with each field of its request off in turn; 8-bit words | TypeOK, ServerErrorIsOurs, FaultsSurface, ReadsBackAsCreated, StoredAsSent, ImplementsExchange | One well-formed reply and one truthful log line per request, panics and HEAD included; a 500 is the server's own fault but for four known kinds of input (`Slips`); a failure shows to the client; rows survive their conversions, ids in their canonical spelling |
| lifecycle | 3 processes, 2 migrations | TypeOK, LockOnlyWhileMigrating, ReadyForWork, CleanMeansApplied, StartupEnds (liveness), ImplementsDeployment | Nobody works on an incomplete schema, each migration is run once and in order, and no startup hangs behind another, wherever processes are killed |
| ack_lost, artist_phantom, racing_add, duration_wrap | minimal, or that of http; in racing_add no playlist is created with a track being deleted (`CreatesApart`), so that the gap is an AddTrack's | one property each | Counterexamples: section 6 |

Why the bounds are enough:

* Two requests give every pairwise race; no handler waits for two others. A
  third key lets a key be put, replaced and orphaned while another upload
  holds a third; the second body and track are what the unique hash needs.
  Keys, bodies, tracks and requests are only compared for equality, so the
  symmetry sets are sound. For more of anything, the safety properties
  that matter most are proved (section 5).
* In `sweep`, what the sweep concludes of a key concerns that key and the track
  it was put for only; two keys let one be replaced by the other, and tracks
  beside each other are what `live` has. Time matters here. Each delay is one tick and the grace period 4, the
  least that `GraceCoversUpload` (Grace > ReadTimeout + CommitDelay + ReadGap)
  allows, so an off-by-one in the cutoff shows: mutant `PastGraceEarly` does.
  The other runs set ReadTimeout to 0 to keep time out of the way.
* Three transactions are needed for an add and a remove to meet a delete that
  has begun; three tracks for an order to be wrong with one gone; two
  playlists for locks to be taken in two orders. `playlists` and
  `playlist_reads` split these because together they are too large. The client
  reads only the second playlist, to whose lock DeleteTrack comes last.
* A circle of two needs two requests, and every lock a request holds is for one
  of the rows in the instance; two playlists and two tracks in each give every
  pair of lock orders. Longer circles are a matter of proof (section 5), which
  needs `QuietDeletes`: see `trackrepo.go:156` in the hazards.
* In `http`, at most one field of a request is off, so that each check is the
  one to refuse it. `WordMax`, `IntMax` and `Ms` are scaled down (127, 20 and 6
  for 2^63 - 1, 2^31 - 1 and 10^6) with what matters kept: the widest duration
  of the column does not wrap, there are durations beyond it that come out
  negative, too large, and back in range, and all of them are tried. Requests
  on a connection are one after another; what handlers do to each other's data
  is for the other modules.
* Two migrations give a schema that is half way; three processes one that
  waits while another takes over from a killed one.
* Deadlock is checked in every run. There is none: a new request, tick or
  start is always possible; in `rowlocks`, where requests are not repeated,
  `Terminating` is the state in which all are answered. As a client may give up
  there at any time, which hides a wait, `NoneStuck` says without it that
  somebody has nothing to wait for, and `NoDeadEnd` that
  who has nothing to wait for does have a step to take.

## 4 Fairness

Safety runs use `Spec` with none. `FairSpec` of LiveServer assumes:

* `SF(Tick)`: time passes. Tick waits for uploads to settle and for a sweep's
  cutoff, each of which is enabled repeatedly, hence strong.
* `WF(UploadSettles)`: a call of SetTrackFile returns one way or another. Row
  locks are never held across a client's input, so it is not blocked for ever.
* `WF(SweepGoesOn)`: a sweep process that has begun continues or ends. Its loops
  are finite and each call returns or fails.
* `SF` of the sweep's real (not dry-run) steps: nothing in the code starts a
  sweep; `-gc` is for an operator's timer. The assumption is that sweeps are
  run again and again, that not all of them are dry runs or killed before the
  same step, and that a delete tried again and again succeeds in the end. No
  fairness is assumed of any handler's delete: handlers do not retry, which is
  why the sweep exists.

`FairSpec` of Lifecycle: `WF` of a process's startup steps (its calls have
timeouts and migrations end), `SF(LockForTable)` as Postgres queues waiters
of a lock. The other modules state no fairness and no liveness: a request's
statements are finite, and that none waits for ever is `NoneStuck`, a safety
property. Nothing obliges a process to be killed, to be started or to end.

## 5 Proofs

Every theorem is about any values of the constants that the named ASSUMEs allow:
bounds are naturals, `None` is no value of another kind, a request's job
names what it needs (RowLocks), transactions, requests and the tracks they
are about are finite in number (Playlists, RowLocks), an `INTEGER` in
milliseconds is a word in nanoseconds and a request has the fields a decoder
fills in (Endpoints, HttpServer). `LiteralsAssumption` tells the provers that the
ids `Canonical` names are strings. TLC evaluates the ASSUMEs
in every run. Conditions beyond that are hypotheses of the theorem.

| Module | Theorem | Of | Hypothesis |
|---|---|---|---|
| LiveServerProofs | TypeCorrect | TypeOK | |
| | TracksNeverBroken | NoBrokenTrack | GraceCoversUpload |
| | CleanupIsSafe | CleanupOnlyUnreferenced | GraceCoversUpload |
| | OrphansAreOrphans | OrphanReportSound | GraceCoversUpload |
| LibraryProofs | RowsDescribeObjects | RowDescribesObject | GraceCoversUpload |
| | StreamsMatchTheirETag | StreamMatchesETag | GraceCoversUpload |
| | NotFoundOnlyWhenStale | NotFoundIsStale | GraceCoversUpload |
| | SweepsReclaim | SweepReclaims | GraceCoversUpload |
| | MissingAreAbsent | MissingIsAbsent | GraceCoversUpload |
| | ServerImplementsLibrary | ImplementsLibrary | GraceCoversUpload |
| PlaylistProofs | PlaylistTypeCorrect | TypeOK | |
| | NoDeadlocks | NoDeadlock | |
| | PlaylistsImplementOrder | ImplementsOrder | |
| | PositionsStayDense | Dense | Quiet |
| | ChangesAreStamped | ChangeStamped | Quiet |
| | ReadTypeCorrect | ReadTypeOK | Quiet |
| | MarkersAreFaithful | MarkerFaithful | Quiet |
| RowLocksProofs | RowsTypeCorrect | TypeOK | |
| | ReferencesStayIntact | ReferencesIntact | |
| | TracksStay | TracksOutliveAlbums | |
| | OnlyArtistsDeadlock | OnlyArtistDeletesDeadlock | QuietDeletes |
| | NobodyStuck | NoneStuck | |
| SerialProofs | RequestsAreSerial | ImplementsSerial | |
| HttpServerProofs | TypesOK | TypeOK | |
| | ServerErrorsAreOurs | ServerErrorIsOurs | |
| | FaultsAlwaysSurface | FaultsSurface | |
| | ReadsBack | ReadsBackAsCreated | |
| | TracksAreStoredAsSent | StoredAsSent | |
| | ServerImplementsExchange | ImplementsExchange | |
| LifecycleProofs | LifecycleTypeCorrect | TypeOK | |
| | LockIsGivenBack | LockOnlyWhileMigrating | |
| | WorkIsReady | ReadyForWork | |
| | CleanVersionsAreApplied | CleanMeansApplied | |
| | LifecycleImplementsDeployment | ImplementsDeployment | |

`GraceCoversUpload` holds of the code with an hour against 15 minutes as long as
a commit and a catalogue read do not take the other 45, which nothing enforces.
`Quiet` (no artist is deleted, and no track is added to a playlist while it
is being deleted) and `QuietDeletes` (its second half) do not hold of every
client: runs racing_add and playlists have what happens without them.

**The server beside the sweep.** NoBrokenTrack is far from inductive: whether a
delete is safe depends on what every request and sweep remembers. `IInv`
(LiveServerInv) adds the life of a key. A key is *fresh*, then *stored* by
exactly one upload (`StoredOwned`), then *named* by at most one row
(`RowsBacked`), then `Dead`: used, named by no row, stored by no upload. Dead is
for ever, since only an upload that stores a key can have a row name it. What
remains is that everything about to be deleted is dead:

* `DoomedDead` for the handlers' tails; it needs `PreviousKeyOwned` (only the
  upload's own track may name the previous key, so committing kills it) and
  `LockedKeys` (the keys DeleteArtist collected can be named only by rows it
  locks and is about to delete);
* `SweepsInformed` for the sweep: a row that the catalogue read missed was
  committed after it, so its object was put not longer ago than ReadTimeout +
  CommitDelay + the time since the read, hence is younger than the grace period
  at the cutoff.

The proof first says what any step can do to the bucket (`BucketStep`), to what
rows name (`NamesStep`) and to what uploads store (`StoresStep`, `PutStep`), and
that the dead stay dead (`DeadStays`). From these, one lemma per conjunct of
`IInv` shows that a step preserves it, and `InvStep` puts them together.

LibraryProofs goes on from there. Bytes under a generated key are never replaced
(`ContentStays`), so `ContentInv` can relate what was remembered to what is
there now: a row's hash to its object (`RowsDescribed`), an upload's hash to the
object it stores, a stream's ETag to what Get opened, a sweep's conclusions to
keys that are dead. The refinement shows of each action what it does to
`Audio(t)`: SetTrackFile's commit, a track's delete and an artist's are the
abstract changes, and all others, the deletes of objects included, are
stutters because by `IInv` a named key keeps its object.

**Playlists.** `PlaylistInv` adds to the types who holds which row
(`LocksHeld`), that a delete holds smaller ids than it wants (`TxShape`) and that
positions are unique and nil outside a list (`ListsPlaced`). NoDeadlock follows
by size: whoever waits, waits for a playlist beyond all it holds, so around a
circle of waiters the ids only rise, which no finite set allows (`NoEndlessRise`
in FiniteNumbers). The order is derived from unique positions; each write is
shown to append to it, to take one track out of it, or to leave it as it is,
with every race allowed. Dense needs more, and holds only if quiet: the
positions a delete read are still the track's (`ReadsCurrent`), it covers every
playlist the track is in (`DeletesCover`), and nobody adds it meanwhile
(`AddsApart`). `ReadInv` then follows the two snapshots of a reader: if the
marker of the first is still current at the end, no change came between them.

**Row locks.** `RowInv` says what the locks of a statement are for: a
transaction's locks are those its statements ask for (`Asked`); locks on one row
do not conflict and a locked row stays (`LocksGranted`); for the statements whose
finding has to last until the commit, all that could be found *then* is locked
(`AllLocked`: nobody can add a row to an artist whose row is locked for
deletion, as the foreign key's lock conflicts), and rows that are being created
are nobody else's (`JobsGiven`, `NotYetThere`). So what a commit removes takes
every row that refers to it along, and what it adds refers to rows that are
still there: ReferencesIntact. TracksOutliveAlbums needs `OwnTracks`, that the
tracks an artist's delete takes along are its own.

For the deadlocks, `OrderInv` adds the order in which locks are taken. In a
circle of waiting requests without an artist's delete, nobody waits for an
artist's row, as all locks on it there are key-share; nor for a membership, as
those are touched only under the lock of their playlist (`MembersUnder`). That
leaves as holders who wait themselves (`WaitsAndHolds`): requests at the check of
a foreign key, an album's delete clearing its tracks, and a track's delete.
Nobody in the circle bars a foreign key's check of a track, so the first kind is
not in it; and two albums do not clear the same track (`OnItsAlbum`), so neither
is the second. What is left are requests of DeleteTrack, each holding playlists
and waiting for one beyond them (`InOrder`): the ids only rise, and
`NoEndlessRise` ends it. The property is thus proved for circles of any length.
Without QuietDeletes it is not true of them (`ListsLocked` fails first).

NobodyStuck needs none of that. Suppose a request is not answered. If none runs,
there is a connection for it; if one that runs waits for nobody, that one can go
on; otherwise each that runs waits for one that holds a lock, and that one runs,
too (`Standing`): together they are a circle, which Postgres breaks.

**One request after another.** RequestsAreSerial says that READ COMMITTED and
these locks amount to running the requests one at a time, in the order of their
commits. A commit acts on what the request's statements found earlier, so what
they found has to be, at the commit, exactly what a single step would find then.
`RowInv` has one half: whatever a single step would touch is locked (`AllLocked`,
through `CascadesDone`). `SerialInv` has the other, that nothing else is: an album
a cascade took along is still its artist's (`OwnAlbums`), a track to be cleared
is still on a doomed album or on none (`OnDoomedAlbums`), a membership to be
deleted still belongs to a doomed playlist or track (`OwnMembers`); a row that
was found is nobody's to create (`Settled`), so it cannot come back as another.
`Ranked` says that ranks have no gaps, so that a list of which nothing is taken
is written back as it was. Then there is one lemma per kind of request
(`DoesInsert`, `DoesDeleteTrack`, ...): its commit is the step of SerialCatalogue;
and every other step is a stutter or a request that ends without a trace.
The order within playlists is part of this, positions and `updated_at` are not:
those are what run racing_add is about.

**The HTTP layer.** `HttpInv` (theorem HttpInvariant) follows one
request. While its handler works, every stage still to come that Postgres may
refuse comes after a check that blocks the request, unless the request is one of
`Slips` (`Sound`); one lemma per handler shows that its stages are `Sound` when
it starts, and taking a stage off, or its result, keeps them so. While it
answers, the answer is one of nine kinds (`WritesJSON`, `WritesMuxError`, ...; `BreaksOff` is
audio after a failed read),
and each kind says at every point which calls are to come and what the wrappers
have let through so far; so the rewriter's swallowed body, HEAD, a status that
allows no body and a read that fails are cases of a lemma on a single call
(`SendsHeader`, `RecordsPiece`, ...). `Complete` says what has come of it when the handler
returns or a panic ends it; a panic before the header finds an `Unsent` response,
one after it only in audio. The steps then map to `Exchange`: Return and Recover to
`Answer`, Logging to `Record`, Arrive to `NextRequest`, all else to stutters.
`Remembered` ties the kept row to the request that made it. What it takes to read
it back is arithmetic of truncation and wrapping (`Milliseconds`, `Wrap`): a
number of milliseconds that came from a word of nanoseconds goes back to a word
without wrapping, and to the same number again; and canonical ids are never NULL
or empty (`CanonicalIds`), so that none is taken for a missing one. Nothing is assumed of how many
fields of a request are off, which the run can only try one by one.

**Lifecycle.** `LifecycleInv` is its four invariants with `FileByFile`: what is in
effect can be told from the version at every point within a file, so that
wherever a process dies the schema is either clean and right or dirty. The
refinement rests on it: the one process at a file has the lock, and since the
schema is dirty nobody works (`AtAFile`); so the file that takes effect is the
next one (`Apply`), and a death there is `Strand`. Of the other steps, those that
begin or end work are `Begin` and `End`, and the rest do not show.

Only model-checked: StraysReclaimed and StartupEnds, which are liveness under
fairness, and NoDeadEnd, which uses ENABLED: both out of the prover's reach.
NoneStuck says what can be said of waiting without ENABLED, and is proved.

## 6 Where the code and its documents disagree

Each is a run that ends in a counterexample.

* **ack_lost.** When SetTrackFile commits and its answer is lost, the handler
  deletes the object because "nothing points at the object we just wrote"
  (`trackhandler.go:202`); the row does. The track is broken from then on.
* **artist_phantom.** `SELECT ... FOR UPDATE` locks the rows there are; a track
  inserted after it can finish an upload and is cascaded away, its key not
  collected (`artistrepo.go:54` says it cannot). The sweep takes the object.
* **racing_add.** DeleteTrack locks the playlists its first statement sees. An
  AddTrack of its track to another one meanwhile is cascaded away there, and a
  gap stays, though `trackrepo.go:94` calls the two serialised. A playlist that
  is created with the track meanwhile comes out the same way; the run bars it, as
  the comment does not speak of it.
  The order of the tracks survives it (run playlists).
* **duration_wrap.** `time.Duration(r.DurationMs) * time.Millisecond`
  (`dto.go:60`) wraps before CreateTrack checks the range: a `duration_ms` of
  18446744073710 is stored as 0 and answered 201, where `trackservice.go:47-50`
  promises that an oversized value fails.

Known without a run of their own:

* Two re-uploads of one track at once leave the first one's object with neither
  a row nor an "Orphaned object" line (`PLAN.md:199`); the sweep takes it.
* The sweep can report a key as missing that no row names any more: the row was
  replaced between the catalogue read and the Stat (`gc.go:51` says "every key
  the catalogue references").
* Deleting an artist takes memberships away by the cascade without renumbering
  or stamping (`trackrepo.go:86` names this cascade): `playlists` allows it and
  the order survives; `playlist_reads` excludes it.
* A failed `If-Match` or `If-Unmodified-Since` on `/stream` is a 412 of the
  audio's content type without a body, written by `http.ServeContent`
  (`streamhandler.go:75`). The repository's README says of its JSON errors that
  "Every endpoint answers errors this way, with one exception", the 416
  (lines 106-109). Exchange names the 412 apart (`FailedPrecondition`).
* A bucket that fails while audio is being sent leaves no error line: ServeContent
  drops the error of its copy (`streamhandler.go:75`), and the access log has a 200
  or 206. The client has the Content-Length to tell; FaultsSurface exempts this
  fault from the log, and only this one.
* A creation answers with ids as the client spelt them (`trackrepo.go:66-72` scans
  only id and created_at), a GET in Postgres' spelling: a client that sent upper
  case or braces reads back another text of the same id. ReadsBackAsCreated is
  up to that.
* The stable error codes listed in the repository's README lack
  `payload_too_large`, which the upload endpoint answers with.
* `MinIOStore.Put` logs its own errors (`minio.go:68`), a body over its cap
  included, though `httperror.go:50` calls WriteError the only place.
* A `urn:uuid:` id (`PLAN.md:185`), a NUL byte in a text and a cut upload body
  (`PLAN.md:215`) are a 500: `Slips` in HttpServer names them.

## 7 What is not modelled

* Titles, names and formats beyond being empty, good or refused by Postgres;
  which audio signature names which container.
* AllCoverKeys: it returns nothing, since no code path stores a cover.
* Presigned URLs (nothing calls them); the breakdown and the shared deadline of
  Readyz; `-healthcheck`, which only asks Readyz.
* The parts of an unfinished multipart upload, which no listing shows; the part
  size, a single division.
* `http.ErrAbortHandler`, which no handler raises; `Router.Handle`, which only
  serves the Swagger UI.
* A playlist's stamp as a time: markers are taken to be distinct, and their
  order, which the code does not promise, is not looked at.
* golang-migrate, Postgres, MinIO and net/http themselves, beyond what the code
  relies on.
* Configuration, logging, generated docs, test support: read or written once,
  no order of events.

## 8 Plan

Done, in order of importance: BlobStore, Catalogue, TrackHandlers, OrphanSweep,
LiveServer with AudioLibrary; LiveServerInv and LiveServerProofs; Playlists with
PlaylistOrder; Lifecycle; ResponseWriter, Endpoints and HttpServer with
Exchange; RowLocks; PlaylistReads; LibraryProofs; LifecycleProofs;
PlaylistProofs; RowLocksProofs; HttpServerProofs; SerialCatalogue and
SerialProofs; Deployment. The invariants of a proof stand at the head of its module;
LiveServerInv is a module of its own, which MCLiveServer extends, so that TLC can
check its invariant as well.

Every safety property that a passing run checks is now a theorem, but for
NoDeadEnd, and so is every refinement. What is left:

* **More of the edges in the models**: the parts of an unfinished multipart
  upload; Readyz's shared deadline.
