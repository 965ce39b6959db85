---------------------------- MODULE LiveServerInv ----------------------------
(***************************************************************************)
(* The inductive invariant behind LiveServer's safety properties.  Its     *)
(* heart is that a key is born at a Put, may be named by a row while the   *)
(* upload that put it is in flight, and once nothing names it is dead for  *)
(* good: whoever then deletes it, however late, hurts nobody.              *)
(***************************************************************************)
EXTENDS LiveServer

\* TypeOK is inductive once it knows that a stored object has a key.
StoredTyped == \A r \in Requests : req[r].pc = "stored" => req[r].key \in Keys

TypeInv == TypeOK /\ StoredTyped

\* Only live rows hold a file.
RowsHoldKeys == \A t \in Tracks : trackRow[t] # "live" => storageKey[t] = None

Names(t, k) == storageKey[t] = k

Stores(r, k) == req[r].pc = "stored" /\ req[r].key = k

\* k has been generated, and no row and no upload in flight names it.
Dead(k) ==
    /\ k \in used
    /\ \A t \in Tracks : ~Names(t, k)
    /\ \A r \in Requests : ~Stores(r, k)

\* A row's object is there, and is no other row's.
RowsBacked ==
    /\ objects \subseteq used
    /\ \A t \in Tracks : storageKey[t] # None => storageKey[t] \in objects
    /\ \A t, u \in Tracks : storageKey[t] # None /\ storageKey[t] = storageKey[u] => t = u

\* An upload between its Put and its SetTrackFile owns a young object.
StoredOwned ==
    \A r \in Requests : req[r].pc = "stored" =>
        /\ req[r].key \in objects
        /\ \A t \in Tracks : storageKey[t] # req[r].key
        /\ \A q \in Requests : Stores(q, req[r].key) => q = r
        /\ req[r].clock <= CommitDelay
        /\ age[req[r].key] <= ReadTimeout + req[r].clock

\* The previous key an upload remembers can be named by its own track only.
PreviousKeyOwned ==
    \A r \in Requests : req[r].pc \in {"reading", "stored"} =>
        /\ req[r].track \in Tracks
        /\ req[r].previousKey # None =>
             /\ req[r].previousKey \in used
             /\ \A t \in Tracks : Names(t, req[r].previousKey) => t = req[r].track
             /\ \A q \in Requests : ~Stores(q, req[r].previousKey)

\* What a handler's tail deletes is dead.
DoomedDead == \A r \in Requests : Cleaning(r) => \A k \in req[r].doomed : Dead(k)

\* The keys DeleteArtist has collected can be named by the rows it locks only.
LockedKeys ==
    \A r \in Requests : req[r].pc = "artistLocked" =>
        /\ req[r].artist \in Artists
        /\ \A k \in req[r].doomed :
             /\ k \in used
             /\ \A t \in Tracks : Names(t, k) => rowLock[t] = r /\ artistOf[t] = req[r].artist
             /\ \A q \in Requests : ~Stores(q, k)

\* A row the sweep's catalogue read missed has an object too young for its
\* cutoff; what it reports as orphaned is dead.
SweepsInformed ==
    \A s \in Sweepers :
        /\ sweep[s].listed \subseteq used
        /\ sweep[s].pc = "keysRead" =>
             /\ sweep[s].clock <= ReadGap
             /\ \A t \in Tracks : storageKey[t] \in sweep[s].listed \ sweep[s].refs =>
                  age[storageKey[t]] <= ReadTimeout + CommitDelay + sweep[s].clock
        /\ sweep[s].pc \notin {"listed", "keysRead"} => sweep[s].listed \subseteq sweep[s].orphaned
        /\ sweep[s].pc \in {"listed", "idle"} => sweep[s].clock = 0
        /\ \A k \in sweep[s].orphaned : Dead(k)

IInv ==
    /\ TypeInv
    /\ RowsHoldKeys
    /\ RowsBacked
    /\ StoredOwned
    /\ PreviousKeyOwned
    /\ DoomedDead
    /\ LockedKeys
    /\ SweepsInformed

-----------------------------------------------------------------------------
(***************************************************************************)
(* What is behind a key.  A key that was generated never gets other bytes: *)
(* so what a row, an upload or a stream says of its key's bytes stays true *)
(* for as long as the object is there, and an object that is gone stays    *)
(* gone.                                                                   *)
(***************************************************************************)

Gone(k) == k \in used \ objects

\* The bytes behind k, if there are any, have hash h.
Holds(k, h) == k \in used /\ (k \in objects => content[k] = h)

\* A row has a hash when it has a key, the hash of the bytes behind it, and no
\* other row has that hash.
RowsDescribed ==
    /\ \A t \in Tracks : storageKey[t] = None <=> contentHash[t] = None
    /\ \A t \in Tracks : storageKey[t] # None => Holds(storageKey[t], contentHash[t])
    /\ \A t, u \in Tracks : contentHash[t] # None /\ contentHash[t] = contentHash[u] => t = u

UploadsDescribed ==
    \A r \in Requests : req[r].pc = "stored" =>
        req[r].hash \in Contents /\ Holds(req[r].key, req[r].hash)

StreamsDescribed ==
    \A r \in Requests :
        /\ req[r].pc \in {"opening", "serving"} => Holds(req[r].key, req[r].hash)
        /\ req[r].pc = "notFound" => Gone(req[r].key)

\* What a sweep has deleted or not found is gone; nothing is concluded before
\* the cutoff.
SweepsConclude ==
    \A s \in Sweepers :
        /\ sweep[s].refs \subseteq used
        /\ \A k \in sweep[s].missing : Gone(k)
        /\ sweep[s].pc \in {"idle", "listed", "keysRead"} => sweep[s].missing = {} /\ ~sweep[s].failed
        /\ sweep[s].pc \in {"stat", "done"} => sweep[s].listed = {}
        /\ sweep[s].pc \in {"deleting", "stat", "done"} /\ ~sweep[s].dryRun /\ ~sweep[s].failed
             => \A k \in sweep[s].orphaned \ sweep[s].listed : Gone(k)

ContentInv ==
    /\ RowsDescribed
    /\ UploadsDescribed
    /\ StreamsDescribed
    /\ SweepsConclude

=============================================================================
