----------------------------- MODULE OrphanSweep -----------------------------
(***************************************************************************)
(* gc.Sweep as cmd/server runs it with -gc: a process of its own, beside a *)
(* live server, that lists the bucket, then reads the referenced keys,     *)
(* then fixes the cutoff, deletes the orphans older than it and stats the  *)
(* referenced keys the listing did not show.                               *)
(*                                                                         *)
(* The listing is one step: the sweep decides about each key on its own,   *)
(* and what it concludes of a key does not depend on when, within the      *)
(* listing, the other keys were seen.                                      *)
(***************************************************************************)
EXTENDS BlobStore, Catalogue

CONSTANT Sweepers   \* sweep processes

VARIABLE sweep

SweepPCs == {"idle", "listed", "keysRead", "deleting", "stat", "done"}

Sweep == [pc : SweepPCs,
          dryRun : BOOLEAN,
          listed : SUBSET Keys,     \* the listing, then the orphans left to delete
          refs : SUBSET Keys,       \* referenced, then the keys left to stat
          orphaned : SUBSET Keys,   \* report.Orphaned
          missing : SUBSET Keys,    \* report.Missing
          failed : BOOLEAN,         \* errs is not empty
          clock : Nat]              \* ticks since the catalogue was read

IdleSweep ==
    [pc |-> "idle", dryRun |-> FALSE, listed |-> {}, refs |-> {},
     orphaned |-> {}, missing |-> {}, failed |-> FALSE, clock |-> 0]

SweepsInit == sweep = [s \in Sweepers |-> IdleSweep]

\* blobs.List, before the catalogue read.
SweepList(s, dry) ==
    /\ sweep[s].pc = "idle"
    /\ sweep' = [sweep EXCEPT ![s] = [IdleSweep EXCEPT !.pc = "listed", !.dryRun = dry,
                                                       !.listed = objects]]
    /\ UNCHANGED <<blobVars, catalogueVars>>

\* referenced(ctx): AllStorageKeys and AllCoverKeys.
SweepReadKeys(s) ==
    /\ sweep[s].pc = "listed"
    /\ sweep' = [sweep EXCEPT ![s] = [@ EXCEPT !.pc = "keysRead", !.refs = RefKeys]]
    /\ UNCHANGED <<blobVars, catalogueVars>>

\* Mutants: no grace window; one tick short; never past it.
PastGraceIgnored(k) == TRUE
PastGraceEarly(k) == age[k] + 1 >= Grace
PastGraceNever(k) == age[k] > Grace

\* LastModified is not after now - grace.
PastGrace(k) == age[k] >= Grace

\* cutoff := time.Now().Add(-grace) and the split of the listing.  An object
\* deleted since the listing keeps its LastModified there: it may go either way.
SweepCutoff(s) ==
    /\ sweep[s].pc = "keysRead"
    /\ \E vanished \in SUBSET (sweep[s].listed \ (sweep[s].refs \cup objects)) :
         LET old == vanished \cup {k \in (sweep[s].listed \ sweep[s].refs) \cap objects : PastGrace(k)}
         IN  sweep' = [sweep EXCEPT ![s] =
                         [@ EXCEPT !.pc = "deleting",
                                   !.orphaned = old,
                                   !.listed = IF sweep[s].dryRun THEN {} ELSE old,
                                   !.refs = sweep[s].refs \ sweep[s].listed,
                                   !.clock = 0]]
    /\ UNCHANGED <<blobVars, catalogueVars>>

SweepDelete(s, k) ==
    /\ sweep[s].pc = "deleting"
    /\ k \in sweep[s].listed
    /\ Delete(k)
    /\ sweep' = [sweep EXCEPT ![s].listed = @ \ {k}]
    /\ UNCHANGED catalogueVars

\* Mutant: the failed delete is not collected.
SweepDeleteFailsSilently(s, k) ==
    /\ sweep[s].pc = "deleting"
    /\ k \in sweep[s].listed
    /\ sweep' = [sweep EXCEPT ![s].listed = @ \ {k}]
    /\ UNCHANGED <<blobVars, catalogueVars>>

\* A failed delete is collected and the loop goes on.
SweepDeleteFails(s, k) ==
    /\ sweep[s].pc = "deleting"
    /\ k \in sweep[s].listed
    /\ sweep' = [sweep EXCEPT ![s].listed = @ \ {k}, ![s].failed = TRUE]
    /\ UNCHANGED <<blobVars, catalogueVars>>

SweepDeletesDone(s) ==
    /\ sweep[s].pc = "deleting"
    /\ sweep[s].listed = {}
    /\ sweep' = [sweep EXCEPT ![s].pc = "stat"]
    /\ UNCHANGED <<blobVars, catalogueVars>>

\* Mutant: absence from the listing is taken as proof.
SweepStatSkipped(s, k) ==
    /\ sweep[s].pc = "stat"
    /\ k \in sweep[s].refs
    /\ sweep' = [sweep EXCEPT ![s].refs = @ \ {k}, ![s].missing = @ \cup {k}]
    /\ UNCHANGED <<blobVars, catalogueVars>>

\* Stat of a referenced key the listing did not have.
SweepStat(s, k) ==
    /\ sweep[s].pc = "stat"
    /\ k \in sweep[s].refs
    /\ sweep' = [sweep EXCEPT ![s].refs = @ \ {k},
                              ![s].missing = IF Exists(k) THEN @ ELSE @ \cup {k}]
    /\ UNCHANGED <<blobVars, catalogueVars>>

SweepStatFails(s, k) ==
    /\ sweep[s].pc = "stat"
    /\ k \in sweep[s].refs
    /\ sweep' = [sweep EXCEPT ![s].refs = @ \ {k}, ![s].failed = TRUE]
    /\ UNCHANGED <<blobVars, catalogueVars>>

SweepReport(s) ==
    /\ sweep[s].pc = "stat"
    /\ sweep[s].refs = {}
    /\ sweep' = [sweep EXCEPT ![s].pc = "done"]
    /\ UNCHANGED <<blobVars, catalogueVars>>

\* The process ends: after its report, on an error of List or of the
\* catalogue read, or because it is killed.
SweepExit(s) ==
    /\ sweep[s].pc # "idle"
    /\ sweep' = [sweep EXCEPT ![s] = IdleSweep]
    /\ UNCHANGED <<blobVars, catalogueVars>>

SweepStep(s) ==
    \/ \E dry \in BOOLEAN : SweepList(s, dry)
    \/ SweepReadKeys(s) \/ SweepCutoff(s) \/ SweepDeletesDone(s)
    \/ \E k \in Keys : SweepDelete(s, k) \/ SweepDeleteFails(s, k)
    \/ \E k \in Keys : SweepStat(s, k) \/ SweepStatFails(s, k)
    \/ SweepReport(s) \/ SweepExit(s)

=============================================================================
