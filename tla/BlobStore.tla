------------------------------ MODULE BlobStore ------------------------------
(***************************************************************************)
(* The bucket behind storage.BlobStore (internal/storage): a set of        *)
(* objects, each with the bytes it was written with and its LastModified.  *)
(*                                                                         *)
(* A storage key carries 16 random bytes, so a key is never generated      *)
(* twice: "used" remembers the keys ever generated, and a fresh one is     *)
(* drawn from the rest.  LastModified is kept as an age in ticks, counted  *)
(* no further than Grace, the only age anything is compared with.          *)
(***************************************************************************)
EXTENDS Naturals, Media

CONSTANT
    Grace       \* gcGracePeriod, in ticks

ASSUME GraceAssumption == Grace \in Nat

VARIABLES
    objects,    \* the keys the bucket holds
    content,    \* the body an object was written with
    age,        \* ticks since its LastModified, at most Grace
    used        \* the keys ever generated

blobVars == <<objects, content, age, used>>

BlobTypeOK ==
    /\ objects \in SUBSET Keys
    /\ content \in [Keys -> Contents \cup {None}]
    /\ age \in [Keys -> 0..Grace]
    /\ used \in SUBSET Keys

BlobInit ==
    /\ objects = {}
    /\ content = [k \in Keys |-> None]
    /\ age = [k \in Keys |-> 0]
    /\ used = {}

\* One more tick of age: ages beyond Grace are not told apart.
Older(n) == IF n < Grace THEN n + 1 ELSE n

\* Mutant: keys without their random part, generated again.
FreshKeysReused == Keys

FreshKeys == Keys \ used

(***************************************************************************)
(* PutObject of body c under key k.  The store stamps LastModified no      *)
(* earlier than the start of the upload and no later than its end, hence   *)
(* an age a, chosen by the caller from the length of the upload.           *)
(***************************************************************************)
Put(k, c, a) ==
    /\ objects' = objects \cup {k}
    /\ content' = [content EXCEPT ![k] = c]
    /\ age' = [age EXCEPT ![k] = IF a < Grace THEN a ELSE Grace]
    /\ used' = used \cup {k}

\* RemoveObject: idempotent, an absent key is not an error.
Delete(k) ==
    /\ objects' = objects \ {k}
    /\ content' = [content EXCEPT ![k] = None]
    /\ age' = [age EXCEPT ![k] = 0]
    /\ UNCHANGED used

\* A call to Delete that may fail; every caller logs the failure and goes on.
TryDelete(k) == Delete(k) \/ UNCHANGED blobVars

\* One tick passes for every object in the bucket.
BlobsAge ==
    /\ age' = [k \in Keys |-> IF k \in objects THEN Older(age[k]) ELSE age[k]]
    /\ UNCHANGED <<objects, content, used>>

\* Get and Stat find an object, or report domain.ErrNotFound.
Exists(k) == k \in objects

=============================================================================
