----------------------------- MODULE AudioLibrary -----------------------------
(***************************************************************************)
(* What the catalogue and the bucket together promise a client: a library  *)
(* of tracks in which each track's audio changes in one step, is never     *)
(* broken, is stored once, and goes only with its track.  Orphans, keys,   *)
(* sweeps and retries do not show.                                         *)
(***************************************************************************)
CONSTANTS
    Tracks,
    Contents,
    Silent      \* a track without audio

VARIABLE library    \* track -> its audio, Silent, or a state without a track

Audible == Contents \cup {Silent}

LibraryInit == library = [t \in Tracks |-> "unborn"]

Add(t) ==
    /\ library[t] = "unborn"
    /\ library' = [library EXCEPT ![t] = Silent]

\* Audio is set or replaced, unless another track has it.
Attach(t, c) ==
    /\ library[t] \in Audible
    /\ \A u \in Tracks \ {t} : library[u] # c
    /\ library' = [library EXCEPT ![t] = c]

\* A track, or all the tracks of an artist, go at once.
Remove(ts) ==
    /\ \A t \in ts : library[t] \in Audible
    /\ library' = [t \in Tracks |-> IF t \in ts THEN "gone" ELSE library[t]]

LibraryNext ==
    \/ \E t \in Tracks : Add(t) \/ \E c \in Contents : Attach(t, c)
    \/ \E ts \in SUBSET Tracks : Remove(ts)

LibrarySpec == LibraryInit /\ [][LibraryNext]_library

=============================================================================
