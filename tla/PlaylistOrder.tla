---------------------------- MODULE PlaylistOrder ----------------------------
(***************************************************************************)
(* What a playlist promises a client: an order on distinct tracks.  Adding *)
(* appends, removing keeps the order of the rest, and a track deleted from *)
(* the catalogue leaves all its playlists at once.  Positions, locks and   *)
(* renumbering do not show.                                                *)
(***************************************************************************)
CONSTANTS Playlists, Tracks

VARIABLES
    listed,     \* playlist -> the tracks in it, {} when there is no playlist
    before      \* playlist -> the pairs <<a, b>> with a played before b

orderVars == <<listed, before>>

Pairs(S) == S \X S

OrderInit ==
    /\ listed = [p \in Playlists |-> {}]
    /\ before = [p \in Playlists |-> {}]

StrictOrder(R, S) ==
    /\ R \subseteq Pairs(S)
    /\ \A a, b \in S : <<a, b>> \in R <=> ~(a = b \/ <<b, a>> \in R)
    /\ \A a, b, c \in S : <<a, b>> \in R /\ <<b, c>> \in R => <<a, c>> \in R

\* A new playlist, of any tracks in any order.
Create(p) ==
    /\ listed[p] = {}
    /\ listed'[p] \subseteq Tracks
    /\ StrictOrder(before'[p], listed'[p])
    /\ listed' = [listed EXCEPT ![p] = listed'[p]]
    /\ before' = [before EXCEPT ![p] = before'[p]]

Append(p, t) ==
    /\ t \notin listed[p]
    /\ listed' = [listed EXCEPT ![p] = @ \cup {t}]
    /\ before' = [before EXCEPT ![p] = @ \cup (listed[p] \X {t})]

\* The tracks in gone(p) leave playlist p; the others keep their order.
Leave(gone) ==
    /\ listed' = [p \in Playlists |-> listed[p] \ gone[p]]
    /\ before' = [p \in Playlists |-> before[p] \cap Pairs(listed[p] \ gone[p])]

Remove(p, t) == Leave([q \in Playlists |-> IF q = p THEN {t} ELSE {}])

DropPlaylist(p) == Leave([q \in Playlists |-> IF q = p THEN Tracks ELSE {}])

DropTracks(ts) == Leave([q \in Playlists |-> ts])

OrderNext ==
    \/ \E p \in Playlists : Create(p) \/ DropPlaylist(p)
    \/ \E p \in Playlists, t \in Tracks : Append(p, t) \/ Remove(p, t)
    \/ \E ts \in SUBSET Tracks : DropTracks(ts)

OrderSpec == OrderInit /\ [][OrderNext]_orderVars

=============================================================================
