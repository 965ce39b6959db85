----------------------------- MODULE MCLiveServer -----------------------------
(***************************************************************************)
(* Instances of LiveServer for TLC.                                        *)
(***************************************************************************)
EXTENDS LiveServerInv, TLC

\* Ids, keys and bodies are interchangeable.
Symmetry == Permutations(Keys) \cup Permutations(Contents) \cup Permutations(Tracks)
              \cup Permutations(Requests)

=============================================================================
