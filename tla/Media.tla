-------------------------------- MODULE Media --------------------------------
(***************************************************************************)
(* The values the bucket and the catalogue both speak of.                  *)
(***************************************************************************)
CONSTANTS
    Keys,       \* storage keys: tracks/<track id>/<random><ext>
    Contents,   \* audio bodies; a body stands for its SHA-256 as well
    None        \* the empty string / NULL of an unset column or field

ASSUME MediaNoneAssumption == None \notin Keys /\ None \notin Contents

=============================================================================
