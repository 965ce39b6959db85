------------------------------ MODULE Deployment ------------------------------
(***************************************************************************)
(* What processes that start and die at any time promise together: the    *)
(* migrations take effect one after another, each once, before anybody    *)
(* works; one that is cut short is not tried again, and no one works or    *)
(* migrates from then on.  Versions, the advisory lock and the steps of a  *)
(* startup do not show.                                                    *)
(***************************************************************************)
EXTENDS Naturals

CONSTANTS Processes, Latest

VARIABLES
    applied,    \* the migrations in effect
    stranded,   \* one was cut short: only an operator can tell what is in effect
    working,    \* the processes that serve or sweep
    bucket      \* the bucket exists

deploymentVars == <<applied, stranded, working, bucket>>

DeploymentInit == applied = {} /\ stranded = FALSE /\ working = {} /\ bucket = FALSE

\* The next migration, under nobody's feet.
Apply ==
    /\ ~stranded /\ working = {}
    /\ \E v \in 1 .. Latest : applied = 1 .. v - 1 /\ applied' = 1 .. v
    /\ UNCHANGED <<stranded, working, bucket>>

Strand ==
    /\ ~stranded /\ working = {}
    /\ stranded' = TRUE
    /\ UNCHANGED <<applied, working, bucket>>

Begin(p) ==
    /\ ~stranded /\ applied = 1 .. Latest
    /\ bucket' = TRUE
    /\ p \notin working /\ working' = working \cup {p}
    /\ UNCHANGED <<applied, stranded>>

End(p) ==
    /\ p \in working /\ working' = working \ {p}
    /\ UNCHANGED <<applied, stranded, bucket>>

DeploymentNext == Apply \/ Strand \/ \E p \in Processes : Begin(p) \/ End(p)

DeploymentSpec == DeploymentInit /\ [][DeploymentNext]_deploymentVars

=============================================================================
