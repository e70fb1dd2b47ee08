------------------------------ MODULE NodeRelease ------------------------------
(***************************************************************************)
(* What deploying releases promises about a node                           *)
(* (docs/runbooks/cloud-single-node.md): what is installed only changes    *)
(* while nothing is served, and what comes to be served is what is         *)
(* installed.  A rollback of the node manager is one such change.  It      *)
(* promises nothing while two commands work on the node at once.           *)
(***************************************************************************)
CONSTANTS
  Versions,  \* a release with the configuration it was installed with
  Nothing    \* nothing installed, or nothing served

VARIABLES
  current, up,
  disturbed  \* two commands work on the node

nvars == <<current, up>>

NInit == current = Nothing /\ up = Nothing

GoDown    == up' = Nothing /\ UNCHANGED current
Switch(v) == up = Nothing /\ current' = v /\ UNCHANGED up
GoUp      == current # Nothing /\ up' = current /\ UNCHANGED current
Revert(v) == current # Nothing /\ current' = v /\ up' = v

NNext ==
  disturbed \/ GoDown \/ GoUp \/ \E v \in Versions : Switch(v) \/ Revert(v)

NSpec == NInit /\ [][NNext]_nvars
===============================================================================
