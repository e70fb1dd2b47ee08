------------------------------ MODULE MCWorkspace ------------------------------
(***************************************************************************)
(* Instances of Workspace for TLC: two terminals over two contents of the  *)
(* intent.  Terminals are alike.                                           *)
(***************************************************************************)
EXTENDS Workspace, TLC

CONSTANTS t1, t2, c1, c2

MCProcs   == {t1, t2}
MCConfigs == {c1, c2}
Alike     == Permutations(MCProcs) \cup Permutations(MCConfigs)
===============================================================================
