---------------------------- MODULE GovernedActions ----------------------------
(***************************************************************************)
(* What a plan of an agent promises (docs/runbooks/agent-access.md, "Read, *)
(* plan, and apply"): what was proposed is performed only while people's   *)
(* approval stands, and once at most.                                      *)
(***************************************************************************)
EXTENDS Naturals

CONSTANT Plans

VARIABLES
  status,      \* plan -> "none", "pending", "approved", "closed"
  performed    \* plan -> how often its mutation was performed

gvars == <<status, performed>>

GInit == status = [i \in Plans |-> "none"] /\ performed = [i \in Plans |-> 0]

Moves(i, from, to) ==
  status[i] \in from /\ status' = [status EXCEPT ![i] = to] /\ UNCHANGED performed

Perform(i) ==
  /\ status[i] = "approved" /\ performed[i] = 0
  /\ performed' = [performed EXCEPT ![i] = 1]
  /\ UNCHANGED status

GNext ==
  \E i \in Plans :
    \/ Moves(i, {"none"}, "pending")
    \/ Moves(i, {"pending"}, "approved")
    \/ Moves(i, {"pending", "approved"}, "closed")
    \/ Perform(i)

GSpec == GInit /\ [][GNext]_gvars
===============================================================================
