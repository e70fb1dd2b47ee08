----------------------------- MODULE MCReplacement -----------------------------
(* The commands of the replacement runs. *)
EXTENDS Replacement, TLC

CONSTANTS t1, t2, p, q, b1, b2, r1, r2

Replace1 == [kind |-> "replace", path |-> p, backup |-> b1, release |-> r1]

MCCommand1  == {Replace1}
MCCommands  ==
  {Replace1,
   \* The same receipt, another backup and another release.
   [Replace1 EXCEPT !.backup = b2, !.release = r2],
   [Replace1 EXCEPT !.path = q],
   [kind |-> "restore", path |-> q, backup |-> b1, release |-> r2],
   [kind |-> "create",  path |-> q, backup |-> b2, release |-> r1]}
MCOneTerminal  == {t1}
MCTwoTerminals == {t1, t2}
Alike          == Permutations(MCTwoTerminals)
MCRelease   == {r1, r2}
MCBackup    == {b1, b2}
MCPath      == {p, q}
===============================================================================
