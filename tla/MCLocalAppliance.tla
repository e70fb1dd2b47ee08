---------------------------- MODULE MCLocalAppliance ----------------------------
(* The directories, releases and commands of the local runs. *)
EXTENDS LocalAppliance, TLC

CONSTANTS t, u, a, b, r1, r2, s1, s2, s3, s4, w1, w2, w3

MCProcs     == {t, u}
MCDirs      == {a, b}
MCReleases  == {r1, r2}
MCBatches   == {s1, s2, s3, s4}
MCPasswords == {w1, w2, w3}

Launch(d, r, x) == [kind |-> "launch", dir |-> d, release |-> r, telnyx |-> x]
On(d, k) == [kind |-> k, dir |-> d]

MCCommands ==
  {Launch(a, r1, FALSE), Launch(a, r2, TRUE), Launch(b, r1, FALSE),
   On(a, "stop"), On(a, "destroy"), On(b, "destroy")}

\* Batches, passwords and terminals are alike.
Alike == Permutations(MCBatches) \cup Permutations(MCPasswords) \cup Permutations(MCProcs)
===============================================================================
