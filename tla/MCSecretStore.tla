----------------------------- MODULE MCSecretStore -----------------------------
(* The names of the secret store runs: two that repeat each other's         *)
(* password, and one an operator provides.                                  *)
EXTENDS SecretStore, TLC

CONSTANTS t, u, db, pw, tx

MCInternal == <<db, pw>>
MCOther    == <<tx>>
MCSettable == {pw, tx}
MCTwo      == {t, u}
MCOne      == {t}
MCClouds   == {"gcp", "aws"}
MCGcp      == {"gcp"}
Terminals  == Permutations(MCTwo)
===============================================================================
