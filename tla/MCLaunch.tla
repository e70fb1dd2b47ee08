------------------------------- MODULE MCLaunch -------------------------------
(***************************************************************************)
(* Instances of Launch for TLC.  Three internal names are enough for the   *)
(* first, a middle and the last write of a batch, two Telnyx names are     *)
(* what the code has.                                                      *)
(***************************************************************************)
EXTENDS Launch

CONSTANTS db, token, oidc, apiKey, publicKey

MCInternal == <<db, token, oidc>>
MCTelnyx   == <<apiKey, publicKey>>
MCAnyone   == {apiKey, publicKey, oidc}

\* Every combination of the arguments that decide control.
AllRequests == LaunchRequest

Request(p, i) == [provider |-> p, identity |-> i, domains |-> FALSE,
                  skipLicense |-> FALSE]
BundledOnGcp  == {Request("gcp", "bundled")}
===============================================================================
