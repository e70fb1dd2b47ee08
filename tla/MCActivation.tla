----------------------------- MODULE MCActivation -----------------------------
(* The releases, paths and commands of the activation run. *)
EXTENDS Activation

CONSTANTS t, u, r1, r2, f1, f2, q1, q2, q3

MCProcs    == {t, u}
MCReleases == {r1, r2}
MCFiles    == {f1, f2}
MCPaths    == {q1, q2, q3}

Fetch(r)        == [kind |-> "fetch", release |-> r]
RenderTo(f, r)  == [kind |-> "render", file |-> f, release |-> r]
Deploy(f, r, q) == [kind |-> "activate", file |-> f, release |-> r, path |-> q]
Licence(f, r, q) == [kind |-> "licence", file |-> f, release |-> r, path |-> q]

MCCommands ==
  [p \in MCProcs |->
    IF p = u
    THEN {RenderTo(f1, r1)}
    ELSE {Fetch(r1), Fetch(r2), Deploy(f1, r1, q1),
          Licence(f2, r2, q2), Deploy(f2, r2, q2), [kind |-> "rollback", path |-> q3]}]
===============================================================================
