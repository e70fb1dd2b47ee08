------------------------------- MODULE Activation -------------------------------
(***************************************************************************)
(* Deploying releases to one GCP node: `release fetch-preview`             *)
(* (src/preview.rs), `deploy render-node-config` and `deploy activate-gcp` *)
(* (src/activation.rs), `deploy rollback` (src/lifecycle.rs) and `license  *)
(* install --config` (src/license.rs).                                     *)
(*                                                                         *)
(* A command opens SSH sessions to the node.  What a session started runs  *)
(* on there by itself: the session may be lost, the command may be stopped *)
(* and the operator may start another one, while the first script still    *)
(* runs.  A session error whose text has certain words is taken to precede *)
(* the session and the remote command is sent again                        *)
(* (is_gcp_pre_session_failure); the text has the messages of the remote   *)
(* command too, so any failure may have them.                              *)
(*                                                                         *)
(* A step of the script first opens its report in the stage, and fails if  *)
(* the stage is gone; the command of the node manager it then runs takes   *)
(* effect later, whether or not the stage is still there.                  *)
(*                                                                         *)
(* The node manager (thelve-node) is external: each of its commands takes  *)
(* effect at once, and a rollback takes what was installed with its        *)
(* configuration.                                                          *)
(***************************************************************************)
EXTENDS Naturals, FiniteSets

CONSTANTS
  Procs,      \* the operator's terminals
  Releases,   \* preview releases
  Admissible, \* those whose descriptor is signed and has the preview posture
  Files,      \* paths of node configurations
  Paths,      \* paths of receipts
  Commands,   \* terminal -> the commands the operator may run there
  None,       \* nothing
  MaxOps,     \* bound: activations and rollbacks
  MaxTries,   \* GCP_REMOTE_COMMAND_ATTEMPTS: 12 in the code
  MaxStops,   \* bound: commands stopped, sessions lost, scripts that fail
  MaxEdits    \* bound: files the operator changes or removes

Command ==
  [kind : {"fetch"}, release : Releases]
    \cup [kind : {"render"}, file : Files, release : Releases]
    \cup [kind : {"activate", "licence"}, file : Files, release : Releases, path : Paths]
    \cup [kind : {"rollback"}, path : Paths]

Config    == [release : Releases, licensed : BOOLEAN]
\* "changed" stands for a bundle or a configuration that nobody verified.
Payload   == [bundle : Releases \cup {"changed"}, config : Config]

ASSUME ParameterAssumption ==
  /\ Commands \in [Procs -> SUBSET Command] /\ Admissible \subseteq Releases
  /\ None \notin Config \cup Payload
  /\ MaxOps \in Nat /\ MaxTries \in Nat \ {0} /\ MaxStops \in Nat /\ MaxEdits \in Nat

VARIABLES
  dirs,     \* release -> its directory as fetched: absent, whole, or changed since
  intent,   \* the deployment intent: without or with a licence, or torn
  files,    \* path -> node configuration
  receipts, \* path -> receipt: what the node is said to serve
  pc, cmd, op, tries, \* terminal -> where, in which command, operation, session
  read,     \* terminal -> the node configuration it validated
  staged,   \* operation -> the files copied for it; a rollback's target
  stage,    \* operation -> its directory on the node
  scripts,  \* what runs on the node: operation, session, next step, digests
  entered,  \* history: operation -> scripts that came to touch the node
  node,     \* what is installed, served, kept for rollback; registry access
  overlap,  \* history: the last command on the node was begun over another
  ops, stops, edits

local == <<dirs, intent, files, receipts>>
procs == <<pc, cmd, op, tries, read>>
remote == <<staged, stage, scripts, node, entered>>
vars  == <<local, procs, remote, ops, stops, edits, overlap>>

Ops       == 1..MaxOps
NoCommand == [kind |-> "none"]

Init ==
  /\ dirs = [r \in Releases |-> "absent"] /\ intent = "plain"
  /\ files = [f \in Files |-> None] /\ receipts = [q \in Paths |-> None]
  /\ pc = [p \in Procs |-> "idle"] /\ cmd = [p \in Procs |-> NoCommand]
  /\ op = [p \in Procs |-> 0] /\ tries = [p \in Procs |-> 0]
  /\ read = [p \in Procs |-> None]
  /\ staged = [o \in Ops |-> None] /\ stage = [o \in Ops |-> "none"]
  /\ scripts = {} /\ entered = [o \in Ops |-> 0]
  /\ node = [current |-> None, up |-> None, kept |-> {}, reader |-> FALSE]
  /\ overlap = FALSE /\ ops = 0 /\ stops = 0 /\ edits = 0

-------------------------------------------------------------------------------
(* Helpers.                                                                *)

At(p, l)   == pc[p] = l
Goto(p, l) == pc' = [pc EXCEPT ![p] = l]
Moves(p, l) == Goto(p, l) /\ UNCHANGED <<cmd, op, tries, read>>
Ends(p) ==
  /\ Goto(p, "idle") /\ cmd' = [cmd EXCEPT ![p] = NoCommand]
  /\ op' = [op EXCEPT ![p] = 0] /\ tries' = [tries EXCEPT ![p] = 0]
  /\ read' = [read EXCEPT ![p] = None]

\* Something is stopped, lost or fails by itself.  Bound: only before the last
\* operation, so that one is left to repair what was done half way.
Fails == ops < MaxOps /\ stops < MaxStops /\ stops' = stops + 1

-------------------------------------------------------------------------------
(* Retrieving a release and rendering a configuration.                     *)

OnNode(c) == c.kind \in {"activate", "licence", "rollback"}

\* A script that may still touch the node: it has its stage, or a command of it
\* is under way, which takes effect without.
Running(x) == x.at \in {"stopping", "down", "installing", "starting", "rollback"}
Acts(x)    == stage[x.op] # "removed" \/ Running(x)

\* A command on the node, or what an earlier one left running there.  Nothing
\* makes the next command wait for it.
Busy ==
  \/ \E p \in Procs : OnNode(cmd[p])
  \/ \E x \in scripts : Acts(x)

\* verify_fetched: the directory against its receipt and signed descriptor.
Verified(r) == dirs[r] = "whole"

\* What refuses a command at once, which is then as if it was not begun: a path
\* it would write exists, or what it needs is missing or spoiled.
Accepted(c) ==
  /\ c.kind = "fetch" => c.release \in Admissible /\ dirs[c.release] = "absent"
  /\ c.kind # "fetch" => intent # "torn"
  /\ OnNode(c) => receipts[c.path] = None
  /\ c.kind \in {"render", "licence"} => Verified(c.release) /\ files[c.file] = None
  /\ c.kind = "activate" =>
       Verified(c.release) /\ files[c.file] # None /\ files[c.file].release = c.release

First(c) ==
  CASE c.kind = "fetch"    -> "promote"
    [] c.kind = "render"   -> "render"
    [] c.kind = "licence"  -> "intent"
    [] c.kind = "activate" -> "verify"
    [] c.kind = "rollback" -> "ask"

\* Bound: a command on the node begins while an operation is left for it.
Begin(p, c) ==
  /\ At(p, "idle") /\ Accepted(c) /\ (OnNode(c) => ops < MaxOps)
  /\ Goto(p, First(c)) /\ cmd' = [cmd EXCEPT ![p] = c]
  /\ overlap' = IF OnNode(c) THEN Busy ELSE overlap
  /\ UNCHANGED <<local, op, tries, read, remote, ops, stops, edits>>

\* fetch: everything was verified in the staging directory, which is renamed.
Promote(p) ==
  /\ At(p, "promote") /\ dirs[cmd[p].release] = "absent"
  /\ dirs' = [dirs EXCEPT ![cmd[p].release] = "whole"]
  /\ Ends(p)
  /\ UNCHANGED <<intent, files, receipts, remote, ops, stops, edits, overlap>>

\* license::install_via_render rewrites the intent in place, then renders.
IntentOpen(p) ==
  /\ At(p, "intent")
  /\ intent' = "torn"
  /\ Moves(p, "rewriting")
  /\ UNCHANGED <<dirs, files, receipts, remote, ops, stops, edits, overlap>>

IntentWrite(p) ==
  /\ At(p, "rewriting")
  /\ intent' = "licensed"
  /\ Moves(p, "render")
  /\ UNCHANGED <<dirs, files, receipts, remote, ops, stops, edits, overlap>>

\* Mutant: the licence of the intent is not rendered.
ConfigUnlicensed(r) == [release |-> r, licensed |-> FALSE]

\* The configuration binds the release and repeats the intent's licence.
ConfigOf(r) == [release |-> r, licensed |-> intent = "licensed"]

\* render_node_config: the intent and the release, read before the outputs
\* and secret versions are fetched ...
RenderLoad(p) ==
  /\ At(p, "render") /\ intent # "torn"
  /\ Verified(cmd[p].release) /\ files[cmd[p].file] = None
  /\ read' = [read EXCEPT ![p] = ConfigOf(cmd[p].release)]
  /\ Goto(p, "create")
  /\ UNCHANGED <<local, cmd, op, tries, remote, ops, stops, edits, overlap>>

\* ... and the file, created only if none appeared meanwhile.
RenderCreate(p) ==
  /\ At(p, "create") /\ files[cmd[p].file] = None
  /\ files' = [files EXCEPT ![cmd[p].file] = read[p]]
  /\ IF cmd[p].kind = "licence" THEN Moves(p, "verify") ELSE Ends(p)
  /\ UNCHANGED <<dirs, intent, receipts, remote, ops, stops, edits, overlap>>

-------------------------------------------------------------------------------
(* activate_gcp: the workstation.                                          *)

\* The checks, on the release directory and the bytes read now.
Verify(p) ==
  /\ At(p, "verify") /\ intent # "torn"
  /\ Verified(cmd[p].release)
  /\ files[cmd[p].file] # None /\ files[cmd[p].file].release = cmd[p].release
  /\ read' = [read EXCEPT ![p] = files[cmd[p].file]]
  /\ Goto(p, "copy")
  /\ UNCHANGED <<local, cmd, op, tries, remote, ops, stops, edits, overlap>>

\* The files are copied from their paths, later; a fresh operation id.
Copy(p) ==
  /\ At(p, "copy") /\ ops < MaxOps
  /\ dirs[cmd[p].release] # "absent" /\ files[cmd[p].file] # None
  /\ ops' = ops + 1 /\ op' = [op EXCEPT ![p] = ops']
  /\ staged' = [staged EXCEPT ![ops'] =
       [bundle |-> IF dirs[cmd[p].release] = "whole" THEN cmd[p].release ELSE "changed",
        config |-> files[cmd[p].file]]]
  /\ Goto(p, "prepare")
  /\ UNCHANGED <<local, cmd, tries, read, stage, scripts, node, entered, stops, edits, overlap>>

\* The stage is made, the files transferred; both are repeated on any error.
Prepare(p) ==
  /\ At(p, "prepare")
  /\ stage' = [stage EXCEPT ![op[p]] = "made"]
  /\ Moves(p, "transfer")
  /\ UNCHANGED <<local, staged, scripts, node, entered, ops, stops, edits, overlap>>

Transfer(p) ==
  /\ At(p, "transfer")
  /\ stage' = [stage EXCEPT ![op[p]] = "sent"]
  /\ Moves(p, "grant")
  /\ UNCHANGED <<local, staged, scripts, node, entered, ops, stops, edits, overlap>>

\* grant_registry_reader.
Grant(p) ==
  /\ At(p, "grant")
  /\ node' = [node EXCEPT !.reader = TRUE]
  /\ Moves(p, "run")
  /\ UNCHANGED <<local, staged, stage, scripts, entered, ops, stops, edits, overlap>>

\* rollback: a fresh operation id, and what was installed once.
Ask(p) ==
  /\ At(p, "ask") /\ ops < MaxOps
  /\ ops' = ops + 1 /\ op' = [op EXCEPT ![p] = ops']
  /\ \E v \in node.kept : staged' = [staged EXCEPT ![ops'] = v]
  /\ Goto(p, "run")
  /\ UNCHANGED <<local, cmd, tries, read, stage, scripts, node, entered, stops, edits, overlap>>

\* A session, in which the remote command runs.
Run(p) ==
  /\ At(p, "run")
  /\ tries' = [tries EXCEPT ![p] = @ + 1]
  /\ scripts' = scripts \cup
       {[op |-> op[p], try |-> tries'[p],
         at |-> IF cmd[p].kind = "rollback" THEN "rollback" ELSE "digests",
         want |-> IF cmd[p].kind = "rollback" THEN staged[op[p]]
                  ELSE [bundle |-> cmd[p].release, config |-> read[p]]]}
  /\ Goto(p, "session")
  /\ UNCHANGED <<local, cmd, op, read, staged, stage, node, entered, ops, stops, edits, overlap>>

\* Mutant: one attempt too many.
AfterFailureAgain(p) ==
  {"cleanup"} \cup (IF tries[p] <= MaxTries THEN {"run"} ELSE {})

\* What a failed session makes of the command: sent again if the error has
\* the words and an attempt is left.
AfterFailure(p) ==
  {"cleanup"} \cup (IF tries[p] < MaxTries THEN {"run"} ELSE {})

\* The session breaks; the script may run on.
SessionLost(p) ==
  /\ At(p, "session") /\ Fails
  /\ \E l \in AfterFailure(p) : Moves(p, l)
  /\ UNCHANGED <<local, remote, ops, edits, overlap>>

\* create_private for an activation; fs::write for a rollback.
Receipt(p) ==
  /\ At(p, "receipt")
  /\ cmd[p].kind # "rollback" => receipts[cmd[p].path] = None
  /\ receipts' = [receipts EXCEPT ![cmd[p].path] = staged[op[p]]]
  /\ Moves(p, "cleanup")
  /\ UNCHANGED <<dirs, intent, files, remote, ops, stops, edits, overlap>>

\* "remove the remote activation stage"; a rollback has none.
Cleanup(p) ==
  /\ At(p, "cleanup")
  /\ stage' = IF stage[op[p]] = "none" THEN stage ELSE [stage EXCEPT ![op[p]] = "removed"]
  /\ Ends(p)
  /\ UNCHANGED <<local, staged, scripts, node, entered, ops, stops, edits, overlap>>

\* Early returns and calls that fail on what they find.
Refused(p) ==
  \/ At(p, "promote") /\ dirs[cmd[p].release] # "absent"
  \/ At(p, "render") /\ (intent = "torn" \/ ~Verified(cmd[p].release)
                           \/ files[cmd[p].file] # None)
  \/ At(p, "create") /\ files[cmd[p].file] # None
  \/ At(p, "verify") /\ (intent = "torn" \/ ~Verified(cmd[p].release)
                           \/ files[cmd[p].file] = None
                           \/ (files[cmd[p].file] # None
                                 /\ files[cmd[p].file].release # cmd[p].release))
  \/ At(p, "copy") /\ (dirs[cmd[p].release] = "absent" \/ files[cmd[p].file] = None)
  \/ At(p, "ask") /\ node.kept = {}
  \/ At(p, "receipt") /\ receipts[cmd[p].path] # None

Refuse(p) ==
  /\ Refused(p)
  /\ IF At(p, "receipt") THEN Moves(p, "cleanup") ELSE Ends(p)
  /\ UNCHANGED <<local, remote, ops, stops, edits, overlap>>

\* The process ends here, or a call of it fails: nothing is cleaned up.
Stop(p) ==
  /\ ~At(p, "idle") /\ Fails
  /\ Ends(p)
  /\ UNCHANGED <<local, remote, ops, edits, overlap>>

-------------------------------------------------------------------------------
(* The node: remote_activation_command, and the node manager's rollback.    *)

\* The process that waits for this script, if any does.
Hears(x) == {p \in Procs : At(p, "session") /\ op[p] = x.op /\ tries[p] = x.try}

\* The script ends, and so does its session.
Tell(x, after(_)) ==
  /\ scripts' = scripts \ {x}
  /\ IF Hears(x) = {} THEN UNCHANGED procs
     ELSE \E p \in Hears(x) : \E l \in after(p) : Moves(p, l)

\* The stage a step writes its report to is there.
Fenced(x) == stage[x.op] \notin {"none", "removed"}

\* The script goes on to its next step.
Proceeds(x, to) ==
  /\ scripts' = (scripts \ {x}) \cup {[x EXCEPT !.at = to]}
  /\ UNCHANGED <<local, procs, staged, ops, stops, edits, overlap>>

\* A step opens its report in the stage, and its command begins ...
Opens(x, from, to) ==
  /\ x.at = from /\ Fenced(x) /\ Proceeds(x, to)
  /\ UNCHANGED <<stage, entered, node>>

\* ... and a command takes effect, with or without the stage.
Lands(x, from, to, n) ==
  /\ x.at = from /\ Proceeds(x, to)
  /\ node' = n /\ UNCHANGED <<stage, entered>>

\* Mutant: the configuration's digest is that of the copy.
AsReadBundle(x) == staged[x.op].bundle = x.want.bundle

\* sha256sum --check: what was sent is what was verified and validated.
AsRead(x) == staged[x.op] = x.want

Digests(x) == stage[x.op] = "sent" /\ AsRead(x) /\ Opens(x, "digests", "inspect")

\* Mutant: `mkdir -p`.
InspectAgain(x) ==
  /\ x.at = "inspect" /\ Fenced(x) /\ Proceeds(x, "existing")
  /\ stage' = [stage EXCEPT ![x.op] = "unpacked"]
  /\ entered' = [entered EXCEPT ![x.op] = @ + 1]
  /\ UNCHANGED node

\* `mkdir "$stage/release"` fails for all scripts of an operation but one.
Inspect(x) ==
  /\ stage[x.op] = "sent"
  /\ x.at = "inspect" /\ Proceeds(x, "existing")
  /\ stage' = [stage EXCEPT ![x.op] = "unpacked"]
  /\ entered' = [entered EXCEPT ![x.op] = @ + 1]
  /\ UNCHANGED node

\* Mutant: an installed release is installed over while it is served.
ExistingOver(x) ==
  /\ node.current = None => node.up = None
  /\ Opens(x, "existing", "preflight")

\* An installed release is stopped; without one there must be no service.
Existing(x) ==
  \/ node.current # None /\ Opens(x, "existing", "stopping")
  \/ node.current = None /\ node.up = None /\ Opens(x, "existing", "preflight")

\* The service stops, and what it left of the runtime is removed.
StopService(x) == Lands(x, "stopping", "down", [node EXCEPT !.up = None])
ComposeDown(x) == Lands(x, "down", "preflight", [node EXCEPT !.up = None])

\* After the preflight the installation begins.
Preflight(x) == Opens(x, "preflight", "installing")

Install(x) ==
  Lands(x, "installing", "secrets",
        [node EXCEPT !.current = staged[x.op], !.kept = @ \cup {staged[x.op]}])

\* The registry's credential helper, the secrets of the configuration; and the
\* start begins.
Secrets(x) == Opens(x, "secrets", "starting")

Start(x) ==
  /\ node.reader /\ node.current # None
  /\ Lands(x, "starting", "readiness", [node EXCEPT !.up = node.current])

\* Mutant: the receipt is rendered without asking whether the node is ready.
Finishes(x) ==
  /\ x.at \in {"secrets", "readiness"} /\ Fenced(x)
  /\ Tell(x, LAMBDA p : {"receipt"})
  /\ stage' = [stage EXCEPT ![x.op] = "removed"]
  /\ UNCHANGED <<local, staged, node, entered, ops, stops, edits, overlap>>

\* A ready node ends the script with its receipt; the trap removes the stage.
Readiness(x) ==
  /\ x.at = "readiness" /\ Fenced(x) /\ node.up # None
  /\ Tell(x, LAMBDA p : {"receipt"})
  /\ stage' = [stage EXCEPT ![x.op] = "removed"]
  /\ UNCHANGED <<local, staged, node, entered, ops, stops, edits, overlap>>

RollbackNode(x) ==
  /\ x.at = "rollback" /\ node.current # None
  /\ node' = [node EXCEPT !.current = staged[x.op], !.up = staged[x.op]]
  /\ Tell(x, LAMBDA p : {"receipt"})
  /\ UNCHANGED <<local, staged, stage, entered, ops, stops, edits, overlap>>

\* Mutant: to stop a service that does not run is an error.
FilesGoneOrStopped(x) ==
  \/ x.at \in {"stopping", "installing"} /\ ~Fenced(x)
  \/ x.at = "stopping" /\ node.up = None

\* These commands read files of the stage, and may be past that when it goes.
FilesGone(x) == x.at \in {"stopping", "installing"} /\ ~Fenced(x)

\* A step fails: on what it finds, or by itself; the trap removes the stage.
Blocked(x) ==
  \/ ~Running(x) /\ ~Fenced(x)
  \/ FilesGone(x)
  \/ x.at = "digests" /\ (stage[x.op] # "sent" \/ ~AsRead(x))
  \/ x.at = "inspect" /\ stage[x.op] # "sent"
  \/ x.at = "existing" /\ node.current = None /\ node.up # None
  \/ x.at = "starting" /\ (~node.reader \/ node.current = None)
  \/ x.at = "readiness" /\ node.up = None

ScriptFails(x) ==
  /\ \/ Blocked(x) /\ UNCHANGED stops
     \/ Fails
  /\ Tell(x, AfterFailure)
  /\ stage' = IF x.at = "rollback" THEN stage ELSE [stage EXCEPT ![x.op] = "removed"]
  /\ UNCHANGED <<local, staged, node, entered, ops, edits, overlap>>

\* The script is killed, or the node restarts: no trap runs.
ScriptDies(x) ==
  /\ Fails
  /\ Tell(x, AfterFailure)
  /\ UNCHANGED <<local, staged, stage, node, entered, ops, edits, overlap>>

-------------------------------------------------------------------------------
\* The operator changes a fetched release, removes a configuration or puts
\* another in its place.  Bound: before the last operation.
Edit ==
  /\ edits < MaxEdits /\ ops < MaxOps /\ edits' = edits + 1
  /\ \/ \E r \in Releases : /\ dirs[r] = "whole" /\ dirs' = [dirs EXCEPT ![r] = "changed"]
                           /\ UNCHANGED files
     \/ \E f \in Files, v \in {None} \cup {files[g] : g \in Files} :
          /\ files[f] # None /\ files[f] # v /\ files' = [files EXCEPT ![f] = v]
          /\ UNCHANGED dirs
  /\ UNCHANGED <<intent, receipts, procs, remote, ops, stops, overlap>>

Cli(p) ==
  \/ Promote(p) \/ IntentOpen(p) \/ IntentWrite(p) \/ RenderLoad(p) \/ RenderCreate(p)
  \/ Verify(p) \/ Copy(p) \/ Prepare(p) \/ Transfer(p) \/ Grant(p) \/ Ask(p) \/ Run(p)
  \/ Receipt(p) \/ Cleanup(p) \/ Refuse(p)

Script(x) ==
  \/ Digests(x) \/ Inspect(x) \/ Existing(x) \/ StopService(x) \/ ComposeDown(x)
  \/ Preflight(x) \/ Install(x) \/ Secrets(x) \/ Start(x) \/ Readiness(x) \/ RollbackNode(x)
  \/ ScriptFails(x)

Next ==
  \/ \E p \in Procs : \/ \E c \in Commands[p] : Begin(p, c)
                      \/ Cli(p) \/ SessionLost(p) \/ Stop(p)
  \/ \E x \in scripts : Script(x) \/ ScriptDies(x)
  \/ Edit

Spec == Init /\ [][Next]_vars

\* Commands and scripts that are not stopped go on, and the operator tries
\* every command again and again.
FairSpec ==
  /\ Spec
  /\ \A p \in Procs : WF_vars(Cli(p))
  /\ \A o \in Ops : WF_vars(\E x \in scripts : x.op = o /\ Script(x))
  /\ \A p \in Procs : \A c \in Commands[p] : SF_vars(Begin(p, c))

-------------------------------------------------------------------------------
(* Properties.                                                             *)

\* Every variable keeps to the values the code can give it.
TypeOK ==
  /\ dirs \in [Releases -> {"absent", "whole", "changed"}]
  /\ intent \in {"plain", "torn", "licensed"}
  /\ files \in [Files -> Config \cup {None}]
  /\ receipts \in [Paths -> Payload \cup {None}]
  /\ pc \in [Procs -> {"idle", "promote", "intent", "rewriting", "render", "create", "verify",
                       "copy", "prepare", "transfer", "grant", "ask", "run", "session",
                       "receipt", "cleanup"}]
  /\ \A p \in Procs : cmd[p] \in Commands[p] \cup {NoCommand}
  /\ op \in [Procs -> 0..MaxOps] /\ tries \in [Procs -> 0..MaxTries]
  /\ read \in [Procs -> Config \cup {None}]
  /\ staged \in [Ops -> Payload \cup {None}]
  /\ stage \in [Ops -> {"none", "made", "sent", "unpacked", "removed"}]
  /\ \A x \in scripts : x.op \in 1..ops /\ staged[x.op] # None
  /\ node.current \in Payload \cup {None} /\ node.up \in Payload \cup {None}
  /\ node.kept \subseteq Payload /\ overlap \in BOOLEAN
  /\ ops \in 0..MaxOps /\ stops \in 0..MaxStops /\ edits \in 0..MaxEdits

\* Whatever was edited between a check and its use, the node only ever holds
\* a bundle that was verified, with a configuration validated for it.
OnlyVerified ==
  \A v \in node.kept \cup ({node.current} \ {None}) :
    v.bundle \in Admissible /\ v.bundle = v.config.release

\* One activation touches the node once, though its remote command may be
\* sent again while the first still runs, or after it has failed half way.
AtMostOnce == \A o \in Ops : entered[o] <= 1

\* What is installed changes only while nothing is served, and what comes to be
\* served is what is installed, though sessions are lost and a command is sent
\* again while its first script still works.  Except while a command was begun
\* over what an earlier one left running.
Node == INSTANCE NodeRelease WITH
  Versions <- Payload, Nothing <- None, current <- node.current, up <- node.up,
  disturbed <- overlap
NodeIsReleased == Node!NSpec

\* When a receipt is written the node serves exactly what it says, whatever its
\* own lost sessions left running; unless the command was begun over another.
ReceiptTrue ==
  [][\A q \in Paths : ~overlap /\ receipts'[q] # receipts[q] => receipts'[q] = node.up]_vars

\* A licence installation that reports success left the licence on the node,
\* while other configurations are rendered; unless its file was replaced, or it
\* was begun over another command.
LicenceServed ==
  [][\A p \in Procs :
       /\ ~overlap /\ edits = 0
       /\ cmd[p].kind = "licence" /\ receipts'[cmd[p].path] # receipts[cmd[p].path]
       => node.up.config.licensed]_vars

\* Whatever failed before, when the last operation is over the node is served,
\* and it stays so: an activation that stopped the service and failed half way
\* does not make the later ones fail.  Except over an intent torn by a stopped
\* licence installation, files the operator spoiled, and a last operation begun
\* over another.
Recovers ==
  <>(\/ edits > 0
     \/ intent = "torn" /\ \A p \in Procs : ~At(p, "rewriting")
     \/ ops = MaxOps /\ ~Busy /\ (node.up # None \/ overlap))

\* What activations leave behind never stands in the way of a later one, or of
\* their own second attempt, unless that was begun while they still worked.  A
\* command on the node finds what it verified when it copies, unless files were
\* edited, and its receipt can always be written.  A script that has its stage
\* fails only of itself, or for one of two causes: edited files, and a script of
\* the same operation that has entered the node before it.  A rollback finds
\* what it replaces.  The safety half of Recovers.
FailsForCause == ~overlap =>
  /\ \A p \in Procs : Refused(p) => ~At(p, "receipt") /\ (At(p, "copy") => edits > 0)
  /\ \A x \in scripts : Blocked(x) =>
       \/ stage[x.op] = "removed"
       \/ x.at = "digests" /\ edits > 0
       \/ x.at \in {"digests", "inspect"} /\ stage[x.op] = "unpacked"
  /\ \A x \in scripts : x.at = "rollback" => node.current # None
===============================================================================
