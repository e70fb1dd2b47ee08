----------------------------- MODULE LocalAppliance -----------------------------
(***************************************************************************)
(* `thelve launch --provider local` and `thelve dev status|stop|destroy`   *)
(* (src/local.rs): several local directories and the one Colima VM that    *)
(* hosts at most one appliance at a time.  A directory keeps node.yaml, a  *)
(* batch of secrets, an owner file, the launch receipt and the first       *)
(* password; the VM keeps what was staged, an owner marker, the containers *)
(* and their data.                                                         *)
(*                                                                         *)
(* Commands are processes: they interleave step by step, whichever the     *)
(* operator starts, and each can end at any step.  The release was         *)
(* verified and the name checked before the first step (verify_host_tool   *)
(* and the early returns of launch).                                       *)
(***************************************************************************)
EXTENDS Naturals, FiniteSets

CONSTANTS
  Procs,       \* the operator's terminals
  Dirs,        \* local directories
  Releases,    \* verified local releases
  Batches,     \* batches of generated secrets
  Passwords,   \* temporary passwords of the first administrator
  Commands,    \* the commands the operator may run
  None,        \* no directory, release, batch or password
  MaxStops,    \* bound: commands that are stopped, fail, or cross another
  MaxWipes     \* bound: times the operator deletes the Colima VM

Command == [kind : {"launch"}, dir : Dirs, release : Releases, telnyx : BOOLEAN]
             \cup [kind : {"status", "stop", "destroy"}, dir : Dirs]

ASSUME ParameterAssumption ==
  /\ Commands \subseteq Command
  /\ None \notin Dirs \cup Releases \cup Batches \cup Passwords
  /\ MaxStops \in Nat /\ MaxWipes \in Nat

VARIABLES
  files,    \* directory -> its files
  vm,       \* /etc/thelve and /opt/thelve in the VM, the secrets in tmpfs
  stack,    \* the containers
  data,     \* /var/lib/thelve: initialised with a batch; the administrator
  pc, cmd,  \* process -> where it is, and in which command
  force,    \* process -> `release_changed`
  last,     \* process -> how its last command ended
  crossed,  \* history: a command was begun over another that it can spoil
  mishaps,  \* history: what else happened that the properties except
  stops, wipes

vars == <<files, vm, stack, data, pc, cmd, force, last, crossed, mishaps, stops, wipes>>
machine == <<vm, stack, data>>
bounds  == <<crossed, mishaps, stops, wipes>>

FileState == {"absent", "torn", "ok"}
NoFiles == [node |-> "absent", release |-> None, secrets |-> None, owner |-> "absent",
            receipt |-> "absent", finished |-> None, password |-> None]
NoVm    == [render |-> None, node |-> None, secrets |-> None, marker |-> None,
            runtime |-> None]
NoStack == [release |-> None, ready |-> FALSE]
NoData  == [batch |-> None, admin |-> None, bound |-> FALSE]
NoCommand == [kind |-> "none"]

\* A running Colima without an appliance, and no directory yet.
Init ==
  /\ files = [d \in Dirs |-> NoFiles]
  /\ vm = NoVm /\ stack = NoStack /\ data = NoData
  /\ pc = [p \in Procs |-> "idle"] /\ cmd = [p \in Procs |-> NoCommand]
  /\ force = [p \in Procs |-> FALSE] /\ last = [p \in Procs |-> "none"]
  /\ crossed = FALSE /\ mishaps = {} /\ stops = 0 /\ wipes = 0

-------------------------------------------------------------------------------
(* Helpers.                                                                *)

Dir(p) == cmd[p].dir
Mine(p) == files[Dir(p)]
Quiet == \A p \in Procs : pc[p] = "idle"

At(p, l)   == pc[p] = l
Goto(p, l) == pc' = [pc EXCEPT ![p] = l] /\ UNCHANGED <<cmd, last>>
Ends(p, how) ==
  /\ pc' = [pc EXCEPT ![p] = "idle"] /\ cmd' = [cmd EXCEPT ![p] = NoCommand]
  /\ force' = [force EXCEPT ![p] = FALSE] /\ last' = [last EXCEPT ![p] = how]

\* A step of p that only writes its directory's files, or only the VM.
Writes(p, f) == files' = [files EXCEPT ![Dir(p)] = f] /\ UNCHANGED <<machine, force, bounds>>
Stages(v)    == vm' = v /\ UNCHANGED <<files, stack, data, force, bounds>>

\* Where the processes have containers that no finished launch accounts for.
Unfinished(p) == cmd[p].kind = "launch" /\
  pc[p] \in {"up", "admin", "password", "bind", "receipt", "receipting"}

\* Two commands that may spoil each other's work: anything but launches of
\* one directory and release, status and stop.
Crosses(c, p) ==
  /\ pc[p] # "idle"
  /\ \/ cmd[p].dir # c.dir
     \/ "destroy" \in {c.kind, cmd[p].kind}
     \/ c.kind = "launch" /\ cmd[p].kind = "launch" /\ c.release # cmd[p].release

-------------------------------------------------------------------------------
(* launch: the directory.                                                  *)

\* Nothing keeps commands apart.  Bound: one that crosses another counts as a
\* stop, and is the last to begin; both run to their ends.
Begin(p, c) ==
  /\ At(p, "idle") /\ ~crossed
  /\ \/ /\ \E q \in Procs : Crosses(c, q)
        /\ stops < MaxStops /\ stops' = stops + 1 /\ crossed' = TRUE
     \/ (\A q \in Procs : ~Crosses(c, q)) /\ UNCHANGED <<stops, crossed>>
  /\ pc' = [pc EXCEPT ![p] = IF c.kind = "launch" THEN "marker" ELSE "owner"]
  /\ cmd' = [cmd EXCEPT ![p] = c] /\ last' = [last EXCEPT ![p] = "none"]
  /\ UNCHANGED <<files, machine, force, mishaps, wipes>>

\* The owner marker as `launch` reads it: a node.yaml without a marker is
\* somebody's unmanaged appliance.
MayLaunch(p) == vm.marker = Dir(p) \/ (vm.marker = None /\ vm.node = None)

CheckMarker(p) ==
  /\ At(p, "marker") /\ MayLaunch(p)
  /\ Goto(p, IF Mine(p).node = "absent" THEN "secrets" ELSE "load")
  /\ UNCHANGED <<files, machine, force, bounds>>

\* initialize_secret_directory: an existing directory is kept ...
SecretsKept(p) ==
  /\ At(p, "secrets") /\ Mine(p).secrets # None
  /\ Goto(p, "node")
  /\ UNCHANGED <<files, machine, force, bounds>>

\* ... and a new one is staged ...
SecretsStage(p) ==
  /\ At(p, "secrets") /\ Mine(p).secrets = None
  /\ Goto(p, "rename")
  /\ UNCHANGED <<files, machine, force, bounds>>

Held(b) == b \in {vm.secrets, vm.runtime, data.batch} \cup {files[d].secrets : d \in Dirs}

\* Mutant: the staged directory replaces one that appeared meanwhile.
SecretsReplace(p) ==
  /\ At(p, "rename")
  /\ \E b \in Batches : ~Held(b) /\ Writes(p, [Mine(p) EXCEPT !.secrets = b])
  /\ Goto(p, "node")

\* ... and renamed into place, which fails over a directory that is not empty.
SecretsRename(p) ==
  /\ At(p, "rename") /\ Mine(p).secrets = None
  /\ \E b \in Batches : ~Held(b) /\ Writes(p, [Mine(p) EXCEPT !.secrets = b])
  /\ Goto(p, "node")

\* The licence is requested, the Telnyx values fetched, and node.yaml
\* created: protected_write fails over an existing file.
NodeOpen(p) ==
  /\ At(p, "node") /\ Mine(p).node = "absent"
  /\ Writes(p, [Mine(p) EXCEPT !.node = "torn"])
  /\ Goto(p, "noding")

NodeWrite(p) ==
  /\ At(p, "noding")
  /\ Writes(p, [Mine(p) EXCEPT !.node = "ok", !.release = cmd[p].release])
  /\ Goto(p, "load")

\* node.yaml is read back.  It is rewritten in place for the Telnyx bindings,
\* and once more for another release.
Load(p) ==
  /\ At(p, "load") /\ Mine(p).node = "ok"
  /\ Goto(p, CASE cmd[p].telnyx -> "telnyx"
               [] ~cmd[p].telnyx /\ Mine(p).release # cmd[p].release -> "release"
               [] OTHER -> "render")
  /\ UNCHANGED <<files, machine, force, bounds>>

RewriteOpen(p) ==
  /\ pc[p] \in {"telnyx", "release"}
  /\ Writes(p, [Mine(p) EXCEPT !.node = "torn"])
  /\ Goto(p, IF At(p, "telnyx") THEN "telnyxing" ELSE "releasing")

TelnyxWrite(p) ==
  /\ At(p, "telnyxing")
  /\ Writes(p, [Mine(p) EXCEPT !.node = "ok"])
  /\ Goto(p, IF Mine(p).release # cmd[p].release THEN "release" ELSE "render")

ReleaseWrite(p) ==
  /\ At(p, "releasing")
  /\ Writes(p, [Mine(p) EXCEPT !.node = "ok", !.release = cmd[p].release])
  /\ Goto(p, "render")

-------------------------------------------------------------------------------
(* launch: the VM.                                                         *)

\* `local-thelve-node render` reads node.yaml; its output is copied to
\* /opt/thelve/current and /etc/thelve/runtime.env.
StageRender(p) ==
  /\ At(p, "render") /\ Mine(p).node = "ok"
  /\ Stages([vm EXCEPT !.render = cmd[p].release])
  /\ Goto(p, "stage")

\* The copy of a file that another terminal is writing is torn.
StageNode(p) ==
  /\ At(p, "stage")
  /\ Stages([vm EXCEPT !.node = IF Mine(p).node = "ok" THEN Dir(p) ELSE "torn"])
  /\ Goto(p, "copy")

\* The secrets and the node binary.
StageSecrets(p) ==
  /\ At(p, "copy")
  /\ Stages([vm EXCEPT !.secrets = Mine(p).secrets])
  /\ Goto(p, "ownerfile")

OwnerOpen(p) ==
  /\ At(p, "ownerfile")
  /\ Writes(p, [Mine(p) EXCEPT !.owner = "torn"])
  /\ Goto(p, "ownering")

OwnerWrite(p) ==
  /\ At(p, "ownering")
  /\ Writes(p, [Mine(p) EXCEPT !.owner = "ok"])
  /\ Goto(p, "mark")

\* The owner file is copied to /etc/thelve/local-owner, the last file staged.
StageMarker(p) ==
  /\ At(p, "mark") /\ vm.node # None
  /\ Stages([vm EXCEPT !.marker = Dir(p)])
  /\ Goto(p, "activate")

\* `thelve-node activate-secrets`, and the receipt of the last launch that
\* finished: were these containers made for another release?
ActivateSecrets(p) ==
  /\ At(p, "activate") /\ vm.node \in Dirs /\ Mine(p).receipt # "torn"
  /\ vm' = [vm EXCEPT !.runtime = vm.secrets]
  /\ force' = [force EXCEPT ![p] =
       Mine(p).receipt = "ok" /\ Mine(p).finished # cmd[p].release]
  /\ Goto(p, "up")
  /\ UNCHANGED <<files, stack, data, bounds>>

\* Mutant: a change of release does not recreate the containers.
ContainersKept(p) ==
  IF stack.release = None THEN cmd[p].release ELSE stack.release

\* Containers that exist keep what they cached unless they are recreated.
Containers(p) ==
  IF force[p] \/ stack.release = None THEN cmd[p].release ELSE stack.release

\* Containers made anew owe nothing to launches that did not finish.
Remade(p, hs) == IF force[p] \/ stack.release = None THEN hs \ {"unfinished"} ELSE hs

\* `docker compose up --wait`: an empty data directory is initialised with
\* the secrets in tmpfs; over another batch the services stay unhealthy.
ComposeUp(p) ==
  /\ At(p, "up") /\ vm.render # None /\ data.batch \in {None, vm.runtime}
  /\ stack' = [release |-> Containers(p), ready |-> TRUE]
  /\ data' = IF data.batch = None THEN [NoData EXCEPT !.batch = vm.runtime] ELSE data
  /\ mishaps' = Remade(p, mishaps)
  /\ Goto(p, "admin")
  /\ UNCHANGED <<files, vm, force, stops, wipes, crossed>>

\* The wait times out, over its own fault or the data of another batch.
ComposeUpFails(p) ==
  /\ At(p, "up") /\ vm.render # None
  /\ \/ data.batch \notin {None, vm.runtime} /\ UNCHANGED stops
     \/ stops < MaxStops /\ stops' = stops + 1
  /\ stack' \in {[release |-> Containers(p), ready |-> FALSE], [stack EXCEPT !.ready = FALSE]}
  /\ data' \in {data} \cup (IF data.batch = None THEN {[NoData EXCEPT !.batch = vm.runtime]}
                                                 ELSE {})
  /\ mishaps' = mishaps \cup {"unfinished"}
  /\ Ends(p, "failed")
  /\ UNCHANGED <<files, vm, wipes, crossed>>

\* finish_administrator signs in with the directory's bootstrap password.
SignsIn(p) == stack.ready /\ data.batch = Mine(p).secrets

\* Mutant: an administrator who exists gets another password.
AdministratorReset(p) ==
  /\ At(p, "admin") /\ SignsIn(p)
  /\ \E w \in Passwords : /\ w \notin {files[d].password : d \in Dirs} \cup {data.admin}
                          /\ data' = [data EXCEPT !.admin = w]
  /\ Goto(p, "password")
  /\ UNCHANGED <<files, vm, stack, force, bounds>>

AdministratorCreated(p) ==
  /\ At(p, "admin") /\ SignsIn(p) /\ data.admin = None
  /\ \E w \in Passwords : /\ w \notin {files[d].password : d \in Dirs}
                          /\ data' = [data EXCEPT !.admin = w]
  /\ Goto(p, "password")
  /\ UNCHANGED <<files, vm, stack, force, bounds>>

\* Mutant: an administrator who exists is taken to be linked already.
AdministratorExistsDone(p) ==
  /\ At(p, "admin") /\ SignsIn(p) /\ data.admin # None
  /\ Goto(p, "receipt")
  /\ UNCHANGED <<files, machine, force, bounds>>

AdministratorExists(p) ==
  /\ At(p, "admin") /\ SignsIn(p) /\ data.admin # None
  /\ Goto(p, "bind")
  /\ UNCHANGED <<files, machine, force, bounds>>

\* Mutant: the bootstrap password is saved for the temporary one.
SavePasswordBootstrap(p) ==
  /\ At(p, "password") /\ Mine(p).password = None
  /\ Writes(p, [Mine(p) EXCEPT !.password = Mine(p).secrets])
  /\ Goto(p, "bind")

\* initial-admin-password (protected_write: create_new).
SavePassword(p) ==
  /\ At(p, "password") /\ Mine(p).password = None
  /\ Writes(p, [Mine(p) EXCEPT !.password = data.admin])
  /\ Goto(p, "bind")

\* administrator_subject and `bootstrap-administrator`.
BindAdministrator(p) ==
  /\ At(p, "bind") /\ SignsIn(p)
  /\ data' = [data EXCEPT !.bound = TRUE]
  /\ Goto(p, "receipt")
  /\ UNCHANGED <<files, vm, stack, force, bounds>>

ReceiptOpen(p) ==
  /\ At(p, "receipt")
  /\ Writes(p, [Mine(p) EXCEPT !.receipt = "torn"])
  /\ Goto(p, "receipting")

ReceiptWrite(p) ==
  /\ At(p, "receipting")
  /\ files' = [files EXCEPT ![Dir(p)].receipt = "ok", ![Dir(p)].finished = cmd[p].release]
  /\ Ends(p, "ok")
  /\ UNCHANGED <<machine, bounds>>

-------------------------------------------------------------------------------
(* operate: status, stop and destroy.                                      *)

MayOperate(p) == Mine(p).owner = "ok" /\ vm.marker = Dir(p)

CheckOwner(p) ==
  /\ At(p, "owner") /\ MayOperate(p)
  /\ IF cmd[p].kind = "status" THEN Ends(p, "ok") ELSE Goto(p, "down") /\ UNCHANGED force
  /\ UNCHANGED <<files, machine, bounds>>

\* The gateway is drained, acknowledged or not; `docker compose down`.
Down(p) ==
  /\ At(p, "down") /\ vm.render # None
  /\ stack' = NoStack
  /\ mishaps' = mishaps \ {"unfinished"}
  /\ IF cmd[p].kind = "stop" THEN Ends(p, "ok") ELSE Goto(p, "rmetc") /\ UNCHANGED force
  /\ UNCHANGED <<files, vm, data, stops, wipes, crossed>>

\* One `rm -rf` of four directories, in this order.
RemoveEtc(p) ==
  /\ At(p, "rmetc")
  /\ vm' = [NoVm EXCEPT !.runtime = vm.runtime, !.render = vm.render]
  /\ Goto(p, "rmopt")
  /\ UNCHANGED <<files, stack, data, force, bounds>>

RemoveOpt(p) ==
  /\ At(p, "rmopt")
  /\ vm' = [vm EXCEPT !.render = None]
  /\ Goto(p, "rmdata")
  /\ UNCHANGED <<files, stack, data, force, bounds>>

RemoveData(p) ==
  /\ At(p, "rmdata")
  /\ data' = NoData /\ vm' = [vm EXCEPT !.runtime = None]
  /\ Goto(p, "rmdir")
  /\ UNCHANGED <<files, stack, force, bounds>>

RemoveDirectory(p) ==
  /\ At(p, "rmdir")
  /\ files' = [files EXCEPT ![Dir(p)] = NoFiles]
  /\ Ends(p, "ok")
  /\ UNCHANGED <<machine, bounds>>

-------------------------------------------------------------------------------
(* Failures and the operator.                                              *)

\* The early returns and the calls that fail on what they find.
Refused(p) ==
  \/ At(p, "marker") /\ ~MayLaunch(p)
  \/ At(p, "rename") /\ Mine(p).secrets # None
  \/ At(p, "node") /\ Mine(p).node # "absent"
  \/ pc[p] \in {"load", "render"} /\ Mine(p).node # "ok"
  \/ At(p, "mark") /\ vm.node = None
  \/ At(p, "activate") /\ vm.node \notin Dirs
  \/ At(p, "activate") /\ Mine(p).receipt = "torn"
  \/ pc[p] \in {"up", "down"} /\ vm.render = None
  \/ pc[p] \in {"admin", "bind"} /\ ~SignsIn(p)
  \/ At(p, "password") /\ Mine(p).password # None
  \/ At(p, "owner") /\ ~MayOperate(p)

Blame(p) == (IF Unfinished(p) THEN {"unfinished"} ELSE {})
              \cup (IF pc[p] \in {"rmopt", "rmdata", "rmdir"} THEN {"destroy"} ELSE {})
              \cup (IF At(p, "password") THEN {"lost"} ELSE {})

Refuse(p) ==
  /\ Refused(p)
  /\ mishaps' = mishaps \cup Blame(p)
  /\ Ends(p, "refused")
  /\ UNCHANGED <<files, machine, stops, wipes, crossed>>

\* The command ends here: interrupted, or a local or remote call failed.
Stop(p) ==
  /\ pc[p] # "idle" /\ stops < MaxStops
  /\ stops' = stops + 1 /\ mishaps' = mishaps \cup Blame(p)
  /\ Ends(p, "failed")
  /\ UNCHANGED <<files, machine, wipes, crossed>>

\* `colima delete` and `colima start`.
Wipe ==
  /\ Quiet /\ wipes < MaxWipes /\ wipes' = wipes + 1
  /\ vm' = NoVm /\ stack' = NoStack /\ data' = NoData
  /\ mishaps' = (mishaps \ {"unfinished"}) \cup {"wipe"}
  /\ UNCHANGED <<files, pc, cmd, force, last, stops, crossed>>

Launching(p) ==
  \/ CheckMarker(p) \/ SecretsKept(p) \/ SecretsStage(p) \/ SecretsRename(p)
  \/ NodeOpen(p) \/ NodeWrite(p) \/ Load(p) \/ RewriteOpen(p) \/ TelnyxWrite(p)
  \/ ReleaseWrite(p) \/ StageRender(p) \/ StageNode(p) \/ StageSecrets(p)
  \/ OwnerOpen(p) \/ OwnerWrite(p) \/ StageMarker(p) \/ ActivateSecrets(p)
  \/ ComposeUp(p) \/ AdministratorCreated(p) \/ AdministratorExists(p)
  \/ SavePassword(p) \/ BindAdministrator(p) \/ ReceiptOpen(p) \/ ReceiptWrite(p)

Operating(p) ==
  \/ CheckOwner(p) \/ Down(p) \/ RemoveEtc(p) \/ RemoveOpt(p) \/ RemoveData(p)
  \/ RemoveDirectory(p)

Next ==
  \/ \E p \in Procs :
       \/ \E c \in Commands : Begin(p, c)
       \/ Launching(p) \/ Operating(p)
       \/ Refuse(p) \/ ComposeUpFails(p) \/ Stop(p)
  \/ Wipe

Spec == Init /\ [][Next]_vars

-------------------------------------------------------------------------------
(* Properties.                                                             *)

\* Every variable keeps to the values the code can give it.
TypeOK ==
  /\ files \in [Dirs -> [node : FileState, release : Releases \cup {None},
                         secrets : Batches \cup {None}, owner : FileState,
                         receipt : FileState, finished : Releases \cup {None},
                         password : Passwords \cup {None}]]
  /\ vm \in [render : Releases \cup {None}, node : Dirs \cup {"torn", None},
             secrets : Batches \cup {None}, marker : Dirs \cup {None},
             runtime : Batches \cup {None}]
  /\ stack \in [release : Releases \cup {None}, ready : BOOLEAN]
  /\ data \in [batch : Batches \cup {None}, admin : Passwords \cup {None}, bound : BOOLEAN]
  /\ pc \in [Procs -> {"idle", "marker", "secrets", "rename", "node", "noding", "load",
                       "telnyx", "telnyxing", "release", "releasing", "render", "stage",
                       "copy", "ownerfile", "ownering", "mark", "activate", "up", "admin",
                       "password", "bind", "receipt", "receipting", "owner", "down",
                       "rmetc", "rmopt", "rmdata", "rmdir"}]
  /\ cmd \in [Procs -> Commands \cup {NoCommand}]
  /\ force \in [Procs -> BOOLEAN]
  /\ last \in [Procs -> {"none", "ok", "refused", "failed"}]
  /\ mishaps \subseteq {"unfinished", "destroy", "wipe", "lost"}
  /\ crossed \in BOOLEAN /\ stops \in 0..MaxStops /\ wipes \in 0..MaxWipes

\* Wherever commands stop, data in the VM can be found and removed again: the
\* marker names a directory that has an owner file and the very secrets the
\* data was initialised with, through two first launches of one directory at
\* once.  Except a destroy stopped half way, whose marker goes first and
\* whose data last (local.rs:656), and commands that crossed.
Removing == \E p \in Procs : pc[p] \in {"rmopt", "rmdata"}
DataHasOwner ==
  data.batch # None /\ ~crossed /\ "destroy" \notin mishaps /\ ~Removing =>
    \E d \in Dirs : /\ vm.marker = d /\ files[d].owner # "absent"
                    /\ files[d].secrets = data.batch

\* What docs/runbooks/local-development.md:18 says of the owner marker: it
\* prevents one local directory from overwriting another's appliance.  Each
\* launch looks at it once, before it has anything to show of its own
\* (local.rs:257); two that cross both find it free.
OwnerUndisturbed ==
  [][\A p \in Procs :
       pc'[p] # pc[p] /\ pc[p] # "idle" /\ vm.marker \notin {None, Dir(p)}
         => UNCHANGED machine]_vars

\* Containers that serve hold the release the directory's receipt names,
\* through upgrades, downgrades and stopped launches, unless containers of a
\* launch that did not finish were never made anew, or commands crossed.
ReleaseRefreshed ==
  Quiet /\ ~crossed /\ "unfinished" \notin mishaps =>
    \A d \in Dirs : vm.marker = d /\ files[d].receipt = "ok" /\ stack.ready
                      => stack.release = files[d].finished

\* The owner of an appliance with an administrator finds the password in his
\* file: it is never wrong, and missing only while the launch that created the
\* administrator is about to save it, or since that launch ended right there
\* (local.rs:503).  Unless the VM was deleted or a destroy stopped and left an
\* older file, or commands crossed.
Saving(d) == \E p \in Procs : At(p, "password") /\ Dir(p) = d
PasswordFileTrue ==
  ~crossed /\ mishaps \cap {"destroy", "wipe"} = {} =>
    \A d \in Dirs : vm.marker = d =>
      \/ files[d].password = data.admin
      \/ files[d].password = None /\ (Saving(d) \/ "lost" \in mishaps)

\* A launch that reports the appliance ready left an administrator linked to
\* the tenant, on data that this directory's secrets open, also over what
\* deleted VMs, stopped destroys and other directories left, and while
\* another terminal launches or stops the same appliance.
ReadyMeansReady ==
  [][\A p \in Procs :
       ~crossed /\ cmd[p].kind = "launch" /\ last'[p] = "ok"
         => data.admin # None /\ data.bound /\ data.batch = Mine(p).secrets]_vars

===============================================================================
