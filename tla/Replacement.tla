------------------------------ MODULE Replacement ------------------------------
(***************************************************************************)
(* `thelve deploy replace-node`, `thelve backup create` and `thelve backup *)
(* restore` (src/recovery.rs): the VM of a deployment is replaced, the new *)
(* one activated and a verified backup restored on it.  Between applying   *)
(* the replacement and finishing the restore the command can end at any    *)
(* point; a checkpoint beside the receipt lets the same command go on      *)
(* without replacing the VM again.                                         *)
(*                                                                         *)
(* Nothing keeps two terminals apart: their commands interleave, over one  *)
(* receipt or several.  The operator may meanwhile pause and resume the    *)
(* host, apply an intent that recreates it, or activate it by hand.        *)
(***************************************************************************)
EXTENDS Naturals

CONSTANTS
  Terminals,     \* each runs one command at a time
  Paths,         \* receipt paths
  Backups,       \* backup ids
  Releases,      \* signed releases
  Commands,      \* the commands an operator may run
  MaxActs,       \* bound: what else the operator does to the host
  MaxStops,      \* bound: commands that are stopped or fail remotely
  MaxVms         \* bound: VMs created over the life of the deployment

Command == [kind : {"replace", "restore", "create"}, path : Paths,
            backup : Backups, release : Releases]

ASSUME ParameterAssumption ==
  /\ Commands \subseteq Command
  /\ MaxActs \in Nat /\ MaxStops \in Nat /\ MaxVms \in Nat \ {0}

\* What a node's database holds: the tenant's data, an empty schema, or
\* what a restore that failed half way left.
Data == {"tenant", "empty", "partial"}

VARIABLES
  \* The workstation's files.
  receipt,      \* path -> state of the receipt file
  checkpoint,   \* path -> RECEIPT.pending: its state, the command, the VMs
  \* The cloud.
  vm,           \* generation of the VM: instance and boot disk identity
  power,        \* instance_status: "RUNNING", "TERMINATED", or "none"
  image,        \* whether a new VM has the backup tools before activation
  archive,      \* backup id -> what the encrypted archive holds
  node,         \* the appliance on the current VM
  \* Per terminal, the command in progress and the VMs it has identified.
  pc, cmd, before, after,
  \* History.
  alone,        \* no other command has touched the node since this one began
  raced,        \* two replacements have been under way at once
  applied,      \* path -> replacements its commands applied
  hand,         \* the operator recreated or activated the node by hand
  acts, stops

vars == <<receipt, checkpoint, vm, power, image, archive, node, pc, cmd,
          before, after, alone, raced, applied, hand, acts, stops>>
files   == <<receipt, checkpoint>>
cloud   == <<vm, power, image, archive>>
session == <<pc, cmd, before, after, alone>>
history == <<raced, applied, hand, acts, stops>>

FileState == {"absent", "torn", "ok"}
Checkpoint == [state : FileState, backup : Backups \cup {"none"},
               release : Releases \cup {"none"}, before : 0..MaxVms, after : 0..MaxVms]
Node == [release : Releases \cup {"none"}, data : Data,
         service : {"none", "stopped", "active"}]
NoCheckpoint == [state |-> "absent", backup |-> "none", release |-> "none",
                 before |-> 0, after |-> 0]
NoCommand == [kind |-> "none"]

\* A VM as Terraform creates it: no release installed, nothing served.
Bare == [release |-> "none", data |-> "empty", service |-> "none"]

\* A deployment that serves its tenant, with or without a backup.
Init ==
  /\ receipt = [p \in Paths |-> "absent"]
  /\ checkpoint = [p \in Paths |-> NoCheckpoint]
  /\ vm = 1 /\ power = "RUNNING"
  /\ image \in {"tooled", "bare"}
  /\ \E b \in Backups \cup {"none"} :
       archive = [a \in Backups |-> IF a = b THEN "tenant" ELSE "none"]
  /\ \E r \in Releases : node = [release |-> r, data |-> "tenant", service |-> "active"]
  /\ pc = [t \in Terminals |-> "idle"] /\ cmd = [t \in Terminals |-> NoCommand]
  /\ before = [t \in Terminals |-> 0] /\ after = [t \in Terminals |-> 0]
  /\ alone = [t \in Terminals |-> FALSE] /\ raced = FALSE
  /\ applied = [p \in Paths |-> 0] /\ hand = "no" /\ acts = 0 /\ stops = 0

-------------------------------------------------------------------------------
(* Helpers.                                                                *)

At(t, l) == pc[t] = l
Path(t)  == cmd[t].path

Replaces(t) == cmd[t].kind = "replace"
Disturbs(t) == cmd[t].kind \in {"replace", "restore"}

\* capture_gcp_remote reaches the node, and /opt/thelve/bin is there.
Reachable == power = "RUNNING"
Tools == Reachable /\ (image = "tooled" \/ node.release # "none")

\* validate_replacement_checkpoint.
Resumable(t) ==
  LET cp == checkpoint[Path(t)] IN
  /\ cp.state = "ok"
  /\ cp.backup = cmd[t].backup /\ cp.release = cmd[t].release
  /\ cp.before # cp.after /\ cp.after = vm
  /\ Reachable

Goto(t, l) == pc' = [pc EXCEPT ![t] = l] /\ UNCHANGED <<cmd, before, after, alone>>
Ends(t) ==
  /\ pc' = [pc EXCEPT ![t] = "idle"] /\ cmd' = [cmd EXCEPT ![t] = NoCommand]
  /\ before' = [before EXCEPT ![t] = 0] /\ after' = [after EXCEPT ![t] = 0]
  /\ alone' = [alone EXCEPT ![t] = FALSE]

\* A failure of a remote command, counted against the bound.
Fails == stops < MaxStops /\ stops' = stops + 1 /\ UNCHANGED <<raced, applied, hand, acts>>

-------------------------------------------------------------------------------
(* The commands.                                                           *)

\* What a new command is to those in progress.
Overlaps(t, c) ==
  /\ alone' = [u \in Terminals |-> IF u = t THEN \A o \in Terminals \ {t} : ~Disturbs(o)
                                   ELSE alone[u] /\ c.kind = "create"]
  /\ raced' = (raced \/ (c.kind = "replace" /\ \E u \in Terminals : Replaces(u)))

\* Mutant: a restore begins without verifying its backup.
BeginUnverified(t, c) ==
  /\ At(t, "idle") /\ receipt[c.path] = "absent"
  /\ c.kind = "replace" => vm < MaxVms
  /\ c.kind = "create" => \E b \in Backups : archive[b] = "none"
  /\ pc' = [pc EXCEPT ![t] = IF c.kind = "replace" THEN "verify" ELSE c.kind]
  /\ cmd' = [cmd EXCEPT ![t] = c] /\ Overlaps(t, c)
  /\ UNCHANGED <<files, cloud, node, before, after, applied, hand, acts, stops>>

\* None of the three runs over an existing receipt.
Begin(t, c) ==
  /\ At(t, "idle") /\ receipt[c.path] = "absent"
  /\ c.kind = "replace" => vm < MaxVms
  /\ c.kind = "create" => \E b \in Backups : archive[b] = "none"
  /\ pc' = [pc EXCEPT ![t] = IF c.kind = "create" THEN "create" ELSE "verify"]
  /\ cmd' = [cmd EXCEPT ![t] = c] /\ Overlaps(t, c)
  /\ UNCHANGED <<files, cloud, node, before, after, applied, hand, acts, stops>>

\* create_backup: the backup id is new (Uuid::new_v4).
CreateBackup(t) ==
  /\ At(t, "create") /\ Tools
  /\ \E b \in Backups :
       archive[b] = "none" /\ archive' = [archive EXCEPT ![b] = node.data]
  /\ Goto(t, "receipt")
  /\ UNCHANGED <<files, vm, power, image, node, history>>

\* Mutant: the backup's receipt is not validated.
VerifyBackupUnseen(t) ==
  /\ At(t, "verify") /\ Tools
  /\ Goto(t, CASE ~Replaces(t) -> "restore"
               [] Replaces(t) /\ checkpoint[Path(t)].state # "absent" -> "resume"
               [] OTHER -> "inspect")
  /\ UNCHANGED <<files, cloud, node, history>>

\* verify_backup, on the node that is there, before anything else; then the
\* command resumes if it finds a checkpoint.
VerifyBackup(t) ==
  /\ At(t, "verify") /\ Tools /\ archive[cmd[t].backup] # "none"
  /\ Goto(t, CASE ~Replaces(t) -> "restore"
               [] Replaces(t) /\ checkpoint[Path(t)].state # "absent" -> "resume"
               [] OTHER -> "inspect")
  /\ UNCHANGED <<files, cloud, node, history>>

\* The command goes on with the identities the checkpoint holds.
Resumes(t) ==
  /\ pc' = [pc EXCEPT ![t] = "activate"]
  /\ before' = [before EXCEPT ![t] = checkpoint[Path(t)].before]
  /\ after' = [after EXCEPT ![t] = checkpoint[Path(t)].after]
  /\ UNCHANGED <<files, cloud, node, cmd, alone, history>>

\* Mutant: the checkpoint's prior identity is taken for the current one.
ResumeSwapped(t) ==
  /\ At(t, "resume") /\ Resumable(t) /\ checkpoint[Path(t)].before = vm
  /\ Resumes(t)

Resume(t) == At(t, "resume") /\ Resumable(t) /\ Resumes(t)

\* Mutant: a node without a contact is replaced all the same.
InspectAny(t) ==
  /\ At(t, "inspect") /\ Reachable
  /\ pc' = [pc EXCEPT ![t] = "apply"] /\ before' = [before EXCEPT ![t] = vm]
  /\ UNCHANGED <<files, cloud, node, cmd, after, alone, history>>

\* The TLS contact is read from /etc/thelve/node.yaml, which only an
\* activated node has; then cloud_identity.
Inspect(t) ==
  /\ At(t, "inspect") /\ Reachable /\ node.release # "none"
  /\ pc' = [pc EXCEPT ![t] = "apply"] /\ before' = [before EXCEPT ![t] = vm]
  /\ UNCHANGED <<files, cloud, node, cmd, after, alone, history>>

\* terraform::replace_gcp_node: the plan replaces the instance that is there
\* and nothing else.  Terraform destroys the old VM, then creates the new one.
Apply(t) ==
  /\ At(t, "apply") /\ power # "none" /\ vm < MaxVms
  /\ vm' = vm + 1 /\ power' = "RUNNING" /\ node' = Bare
  /\ applied' = [applied EXCEPT ![Path(t)] = @ + 1]
  /\ Goto(t, "applied")
  /\ UNCHANGED <<files, image, archive, raced, hand, acts, stops>>

ApplyFailsHalfway(t) ==
  /\ At(t, "apply") /\ power # "none" /\ Fails
  /\ power' = "none" /\ node' = Bare
  /\ Ends(t)
  /\ UNCHANGED <<files, vm, image, archive>>

\* cloud_identity again, and validate_replacement_identities.
Identify(t) ==
  /\ At(t, "applied") /\ Reachable /\ before[t] # vm
  /\ pc' = [pc EXCEPT ![t] = "identified"] /\ after' = [after EXCEPT ![t] = vm]
  /\ UNCHANGED <<files, cloud, node, cmd, before, alone, history>>

\* The checkpoint (create_private, create_new).
CheckpointOpen(t) ==
  /\ At(t, "identified") /\ checkpoint[Path(t)].state = "absent"
  /\ checkpoint' = [checkpoint EXCEPT ![Path(t)] =
       [state |-> "torn", backup |-> cmd[t].backup, release |-> cmd[t].release,
        before |-> before[t], after |-> after[t]]]
  /\ Goto(t, "checkpointing")
  /\ UNCHANGED <<receipt, cloud, node, history>>

\* What is written to a file that was removed meanwhile is gone with it.
CheckpointWrite(t) ==
  /\ At(t, "checkpointing")
  /\ checkpoint' = IF checkpoint[Path(t)].state = "torn"
                   THEN [checkpoint EXCEPT ![Path(t)].state = "ok"] ELSE checkpoint
  /\ Goto(t, "activate")
  /\ UNCHANGED <<receipt, cloud, node, history>>

\* render_node_config and activate_gcp with the command's release: the
\* database stays as it is.
Activate(t) ==
  /\ At(t, "activate") /\ Reachable
  /\ node' = [node EXCEPT !.release = cmd[t].release, !.service = "active"]
  /\ Goto(t, "restore")
  /\ UNCHANGED <<files, cloud, history>>

\* The remote script ended before it touched the node, after it stopped the
\* service it found, after installing, or after starting without readiness.
HalfActivated(r) ==
  {node} \cup {[node EXCEPT !.release = r, !.service = s] : s \in {"stopped", "active"}}
    \cup {n \in {[node EXCEPT !.service = "stopped"]} : node.release # "none"}

ActivateFails(t) ==
  /\ At(t, "activate") /\ Reachable /\ Fails
  /\ node' \in HalfActivated(cmd[t].release)
  /\ Ends(t)
  /\ UNCHANGED <<files, cloud>>

\* Mutant: the receipt's target release is not validated.
RestoreAny(t) ==
  /\ At(t, "restore") /\ Tools
  /\ node' = [node EXCEPT !.data = archive[cmd[t].backup], !.service = "active"]
  /\ Goto(t, "receipt")
  /\ UNCHANGED <<files, cloud, history>>

\* restore_on_active_node: thelve-restore, then validate_restore_receipt,
\* which wants the release the command was given.
Restore(t) ==
  /\ At(t, "restore") /\ Tools /\ node.release = cmd[t].release
  /\ node' = [node EXCEPT !.data = archive[cmd[t].backup], !.service = "active"]
  /\ Goto(t, "receipt")
  /\ UNCHANGED <<files, cloud, history>>

RestoreForAnotherRelease(t) ==
  /\ At(t, "restore") /\ Tools /\ node.release # cmd[t].release
  /\ node' = [node EXCEPT !.data = archive[cmd[t].backup], !.service = "active"]
  /\ Goto(t, "failclose")
  /\ UNCHANGED <<files, cloud, history>>

RestoreFails(t) ==
  /\ At(t, "restore") /\ Tools /\ Fails
  /\ \E d \in {node.data, "partial", archive[cmd[t].backup]}, s \in {node.service, "stopped"} :
       node' = [node EXCEPT !.data = d, !.service = s]
  /\ Goto(t, "failclose")
  /\ UNCHANGED <<files, cloud>>

\* The host was paused, or the VM of this command replaced by another.
RestoreNotThere(t) ==
  /\ At(t, "restore") /\ ~Tools
  /\ Goto(t, "failclose")
  /\ UNCHANGED <<files, cloud, node, history>>

\* After a failed restore the application is stopped by one more remote
\* command ...
FailClose(t) ==
  /\ At(t, "failclose")
  /\ node' = IF Reachable THEN [node EXCEPT !.service = "stopped"] ELSE node
  /\ Ends(t)
  /\ UNCHANGED <<files, cloud, history>>

\* ... whose own failure is ignored: the message is the same.
FailCloseFails(t) ==
  /\ At(t, "failclose") /\ Reachable /\ Fails
  /\ Ends(t)
  /\ UNCHANGED <<files, cloud, node>>

\* create_private of the receipt, then the checkpoint is removed; that it
\* cannot be removed is a warning.
ReceiptOpen(t) ==
  /\ At(t, "receipt") /\ receipt[Path(t)] = "absent"
  /\ receipt' = [receipt EXCEPT ![Path(t)] = "torn"]
  /\ Goto(t, "writing")
  /\ UNCHANGED <<checkpoint, cloud, node, history>>

ReceiptWrite(t) ==
  /\ At(t, "writing")
  /\ receipt' = [receipt EXCEPT ![Path(t)] = "ok"]
  /\ IF Replaces(t) THEN Goto(t, "cleanup") ELSE Ends(t)
  /\ UNCHANGED <<checkpoint, cloud, node, history>>

Cleanup(t) ==
  /\ At(t, "cleanup")
  /\ checkpoint' \in {checkpoint, [checkpoint EXCEPT ![Path(t)] = NoCheckpoint]}
  /\ Ends(t)
  /\ UNCHANGED <<receipt, cloud, node, history>>

\* The early returns.  A plan is refused when it does not replace exactly
\* the instance, and when the state has changed since it was saved.
Refused(t) ==
  \/ pc[t] \in {"create", "verify"} /\ ~Tools
  \/ At(t, "create") /\ \A b \in Backups : archive[b] # "none"
  \/ At(t, "verify") /\ archive[cmd[t].backup] = "none"
  \/ At(t, "resume") /\ ~Resumable(t)
  \/ At(t, "inspect") /\ (~Reachable \/ node.release = "none")
  \/ At(t, "apply") /\ (power = "none" \/ vm # before[t] \/ vm = MaxVms)
  \/ At(t, "applied") /\ (~Reachable \/ before[t] = vm)
  \/ At(t, "identified") /\ checkpoint[Path(t)].state # "absent"
  \/ At(t, "activate") /\ ~Reachable
  \/ At(t, "receipt") /\ receipt[Path(t)] # "absent"

Refuse(t) ==
  /\ Refused(t) /\ Ends(t)
  /\ UNCHANGED <<files, cloud, node, history>>

\* The command ends here: interrupted, or a local or cloud call failed.
Stop(t) ==
  /\ ~At(t, "idle") /\ Fails
  /\ Ends(t)
  /\ UNCHANGED <<files, cloud, node>>

-------------------------------------------------------------------------------
(* What else the operator does to the host, at any time.                   *)

Acts ==
  /\ acts < MaxActs /\ acts' = acts + 1 /\ alone' = [t \in Terminals |-> FALSE]
  /\ UNCHANGED <<files, image, archive, pc, cmd, before, after, raced, applied, stops>>

\* `thelve deploy pause` and `resume`.
SetPower(s) ==
  /\ Acts /\ power # "none" /\ power # s
  /\ power' = s
  /\ UNCHANGED <<vm, node, hand>>

\* `thelve deploy up` with an intent that replaces the VM, or without one.
Recreate ==
  /\ Acts /\ vm < MaxVms
  /\ vm' = vm + 1 /\ power' = "RUNNING" /\ node' = Bare /\ hand' = "yes"

\* `thelve deploy activate-gcp`.
ActivateByHand(r) ==
  /\ Acts /\ Reachable
  /\ node' = [node EXCEPT !.release = r, !.service = "active"]
  /\ hand' = "yes"
  /\ UNCHANGED <<vm, power>>

-------------------------------------------------------------------------------
Session(t) ==
  \/ \E c \in Commands : Begin(t, c)
  \/ CreateBackup(t) \/ VerifyBackup(t) \/ Resume(t) \/ Inspect(t) \/ Apply(t)
  \/ Identify(t) \/ CheckpointOpen(t) \/ CheckpointWrite(t) \/ Activate(t)
  \/ Restore(t) \/ RestoreForAnotherRelease(t) \/ RestoreNotThere(t) \/ FailClose(t)
  \/ ReceiptOpen(t) \/ ReceiptWrite(t) \/ Cleanup(t) \/ Refuse(t)

Failure(t) ==
  \/ ApplyFailsHalfway(t) \/ ActivateFails(t) \/ RestoreFails(t) \/ FailCloseFails(t)
  \/ Stop(t)

Operator ==
  \/ \E s \in {"RUNNING", "TERMINATED"} : SetPower(s)
  \/ Recreate
  \/ \E r \in Releases : ActivateByHand(r)

Next == Operator \/ \E t \in Terminals : Session(t) \/ Failure(t)

Spec == Init /\ [][Next]_vars

\* The operator reruns the same command, and a command that is not stopped
\* goes on.
FairSpec == Spec /\ \A t \in Terminals : WF_vars(Session(t))

-------------------------------------------------------------------------------
(* Properties.                                                             *)

\* Every variable keeps to the values the code can give it.
TypeOK ==
  /\ receipt \in [Paths -> FileState]
  /\ checkpoint \in [Paths -> Checkpoint]
  /\ vm \in 1..MaxVms
  /\ power \in {"RUNNING", "TERMINATED", "none"}
  /\ image \in {"tooled", "bare"}
  /\ archive \in [Backups -> Data \cup {"none"}]
  /\ node \in Node
  /\ pc \in [Terminals -> {"idle", "create", "verify", "resume", "inspect", "apply",
                           "applied", "identified", "checkpointing", "activate",
                           "restore", "failclose", "receipt", "writing", "cleanup"}]
  /\ cmd \in [Terminals -> Commands \cup {NoCommand}]
  /\ before \in [Terminals -> 0..MaxVms] /\ after \in [Terminals -> 0..MaxVms]
  /\ alone \in [Terminals -> BOOLEAN] /\ raced \in BOOLEAN
  /\ applied \in [Paths -> Nat]
  /\ hand \in {"no", "yes"}
  /\ acts \in 0..MaxActs /\ stops \in 0..MaxStops

\* Whatever was stopped, resumed, recreated or mixed up before, and whatever
\* backups are taken meanwhile, a command on a node that no other command
\* touches writes its receipt only over the truth: a replacement's or a
\* restore's when the node that runs serves the archive it names on the
\* release it names, and a replacement's only on the VM it replaced another
\* by (recovery.rs:192).  The VMs it names differ, whatever overlapped.
ReceiptTrue ==
  [][\A t \in Terminals : ReceiptWrite(t) /\ Disturbs(t) =>
       /\ alone[t] =>
            /\ power = "RUNNING" /\ node.service = "active"
            /\ node.release = cmd[t].release /\ node.data = archive[cmd[t].backup]
            /\ Replaces(t) => after[t] = vm
       /\ Replaces(t) => before[t] < after[t]]_vars

\* A command that finds a checkpoint of its own never replaces the VM: it
\* resumes, or it refuses ("without replacing compute again").
PendingNeverReplaced ==
  [][\A t \in Terminals : alone[t] /\ Apply(t)
       => checkpoint[Path(t)].state = "absent"]_vars

\* Rerunning one replace-node command, stopped anywhere, replaces the VM at
\* most once, also when it was stopped before the checkpoint was written,
\* and whatever restores, backups and pauses of the host come between its
\* steps: as long as two replacements are never under way at once and
\* nobody recreates or activates the node by hand.
AtMostOneApply == hand = "no" /\ ~raced => \A p \in Paths : applied[p] <= 1

\* Until somebody recreates the VM by hand, the tenant's data is always on
\* the VM or in an archive, however commands overlap: through failed
\* restores, backups of an empty or half-restored database, and a VM that
\* is destroyed and not created.
TenantDataNeverLost ==
  hand = "no" => \/ node.data = "tenant" /\ power # "none"
                 \/ \E b \in Backups : archive[b] = "tenant"

\* The states in which rerunning the same replacement cannot get to its
\* end: a file with a hole in it, a VM destroyed and not created, a new VM
\* without a checkpoint, and a new VM without a release when the image has
\* no backup tools (the backup is verified on the node before resuming).
Wedged(c) ==
  \/ receipt[c.path] = "torn" \/ checkpoint[c.path].state = "torn"
  \/ power = "none"
  \/ node.release = "none" /\ (checkpoint[c.path].state = "absent" \/ image = "bare")

\* A replacement rerun until it ends does end, or was stopped in one of the
\* states above.
ReplacementEnds ==
  \A c \in Commands :
    archive[c.backup] # "none" =>
      <>(\/ receipt[c.path] = "ok"
         \/ (\A t \in Terminals : At(t, "idle")) /\ stops > 0 /\ Wedged(c))

\* Why a replacement goes no further although no remote command failed it:
\* the host does not run, the backup is not there, a receipt was written at
\* its path, the checkpoint is of another command or of a VM that is no
\* longer the one there, the deployment is wedged, or the bound is reached.
Cause(t) ==
  LET c == cmd[t]
      cp == checkpoint[c.path] IN
  \/ ~Reachable \/ archive[c.backup] = "none" \/ receipt[c.path] # "absent"
  \/ /\ At(t, "resume") /\ cp.state = "ok"
     /\ \/ cp.backup # c.backup \/ cp.release # c.release
        \/ cp.after # vm
  \/ Wedged(c) \/ vm = MaxVms

GoesNoFurther(t) ==
  \/ Refused(t)
  \/ At(t, "restore") /\ (~Tools \/ node.release # cmd[t].release)

\* However commands were stopped, failed or were overlapped before, a
\* replacement on a node that no other command touches is refused, or finds
\* its node without the tools or the release it installed, for one of these
\* causes only: the safety half of ReplacementEnds.
RefusedForCause ==
  \A t \in Terminals : alone[t] /\ Replaces(t) /\ GoesNoFurther(t) => Cause(t)

-------------------------------------------------------------------------------
(* What the documentation says, and the code does not do.                  *)

\* docs/runbooks/cloud-single-node.md: "Restore failure leaves the new
\* application stopped", and the message says that the node was left
\* fail-closed.
RestoreFailureStopsApp ==
  [][\A t \in Terminals : FailClose(t) \/ FailCloseFails(t)
       => node'.service # "active"]_vars
===============================================================================
