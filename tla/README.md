# thelve-cli: specifications, model checks and proofs

`thelve` is an operator's command line: it creates a single-node deployment of
Thelve in a cloud account, activates a signed release on the node, backs it up,
replaces it, and gives an AI agent a governed way to administer it. It keeps no
daemon and no database. Its state is spread over files on the workstation, a
Terraform state, a cloud secret store, and one VM, and every command changes
several of them one after the other. What is hard about it is therefore not
throughput or concurrency inside the program but **what is true after a command
ended half way and was run again**: that is what these modules are about.

## 1. Inventory

| Part | Source | State it keeps | Operations | What makes it correct |
|---|---|---|---|---|
| Launch orchestration | `src/launch.rs` | `launch-receipt.json`; in memory the steps completed and the administrator's password | `launch`: twelve steps of `Step::ORDER`, recorded one by one | a recorded step happened and stays done; a rerun resumes at the first step not recorded; nothing is begun before what it needs |
| Deployment intent | `src/config.rs` | `deployment.yaml` | `load`, `write_new`, `rewrite` | never lost, never half-written |
| Secrets | `src/secrets.rs` | versions in the cloud's secret store | `set`, `initialize_internal`, `versions_exist`, `verify_required_versions` | generated values are of one batch; the host runs only with every version present; an operator's value is not overwritten |
| Terraform driver | `src/terraform.rs`, `modules/` | generated workspace, saved plans, Terraform state, the host and its power | `plan`, `apply`, `outputs`, `replace_gcp_node` | the applied plan is the one computed for the command; replacement touches one resource |
| Activation | `src/activation.rs` | `node.yaml`, `activation-receipt.json`, the stage on the node, the node's release and service | `render_node_config`, `activate_gcp`, `capture_gcp_remote`, retries, the remote script | the node holds only what was verified; one activation touches it once; a receipt only after readiness; a half-done activation can be repeated |
| Recovery | `src/recovery.rs` | archives, receipts, `RECEIPT.pending`, the VM's identity | `backup create/verify/restore`, `replace-node` | no data lost; one replacement per command; the receipt is true; fail-closed |
| Licence | `src/license.rs` | the certificate in the intent and on the node | `request`, `install`, `install_via_render` | the node is booted with the certificate the intent names |
| First administrator | `src/identity.rs` | a user in the sign-in service | `create_first_administrator` | created once, the password shown once |
| Cloud checks, state bucket | `src/cloud.rs` | the remote-state bucket | `doctor`, `bootstrap_state`, `resources` | idempotent |
| Release lifecycle | `src/lifecycle.rs` | a receipt file, the node's current release | `rollback`, `support_bundle` | receipt only for what happened |
| Local appliance | `src/local.rs` | local directory, Colima VM, owner marker, containers and their data, receipt | `launch`, `operate` | one owner per VM, whose secrets open the data; a receipt means ready; an upgrade recreates the containers; destroy removes only its own |
| Agent client, MCP | `src/agent.rs`, `src/mcp.rs` | profile, key; plans and approvals on the server | profiles, `invoke_guarded`, `create_plan`, `apply_plan` | a mutation only through an approved, unchanged plan, once; the profile signs with the registered key |
| Release retrieval, catalogue | `src/preview.rs`, `src/catalog.rs` | a release directory | `fetch`, `verify_fetched`, `verify` | what is used is what was signed |
| Command line, subprocesses, skills | `src/cli.rs`, `src/main.rs`, `src/dev.rs`, `src/process.rs`, `src/skills.rs` | none | argument parsing, running programs, printing | |

**Interaction.** There are no callbacks and no threads: `launch` and
`replace_gcp_node` call the others as functions, and everything meets in the
shared state: the intent (read at the start of nearly every step), the
Terraform workspace, the secret store, the node. External programs (`gcloud`,
`aws`, `terraform`, `ssh`, the node manager) can fail at any call, before or
after taking effect. Two people can run two commands at once; only Terraform's
state lock, `create_new` and the local owner marker stand between them. What a
command started on the node runs on when its session is lost. The agent client
talks to a deployment that other people change at the same time.

**Hard behaviours.** Stops between an effect and its record; files truncated and
not yet written (`fs::write`); partial sets of secrets; checks that fail and
count as "absent"; checkpoints that outlive what they describe; remote commands
that fail after they did their work; a remote command sent again because its
failure looked like one of the connection; a VM destroyed and not created; two
commands over one Terraform workspace or one local VM; requests and answers lost
between client and deployment. The full list, line by line, is under `hazards`
in `PROJECT.json`.

## 2. Modules

| Module | Models | Extends or refines |
|---|---|---|
| `ResumableSteps` | the promise of a resumable command, nothing of how | |
| `Launch` | `launch.rs` with the steps it calls in secrets, terraform, activation, identity, licence | implements `ResumableSteps` |
| `Replacement` | `recovery.rs`, with the replacement of the VM and the activation it runs | |
| `LocalAppliance` | `local.rs`: several directories, terminals, one Colima VM | |
| `GovernedActions` | the promise of a plan: performed once at most, only while approved | |
| `AgentProfile` | `agent.rs`: creating, binding, loading a profile | |
| `AgentPlans` | `agent.rs`, `mcp.rs`: invocation, plans, their application, against a deployment | extends `AgentProfile`, implements `GovernedActions` |
| `NodeRelease` | what a node is from outside: installed, served, or down | |
| `Activation` | `activation.rs`, `lifecycle.rs` (rollback), `license.rs` (`install --config`), `preview.rs` (fetch) | implements `NodeRelease` |
| `Workspace` | `terraform.rs` with the commands of `cli.rs` that share the workspace | |
| `SecretStore` | `secrets.rs`, with the pins `activation.rs` takes from it | |
| `MC*` | constants for TLC, one per run family | |
| `*Proofs` | theorems about `Launch`, `Replacement`, `LocalAppliance`, `AgentPlans`, `Activation`, `Workspace`, `SecretStore` | |

`Launch`, `Replacement`, `Activation`, `Workspace` and `SecretStore` look at the
same cloud deployment at five grains. `Launch` takes an activation for one step with
effects and failures, `Replacement` one of an apply of Terraform; what those
steps are made of is the subject of `Activation`, `Workspace` and `SecretStore`.

### 2.1 `Launch`

One deployment, any number of executions of `thelve launch` with the same
arguments (the variable `request`, fixed in `Init`: provider, identity provider,
domains given or not, licence skipped or not).

* *Control.* `pc` is `idle`, at the head of the `loop`, `within` a step that
  makes several writes (`k` counts them), about to `record`, or `recording`.
  `at` is the index in `Order`, `mem` the receipt in memory.
* *Files* are `absent`, `torn` (opened with truncation, bytes not there) or
  `ok`. `receipt.done` keeps the steps of the last whole write while the file
  is torn; no action reads it then (`Start` wants a file that parses).
* *World.* `host`, `bucket`, `secret` (name -> who the value comes from),
  `node` (its service and what configuration it was booted with), `user`.
* Each action is one arm of the `match` in `launch()`, or one write of it. The
  arms that bail are `Refuse`, with the conditions in `Refuses`. `Stop` ends an
  execution anywhere: a program that fails, an interrupt, a power cut; an
  external command that took effect and then failed is a `Stop` right after it.
  `ActivateFails` is the remote script failing with effects.
* `OidcClientSecret` is a variant of the enum and an arm of the match, but not a
  member of `Step::ORDER`, so no action has it. On AWS `render_node_config`
  refuses, so the AWS case inside the `Activate` arm is not reachable.
* A failed version check counts as an absent version in the code;
  `ProbesMayFail` says whether checks may fail. A launch that refuses because a
  check failed is a `Stop`, as rerunning it helps; `Refuse` is for what is so.

### 2.2 `Replacement`

`backup create`, `backup restore` and `replace-node`, run from several terminals
whose commands interleave at every step, over receipts named by path. `vm` is the
generation of the VM (its instance and boot disk ids, which Terraform's
replacement changes together); the other identities in the checkpoint (address,
network, bucket, service account) do not change in the model and are left out.
`node` is what runs on it: release, database, service. `archive` says what each
backup holds: a backup of an empty or half-restored database is as valid to the
tool as one of the tenant's data.

* `VerifyBackup` comes first and runs *on the node*, with tools that the release
  brings; whether the machine image has them before activation is not in the
  repository, so `image` is either, chosen in `Init`.
* `Inspect` needs the TLS contact from `/etc/thelve/node.yaml`: a VM that was
  never activated has none. This, and not the checkpoint, is what stops a second
  replacement after a stop between Terraform's apply and the checkpoint.
* `ActivateFails` and `RestoreFails` leave any of the states the remote scripts
  can stop in. `FailClose`/`FailCloseFails` are the one remote `systemctl stop`
  after a failed restore and its ignored failure.
* At any time, also in the middle of a command, the operator may pause and resume
  the host, recreate the VM (`deploy up` with another image, or after a destroy
  that was not followed by a create), and activate by hand. `hand` records the
  last two.
* `Apply` plans and applies in one step; when another terminal has replaced the VM
  since `Inspect`, it may have been before the plan (it is applied) or after it
  (Terraform refuses the saved plan, `Refused`). `Identify` reads the identities
  again, and may by then see what another terminal has made.
* `alone` and `raced` are histories: no other command has touched the node since
  this one began; two replacements have been under way at once. The code keeps
  no two commands apart, and what it promises of the receipts and the number of
  replacements holds only without such overlap (section 4). That no tenant data
  is lost holds with it.

### 2.3 `LocalAppliance`

Directories, terminals and one VM. A command is a process; every file it opens,
writes or copies and every remote call is a step of its own, so commands of two
terminals interleave at each of them and end at any (`Stop`). A file is
`absent`, `torn` or `ok`, as in `Launch`; `vm` is what was staged in the VM,
`stack` the containers (with the release they were made for) and `data` what a
database was initialised with.

* The VM gets what `render` made, `node.yaml`, the secrets and the owner marker
  in this order; a copy of a file that another terminal is writing is torn
  (`StageNode`).
* `force` is `release_changed`, decided from the receipt of the last *finished*
  launch and not from the containers; containers that are not recreated keep
  the release they were made for (`Containers`). The container engine is
  external.
* `Down` and the four steps of one `rm -rf` are separate: a destroy stopped in
  between leaves data without a marker.
* `Wipe` is the operator deleting the VM between commands.
* `mishaps` is a history of what the properties except, each named where it is
  excepted: containers of an unfinished launch, a destroy stopped half way, a
  deleted VM, a launch that ended between creating the administrator and saving
  the password.

*Overlap.* The code has no lock over a command, only a look at the marker at its
beginning, and the marker is the last file staged. So commands may begin at any
time, beside any others, and run to their ends. `crossed` remembers that one was
begun beside another that it can spoil (`Crosses`): one of another directory,
launches of two releases in one directory, anything beside a destroy. The bound
lets one pair cross, as the last to begin. The runs answer two questions.

1. `local_owner`: does the marker keep two directories apart, as
   `local-development.md:18` says? It does not (section 4).
2. `local_appliance`: what holds until commands cross? `DataHasOwner`,
   `ReleaseRefreshed`, `PasswordFileTrue`, `ReadyMeansReady`, through launches of one
   directory and release, status and stop that overlap at every step. Each of
   them excepts `crossed`, and has to: without `~crossed` TLC finds each violated.

### 2.4 `AgentPlans`

Terminals and MCP servers (`Procs`), each with the commands it runs, over one
profile; a network that loses requests and answers; a deployment with a
catalogue that administrators change and approvals that people decide. The
deployment is external and trusted with as little as the client relies on (the
head of the module says with what): it performs a call without approval as it
is, one with an approval if that is approved and for that call, and nothing
twice under one idempotency key.

* What the catalogue says of a capability is its risk, whether it always needs
  approval and whether it is open to AI actors. `Descriptor` reads it, and the
  request is sent later: the catalogue may change between the two and again
  before the request is handled. `stale` marks what was performed under another
  version than the client saw, or than the plan was made under.
* The three routes look at different things. `invoke` looks at the risk alone, and
  under `--approval-id` at nothing (`MayInvoke`); `plan` at all three (`MayPlan`);
  `apply` at none, and does not read the catalogue again.
* So an `invoke --approval-id` of a destructive capability is checked by nobody on
  the client. That it has the four eyes its class demands (`ControlsKept`) follows
  from the check its plan went through and from the deployment holding an
  approval to the call it was given for ("an exact approval-bound capability",
  `cli.rs:222`), which is outside this repository (`Admits`). Without that
  assumption TLC finds `ControlsKept` violated.
* Such an invocation may bring a key of its own. With the plan's key it counts as the
  plan's performance (`AsPlanned`). With another, whether it is one performance too
  many is the deployment's to decide, and `PlansAreGoverned` does not count it.
* A request that was sent is handled at most once and maybe never; the client
  may have given up (`GiveUp`). It does not retry by itself; the operator does.
* `PlanKey`: a plan has the key the operator gave or a fresh one. Every
  `create_plan` proposes under a new id.
* `AgentProfile` has the two files of a profile with their `create_new` writes,
  and the person who registers the public key that a creation printed. A
  profile that is not bound refuses every request (`Usable`).
* The MCP server is a process whose tools are these commands with arguments
  fixed; it keeps the profile it loaded, which no other command changes once
  bound.

### 2.5 `Activation`

Two kinds of actor: commands on the workstation (`pc`, `cmd`, `op`, `tries`) and
scripts on the node (`scripts`), which go on when their session is lost and do
not when they are killed. An operation has a stage on the node, a directory of
its own under `/tmp`.

* A step of the script first opens its report in the stage (`Opens`), and fails if
  the stage is gone (`Fenced`); the command of the node manager it then runs works
  for a while and takes effect in a step of its own (`Lands`), *with or without
  the stage*. So the workstation's cleanup, or the trap of another script of the
  same operation, can remove the stage under an installation or a start, which
  still changes the node. `Running` are the places between the two.
* `mkdir "$stage/release"` is the fence: of the scripts of one operation at most
  one gets past it (`AtMostOnce`).
* `capture_gcp_remote` classifies a failure by words in its text. The text may
  be of the remote command, so in the model *any* failure may be sent again
  (`AfterFailure`), up to `MaxTries` times.
* The script's lines are steps: digests, `mkdir` of the release directory, the
  inspection of what is there, stop, compose down, preflight, install, secrets,
  start, readiness, and the trap that removes the stage. A command of the node
  manager is external and takes effect at once when it does.
* Verification and copying are apart: the operator may change a fetched release
  or a configuration in between (`Edit`); `render` and `fetch` of another
  terminal run at the same time.
* `license install` rewrites the intent, renders and activates; an intent torn
  by a stop refuses every later command.

*Overlap.* Nothing in the code makes a command wait for an earlier one, or for a
script that a lost session or a stopped command left running; the model does not
either. `overlap` remembers that the last command on the node was begun while a
command, a script that has its stage, or a node-manager command under way was
still there (`Busy`); it is false again once one begins after all that ended.

* `OnlyVerified` and `AtMostOnce` hold whatever overlaps.
* `NodeIsReleased`, `ReceiptTrue`, `LicenceServed`, `FailsForCause` and `Recovers`
  hold for a command that was not begun over another, through its own lost
  sessions, scripts sent again while the first still works, and commands that
  take effect after their stage is gone. Without `~overlap` TLC finds each of them
  violated: an installation of a stopped activation that lands after the next one's
  makes that one's receipt false.

*Rollback* has no stage, hence no fence: sent again, it is performed again, with
the same operation id. It is left out of `AtMostOnce` for this reason
(section 4). `validate_node_config` does not look at the licence: activating an
older `node.yaml` after a licence was installed drops it, which is why
`LicenceServed` speaks of the activation that installs it.

### 2.6 `Workspace`

One generated workspace, several terminals. `files` are the module's files,
`vars` the variables, `plans` the three saved plans, `cloud` what Terraform's
state describes (the host with its power, and the rest). Each command refreshes
the workspace, runs `init`, plans into the file of its name and applies what
that file holds by then; each of these is a step, so that the commands of two
terminals overlap at all of them.

* Terraform is external: `plan` and `apply` are atomic under its lock, a saved
  plan is refused once the state has changed (`Becomes` empties `plans`), a
  failed apply leaves one of `Partial`. A killed command takes its Terraform
  with it; a lock left behind is not modelled.
* `status` and `replace-node` read outputs, which refreshes the workspace too,
  with a running host in the variables.
* No content of the intent forces a new VM, and a replacement is of a node that
  answers (`MayReplace`).
* `alone` and `sole` are histories: no other command, and no other replacement,
  ran since this one began.

### 2.7 `SecretStore`

The cloud's secret store and the commands that read and write it, from several
terminals. `store` keeps every version of a name with where its value comes from
and whether it is enabled; `found` is what a command saw, name by name; each call
of `gcloud` or `aws` is a step.

* `Exists` is `version_exists`, which on GCP describes version 1 and on AWS wants
  a version staged `AWSCURRENT`. `Newest` is what `render-node-config` pins. The
  two look at different versions, and this is where the hazards are.
* A check that fails counts as "no version" (`Sees`), a listing that fails ends
  the command (`Stop`). That the listing sorts versions by number is taken of
  `gcloud`.
* `Generate` takes a new batch number, `Write` adds one version of one name. A
  write that landed may be the one reported as failed, so `Stop` is possible
  after each.
* `Disable` is the operator disabling a version, as after a rotation.
* `spoiled` is a history of what the properties except: initializations that
  overlapped, a check that failed over a version that is there, an operator's
  value set during an initialization, a first version disabled. Each of them is
  needed: without it TLC finds the property violated.

## 3. Runs

| Run | Checks | Result |
|---|---|---|
| `launch` | `TypeOK`, `ReceiptHonest`, `RunningHostHasSecrets`, `LicensedAtFirstBoot`, `ResumesInOrder` (refinement of `ResumableSteps`), `EndsOrIsWedged`, `UninterruptedCompletes` | hold, 98,096 states |
| `launch_resume` | `ResumesToCompletion` | violated: a stop between writing a file and recording its step wedges the launch |
| `replacement_safety` | `TypeOK`, `ReceiptTrue`, `AtMostOneApply`, `TenantDataNeverLost` | hold, 2,112,038 states |
| `replacement_ends` | `ReplacementEnds` | holds, 455 states |
| `replacement_fail_close` | `RestoreFailureStopsApp` | violated: the stop after a failed restore can fail too, and is reported as done |
| `local_appliance` | `TypeOK`, `DataHasOwner`, `ReleaseRefreshed`, `PasswordFileTrue`, `ReadyMeansReady` | hold, 1,092,077 states |
| `local_owner` | `OwnerUndisturbed` | violated: a launch that found no marker stages over the appliance of one that has written its own since |
| `agent_plans` | `TypeOK`, `ProfileSigns`, `ControlsKept`, `AskedOnce`, `PlansAreGoverned` (refinement of `GovernedActions`), `ApprovedIsPerformed` | hold, 425,420 states |
| `activation` | `TypeOK`, `OnlyVerified`, `AtMostOnce`, `NodeIsReleased` (refinement of `NodeRelease`), `ReceiptTrue`, `LicenceServed`, `Recovers` | hold, 257,944 states |
| `workspace` | `TypeOK`, `OnlyDestroyDestroys`, `ReplacesExactly`, `AsAsked`, `StartsWithSecrets` | hold, 1,249,883 states |
| `secret_store` | `TypeOK`, `PinsCorrelated`, `OperatorNotCovered`, `AdoptsRotations` | hold, 921,649 states |
| `secret_rotation` | `UpAfterVersionsExist` | violated: `up` refuses once a first version was disabled |

**Reading the liveness results.** `EndsOrIsWedged` and `ReplacementEnds` say
that rerunning a command gets to the end *or* the deployment is in a state of an
explicit list (`Wedged`). The list is the useful part: it is every way in which
a stopped command cannot be finished by running it again. For `launch`: a
receipt or intent cut short; a partial set of internal secrets (also one the
operator began by hand, which `UninterruptedCompletes` excepts); a node
configuration or activation receipt written but not recorded; AWS. For
`replace-node`: a file cut short; a VM destroyed and not created; a new VM
without a checkpoint; a new VM without a release when the image lacks the tools.
`Recovers` says that when the last operation is over the node is served, and
stays so, though operations before it stopped the service and failed at any step
after that. It excepts an intent cut short by a stopped licence installation,
files the operator spoiled, and a last operation begun over another.
`ApprovedIsPerformed` has no exception: no lost answer, late request or change
of the catalogue makes a plan that stays approved unusable, which is so because
applying does not look at the catalogue again.

**Bounds.** Three internal names (first, middle, last of a batch) and two Telnyx
names, as many as the code has. `MaxStops` is 2 for `Launch`: one stop to leave
a state and one to disturb its repair; the theorems remove the bound for safety.
For `Replacement` there are two terminals with five commands, one stop and one
act of the operator, or one terminal with three stops; the theorems remove these
bounds too. `MaxVms` is 3, so that a command can replace twice if it is wrong
and a second command or the operator can come between. Two receipts, two
backups, two releases: each mismatch the checkpoint validation looks for occurs.
`local_appliance`: two directories, so that one can disturb the other; two
releases, for an upgrade; four batches of secrets, so that each directory can be
made twice; one stop, or one command that crosses another, and one deleted VM,
in either order. `agent_plans`: two approvals, for a plan made twice or two
calls planned; two keys, for two creations; one call that is destructive and one
whose class changes once (a read that always needs approval becomes a write; a
write comes to need approval always, or is hidden from AI actors), which
separates what was seen from what is; an invocation without approval, and one
under the id of an approval; one fault, which is a stop, a lost request or a
lost answer. `activation`: three operations over two releases, so that an
activation, its successor and a rollback meet, and one that failed is followed
by its repair (failures come before the last operation); two tries; one lost
session, stopped command or failed script (a failure over what a script finds is
not counted), one edit. `workspace`: two terminals and five commands, so that
two commands overlap over what a third left and the host was started by others;
one stop, one edit. `secret_store`: two internal names, so that a batch can be
cut in two, and one other; two terminals and four commands, which is a stopped
initialization, one that runs beside or after it, an operator's value and a
rendering; one stop, one disabled version.

**Fairness.** `FairSpec` adds weak fairness of the command's own steps: a program
that was not stopped executes its next statement. That the operator reruns it is
part of them in `Launch` and `Replacement`, and strong fairness of beginning each
command (each plan's application) in `Activation` and `AgentPlans`, where another
command may be in the way again and again. `Activation` has it for each script on
the node too, and `AgentPlans` for the deployment's handling of each process's
requests: a request that waits is not overtaken for ever by those of others.
Failures, stops and lost messages are not fair and are bounded, which is what
"rerun until the failures cease" means. Nothing is assumed of people who decide,
administer or edit.

**Deadlock** is not checked where the system really stops: a deployment finished
or wedged, a profile torn by a stopped creation, every path, operation or command
within the bounds used up, no command after two that crossed (`CHECK_DEADLOCK
FALSE`, with the reason beside it).

## 4. Where code and documentation disagree

Each of the four violation runs is an entry under `findings`, with the line of
the code and the sentence it contradicts. Seven more were met while modelling and
are described rather than run:

* *An operator's Telnyx value is overwritten.* `launch.rs:209` asks whether both
  values exist; when one does not, both are prompted for. The comment at
  `launch.rs:204` says that a launch "must never overwrite a working credential
  with a typo".
* *Internal secrets can drift.* A version check that fails counts as "no version":
  when all of them fail over a complete set, `initialize_internal` writes a second
  batch, and stopped half way it leaves a mixed set that the next rendering pins.
  `cloud-single-node.md:162` says that initialization refuses a mixed state "so
  correlated database credentials cannot drift after a partial attempt". Dropping
  `"check"` from the exceptions of `PinsCorrelated` gives the trace.
* *A command that overlaps `prepare` starts the host.* `outputs`
  (`terraform.rs:251`) refreshes the variables with a running host, and `plan`
  does the same, in the workspace `prepare` is about to plan from. `prepare` then
  applies a running host, before any secret has a version; `cli.rs:482` says "a
  stopped host". `AsAsked` and `StartsWithSecrets` are stated for commands that
  ran alone for this reason.
* *A rollback may be replayed.* `activation.rs:32` and
  `cloud-single-node.md:213` say that application commands are never replayed
  after uncertain execution. Failures are told apart by the text of the error,
  which holds the remote command's own messages, and a rollback has no stage that
  would stop a second execution.
* *Two replacements at once.* Two `replace-node` commands that begin before either
  has written its checkpoint both plan, both validate and both apply: the VM is
  replaced twice, and the command that applied first may record in its
  checkpoint or receipt a VM that the other has already destroyed. They also
  share the file of the plan: with the intent edited between them, the second may
  save its plan after the first has shown and validated its own and before it
  applies (`terraform.rs:132-170`), and the first then applies a plan nobody
  validated. No document says that only one may run; dropping `raced`, `alone` or
  `sole` from `AtMostOneApply`, `ReceiptTrue` or `ReplacesExactly` gives the traces.
* *The provider's client secret is not asked for.* `Step::ORDER` does not contain
  `OidcClientSecret`, so the arm that prompts for it (`launch.rs:220`) never runs and
  `initialize_internal` generates a value; `cloud-single-node.md:101` says that it
  "is typed at a hidden prompt".
* *A change of release can keep the old containers.* Whether they are recreated is
  decided from the receipt of the last finished launch (`local.rs:440`). After a first
  launch that failed when its containers were made, a launch of another release has
  no receipt to compare with, keeps what they have cached and reports success; the
  comment at `local.rs:457` says that "a release change must refresh those caches".
  Dropping `"unfinished"` from `ReleaseRefreshed` gives the trace.

## 5. Proofs

Each component but the abstract ones has a module of proofs. All theorems are for
every value of the constants that satisfies the named assumptions: any number of
terminals, commands, releases, keys, and any bounds.

| Module | Theorem | States |
|---|---|---|
| `LaunchProofs` | `TypesKept` | `TypeOK` |
| | `LaunchResumesInOrder` | `Launch` implements `ResumableSteps` |
| | `LaunchReceiptHonest` | `ReceiptHonest` |
| | `LaunchHostHasSecrets` | `RunningHostHasSecrets` |
| | `LaunchKeepsHostUp` | `UpIsNeverUndone` |
| | `LaunchLicensesNode` | `LicensedAtFirstBoot` |
| | `LaunchCorrelatedInternal` | `CorrelatedInternal`, when version checks do not fail |
| | `LaunchNeverStuck` | `NeverStuck` |
| `ReplacementProofs` | `TypesKept` | `TypeOK` |
| | `AppliedOnce` | `AtMostOneApply` |
| | `DataKept` | `TenantDataNeverLost` |
| | `ReceiptsTrue` | `ReceiptTrue` |
| | `PendingKept` | `PendingNeverReplaced` |
| | `RefusalsHaveCause` | `RefusedForCause` |
| `WorkspaceProofs` | `TypesKept` | `TypeOK` |
| | `DestroyedOnlyByDestroy` | `OnlyDestroyDestroys` |
| | `ReplacedExactly` | `ReplacesExactly` |
| | `AppliedAsAsked` | `AsAsked` |
| | `StartedWithSecrets` | `StartsWithSecrets` |
| | `OnlyChecksRefuse` | `RefusedOnPurpose` |
| `ActivationProofs` | `TypesKept` | `TypeOK` |
| | `HeldIsVerified` | `OnlyVerified` |
| | `EnteredOnce` | `AtMostOnce` |
| | `ReceiptsTrue` | `ReceiptTrue` |
| | `LicenceReachesNode` | `LicenceServed` |
| | `FailuresHaveCause` | `FailsForCause` |
| | `ActivationReleasesNode` | `Activation` implements `NodeRelease` |
| `AgentPlansProofs` | `TypesKept` | `TypeOK` |
| | `ProfileKept` | `ProfileSigns` |
| | `ControlsLast` | `ControlsKept` |
| | `KeyUsedOnce` | `AskedOnce` |
| | `RequestsStayGood` | `StaysAdmitted` |
| | `ProfileStaysUsable` | `StaysUsable` |
| | `ClientImplementsGoverned` | `AgentPlans` implements `GovernedActions` |
| `SecretStoreProofs` | `TypesKept` | `TypeOK` |
| | `PinsOfOneBatch` | `PinsCorrelated` |
| | `OperatorValuesStay` | `OperatorNotCovered` |
| | `RotationsAdopted` | `AdoptsRotations` |
| `LocalApplianceProofs` | `TypesKept` | `TypeOK` |
| | `DataIsOwned` | `DataHasOwner` |
| | `ContainersRefreshed` | `ReleaseRefreshed` |
| | `PasswordIsTrue` | `PasswordFileTrue` |
| | `ReadyIsReady` | `ReadyMeansReady` |

**`LaunchProofs`.** The argument has layers, each inductive relative to those
before:

1. `Typed0`: `TypeOK` with the fact that an execution past the head of the loop
   is at one of the twelve steps.
2. `InOrder`: the receipt on disk and in memory is a prefix of `Order`. It does
   not follow from types, and almost everything else rests on it.
3. `Inside`: what holds in the middle of a step, between two of its writes.
4. `Honest`: every recorded step has its effect, and so does the step whose
   record is being written. `ReceiptHonest` alone is not inductive: at
   `RecordWrite` the effect must be known from the step that was just made.
5. `PreparedOnRecord`, `LicenseCarried`, `OneBatch`: that the host is never up
   before `Up` is the next step, that certificates only accumulate from intent
   to node, and that secrets are written over an empty set.

The steps of `Next` are grouped by how they move the control (`Moves`), so that
a lemma about control has eight cases and not forty; each invariant then has
one step per action that can disturb it. The assumption of
`LaunchCorrelatedInternal` is needed: when every check fails over a complete set,
a second batch is written over it. `LaunchNeverStuck` needs no layer of its own:
the lemma `FindsWhatItWants` reads off `Honest` and `InOrder`, step by step, that
what a step wants was made by a step before it, or that the deployment is wedged.

**`ReplacementProofs`.** The invariant has five parts over the types. `Named`: the
VM a command or a checkpoint names as its new one is younger than the one it
names as replaced, and neither is younger than the VM there is; it needs no
exception, VMs being numbered upward. `Undisturbed`: what a command still knows
of the node between two of its steps if nothing has touched it, down to the
node serving what the receipt will say. `Expected`: a checkpoint names an older VM
before a younger one, and an undisturbed replacement that is at `Resume` has its
checkpoint and, at `Restore`, the release it activated; so a refusal there can only
be for what `Cause` lists. `Once`: the dangerous case is a path
whose replacement was applied and which has neither checkpoint nor receipt
(`Forgotten`). That VM has no release and no checkpoint names it, so no command
can activate it, and without a release none gets past `Inspect`: this, and not the
path, is what keeps a second replacement away. `Kept`: until an archive holds the
tenant's data no archive holds anything, and what can destroy data wants an
archive first.

**`WorkspaceProofs`.** `Typed` has where a command of each kind can be, and that a
saved plan is of the kind its file is named for: the separate files of `destroy`
and `replace-node` are what keeps the commands apart. `Shown`: from the moment a
replacement was validated, its file holds a plan of the configuration that is in
place, or none that applies, since whatever changes the state empties the plans;
this is so of a replacement that is the only one, which `Shown` says beside it.
`Alone`: for a command that runs alone, the variables and the plan are its own
from the step that wrote them on, and it has found the versions if it starts the
host. `Clean`: it also finds them, where it needs them, and a replacement the host,
so that nothing but the checks made on purpose refuses it.

**`ActivationProofs`.** `Typed`: values, and what a command has at each place.
`Staging`: the stage of an operation goes one way, and of its scripts at most one is
past the `mkdir` that makes the release directory, or has a node-manager command
under way; this gives `AtMostOnce`. `Checked`: a script past the digests carries
what was read at verification. `Licensed`: so does the licence, unless files were
edited. `Unspoiled`: what a command finds where it goes on, and what its script meets:
the access to the registry, the files as read, an installed release to roll back.
These hold whatever overlaps. `Undisturbed` holds while the last command was not
begun over another: `Alone` (whatever may still touch the node, with its stage or
without, is of that command's operation), `Serving` (what is served is what is
installed; nothing is served while an installation is under way; a command about to
write its receipt has what it staged served) and `Fresh` (its receipt path is
free). That it comes to hold when a command begins over nothing, after any
overlap before, is the step at `Begin`: nothing of the past can touch the node then.

**`AgentPlansProofs`.** `Created`: of the creations at most one is past the seed,
and it holds the key the file has. `Requests`: what a command decided, and every
request on its way, against the version of the catalogue it names: a request can
only be right for that version; proposals have different ids, that nobody uses.
`Performed`: a key is used once, and an applied plan was performed under its own
key. A request on its way names the call, the version and the key of the plan it
applies, which is why it stays good (`RequestsStayGood`). At most once per plan, and
per key the operator gave, then follow from one key being one execution.

**`SecretStoreProofs`.** `NameFacts`: the internal names are a prefix, without
repetition, of what a command goes through. `Types`: with where a command of each
kind is, and at which name. `Pinned`: for each name a rendering has looked at, what it
found is no older than what was enabled at its beginning and still is; versions
are only added, and disabling one excepts it. `Alone` and `FirstOn`: what the
exceptions exclude, as long as they did not happen: two initializations in
progress, and a name with versions whose first is disabled. `Pending`: a name an
initialization found missing and has not written. `Once`: no pending name holds a
generated value, and all generated values are of one batch, the one being written
if one is. `PinsCorrelated` alone is not inductive: it says nothing of a batch
half written. `Uncovered`: where no operator races with it, a pending name is empty.
**`LocalApplianceProofs`.** The invariant is the types and, until commands cross
(`~crossed`, section 2.3), all that follows. Six lemmas say, once for all
actions, what a step may do to its own place (`Turns`), its directory
(`FileSteps`), the VM (`VmSteps`), the containers and the history (`StackSteps`,
`BlameSteps`) and the data (`DataSteps`), and `FoundSteps` what it found where
it has come to; everything after rests on these and not on the actions.
`Coherent`, the inductive invariant: `Apart`, who else can be under way;
`Marked`, `Secured`, `Readied`, what holds at each place of a command, in the
states between two of its writes that a property never sees (the secrets staged
are the directory's, the marker is set before anything is started, a destroy has
removed the containers first); `Bare`, what an empty VM implies.
`ReadyMeansReady` follows. `DataHasOwner` is inductive over it.
`ReleaseRefreshed` is not: `Accounted` adds whose containers those are while
launches are under way, and `Forces` that a launch which must make them anew has
found out. `PasswordFileTrue` needs `Known`: the password file of any other
directory, which a later launch could mark, is missing or about to be removed;
`Kept`, that the marked one is there unless it was lost or is about to be saved.

**Assumptions.** Those of the modules (`ASSUME` with a name) and nothing else: the
bounds are natural numbers, `None` is not one of the values it stands beside,
commands are of the kinds that exist. TLC evaluates them in every run.

`UpIsNeverUndone`, `CorrelatedInternal` and `PendingNeverReplaced` are proved and
in no run: `ResumesInOrder`, `PinsCorrelated` and `AtMostOneApply`, which are
checked, say as much about the code or more.

**The safety halves of liveness.** Liveness itself is out of the prover's reach,
but most of what could break it is not a missing step: it is a command that is
refused for what an earlier one left. That part is safety, and it is proved:
`NeverStuck` for `EndsOrIsWedged`, `RefusedForCause` for `ReplacementEnds`,
`FailsForCause` for `Recovers`, `StaysAdmitted` with `StaysUsable` for
`ApprovedIsPerformed`; `RefusedOnPurpose` says the same of the Terraform commands,
for which no liveness is claimed. Each lists what may stop a command, and the
theorem says that nothing else does, for every number of stops and of commands
before it. What is left to TLC is that a command which nothing stops ends. These
properties hold as invariants of the runs' instances, too; they are in no run
because the liveness properties, which say more of an instance, are.

**Model-checked only**: all liveness properties
(`EndsOrIsWedged`, `UninterruptedCompletes`, `ReplacementEnds`,
`ApprovedIsPerformed`, `Recovers`), as the prover has no rules for fairness; and of
course the four violations.

**Not modelled.** Field validation of documents, signatures, the text of
commands; Terraform's own semantics and its lock left behind; the HTTP requests
of `license request`, `install` and `trust`; support bundles and reports, which
change no state; the machine catalogue and the embedded skills, which are pure
functions; the Terraform modules, which are declarations.

## 6. Running

    tlc -workers 2 -config Launch.cfg MCLaunch
    tlc -workers 2 -config ReplacementSafety.cfg MCReplacement
    tlc -workers 2 -config LocalAppliance.cfg MCLocalAppliance
    tlc -workers 2 -config LocalOwner.cfg MCLocalAppliance   # a violation run
    tlc -workers 2 -config AgentPlans.cfg MCAgentPlans
    tlc -workers 2 -config Activation.cfg MCActivation
    tlc -workers 2 -config Workspace.cfg MCWorkspace
    tlc -workers 2 -config SecretStore.cfg MCSecretStore
    tlapm LaunchProofs.tla      # and each other *Proofs.tla

The longest runs are `local_appliance` and `agent_plans` (about three minutes); the
others take about a minute or less. A proof module takes
between ten seconds and two minutes.
