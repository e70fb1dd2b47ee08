-------------------------------- MODULE Launch --------------------------------
(***************************************************************************)
(* `thelve launch` (src/launch.rs): the runbook's commands composed into   *)
(* one command that keeps a receipt, so that a stopped launch can be rerun.*)
(*                                                                         *)
(* The module follows one deployment through any number of executions of   *)
(* the command.  An execution can end at any point (an external command    *)
(* fails, the operator interrupts it, the workstation dies); what it wrote *)
(* to disk, to the secret store, to the cloud and to the node stays.  A    *)
(* file written with fs::write or create_private passes through a state    *)
(* "torn": opened and truncated, bytes not yet there.                      *)
(***************************************************************************)
EXTENDS Naturals, Sequences

CONSTANTS
  Requests,        \* the LaunchRequests an operator may run (one per behaviour)
  InternalNames,   \* INTERNAL_SECRET_NAMES, in the order they are written
  TelnyxNames,     \* TELNYX_SECRETS, in the order they are prompted for
  OperatorNames,   \* names an operator may set with `thelve secret set`
  ProbesMayFail,   \* TRUE iff a version check may fail and count as "absent"
  MaxStops         \* bound: executions that end before their last step

Names == {InternalNames[i] : i \in 1..Len(InternalNames)}
           \cup {TelnyxNames[i] : i \in 1..Len(TelnyxNames)}

\* What of a LaunchRequest decides control: --provider, --oidc-issuer given
\* or not, --domain given for every endpoint, --skip-license.
LaunchRequest == [provider : {"gcp", "aws"}, identity : {"bundled", "external"},
                  domains : BOOLEAN, skipLicense : BOOLEAN]

ASSUME ParameterAssumption ==
  /\ Requests \subseteq LaunchRequest
  /\ ProbesMayFail \in BOOLEAN
  /\ MaxStops \in Nat

ASSUME NamesAssumption ==
  /\ InternalNames \in Seq(Names) /\ Len(InternalNames) > 0
  /\ TelnyxNames \in Seq(Names) /\ Len(TelnyxNames) > 0
  /\ \A i \in 1..Len(InternalNames), j \in 1..Len(TelnyxNames) :
       InternalNames[i] # TelnyxNames[j]
  /\ \A i, j \in 1..Len(InternalNames) :
       InternalNames[i] = InternalNames[j] => i = j
  /\ OperatorNames \subseteq Names

Internal == {InternalNames[i] : i \in 1..Len(InternalNames)}
Telnyx   == {TelnyxNames[i] : i \in 1..Len(TelnyxNames)}

(***************************************************************************)
(* The steps of Step::ORDER.  OidcClientSecret is a variant of the enum    *)
(* and an arm of the match, but not a member of ORDER.                     *)
(***************************************************************************)
\* Two orders the code does not have, each one swap away.
OrderUpBeforeTelnyx ==
  <<"Doctor", "Intent", "BootstrapState", "Prepare", "Domains",
    "InternalSecrets", "Up", "TelnyxSecrets", "License",
    "RenderNodeConfig", "Activate", "FirstAdministrator">>
OrderRenderBeforeLicense ==
  <<"Doctor", "Intent", "BootstrapState", "Prepare", "Domains",
    "InternalSecrets", "TelnyxSecrets", "Up", "RenderNodeConfig",
    "License", "Activate", "FirstAdministrator">>

Order == <<"Doctor", "Intent", "BootstrapState", "Prepare", "Domains",
           "InternalSecrets", "TelnyxSecrets", "Up", "License",
           "RenderNodeConfig", "Activate", "FirstAdministrator">>

NSteps == 12
Step == {Order[i] : i \in 1..NSteps}

(***************************************************************************)
(* A version of a secret is known by where its value comes from: a batch   *)
(* of generated values, the hidden prompt of a launch, or the operator's   *)
(* own `thelve secret set`.  A batch is named by the number of executions  *)
(* stopped before it: two executions that both generate a batch are        *)
(* separated by a stop of the first.                                       *)
(***************************************************************************)
None       == [by |-> "none", batch |-> 0]
Typed      == [by |-> "prompt", batch |-> 0]
Provided   == [by |-> "operator", batch |-> 0]
Batch(b)   == [by |-> "generated", batch |-> b]
Version    == [by : {"none", "prompt", "operator", "generated"}, batch : Nat]

FileState == {"absent", "torn", "ok"}

\* What an intent carries, and so a node configuration and a node.
Contents == {"domains", "certificate"}

VARIABLES
  request,        \* the arguments, the same at every rerun
  \* The workstation's files.
  receipt,        \* launch-receipt.json: its state and the steps recorded
  intent,         \* deployment.yaml: its state and what it carries
  nodeConfig,     \* node.yaml, the rendered node configuration
  activation,     \* activation-receipt.json
  \* The cloud and the node.
  bucket,         \* the remote-state bucket exists
  host,           \* the VM: "none", "TERMINATED" or "RUNNING"
  secret,         \* name -> the version the checks and the renderer see
  node,           \* the appliance: its service, and what it was booted with
  user,           \* the first administrator exists in the sign-in service
  \* The execution in progress.
  pc,             \* "idle", or where the execution is
  at,             \* index in Order of the loop's current step
  mem,            \* Receipt.completed in memory
  k,              \* progress inside a step made of several writes
  held,           \* first_administrator: the created user's password
  \* History.
  stops,          \* executions that ended early
  shown           \* the temporary password was printed

files == <<receipt, intent, nodeConfig, activation>>
world == <<request, bucket, host, secret, node, user>>
vars  == <<request, receipt, intent, nodeConfig, activation, bucket, host, secret,
           node, user, pc, at, mem, k, held, stops, shown>>

NoIntent == [state |-> "absent", carries |-> {}]

Init ==
  /\ request \in Requests
  /\ receipt = [state |-> "absent", done |-> {}]
  /\ intent = NoIntent
  /\ nodeConfig = [state |-> "absent", carries |-> {}]
  /\ activation = "absent"
  /\ bucket = "none"
  /\ host = "none"
  /\ secret = [n \in Names |-> None]
  /\ node = [service |-> "none", carries |-> {}]
  /\ user = "none"
  /\ pc = "idle" /\ at = 1 /\ mem = {} /\ k = 1 /\ held = "nothing"
  /\ stops = 0 /\ shown = "nothing"

-------------------------------------------------------------------------------
(* Helpers.                                                                *)

\* The loop of launch() is at step s, and the receipt in memory lacks it.
Running(s) == pc = "loop" /\ at <= NSteps /\ Order[at] = s /\ s \notin mem

\* Step s is in the middle of its own writes.
Within(s) == pc = "within" /\ at <= NSteps /\ Order[at] = s

Loaded == intent.state = "ok"                 \* config::load succeeds

\* version_exists of secrets.rs: a check that cannot be made (gcloud or aws
\* exits with an error) counts as "no version".
Exists(n) == secret[n] # None
Seen(S) == {n \in S : Exists(n)}
Observations(S) == IF ProbesMayFail THEN SUBSET Seen(S) ELSE {Seen(S)}

Containers == host # "none"      \* Terraform created the secret containers

Proceed == pc' = "record" /\ UNCHANGED <<at, mem, k, stops, shown>>
Enter   == pc' = "within" /\ k' = 1 /\ UNCHANGED <<at, mem, held, stops, shown>>
Leave   == pc' = "record" /\ k' = 1 /\ UNCHANGED <<at, mem, held, stops, shown>>

-------------------------------------------------------------------------------
(* The command: loading the receipt, the loop, and recording.              *)

\* Mutant: the loop's index counts from zero.
StartFromZero ==
  /\ pc = "idle"
  /\ receipt.state # "torn"
  /\ pc' = "loop" /\ at' = 0 /\ mem' = receipt.done /\ k' = 1 /\ held' = "nothing"
  /\ UNCHANGED <<files, world, stops, shown>>

\* Mutant: the receipt on disk is not read back.
StartForgetful ==
  /\ pc = "idle"
  /\ receipt.state # "torn"
  /\ pc' = "loop" /\ at' = 1 /\ mem' = {} /\ k' = 1 /\ held' = "nothing"
  /\ UNCHANGED <<files, world, stops, shown>>

\* Receipt::load_or_new.  A torn receipt does not parse, and the command
\* ends before its first step.
Start ==
  /\ pc = "idle"
  /\ receipt.state # "torn"
  /\ pc' = "loop" /\ at' = 1 /\ mem' = receipt.done /\ k' = 1 /\ held' = "nothing"
  /\ UNCHANGED <<files, world, stops, shown>>

\* A step the receipt already names is skipped.
Skip ==
  /\ pc = "loop" /\ at <= NSteps /\ Order[at] \in mem
  /\ at' = at + 1
  /\ UNCHANGED <<files, world, pc, mem, k, held, stops, shown>>

\* Receipt::record: fs::write truncates the receipt ...
RecordOpen ==
  /\ pc = "record"
  /\ receipt' = [receipt EXCEPT !.state = "torn"]
  /\ pc' = "recording"
  /\ UNCHANGED <<intent, nodeConfig, activation, world, at, mem, k, held, stops, shown>>

\* ... and then writes it with the step added; the loop goes on.
RecordWrite ==
  /\ pc = "recording"
  /\ mem' = mem \cup {Order[at]}
  /\ receipt' = [state |-> "ok", done |-> mem']
  /\ pc' = "loop" /\ at' = at + 1
  /\ UNCHANGED <<intent, nodeConfig, activation, world, k, held, stops, shown>>

\* After the last step: terraform::status, then print_next_steps, which is
\* where the temporary password is printed.
StatusAndPrint ==
  /\ pc = "loop" /\ at = NSteps + 1 /\ Loaded
  /\ shown' = IF held = "password" THEN held ELSE shown
  /\ pc' = "idle" /\ held' = "nothing"
  /\ UNCHANGED <<files, world, at, mem, k, stops>>

\* The execution ends here: an external command failed, the operator
\* interrupted it, or the workstation died.  Memory is lost.
Stop ==
  /\ pc # "idle" /\ stops < MaxStops
  /\ stops' = stops + 1
  /\ pc' = "idle" /\ at' = 1 /\ mem' = {} /\ k' = 1 /\ held' = "nothing"
  /\ UNCHANGED <<files, world, shown>>

-------------------------------------------------------------------------------
(* The steps.                                                              *)

Doctor ==
  /\ Running("Doctor")
  /\ Proceed
  /\ UNCHANGED <<files, world, held>>

\* write_intent keeps an existing intent, or creates one (write_new).
IntentKept ==
  /\ Running("Intent") /\ Loaded
  /\ Proceed
  /\ UNCHANGED <<files, world, held>>

IntentOpen ==
  /\ Running("Intent") /\ intent.state = "absent"
  /\ intent' = [state |-> "torn", carries |-> {}]
  /\ Enter
  /\ UNCHANGED <<receipt, nodeConfig, activation, world>>

IntentWrite ==
  /\ Within("Intent")
  /\ intent' = [state |-> "ok", carries |-> IF request.domains THEN {"domains"} ELSE {}]
  /\ Leave
  /\ UNCHANGED <<receipt, nodeConfig, activation, world>>

BootstrapState ==
  /\ Running("BootstrapState") /\ Loaded
  /\ bucket' = "created"
  /\ Proceed
  /\ UNCHANGED <<files, request, host, secret, node, user, held>>

\* Mutant: `prepare` applies the plan of `up`.
PrepareRunning ==
  /\ Running("Prepare") /\ Loaded /\ bucket = "created"
  /\ host' = "RUNNING"
  /\ Proceed
  /\ UNCHANGED <<files, request, bucket, secret, node, user, held>>

\* terraform::apply with HostState::Stopped: creates what is missing and
\* leaves the host stopped, whatever it was.
Prepare ==
  /\ Running("Prepare") /\ Loaded /\ bucket = "created"
  /\ host' = "TERMINATED"
  /\ Proceed
  /\ UNCHANGED <<files, request, bucket, secret, node, user, held>>

\* assign_domains keeps the domains the intent has, or derives them from
\* the static address and rewrites the intent.
DomainsKept ==
  /\ Running("Domains") /\ Loaded /\ "domains" \in intent.carries
  /\ Proceed
  /\ UNCHANGED <<files, world, held>>

DomainsOpen ==
  /\ Running("Domains") /\ Loaded /\ "domains" \notin intent.carries /\ host # "none"
  /\ intent' = [intent EXCEPT !.state = "torn"]
  /\ Enter
  /\ UNCHANGED <<receipt, nodeConfig, activation, world>>

DomainsWrite ==
  /\ Within("Domains")
  /\ intent' = [state |-> "ok", carries |-> intent.carries \cup {"domains"}]
  /\ Leave
  /\ UNCHANGED <<receipt, nodeConfig, activation, world>>

\* initialize_internal: nothing to do, or one batch written name by name.
\* (A mixed set is refused: see Refuses.)
InternalKept ==
  /\ Running("InternalSecrets") /\ Loaded /\ Containers
  /\ Internal \in Observations(Internal)
  /\ Proceed
  /\ UNCHANGED <<files, world, held>>

InternalGenerate ==
  /\ Running("InternalSecrets") /\ Loaded /\ Containers
  /\ {} \in Observations(Internal)
  /\ Enter
  /\ UNCHANGED <<files, world>>

\* secret_write_plan adds a version: it succeeds whatever is there already.
InternalWrite ==
  /\ Within("InternalSecrets")
  /\ secret' = [secret EXCEPT ![InternalNames[k]] = Batch(stops)]
  /\ IF k = Len(InternalNames)
       THEN Leave
       ELSE k' = k + 1 /\ UNCHANGED <<pc, at, mem, held, stops, shown>>
  /\ UNCHANGED <<files, request, bucket, host, node, user>>

\* TelnyxSecrets: both values are there, or both are prompted for and set.
TelnyxKept ==
  /\ Running("TelnyxSecrets") /\ Loaded /\ Containers
  /\ Telnyx \in Observations(Telnyx)
  /\ Proceed
  /\ UNCHANGED <<files, world, held>>

TelnyxPrompt ==
  /\ Running("TelnyxSecrets") /\ Loaded /\ Containers
  /\ \E seen \in Observations(Telnyx) : seen # Telnyx
  /\ Enter
  /\ UNCHANGED <<files, world>>

TelnyxSet ==
  /\ Within("TelnyxSecrets")
  /\ secret' = [secret EXCEPT ![TelnyxNames[k]] = Typed]
  /\ IF k = Len(TelnyxNames)
       THEN Leave
       ELSE k' = k + 1 /\ UNCHANGED <<pc, at, mem, held, stops, shown>>
  /\ UNCHANGED <<files, request, bucket, host, node, user>>

\* Up: verify_required_versions over every declared name, then
\* terraform::apply with HostState::Running.
Up ==
  /\ Running("Up") /\ Loaded /\ Containers
  /\ Names \in Observations(Names)
  /\ host' = "RUNNING"
  /\ Proceed
  /\ UNCHANGED <<files, request, bucket, secret, node, user, held>>

\* acquire_license keeps a certificate, is told to skip, or requests one and
\* rewrites the intent.
LicenseKept ==
  /\ Running("License") /\ Loaded
  /\ "certificate" \in intent.carries \/ request.skipLicense
  /\ Proceed
  /\ UNCHANGED <<files, world, held>>

LicenseOpen ==
  /\ Running("License") /\ Loaded /\ "certificate" \notin intent.carries /\ ~request.skipLicense
  /\ intent' = [intent EXCEPT !.state = "torn"]
  /\ Enter
  /\ UNCHANGED <<receipt, nodeConfig, activation, world>>

LicenseWrite ==
  /\ Within("License")
  /\ intent' = [state |-> "ok", carries |-> intent.carries \cup {"certificate"}]
  /\ Leave
  /\ UNCHANGED <<receipt, nodeConfig, activation, world>>

\* render_node_config: GCP only, never over an existing file.
RenderOpen ==
  /\ Running("RenderNodeConfig") /\ Loaded /\ request.provider = "gcp"
  /\ nodeConfig.state = "absent" /\ "domains" \in intent.carries /\ Containers
  /\ \A n \in Names : Exists(n)
  /\ nodeConfig' = [state |-> "torn", carries |-> intent.carries]
  /\ Enter
  /\ UNCHANGED <<receipt, intent, activation, world>>

RenderWrite ==
  /\ Within("RenderNodeConfig")
  /\ nodeConfig' = [nodeConfig EXCEPT !.state = "ok"]
  /\ Leave
  /\ UNCHANGED <<receipt, intent, activation, world>>

\* activate_gcp never runs over an existing receipt, and wants the host
\* running.  The remote command either brings the appliance to readiness ...
ActivateRemote ==
  /\ Running("Activate") /\ Loaded /\ request.provider = "gcp"
  /\ activation = "absent" /\ host = "RUNNING" /\ nodeConfig.state = "ok"
  /\ node' = [service |-> "active", carries |-> nodeConfig.carries]
  /\ Enter
  /\ UNCHANGED <<files, request, bucket, host, secret, user>>

\* Mutant: the remote command's exit status is not looked at.
ActivateFailsUnseen ==
  /\ Running("Activate") /\ Loaded /\ request.provider = "gcp"
  /\ activation = "absent" /\ host = "RUNNING" /\ nodeConfig.state = "ok"
  /\ stops < MaxStops
  /\ node' = [service |-> "failed", carries |-> nodeConfig.carries]
  /\ Enter
  /\ UNCHANGED <<files, request, bucket, host, secret, user>>

\* ... or fails and leaves it installed but not ready.
ActivateFails ==
  /\ Running("Activate") /\ Loaded /\ request.provider = "gcp"
  /\ activation = "absent" /\ host = "RUNNING" /\ nodeConfig.state = "ok"
  /\ stops < MaxStops
  /\ node' = [service |-> "failed", carries |-> nodeConfig.carries]
  /\ stops' = stops + 1
  /\ pc' = "idle" /\ at' = 1 /\ mem' = {} /\ k' = 1 /\ held' = "nothing"
  /\ UNCHANGED <<files, request, bucket, host, secret, user, shown>>

\* The activation receipt is created (k = 1) and written (k = 2).
ActivateReceiptOpen ==
  /\ Within("Activate") /\ k = 1
  /\ activation' = "torn" /\ k' = 2
  /\ UNCHANGED <<receipt, intent, nodeConfig, world, pc, at, mem, held, stops, shown>>

ActivateReceiptWrite ==
  /\ Within("Activate") /\ k = 2
  /\ activation' = "ok"
  /\ Leave
  /\ UNCHANGED <<receipt, intent, nodeConfig, world>>

\* create_first_administrator: nobody to create with the customer's own
\* provider; a new user and its password; or a user who already exists.
AdministratorExternal ==
  /\ Running("FirstAdministrator") /\ Loaded /\ request.identity = "external"
  /\ Proceed
  /\ UNCHANGED <<files, world, held>>

AdministratorCreated ==
  /\ Running("FirstAdministrator") /\ Loaded /\ request.identity = "bundled"
  /\ "domains" \in intent.carries /\ node.service = "active" /\ user = "none"
  /\ user' = "created" /\ held' = "password"
  /\ Proceed
  /\ UNCHANGED <<files, request, bucket, host, secret, node>>

\* Mutant: a user who exists already is an error, not a step done.
AdministratorExistsRefused == FALSE /\ UNCHANGED vars

AdministratorExists ==
  /\ Running("FirstAdministrator") /\ Loaded /\ request.identity = "bundled"
  /\ "domains" \in intent.carries /\ node.service = "active" /\ user = "created"
  /\ Proceed
  /\ UNCHANGED <<files, world, held>>

-------------------------------------------------------------------------------
(* The early returns that no retry of an external command can cure.  A     *)
(* refusal because a check failed is cured by a retry: it is a Stop.       *)

Refuses(s) ==
  \/ s # "Doctor" /\ ~Loaded /\ (s = "Intent" => intent.state = "torn")
  \/ /\ s = "InternalSecrets" /\ Loaded
     /\ Seen(Internal) # {} /\ Seen(Internal) # Internal
  \/ s = "Up" /\ Loaded /\ Seen(Names) # Names
  \/ s = "RenderNodeConfig" /\ (request.provider # "gcp" \/ nodeConfig.state # "absent")
  \/ s = "Activate" /\ activation # "absent"

Refuse ==
  /\ \E s \in Step : Running(s) /\ Refuses(s)
  /\ pc' = "idle" /\ at' = 1 /\ mem' = {} /\ k' = 1 /\ held' = "nothing"
  /\ UNCHANGED <<files, world, stops, shown>>

\* `thelve secret set` by the operator, at any moment once the container is
\* there.
OperatorSets(n) ==
  /\ Loaded /\ Containers /\ secret[n] # Provided
  /\ secret' = [secret EXCEPT ![n] = Provided]
  /\ UNCHANGED <<files, request, bucket, host, node, user, pc, at, mem, k, held, stops, shown>>

-------------------------------------------------------------------------------
Command ==
  \/ Start \/ Skip \/ RecordOpen \/ RecordWrite \/ StatusAndPrint \/ Refuse
  \/ Doctor \/ IntentKept \/ IntentOpen \/ IntentWrite \/ BootstrapState
  \/ Prepare \/ DomainsKept \/ DomainsOpen \/ DomainsWrite
  \/ InternalKept \/ InternalGenerate \/ InternalWrite
  \/ TelnyxKept \/ TelnyxPrompt \/ TelnyxSet \/ Up
  \/ LicenseKept \/ LicenseOpen \/ LicenseWrite
  \/ RenderOpen \/ RenderWrite
  \/ ActivateRemote \/ ActivateReceiptOpen \/ ActivateReceiptWrite
  \/ AdministratorExternal \/ AdministratorCreated \/ AdministratorExists

Next ==
  \/ Command
  \/ ActivateFails
  \/ Stop
  \/ \E n \in OperatorNames : OperatorSets(n)

Spec == Init /\ [][Next]_vars

\* The operator reruns a stopped launch with the same arguments, and an
\* execution that is not stopped goes on.
FairSpec == Spec /\ WF_vars(Command)

-------------------------------------------------------------------------------
(* Properties.                                                             *)

Phases == {"idle", "loop", "within", "record", "recording"}

\* Every variable keeps to the values the code can give it.
TypeOK ==
  /\ request \in Requests
  /\ receipt \in [state : FileState, done : SUBSET Step]
  /\ intent \in [state : FileState, carries : SUBSET Contents]
  /\ nodeConfig \in [state : FileState, carries : SUBSET Contents]
  /\ activation \in FileState
  /\ bucket \in {"none", "created"}
  /\ host \in {"none", "TERMINATED", "RUNNING"}
  /\ secret \in [Names -> Version]
  /\ node \in [service : {"none", "failed", "active"}, carries : SUBSET Contents]
  /\ user \in {"none", "created"}
  /\ pc \in Phases
  /\ at \in 1..(NSteps + 1)
  /\ mem \subseteq Step
  /\ k \in Nat
  /\ held \in {"nothing", "password"}
  /\ stops \in Nat
  /\ shown \in {"nothing", "password"}

\* What each step is for, as a fact about the files, the cloud and the node.
Effect(s) ==
  /\ s = "Intent"             => intent.state # "absent"
  /\ s = "BootstrapState"     => bucket = "created"
  /\ s = "Prepare"            => host # "none"
  /\ s = "Domains"            => "domains" \in intent.carries
  /\ s = "InternalSecrets"    => \A n \in Internal : Exists(n)
  /\ s = "TelnyxSecrets"      => \A n \in Telnyx : Exists(n)
  /\ s = "Up"                 => host = "RUNNING"
  /\ s = "License"            => "certificate" \in intent.carries \/ request.skipLicense
  /\ s = "RenderNodeConfig"   => nodeConfig.state = "ok"
  /\ s = "Activate"           => activation = "ok" /\ node.service = "active"
  /\ s = "FirstAdministrator" => (request.identity = "bundled" => user = "created")

\* A step named in the launch receipt has its effect in place, wherever the
\* executions before were stopped and whatever later steps have done since:
\* the receipt never claims a step that did not happen, and no later step
\* undoes the work a recorded one stands for (launch.rs: receipt.record).
ReceiptHonest == \A s \in receipt.done : Effect(s)

\* The steps of a launch are a resumable sequence: a rerun never begins a
\* recorded step again and never begins a step before all earlier ones are
\* recorded (launch.rs: the loop over Step::ORDER).
Resumable == INSTANCE ResumableSteps WITH
  completed <- receipt.done,
  running <- IF pc \in {"within", "record", "recording"} THEN at ELSE 0

ResumesInOrder == Resumable!RSpec

\* The host is never running without a version of every declared secret, so
\* the appliance never boots against a missing credential (Step::Up).
RunningHostHasSecrets == host = "RUNNING" => \A n \in Names : Exists(n)

\* A host that a launch brought up is not stopped or recreated by any later
\* execution of the launch: `prepare`, whose Terraform plan stops the host,
\* is not applied again (Step::Prepare against Step::Up).
UpIsNeverUndone == [][host = "RUNNING" => host' = "RUNNING"]_vars

\* A node that serves was booted with the certificate the launch acquired,
\* unless the operator asked for an unlicensed launch: the order License,
\* RenderNodeConfig, Activate is what makes it so.
LicensedAtFirstBoot ==
  node.service = "active" => "certificate" \in node.carries \/ request.skipLicense

\* All generated internal values in the secret store come from one batch,
\* because their passwords and connection strings repeat each other
\* (secrets.rs: "correlated internal credentials must be created together").
\* It takes version checks that do not fail: see ProbesMayFail.
CorrelatedInternal ==
  \A m, n \in Internal :
    secret[m].by = "generated" /\ secret[n].by = "generated"
      => secret[m].batch = secret[n].batch

\* Every step is in a receipt that parses.
Complete == receipt.state = "ok" /\ receipt.done = Step

\* The states a stopped execution can leave behind in which no rerun gets
\* to the end: a file with a hole in it, a partial set of internal secrets
\* (initialize_internal refuses it), a node configuration or an activation
\* receipt written but not recorded (both commands refuse an existing
\* file), and AWS, where node configurations are not rendered.
TornFile == receipt.state = "torn" \/ intent.state = "torn"
PartialInternal == /\ "InternalSecrets" \notin receipt.done
                   /\ \E n \in Internal : Exists(n)
                   /\ \E n \in Internal : ~Exists(n)
OrphanFile == \/ "RenderNodeConfig" \notin receipt.done /\ nodeConfig.state # "absent"
              \/ "Activate" \notin receipt.done /\ activation # "absent"

Wedged == TornFile \/ PartialInternal \/ OrphanFile \/ request.provider = "aws"

\* A launch rerun until it ends does end, or is in one of the states listed
\* above: there is no other way to be stuck, for instance on a user who was
\* created but not recorded.
EndsOrIsWedged == <>(Complete \/ (pc = "idle" /\ Wedged))

\* Without a stop the whole sequence goes through on GCP, in one execution:
\* no step needs anything that a later step provides, and the password of
\* the administrator it created is shown.  Except after an internal name
\* that the operator set: initialize_internal refuses the mixed set.
UninterruptedCompletes ==
  request.provider = "gcp" =>
    <>(\/ Complete /\ (request.identity = "bundled" => shown = "password")
       \/ stops # 0
       \/ \E n \in Internal : secret[n] = Provided)

\* What the arm of step s must find to go on, whichever of its actions it
\* takes.
Wants(s) ==
  /\ s # "Doctor" => Loaded \/ (s = "Intent" /\ intent.state = "absent")
  /\ s = "Prepare" => bucket = "created"
  /\ s = "Domains" => host # "none"
  /\ s \in {"InternalSecrets", "TelnyxSecrets", "Up"} => Containers
  /\ s = "InternalSecrets" => Seen(Internal) \in {{}, Internal}
  /\ s \in {"Up", "RenderNodeConfig"} => Seen(Names) = Names
  /\ s = "RenderNodeConfig" =>
       /\ request.provider = "gcp" /\ nodeConfig.state = "absent"
       /\ "domains" \in intent.carries /\ Containers
  /\ s = "Activate" =>
       /\ request.provider = "gcp" /\ activation = "absent"
       /\ host = "RUNNING" /\ nodeConfig.state = "ok"
  /\ s = "FirstAdministrator" /\ request.identity = "bundled" =>
       "domains" \in intent.carries /\ node.service = "active"

\* Whatever was stopped before and wherever, a launch finds at each step what
\* the step wants, and at its end what the status wants, or the deployment is
\* in one of the states of Wedged: no step waits for anything that a later
\* one, or none, provides.  The safety half of EndsOrIsWedged.
NeverStuck ==
  pc = "loop" /\ ~Wedged =>
    IF at > NSteps THEN Loaded ELSE Order[at] \in mem \/ Wants(Order[at])

-------------------------------------------------------------------------------
(* What the documentation says, and the code does not do.                  *)

\* launch.rs: "a stopped launch resumes at the step that did not complete".
\* It is enough to ask it of stops that leave no file half-written and no
\* partial secret set behind.
ResumesToCompletion ==
  request.provider = "gcp"
    => <>(Complete \/ (pc = "idle" /\ (TornFile \/ PartialInternal
           \/ nodeConfig.state = "torn" \/ activation = "torn")))
===============================================================================
