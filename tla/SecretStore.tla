------------------------------ MODULE SecretStore ------------------------------
(***************************************************************************)
(* The cloud's secret store under several commands at once                 *)
(* (src/secrets.rs): `thelve secret initialize-internal`, which checks     *)
(* every internal name and writes one batch of generated values,           *)
(* `thelve secret set`, `thelve deploy up`, which wants a version of every *)
(* declared name, and `thelve deploy render-node-config`, which pins the   *)
(* newest enabled version of each (src/activation.rs).  Each looks at one  *)
(* name after the other while the others write, and nothing is locked.     *)
(*                                                                         *)
(* Launch has these calls as steps of one execution that is rerun; here    *)
(* the store keeps its old versions, and the operator disables them.       *)
(***************************************************************************)
EXTENDS Naturals, Sequences

CONSTANTS
  Procs,          \* terminals
  InternalNames,  \* INTERNAL_SECRET_NAMES, in the order they are written
  OtherNames,     \* the other names of spec.secretNames
  Settable,       \* the names an operator sets
  Providers,      \* "gcp", "aws"
  ChecksMayFail,  \* a version check may fail for other reasons (network)
  MaxOps,         \* bound: commands
  MaxStops,       \* bound: commands stopped
  MaxDisabled     \* bound: versions the operator disables

AllNames == InternalNames \o OtherNames

Internal == {InternalNames[i] : i \in 1..Len(InternalNames)}
Names    == {AllNames[i] : i \in 1..Len(AllNames)}

Command ==
  [kind : {"initialize", "up", "render"}] \cup [kind : {"set"}, name : Settable]

ASSUME StoreAssumption ==
  /\ InternalNames \in Seq(Internal) /\ InternalNames # <<>>
  /\ OtherNames \in Seq(Names)
  /\ \A i, j \in 1..Len(AllNames) : AllNames[i] = AllNames[j] => i = j
  /\ Settable \subseteq Names
  /\ Providers \subseteq {"gcp", "aws"}
  /\ ChecksMayFail \in BOOLEAN
  /\ MaxOps \in Nat /\ MaxStops \in Nat /\ MaxDisabled \in Nat

VARIABLES
  provider,
  host,        \* "none" (no containers either), "TERMINATED" or "RUNNING"
  store,       \* name -> its versions, the oldest first
  nodeConfig,  \* name -> the version pinned by the last node configuration
  \* The commands in progress.
  pc, cmd,
  k,           \* the name a command is at
  found,       \* name -> the version its command found, 0 for none
  batch,       \* the batch of values an initialization generated
  \* History.
  since,       \* name -> the versions enabled when a command began
  batches,     \* batches generated
  spoiled,     \* what happened that may spoil a batch
  ops, stops, disabled

cloud   == <<provider, host, store>>
session == <<pc, cmd, k, found, batch, since>>
bounds  == <<ops, stops, disabled>>
vars    == <<cloud, nodeConfig, session, batches, spoiled, bounds>>

\* Terraform declares the containers; a version is added enabled.
Typed        == [by |-> "operator", batch |-> 0, enabled |-> TRUE]
Generated(b) == [by |-> "generated", batch |-> b, enabled |-> TRUE]

Version      == [by : {"operator"}, batch : {0}, enabled : BOOLEAN]
                  \cup [by : {"generated"}, batch : Nat \ {0}, enabled : BOOLEAN]

Unpinned  == [n \in Names |-> 0]
NoCommand == [kind |-> "none"]

Init ==
  /\ provider \in Providers /\ host = "none"
  /\ store = [n \in Names |-> <<>>]
  /\ nodeConfig = Unpinned
  /\ pc = [p \in Procs |-> "idle"] /\ cmd = [p \in Procs |-> NoCommand]
  /\ k = [p \in Procs |-> 1] /\ found = [p \in Procs |-> Unpinned]
  /\ batch = [p \in Procs |-> 0]
  /\ since = [p \in Procs |-> [n \in Names |-> {}]]
  /\ batches = 0 /\ spoiled = {}
  /\ ops = 0 /\ stops = 0 /\ disabled = 0

-------------------------------------------------------------------------------
(* Helpers.                                                                *)

\* version_exists: on GCP version 1 is there and enabled, on AWS some
\* version is the current one.
Exists(n) == store[n] # <<>> /\ (provider = "gcp" => store[n][1].enabled)

\* `versions list --filter=state=ENABLED --sort-by=~name --limit=1`.
Enabled(n) == {v \in 1..Len(store[n]) : store[n][v].enabled}
Newest(n)  == {v \in Enabled(n) : \A w \in Enabled(n) : w <= v}

At(p, l) == pc[p] = l
Goto(p, l) == pc' = [pc EXCEPT ![p] = l]
Ends(p) ==
  /\ pc' = [pc EXCEPT ![p] = "idle"] /\ cmd' = [cmd EXCEPT ![p] = NoCommand]
  /\ k' = [k EXCEPT ![p] = 1] /\ batch' = [batch EXCEPT ![p] = 0]
  /\ found' = [found EXCEPT ![p] = Unpinned]
  /\ since' = [since EXCEPT ![p] = [n \in Names |-> {}]]

\* The names a command goes through.
NamesOf(p) == IF cmd[p].kind = "initialize" THEN InternalNames ELSE AllNames

\* Mutant: the versions are sorted the other way round.
SeesOldest(p, n) ==
  CASE cmd[p].kind # "render" -> {IF Exists(n) THEN 1 ELSE 0}
    [] OTHER -> IF Enabled(n) = {} THEN {0}
                ELSE {v \in Enabled(n) : \A w \in Enabled(n) : v <= w}

\* What a command may find of a name.
Sees(p, n) ==
  CASE cmd[p].kind # "render" ->
         {IF Exists(n) THEN 1 ELSE 0} \cup (IF ChecksMayFail THEN {0} ELSE {})
    [] OTHER -> IF Enabled(n) = {} THEN {0} ELSE Newest(n)

Found(p) == {n \in Names : found[p][n] # 0}
Initializing == {p \in Procs : pc[p] # "idle" /\ cmd[p].kind = "initialize"}

-------------------------------------------------------------------------------
(* The commands.                                                           *)

\* secret_resources: without the containers every command refuses.  AWS
\* deployments are not rendered.
Begin(p, c) ==
  /\ At(p, "idle") /\ host # "none" /\ ops < MaxOps
  /\ c.kind = "render" => provider = "gcp"
  /\ Goto(p, IF c.kind = "set" THEN "write" ELSE "look")
  /\ cmd' = [cmd EXCEPT ![p] = c]
  /\ since' = [since EXCEPT ![p] = [n \in Names |-> Enabled(n)]]
  /\ spoiled' = IF c.kind = "initialize" /\ Initializing # {}
                  THEN spoiled \cup {"overlap"} ELSE spoiled
  /\ ops' = ops + 1
  /\ UNCHANGED <<cloud, nodeConfig, k, found, batch, batches, stops, disabled>>

\* Mutant: the first name stands for all of them.
LookOnce(p) ==
  /\ At(p, "look")
  /\ LET n == NamesOf(p)[k[p]] IN
     \E v \in Sees(p, n) :
       found' = [found EXCEPT ![p] = [m \in Names |-> v]]
  /\ Goto(p, "decide")
  /\ UNCHANGED <<cloud, nodeConfig, cmd, k, batch, since, batches, spoiled, bounds>>

\* One call of gcloud or aws for each name.  A check that fails counts as
\* "no version": so does a version that is there.
Look(p) ==
  /\ At(p, "look")
  /\ LET n == NamesOf(p)[k[p]] IN
     \E v \in Sees(p, n) :
       /\ found' = [found EXCEPT ![p][n] = v]
       /\ spoiled' = IF cmd[p].kind = "initialize" /\ v = 0 /\ Exists(n)
                       THEN spoiled \cup {"check"} ELSE spoiled
  /\ IF k[p] = Len(NamesOf(p))
       THEN Goto(p, "decide") /\ UNCHANGED k
       ELSE k' = [k EXCEPT ![p] = @ + 1] /\ UNCHANGED pc
  /\ UNCHANGED <<cloud, nodeConfig, cmd, batch, since, batches, bounds>>

\* initialize_internal over a complete set.
Kept(p) ==
  /\ At(p, "decide") /\ cmd[p].kind = "initialize" /\ Internal \subseteq Found(p)
  /\ Ends(p)
  /\ UNCHANGED <<cloud, nodeConfig, batches, spoiled, bounds>>

\* Mutant: a mixed set is completed.
GenerateMissing(p) ==
  /\ At(p, "decide") /\ cmd[p].kind = "initialize" /\ ~(Internal \subseteq Found(p))
  /\ batches' = batches + 1 /\ batch' = [batch EXCEPT ![p] = batches + 1]
  /\ Goto(p, "write") /\ k' = [k EXCEPT ![p] = 1]
  /\ UNCHANGED <<cloud, nodeConfig, cmd, found, since, spoiled, bounds>>

\* Mutant: the values of the batch before are written again.
GenerateOnce(p) ==
  /\ At(p, "decide") /\ cmd[p].kind = "initialize" /\ Found(p) = {}
  /\ batches' = batches + 1 /\ batch' = [batch EXCEPT ![p] = batches]
  /\ Goto(p, "write") /\ k' = [k EXCEPT ![p] = 1]
  /\ UNCHANGED <<cloud, nodeConfig, cmd, found, since, spoiled, bounds>>

\* generated_internal_values.
Generate(p) ==
  /\ At(p, "decide") /\ cmd[p].kind = "initialize" /\ Found(p) = {}
  /\ batches' = batches + 1 /\ batch' = [batch EXCEPT ![p] = batches + 1]
  /\ Goto(p, "write") /\ k' = [k EXCEPT ![p] = 1]
  /\ UNCHANGED <<cloud, nodeConfig, cmd, found, since, spoiled, bounds>>

\* secret_write_plan adds a version, whatever versions there are.
Write(p) ==
  /\ At(p, "write") /\ cmd[p].kind = "initialize"
  /\ store' = [store EXCEPT ![InternalNames[k[p]]] = Append(@, Generated(batch[p]))]
  /\ IF k[p] = Len(InternalNames)
       THEN Ends(p)
       ELSE k' = [k EXCEPT ![p] = @ + 1] /\ UNCHANGED <<pc, cmd, found, batch, since>>
  /\ UNCHANGED <<provider, host, nodeConfig, batches, spoiled, bounds>>

\* set.
Set(p) ==
  /\ At(p, "write") /\ cmd[p].kind = "set"
  /\ store' = [store EXCEPT ![cmd[p].name] = Append(@, Typed)]
  /\ spoiled' = IF cmd[p].name \in Internal /\ Initializing # {}
                  THEN spoiled \cup {"raced"} ELSE spoiled
  /\ Ends(p)
  /\ UNCHANGED <<provider, host, nodeConfig, batches, bounds>>

\* `deploy up`: verify_required_versions, then the host is started.
Up(p) ==
  /\ At(p, "decide") /\ cmd[p].kind = "up" /\ Found(p) = Names
  /\ host' = "RUNNING"
  /\ Ends(p)
  /\ UNCHANGED <<provider, store, nodeConfig, batches, spoiled, bounds>>

\* render_node_config: the pins, in a file of its own for each rendering.
Render(p) ==
  /\ At(p, "decide") /\ cmd[p].kind = "render" /\ Found(p) = Names
  /\ nodeConfig' = found[p]
  /\ Ends(p)
  /\ UNCHANGED <<cloud, batches, spoiled, bounds>>

\* A mixed set of internal names, or a declared name without a version.
Refuse(p) ==
  /\ At(p, "decide")
  /\ IF cmd[p].kind = "initialize"
       THEN Found(p) # {} /\ ~(Internal \subseteq Found(p))
       ELSE Found(p) # Names
  /\ Ends(p)
  /\ UNCHANGED <<cloud, nodeConfig, batches, spoiled, bounds>>

\* A command is interrupted, or a call it relies on fails: a write that
\* landed may be the one that is reported as failed.
Stop(p) ==
  /\ pc[p] # "idle" /\ stops < MaxStops
  /\ stops' = stops + 1
  /\ Ends(p)
  /\ UNCHANGED <<cloud, nodeConfig, batches, spoiled, ops, disabled>>

-------------------------------------------------------------------------------
(* Around the commands.                                                    *)

\* `deploy prepare`, which makes the containers, and `deploy pause`.
Prepare ==
  /\ host # "TERMINATED"
  /\ host' = "TERMINATED"
  /\ UNCHANGED <<provider, store, nodeConfig, session, batches, spoiled, bounds>>

\* The operator disables a version, after a rotation or a leak.
Disable(n, v) ==
  /\ provider = "gcp" /\ disabled < MaxDisabled /\ store[n][v].enabled
  /\ store' = [store EXCEPT ![n][v].enabled = FALSE]
  /\ disabled' = disabled + 1
  /\ spoiled' = IF n \in Internal /\ v = 1 THEN spoiled \cup {"disabled"} ELSE spoiled
  /\ UNCHANGED <<provider, host, nodeConfig, session, batches, ops, stops>>

Next ==
  \/ \E p \in Procs :
       \/ \E c \in Command : Begin(p, c)
       \/ Look(p) \/ Kept(p) \/ Generate(p) \/ Write(p) \/ Set(p)
       \/ Up(p) \/ Render(p) \/ Refuse(p) \/ Stop(p)
  \/ Prepare
  \/ \E n \in Names : \E v \in 1..Len(store[n]) : Disable(n, v)

Spec == Init /\ [][Next]_vars

-------------------------------------------------------------------------------
(* Properties.                                                             *)

\* Every variable keeps to the values the code can give it.
TypeOK ==
  /\ provider \in Providers /\ host \in {"none", "TERMINATED", "RUNNING"}
  /\ store \in [Names -> Seq(Version)]
  /\ nodeConfig \in [Names -> Nat]
  /\ pc \in [Procs -> {"idle", "look", "decide", "write"}]
  /\ cmd \in [Procs -> Command \cup {NoCommand}]
  /\ k \in [Procs -> 1..Len(AllNames)]
  /\ found \in [Procs -> [Names -> Nat]]
  /\ since \in [Procs -> [Names -> SUBSET Nat]]
  /\ batch \in [Procs -> Nat]
  /\ batches \in Nat /\ spoiled \subseteq {"overlap", "check", "raced", "disabled"}
  /\ ops \in 0..MaxOps /\ stops \in 0..MaxStops /\ disabled \in 0..MaxDisabled

PinnedFrom(n) == store[n][nodeConfig[n]]

\* The generated values a node is given are of one batch, as they repeat each
\* other's passwords: whatever was stopped, refused, rerun, set by hand or
\* rendered in the middle of it (secrets.rs: "correlated internal credentials
\* must be created together").  It takes initializations that do not overlap,
\* checks that do not fail, and first versions that stay enabled; the code
\* sees to none of these.
PinsCorrelated ==
  nodeConfig # Unpinned /\ spoiled \cap {"overlap", "check", "disabled"} = {} =>
    \A m, n \in Internal :
      PinnedFrom(m).by = "generated" /\ PinnedFrom(n).by = "generated"
        => PinnedFrom(m).batch = PinnedFrom(n).batch

\* An initialization does not cover a value an operator set before it began:
\* it finds that value and refuses, on both providers.
OperatorNotCovered ==
  spoiled \cap {"overlap", "check", "raced", "disabled"} = {} =>
    \A n \in Internal : \A v, w \in 1..Len(store[n]) :
      store[n][v].by = "operator" /\ store[n][w].by = "generated" => w < v

\* A rendering adopts every rotation that was over when it began, though it
\* reads the names one by one while others write: no pin is older than a
\* version that was enabled then, unless that was disabled since
\* (activation.rs, pin_latest_gcp_secret_versions; the runbook's "adopts an
\* intentional rotation").
AdoptsRotations ==
  [][\A p \in Procs : Render(p) =>
       \A n \in Names : \A v \in since[p][n] :
         v <= nodeConfig'[n] \/ ~store[n][v].enabled]_vars

-------------------------------------------------------------------------------
(* What the documentation says, and the code does not do.                  *)

\* docs/runbooks/cloud-single-node.md: "`up` refuses to start until every
\* declared secret has an enabled version".  So, where nothing else runs, it
\* refuses only if a name has none.
UpAfterVersionsExist ==
  [][\A p \in Procs : cmd[p].kind = "up" /\ Refuse(p) =>
       \E n \in Names : Enabled(n) = {}]_vars
===============================================================================
