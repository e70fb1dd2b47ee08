------------------------------- MODULE Workspace -------------------------------
(***************************************************************************)
(* The Terraform workspace one deployment has on one machine               *)
(* (terraform.rs), and the commands that share it: plan, prepare and       *)
(* pause, up and resume, status, destroy, and the apply of replace-node.   *)
(* Each refreshes the same files, plans to a file of its name, and         *)
(* applies what that file holds by then.                                   *)
(*                                                                         *)
(* Terraform is external: a plan or an apply is one step under the state   *)
(* lock, a saved plan is refused once the state has changed, a failed      *)
(* apply may leave part of its work.  A killed command takes its           *)
(* Terraform with it; a lock left behind is not modelled.                  *)
(***************************************************************************)
EXTENDS Naturals, FiniteSets

CONSTANTS
  Procs,        \* terminals, each running one command at a time
  Configs,      \* contents of deployment.yaml; none forces a new VM
  None,
  MaxCommands,  \* bound: commands begun
  MaxStops,     \* bound: commands stopped and applies failed, anywhere
  MaxEdits      \* bound: edits of the intent

ASSUME BoundsAssumption ==
  MaxCommands \in Nat /\ MaxStops \in Nat /\ MaxEdits \in Nat

\* `pause` is also prepare, `up` also resume: they make the same call.
Command == {"plan", "pause", "up", "status", "destroy", "replace"}
Power   == {"running", "stopped"}

\* What the variables and the plans say.
Vars == [power : Power, cfg : Configs]
Plan == [kind : {"apply", "destroy", "replace"}, power : Power, cfg : Configs]

ASSUME NoneAssumption == None \notin Configs \cup Power \cup Command \cup Vars \cup Plan

VARIABLES
  intent,   \* deployment.yaml
  files,    \* the module's files and the backend arguments
  vars,     \* deployment.auto.tfvars.json; None: absent, or written in part
  plans,    \* the saved plan files; None: absent, or of an earlier state
  cloud,    \* what Terraform's state describes
  versions, \* whether every declared secret has an enabled version
  pc, kind, cfg, phase,  \* per terminal: its command, the intent it loaded
  alone,    \* history: no other command ran since this one began
  sole,     \* history: no other replacement ran since this one began
  begun, stops, edits

workspace == <<files, vars, plans>>
procs     == <<pc, kind, cfg, phase>>
history   == <<alone, sole>>
bounds    == <<begun, stops, edits>>
all       == <<intent, workspace, cloud, versions, procs, history, bounds>>

PlanFile == {"thelve", "thelve-destroy", "thelve-replace-node"}

TypeOK ==
  /\ intent \in Configs
  /\ files \in {"absent", "older", "torn", "ours"}
  /\ vars \in {None} \cup Vars
  /\ plans \in [PlanFile -> {None} \cup Plan]
  /\ plans["thelve"] # None => plans["thelve"].kind = "apply"
  /\ plans["thelve-destroy"] # None => plans["thelve-destroy"].kind = "destroy"
  /\ cloud \in [host : {None} \cup Power, rest : {None} \cup Configs]
  /\ cloud.rest = None => cloud.host = None /\ ~versions
  /\ versions \in BOOLEAN
  /\ pc \in [Procs -> {"idle", "check", "refresh", "refreshing", "vars", "writing",
                       "init", "plan", "show", "apply"}]
  /\ kind \in [Procs -> Command \cup {None}]
  /\ cfg \in [Procs -> Configs]
  /\ phase \in [Procs -> {"before", "main", "after"}]
  /\ alone \in [Procs -> BOOLEAN] /\ sole \in [Procs -> BOOLEAN]
  /\ begun \in 0 .. MaxCommands /\ stops \in 0 .. MaxStops /\ edits \in 0 .. MaxEdits

Init ==
  /\ intent \in Configs
  /\ files \in {"absent", "older"} /\ vars = None
  /\ plans = [f \in PlanFile |-> None]
  /\ cloud = [host |-> None, rest |-> None] /\ versions = FALSE
  /\ pc = [p \in Procs |-> "idle"] /\ kind = [p \in Procs |-> None]
  /\ cfg \in {[p \in Procs |-> intent]}
  /\ phase = [p \in Procs |-> "main"] /\ alone = [p \in Procs |-> FALSE] /\ sole = [p \in Procs |-> FALSE]
  /\ begun = 0 /\ stops = 0 /\ edits = 0

-------------------------------------------------------------------------------
At(p, l)  == pc[p] = l
Busy(p)   == ~At(p, "idle")
Goto(p, l) == pc' = [pc EXCEPT ![p] = l] /\ UNCHANGED <<kind, cfg, phase, history>>
Ends(p) ==
  /\ pc' = [pc EXCEPT ![p] = "idle"] /\ kind' = [kind EXCEPT ![p] = None]
  /\ phase' = [phase EXCEPT ![p] = "main"] /\ UNCHANGED <<cfg, history>>
Fault == stops < MaxStops /\ stops' = stops + 1 /\ UNCHANGED <<begun, edits>>

\* The host state a command asks prepare_workspace for.
Asked(k) == IF k \in {"pause", "destroy"} THEN "stopped" ELSE "running"
Mine(p)  == [power |-> Asked(kind[p]), cfg |-> cfg[p]]

\* Mutants: two plans share a file.
FileShared(k)  == IF k = "replace" THEN "thelve-replace-node" ELSE "thelve"
FileOfDestroy(k) == IF k = "destroy" THEN "thelve-replace-node"
                    ELSE IF k = "replace" THEN "thelve-destroy" ELSE "thelve"

\* -out=... and the last argument of apply.
FileOf(k) == CASE k = "destroy" -> "thelve-destroy"
               [] k = "replace" -> "thelve-replace-node"
               [] OTHER -> "thelve"

-------------------------------------------------------------------------------
\* A node that answers: replace_gcp_node of recovery.rs first has it verify
\* a backup.
MayReplace == cloud.host = "running" /\ versions

Begin(p, k) ==
  /\ At(p, "idle") /\ begun < MaxCommands
  /\ k = "replace" => MayReplace
  /\ pc' = [pc EXCEPT ![p] = IF k = "up" THEN "check" ELSE "refresh"]
  /\ kind' = [kind EXCEPT ![p] = k] /\ cfg' = [cfg EXCEPT ![p] = intent]
  /\ phase' = [phase EXCEPT ![p] = IF k \in {"status", "replace"} THEN "before" ELSE "main"]
  /\ alone' = [q \in Procs |-> q = p /\ \A o \in Procs \ {p} : ~Busy(o)]
  /\ sole' = [q \in Procs |-> IF q = p THEN \A o \in Procs \ {p} : kind[o] # "replace"
                              ELSE sole[q] /\ k # "replace"]
  /\ begun' = begun + 1
  /\ UNCHANGED <<intent, workspace, cloud, versions, stops, edits>>

\* verify_required_versions: the containers as Terraform lists them from
\* the workspace as it lies, and a version in each.
CheckVersions(p) ==
  /\ At(p, "check")
  /\ files = "ours" /\ cloud.rest # None /\ versions
  /\ Goto(p, "refresh")
  /\ UNCHANGED <<intent, workspace, cloud, versions, bounds>>

\* The module's files and the backend arguments, each written if it differs;
\* the declaration an older version left is removed.
Refresh(p) ==
  /\ At(p, "refresh")
  /\ \/ files = "ours" /\ Goto(p, "vars") /\ UNCHANGED files
     \/ files # "ours" /\ files' = "torn" /\ Goto(p, "refreshing")
  /\ UNCHANGED <<intent, vars, plans, cloud, versions, bounds>>

RefreshWrite(p) ==
  /\ At(p, "refreshing")
  /\ files' = "ours" /\ Goto(p, "vars")
  /\ UNCHANGED <<intent, vars, plans, cloud, versions, bounds>>

\* Mutant: written if it is not there.
KeptIfThere(p) == vars # None

\* write_if_changed of the variables.
Kept(p) == vars = Mine(p)

VarsOpen(p) ==
  /\ At(p, "vars")
  /\ \/ Kept(p) /\ Goto(p, "init") /\ UNCHANGED vars
     \/ ~Kept(p) /\ vars' = None /\ Goto(p, "writing")
  /\ UNCHANGED <<intent, files, plans, cloud, versions, bounds>>

VarsWrite(p) ==
  /\ At(p, "writing")
  /\ vars' = Mine(p) /\ Goto(p, "init")
  /\ UNCHANGED <<intent, files, plans, cloud, versions, bounds>>

\* `terraform init`, and `output` where the command is reading outputs.
\* `replace` reads them before it plans and after it has applied.
InitBackend(p) ==
  /\ At(p, "init") /\ files = "ours"
  /\ CASE phase[p] = "main" -> Goto(p, "plan")
       [] kind[p] = "replace" /\ phase[p] = "before" ->
            /\ pc' = [pc EXCEPT ![p] = "refresh"] /\ phase' = [phase EXCEPT ![p] = "main"]
            /\ UNCHANGED <<kind, cfg, history>>
       [] OTHER -> Ends(p)
  /\ UNCHANGED <<intent, workspace, cloud, versions, bounds>>

Readable == files = "ours" /\ vars # None

\* Mutant: a plan that is there is used.
SavePlanUnlessThere(p) ==
  /\ At(p, "plan") /\ Readable
  /\ LET f == FileOf(kind[p])
         k == IF kind[p] \in {"destroy", "replace"} THEN kind[p] ELSE "apply"
     IN plans' = IF plans[f] # None THEN plans
                 ELSE [plans EXCEPT ![f] = [kind |-> k, power |-> vars.power, cfg |-> vars.cfg]]
  /\ CASE kind[p] = "plan" -> Ends(p)
       [] kind[p] = "replace" -> Goto(p, "show")
       [] OTHER -> Goto(p, "apply")
  /\ UNCHANGED <<intent, files, vars, cloud, versions, bounds>>

\* `terraform plan -out`: of the variables the workspace has by now.
SavePlan(p) ==
  /\ At(p, "plan") /\ Readable
  /\ LET k == IF kind[p] \in {"destroy", "replace"} THEN kind[p] ELSE "apply"
     IN plans' = [plans EXCEPT ![FileOf(kind[p])] =
                    [kind |-> k, power |-> vars.power, cfg |-> vars.cfg]]
  /\ CASE kind[p] = "plan" -> Ends(p)
       [] kind[p] = "replace" -> Goto(p, "show")
       [] OTHER -> Goto(p, "apply")
  /\ UNCHANGED <<intent, files, vars, cloud, versions, bounds>>

Fresh(f) == plans[f] # None

\* Mutant: every plan that replaces the instance is accepted.
ExactAny(pl) == cloud.host # None

\* validate_exact_gcp_replacement: the instance is deleted and created, and
\* the plan changes nothing else.
Exact(pl) == cloud.host # None /\ pl.cfg = cloud.rest

Show(p) ==
  /\ At(p, "show")
  /\ Fresh(FileOf("replace")) /\ Exact(plans[FileOf("replace")])
  /\ Goto(p, "apply")
  /\ UNCHANGED <<intent, workspace, cloud, versions, bounds>>

-------------------------------------------------------------------------------
\* What applying a plan makes of the cloud, and what it may leave if it
\* fails: the instance depends on the network, the containers and the
\* address, and is deleted before them.
Target(pl) == IF pl.kind = "destroy" THEN [host |-> None, rest |-> None]
              ELSE [host |-> pl.power, rest |-> pl.cfg]
Partial(pl) ==
  {cloud, Target(pl)} \cup
  CASE pl.kind = "destroy" -> {[cloud EXCEPT !.host = None]}
    [] pl.kind = "replace" -> {[host |-> None, rest |-> pl.cfg]}
    [] OTHER -> {[cloud EXCEPT !.rest = pl.cfg]}

\* A changed state makes every saved plan stale.
Becomes(c) ==
  /\ cloud' = c
  /\ plans' = IF c = cloud THEN plans ELSE [f \in PlanFile |-> None]
  /\ versions' = (versions /\ c.rest # None)

\* `terraform apply FILE`: whatever plan the file holds by now.
Apply(p) ==
  /\ At(p, "apply") /\ Fresh(FileOf(kind[p]))
  /\ Becomes(Target(plans[FileOf(kind[p])]))
  /\ IF kind[p] = "replace"
     THEN /\ pc' = [pc EXCEPT ![p] = "refresh"] /\ phase' = [phase EXCEPT ![p] = "after"]
          /\ UNCHANGED <<kind, cfg, history>>
     ELSE Ends(p)
  /\ UNCHANGED <<intent, files, vars, bounds>>

ApplyFails(p) ==
  /\ At(p, "apply") /\ Fresh(FileOf(kind[p]))
  /\ Fault
  /\ \E c \in Partial(plans[FileOf(kind[p])]) : Becomes(c)
  /\ Ends(p)
  /\ UNCHANGED <<intent, files, vars>>

\* Checks that refuse, and calls of Terraform that fail on what they find.
Refused(p) ==
  \/ At(p, "check") /\ (files # "ours" \/ cloud.rest = None \/ ~versions)
  \/ At(p, "init") /\ files # "ours"
  \/ At(p, "plan") /\ ~Readable
  \/ At(p, "show") /\ (Fresh(FileOf("replace")) => ~Exact(plans[FileOf("replace")]))
  \/ At(p, "apply") /\ ~Fresh(FileOf(kind[p]))

Refuse(p) ==
  /\ Refused(p) /\ Ends(p)
  /\ UNCHANGED <<intent, workspace, cloud, versions, bounds>>

\* The command is stopped between two steps, or a call of it fails.
Stop(p) ==
  /\ Busy(p) /\ Fault /\ Ends(p)
  /\ UNCHANGED <<intent, workspace, cloud, versions>>

\* `secrets` commands have given every container a version.
SetSecrets ==
  /\ cloud.rest # None /\ ~versions /\ versions' = TRUE
  /\ UNCHANGED <<intent, workspace, cloud, procs, history, bounds>>

\* The operator edits the intent, for instance its domains.
Edit ==
  /\ edits < MaxEdits /\ edits' = edits + 1
  /\ \E c \in Configs \ {intent} : intent' = c
  /\ UNCHANGED <<workspace, cloud, versions, procs, history, begun, stops>>

Terminal(p) ==
  \/ \E k \in Command : Begin(p, k)
  \/ CheckVersions(p) \/ Refresh(p) \/ RefreshWrite(p) \/ VarsOpen(p) \/ VarsWrite(p)
  \/ InitBackend(p) \/ SavePlan(p) \/ Show(p) \/ Apply(p) \/ ApplyFails(p)
  \/ Refuse(p) \/ Stop(p)

Next == SetSecrets \/ Edit \/ \E p \in Procs : Terminal(p)

Spec == Init /\ [][Next]_all

-------------------------------------------------------------------------------
(* Properties.                                                             *)

\* However commands overlap, fail and are rerun, the address, the secret
\* containers and the backups are removed only by a command the operator
\* confirmed by name: no `up`, `pause` or `replace-node` runs a plan that
\* `destroy` saved (terraform.rs:87-108 keep its plan in a file of its own).
OnlyDestroyDestroys ==
  [][cloud.rest # None /\ cloud'.rest = None
       => \E p \in Procs : kind[p] = "destroy" /\ At(p, "apply")]_all

\* The apply of a replacement changes the instance and nothing else, however
\* the intent was edited and whatever other commands planned or applied
\* since the plan was shown and validated (terraform.rs:132-170), unless
\* another replacement saved its plan over the validated one.
ReplacesExactly ==
  [][\A p \in Procs : kind[p] = "replace" /\ sole[p] /\ At(p, "apply") /\ ~At(p, "apply")'
       => cloud'.rest = cloud.rest]_all

\* A command that ran alone leaves the host as it asked, in the
\* configuration it loaded: nothing earlier commands, finished or stopped
\* halfway, left in the workspace leaks into it (terraform.rs:290-345).
AsAsked ==
  [][\A p \in Procs : Apply(p) /\ alone[p]
       => IF kind[p] = "destroy" THEN cloud'.rest = None
          ELSE cloud' = [host |-> Asked(kind[p]), rest |-> cfg[p]]]_all

\* A host is started only once every secret has a version, by any command
\* that ran alone, whatever `plan` saved before (cli.rs:724-731).
StartsWithSecrets ==
  [][cloud.host # "running" /\ cloud'.host = "running"
       => \E p \in Procs : At(p, "apply") /\ (alone[p] => versions)]_all

\* A command that ran alone is refused only by the checks it makes on
\* purpose: that `up` finds its secrets, and that the plan of a replacement
\* replaces the instance alone, which it does unless the intent was edited.
\* It finds the files, the variables and the plan it wrote, whatever earlier
\* commands, finished or stopped halfway, left (terraform.rs:290-345).
RefusedOnPurpose ==
  \A p \in Procs : alone[p] /\ Refused(p) =>
    \/ At(p, "check")
    \/ At(p, "show") /\ cfg[p] # cloud.rest
===============================================================================
