------------------------------- MODULE AgentPlans -------------------------------
(***************************************************************************)
(* The agent client (src/agent.rs), used from the command line             *)
(* (src/cli.rs, execute_agent) and by the MCP server (src/mcp.rs), against *)
(* a Thelve deployment.  The deployment is external: it keeps a catalogue  *)
(* that its administrators change, approvals that people decide, and the   *)
(* answers it gave under each idempotency key.  Requests and answers may   *)
(* be lost or late (the client gives up after 45 seconds).                 *)
(*                                                                         *)
(* The deployment is trusted with as little as the client relies on: it    *)
(* performs a request that carries no approval without looking at its      *)
(* risk, it performs one that carries an approval if that is approved and  *)
(* for the same call, and it performs nothing twice under one key.         *)
(***************************************************************************)
EXTENDS AgentProfile, FiniteSets

CONSTANTS
  Ids,        \* approval ids
  Calls,      \* calls: a capability with a resource and an input
  AskedKeys,  \* idempotency keys an operator gives
  Commands,   \* process -> the commands run there
  Drift,      \* the changes of the catalogue that administrators make
  MaxChanges, \* bound: changes of the catalogue
  MaxInvokes  \* bound: invocations with a fresh idempotency key

\* What the catalogue says of a call's capability: its risk, whether it
\* always needs approval, and whether it is open to AI actors.
Class == [risk : {"read", "write", "destructive"}, always : BOOLEAN, ai_tool : BOOLEAN]

Command ==
  {Create}
    \cup [kind : {"invoke"}, call : Calls, by : Ids \cup {None}, key : AskedKeys \cup {None}]
    \cup [kind : {"plan"}, call : Calls, control : {"confirmation", "four_eyes"},
          key : AskedKeys \cup {None}]
    \cup [kind : {"apply"}, by : Ids]

ASSUME PlanAssumption ==
  /\ Commands \in [Procs -> SUBSET Command]
  /\ None \notin Ids \cup AskedKeys
  /\ Drift \subseteq [Calls -> Class] \X [Calls -> Class]
  /\ MaxChanges \in Nat /\ MaxInvokes \in Nat

VARIABLES
  catalogue,  \* the class of every call, and how often the catalogue changed
  approvals,  \* id -> approval
  net,        \* requests the deployment has not handled
  seen,       \* process -> what it read of the catalogue, then what it sent
  executed,   \* what was performed, by idempotency key
  invokes

server  == <<catalogue, approvals, executed>>
network == <<net, seen, invokes>>
vars    == <<files, pc, cmd, held, stops, server, network>>

NoApproval == [state |-> "none", call |-> None, control |-> "none", key |-> None,
               asked |-> None, version |-> 0]
Nothing    == [kind |-> "none"]

Init ==
  /\ ProfileInit
  /\ \E d \in Drift : catalogue = [class |-> d[1], version |-> 0]
  /\ approvals = [i \in Ids |-> NoApproval]
  /\ net = {} /\ seen = [p \in Procs |-> Nothing]
  /\ executed = {} /\ invokes = 0

-------------------------------------------------------------------------------
(* The client.  Commands that the profile, the catalogue or the approval    *)
(* refuses before anything is sent leave nothing behind and are not steps.  *)

InFlight(kind) == {p \in Procs : cmd[p].kind = kind /\ pc[p] # "waiting"}
Proposals == {r \in net : r.kind = "propose"}

\* Within the bounds: an id for every plan, a number for every invocation.
Room(kind) ==
  CASE kind = "plan" ->
         Cardinality(InFlight("plan")) + Cardinality(Proposals)
           < Cardinality({i \in Ids : approvals[i] = NoApproval})
    [] kind = "invoke" -> invokes + Cardinality(InFlight("invoke")) < MaxInvokes
    [] OTHER -> TRUE

\* descriptor(): the class is read here and relied on when the request is
\* handled, however much later.
Descriptor(p, c) ==
  /\ Usable /\ Room(c.kind)
  /\ Starts(p, "decide", c, seed.key)
  /\ seen' = [seen EXCEPT ![p] = [kind |-> "descriptor", class |-> catalogue.class[c.call],
                                  version |-> catalogue.version]]
  /\ UNCHANGED <<files, stops, server, net, invokes>>

\* Mutant: the client ends without waiting for the answer.
SendsOnly(p, r) ==
  /\ net' = net \cup {r} /\ seen' = [seen EXCEPT ![p] = r]
  /\ Ends(p)
  /\ UNCHANGED <<files, stops, server>>

\* What the client sends, and then waits for.
Sends(p, r) ==
  /\ net' = net \cup {r} /\ seen' = [seen EXCEPT ![p] = r]
  /\ Goto(p, "waiting")
  /\ UNCHANGED <<files, cmd, held, stops, server>>

\* invoke_guarded, and the tool thelve_read: only the risk counts, and under
\* an approval id nothing does.
MayInvoke(p) == seen[p].class.risk = "read" \/ cmd[p].by # None

InvokeKey(c) == IF c.key = None THEN <<"invoke", invokes>> ELSE c.key

Invoke(p) ==
  /\ At(p, "decide") /\ cmd[p].kind = "invoke" /\ MayInvoke(p)
  /\ Sends(p, [kind |-> "call", from |-> p, call |-> cmd[p].call, by |-> cmd[p].by,
               key |-> InvokeKey(cmd[p]), version |-> seen[p].version, via |-> "invoke"])
  /\ invokes' = invokes + 1

NeedsFourEyes(class) == class.risk = "destructive" \/ class.always

\* Mutant: confirmation is enough for what is not destructive.
MayPlanAlways(p) ==
  /\ seen[p].class.ai_tool
  /\ cmd[p].control = "confirmation" => seen[p].class.risk # "destructive"

\* create_plan refuses what is not open to AI actors, and mere confirmation of
\* what needs four eyes.
MayPlan(p) ==
  /\ seen[p].class.ai_tool
  /\ cmd[p].control = "confirmation" => ~NeedsFourEyes(seen[p].class)

\* Mutant: the key the operator gave is not used.
PlanKeyFresh(c, i) == <<"plan", i>>

PlanKey(c, i) == IF c.key = None THEN <<"plan", i>> ELSE c.key

\* The rest of create_plan: every run proposes under a new id.
Plan(p) ==
  /\ At(p, "decide") /\ cmd[p].kind = "plan" /\ MayPlan(p)
  /\ \E i \in Ids :
       /\ approvals[i] = NoApproval /\ \A r \in Proposals : r.id # i
       /\ Sends(p, [kind |-> "propose", from |-> p, id |-> i,
                    approval |-> [state |-> "pending", call |-> cmd[p].call,
                                  control |-> cmd[p].control, key |-> PlanKey(cmd[p], i),
                                  asked |-> cmd[p].key, version |-> seen[p].version]])
  /\ UNCHANGED invokes

\* apply_plan: read_plan, which finds the plan approved ...
ReadPlan(p, c) ==
  /\ Usable /\ approvals[c.by].state = "approved"
  /\ Starts(p, "decide", c, seed.key)
  /\ UNCHANGED <<files, stops, server, network>>

\* Mutant: the plan is applied under a new idempotency key.
FrozenFresh(p) ==
  LET a == approvals[cmd[p].by] IN
  [kind |-> "call", from |-> p, call |-> a.call, by |-> cmd[p].by,
   key |-> <<"apply", stops>>, version |-> a.version, via |-> "apply"]

\* ... the call frozen in it ...
Frozen(p) ==
  LET a == approvals[cmd[p].by] IN
  [kind |-> "call", from |-> p, call |-> a.call, by |-> cmd[p].by,
   key |-> a.key, version |-> a.version, via |-> "apply"]

\* Mutant: applying looks at the catalogue again, like an invocation.
ApplyReads(p) ==
  /\ At(p, "decide") /\ cmd[p].kind = "apply"
  /\ catalogue.class[approvals[cmd[p].by].call].ai_tool
  /\ Sends(p, Frozen(p))
  /\ UNCHANGED invokes

\* ... and its invocation.  The catalogue is not read again.
Apply(p) ==
  /\ At(p, "decide") /\ cmd[p].kind = "apply"
  /\ Sends(p, Frozen(p))
  /\ UNCHANGED invokes

Refuse(p) ==
  /\ At(p, "decide")
  /\ \/ cmd[p].kind = "invoke" /\ ~MayInvoke(p)
     \/ cmd[p].kind = "plan" /\ ~MayPlan(p)
  /\ Ends(p) /\ seen' = [seen EXCEPT ![p] = Nothing]
  /\ UNCHANGED <<files, stops, server, net, invokes>>

\* No answer came within the timeout; the request may still arrive.
GiveUp(p) ==
  /\ At(p, "waiting")
  /\ IF seen[p] \in net THEN Fails ELSE UNCHANGED stops
  /\ Ends(p) /\ seen' = [seen EXCEPT ![p] = Nothing]
  /\ UNCHANGED <<files, server, net, invokes>>

\* The process is stopped before it has sent anything, or while it creates.
Stop(p) ==
  /\ pc[p] \notin {"idle", "waiting"} /\ Fails
  /\ Ends(p) /\ seen' = [seen EXCEPT ![p] = Nothing]
  /\ UNCHANGED <<files, server, net, invokes>>

-------------------------------------------------------------------------------
(* The deployment (external).                                              *)

Known(key) == \E e \in executed : e.key = key

\* "An exact approval-bound capability" (src/cli.rs:222).
Admits(r) ==
  r.by = None \/ (approvals[r.by].state = "approved" /\ approvals[r.by].call = r.call)

\* The catalogue changed after the client looked: an approval stands for what
\* the client saw when it was planned.
Stale(r) == catalogue.version # IF r.by = None THEN r.version ELSE approvals[r.by].version

\* What handling a request does.
Performs(r) ==
  IF r.kind = "propose"
  THEN /\ approvals' = [approvals EXCEPT ![r.id] = r.approval]
       /\ UNCHANGED executed
  ELSE /\ executed' = executed \cup
            (IF Known(r.key) \/ ~Admits(r) THEN {}
             ELSE {[key |-> r.key, by |-> r.by, via |-> r.via,
                    class |-> catalogue.class[r.call], stale |-> Stale(r)]})
       /\ UNCHANGED approvals

\* A request is handled and answered ...
Answer(r) ==
  /\ Performs(r) /\ net' = net \ {r}
  /\ IF seen[r.from] = r
     THEN Ends(r.from) /\ seen' = [seen EXCEPT ![r.from] = Nothing]
     ELSE UNCHANGED <<pc, cmd, held, seen>>
  /\ UNCHANGED <<files, stops, catalogue, invokes>>

\* ... or handled, and its answer lost ...
AnswerLost(r) ==
  /\ Performs(r) /\ net' = net \ {r} /\ Fails
  /\ UNCHANGED <<files, pc, cmd, held, seen, catalogue, invokes>>

\* ... or lost itself.
RequestLost(r) ==
  /\ net' = net \ {r} /\ Fails
  /\ UNCHANGED <<files, pc, cmd, held, seen, server, invokes>>

\* People approve or reject; approvals expire and are cancelled ("closed").
Decide(i, from, to) ==
  /\ approvals[i].state \in from
  /\ approvals' = [approvals EXCEPT ![i].state = to]
  /\ UNCHANGED <<files, pc, cmd, held, stops, catalogue, executed, network>>

\* An administrator changes capabilities' risk, approval or audience.
Change(d) ==
  /\ catalogue.version < MaxChanges /\ catalogue.class = d[1]
  /\ catalogue' = [class |-> d[2], version |-> catalogue.version + 1]
  /\ UNCHANGED <<files, pc, cmd, held, stops, approvals, executed, network>>

-------------------------------------------------------------------------------
Begin(p, c) ==
  \/ c.kind = "create" /\ CreateBegin(p) /\ UNCHANGED <<server, network>>
  \/ c.kind \in {"invoke", "plan"} /\ Descriptor(p, c)
  \/ c.kind = "apply" /\ ReadPlan(p, c)

Client(p) ==
  \/ Creation(p) /\ UNCHANGED <<server, network>>
  \/ Invoke(p) \/ Plan(p) \/ Apply(p) \/ Refuse(p) \/ GiveUp(p)

Deployment(p) == \E r \in net : r.from = p /\ Answer(r)

Faults ==
  \/ \E p \in Procs : Stop(p)
  \/ \E r \in net : AnswerLost(r) \/ RequestLost(r)

People ==
  \/ \E i \in Ids : \/ Decide(i, {"pending"}, "approved")
                    \/ Decide(i, {"pending", "approved"}, "closed")
  \/ \E d \in Drift : Change(d)
  \/ Bind /\ UNCHANGED <<server, network>>

Next ==
  \/ \E p \in Procs : Client(p) \/ \E c \in Commands[p] : Begin(p, c)
  \/ \E p \in Procs : Deployment(p)
  \/ Faults \/ People

Spec == Init /\ [][Next]_vars

Applies(i) ==
  \E p \in Procs : \E c \in Commands[p] : c.kind = "apply" /\ c.by = i /\ Begin(p, c)

\* Commands that are not stopped go on, the deployment handles what arrives
\* from everybody, and the operator applies every plan again and again.
FairSpec ==
  /\ Spec
  /\ \A p \in Procs : WF_vars(Client(p)) /\ WF_vars(Deployment(p))
  /\ \A i \in Ids : SF_vars(Applies(i))

-------------------------------------------------------------------------------
(* Properties.                                                             *)

\* Every variable keeps to the values the code can give it.
TypeOK ==
  /\ seed \in [state : FileState, key : Keys \cup {None}]
  /\ profile \in [state : FileState, key : Keys \cup {None}, bound : BOOLEAN]
  /\ registered \subseteq Keys
  /\ pc \in [Procs -> {"idle", "seed", "seeding", "profile", "profiling", "decide", "waiting"}]
  /\ \A p \in Procs : cmd[p] \in Commands[p] \cup {NoCommand}
  /\ held \in [Procs -> Keys \cup {None}]
  /\ catalogue \in [class : [Calls -> Class], version : 0..MaxChanges]
  /\ \A i \in Ids : approvals[i].state \in {"none", "pending", "approved", "closed"}
  /\ \A p \in Procs : pc[p] = "waiting" <=> seen[p].kind \in {"propose", "call"}
  /\ \A r \in net : r.from \in Procs
  /\ stops \in 0..MaxStops /\ invokes \in Nat

\* What was performed as planned: by applying the plan, or by an invocation
\* under its approval and its key.  An invocation under an approval and another
\* key is a performance of its own, unless the deployment forbids it.
AsPlanned(i) == {e \in executed : e.by = i /\ (e.via = "apply" \/ e.key = approvals[i].key)}

\* Plans promise what GovernedActions says: performed only while approved,
\* and at most once however often apply is repeated, by whomever, after
\* whatever answers were lost or requests late.
Governed == INSTANCE GovernedActions WITH
  Plans <- Ids,
  status <- [i \in Ids |-> approvals[i].state],
  performed <- [i \in Ids |-> Cardinality(AsPlanned(i))]
PlansAreGoverned == Governed!GSpec

\* What is performed went through the control its class demands.  Without an
\* approval it is a read, if need be one that always needs approval: only the
\* risk was looked at (invoke_guarded).  Under an approval, by `apply` or by
\* `invoke --approval-id`, it was open to AI actors, and if destructive or
\* always in need of approval the approval is a four-eyes one: `invoke` looks
\* at no control, but the plan did (create_plan), and the deployment holds
\* the approval to its call.  Unless the catalogue changed meanwhile: since
\* the client looked, and under an approval since it was planned.
ControlsKept ==
  \A e \in executed : ~e.stale =>
    IF e.by = None
    THEN e.class.risk = "read"
    ELSE /\ e.class.ai_tool
         /\ NeedsFourEyes(e.class) => approvals[e.by].control = "four_eyes"

\* A mutation planned under a key the operator gave is performed as planned
\* once at most, also when a lost answer made the operator plan it a second
\* time and both plans were approved and applied.
AskedOnce ==
  \A k \in AskedKeys :
    Cardinality(UNION {AsPlanned(i) : i \in {j \in Ids : approvals[j].asked = k}}) <= 1

\* A plan that stays approved is performed in the end, if its operator keeps
\* applying it: no lost answer, late request, or change of the catalogue
\* makes it unusable.
ApprovedIsPerformed ==
  \A i \in Ids :
    <>[](approvals[i].state = "approved")
      => <>(\E e \in executed : e.key = approvals[i].key)

\* A request that applies a plan is as good as the plan whenever it arrives:
\* while the plan is approved the deployment admits it, under the plan's own
\* key, so that the mutation is performed then or was before.  With
\* StaysUsable, the safety half of ApprovedIsPerformed.
StaysAdmitted ==
  \A r \in net :
    r.kind = "call" /\ r.via = "apply" /\ approvals[r.by].state = "approved"
      => Admits(r) /\ r.key = approvals[r.by].key

\* A profile that can sign requests can sign all later ones, whatever
\* creations were in progress or stopped beside it.
StaysUsable == [][Usable => Usable']_vars
===============================================================================
