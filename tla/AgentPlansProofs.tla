---------------------------- MODULE AgentPlansProofs ----------------------------
(***************************************************************************)
(* Proofs about AgentPlans, for any number of terminals, keys, approvals,  *)
(* commands, changes of the catalogue, and requests and answers lost.      *)
(***************************************************************************)
EXTENDS AgentPlans, FiniteSetTheorems, TLAPS

PlanKeys == AskedKeys \cup {<<"plan", i>> : i \in Ids} \cup {None}
Approval == [state : {"none", "pending", "approved", "closed"}, call : Calls \cup {None},
             control : {"none", "confirmation", "four_eyes"}, key : PlanKeys,
             asked : AskedKeys \cup {None}, version : Nat]

\* A value read of the catalogue, a request for a call, one for a plan.
IsDescriptor(r) == r.kind = "descriptor" /\ r.class \in Class /\ r.version \in Nat
IsCall(r) ==
  /\ r.kind = "call" /\ r.from \in Procs /\ r.by \in Ids \cup {None}
  /\ r.version \in Nat /\ r.via \in {"invoke", "apply"}
IsProposal(r) ==
  r.kind = "propose" /\ r.from \in Procs /\ r.id \in Ids /\ r.approval \in Approval

Creating == {"seed", "seeding", "profile", "profiling"}

\* The values of the variables, and what a command has at each place.
Typed ==
  /\ seed \in [state : FileState, key : Keys \cup {None}]
  /\ profile \in [state : FileState, key : Keys \cup {None}, bound : BOOLEAN]
  /\ registered \subseteq Keys
  /\ pc \in [Procs -> {"idle", "decide", "waiting"} \cup Creating]
  /\ cmd \in [Procs -> Command \cup {NoCommand}]
  /\ \A p \in Procs : cmd[p] \in Commands[p] \cup {NoCommand}
  /\ held \in [Procs -> Keys \cup {None}]
  /\ catalogue \in [class : [Calls -> Class], version : 0..MaxChanges]
  /\ approvals \in [Ids -> Approval]
  /\ seen = [p \in Procs |-> seen[p]]
  /\ \A p \in Procs :
       seen[p] = Nothing \/ IsDescriptor(seen[p]) \/ IsCall(seen[p]) \/ IsProposal(seen[p])
  /\ \A p \in Procs : pc[p] = "waiting" <=> seen[p].kind \in {"propose", "call"}
  /\ \A r \in net : IsCall(r) \/ IsProposal(r)
  /\ stops \in 0..MaxStops /\ invokes \in Nat

\* One creation at most ever gets past the seed, and writes the profile.
Late(p) == pc[p] \in {"seeding", "profile", "profiling"}
Created ==
  /\ seed.state = "absent" =>
       profile.state = "absent" /\ registered = {} /\ \A p \in Procs : ~Late(p)
  /\ \A p, q \in Procs : Late(p) /\ Late(q) => p = q
  /\ \A p \in Procs : Late(p) =>
       /\ seed.key = held[p] /\ held[p] \in Keys /\ registered = {} /\ profile.state # "ok"
       /\ pc[p] \in {"profile", "profiling"} => seed.state = "ok"
  /\ \A p \in Procs : pc[p] = "seed" => held[p] \in Keys
  /\ ProfileSigns

\* A proposed plan: its control was enough when the catalogue was read, and
\* its key is the one the operator gave, if one was given.
Proper(a) ==
  /\ a.version <= catalogue.version
  /\ a.version = catalogue.version =>
       /\ catalogue.class[a.call].ai_tool
       /\ NeedsFourEyes(catalogue.class[a.call]) => a.control = "four_eyes"
  /\ a.asked # None => a.key = a.asked

\* What a command relies on before it sends anything.
Decided(p) ==
  /\ pc[p] = "decide" => cmd[p].kind \in {"invoke", "plan", "apply"}
  /\ pc[p] = "decide" /\ cmd[p].kind \in {"invoke", "plan"} =>
       /\ IsDescriptor(seen[p]) /\ seen[p].version <= catalogue.version
       /\ seen[p].version = catalogue.version => seen[p].class = catalogue.class[cmd[p].call]
  /\ pc[p] = "decide" /\ cmd[p].kind = "apply" =>
       cmd[p].by \in Ids /\ approvals[cmd[p].by].state # "none"

\* A request on its way.
Sent(r) ==
  /\ r.kind = "call" =>
       /\ r.version <= catalogue.version
       /\ r.by = None /\ r.version = catalogue.version => catalogue.class[r.call].risk = "read"
       /\ r.via = "apply" =>
            /\ r.by \in Ids /\ approvals[r.by].state # "none"
            /\ r.version = approvals[r.by].version /\ r.key = approvals[r.by].key
            /\ r.call = approvals[r.by].call
  /\ r.kind = "propose" =>
       /\ approvals[r.id].state = "none" /\ r.approval.state = "pending"
       /\ Proper(r.approval)

Requests ==
  /\ \A i \in Ids : approvals[i].state # "none" => Proper(approvals[i])
  /\ \A p \in Procs : Decided(p)
  /\ \A r \in net : Sent(r)
  /\ \A r, t \in net : r.kind = "propose" /\ t.kind = "propose" /\ r.id = t.id => r = t

\* What was performed.
Performed ==
  /\ \A e, f \in executed : e.key = f.key => e = f
  /\ \A e \in executed : e.by # None => e.by \in Ids /\ approvals[e.by].state # "none"
  /\ \A e \in executed : e.via = "apply" => e.by \in Ids /\ e.key = approvals[e.by].key
  /\ ControlsKept

IInv == Typed /\ Created /\ Requests /\ Performed

-------------------------------------------------------------------------------
(* Commands and types.                                                     *)

\* What a command of each kind has.
LEMMA Fields ==
  ASSUME NEW c \in Command
  PROVE  /\ c # NoCommand /\ c.kind \in {"create", "invoke", "plan", "apply"}
         /\ c.kind \in {"invoke", "plan"} => c.call \in Calls
         /\ c.kind = "invoke" => c.by \in Ids \cup {None} /\ c.key \in AskedKeys \cup {None}
         /\ c.kind = "plan" => /\ c.control \in {"confirmation", "four_eyes"}
                               /\ c.key \in AskedKeys \cup {None}
         /\ c.kind = "apply" => c.by \in Ids
BY DEF Command, NoCommand, Create

LEMMA Nothings ==
  /\ NoCommand.kind = "none" /\ Nothing.kind = "none"
  /\ NoApproval \in Approval /\ NoApproval.state = "none"
BY DEF NoCommand, Nothing, NoApproval, Approval, PlanKeys

\* The plan a command proposes.
Planned(p, i) ==
  [state |-> "pending", call |-> cmd[p].call, control |-> cmd[p].control,
   key |-> PlanKey(cmd[p], i), asked |-> cmd[p].key, version |-> seen[p].version]

LEMMA PlannedIsApproval ==
  ASSUME NEW p, NEW i \in Ids, cmd[p] \in Command, cmd[p].kind = "plan", seen[p].version \in Nat
  PROVE  /\ Planned(p, i) \in Approval
         /\ Planned(p, i).state = "pending" /\ Planned(p, i).control = cmd[p].control
         /\ Planned(p, i).call = cmd[p].call /\ Planned(p, i).version = seen[p].version
         /\ Planned(p, i).asked # None => Planned(p, i).key = Planned(p, i).asked
BY Fields DEF Planned, PlanKey, Approval, PlanKeys

LEMMA TypedInit == Init => Typed
<1> SUFFICES ASSUME Init PROVE Typed
  OBVIOUS
<1>1. /\ 0 \in 0..MaxStops /\ 0 \in 0..MaxChanges /\ Drift \subseteq [Calls -> Class] \X [Calls -> Class]
  BY ProfileAssumption, PlanAssumption
<1> QED
  BY <1>1, Nothings DEF Init, ProfileInit, Typed, FileState

LEMMA TypedCommand ==
  ASSUME Typed, NEW p \in Procs, NEW c \in Commands[p], Begin(p, c)
  PROVE  Typed'
<1>1. c \in Command
  BY PlanAssumption
<1> USE DEF Typed, Starts, At, Goto, files, server, network
<1>2. CASE c.kind = "create" /\ CreateBegin(p) /\ UNCHANGED <<server, network>>
  <2>1. c = Create
    BY <1>1, <1>2 DEF Command, Create
  <2>2. PICK k \in Keys : Starts(p, "seed", Create, k)
    BY <1>2 DEF CreateBegin
  <2>3. /\ pc' = [pc EXCEPT ![p] = "seed"] /\ cmd' = [cmd EXCEPT ![p] = c]
        /\ held' = [held EXCEPT ![p] = k]
        /\ UNCHANGED <<seed, profile, registered, stops, catalogue, approvals, net, seen, invokes>>
        /\ pc[p] = "idle"
    BY <1>2, <2>1, <2>2 DEF CreateBegin
  <2> QED
    BY <1>1, <2>3 DEF Creating, IsDescriptor, IsCall, IsProposal
<1>3. CASE c.kind \in {"invoke", "plan"} /\ Descriptor(p, c)
  <2>1. catalogue.class[c.call] \in Class /\ catalogue.version \in Nat
    BY <1>1, <1>3, PlanAssumption, Fields
  <2>2. /\ pc[p] = "idle" /\ pc' = [pc EXCEPT ![p] = "decide"] /\ cmd' = [cmd EXCEPT ![p] = c]
        /\ held' = [held EXCEPT ![p] = seed.key]
        /\ seen' = [seen EXCEPT ![p] = [kind |-> "descriptor", class |-> catalogue.class[c.call],
                                       version |-> catalogue.version]]
        /\ UNCHANGED <<files, stops, server, net, invokes>>
    BY <1>3 DEF Descriptor
  <2> QED
    BY <1>1, <2>1, <2>2 DEF IsDescriptor, IsCall, IsProposal, Nothing
<1>4. CASE ReadPlan(p, c)
  BY <1>1, <1>4 DEF ReadPlan
<1> QED
  BY <1>2, <1>3, <1>4 DEF Begin

LEMMA TypedClient ==
  ASSUME Typed, Created, Requests, NEW p \in Procs, Client(p) \/ Stop(p)
  PROVE  Typed'
<1>a. /\ MaxStops \in Nat /\ MaxChanges \in Nat /\ None \notin Ids
      /\ Nothing.kind = "none"
      /\ pc[p] \in {"decide"} => cmd[p] \in Command
  BY ProfileAssumption, PlanAssumption, Nothings DEF Requests, Decided, Typed
<1> USE DEF Typed, At, Goto, Ends, Sends, Fails, files, server, network, Creating,
            IsDescriptor, IsCall, IsProposal
<1>1. CASE Creation(p) /\ UNCHANGED <<server, network>>
  <2> USE <1>1, <1>a DEF FileState
  <2>1. CASE SeedOpen(p) BY <2>1 DEF SeedOpen
  <2>2. CASE SeedWrite(p) BY <2>2 DEF SeedWrite
  <2>3. CASE ProfileOpen(p) BY <2>3 DEF ProfileOpen
  <2>4. CASE ProfileWrite(p) BY <2>4 DEF ProfileWrite, Created, Late
  <2>5. CASE CreateRefused(p) BY <2>5 DEF CreateRefused
  <2> QED
    BY <2>1, <2>2, <2>3, <2>4, <2>5 DEF Creation
<1>2. CASE Invoke(p)
  <2> DEFINE r == [kind |-> "call", from |-> p, call |-> cmd[p].call, by |-> cmd[p].by,
                   key |-> InvokeKey(cmd[p]), version |-> seen[p].version, via |-> "invoke"]
  <2>1. IsCall(r)
    BY <1>2, <1>a, Fields DEF Invoke, Requests, Decided
  <2>2. Sends(p, r) /\ invokes' = invokes + 1 /\ pc[p] = "decide"
    BY <1>2 DEF Invoke
  <2> HIDE DEF r
  <2> QED
    BY <2>1, <2>2
<1>3. CASE Plan(p)
  <2>1. PICK i \in Ids : Sends(p, [kind |-> "propose", from |-> p, id |-> i,
                                   approval |-> Planned(p, i)])
    BY <1>3 DEF Plan, Planned
  <2> DEFINE r == [kind |-> "propose", from |-> p, id |-> i, approval |-> Planned(p, i)]
  <2>2. IsProposal(r)
    BY <1>3, <1>a, PlannedIsApproval DEF Plan, Requests, Decided
  <2>3. Sends(p, r) /\ UNCHANGED invokes /\ pc[p] = "decide"
    BY <1>3, <2>1 DEF Plan
  <2> HIDE DEF r
  <2> QED
    BY <2>2, <2>3
<1>4. CASE Apply(p)
  <2>1. IsCall(Frozen(p))
    BY <1>4, <1>a, Fields DEF Apply, Frozen, Approval
  <2>2. Sends(p, Frozen(p)) /\ UNCHANGED invokes /\ pc[p] = "decide"
    BY <1>4 DEF Apply
  <2> QED
    BY <2>1, <2>2
<1>5. CASE Refuse(p) BY <1>5, <1>a DEF Refuse
<1>6. CASE GiveUp(p) BY <1>6, <1>a DEF GiveUp
<1>7. CASE Stop(p) BY <1>7, <1>a DEF Stop
<1> QED
  BY <1>1, <1>2, <1>3, <1>4, <1>5, <1>6, <1>7 DEF Client

\* What the deployment, its people and the network do.
LEMMA TypedServer ==
  ASSUME Typed,
         \/ \E r \in net : Answer(r) \/ AnswerLost(r) \/ RequestLost(r)
         \/ People
  PROVE  Typed'
<1>a. /\ MaxStops \in Nat /\ MaxChanges \in Nat /\ Drift \subseteq [Calls -> Class] \X [Calls -> Class]
      /\ Nothing.kind = "none"
  BY ProfileAssumption, PlanAssumption, Nothings
<1> USE DEF Typed, Ends, Goto, Fails, files, server, network, Creating
<1>1. ASSUME NEW r \in net, Performs(r) PROVE approvals' \in [Ids -> Approval]
  <2>1. CASE r.kind = "propose"
    BY <1>1, <2>1 DEF Performs, IsCall, IsProposal
  <2>2. CASE r.kind # "propose"
    BY <1>1, <2>2 DEF Performs
  <2> QED
    BY <2>1, <2>2
<1>2. ASSUME NEW r \in net, Answer(r) PROVE Typed'
  <2>1. approvals' \in [Ids -> Approval] /\ r.from \in Procs
    BY <1>1, <1>2 DEF Answer, IsCall, IsProposal
  <2>2. UNCHANGED <<files, stops, catalogue, invokes>> /\ net' \subseteq net
    BY <1>2 DEF Answer
  <2>3. CASE seen[r.from] = r
    <3>1. Ends(r.from) /\ seen' = [seen EXCEPT ![r.from] = Nothing]
      BY <1>2, <2>3 DEF Answer
    <3> QED
      BY <1>a, <2>1, <2>2, <3>1 DEF IsDescriptor, IsCall, IsProposal
  <2>4. CASE seen[r.from] # r
    <3>1. UNCHANGED <<pc, cmd, held, seen>>
      BY <1>2, <2>4 DEF Answer
    <3> QED
      BY <2>1, <2>2, <3>1 DEF IsDescriptor, IsCall, IsProposal
  <2> QED
    BY <2>3, <2>4
<1>3. ASSUME NEW r \in net, AnswerLost(r) PROVE Typed'
  <2>1. approvals' \in [Ids -> Approval]
    BY <1>1, <1>3 DEF AnswerLost
  <2> QED
    BY <1>3, <1>a, <2>1 DEF AnswerLost, IsDescriptor, IsCall, IsProposal
<1>4. ASSUME NEW r \in net, RequestLost(r) PROVE Typed'
  BY <1>4, <1>a DEF RequestLost, IsDescriptor, IsCall, IsProposal
<1>5. ASSUME NEW i \in Ids, NEW from, NEW to \in {"approved", "closed"}, Decide(i, from, to)
      PROVE  Typed'
  <2>1. approvals' \in [Ids -> Approval]
    <3>1. [approvals[i] EXCEPT !.state = to] \in Approval
      BY DEF Approval
    <3>2. approvals' = [approvals EXCEPT ![i] = [approvals[i] EXCEPT !.state = to]]
      BY <1>5 DEF Decide
    <3> QED
      BY <3>1, <3>2
  <2> QED
    BY <1>5, <2>1 DEF Decide, IsDescriptor, IsCall, IsProposal
<1>6. ASSUME NEW d \in Drift, Change(d) PROVE Typed'
  <2>1. catalogue' \in [class : [Calls -> Class], version : 0..MaxChanges]
    BY <1>6, <1>a DEF Change
  <2> QED
    BY <1>6, <2>1 DEF Change, IsDescriptor, IsCall, IsProposal
<1>7. CASE Bind /\ UNCHANGED <<server, network>>
  BY <1>7 DEF Bind, IsDescriptor, IsCall, IsProposal
<1> QED
  BY <1>2, <1>3, <1>4, <1>5, <1>6, <1>7 DEF People

-------------------------------------------------------------------------------
(* The profile.                                                            *)

\* Every step but those of a creation leaves the profile as it is, and
\* nobody at the places of one that was not there.
Elsewhere ==
  /\ UNCHANGED <<seed, profile, registered>>
  /\ \A p \in Procs : pc'[p] \in Creating => pc'[p] = pc[p] /\ held'[p] = held[p]

LEMMA CreatedElsewhere == Created /\ Elsewhere => Created'
BY DEF Created, Elsewhere, Late, Creating, ProfileSigns

LEMMA CreatedCreation ==
  ASSUME Typed, Created, NEW p \in Procs, Creation(p) \/ CreateBegin(p)
  PROVE  Created'
<1>t. /\ seed \in [state : FileState, key : Keys \cup {None}]
      /\ profile \in [state : FileState, key : Keys \cup {None}, bound : BOOLEAN]
      /\ pc \in [Procs -> {"idle", "decide", "waiting"} \cup Creating]
      /\ held \in [Procs -> Keys \cup {None}]
  BY DEF Typed
<1> USE DEF At, Goto, Starts, Ends, Late, Created, ProfileSigns
<1>1. CASE SeedOpen(p) BY <1>1, <1>t DEF SeedOpen
<1>2. CASE SeedWrite(p) BY <1>2, <1>t DEF SeedWrite
<1>3. CASE ProfileOpen(p) BY <1>3, <1>t DEF ProfileOpen
<1>4. CASE ProfileWrite(p) BY <1>4, <1>t DEF ProfileWrite
<1>5. CASE CreateRefused(p) BY <1>5, <1>t DEF CreateRefused, files
<1>6. CASE CreateBegin(p)
  <2>1. PICK k \in Keys : Starts(p, "seed", Create, k)
    BY <1>6 DEF CreateBegin
  <2> QED
    BY <1>6, <1>t, <2>1 DEF CreateBegin, files
<1> QED
  BY <1>1, <1>2, <1>3, <1>4, <1>5, <1>6 DEF Creation

LEMMA CreatedNext == Typed /\ Created /\ [Next]_vars => Created'
<1> SUFFICES ASSUME Typed, Created, [Next]_vars PROVE Created'
  OBVIOUS
<1> USE DEF files, server, network, At, Goto, Starts, Ends, Sends, Fails, Elsewhere, Creating
<1>t. /\ pc \in [Procs -> {"idle", "decide", "waiting"} \cup Creating]
      /\ held \in [Procs -> Keys \cup {None}]
  BY DEF Typed
<1>1. CASE UNCHANGED vars
  BY <1>1, CreatedElsewhere DEF vars
<1>2. ASSUME NEW p \in Procs,
             \/ Invoke(p) \/ Plan(p) \/ Apply(p) \/ Refuse(p) \/ GiveUp(p) \/ Stop(p)
             \/ \E c \in Commands[p] : Descriptor(p, c) \/ ReadPlan(p, c)
      PROVE  Created'
  <2>1. Elsewhere
    BY <1>2, <1>t
    DEF Invoke, Plan, Apply, Refuse, GiveUp, Stop, Descriptor, ReadPlan
  <2> QED
    BY <2>1, CreatedElsewhere
<1>3. ASSUME NEW r \in net, Answer(r) \/ AnswerLost(r) \/ RequestLost(r) PROVE Created'
  <2>1. Elsewhere
    BY <1>3, <1>t DEF Answer, AnswerLost, RequestLost
  <2> QED
    BY <2>1, CreatedElsewhere
<1>4. CASE \/ \E i \in Ids : Decide(i, {"pending"}, "approved") \/ Decide(i, {"pending", "approved"}, "closed")
           \/ \E d \in Drift : Change(d)
  <2>1. Elsewhere
    BY <1>4 DEF Decide, Change
  <2> QED
    BY <2>1, CreatedElsewhere
<1>5. ASSUME NEW p \in Procs, Client(p) \/ \E c \in Commands[p] : Begin(p, c) PROVE Created'
  BY <1>2, <1>5, CreatedCreation DEF Client, Begin
<1>6. CASE \E p \in Procs : Deployment(p)
  BY <1>3, <1>6 DEF Deployment
<1>7. CASE Faults
  BY <1>2, <1>3, <1>7 DEF Faults
<1>8. CASE People
  <2>1. CASE Bind
    BY <2>1, <1>t DEF Bind, Typed, Created, Late, ProfileSigns
  <2> QED
    BY <1>4, <1>8, <2>1 DEF People
<1> QED
  BY <1>1, <1>5, <1>6, <1>7, <1>8 DEF Next

-------------------------------------------------------------------------------
(* Requests.                                                               *)

\* The deployment and the network as they were; the others as they were.
LEMMA RequestsCommand ==
  ASSUME Typed, Requests, NEW p \in Procs, NEW c \in Commands[p], Begin(p, c)
  PROVE  Requests'
<1>c. c \in Command
  BY PlanAssumption
<1>t. /\ pc \in [Procs -> {"idle", "decide", "waiting"} \cup Creating]
      /\ cmd \in [Procs -> Command \cup {NoCommand}] /\ seen = [q \in Procs |-> seen[q]]
      /\ catalogue \in [class : [Calls -> Class], version : 0..MaxChanges] /\ MaxChanges \in Nat
  BY PlanAssumption DEF Typed
<1> USE DEF At, Goto, Starts, files, server, network
<1>1. UNCHANGED <<catalogue, approvals, net>>
  BY DEF Begin, CreateBegin, Descriptor, ReadPlan
<1>2. /\ \A q \in Procs \ {p} : pc'[q] = pc[q] /\ cmd'[q] = cmd[q] /\ seen'[q] = seen[q]
      /\ Decided(p)'
  <2>1. CASE CreateBegin(p) /\ UNCHANGED <<server, network>>
    BY <2>1, <1>t DEF CreateBegin, Decided
  <2>2. CASE c.kind \in {"invoke", "plan"} /\ Descriptor(p, c)
    <3>1. /\ pc' = [pc EXCEPT ![p] = "decide"] /\ cmd' = [cmd EXCEPT ![p] = c]
          /\ seen' = [seen EXCEPT ![p] = [kind |-> "descriptor", class |-> catalogue.class[c.call],
                                         version |-> catalogue.version]]
      BY <2>2 DEF Descriptor
    <3> QED
      BY <1>1, <1>c, <1>t, <2>2, <3>1, Fields DEF Decided, IsDescriptor
  <2>3. CASE c.kind = "apply" /\ ReadPlan(p, c)
    BY <1>1, <1>c, <1>t, <2>3, Fields DEF ReadPlan, Decided
  <2> QED
    BY <2>1, <2>2, <2>3 DEF Begin
<1>3. ASSUME NEW q \in Procs PROVE Decided(q)'
  BY <1>1, <1>2 DEF Requests, Decided, IsDescriptor
<1> QED
  BY <1>1, <1>3 DEF Requests, Sent, Proper

LEMMA RequestsClient ==
  ASSUME Typed, Requests, NEW p \in Procs, Client(p) \/ Stop(p)
  PROVE  Requests'
<1>t. /\ pc \in [Procs -> {"idle", "decide", "waiting"} \cup Creating]
      /\ cmd \in [Procs -> Command \cup {NoCommand}] /\ seen = [q \in Procs |-> seen[q]]
      /\ catalogue \in [class : [Calls -> Class], version : 0..MaxChanges] /\ MaxChanges \in Nat
      /\ approvals \in [Ids -> Approval]
  BY PlanAssumption DEF Typed
<1>d. Decided(p) /\ (pc[p] = "decide" => cmd[p] \in Command)
  BY <1>t, Nothings DEF Requests, Decided
<1> USE DEF At, Goto, Ends, Sends, files, server, network
<1>1. ASSUME NEW r, Sends(p, r), UNCHANGED invokes, Sent(r),
             r.kind = "propose" => \A t \in Proposals : t.id # r.id
      PROVE  Requests'
  <2>1. \A q \in Procs : Decided(q)'
    BY <1>1, <1>t DEF Requests, Decided, IsDescriptor
  <2>2. UNCHANGED <<catalogue, approvals>> /\ net' = net \cup {r}
    BY <1>1
  <2> QED
    BY <1>1, <2>1, <2>2 DEF Requests, Sent, Proper, Proposals
<1>2. CASE Invoke(p)
  <2> DEFINE r == [kind |-> "call", from |-> p, call |-> cmd[p].call, by |-> cmd[p].by,
                   key |-> InvokeKey(cmd[p]), version |-> seen[p].version, via |-> "invoke"]
  <2>1. Sent(r) /\ r.kind = "call"
    BY <1>2, <1>d DEF Invoke, MayInvoke, Decided, Sent
  <2>2. /\ UNCHANGED <<catalogue, approvals>> /\ net' = net \cup {r}
        /\ pc' = [pc EXCEPT ![p] = "waiting"] /\ UNCHANGED cmd
        /\ seen' = [seen EXCEPT ![p] = r]
    BY <1>2 DEF Invoke
  <2> HIDE DEF r
  <2>3. \A q \in Procs : Decided(q)'
    BY <2>2, <1>t DEF Requests, Decided, IsDescriptor
  <2> QED
    BY <2>1, <2>2, <2>3 DEF Requests, Sent, Proper
<1>3. CASE Plan(p)
  <2>1. PICK i \in Ids : /\ Sends(p, [kind |-> "propose", from |-> p, id |-> i,
                                      approval |-> Planned(p, i)])
                         /\ approvals[i] = NoApproval /\ \A r \in Proposals : r.id # i
    BY <1>3 DEF Plan, Planned
  <2> DEFINE r == [kind |-> "propose", from |-> p, id |-> i, approval |-> Planned(p, i)]
  <2>2. pc[p] = "decide" /\ cmd[p].kind = "plan" /\ MayPlan(p) /\ UNCHANGED invokes
    BY <1>3 DEF Plan
  <2>3. Proper(Planned(p, i)) /\ Planned(p, i).state = "pending"
    <3>1. /\ cmd[p] \in Command /\ seen[p].version \in Nat
          /\ seen[p].version <= catalogue.version
          /\ seen[p].version = catalogue.version => seen[p].class = catalogue.class[cmd[p].call]
          /\ cmd[p].control \in {"confirmation", "four_eyes"}
      BY <1>d, <2>2, Fields DEF Decided, IsDescriptor
    <3>2. seen[p].version = catalogue.version =>
            /\ catalogue.class[cmd[p].call].ai_tool
            /\ NeedsFourEyes(catalogue.class[cmd[p].call]) => cmd[p].control = "four_eyes"
      BY <2>2, <3>1 DEF MayPlan
    <3> HIDE DEF Planned
    <3> QED
      BY <2>2, <3>1, <3>2, PlannedIsApproval DEF Proper
  <2>4. Sent(r) /\ r.kind = "propose" /\ r.id = i
    BY <2>1, <2>3, Nothings DEF Sent
  <2>5. Sends(p, r)
    BY <2>1
  <2> HIDE DEF r
  <2> QED
    BY <1>1, <2>1, <2>2, <2>4, <2>5
<1>4. CASE Apply(p)
  <2>1. /\ Sends(p, Frozen(p)) /\ UNCHANGED invokes /\ pc[p] = "decide" /\ cmd[p].kind = "apply"
    BY <1>4 DEF Apply
  <2>2. Sent(Frozen(p)) /\ Frozen(p).kind = "call"
    BY <1>d, <2>1, PlanAssumption DEF Decided, Frozen, Sent, Requests, Proper
  <2> QED
    BY <1>1, <2>1, <2>2
<1>5. CASE (Creation(p) /\ UNCHANGED <<server, network>>) \/ Refuse(p) \/ GiveUp(p) \/ Stop(p)
  <2>1. UNCHANGED <<catalogue, approvals, net>>
    BY <1>5 DEF Refuse, GiveUp, Stop
  <2>2. /\ pc'[p] # "decide"
        /\ \A q \in Procs \ {p} : pc'[q] = pc[q] /\ cmd'[q] = cmd[q] /\ seen'[q] = seen[q]
    BY <1>5, <1>t DEF Creation, SeedOpen, SeedWrite, ProfileOpen, ProfileWrite, CreateRefused,
                      Refuse, GiveUp, Stop
  <2>3. \A q \in Procs : Decided(q)'
    BY <2>1, <2>2 DEF Requests, Decided, IsDescriptor
  <2> QED
    BY <2>1, <2>3 DEF Requests, Sent, Proper
<1> QED
  BY <1>2, <1>3, <1>4, <1>5 DEF Client

\* Handling a request: a proposal becomes the approval nobody knew before.
LEMMA RequestsHandled ==
  ASSUME Typed, Requests, NEW r \in net, Performs(r), net' = net \ {r}, UNCHANGED catalogue
  PROVE  /\ \A i \in Ids : approvals[i].state # "none" => approvals'[i] = approvals[i]
         /\ \A i \in Ids : (approvals[i].state # "none" => Proper(approvals[i]))'
         /\ \A t \in net' : Sent(t)'
<1>t. approvals \in [Ids -> Approval] /\ (r.kind = "propose" => r.id \in Ids)
  BY DEF Typed, IsCall, IsProposal
<1>1. CASE r.kind = "propose"
  <2>1. /\ approvals' = [approvals EXCEPT ![r.id] = r.approval]
        /\ approvals[r.id].state = "none" /\ Proper(r.approval)
    BY <1>1 DEF Performs, Requests, Sent
  <2>2. \A i \in Ids : approvals'[i] = IF i = r.id THEN r.approval ELSE approvals[i]
    BY <1>1, <1>t, <2>1
  <2>3. ASSUME NEW t \in net' PROVE Sent(t)'
    <3>1. Sent(t) /\ t \in net /\ (t.kind = "propose" => t.id # r.id /\ t.id \in Ids)
      BY <1>1 DEF Requests, Typed, IsCall, IsProposal
    <3> QED
      BY <2>1, <2>2, <3>1 DEF Sent, Proper
  <2>4. \A i \in Ids : approvals[i].state # "none" => approvals'[i] = approvals[i]
    BY <2>1, <2>2
  <2>5. ASSUME NEW i \in Ids PROVE (approvals[i].state # "none" => Proper(approvals[i]))'
    BY <2>1, <2>2 DEF Requests, Proper
  <2> QED
    BY <2>3, <2>4, <2>5
<1>2. CASE r.kind # "propose"
  BY <1>2 DEF Performs, Requests, Sent, Proper
<1> QED
  BY <1>1, <1>2

LEMMA RequestsServer ==
  ASSUME Typed, Requests,
         \/ \E r \in net : Answer(r) \/ AnswerLost(r) \/ RequestLost(r)
         \/ People
  PROVE  Requests'
<1>t. /\ pc \in [Procs -> {"idle", "decide", "waiting"} \cup Creating]
      /\ cmd \in [Procs -> Command \cup {NoCommand}] /\ seen = [q \in Procs |-> seen[q]]
      /\ catalogue \in [class : [Calls -> Class], version : 0..MaxChanges] /\ MaxChanges \in Nat
      /\ approvals \in [Ids -> Approval]
  BY PlanAssumption DEF Typed
<1> USE DEF Goto, Ends, files, server, network
<1>1. ASSUME NEW r \in net, Answer(r) \/ AnswerLost(r) PROVE Requests'
  <2>1. Performs(r) /\ net' = net \ {r} /\ UNCHANGED catalogue
    BY <1>1 DEF Answer, AnswerLost
  <2>2. ASSUME NEW q \in Procs PROVE Decided(q)'
    <3>1. \/ pc'[q] # "decide"
          \/ pc'[q] = pc[q] /\ cmd'[q] = cmd[q] /\ seen'[q] = seen[q]
      BY <1>1, <1>t DEF Answer, AnswerLost
    <3>2. \A i \in Ids : approvals[i].state # "none" => approvals'[i] = approvals[i]
      BY <2>1, RequestsHandled
    <3> QED
      BY <2>1, <3>1, <3>2 DEF Requests, Decided, IsDescriptor
  <2> QED
    BY <2>1, <2>2, RequestsHandled DEF Requests
<1>2. ASSUME NEW r \in net, RequestLost(r) PROVE Requests'
  BY <1>2 DEF RequestLost, Requests, Decided, Sent, Proper, IsDescriptor
<1>3. ASSUME NEW i \in Ids, NEW from \in SUBSET {"pending", "approved"},
             NEW to \in {"approved", "closed"}, Decide(i, from, to)
      PROVE  Requests'
  <2>1. /\ approvals[i].state # "none" /\ approvals' = [approvals EXCEPT ![i].state = to]
        /\ UNCHANGED <<pc, cmd, catalogue, net, seen>>
    BY <1>3 DEF Decide
  <2>2. \A j \in Ids : /\ approvals'[j].state = "none" <=> approvals[j].state = "none"
                        /\ approvals'[j].key = approvals[j].key
                        /\ approvals'[j].asked = approvals[j].asked
                        /\ approvals'[j].version = approvals[j].version
                        /\ approvals'[j].control = approvals[j].control
                        /\ approvals'[j].call = approvals[j].call
    BY <1>t, <2>1 DEF Approval
  <2>3. \A r \in net : r.kind = "propose" => r.id \in Ids
    BY DEF Typed, IsCall, IsProposal
  <2> QED
    BY <2>1, <2>2, <2>3 DEF Requests, Decided, Sent, Proper, IsDescriptor
<1>4. ASSUME NEW d \in Drift, Change(d) PROVE Requests'
  <2>1. catalogue'.version = catalogue.version + 1 /\ catalogue.version \in Nat
    BY <1>4, <1>t DEF Change
  <2>2. UNCHANGED <<pc, cmd, approvals, net, seen>>
    BY <1>4 DEF Change
  <2>3. /\ \A q \in Procs : IsDescriptor(seen[q]) => seen[q].version \in Nat
        /\ \A j \in Ids : approvals[j].version \in Nat
        /\ \A r \in net : r.kind = "call" => r.version \in Nat
        /\ \A r \in net : r.kind = "propose" => r.approval.version \in Nat
    BY <1>t DEF Typed, IsDescriptor, IsCall, IsProposal, Approval
  <2>4. \A v \in Nat : v <= catalogue.version => v <= catalogue'.version /\ v # catalogue'.version
    BY <2>1
  <2>5. \A i \in Ids : approvals[i].state # "none" => Proper(approvals[i])'
    BY <2>2, <2>3, <2>4 DEF Requests, Proper
  <2>6. \A q \in Procs : Decided(q)'
    BY <2>2, <2>3, <2>4 DEF Requests, Decided, IsDescriptor
  <2>7. \A r \in net : Sent(r)'
    BY <2>2, <2>3, <2>4 DEF Requests, Sent, Proper
  <2> QED
    BY <2>2, <2>5, <2>6, <2>7 DEF Requests
<1>5. CASE Bind /\ UNCHANGED <<server, network>>
  BY <1>5 DEF Bind, Requests, Decided, Sent, Proper, IsDescriptor
<1> QED
  BY <1>1, <1>2, <1>3, <1>4, <1>5 DEF People

LEMMA RequestsNext == Typed /\ Requests /\ [Next]_vars => Requests'
<1> SUFFICES ASSUME Typed, Requests, [Next]_vars PROVE Requests'
  OBVIOUS
<1>1. CASE UNCHANGED vars
  BY <1>1 DEF vars, files, server, network, Requests, Decided, Sent, Proper, IsDescriptor
<1>2. CASE \E p \in Procs : Client(p) \/ \E c \in Commands[p] : Begin(p, c)
  BY <1>2, RequestsClient, RequestsCommand
<1>3. CASE (\E p \in Procs : Deployment(p)) \/ Faults \/ People
  BY <1>3, RequestsClient, RequestsServer DEF Deployment, Faults
<1> QED
  BY <1>1, <1>2, <1>3 DEF Next

-------------------------------------------------------------------------------
(* What was performed.                                                     *)

\* An approval, once proposed, keeps what it was proposed with.
Lasting ==
  \A i \in Ids : approvals[i].state # "none" =>
    /\ approvals'[i].state # "none" /\ approvals'[i].key = approvals[i].key
    /\ approvals'[i].control = approvals[i].control
    /\ approvals'[i].asked = approvals[i].asked

\* A call is performed under a key nobody used, if its approval stands.
Added(e, r) ==
  /\ r \in net /\ r.kind = "call" /\ ~Known(r.key) /\ Admits(r)
  /\ e = [key |-> r.key, by |-> r.by, via |-> r.via,
           class |-> catalogue.class[r.call], stale |-> Stale(r)]
  /\ executed' = executed \cup {e} /\ UNCHANGED approvals

\* One approval moves on, and nothing is performed.
Quiet == UNCHANGED <<approvals, executed>>
Turned(i, from, to) ==
  /\ approvals[i].state \in from
  /\ \A j \in Ids : approvals'[j].state = IF j = i THEN to ELSE approvals[j].state
  /\ UNCHANGED executed
Turn ==
  \E i \in Ids : \/ Turned(i, {"none"}, "pending") \/ Turned(i, {"pending"}, "approved")
                \/ Turned(i, {"pending", "approved"}, "closed")

LEMMA PerformsAdds ==
  ASSUME Typed, Requests, NEW r \in net, Performs(r), net' = net \ {r}, UNCHANGED catalogue
  PROVE  Lasting /\ (Quiet \/ Turn \/ \E e : Added(e, r))
<1>1. Lasting
  BY RequestsHandled DEF Lasting
<1>2. CASE r.kind = "propose"
  <2>1. /\ approvals[r.id].state = "none" /\ r.approval.state = "pending" /\ r.id \in Ids
        /\ approvals' = [approvals EXCEPT ![r.id] = r.approval] /\ UNCHANGED executed
        /\ approvals \in [Ids -> Approval]
    BY <1>2 DEF Performs, Requests, Sent, Typed, IsCall, IsProposal
  <2>2. Turned(r.id, {"none"}, "pending")
    BY <2>1 DEF Turned
  <2> QED
    BY <1>1, <2>1, <2>2 DEF Turn
<1>3. CASE r.kind # "propose" /\ (Known(r.key) \/ ~Admits(r))
  BY <1>1, <1>3 DEF Performs, Quiet
<1>4. CASE ~(r.kind = "propose" \/ Known(r.key) \/ ~Admits(r))
  <2>1. r.kind = "call"
    BY <1>4 DEF Typed, IsCall, IsProposal
  <2> QED
    BY <1>1, <1>4, <2>1 DEF Performs, Added
<1> QED
  BY <1>2, <1>3, <1>4

\* What a step does to the approvals and to what was performed.
LEMMA StepOfServer ==
  ASSUME Typed, Requests, [Next]_vars
  PROVE  Lasting /\ (Quiet \/ Turn \/ \E r \in net : \E e : Added(e, r))
<1> USE DEF files, server, network
<1>1. Quiet => Lasting
  BY DEF Lasting, Quiet
<1>2. UNCHANGED vars => Quiet
  BY DEF vars, Quiet
<1>3. ASSUME NEW p \in Procs, Client(p) \/ Stop(p) \/ \E c \in Commands[p] : Begin(p, c)
      PROVE  Quiet
  BY <1>3 DEF Client, Stop, Begin, Sends, Invoke, Plan, Apply, Refuse, GiveUp, Descriptor,
              ReadPlan, Quiet
<1>4. ASSUME NEW r \in net, Answer(r) \/ AnswerLost(r)
      PROVE  Lasting /\ (Quiet \/ Turn \/ \E e : Added(e, r))
  <2>1. Performs(r) /\ net' = net \ {r} /\ UNCHANGED catalogue
    BY <1>4 DEF Answer, AnswerLost
  <2> QED
    BY <2>1, PerformsAdds
<1>5. ASSUME NEW r \in net, RequestLost(r) PROVE Quiet
  BY <1>5 DEF RequestLost, Quiet
<1>6. ASSUME NEW i \in Ids, NEW from, NEW to, Decide(i, from, to)
      PROVE  Turned(i, from, to) /\ (from \subseteq {"pending", "approved"} /\ to # "none" => Lasting)
  <2>1. /\ approvals[i].state \in from /\ UNCHANGED executed
        /\ approvals' = [approvals EXCEPT ![i].state = to] /\ approvals \in [Ids -> Approval]
    BY <1>6 DEF Decide, Typed
  <2>2. \A j \in Ids : /\ approvals'[j].state = IF j = i THEN to ELSE approvals[j].state
                       /\ approvals'[j].key = approvals[j].key
                       /\ approvals'[j].control = approvals[j].control
                       /\ approvals'[j].asked = approvals[j].asked
    BY <2>1 DEF Approval
  <2> QED
    BY <2>1, <2>2 DEF Turned, Lasting
<1>7. (\E d \in Drift : Change(d)) \/ (Bind /\ UNCHANGED <<server, network>>) => Quiet
  BY DEF Change, Quiet
<1>8. CASE \E p \in Procs : Client(p) \/ Stop(p) \/ \E c \in Commands[p] : Begin(p, c)
  BY <1>1, <1>3, <1>8
<1>9. CASE \E r \in net : Answer(r) \/ AnswerLost(r) \/ RequestLost(r)
  BY <1>1, <1>4, <1>5, <1>9
<1>10. CASE \E i \in Ids : \/ Decide(i, {"pending"}, "approved")
                           \/ Decide(i, {"pending", "approved"}, "closed")
  BY <1>6, <1>10 DEF Turn
<1> QED
  BY <1>1, <1>2, <1>7, <1>8, <1>9, <1>10 DEF Next, Deployment, Faults, People

LEMMA PerformedNext == Typed /\ Requests /\ Performed /\ [Next]_vars => Performed'
<1> SUFFICES ASSUME Typed, Requests, Performed, [Next]_vars PROVE Performed'
  OBVIOUS
<1>1. Lasting /\ (executed' = executed \/ \E r \in net : \E e : Added(e, r))
  BY StepOfServer DEF Quiet, Turn, Turned
<1>2. CASE executed' = executed
  BY <1>1, <1>2, PlanAssumption DEF Lasting, Performed, ControlsKept
<1>3. ASSUME NEW r \in net, NEW e, Added(e, r) PROVE Performed'
  <2>1. /\ Sent(r) /\ r.kind = "call" /\ executed' = executed \cup {e} /\ UNCHANGED approvals
        /\ \A f \in executed : f.key # r.key
        /\ e.key = r.key /\ e.by = r.by /\ e.via = r.via /\ e.class = catalogue.class[r.call]
        /\ e.stale = Stale(r) /\ r.by \in Ids \cup {None}
    BY <1>3 DEF Added, Requests, Known, Typed, IsCall, IsProposal
  <2>2. \A f, g \in executed' : f.key = g.key => f = g
    BY <2>1 DEF Performed
  <2>3. /\ e.by # None => e.by \in Ids /\ approvals[e.by].state = "approved"
                           /\ r.call = approvals[e.by].call
        /\ e.via = "apply" => e.by \in Ids /\ e.key = approvals[e.by].key
    BY <1>3, <2>1 DEF Sent, Added, Admits
  <2>4. CASE e.by = None
    <3>1. ~e.stale => e.class.risk = "read"
      BY <2>1, <2>4 DEF Sent, Stale
    <3> QED
      BY <2>1, <2>2, <2>3, <2>4, <3>1 DEF Performed, ControlsKept
  <2>5. CASE e.by # None
    <3>1. Proper(approvals[e.by])
      BY <2>3, <2>5 DEF Requests
    <3>2. ~e.stale => /\ e.class.ai_tool
                      /\ NeedsFourEyes(e.class) => approvals[e.by].control = "four_eyes"
      BY <2>1, <2>3, <2>5, <3>1 DEF Proper, Stale
    <3> QED
      BY <2>1, <2>2, <2>3, <2>5, <3>2 DEF Performed, ControlsKept
  <2> QED
    BY <2>4, <2>5
<1> QED
  BY <1>1, <1>2, <1>3

-------------------------------------------------------------------------------
LEMMA InvInit == Init => IInv
<1> SUFFICES ASSUME Init PROVE IInv
  OBVIOUS
<1>1. Typed
  BY TypedInit
<1>2. Created
  BY DEF Init, ProfileInit, Created, Late, ProfileSigns
<1>3. Requests
  BY Nothings DEF Init, ProfileInit, Requests, Decided, Sent
<1>4. Performed
  BY DEF Init, Performed, ControlsKept
<1> QED
  BY <1>1, <1>2, <1>3, <1>4 DEF IInv

LEMMA TypedNext == Typed /\ Created /\ Requests /\ [Next]_vars => Typed'
<1> SUFFICES ASSUME Typed, Created, Requests, [Next]_vars PROVE Typed'
  OBVIOUS
<1>1. CASE UNCHANGED vars
  BY <1>1 DEF vars, files, server, network, Typed, IsDescriptor, IsCall, IsProposal
<1>2. CASE \E p \in Procs : Client(p) \/ \E c \in Commands[p] : Begin(p, c)
  BY <1>2, TypedClient, TypedCommand
<1>3. CASE (\E p \in Procs : Deployment(p)) \/ Faults \/ People
  BY <1>3, TypedClient, TypedServer DEF Deployment, Faults
<1> QED
  BY <1>1, <1>2, <1>3 DEF Next

\* The strengthening holds along every behaviour of client and deployment.
THEOREM Inductive == Spec => []IInv
<1>1. IInv /\ [Next]_vars => IInv'
  BY TypedNext, CreatedNext, RequestsNext, PerformedNext DEF IInv
<1> QED
  BY <1>1, InvInit, PTL DEF Spec

\* Every variable keeps to the values the client and the deployment give it.
THEOREM TypesKept == Spec => []TypeOK
<1>1. IInv => TypeOK
  BY DEF IInv, Typed, Creating, TypeOK, Approval, IsCall, IsProposal
<1> QED
  BY <1>1, Inductive, PTL

\* Creations at once, stopped anywhere, leave no profile that signs with
\* another key than the registered one (create_profile, write_private_new).
THEOREM ProfileKept == Spec => []ProfileSigns
<1>1. IInv => ProfileSigns
  BY DEF IInv, Created
<1> QED
  BY <1>1, Inductive, PTL

\* Without an approval only reads are performed; under one, applied or invoked,
\* what AI actors may do, and with four eyes if it needs them: as the client
\* saw it when it looked (invoke_guarded, create_plan).
THEOREM ControlsLast == Spec => []ControlsKept
<1>1. IInv => ControlsKept
  BY DEF IInv, Performed
<1> QED
  BY <1>1, Inductive, PTL

\* What was performed for one plan, or under one key, is one thing.
LEMMA AtMostOneOf ==
  ASSUME NEW S, \A e, f \in S : e = f
  PROVE  Cardinality(S) = IF S = {} THEN 0 ELSE 1
<1>1. CASE S = {}
  BY <1>1, FS_EmptySet
<1>2. ASSUME NEW e \in S PROVE Cardinality(S) = 1
  <2>1. S = {e}
    BY <1>2
  <2> QED
    BY <2>1, FS_Singleton
<1> QED
  BY <1>1, <1>2

\* A key the operator gave is good for one mutation, however many plans were
\* made with it (create_plan, apply_plan).
THEOREM KeyUsedOnce == Spec => []AskedOnce
<1>1. IInv => AskedOnce
  <2> SUFFICES ASSUME IInv, NEW k \in AskedKeys
               PROVE Cardinality(UNION {AsPlanned(i) : i \in {j \in Ids : approvals[j].asked = k}})
                       <= 1
    BY DEF AskedOnce
  <2> DEFINE S == UNION {AsPlanned(i) : i \in {j \in Ids : approvals[j].asked = k}}
  <2>1. ASSUME NEW e \in S PROVE e \in executed /\ e.key = k
    <3>1. PICK i \in Ids : approvals[i].asked = k /\ e \in AsPlanned(i)
      BY <2>1
    <3>2. e \in executed /\ e.by = i /\ e.key = approvals[i].key
      BY <3>1 DEF AsPlanned, IInv, Performed
    <3>3. approvals[i].state # "none"
      BY <3>2, PlanAssumption DEF IInv, Performed
    <3> QED
      BY <3>1, <3>2, <3>3, PlanAssumption DEF IInv, Requests, Proper
  <2>2. \A e, f \in S : e = f
    BY <2>1 DEF IInv, Performed
  <2>3. Cardinality(S) = IF S = {} THEN 0 ELSE 1
    BY <2>2, AtMostOneOf
  <2> QED
    BY <2>3
<1> QED
  BY <1>1, Inductive, PTL

\* What applies an approved plan is admitted whenever it arrives, under the
\* key of the plan (apply_plan).
THEOREM RequestsStayGood == Spec => []StaysAdmitted
<1>1. IInv => StaysAdmitted
  BY DEF IInv, Requests, Sent, StaysAdmitted, Admits
<1> QED
  BY <1>1, Inductive, PTL

\* A usable profile stays usable: no creation in progress can write over its
\* seed or its file any more (write_private_new).
THEOREM ProfileStaysUsable == Spec => StaysUsable
<1>1. IInv /\ [Next]_vars => [Usable => Usable']_vars
  <2> SUFFICES ASSUME IInv, [Next]_vars, Usable PROVE Usable'
    OBVIOUS
  <2> USE DEF IInv, Created, Late, Usable, files, Creating, ProfileSigns
  <2>1. CASE \E p \in Procs : CreateBegin(p) \/ Creation(p)
    BY <2>1 DEF CreateBegin, Creation, SeedOpen, SeedWrite, ProfileOpen, ProfileWrite,
       CreateRefused, At
  <2>2. CASE Bind
    BY <2>2 DEF Bind, Typed
  <2>3. CASE UNCHANGED files
    BY <2>3
  <2> QED
    BY <2>1, <2>2, <2>3
    DEF Next, Begin, Client, Deployment, Faults, People, Descriptor, ReadPlan, Invoke, Plan,
        Apply, Refuse, GiveUp, Stop, Answer, AnswerLost, RequestLost, Decide, Change, Sends, vars
<1> QED
  BY <1>1, Inductive, PTL DEF Spec, StaysUsable

-------------------------------------------------------------------------------
(* The client and the deployment implement GovernedActions.                *)

\* An approval keeps what it was performed under, so that what was performed
\* as planned is known from then on.
LEMMA AsPlannedKept ==
  ASSUME IInv, Lasting, NEW i \in Ids, UNCHANGED executed
  PROVE  AsPlanned(i)' = AsPlanned(i)
<1>1. ASSUME NEW e \in executed, e.by = i PROVE approvals'[i].key = approvals[i].key
  BY <1>1, PlanAssumption DEF IInv, Performed, Lasting
<1> QED
  BY <1>1 DEF AsPlanned

LEMMA GovernedInit == Init => Governed!GInit
<1> SUFFICES ASSUME Init PROVE Governed!GInit
  OBVIOUS
<1>1. \A i \in Ids : AsPlanned(i) = {}
  BY DEF Init, AsPlanned
<1>2. \A i \in Ids : Cardinality(AsPlanned(i)) = 0
  BY <1>1, FS_EmptySet
<1> QED
  BY <1>2, Nothings DEF Init, Governed!GInit

LEMMA GovernedNext == IInv /\ [Next]_vars => [Governed!GNext]_(Governed!gvars)
<1> SUFFICES ASSUME IInv, [Next]_vars PROVE [Governed!GNext]_(Governed!gvars)
  OBVIOUS
<1>1. Lasting /\ (Quiet \/ Turn \/ \E r \in net : \E e : Added(e, r))
  BY StepOfServer DEF IInv
<1> DEFINE done == [i \in Ids |-> Cardinality(AsPlanned(i))]
<1>a. UNCHANGED executed => UNCHANGED done
  BY <1>1, AsPlannedKept
<1>2. CASE Quiet
  BY <1>2, <1>a DEF Quiet, Governed!gvars
<1>3. ASSUME NEW i \in Ids, NEW from, NEW to, Turned(i, from, to)
      PROVE  Governed!Moves(i, from, to)
  BY <1>3, <1>a DEF Turned, Governed!Moves
<1>4. CASE Turn
  BY <1>3, <1>4 DEF Turn, Governed!GNext
<1>5. ASSUME NEW r \in net, NEW e, Added(e, r) PROVE [Governed!GNext]_(Governed!gvars)
  <2>1. /\ executed' = executed \cup {e} /\ UNCHANGED approvals /\ e.by = r.by /\ e.via = r.via
        /\ e.key = r.key /\ \A f \in executed : f.key # r.key
    BY <1>5 DEF Added, Known
  <2>2. CASE ~ \E i \in Ids : e \in AsPlanned(i)'
    <3>1. \A i \in Ids : AsPlanned(i)' = AsPlanned(i)
      BY <2>1, <2>2 DEF AsPlanned
    <3> QED
      BY <2>1, <3>1 DEF Governed!gvars
  <2>3. CASE \E i \in Ids : e \in AsPlanned(i)'
    <3>1. r.by \in Ids /\ r.key = approvals[r.by].key /\ approvals[r.by].state = "approved"
      BY <1>5, <2>1, <2>3, PlanAssumption DEF IInv, Requests, Sent, Added, Admits, AsPlanned
    <3>2. AsPlanned(r.by) = {}
      BY <2>1, <3>1 DEF IInv, Performed, AsPlanned
    <3>3. /\ AsPlanned(r.by)' = {e} /\ \A i \in Ids \ {r.by} : AsPlanned(i)' = AsPlanned(i)
      BY <2>1, <2>3, <3>2 DEF AsPlanned
    <3>4. /\ Cardinality(AsPlanned(r.by)) = 0 /\ Cardinality(AsPlanned(r.by)') = 1
          /\ \A i \in Ids \ {r.by} : Cardinality(AsPlanned(i)') = Cardinality(AsPlanned(i))
      BY <3>2, <3>3, FS_EmptySet, FS_Singleton
    <3>5. done[r.by] = 0 /\ done' = [done EXCEPT ![r.by] = 1]
      BY <3>1, <3>4
    <3>6. Governed!Perform(r.by)
      BY <2>1, <3>1, <3>5 DEF Governed!Perform
    <3> QED
      BY <3>1, <3>6 DEF Governed!GNext
  <2> QED
    BY <2>2, <2>3
<1> QED
  BY <1>1, <1>2, <1>4, <1>5

\* However often plans are applied, and whatever is lost or late, each is
\* performed once at most and only while approved (apply_plan).
THEOREM ClientImplementsGoverned == Spec => PlansAreGoverned
<1>1. PlansAreGoverned <=> Governed!GInit /\ [][Governed!GNext]_(Governed!gvars)
  BY DEF PlansAreGoverned, Governed!GSpec
<1> QED
  BY <1>1, GovernedInit, GovernedNext, Inductive, PTL DEF Spec
===============================================================================
