---------------------------- MODULE ActivationProofs ----------------------------
(***************************************************************************)
(* Proofs about Activation, for any number of terminals, releases, paths   *)
(* and commands, sessions lost, scripts that fail, and files changed.      *)
(***************************************************************************)
EXTENDS Activation, TLAPS

Places == {"idle", "promote", "intent", "rewriting", "render", "create", "verify", "copy",
           "prepare", "transfer", "grant", "ask", "run", "session", "receipt", "cleanup"}
Inner  == {"existing", "stopping", "down", "preflight", "installing", "secrets", "starting",
           "readiness"}
Steps  == Inner \cup {"digests", "inspect", "rollback"}

Working(p) == OnNode(cmd[p])

\* Places with an operation, and with a validated configuration.
Numbered  == {"prepare", "transfer", "grant", "run", "session", "receipt", "cleanup"}
Validated == {"copy", "prepare", "transfer", "grant", "run", "session"}

\* The values of the variables.
Values ==
  /\ dirs \in [Releases -> {"absent", "whole", "changed"}]
  /\ intent \in {"plain", "torn", "licensed"}
  /\ files \in [Files -> Config \cup {None}]
  /\ receipts \in [Paths -> Payload \cup {None}]
  /\ pc \in [Procs -> Places]
  /\ cmd \in [Procs -> Command \cup {NoCommand}]
  /\ \A p \in Procs : cmd[p] \in Commands[p] \cup {NoCommand}
  /\ op \in [Procs -> 0..MaxOps] /\ tries \in [Procs -> 0..MaxTries]
  /\ read \in [Procs -> Config \cup {None}]
  /\ staged \in [Ops -> Payload \cup {None}]
  /\ stage \in [Ops -> {"none", "made", "sent", "unpacked", "removed"}]
  /\ entered \in [Ops -> Nat]
  /\ scripts \subseteq [op : Ops, try : Nat, at : Steps, want : Payload]
  /\ node \in [current : Payload \cup {None}, up : Payload \cup {None},
               kept : SUBSET Payload, reader : BOOLEAN]
  /\ overlap \in BOOLEAN
  /\ ops \in 0..MaxOps /\ stops \in 0..MaxStops /\ edits \in 0..MaxEdits

\* Where each command can be, and what it has by then.
Where(p) ==
  /\ pc[p] = "idle" <=> cmd[p] = NoCommand
  /\ pc[p] = "promote" => cmd[p].kind = "fetch"
  /\ pc[p] \in {"intent", "rewriting"} => cmd[p].kind = "licence"
  /\ pc[p] \in {"render", "create"} => cmd[p].kind \in {"render", "licence"}
  /\ pc[p] \in {"verify", "copy", "prepare", "transfer", "grant"} =>
       cmd[p].kind \in {"activate", "licence"}
  /\ pc[p] = "ask" => cmd[p].kind = "rollback"
  /\ pc[p] \in {"run", "session", "receipt", "cleanup"} => Working(p)
  /\ pc[p] = "create" => read[p] # None
  /\ pc[p] \in Validated /\ cmd[p].kind # "rollback" => read[p] # None
  /\ pc[p] \in Numbered => op[p] \in 1..ops /\ staged[op[p]] # None
  /\ pc[p] \notin Numbered => op[p] = 0
  /\ pc[p] \notin {"run", "session", "receipt", "cleanup"} => tries[p] = 0
  /\ pc[p] = "run" => tries[p] < MaxTries

Typed ==
  /\ Values
  /\ \A p \in Procs : Where(p)
  /\ \A x \in scripts : x.op \in 1..ops /\ staged[x.op] # None

\* An operation belongs to one terminal.
Owned == \A p, q \in Procs : p # q /\ op[p] # 0 => op[p] # op[q]

\* The stage of each operation goes one way, and lets one script in.
Stages ==
  \A o \in Ops :
    /\ o > ops => stage[o] = "none" /\ entered[o] = 0
    /\ stage[o] \in {"none", "made", "sent"} => entered[o] = 0
    /\ entered[o] <= 1
Ahead(p) ==
  /\ pc[p] \in {"prepare", "transfer", "grant"} => \A x \in scripts : x.op # op[p]
  /\ pc[p] = "prepare" => stage[op[p]] = "none"
  /\ pc[p] = "transfer" => stage[op[p]] = "made"
  /\ pc[p] = "grant" => stage[op[p]] = "sent"
  /\ pc[p] \in {"run", "session", "receipt", "cleanup"} =>
       (cmd[p].kind = "rollback" <=> stage[op[p]] = "none")
Inside ==
  /\ \A x \in scripts : x.at = "rollback" <=> stage[x.op] = "none"
  /\ \A x \in scripts : x.at \in Inner => stage[x.op] \in {"unpacked", "removed"}
  /\ \A x, y \in scripts : x.at \in Inner /\ y.at \in Inner /\ x.op = y.op => x = y

Staging == Stages /\ (\A p \in Procs : Ahead(p)) /\ Inside

\* Unless a command was begun over another: the node is worked on for one
\* operation at a time; what else runs there has lost its stage and can do
\* nothing.
Alone ==
  /\ \A p, q \in Procs : Working(p) /\ Working(q) => p = q
  /\ \A x, y \in scripts : Acts(x) /\ Acts(y) => x.op = y.op
  /\ \A p \in Procs : \A x \in scripts : Working(p) /\ Acts(x) => x.op = op[p]

\* What the node serves while a script works on it, with or without its stage,
\* and when its receipt is to be written.
Serves(x) ==
  /\ x.at \in {"down", "preflight", "installing", "secrets", "starting"} => node.up = None
  /\ x.at \in {"secrets", "starting", "readiness"} => node.current = staged[x.op]
  /\ x.at = "readiness" => node.up = staged[x.op]
Reports(p) ==
  /\ node.up = staged[op[p]] /\ stage[op[p]] \in {"none", "removed"}
  /\ \A x \in scripts : x.op = op[p] => x.at \notin Inner
Serving ==
  /\ \A x \in scripts : Acts(x) => Serves(x)
  /\ \A p \in Procs : pc[p] = "receipt" => Reports(p)

\* The receipt can be written.
Fresh == \A p \in Procs : Working(p) /\ pc[p] # "cleanup" => receipts[cmd[p].path] = None

Undisturbed == Alone /\ Serving /\ Fresh

\* From the checks on the workstation to what is installed.
Checks(p) ==
  /\ pc[p] = "promote" => cmd[p].release \in Admissible
  /\ pc[p] \in Validated /\ cmd[p].kind # "rollback" =>
       cmd[p].release \in Admissible /\ read[p].release = cmd[p].release
  /\ pc[p] \in {"run", "session"} /\ cmd[p].kind = "rollback" =>
       staged[op[p]] \in node.kept
Wanted(x) ==
  /\ x.at = "rollback" => staged[x.op] \in node.kept
  /\ x.at # "rollback" =>
       x.want.bundle \in Admissible /\ x.want.bundle = x.want.config.release
  /\ x.at \in Inner \cup {"inspect"} => staged[x.op] = x.want
Checked ==
  /\ \A r \in Releases : dirs[r] # "absent" => r \in Admissible
  /\ \A p \in Procs : Checks(p)
  /\ \A x \in scripts : Wanted(x)
  /\ OnlyVerified

\* The licence on its way from the intent to the node.
Permits(p) ==
  cmd[p].kind = "licence" =>
    /\ pc[p] = "render" => intent # "plain"
    /\ pc[p] = "create" => read[p].licensed
    /\ edits = 0 /\ pc[p] \in {"verify", "copy"} =>
         files[cmd[p].file] # None /\ files[cmd[p].file].licensed
    /\ edits = 0 /\ pc[p] \in Numbered => staged[op[p]].config.licensed
Licensed == \A p \in Procs : Permits(p)

\* What a command finds at its next step, and a script: as it was verified,
\* while no files are edited.
Finds(p) ==
  /\ pc[p] = "copy" => dirs[cmd[p].release] # "absent"
  /\ pc[p] = "copy" /\ edits = 0 => files[cmd[p].file] = read[p]
  /\ pc[p] \in Validated \ {"copy"} /\ cmd[p].kind # "rollback" /\ edits = 0 =>
       staged[op[p]] = [bundle |-> cmd[p].release, config |-> read[p]]
  /\ pc[p] \in {"run", "session"} /\ cmd[p].kind # "rollback" =>
       node.reader /\ stage[op[p]] # "made"
Meets(x) ==
  x.at # "rollback" => /\ node.reader /\ stage[x.op] # "made"
                       /\ edits = 0 => staged[x.op] = x.want
Unspoiled ==
  /\ edits = 0 => \A r \in Releases : dirs[r] # "changed"
  /\ node.kept # {} \/ node.up # None => node.current # None
  /\ \A p \in Procs : Finds(p)
  /\ \A x \in scripts : Meets(x)

IInv ==
  /\ Typed /\ Owned /\ Staging /\ Checked /\ Licensed /\ Unspoiled
  /\ ~overlap => Undisturbed

-------------------------------------------------------------------------------
(* Commands and types.                                                     *)

\* What a command of each kind has.
LEMMA Fields ==
  ASSUME NEW c \in Command
  PROVE  /\ c # NoCommand
         /\ c.kind \in {"fetch", "render", "activate", "licence", "rollback"}
         /\ c.kind \in {"fetch", "render", "activate", "licence"} => c.release \in Releases
         /\ c.kind \in {"render", "activate", "licence"} => c.file \in Files
         /\ OnNode(c) => c.path \in Paths
         /\ OnNode(c) <=> c.kind \in {"activate", "licence", "rollback"}
BY DEF Command, NoCommand, OnNode

LEMMA Nobody == ~OnNode(NoCommand) /\ NoCommand.kind = "none"
BY DEF OnNode, NoCommand

LEMMA TypedInit == Init => Typed
<1> SUFFICES ASSUME Init PROVE Typed
  OBVIOUS
<1> USE DEF Init
<1>1. 0 \in 0..MaxOps /\ 0 \in 0..MaxTries /\ 0 \in 0..MaxStops /\ 0 \in 0..MaxEdits
  BY ParameterAssumption
<1>2. Values
  BY <1>1 DEF Values, Places
<1>3. \A p \in Procs : Where(p)
  BY DEF Where, Validated, Numbered
<1> QED
  BY <1>2, <1>3 DEF Typed

\* The workstation, step by step.
LEMMA TypedCli ==
  ASSUME Typed, NEW p \in Procs,
         Cli(p) \/ SessionLost(p) \/ Stop(p) \/ \E c \in Commands[p] : Begin(p, c)
  PROVE  Typed'
<1> USE DEF Typed, Values, Where, Working, At, Goto, Moves, Ends, Fails, local, procs, remote,
            Places, Validated, Numbered
<1>a. /\ MaxOps \in Nat /\ MaxTries \in Nat \ {0} /\ MaxStops \in Nat /\ MaxEdits \in Nat
      /\ Commands \in [Procs -> SUBSET Command] /\ None \notin Config \cup Payload
  BY ParameterAssumption
<1>b. pc[p] # "idle" => cmd[p] \in Command
  OBVIOUS
<1>1. ASSUME NEW c \in Commands[p], Begin(p, c) PROVE Typed'
  <2>1. c \in Command
    BY <1>a
  <2>2. /\ First(c) \in Places \ (Validated \cup Numbered \cup {"idle", "create"})
        /\ First(c) = "promote" => c.kind = "fetch"
        /\ First(c) = "intent" => c.kind = "licence"
        /\ First(c) = "render" => c.kind = "render"
        /\ First(c) = "verify" => c.kind = "activate"
        /\ First(c) = "ask" => c.kind = "rollback"
        /\ First(c) # "rewriting"
    BY <2>1, Fields DEF First
  <2>3. /\ pc' = [pc EXCEPT ![p] = First(c)] /\ cmd' = [cmd EXCEPT ![p] = c]
        /\ overlap' \in BOOLEAN /\ pc[p] = "idle" /\ c # NoCommand
        /\ UNCHANGED <<local, op, tries, read, remote, ops, stops, edits>>
    BY <1>1, <2>1, Fields DEF Begin, Busy
  <2>4. Values'
    BY <2>1, <2>2, <2>3
  <2>5. \A q \in Procs : Where(q)'
    BY <2>1, <2>2, <2>3
  <2> QED
    BY <2>3, <2>4, <2>5
<1>2. CASE Promote(p) BY <1>2, <1>b, Fields DEF Promote
<1>3. CASE IntentOpen(p) BY <1>3 DEF IntentOpen
<1>4. CASE IntentWrite(p) BY <1>4 DEF IntentWrite
<1>5. CASE RenderLoad(p)
  <2>1. ConfigOf(cmd[p].release) \in Config
    BY <1>5, <1>b, Fields DEF RenderLoad, ConfigOf, Config
  <2> QED
    BY <1>5, <1>a, <2>1 DEF RenderLoad
<1>6. CASE RenderCreate(p)
  <2>1. Values'
    BY <1>6, <1>b, Fields DEF RenderCreate
  <2>2. \A q \in Procs : Where(q)'
    BY <1>6, <1>b, Fields DEF RenderCreate
  <2>3. \A x \in scripts' : x.op \in 1..ops' /\ staged'[x.op] # None
    BY <1>6, <1>b, Fields DEF RenderCreate
  <2> QED
    BY <2>1, <2>2, <2>3
<1>7. CASE Verify(p) BY <1>7, <1>b, Fields DEF Verify
<1>8. CASE Copy(p)
  <2> DEFINE v == [bundle |-> IF dirs[cmd[p].release] = "whole" THEN cmd[p].release
                                ELSE "changed",
                   config |-> files[cmd[p].file]]
  <2>1. v \in Payload /\ v # None
    BY <1>8, <1>a, <1>b, Fields DEF Copy, Payload
  <2>2. /\ ops' \in Ops /\ ops' = ops + 1
        /\ staged' = [staged EXCEPT ![ops'] = v] /\ op' = [op EXCEPT ![p] = ops']
    BY <1>8, <1>a DEF Copy, Ops
  <2> HIDE DEF v
  <2>3. Values'
    BY <1>8, <1>a, <2>1, <2>2 DEF Copy, Ops
  <2>4. \A q \in Procs : Where(q)'
    BY <1>8, <1>a, <2>1, <2>2 DEF Copy, Ops
  <2>5. \A x \in scripts' : x.op \in 1..ops' /\ staged'[x.op] # None
    BY <1>8, <1>a, <2>1, <2>2 DEF Copy, Ops
  <2> QED
    BY <2>3, <2>4, <2>5
<1>9. CASE Prepare(p) BY <1>9, <1>a DEF Prepare, Ops
<1>10. CASE Transfer(p)
  <2>1. Values'
    BY <1>10, <1>a DEF Transfer, Ops
  <2>2. \A q \in Procs : Where(q)'
    BY <1>10, <1>a DEF Transfer, Ops
  <2>3. \A x \in scripts' : x.op \in 1..ops' /\ staged'[x.op] # None
    BY <1>10, <1>a DEF Transfer, Ops
  <2> QED
    BY <2>1, <2>2, <2>3
<1>11. CASE Grant(p)
  <2>1. tries[p] = 0 /\ 0 < MaxTries /\ Working(p)
    BY <1>11, <1>a, <1>b, Fields DEF Grant
  <2>2. node' \in [current : Payload \cup {None}, up : Payload \cup {None},
                   kept : SUBSET Payload, reader : BOOLEAN]
    BY <1>11 DEF Grant
  <2> QED
    BY <1>11, <2>1, <2>2 DEF Grant
<1>12. CASE Ask(p)
  <2>1. Values'
    BY <1>12, <1>a, <1>b, Fields DEF Ask, Ops
  <2>2. \A q \in Procs : Where(q)'
    <3>1. /\ pc[p] = "ask" /\ pc' = [pc EXCEPT ![p] = "run"] /\ op' = [op EXCEPT ![p] = ops']
          /\ UNCHANGED <<cmd, tries, read>> /\ ops' = ops + 1 /\ ops' \in Ops
          /\ cmd[p].kind = "rollback" /\ tries[p] = 0 /\ 0 < MaxTries
      <4>1. /\ pc[p] = "ask" /\ pc' = [pc EXCEPT ![p] = "run"] /\ op' = [op EXCEPT ![p] = ops']
            /\ UNCHANGED <<cmd, tries, read>> /\ ops' = ops + 1 /\ ops < MaxOps
        BY <1>12 DEF Ask
      <4>2. Where(p) /\ ops \in Nat
        BY <1>a
      <4>3. ops' \in Ops /\ 0 < MaxTries
        BY <1>a, <4>1, <4>2 DEF Ops
      <4> QED
        BY <4>1, <4>2, <4>3
    <3>2. staged'[ops'] # None /\ \A o \in 1..ops : staged'[o] = staged[o]
      <4>1. PICK v \in node.kept : staged' = [staged EXCEPT ![ops'] = v]
        BY <1>12 DEF Ask
      <4>2. v \in Payload /\ v # None /\ ops \in Nat /\ ops' \in Ops
        BY <1>a, <3>1
      <4>3. \A o \in 1..ops : o # ops'
        BY <3>1, <4>2
      <4>4. staged \in [Ops -> Payload \cup {None}] /\ 1..ops \subseteq Ops
        BY <1>a DEF Ops
      <4> QED
        BY <4>1, <4>2, <4>3, <4>4
    <3>3. Working(p)' /\ cmd[p] # NoCommand
      BY <1>12, <1>b, <3>1, Fields
    <3>4. Where(p)'
      BY <3>1, <3>2, <3>3
    <3>5. ASSUME NEW q \in Procs \ {p} PROVE Where(q)'
      BY <3>1, <3>2
    <3> QED
      BY <3>4, <3>5
  <2>3. \A x \in scripts' : x.op \in 1..ops' /\ staged'[x.op] # None
    BY <1>12, <1>a, <1>b, Fields DEF Ask, Ops
  <2> QED
    BY <2>1, <2>2, <2>3
<1>13. CASE Run(p)
  <2>1. Values'
    BY <1>13, <1>a, <1>b, Fields DEF Run, Ops, Payload, Steps
  <2>2. \A q \in Procs : Where(q)'
    BY <1>13, <1>a, <1>b, Fields DEF Run, Ops, Payload, Steps
  <2>3. \A x \in scripts' : x.op \in 1..ops' /\ staged'[x.op] # None
    BY <1>13, <1>a, <1>b, Fields DEF Run, Ops, Payload, Steps
  <2> QED
    BY <2>1, <2>2, <2>3
<1>14. CASE Receipt(p) BY <1>14, <1>b, Fields DEF Receipt, Ops
<1>15. CASE Cleanup(p)
  <2>1. Values'
    BY <1>15, <1>a DEF Cleanup, Ops
  <2>2. \A q \in Procs : Where(q)'
    <3>1. /\ pc' = [pc EXCEPT ![p] = "idle"] /\ cmd' = [cmd EXCEPT ![p] = NoCommand]
          /\ op' = [op EXCEPT ![p] = 0] /\ tries' = [tries EXCEPT ![p] = 0]
          /\ read' = [read EXCEPT ![p] = None] /\ UNCHANGED <<staged, ops>>
      BY <1>15 DEF Cleanup
    <3>2. Where(p)'
      BY <3>1
    <3>3. ASSUME NEW q \in Procs \ {p} PROVE Where(q)'
      BY <3>1
    <3> QED
      BY <3>2, <3>3
  <2>3. \A x \in scripts' : x.op \in 1..ops' /\ staged'[x.op] # None
    BY <1>15, <1>a DEF Cleanup, Ops
  <2> QED
    BY <2>1, <2>2, <2>3
<1>16. CASE Refuse(p)
  <2>1. Values'
    BY <1>16, <1>b, Fields DEF Refuse, Refused
  <2>2. \A q \in Procs : Where(q)'
    BY <1>16, <1>b, Fields DEF Refuse, Refused
  <2>3. \A x \in scripts' : x.op \in 1..ops' /\ staged'[x.op] # None
    BY <1>16, <1>b, Fields DEF Refuse, Refused
  <2> QED
    BY <2>1, <2>2, <2>3
<1>17. CASE SessionLost(p) BY <1>17, <1>a DEF SessionLost, AfterFailure
<1>18. CASE Stop(p) BY <1>18, <1>a DEF Stop
<1> QED
  BY <1>1, <1>2, <1>3, <1>4, <1>5, <1>6, <1>7, <1>8, <1>9, <1>10, <1>11, <1>12, <1>13,
     <1>14, <1>15, <1>16, <1>17, <1>18 DEF Cli

\* A script's step leaves the workstation as it is, or tells the terminal
\* that waits for it where to go on.
Telling(x) ==
  /\ UNCHANGED <<local, staged, ops, edits, overlap>>
  /\ stops' \in 0..MaxStops
  /\ UNCHANGED <<cmd, op, tries, read>>
  /\ \/ UNCHANGED pc
     \/ \E p \in Procs :
          /\ pc[p] = "session" /\ op[p] = x.op
          /\ \/ /\ x.at = "readiness" /\ Fenced(x) /\ node.up # None /\ UNCHANGED node
                /\ stage' = [stage EXCEPT ![x.op] = "removed"]
                /\ pc' = [pc EXCEPT ![p] = "receipt"]
             \/ /\ x.at = "rollback" /\ UNCHANGED stage
                /\ node' = [node EXCEPT !.current = staged[x.op], !.up = staged[x.op]]
                /\ pc' = [pc EXCEPT ![p] = "receipt"]
             \/ pc' = [pc EXCEPT ![p] = "cleanup"]
             \/ tries[p] < MaxTries /\ pc' = [pc EXCEPT ![p] = "run"]

\* A script's step lets it in, takes it on, or ends it.
Moved(x, to) == [x EXCEPT !.at = to]
Enters(x) ==
  /\ x.at = "inspect" /\ stage[x.op] = "sent"
  /\ scripts' = (scripts \ {x}) \cup {Moved(x, "existing")}
  /\ stage' = [stage EXCEPT ![x.op] = "unpacked"]
  /\ entered' = [entered EXCEPT ![x.op] = @ + 1]
  /\ UNCHANGED node
GoesOn(x, to) ==
  /\ Acts(x) /\ UNCHANGED <<stage, entered>>
  /\ scripts' = (scripts \ {x}) \cup {Moved(x, to)}
  /\ \/ x.at = "digests" /\ to = "inspect" /\ AsRead(x) /\ UNCHANGED node
     \/ x.at = "existing" /\ to = "stopping" /\ UNCHANGED node
     \/ x.at = "existing" /\ to = "preflight" /\ node.up = None /\ UNCHANGED node
     \/ x.at = "stopping" /\ to = "down" /\ node' = [node EXCEPT !.up = None]
     \/ x.at = "down" /\ to = "preflight" /\ node' = [node EXCEPT !.up = None]
     \/ x.at = "preflight" /\ to = "installing" /\ UNCHANGED node
     \/ /\ x.at = "installing" /\ to = "secrets"
        /\ node' = [node EXCEPT !.current = staged[x.op], !.kept = @ \cup {staged[x.op]}]
     \/ x.at = "secrets" /\ to = "starting" /\ UNCHANGED node
     \/ /\ x.at = "starting" /\ to = "readiness" /\ node.current # None
        /\ node' = [node EXCEPT !.up = node.current]
RollsBack(x) ==
  /\ x.at = "rollback" /\ node.current # None
  /\ scripts' = scripts \ {x} /\ UNCHANGED <<stage, entered>>
  /\ node' = [node EXCEPT !.current = staged[x.op], !.up = staged[x.op]]
IsOver(x) ==
  /\ scripts' = scripts \ {x} /\ UNCHANGED <<node, entered>>
  /\ \/ UNCHANGED stage
     \/ x.at # "rollback" /\ stage' = [stage EXCEPT ![x.op] = "removed"]

LEMMA MovedScript ==
  ASSUME Typed, NEW x \in scripts, NEW to
  PROVE  Moved(x, to).op = x.op /\ Moved(x, to).at = to /\ Moved(x, to).want = x.want
BY DEF Typed, Values, Moved

LEMMA ScriptSteps ==
  ASSUME Typed, NEW x \in scripts, Script(x) \/ ScriptDies(x)
  PROVE  /\ Telling(x)
         /\ Enters(x) \/ RollsBack(x) \/ IsOver(x) \/ \E to \in Steps : GoesOn(x, to)
<1> USE DEF At, Goto, Moves, Hears, procs, Fails, Opens, Lands, Proceeds, Tell, Moved, Acts,
            Running, Fenced
<1>1. ASSUME NEW from, NEW to \in Steps, NEW n, Opens(x, from, to) \/ Lands(x, from, to, n)
      PROVE  Telling(x)
  BY <1>1 DEF Telling, Typed, Values
<1>2. CASE Digests(x)
  <2>1. GoesOn(x, "inspect")
    BY <1>2 DEF Digests, GoesOn
  <2> QED
    BY <1>1, <1>2, <2>1 DEF Digests, Steps
<1>3. CASE Inspect(x)
  BY <1>3 DEF Inspect, Enters, Telling, Typed, Values
<1>4. CASE Existing(x)
  <2>1. GoesOn(x, "stopping") \/ GoesOn(x, "preflight")
    BY <1>4 DEF Existing, GoesOn
  <2> QED
    BY <1>1, <1>4, <2>1 DEF Existing, Steps, Inner
<1>5. CASE StopService(x)
  <2>1. GoesOn(x, "down")
    BY <1>5 DEF StopService, GoesOn
  <2> QED
    BY <1>1, <1>5, <2>1 DEF StopService, Steps, Inner
<1>13. CASE ComposeDown(x)
  <2>1. GoesOn(x, "preflight")
    BY <1>13 DEF ComposeDown, GoesOn
  <2> QED
    BY <1>1, <1>13, <2>1 DEF ComposeDown, Steps, Inner
<1>6. CASE Preflight(x)
  <2>1. GoesOn(x, "installing")
    BY <1>6 DEF Preflight, GoesOn
  <2> QED
    BY <1>1, <1>6, <2>1 DEF Preflight, Steps, Inner
<1>7. CASE Install(x)
  <2>1. GoesOn(x, "secrets")
    BY <1>7 DEF Install, GoesOn
  <2> QED
    BY <1>1, <1>7, <2>1 DEF Install, Steps, Inner
<1>8. CASE Secrets(x)
  <2>1. GoesOn(x, "starting")
    BY <1>8 DEF Secrets, GoesOn
  <2> QED
    BY <1>1, <1>8, <2>1 DEF Secrets, Steps, Inner
<1>9. CASE Start(x)
  <2>1. GoesOn(x, "readiness")
    BY <1>9 DEF Start, GoesOn
  <2> QED
    BY <1>1, <1>9, <2>1 DEF Start, Steps, Inner
<1>10. CASE Readiness(x)
  <2>1. IsOver(x)
    BY <1>10 DEF Readiness, IsOver
  <2>2. Telling(x)
    BY <1>10 DEF Readiness, Telling, Typed, Values
  <2> QED
    BY <2>1, <2>2
<1>11. CASE RollbackNode(x)
  <2>1. RollsBack(x)
    BY <1>11 DEF RollbackNode, RollsBack
  <2>2. Telling(x)
    BY <1>11 DEF RollbackNode, Telling, Typed, Values
  <2> QED
    BY <2>1, <2>2
<1>12. CASE ScriptFails(x) \/ ScriptDies(x)
  <2>1. IsOver(x)
    BY <1>12 DEF ScriptFails, ScriptDies, IsOver
  <2>2. Telling(x)
    BY <1>12, ParameterAssumption
    DEF ScriptFails, ScriptDies, AfterFailure, Telling, Typed, Values
  <2> QED
    BY <2>1, <2>2
<1> QED
  BY <1>2, <1>3, <1>4, <1>5, <1>6, <1>7, <1>8, <1>9, <1>10, <1>11, <1>12,
     <1>13 DEF Script

LEMMA TypedScript ==
  ASSUME Typed, NEW x \in scripts, Script(x) \/ ScriptDies(x)
  PROVE  Typed'
<1>s. /\ Telling(x)
      /\ Enters(x) \/ RollsBack(x) \/ IsOver(x) \/ \E to \in Steps : GoesOn(x, to)
  BY ScriptSteps
<1> DEFINE Scripts == [op : Ops, try : Nat, at : Steps, want : Payload]
<1>a. /\ x \in Scripts /\ scripts \subseteq Scripts /\ staged[x.op] \in Payload
      /\ \A to \in Steps : Moved(x, to) \in Scripts
      /\ "existing" \in Steps
  BY DEF Typed, Values, Steps, Inner, Moved
<1>1. scripts' \subseteq Scripts /\ \A y \in scripts' : \E z \in scripts : y.op = z.op
  <2> HIDE DEF Scripts
  <2>1. \A to \in Steps : Moved(x, to).op = x.op
    BY MovedScript
  <2> QED
    BY <1>s, <1>a, <2>1 DEF Enters, GoesOn, RollsBack, IsOver
<1>2. /\ stage' \in [Ops -> {"none", "made", "sent", "unpacked", "removed"}]
      /\ entered' \in [Ops -> Nat]
      /\ node' \in [current : Payload \cup {None}, up : Payload \cup {None},
                    kept : SUBSET Payload, reader : BOOLEAN]
  <2> USE DEF Typed, Values
  <2>1. CASE Enters(x) BY <1>a, <2>1 DEF Enters
  <2>2. CASE RollsBack(x) BY <1>a, <2>2 DEF RollsBack
  <2>3. CASE IsOver(x) BY <1>a, <2>3 DEF IsOver
  <2>4. ASSUME NEW to \in Steps, GoesOn(x, to) PROVE <1>2!:
    <3>1. \/ UNCHANGED node
          \/ node' = [node EXCEPT !.up = None]
          \/ node' = [node EXCEPT !.current = staged[x.op], !.kept = @ \cup {staged[x.op]}]
          \/ node' = [node EXCEPT !.up = node.current]
      BY <2>4 DEF GoesOn
    <3>2. UNCHANGED <<stage, entered>>
      BY <2>4 DEF GoesOn
    <3>3. node.current \in Payload \cup {None} /\ node.up \in Payload \cup {None}
          /\ node.kept \cup {staged[x.op]} \in SUBSET Payload
      BY <1>a
    <3>4. node' \in [current : Payload \cup {None}, up : Payload \cup {None},
                     kept : SUBSET Payload, reader : BOOLEAN]
      <4>1. CASE UNCHANGED node BY <4>1
      <4>2. CASE node' = [node EXCEPT !.up = None] BY <4>2
      <4>3. CASE node' = [node EXCEPT !.current = staged[x.op],
                                      !.kept = @ \cup {staged[x.op]}]
        BY <1>a, <3>3, <4>3
      <4>4. CASE node' = [node EXCEPT !.up = node.current] BY <3>3, <4>4
      <4> QED
        BY <3>1, <4>1, <4>2, <4>3, <4>4
    <3> QED
      BY <3>2, <3>4
  <2> QED
    BY <1>s, <2>1, <2>2, <2>3, <2>4
<1>3. pc' \in [Procs -> Places]
  BY <1>s DEF Telling, Places, Typed, Values
<1>4. Values'
  BY <1>1, <1>2, <1>3, <1>s DEF Telling, local, Typed, Values
<1>5. ASSUME NEW p \in Procs PROVE Where(p)'
  <2>1. Where(p) /\ UNCHANGED <<cmd, op, tries, read, staged, ops>>
    BY <1>s DEF Typed, Telling
  <2>2. CASE /\ pc[p] = "session" /\ pc'[p] \in {"receipt", "cleanup", "run"}
             /\ pc'[p] = "run" => tries[p] < MaxTries
    BY <2>1, <2>2, Nobody DEF Where, Working, Validated, Numbered
  <2>3. CASE pc'[p] = pc[p]
    BY <2>1, <2>3 DEF Where, Working
  <2> QED
    BY <2>2, <2>3, <1>s DEF Telling, Typed, Values
<1> QED
  BY <1>1, <1>4, <1>5, <1>s DEF Telling, Typed

LEMMA TypedNext == Typed /\ [Next]_vars => Typed'
<1> SUFFICES ASSUME Typed, [Next]_vars PROVE Typed'
  OBVIOUS
<1>1. CASE UNCHANGED vars
  BY <1>1 DEF vars, local, procs, remote, Typed, Values, Where, Working, Validated, Numbered
<1>2. CASE Edit
  BY <1>2, ParameterAssumption
  DEF Edit, procs, remote, Typed, Values, Where, Working, Validated, Numbered
<1> QED
  BY <1>1, <1>2, TypedCli, TypedScript DEF Next

-------------------------------------------------------------------------------
(* Whose operation it is.                                                  *)

LEMMA OwnedNext == Typed /\ Owned /\ [Next]_vars => Owned'
<1> SUFFICES ASSUME Typed, Owned, [Next]_vars PROVE Owned'
  OBVIOUS
<1>1. CASE UNCHANGED op
  BY <1>1 DEF Owned
<1>2. CASE UNCHANGED vars \/ Edit
  BY <1>1, <1>2 DEF vars, procs, Edit
<1>3. ASSUME NEW x \in scripts, Script(x) \/ ScriptDies(x) PROVE Owned'
  BY <1>1, <1>3, ScriptSteps DEF Telling
<1>4. ASSUME NEW p \in Procs,
             Cli(p) \/ SessionLost(p) \/ Stop(p) \/ \E c \in Commands[p] : Begin(p, c)
      PROVE Owned'
  <2>t. op \in [Procs -> 0..MaxOps] /\ ops \in Nat /\ \A q \in Procs : op[q] \in 0..ops
    <3>1. \A q \in Procs : Where(q)
      BY DEF Typed
    <3> QED
      BY <3>1, ParameterAssumption DEF Typed, Values, Where
  <2>1. CASE op' = [op EXCEPT ![p] = 0]
    BY <2>t, <2>1 DEF Owned
  <2>2. CASE op' = [op EXCEPT ![p] = ops + 1]
    BY <2>t, <2>2 DEF Owned
  <2> QED
    BY <1>1, <1>4, <2>1, <2>2
    DEF Cli, Promote, IntentOpen, IntentWrite, RenderLoad, RenderCreate, Verify, Copy, Prepare,
        Transfer, Grant, Ask, Run, Receipt, Cleanup, Refuse, SessionLost, Stop, Begin, Moves,
        Ends, Goto
<1> QED
  BY <1>1, <1>2, <1>3, <1>4 DEF Next

\* Two terminals past their checks are in different operations.
LEMMA Others ==
  ASSUME Typed, Owned, NEW p \in Procs, pc[p] \in Numbered, NEW q \in Procs, q # p
  PROVE  op[q] # op[p]
<1>1. op[p] \in 1..ops /\ ops \in Nat
  BY ParameterAssumption DEF Typed, Values, Where
<1> QED
  BY <1>1 DEF Owned

\* The script a session starts.
LEMMA RunSends ==
  ASSUME NEW p, Run(p)
  PROVE  \E y : /\ scripts' = scripts \cup {y} /\ y.op = op[p]
                /\ y.at = IF cmd[p].kind = "rollback" THEN "rollback" ELSE "digests"
                /\ y.want = IF cmd[p].kind = "rollback" THEN staged[op[p]]
                            ELSE [bundle |-> cmd[p].release, config |-> read[p]]
<1> DEFINE y == [op |-> op[p], try |-> tries'[p],
                 at |-> IF cmd[p].kind = "rollback" THEN "rollback" ELSE "digests",
                 want |-> IF cmd[p].kind = "rollback" THEN staged[op[p]]
                          ELSE [bundle |-> cmd[p].release, config |-> read[p]]]
<1>1. scripts' = scripts \cup {y}
  BY DEF Run
<1>2. /\ y.op = op[p]
      /\ y.at = IF cmd[p].kind = "rollback" THEN "rollback" ELSE "digests"
      /\ y.want = IF cmd[p].kind = "rollback" THEN staged[op[p]]
                  ELSE [bundle |-> cmd[p].release, config |-> read[p]]
  OBVIOUS
<1> HIDE DEF y
<1> QED
  BY <1>1, <1>2

LEMMA StagingCli ==
  ASSUME Typed, Owned, Staging, NEW p \in Procs,
         Cli(p) \/ SessionLost(p) \/ Stop(p) \/ \E c \in Commands[p] : Begin(p, c)
  PROVE  Staging'
<1>t. /\ pc \in [Procs -> Places] /\ cmd \in [Procs -> Command \cup {NoCommand}]
      /\ op \in [Procs -> 0..MaxOps]
      /\ stage \in [Ops -> {"none", "made", "sent", "unpacked", "removed"}]
      /\ \A x \in scripts : x.op \in 1..ops /\ x.op \in Ops
      /\ ops \in Nat /\ 1..ops \subseteq Ops
  BY ParameterAssumption DEF Typed, Values, Ops
<1>w. Where(p)
  BY DEF Typed
<1> USE DEF At, Goto, Moves, Ends, procs, remote
<1>1. CASE /\ UNCHANGED <<scripts, stage, entered, ops>>
           /\ \A q \in Procs : Ahead(q)'
  BY <1>1 DEF Staging, Stages, Inside
<1>2. ASSUME UNCHANGED <<scripts, stage, entered, ops>>, UNCHANGED <<op, cmd>>,
             pc' = [pc EXCEPT ![p] = pc'[p]],
             pc'[p] \notin Numbered
               \/ (pc[p] = "grant" /\ pc'[p] = "run")
               \/ (pc[p] \in {"run", "session", "receipt"}
                    /\ pc'[p] \in {"run", "session", "receipt", "cleanup"})
      PROVE  Staging'
  <2>1. \A q \in Procs : Ahead(q)'
    BY <1>2, <1>t, <1>w, Fields, Nobody DEF Staging, Ahead, Numbered, Working, Where
  <2> QED
    BY <1>1, <1>2, <2>1
<1>3. ASSUME UNCHANGED <<scripts, stage, entered, ops>>,
             op' = [op EXCEPT ![p] = op'[p]], cmd' = [cmd EXCEPT ![p] = cmd'[p]],
             pc' = [pc EXCEPT ![p] = pc'[p]], pc'[p] \notin Numbered
      PROVE  Staging'
  <2>1. \A q \in Procs : Ahead(q)'
    BY <1>3, <1>t DEF Staging, Ahead, Numbered
  <2> QED
    BY <1>1, <1>3, <2>1
<1>4. ASSUME NEW c \in Commands[p], Begin(p, c) PROVE Staging'
  <2>1. First(c) \notin Numbered
    BY ParameterAssumption, Fields DEF First, Numbered, Typed, Values
  <2> QED
    BY <1>3, <1>4, <1>t, <2>1 DEF Begin
<1>5. CASE \/ Promote(p) \/ IntentOpen(p) \/ IntentWrite(p) \/ RenderLoad(p)
           \/ RenderCreate(p) \/ Verify(p) \/ Grant(p) \/ Receipt(p) \/ SessionLost(p)
  BY <1>2, <1>3, <1>5, <1>t, <1>w
  DEF Promote, IntentOpen, IntentWrite, RenderLoad, RenderCreate, Verify, Grant, Receipt,
      SessionLost, AfterFailure, Numbered, Where
<1>6. CASE Refuse(p) \/ Stop(p)
  BY <1>2, <1>3, <1>6, <1>t DEF Refuse, Stop, Numbered
<1>7. CASE Copy(p) \/ Ask(p)
  <2>1. /\ ops' = ops + 1 /\ ops' \in Ops /\ UNCHANGED <<stage, entered, scripts, cmd>>
        /\ op' = [op EXCEPT ![p] = ops']
        /\ pc' = [pc EXCEPT ![p] = IF pc[p] = "copy" THEN "prepare" ELSE "run"]
        /\ pc[p] \in {"copy", "ask"}
    BY <1>7, ParameterAssumption DEF Copy, Ask, Typed, Values, Ops
  <2>2. stage[ops'] = "none" /\ \A x \in scripts : x.op # ops'
    BY <1>t, <2>1 DEF Staging, Stages
  <2>3. pc[p] = "ask" <=> cmd[p].kind = "rollback"
    BY <1>t, <1>w, <2>1, Fields, Nobody DEF Where
  <2>4. Ahead(p)'
    BY <1>t, <2>1, <2>2, <2>3 DEF Ahead
  <2>5. ASSUME NEW q \in Procs, q # p PROVE Ahead(q)'
    BY <1>t, <2>1, <2>5 DEF Staging, Ahead
  <2>6. Stages'
    BY <1>t, <2>1 DEF Staging, Stages
  <2> QED
    BY <2>1, <2>4, <2>5, <2>6 DEF Staging, Inside
<1>8. CASE Prepare(p) \/ Transfer(p)
  <2>1. /\ UNCHANGED <<op, cmd, scripts, entered, ops>>
        /\ \/ /\ pc[p] = "prepare" /\ pc' = [pc EXCEPT ![p] = "transfer"]
              /\ stage' = [stage EXCEPT ![op[p]] = "made"]
           \/ /\ pc[p] = "transfer" /\ pc' = [pc EXCEPT ![p] = "grant"]
              /\ stage' = [stage EXCEPT ![op[p]] = "sent"]
    BY <1>8, <1>t DEF Prepare, Transfer
  <2>2. op[p] \in 1..ops /\ op[p] \in Ops /\ pc[p] \in Numbered
    BY <1>t, <1>w, <2>1 DEF Where, Numbered
  <2>3. \A x \in scripts : x.op # op[p] /\ stage'[x.op] = stage[x.op]
    BY <1>t, <2>1 DEF Staging, Ahead
  <2>4. Ahead(p)'
    BY <1>t, <2>1, <2>2, <2>3 DEF Ahead
  <2>5. ASSUME NEW q \in Procs, q # p PROVE Ahead(q)'
    <3>1. op[q] # op[p] /\ Ahead(q)
      BY <2>2, <2>5, Others DEF Staging
    <3>2. pc'[q] = pc[q] /\ op'[q] = op[q] /\ cmd'[q] = cmd[q] /\ UNCHANGED scripts
      BY <1>t, <2>1, <2>5
    <3>3. pc[q] \in Numbered => stage'[op[q]] = stage[op[q]]
      <4>1. pc[q] \in Numbered => op[q] \in Ops
        BY <1>t DEF Typed, Where
      <4> QED
        BY <1>t, <2>1, <2>2, <3>1, <4>1
    <3> QED
      BY <3>1, <3>2, <3>3 DEF Ahead, Numbered
  <2>6. Stages'
    BY <1>t, <2>1, <2>2 DEF Staging, Stages, Ahead
  <2> QED
    BY <2>1, <2>3, <2>4, <2>5, <2>6 DEF Staging, Inside
<1>9. CASE Run(p)
  <2>1. /\ UNCHANGED <<op, cmd, stage, entered, ops>>
        /\ pc[p] = "run" /\ pc' = [pc EXCEPT ![p] = "session"]
    BY <1>9 DEF Run
  <2>2. PICK y : /\ scripts' = scripts \cup {y} /\ y.op = op[p]
                 /\ y.at = IF cmd[p].kind = "rollback" THEN "rollback" ELSE "digests"
    BY <1>9, RunSends
  <2>3. pc[p] \in Numbered
    BY <2>1 DEF Numbered
  <2>4. Ahead(p)'
    BY <1>t, <2>1 DEF Staging, Ahead
  <2>5. ASSUME NEW q \in Procs, q # p PROVE Ahead(q)'
    BY <1>t, <2>1, <2>2, <2>3, <2>5, Others DEF Staging, Ahead
  <2>6. Inside'
    BY <2>1, <2>2 DEF Staging, Inside, Ahead, Inner
  <2> QED
    BY <2>1, <2>4, <2>5, <2>6 DEF Staging, Stages
<1>10. CASE Cleanup(p)
  <2>1. /\ UNCHANGED <<scripts, entered, ops>>
        /\ pc[p] = "cleanup" /\ pc' = [pc EXCEPT ![p] = "idle"]
        /\ stage' = IF stage[op[p]] = "none" THEN stage ELSE [stage EXCEPT ![op[p]] = "removed"]
        /\ cmd' = [cmd EXCEPT ![p] = NoCommand] /\ op' = [op EXCEPT ![p] = 0]
    BY <1>10 DEF Cleanup
  <2>2. op[p] \in 1..ops /\ op[p] \in Ops /\ pc[p] \in Numbered
    BY <1>t, <1>w, <2>1 DEF Where, Numbered
  <2>3. Ahead(p)'
    BY <1>t, <2>1 DEF Ahead
  <2>4. ASSUME NEW q \in Procs, q # p PROVE Ahead(q)'
    BY <1>t, <2>1, <2>2, <2>4, Others DEF Staging, Ahead
  <2>5. Stages'
    BY <1>t, <2>1, <2>2 DEF Staging, Stages
  <2>6. Inside'
    BY <1>t, <2>1, <2>2 DEF Staging, Inside
  <2> QED
    BY <2>3, <2>4, <2>5, <2>6 DEF Staging
<1> QED
  BY <1>4, <1>5, <1>6, <1>7, <1>8, <1>9, <1>10 DEF Cli

LEMMA StagingScript ==
  ASSUME Typed, Owned, Staging, NEW x \in scripts, Script(x) \/ ScriptDies(x)
  PROVE  Staging'
<1>s. /\ Telling(x)
      /\ Enters(x) \/ RollsBack(x) \/ IsOver(x) \/ \E to \in Steps : GoesOn(x, to)
  BY ScriptSteps
<1>t. /\ pc \in [Procs -> Places]
      /\ stage \in [Ops -> {"none", "made", "sent", "unpacked", "removed"}]
      /\ entered \in [Ops -> Nat] /\ ops \in Nat
      /\ \A y \in scripts : y.op \in 1..ops /\ y.op \in Ops
  BY DEF Typed, Values, Ops
<1>m. \A to : Moved(x, to).op = x.op /\ Moved(x, to).at = to
  BY MovedScript
\* An operation without a script is left alone, and keeps its place.
<1>1. /\ \A y \in scripts' : \E z \in scripts : y.op = z.op
      /\ \A o \in Ops : stage'[o] # stage[o] =>
           /\ o = x.op /\ stage[o] # "none" /\ stage'[o] # "none"
  <2>1. CASE Enters(x) BY <1>t, <1>m, <2>1 DEF Enters
  <2>2. CASE RollsBack(x) BY <2>2 DEF RollsBack
  <2>3. CASE IsOver(x) BY <1>t, <2>3 DEF IsOver, Staging, Inside
  <2>4. ASSUME NEW to \in Steps, GoesOn(x, to) PROVE <1>1!:
    BY <1>t, <1>m, <2>4 DEF GoesOn
  <2> QED
    BY <1>s, <2>1, <2>2, <2>3, <2>4
<1>2. ASSUME NEW p \in Procs PROVE Ahead(p)'
  <2>1. Ahead(p) /\ Where(p) /\ UNCHANGED <<cmd, op, ops>>
    BY <1>s DEF Staging, Typed, Telling
  <2>2. CASE pc'[p] = pc[p] /\ pc[p] \in Numbered
    <3>1. op[p] \in Ops
      BY <2>1, <2>2 DEF Where, Typed, Values, Ops
    <3> QED
      BY <1>1, <2>1, <2>2, <3>1 DEF Ahead
  <2>3. CASE pc[p] = "session" /\ pc'[p] \in {"receipt", "cleanup", "run"}
    <3>1. op[p] \in Ops
      BY <2>1, <2>3 DEF Where, Numbered, Typed, Values, Ops
    <3> QED
      BY <1>1, <2>1, <2>3, <3>1 DEF Ahead
  <2>4. CASE pc'[p] = pc[p] /\ pc[p] \notin Numbered
    BY <2>4 DEF Ahead, Numbered
  <2> QED
    BY <1>s, <1>t, <2>2, <2>3, <2>4 DEF Telling
<1>3. Stages' /\ Inside'
  <2>1. CASE Enters(x)
    BY <1>t, <1>m, <1>s, <2>1 DEF Enters, Telling, Staging, Stages, Inside, Inner
  <2>2. CASE RollsBack(x)
    BY <1>s, <2>2 DEF RollsBack, Telling, Staging, Stages, Inside
  <2>3. CASE IsOver(x)
    BY <1>t, <1>s, <2>3 DEF IsOver, Telling, Staging, Stages, Inside
  <2>4. ASSUME NEW to \in Steps, GoesOn(x, to) PROVE Stages' /\ Inside'
    <3>1. /\ x.at # "rollback" /\ to # "rollback"
          /\ to \in Inner <=> x.at \in Inner
          /\ UNCHANGED <<stage, entered, ops>>
          /\ scripts' = (scripts \ {x}) \cup {Moved(x, to)}
      BY <1>s, <2>4 DEF GoesOn, Telling, Inner
    <3> QED
      BY <1>t, <1>m, <3>1 DEF Staging, Stages, Inside
  <2> QED
    BY <1>s, <2>1, <2>2, <2>3, <2>4
<1> QED
  BY <1>2, <1>3 DEF Staging

LEMMA StagingNext == Typed /\ Owned /\ Staging /\ [Next]_vars => Staging'
<1> SUFFICES ASSUME Typed, Owned, Staging, [Next]_vars PROVE Staging'
  OBVIOUS
<1>1. CASE UNCHANGED vars
  BY <1>1 DEF vars, procs, remote, Staging, Stages, Ahead, Inside
<1>2. CASE Edit
  BY <1>2 DEF Edit, procs, remote, Staging, Stages, Ahead, Inside
<1> QED
  BY <1>1, <1>2, StagingCli, StagingScript DEF Next

-------------------------------------------------------------------------------
(* What is served.                                                         *)

\* What the workstation's steps make of the scripts, their stages and the
\* staged files, of the command itself and of the other terminals.
CliStep(p) ==
  /\ \A x \in scripts' :
       x \in scripts \/ (Run(p) /\ x.at \in {"digests", "rollback"} /\ x.op = op[p])
  /\ \A x \in scripts : Acts(x)' => Acts(x)
  /\ \A o \in 1..ops : staged'[o] = staged[o]
  /\ \A o \in Ops : stage'[o] # stage[o] => o = op[p] /\ pc[p] \in Numbered
  /\ node' \in {node, [node EXCEPT !.reader = TRUE]}
  /\ pc' = [pc EXCEPT ![p] = pc'[p]] /\ pc'[p] # "receipt"
  /\ receipts' = receipts \/ (Working(p) /\ pc'[p] = "cleanup")
  /\ \A q \in Procs \ {p} : op'[q] = op[q] /\ cmd'[q] = cmd[q] /\ read'[q] = read[q]
  /\ \/ \E c \in Commands[p] : OnNode(c) /\ Begin(p, c)
     \/ /\ Working(p)' => /\ Working(p) /\ cmd'[p] = cmd[p] /\ op[p] \in {op'[p], 0}
                          /\ pc[p] # "cleanup"
        /\ UNCHANGED overlap

LEMMA CliSteps ==
  ASSUME Typed, Staging, NEW p \in Procs,
         Cli(p) \/ SessionLost(p) \/ Stop(p) \/ \E c \in Commands[p] : Begin(p, c)
  PROVE  CliStep(p)
<1>t. /\ stage \in [Ops -> {"none", "made", "sent", "unpacked", "removed"}]
      /\ staged \in [Ops -> Payload \cup {None}]
      /\ op \in [Procs -> 0..MaxOps] /\ pc \in [Procs -> Places]
      /\ cmd \in [Procs -> Command \cup {NoCommand}] /\ read \in [Procs -> Config \cup {None}]
      /\ \A x \in scripts : x.op \in Ops
      /\ ops \in Nat /\ 1..ops \subseteq Ops
  BY ParameterAssumption DEF Typed, Values, Ops
<1>w. Where(p)
  BY DEF Typed
<1> USE DEF At, Goto, Moves, Ends, procs, remote
<1>a. /\ pc' = [pc EXCEPT ![p] = pc'[p]] /\ pc'[p] # "receipt"
      /\ \A q \in Procs \ {p} : op'[q] = op[q] /\ cmd'[q] = cmd[q] /\ read'[q] = read[q]
  <2>1. ASSUME NEW c \in Commands[p], Begin(p, c) PROVE <1>a!:
    <3>1. First(c) # "receipt"
      BY ParameterAssumption, Fields DEF First, Typed, Values
    <3> QED
      BY <2>1, <3>1, <1>t DEF Begin
  <2>2. CASE Promote(p) \/ IntentOpen(p) \/ IntentWrite(p) \/ RenderLoad(p) \/ RenderCreate(p)
             \/ Verify(p) \/ Copy(p) \/ Prepare(p) \/ Transfer(p) \/ Grant(p)
    BY <2>2, <1>t
    DEF Promote, IntentOpen, IntentWrite, RenderLoad, RenderCreate, Verify, Copy, Prepare,
        Transfer, Grant
  <2>3. CASE Ask(p) \/ Run(p) \/ Receipt(p) \/ Cleanup(p) \/ Refuse(p) \/ SessionLost(p)
             \/ Stop(p)
    BY <2>3, <1>t DEF Ask, Run, Receipt, Cleanup, Refuse, SessionLost, AfterFailure, Stop
  <2> QED
    BY <2>1, <2>2, <2>3 DEF Cli
<1>b. \/ \E c \in Commands[p] : OnNode(c) /\ Begin(p, c)
      \/ /\ Working(p)' => /\ Working(p) /\ cmd'[p] = cmd[p] /\ op[p] \in {op'[p], 0}
                           /\ pc[p] # "cleanup"
         /\ UNCHANGED overlap
  <2>1. CASE pc[p] # "cleanup" /\ UNCHANGED <<cmd, op, overlap>>
    BY <2>1 DEF Working
  <2>2. CASE cmd' = [cmd EXCEPT ![p] = NoCommand] /\ UNCHANGED overlap
    BY <1>t, <2>2, Nobody DEF Working
  <2>3. ASSUME NEW c \in Commands[p], Begin(p, c) PROVE <1>b!:
    BY <1>t, <2>3 DEF Begin, Working
  <2>4. CASE Copy(p) \/ Ask(p)
    BY <1>t, <1>w, <2>4 DEF Copy, Ask, Where, Numbered, Working
  <2>5. CASE Promote(p) \/ IntentOpen(p) \/ IntentWrite(p) \/ RenderLoad(p) \/ RenderCreate(p)
             \/ Verify(p) \/ Prepare(p) \/ Transfer(p) \/ Grant(p) \/ Run(p)
    BY <2>1, <2>2, <2>5
    DEF Promote, IntentOpen, IntentWrite, RenderLoad, RenderCreate, Verify, Prepare, Transfer,
        Grant, Run
  <2>6. CASE Receipt(p) \/ Cleanup(p) \/ Refuse(p) \/ SessionLost(p) \/ Stop(p)
    BY <2>1, <2>2, <2>6 DEF Receipt, Cleanup, Refuse, SessionLost, Stop
  <2> QED
    BY <2>3, <2>4, <2>5, <2>6 DEF Cli
<1>c. receipts' = receipts \/ (Working(p) /\ pc'[p] = "cleanup")
  <2>1. CASE Receipt(p)
    BY <1>t, <1>w, <2>1 DEF Receipt, Where
  <2> QED
    BY <2>1
    DEF Cli, Promote, IntentOpen, IntentWrite, RenderLoad, RenderCreate, Verify, Copy, Prepare,
        Transfer, Grant, Ask, Run, Cleanup, Refuse, SessionLost, Stop, Begin, local
<1>2. CASE Copy(p) \/ Ask(p)
  <2>1. /\ ops' = ops + 1 /\ UNCHANGED <<scripts, stage, node>>
        /\ \E v : staged' = [staged EXCEPT ![ops'] = v]
    BY <1>2 DEF Copy, Ask
  <2>2. \A o \in 1..ops : staged'[o] = staged[o]
    BY <1>t, <2>1
  <2> QED
    BY <1>a, <1>b, <1>c, <2>1, <2>2 DEF CliStep, Acts
<1>3. CASE Prepare(p) \/ Transfer(p)
  <2>1. \A x \in scripts : stage'[x.op] = stage[x.op]
    BY <1>3, <1>t DEF Prepare, Transfer, Staging, Ahead
  <2> QED
    BY <1>3, <1>a, <1>b, <1>c, <1>t, <2>1 DEF Prepare, Transfer, CliStep, Acts, Numbered
<1>4. CASE Grant(p) BY <1>4, <1>a, <1>b, <1>c DEF Grant, CliStep, Acts
<1>5. CASE Run(p)
  <2>1. UNCHANGED <<stage, staged, node>>
    BY <1>5 DEF Run
  <2>2. \A x \in scripts' : x \in scripts \/ (x.at \in {"digests", "rollback"} /\ x.op = op[p])
    BY <1>5, RunSends
  <2> QED
    BY <1>5, <1>a, <1>b, <1>c, <2>1, <2>2 DEF CliStep, Acts
<1>6. CASE Cleanup(p)
  <2>1. UNCHANGED <<scripts, node, staged>> /\ \A x \in scripts : Acts(x)' => Acts(x)
    BY <1>6, <1>t DEF Cleanup, Acts
  <2>2. pc[p] \in Numbered /\ \A o \in Ops : stage'[o] # stage[o] => o = op[p]
    BY <1>6, <1>t DEF Cleanup, Numbered
  <2> QED
    BY <1>a, <1>b, <1>c, <2>1, <2>2 DEF CliStep
<1>7. CASE UNCHANGED <<scripts, stage, node, staged>>
  BY <1>a, <1>b, <1>c, <1>7 DEF CliStep, Acts
<1> QED
  BY <1>2, <1>3, <1>4, <1>5, <1>6, <1>7
  DEF Cli, Promote, IntentOpen, IntentWrite, RenderLoad, RenderCreate, Verify, Receipt,
      Refuse, SessionLost, Stop, Begin

\* A command that is begun over nothing starts with a node that nobody works
\* on, whatever went before.
LEMMA UndisturbedBegin ==
  ASSUME Typed, Staging, NEW p \in Procs, NEW c \in Commands[p], OnNode(c), Begin(p, c), ~overlap'
  PROVE  Undisturbed'
<1>t. /\ pc \in [Procs -> Places] /\ cmd \in [Procs -> Command \cup {NoCommand}]
      /\ c \in Command
  BY ParameterAssumption DEF Typed, Values
<1>1. /\ \A q \in Procs : ~Working(q)
      /\ \A x \in scripts : ~Acts(x)
  BY DEF Begin, Busy, Working
<1>2. /\ UNCHANGED <<scripts, stage, receipts>>
      /\ cmd' = [cmd EXCEPT ![p] = c] /\ pc' = [pc EXCEPT ![p] = First(c)]
  BY DEF Begin, Goto, remote, local
<1>3. /\ \A q \in Procs : Working(q)' => q = p
      /\ \A x \in scripts' : ~Acts(x)'
  BY <1>1, <1>2, <1>t DEF Working, Acts
<1>4. Alone'
  BY <1>3 DEF Alone
<1>5. First(c) # "receipt" /\ \A q \in Procs : pc[q] # "receipt"
  BY <1>1, <1>t, Fields DEF First, Typed, Where
<1>6. Serving'
  BY <1>2, <1>3, <1>5, <1>t DEF Serving
<1>7. Fresh'
  <2>1. receipts[c.path] = None
    BY DEF Begin, Accepted
  <2> QED
    BY <1>2, <1>3, <1>t, <2>1 DEF Fresh
<1> QED
  BY <1>4, <1>6, <1>7 DEF Undisturbed

LEMMA UndisturbedCli ==
  ASSUME Typed, Owned, Staging, Undisturbed, NEW p \in Procs, ~overlap',
         Cli(p) \/ SessionLost(p) \/ Stop(p) \/ \E c \in Commands[p] : Begin(p, c)
  PROVE  Undisturbed'
<1>c. CliStep(p)
  BY CliSteps
<1>1. CASE \E c \in Commands[p] : OnNode(c) /\ Begin(p, c)
  BY <1>1, UndisturbedBegin
<1>2. CASE ~\E c \in Commands[p] : OnNode(c) /\ Begin(p, c)
  <2>t. /\ pc \in [Procs -> Places]
        /\ node \in [current : Payload \cup {None}, up : Payload \cup {None},
                     kept : SUBSET Payload, reader : BOOLEAN]
        /\ \A y \in scripts : y.op \in 1..ops /\ y.op \in Ops /\ staged[y.op] # None
        /\ \A y \in scripts : y.op # 0
    BY ParameterAssumption DEF Typed, Values
  <2>w. \A q \in Procs : Working(q)' =>
          Working(q) /\ cmd'[q] = cmd[q] /\ op[q] \in {op'[q], 0}
    BY <1>2, <1>c DEF CliStep, Working
  <2>a. \A x \in scripts' : Acts(x)' => (x \in scripts /\ Acts(x)) \/ (Run(p) /\ x.op = op[p])
    BY <1>c DEF CliStep
  <2>r. Run(p) => Working(p) /\ pc[p] = "run"
    BY DEF Run, At, Typed, Where
  <2>1. Alone'
    <3>1. ASSUME NEW q \in Procs, NEW r \in Procs, Working(q)', Working(r)' PROVE q = r
      BY <2>w, <3>1 DEF Undisturbed, Alone
    <3>2. ASSUME NEW x \in scripts', NEW y \in scripts', Acts(x)', Acts(y)' PROVE x.op = y.op
      BY <2>a, <2>r, <3>2 DEF Undisturbed, Alone
    <3>3. ASSUME NEW q \in Procs, NEW x \in scripts', Working(q)', Acts(x)'
          PROVE  x.op = op'[q]
      <4>1. CASE x \in scripts /\ Acts(x)
        BY <2>t, <2>w, <3>3, <4>1 DEF Undisturbed, Alone
      <4>2. CASE Run(p) /\ x.op = op[p]
        <5>1. q = p
          BY <2>r, <2>w, <3>3, <4>2 DEF Undisturbed, Alone
        <5>2. UNCHANGED op
          BY <4>2 DEF Run
        <5> QED
          BY <4>2, <5>1, <5>2
      <4> QED
        BY <2>a, <3>3, <4>1, <4>2
    <3> QED
      BY <3>1, <3>2, <3>3 DEF Alone
  <2>2. node'.up = node.up /\ node'.current = node.current
    BY <2>t, <1>c DEF CliStep
  <2>3. ASSUME NEW x \in scripts', Acts(x)' PROVE Serves(x)'
    <3>1. CASE x \in scripts
      <4>1. Serves(x) /\ staged'[x.op] = staged[x.op]
        BY <1>c, <2>t, <2>3, <3>1 DEF CliStep, Undisturbed, Serving
      <4> QED
        BY <2>2, <4>1 DEF Serves
    <3>2. CASE x.at \in {"digests", "rollback"}
      BY <3>2 DEF Serves
    <3> QED
      BY <1>c, <3>1, <3>2 DEF CliStep
  <2>4. ASSUME NEW q \in Procs, pc'[q] = "receipt" PROVE Reports(q)'
    <3>1. q # p /\ pc[q] = "receipt" /\ op'[q] = op[q] /\ Reports(q)
      BY <1>c, <2>t, <2>4 DEF CliStep, Undisturbed, Serving
    <3>2. op[q] \in 1..ops /\ op[q] \in Ops
      BY <3>1, ParameterAssumption DEF Typed, Values, Where, Numbered, Ops
    <3>3. staged'[op[q]] = staged[op[q]] /\ stage'[op[q]] = stage[op[q]]
      BY <1>c, <3>1, <3>2, Others DEF CliStep
    <3>4. \A x \in scripts' : x \in scripts \/ x.at \notin Inner
      BY <1>c DEF CliStep, Inner
    <3> QED
      BY <2>2, <3>1, <3>3, <3>4 DEF Reports
  <2>5. Fresh'
    <3>1. ASSUME NEW q \in Procs, Working(q)', pc'[q] # "cleanup"
          PROVE  receipts'[cmd'[q].path] = None
      <4>1. Working(q) /\ cmd'[q] = cmd[q]
        BY <2>w, <3>1
      <4>2. pc[q] # "cleanup"
        <5>1. CASE q = p
          BY <1>2, <1>c, <3>1, <5>1 DEF CliStep
        <5>2. CASE q # p
          BY <1>c, <2>t, <3>1, <5>2 DEF CliStep
        <5> QED
          BY <5>1, <5>2
      <4>3. receipts' = receipts
        BY <1>c, <3>1, <4>1 DEF CliStep, Undisturbed, Alone
      <4> QED
        BY <4>1, <4>2, <4>3 DEF Undisturbed, Fresh
    <3> QED
      BY <3>1 DEF Fresh
  <2> QED
    BY <2>1, <2>3, <2>4, <2>5 DEF Undisturbed, Serving
<1> QED
  BY <1>1, <1>2

LEMMA UndisturbedScript ==
  ASSUME Typed, Staging, Undisturbed, NEW x \in scripts, Script(x) \/ ScriptDies(x)
  PROVE  Undisturbed'
<1>s. /\ Telling(x)
      /\ Enters(x) \/ RollsBack(x) \/ IsOver(x) \/ \E to \in Steps : GoesOn(x, to)
  BY ScriptSteps
<1>t. /\ pc \in [Procs -> Places]
      /\ stage \in [Ops -> {"none", "made", "sent", "unpacked", "removed"}]
      /\ node \in [current : Payload \cup {None}, up : Payload \cup {None},
                   kept : SUBSET Payload, reader : BOOLEAN]
      /\ \A y \in scripts : y.op \in 1..ops /\ y.op \in Ops /\ staged[y.op] # None
  BY DEF Typed, Values
<1>m. \A to : Moved(x, to).op = x.op /\ Moved(x, to).at = to
  BY MovedScript
<1>u. UNCHANGED <<cmd, op, staged, ops, receipts>>
  BY <1>s DEF Telling, local
\* Whatever still acts did so before.
<1>a. \A y \in scripts' : Acts(y)' =>
        \/ y \in scripts /\ Acts(y)
        \/ /\ Acts(x) /\ y.op = x.op
           /\ \E to \in Steps : /\ y = Moved(x, to)
                               /\ \/ GoesOn(x, to)
                                  \/ Enters(x) /\ to = "existing"
  <2>1. CASE Enters(x)
    <3>1. Acts(x)
      BY <2>1 DEF Enters, Acts
    <3>2. "existing" \in Steps
      BY DEF Steps, Inner
    <3>3. \A y \in scripts : Acts(y)' => Acts(y)
      BY <1>t, <2>1 DEF Enters, Acts
    <3> QED
      BY <1>m, <2>1, <3>1, <3>2, <3>3 DEF Enters
  <2>2. CASE RollsBack(x)
    BY <2>2 DEF RollsBack, Acts
  <2>3. CASE IsOver(x)
    BY <1>t, <2>3 DEF IsOver, Acts
  <2>4. ASSUME NEW to \in Steps, GoesOn(x, to) PROVE <1>a!:
    <3>1. \A y \in scripts : Acts(y)' => Acts(y)
      BY <2>4 DEF GoesOn, Acts
    <3>2. Acts(x) /\ scripts' = (scripts \ {x}) \cup {Moved(x, to)}
      BY <2>4 DEF GoesOn
    <3> QED
      BY <1>m, <2>4, <3>1, <3>2
  <2> QED
    BY <1>s, <2>1, <2>2, <2>3, <2>4
<1>1. Alone'
  <2>1. \A y \in scripts' : Acts(y)' => \E z \in scripts : Acts(z) /\ y.op = z.op
    BY <1>a
  <2>2. \A p \in Procs : Working(p)' <=> Working(p)
    BY <1>u DEF Working
  <2> QED
    BY <1>u, <2>1, <2>2 DEF Undisturbed, Alone
<1>2. Fresh'
  <2>1. \A p \in Procs : pc[p] = "cleanup" => pc'[p] = "cleanup"
    BY <1>s, <1>t DEF Telling
  <2> QED
    BY <1>u, <2>1 DEF Undisturbed, Fresh, Working
\* No script acts on while a receipt is to be written, but a rollback.
<1>3. ASSUME NEW q \in Procs, pc[q] = "receipt", Acts(x)
      PROVE  x.op = op[q] /\ x.at = "rollback"
  <2>1. Working(q) /\ x.op = op[q]
    BY <1>3 DEF Typed, Where, Undisturbed, Alone
  <2>2. x.at \notin Inner /\ stage[x.op] \in {"none", "removed"}
    BY <1>3, <2>1 DEF Undisturbed, Serving, Reports
  <2> QED
    BY <1>3, <2>1, <2>2 DEF Acts, Running, Staging, Inside, Inner
<1>4. Serving'
  <2>1. CASE Enters(x)
    <3>1. Acts(x) /\ UNCHANGED node
      BY <2>1 DEF Enters, Acts
    <3>2. \A q \in Procs : pc'[q] # "receipt"
      BY <1>3, <1>t, <2>1, <3>1, <1>s DEF Enters, Telling
    <3>3. ASSUME NEW y \in scripts', Acts(y)' PROVE Serves(y)'
      <4>1. CASE y \in scripts /\ Acts(y)
        BY <1>u, <3>1, <4>1 DEF Undisturbed, Serving, Serves
      <4>2. CASE y = Moved(x, "existing")
        BY <1>m, <4>2 DEF Serves
      <4>3. \A to \in Steps : ~GoesOn(x, to)
        BY <2>1 DEF Enters, GoesOn
      <4> QED
        BY <1>a, <3>3, <4>1, <4>2, <4>3
    <3> QED
      BY <3>2, <3>3 DEF Serving
  <2>2. CASE RollsBack(x)
    <3>1. stage[x.op] = "none" /\ Acts(x) /\ UNCHANGED stage /\ scripts' = scripts \ {x}
      BY <2>2 DEF RollsBack, Staging, Inside, Acts
    <3>2. node'.up = staged[x.op]
      BY <1>t, <2>2 DEF RollsBack
    <3>3. \A y \in scripts : y.op = x.op => y.at = "rollback"
      BY <3>1 DEF Staging, Inside
    <3>4. ASSUME NEW y \in scripts', Acts(y)' PROVE Serves(y)'
      <4>1. y \in scripts /\ Acts(y)
        BY <3>1, <3>4 DEF Acts
      <4>2. y.at = "rollback"
        BY <3>1, <3>3, <4>1 DEF Undisturbed, Alone
      <4> QED
        BY <4>2 DEF Serves
    <3>5. ASSUME NEW q \in Procs, pc'[q] = "receipt" PROVE Reports(q)'
      <4>1. op[q] = x.op
        BY <1>3, <1>s, <1>t, <3>1, <3>5 DEF Telling
      <4> QED
        BY <1>u, <3>1, <3>2, <3>3, <4>1 DEF Reports, Inner
    <3> QED
      BY <3>4, <3>5 DEF Serving
  <2>3. CASE IsOver(x)
    <3>1. /\ UNCHANGED node /\ scripts' = scripts \ {x}
          /\ \A o \in Ops : stage'[o] = stage[o] \/ stage'[o] = "removed"
      BY <1>t, <2>3 DEF IsOver
    <3>2. ASSUME NEW y \in scripts', Acts(y)' PROVE Serves(y)'
      <4>1. y \in scripts /\ Acts(y)
        BY <1>t, <3>1, <3>2 DEF Acts
      <4> QED
        BY <1>u, <3>1, <4>1 DEF Undisturbed, Serving, Serves
    <3>3. ASSUME NEW q \in Procs, pc'[q] = "receipt" PROVE Reports(q)'
      <4>1. CASE pc[q] = "receipt"
        <5>1. op[q] \in Ops
          BY <4>1 DEF Typed, Values, Where, Numbered, Ops
        <5> QED
          BY <1>u, <3>1, <4>1, <5>1 DEF Undisturbed, Serving, Reports
      <4>2. CASE pc[q] # "receipt"
        <5>1. op[q] = x.op
          BY <1>s, <1>t, <3>3, <4>2 DEF Telling
        <5>2. CASE /\ x.at = "readiness" /\ Fenced(x)
                   /\ stage' = [stage EXCEPT ![x.op] = "removed"]
          <6>1. Acts(x)
            BY <5>2 DEF Fenced, Acts
          <6>2. node.up = staged[x.op] /\ stage'[x.op] = "removed"
            BY <1>t, <5>2, <6>1 DEF Undisturbed, Serving, Serves
          <6>3. \A y \in scripts' : y.op = x.op => y.at \notin Inner
            BY <3>1, <5>2 DEF Staging, Inside, Inner
          <6> QED
            BY <1>u, <3>1, <5>1, <6>2, <6>3 DEF Reports
        <5>3. CASE /\ x.at = "rollback" /\ UNCHANGED stage
                   /\ node' = [node EXCEPT !.current = staged[x.op], !.up = staged[x.op]]
          <6>1. node'.up = staged[x.op] /\ stage[x.op] = "none"
            BY <1>t, <5>3 DEF Staging, Inside
          <6>2. \A y \in scripts' : y.op = x.op => y.at \notin Inner
            BY <3>1, <6>1 DEF Staging, Inside, Inner
          <6> QED
            BY <1>u, <5>1, <5>3, <6>1, <6>2 DEF Reports
        <5> QED
          BY <1>s, <1>t, <3>3, <4>2, <5>2, <5>3 DEF Telling
      <4> QED
        BY <4>1, <4>2
    <3> QED
      BY <3>2, <3>3 DEF Serving
  <2>4. ASSUME NEW to \in Steps, GoesOn(x, to) PROVE Serving'
    <3>1. /\ Acts(x) /\ Serves(x) /\ UNCHANGED stage /\ x.at \notin {"rollback", "readiness"}
          /\ scripts' = (scripts \ {x}) \cup {Moved(x, to)}
      BY <2>4 DEF GoesOn, Undisturbed, Serving
    <3>2. \A q \in Procs : pc'[q] # "receipt"
      BY <1>3, <1>s, <1>t, <3>1 DEF Telling
    <3>3. ASSUME NEW y \in scripts, y # x, Acts(y)' PROVE Serves(y)'
      <4>1. Acts(y) /\ Serves(y)
        BY <3>1, <3>3 DEF Acts, Undisturbed, Serving
      <4>2. CASE UNCHANGED node
        BY <1>u, <4>1, <4>2 DEF Serves
      <4>3. CASE x.at \in Inner
        <5>1. y.at \notin Inner
          BY <3>1, <3>3, <4>1, <4>3 DEF Undisturbed, Alone, Staging, Inside
        <5> QED
          BY <5>1 DEF Serves, Inner
      <4> QED
        BY <2>4, <4>2, <4>3 DEF GoesOn, Inner
    <3>4. Serves(Moved(x, to))'
      <4>1. CASE x.at = "digests" \/ (x.at = "existing" /\ to = "stopping")
        BY <1>m, <2>4, <4>1 DEF GoesOn, Serves
      <4>2. CASE UNCHANGED node /\ x.at \in {"existing", "preflight", "secrets"} /\ to # "stopping"
        BY <1>m, <1>u, <2>4, <3>1, <4>2 DEF GoesOn, Serves
      <4>3. CASE x.at \in {"stopping", "down"}
        <5>1. node'.up = None /\ to \in {"down", "preflight"}
          BY <1>t, <2>4, <4>3 DEF GoesOn
        <5> QED
          BY <1>m, <5>1 DEF Serves
      <4>4. CASE x.at = "installing"
        <5>1. node'.up = None /\ node'.current = staged[x.op] /\ to = "secrets"
          BY <1>t, <2>4, <3>1, <4>4 DEF GoesOn, Serves
        <5> QED
          BY <1>m, <1>u, <5>1 DEF Serves
      <4>5. CASE x.at = "starting"
        <5>1. node'.up = staged[x.op] /\ node'.current = staged[x.op] /\ to = "readiness"
          BY <1>t, <2>4, <3>1, <4>5 DEF GoesOn, Serves
        <5> QED
          BY <1>m, <1>u, <5>1 DEF Serves
      <4> QED
        BY <2>4, <4>1, <4>2, <4>3, <4>4, <4>5 DEF GoesOn
    <3> QED
      BY <3>1, <3>2, <3>3, <3>4 DEF Serving
  <2> QED
    BY <1>s, <2>1, <2>2, <2>3, <2>4
<1> QED
  BY <1>1, <1>2, <1>4 DEF Undisturbed

\* Only the beginning of a command says anew whether there is another.
LEMMA UndisturbedNext ==
  ASSUME Typed, Owned, Staging, ~overlap => Undisturbed, [Next]_vars, ~overlap'
  PROVE  Undisturbed'
<1>1. CASE UNCHANGED vars \/ Edit
  <2>1. UNCHANGED <<procs, remote, receipts, overlap>>
    BY <1>1 DEF Edit, vars, local
  <2> QED
    BY <2>1 DEF procs, remote, Undisturbed, Alone, Working, Acts, Running, Serving, Serves,
                Reports, Fresh
<1>2. ASSUME NEW p \in Procs,
             Cli(p) \/ SessionLost(p) \/ Stop(p) \/ \E c \in Commands[p] : Begin(p, c)
      PROVE Undisturbed'
  <2>1. CASE ~overlap
    BY <1>2, <2>1, UndisturbedCli
  <2>2. CASE overlap
    BY <1>2, <2>2, CliSteps, UndisturbedBegin DEF CliStep
  <2> QED
    BY <2>1, <2>2
<1>3. ASSUME NEW x \in scripts, Script(x) \/ ScriptDies(x) PROVE Undisturbed'
  <2>1. UNCHANGED overlap
    BY <1>3, ScriptSteps DEF Telling
  <2> QED
    BY <1>3, <2>1, UndisturbedScript
<1> QED
  BY <1>1, <1>2, <1>3 DEF Next

-------------------------------------------------------------------------------
(* What is installed.                                                      *)

LEMMA CheckedCli ==
  ASSUME Typed, Owned, Staging, Checked, NEW p \in Procs,
         Cli(p) \/ SessionLost(p) \/ Stop(p) \/ \E c \in Commands[p] : Begin(p, c)
  PROVE  Checked'
<1>c. CliStep(p)
  BY CliSteps
<1>t. /\ pc \in [Procs -> Places] /\ cmd \in [Procs -> Command \cup {NoCommand}]
      /\ op \in [Procs -> 0..MaxOps] /\ read \in [Procs -> Config \cup {None}]
      /\ dirs \in [Releases -> {"absent", "whole", "changed"}]
      /\ files \in [Files -> Config \cup {None}]
      /\ staged \in [Ops -> Payload \cup {None}]
      /\ node \in [current : Payload \cup {None}, up : Payload \cup {None},
                   kept : SUBSET Payload, reader : BOOLEAN]
  BY DEF Typed, Values
<1>w. Where(p) /\ Checks(p) /\ (pc[p] # "idle" => cmd[p] \in Command)
  BY <1>t DEF Typed, Checked, Where
<1>1. node'.kept = node.kept /\ node'.current = node.current /\ node'.up = node.up
  BY <1>c, <1>t DEF CliStep
<1>2. OnlyVerified'
  BY <1>1 DEF OnlyVerified, Checked
<1> USE DEF At, Goto, Moves, Ends, procs, remote
<1>3. \A r \in Releases : dirs'[r] # "absent" => r \in Admissible
  <2>1. CASE Promote(p)
    BY <2>1, <1>t, <1>w DEF Promote, Checks, Checked
  <2>2. CASE UNCHANGED dirs
    BY <2>2 DEF Checked
  <2> QED
    BY <2>1, <2>2
    DEF Cli, IntentOpen, IntentWrite, RenderLoad, RenderCreate, Verify, Copy, Prepare,
        Transfer, Grant, Ask, Run, Receipt, Cleanup, Refuse, SessionLost, Stop, Begin, local
<1>4. ASSUME NEW q \in Procs, q # p PROVE Checks(q)'
  <2>1. /\ pc'[q] = pc[q] /\ cmd'[q] = cmd[q] /\ op'[q] = op[q] /\ read'[q] = read[q]
        /\ pc[q] \in Numbered => staged'[op[q]] = staged[op[q]]
    BY <1>4, <1>c, <1>t DEF CliStep, Typed, Where
  <2> QED
    BY <1>1, <2>1 DEF Checked, Checks, Numbered
<1>5. ASSUME NEW x \in scripts' PROVE Wanted(x)'
  <2>1. CASE x \in scripts
    BY <1>1, <1>c, <2>1 DEF CliStep, Checked, Wanted, Typed
  <2>2. CASE x \notin scripts /\ Run(p)
    <3>1. PICK y : /\ scripts' = scripts \cup {y} /\ y.op = op[p]
                   /\ y.at = IF cmd[p].kind = "rollback" THEN "rollback" ELSE "digests"
                   /\ y.want = IF cmd[p].kind = "rollback" THEN staged[op[p]]
                               ELSE [bundle |-> cmd[p].release, config |-> read[p]]
      BY <2>2, RunSends
    <3>2. x = y /\ pc[p] = "run" /\ UNCHANGED staged
      BY <2>2, <3>1 DEF Run
    <3> QED
      BY <1>1, <1>w, <3>1, <3>2 DEF Wanted, Checks, Inner, Validated
  <2> QED
    BY <1>c, <2>1, <2>2 DEF CliStep
<1>6. Checks(p)'
  <2> USE DEF Checks
  <2>1. ASSUME NEW c \in Commands[p], Begin(p, c) PROVE Checks(p)'
    <3>1. c \in Command
      BY ParameterAssumption
    <3>2. /\ First(c) \notin Validated
          /\ First(c) = "promote" => c.kind = "fetch"
      BY <3>1, Fields DEF First, Validated
    <3> QED
      BY <1>t, <2>1, <3>1, <3>2 DEF Begin, Accepted, Validated
  <2>2. CASE pc'[p] \notin Validated \cup {"promote"}
    BY <2>2 DEF Validated
  <2>3. CASE Verify(p)
    BY <1>t, <1>w, <2>3, Fields DEF Verify, Verified, Checked, Where, Validated
  <2>4. CASE Ask(p)
    <3>1. PICK v \in node.kept : staged' = [staged EXCEPT ![ops'] = v]
      BY <2>4 DEF Ask
    <3>2. /\ ops' \in Ops /\ op' = [op EXCEPT ![p] = ops'] /\ pc' = [pc EXCEPT ![p] = "run"]
          /\ UNCHANGED cmd /\ cmd[p].kind = "rollback"
      BY <1>w, <2>4, ParameterAssumption DEF Ask, Ops, Typed, Values, Where
    <3> QED
      BY <1>1, <1>t, <3>1, <3>2
  <2>5. CASE pc[p] \in Validated /\ pc'[p] \in Validated /\ UNCHANGED <<cmd, read>>
             /\ (pc[p] \in {"run", "session"} => UNCHANGED <<op, staged>>)
             /\ (pc[p] \notin {"run", "session"} => cmd[p].kind # "rollback")
    BY <1>1, <1>w, <2>5, <1>c, <1>t DEF CliStep, Validated
  <2>6. CASE Copy(p) \/ Prepare(p) \/ Transfer(p) \/ Grant(p)
    BY <1>t, <1>w, <2>2, <2>5, <2>6
    DEF Copy, Prepare, Transfer, Grant, Where, Validated
  <2>7. CASE Run(p) \/ SessionLost(p)
    BY <1>t, <2>2, <2>5, <2>7 DEF Run, SessionLost, AfterFailure, Validated
  <2>8. CASE \/ Promote(p) \/ IntentOpen(p) \/ IntentWrite(p) \/ RenderLoad(p)
             \/ Receipt(p) \/ Cleanup(p) \/ Refuse(p) \/ Stop(p) \/ RenderCreate(p)
    BY <1>t, <2>2, <2>8
    DEF Promote, IntentOpen, IntentWrite, RenderLoad, RenderCreate, Receipt, Cleanup, Refuse,
        Stop, Validated
  <2> QED
    BY <2>1, <2>3, <2>4, <2>6, <2>7, <2>8 DEF Cli
<1> QED
  BY <1>2, <1>3, <1>4, <1>5, <1>6 DEF Checked

LEMMA CheckedScript ==
  ASSUME Typed, Staging, Checked, NEW x \in scripts, Script(x) \/ ScriptDies(x)
  PROVE  Checked'
<1>s. /\ Telling(x)
      /\ Enters(x) \/ RollsBack(x) \/ IsOver(x) \/ \E to \in Steps : GoesOn(x, to)
  BY ScriptSteps
<1>m. \A to : /\ Moved(x, to).op = x.op /\ Moved(x, to).at = to
              /\ Moved(x, to).want = x.want
  BY MovedScript
<1>u. UNCHANGED <<dirs, cmd, op, read, staged>>
  BY <1>s DEF Telling, local
<1>t. /\ pc \in [Procs -> Places] /\ staged[x.op] # None
      /\ node \in [current : Payload \cup {None}, up : Payload \cup {None},
                   kept : SUBSET Payload, reader : BOOLEAN]
  BY DEF Typed, Values
<1>w. Wanted(x) /\ OnlyVerified
  BY DEF Checked
<1>1. node.kept \subseteq node'.kept /\ OnlyVerified'
  <2>1. CASE UNCHANGED node
    BY <1>w, <2>1 DEF OnlyVerified
  <2>2. CASE RollsBack(x)
    <3>1. /\ node'.kept = node.kept /\ node'.current = staged[x.op]
          /\ staged[x.op] \in node.kept
      BY <1>t, <1>w, <2>2 DEF RollsBack, Wanted
    <3> QED
      BY <1>w, <3>1 DEF OnlyVerified
  <2>3. ASSUME NEW to \in Steps, GoesOn(x, to) PROVE <1>1!:
    <3>1. CASE x.at = "installing"
      <4>1. node' = [node EXCEPT !.current = staged[x.op], !.kept = @ \cup {staged[x.op]}]
        BY <2>3, <3>1 DEF GoesOn
      <4>2. /\ node'.current = staged[x.op] /\ node'.kept = node.kept \cup {staged[x.op]}
        BY <1>t, <4>1
      <4>3. staged[x.op].bundle \in Admissible /\ staged[x.op].bundle = staged[x.op].config.release
        BY <1>w, <3>1 DEF Wanted, Inner
      <4> QED
        BY <1>w, <4>2, <4>3 DEF OnlyVerified
    <3>2. CASE x.at \in {"stopping", "down", "starting"}
      <4>1. node'.kept = node.kept /\ node'.current = node.current
        BY <1>t, <2>3, <3>2 DEF GoesOn
      <4> QED
        BY <1>w, <4>1 DEF OnlyVerified
    <3>3. CASE x.at \in {"digests", "existing", "preflight", "secrets"}
      BY <2>1, <2>3, <3>3 DEF GoesOn
    <3> QED
      BY <2>3, <3>1, <3>2, <3>3 DEF GoesOn
  <2> QED
    BY <1>s, <2>1, <2>2, <2>3 DEF Enters, IsOver
<1>2. ASSUME NEW p \in Procs PROVE Checks(p)'
  <2>1. \/ pc'[p] = pc[p] \/ pc'[p] \notin Validated \cup {"promote"}
        \/ pc[p] = "session" /\ pc'[p] = "run"
    BY <1>s, <1>t DEF Telling, Validated
  <2>2. Checks(p)
    BY DEF Checked
  <2> QED
    BY <1>1, <1>u, <2>1, <2>2 DEF Checks, Validated
<1>3. ASSUME NEW y \in scripts' PROVE Wanted(y)'
  <2>1. CASE y \in scripts
    BY <1>1, <1>u, <2>1 DEF Checked, Wanted
  <2>2. CASE y = Moved(x, "existing") /\ Enters(x)
    BY <1>m, <1>u, <1>w, <2>2 DEF Enters, Wanted
  <2>3. ASSUME NEW to \in Steps, GoesOn(x, to), y = Moved(x, to) PROVE Wanted(y)'
    <3>1. /\ x.at # "rollback" /\ to # "rollback"
          /\ x.at \in Inner \/ AsRead(x)
      BY <2>3 DEF GoesOn, Inner
    <3> QED
      BY <1>m, <1>u, <1>w, <2>3, <3>1 DEF Wanted, AsRead
  <2> QED
    BY <1>s, <2>1, <2>2, <2>3 DEF Enters, GoesOn, RollsBack, IsOver
<1> QED
  BY <1>1, <1>2, <1>3, <1>u DEF Checked

LEMMA CheckedNext == Typed /\ Owned /\ Staging /\ Checked /\ [Next]_vars => Checked'
<1> SUFFICES ASSUME Typed, Owned, Staging, Checked, [Next]_vars PROVE Checked'
  OBVIOUS
<1>1. CASE UNCHANGED vars
  BY <1>1 DEF vars, local, procs, remote, Checked, Checks, Wanted, OnlyVerified
<1>2. CASE Edit
  BY <1>2 DEF Edit, procs, remote, Checked, Checks, Wanted, OnlyVerified, Typed, Values
<1> QED
  BY <1>1, <1>2, CheckedCli, CheckedScript DEF Next

-------------------------------------------------------------------------------
(* The licence.                                                            *)

LEMMA LicensedCli ==
  ASSUME Typed, Owned, Staging, Licensed, NEW p \in Procs,
         Cli(p) \/ SessionLost(p) \/ Stop(p) \/ \E c \in Commands[p] : Begin(p, c)
  PROVE  Licensed'
<1>c. CliStep(p)
  BY CliSteps
<1>t. /\ pc \in [Procs -> Places] /\ cmd \in [Procs -> Command \cup {NoCommand}]
      /\ op \in [Procs -> 0..MaxOps] /\ read \in [Procs -> Config \cup {None}]
      /\ files \in [Files -> Config \cup {None}]
      /\ staged \in [Ops -> Payload \cup {None}]
      /\ None \notin Config
  BY ParameterAssumption DEF Typed, Values
<1>w. Where(p) /\ Permits(p) /\ (pc[p] # "idle" => cmd[p] \in Command)
  BY <1>t DEF Typed, Licensed, Where
<1> USE DEF At, Goto, Moves, Ends, procs, remote
<1>1. UNCHANGED edits
  BY DEF Cli, Promote, IntentOpen, IntentWrite, RenderLoad, RenderCreate, Verify, Copy,
         Prepare, Transfer, Grant, Ask, Run, Receipt, Cleanup, Refuse, SessionLost, Stop, Begin
<1>2. \A f \in Files : files[f] # None => files'[f] = files[f]
  <2>1. CASE RenderCreate(p)
    BY <1>t, <2>1 DEF RenderCreate
  <2> QED
    BY <2>1
    DEF Cli, Promote, IntentOpen, IntentWrite, RenderLoad, Verify, Copy, Prepare, Transfer,
        Grant, Ask, Run, Receipt, Cleanup, Refuse, SessionLost, Stop, Begin, local
<1>3. UNCHANGED intent \/ intent' # "plain"
  BY DEF Cli, Promote, IntentOpen, IntentWrite, RenderLoad, RenderCreate, Verify, Copy,
         Prepare, Transfer, Grant, Ask, Run, Receipt, Cleanup, Refuse, SessionLost, Stop,
         Begin, local
<1>4. ASSUME NEW q \in Procs, q # p PROVE Permits(q)'
  <2>1. /\ pc'[q] = pc[q] /\ cmd'[q] = cmd[q] /\ op'[q] = op[q] /\ read'[q] = read[q]
        /\ pc[q] \in Numbered => staged'[op[q]] = staged[op[q]]
    BY <1>4, <1>c, <1>t DEF CliStep, Typed, Where
  <2>2. cmd[q].kind = "licence" => cmd[q].file \in Files
    BY <1>t, Fields, Nobody
  <2> QED
    BY <1>1, <1>2, <1>3, <2>1, <2>2 DEF Licensed, Permits, Numbered
<1>5. Permits(p)'
  <2> USE DEF Permits
  <2>1. CASE pc'[p] \notin Numbered \cup {"render", "create", "verify", "copy"}
    BY <2>1 DEF Numbered
  <2>2. ASSUME NEW c \in Commands[p], Begin(p, c) PROVE Permits(p)'
    <3>1. c \in Command
      BY ParameterAssumption
    <3>2. c.kind = "licence" => First(c) = "intent"
      BY <3>1, Fields DEF First
    <3> QED
      BY <1>t, <2>2, <3>1, <3>2 DEF Begin, Numbered
  <2>3. CASE IntentWrite(p)
    BY <1>t, <2>3 DEF IntentWrite, Numbered
  <2>4. CASE RenderLoad(p)
    BY <1>t, <1>w, <2>4 DEF RenderLoad, ConfigOf, Numbered, Typed, Values
  <2>5. CASE RenderCreate(p)
    BY <1>t, <1>w, <2>5, Fields, Nobody DEF RenderCreate, Where, Numbered
  <2>6. CASE Verify(p)
    BY <1>1, <1>t, <1>w, <2>6 DEF Verify, Numbered, local
  <2>7. CASE Copy(p)
    <3>1. /\ ops' \in Ops /\ op' = [op EXCEPT ![p] = ops'] /\ UNCHANGED cmd
          /\ pc' = [pc EXCEPT ![p] = "prepare"] /\ pc[p] = "copy"
      BY <2>7, ParameterAssumption DEF Copy, Ops, Typed, Values
    <3>2. staged'[ops'].config = files[cmd[p].file]
      BY <1>t, <2>7, <3>1 DEF Copy
    <3> QED
      BY <1>1, <1>t, <1>w, <3>1, <3>2 DEF Numbered
  <2>8. CASE pc[p] \in Numbered /\ pc'[p] \in Numbered /\ UNCHANGED <<cmd, op, staged>>
    BY <1>1, <1>w, <2>8 DEF Numbered
  <2>9. CASE Ask(p)
    BY <1>t, <1>w, <2>9 DEF Ask, Where
  <2>10. CASE Prepare(p) \/ Transfer(p) \/ Grant(p) \/ Run(p) \/ Receipt(p) \/ SessionLost(p)
    BY <1>t, <2>8, <2>10
    DEF Prepare, Transfer, Grant, Run, Receipt, SessionLost, AfterFailure, Numbered
  <2>11. CASE Promote(p) \/ IntentOpen(p) \/ Cleanup(p) \/ Refuse(p) \/ Stop(p)
    BY <1>t, <2>1, <2>8, <2>11
    DEF Promote, IntentOpen, Cleanup, Refuse, Stop, Numbered
  <2> QED
    BY <2>2, <2>3, <2>4, <2>5, <2>6, <2>7, <2>9, <2>10, <2>11 DEF Cli
<1> QED
  BY <1>4, <1>5 DEF Licensed

LEMMA LicensedNext == Typed /\ Owned /\ Staging /\ Licensed /\ [Next]_vars => Licensed'
<1> SUFFICES ASSUME Typed, Owned, Staging, Licensed, [Next]_vars PROVE Licensed'
  OBVIOUS
<1>1. CASE UNCHANGED vars
  BY <1>1 DEF vars, local, procs, remote, Licensed, Permits
<1>2. CASE Edit
  <2>1. edits' # 0 /\ UNCHANGED <<intent, pc, cmd, op, read, staged>>
    BY <1>2 DEF Edit, procs, remote, Typed, Values
  <2> QED
    BY <2>1 DEF Licensed, Permits
<1>3. ASSUME NEW x \in scripts, Script(x) \/ ScriptDies(x) PROVE Licensed'
  <2>1. Telling(x)
    BY <1>3, ScriptSteps
  <2>2. UNCHANGED <<intent, files, edits, cmd, op, read, staged>>
    BY <2>1 DEF Telling, local
  <2>3. \A p \in Procs : pc'[p] = pc[p] \/ (pc[p] \in Numbered /\ pc'[p] \in Numbered)
    BY <2>1 DEF Telling, Numbered, Typed, Values
  <2> QED
    BY <2>2, <2>3 DEF Licensed, Permits, Numbered
<1> QED
  BY <1>1, <1>2, <1>3, LicensedCli DEF Next

-------------------------------------------------------------------------------
(* What a command and a script find.                                       *)

LEMMA UnspoiledCli ==
  ASSUME Typed, Owned, Staging, Unspoiled, NEW p \in Procs,
         Cli(p) \/ SessionLost(p) \/ Stop(p) \/ \E c \in Commands[p] : Begin(p, c)
  PROVE  Unspoiled'
<1>c. CliStep(p)
  BY CliSteps
<1>t. /\ pc \in [Procs -> Places] /\ cmd \in [Procs -> Command \cup {NoCommand}]
      /\ op \in [Procs -> 0..MaxOps] /\ read \in [Procs -> Config \cup {None}]
      /\ dirs \in [Releases -> {"absent", "whole", "changed"}]
      /\ files \in [Files -> Config \cup {None}]
      /\ stage \in [Ops -> {"none", "made", "sent", "unpacked", "removed"}]
      /\ staged \in [Ops -> Payload \cup {None}]
      /\ node \in [current : Payload \cup {None}, up : Payload \cup {None},
                   kept : SUBSET Payload, reader : BOOLEAN]
  BY DEF Typed, Values
<1>w. Where(p) /\ Finds(p) /\ (pc[p] # "idle" => cmd[p] \in Command)
  BY <1>t DEF Typed, Unspoiled, Where
<1>a. Ahead(p)
  BY DEF Staging
<1>1. /\ node'.kept = node.kept /\ node'.current = node.current /\ node'.up = node.up
      /\ node.reader => node'.reader
  BY <1>c, <1>t DEF CliStep
<1> USE DEF At, Goto, Moves, Ends, procs, remote
<1>2. UNCHANGED edits
  BY DEF Cli, Promote, IntentOpen, IntentWrite, RenderLoad, RenderCreate, Verify, Copy,
         Prepare, Transfer, Grant, Ask, Run, Receipt, Cleanup, Refuse, SessionLost, Stop, Begin
<1>3. \A f \in Files : files[f] # None => files'[f] = files[f]
  <2>1. CASE RenderCreate(p)
    BY <1>t, <2>1 DEF RenderCreate
  <2> QED
    BY <2>1
    DEF Cli, Promote, IntentOpen, IntentWrite, RenderLoad, Verify, Copy, Prepare, Transfer,
        Grant, Ask, Run, Receipt, Cleanup, Refuse, SessionLost, Stop, Begin, local
<1>4. \A r \in Releases : dirs'[r] = dirs[r] \/ (dirs[r] = "absent" /\ dirs'[r] = "whole")
  <2>1. CASE Promote(p)
    BY <1>t, <2>1 DEF Promote
  <2> QED
    BY <2>1
    DEF Cli, IntentOpen, IntentWrite, RenderLoad, RenderCreate, Verify, Copy, Prepare,
        Transfer, Grant, Ask, Run, Receipt, Cleanup, Refuse, SessionLost, Stop, Begin, local
<1>6. ASSUME NEW q \in Procs, q # p PROVE Finds(q)'
  <2>1. /\ pc'[q] = pc[q] /\ cmd'[q] = cmd[q] /\ op'[q] = op[q] /\ read'[q] = read[q]
        /\ pc[q] \in Numbered => staged'[op[q]] = staged[op[q]]
    BY <1>6, <1>c, <1>t DEF CliStep, Typed, Where
  <2>3. pc[q] = "copy" =>
          cmd[q].release \in Releases /\ cmd[q].file \in Files /\ read[q] # None
    BY <1>t, Fields, Nobody DEF Typed, Where, Validated
  <2>4. Finds(q)
    BY DEF Unspoiled
  <2>5. pc[q] \in Numbered => stage'[op[q]] = stage[op[q]]
    <3>1. pc[q] \in Numbered => op[q] \in Ops
      BY ParameterAssumption DEF Typed, Values, Where, Ops
    <3> QED
      BY <1>6, <1>c, <3>1, Others DEF CliStep
  <2> QED
    BY <1>1, <1>2, <1>3, <1>4, <2>1, <2>3, <2>4, <2>5 DEF Finds, Validated, Numbered
<1>7. Finds(p)'
  <2> USE DEF Finds
  <2>1. ASSUME NEW c \in Commands[p], Begin(p, c) PROVE Finds(p)'
    <3>1. c \in Command
      BY ParameterAssumption
    <3>2. First(c) \notin Validated
      BY <3>1, Fields DEF First, Validated
    <3>3. cmd'[p] = c /\ pc'[p] = First(c)
      BY <1>t, <2>1 DEF Begin
    <3> QED
      BY <3>2, <3>3 DEF Validated
  <2>2. CASE pc'[p] = "idle" /\ cmd'[p] = NoCommand
    BY <2>2, Nobody DEF Validated
  <2>3. CASE Verify(p)
    BY <1>t, <1>w, <2>3, Fields DEF Verify, Verified, Validated, local
  <2>4. CASE Copy(p)
    <3>1. /\ ops' \in Ops /\ op' = [op EXCEPT ![p] = ops'] /\ UNCHANGED <<cmd, read>>
          /\ pc' = [pc EXCEPT ![p] = "prepare"] /\ pc[p] = "copy"
      BY <2>4, ParameterAssumption DEF Copy, Ops, Typed, Values, local
    <3>2. edits = 0 => dirs[cmd[p].release] = "whole"
      BY <1>t, <1>w, <2>4, Fields DEF Copy, Unspoiled, Where
    <3>3. edits = 0 =>
            staged'[ops'] = [bundle |-> cmd[p].release, config |-> read[p]]
      BY <1>t, <1>w, <2>4, <3>1, <3>2 DEF Copy
    <3> QED
      BY <1>2, <1>t, <1>w, <3>1, <3>3 DEF Validated
  <2>5. CASE Ask(p)
    BY <1>t, <1>w, <2>5 DEF Ask, Where, local
  <2>6. CASE Grant(p)
    BY <1>2, <1>a, <1>t, <1>w, <2>6 DEF Grant, Validated, local, Ahead
  <2>7. CASE Receipt(p)
    BY <1>t, <1>w, <2>7 DEF Receipt, Validated
  <2>8. CASE Prepare(p) \/ Transfer(p) \/ Run(p) \/ SessionLost(p)
    BY <1>1, <1>2, <1>t, <1>w, <2>8
    DEF Prepare, Transfer, Run, SessionLost, AfterFailure, Validated, local
  <2>9. CASE IntentOpen(p) \/ IntentWrite(p) \/ RenderLoad(p) \/ RenderCreate(p)
    BY <1>t, <1>w, <2>2, <2>9
    DEF IntentOpen, IntentWrite, RenderLoad, RenderCreate, Validated, local
  <2>10. CASE Promote(p) \/ Cleanup(p) \/ Refuse(p) \/ Stop(p)
    BY <1>t, <1>w, <2>2, <2>10
    DEF Promote, Cleanup, Refuse, Stop, Validated, local
  <2> QED
    BY <2>1, <2>3, <2>4, <2>5, <2>6, <2>7, <2>8, <2>9, <2>10 DEF Cli
<1>8. ASSUME NEW x \in scripts' PROVE Meets(x)'
  <2>1. CASE x \in scripts
    <3>1. Meets(x) /\ staged'[x.op] = staged[x.op]
      BY <1>c, <2>1 DEF Unspoiled, CliStep, Typed
    <3>2. stage[x.op] # "made" => stage'[x.op] # "made"
      <4>1. CASE Prepare(p)
        BY <1>a, <1>t, <2>1, <4>1 DEF Prepare, Ahead
      <4>2. x.op \in Ops
        BY <2>1 DEF Typed, Values
      <4>3. CASE Transfer(p)
        BY <1>t, <4>2, <4>3 DEF Transfer
      <4>4. CASE Cleanup(p)
        BY <1>t, <4>2, <4>4 DEF Cleanup
      <4> QED
        BY <4>1, <4>3, <4>4
        DEF Cli, Promote, IntentOpen, IntentWrite, RenderLoad, RenderCreate, Verify, Copy,
            Grant, Ask, Run, Receipt, Refuse, SessionLost, Stop, Begin
    <3> QED
      BY <1>1, <1>2, <3>1, <3>2 DEF Meets
  <2>2. CASE x \notin scripts /\ Run(p)
    <3>1. PICK y : /\ scripts' = scripts \cup {y} /\ y.op = op[p]
                   /\ y.at = IF cmd[p].kind = "rollback" THEN "rollback" ELSE "digests"
                   /\ y.want = IF cmd[p].kind = "rollback" THEN staged[op[p]]
                               ELSE [bundle |-> cmd[p].release, config |-> read[p]]
      BY <2>2, RunSends
    <3>2. x = y /\ pc[p] = "run" /\ UNCHANGED <<staged, stage>>
      BY <2>2, <3>1 DEF Run
    <3> QED
      BY <1>1, <1>2, <1>w, <3>1, <3>2 DEF Meets, Finds, Validated
  <2> QED
    BY <1>c, <2>1, <2>2 DEF CliStep
<1> QED
  BY <1>1, <1>2, <1>4, <1>6, <1>7, <1>8 DEF Unspoiled

LEMMA UnspoiledScript ==
  ASSUME Typed, Owned, Staging, Unspoiled, NEW x \in scripts, Script(x) \/ ScriptDies(x)
  PROVE  Unspoiled'
<1>s. /\ Telling(x)
      /\ Enters(x) \/ RollsBack(x) \/ IsOver(x) \/ \E to \in Steps : GoesOn(x, to)
  BY ScriptSteps
<1>m. \A to : /\ Moved(x, to).op = x.op /\ Moved(x, to).at = to
              /\ Moved(x, to).want = x.want
  BY MovedScript
<1>u. UNCHANGED <<dirs, files, receipts, edits, cmd, op, read, staged>>
  BY <1>s DEF Telling, local
<1>t. /\ pc \in [Procs -> Places] /\ staged[x.op] # None /\ x.op \in Ops
      /\ stage \in [Ops -> {"none", "made", "sent", "unpacked", "removed"}]
      /\ node \in [current : Payload \cup {None}, up : Payload \cup {None},
                   kept : SUBSET Payload, reader : BOOLEAN]
      /\ \A y \in scripts : y.op \in Ops
  BY DEF Typed, Values
<1>v. \A o \in Ops : stage[o] # "made" => stage'[o] # "made"
  BY <1>s, <1>t DEF Enters, GoesOn, RollsBack, IsOver
<1>w. Meets(x)
  BY DEF Unspoiled
<1>1. /\ node'.reader = node.reader
      /\ node'.kept # {} \/ node'.up # None => node'.current # None
  <2>1. CASE UNCHANGED node
    BY <2>1 DEF Unspoiled
  <2>2. CASE RollsBack(x)
    BY <1>t, <2>2 DEF RollsBack
  <2>3. ASSUME NEW to \in Steps, GoesOn(x, to), ~UNCHANGED node PROVE <1>1!:
    <3>1. CASE x.at = "installing"
      <4>1. node' = [node EXCEPT !.current = staged[x.op], !.kept = @ \cup {staged[x.op]}]
        BY <2>3, <3>1 DEF GoesOn
      <4> QED
        BY <1>t, <4>1
    <3>2. CASE x.at \in {"stopping", "down", "starting"}
      <4>1. /\ node'.kept = node.kept /\ node'.current = node.current
            /\ node'.reader = node.reader /\ (node'.up = None \/ node.current # None)
        BY <1>t, <2>3, <3>2 DEF GoesOn
      <4> QED
        BY <4>1 DEF Unspoiled
    <3> QED
      BY <2>3, <3>1, <3>2 DEF GoesOn
  <2> QED
    BY <1>s, <2>1, <2>2, <2>3 DEF Enters, IsOver
<1>2. ASSUME NEW q \in Procs PROVE Finds(q)'
  <2>1. \/ pc'[q] = pc[q]
        \/ pc[q] = "session" /\ pc'[q] \in {"run", "receipt", "cleanup"}
    BY <1>s, <1>t DEF Telling
  <2>2. Finds(q)
    BY DEF Unspoiled
  <2>3. pc[q] \in {"run", "session"} => op[q] \in Ops
    BY DEF Typed, Values, Where, Numbered, Ops
  <2> QED
    BY <1>1, <1>u, <1>v, <2>1, <2>2, <2>3 DEF Finds, Validated
<1>3. ASSUME NEW y \in scripts', y \in scripts PROVE Meets(y)'
  BY <1>1, <1>3, <1>t, <1>u, <1>v DEF Unspoiled, Meets
<1>4. ASSUME NEW y \in scripts' PROVE Meets(y)'
  <2>1. CASE Enters(x)
    BY <1>3, <1>4, <1>m, <1>t, <1>u, <1>v, <1>w, <2>1 DEF Enters, Meets
  <2>2. CASE RollsBack(x) \/ IsOver(x)
    BY <1>3, <1>4, <2>2 DEF RollsBack, IsOver
  <2>3. ASSUME NEW to \in Steps, GoesOn(x, to) PROVE Meets(y)'
    <3>1. CASE y \in scripts /\ y # x
      BY <1>3, <1>4, <3>1
    <3>2. CASE y = Moved(x, to)
      <4>1. x.at # "rollback" /\ (edits = 0 => staged[x.op] = x.want)
        BY <1>w, <2>3 DEF GoesOn, Meets
      <4> QED
        BY <1>1, <1>m, <1>t, <1>u, <1>v, <1>w, <3>2, <4>1 DEF Meets
    <3> QED
      BY <1>4, <2>3, <3>1, <3>2 DEF GoesOn
  <2> QED
    BY <1>s, <2>1, <2>2, <2>3
<1> QED
  BY <1>1, <1>2, <1>4, <1>u DEF Unspoiled

LEMMA UnspoiledNext == Typed /\ Owned /\ Staging /\ Unspoiled /\ [Next]_vars => Unspoiled'
<1> SUFFICES ASSUME Typed, Owned, Staging, Unspoiled, [Next]_vars PROVE Unspoiled'
  OBVIOUS
<1>1. CASE UNCHANGED vars
  BY <1>1 DEF vars, local, procs, remote, Unspoiled, Finds, Meets
<1>2. CASE Edit
  <2>1. /\ edits' # 0 /\ UNCHANGED <<receipts, pc, cmd, op, read, staged, stage, scripts, node>>
        /\ \A r \in Releases : dirs[r] # "absent" => dirs'[r] # "absent"
    BY <1>2 DEF Edit, procs, remote, Typed, Values
  <2>2. \A p \in Procs : pc[p] = "copy" => cmd[p].release \in Releases
    BY Fields, Nobody DEF Typed, Values, Where
  <2> QED
    BY <2>1, <2>2 DEF Unspoiled, Finds, Meets
<1> QED
  BY <1>1, <1>2, UnspoiledCli, UnspoiledScript DEF Next

-------------------------------------------------------------------------------
(* Theorems.                                                               *)

LEMMA InvInit == Init => IInv
<1> SUFFICES ASSUME Init PROVE IInv
  OBVIOUS
<1>1. Typed
  BY TypedInit
<1> USE DEF Init
<1>2. Owned /\ Undisturbed
  BY Nobody DEF Owned, Undisturbed, Alone, Serving, Fresh, Working
<1>3. Staging
  BY DEF Staging, Stages, Ahead, Inside
<1>5. Checked
  BY DEF Checked, Checks, Wanted, OnlyVerified, Validated
<1>6. Licensed
  BY Nobody DEF Licensed, Permits
<1>7. Unspoiled
  BY Nobody DEF Unspoiled, Finds, Meets, Validated
<1> QED
  BY <1>1, <1>2, <1>3, <1>5, <1>6, <1>7 DEF IInv

LEMMA Inductive == Spec => []IInv
<1>1. IInv /\ [Next]_vars => IInv'
  BY TypedNext, OwnedNext, StagingNext, CheckedNext, LicensedNext, UnspoiledNext,
     UndisturbedNext DEF IInv
<1> QED
  BY InvInit, <1>1, PTL DEF Spec

\* The commands and scripts of src/activation.rs keep their types.
THEOREM TypesKept == Spec => []TypeOK
<1>1. IInv => TypeOK
  BY DEF IInv, Typed, Values, Places, TypeOK
<1> QED
  BY Inductive, <1>1, PTL

\* The node only ever holds a verified bundle with a configuration validated
\* for it, whatever is edited between the check and the copy
\* (activation.rs:280-330, the digests of remote_activation_command).
THEOREM HeldIsVerified == Spec => []OnlyVerified
<1>1. IInv => OnlyVerified
  BY DEF IInv, Checked
<1> QED
  BY Inductive, <1>1, PTL

\* However often the remote command of one activation is sent, one script of
\* it at most gets to touch the node (`mkdir "$stage/release"`).
THEOREM EnteredOnce == Spec => []AtMostOnce
<1>1. IInv => AtMostOnce
  BY DEF IInv, Staging, Stages, AtMostOnce
<1> QED
  BY Inductive, <1>1, PTL

\* No activation is in the way of a later one, nor a first attempt of the
\* second: what fails on the node fails of itself, or because files were
\* edited, or because an attempt has entered before (activation.rs:280-560).
THEOREM FailuresHaveCause == Spec => []FailsForCause
<1>1. IInv => FailsForCause
  <2> SUFFICES ASSUME IInv, ~overlap PROVE FailsForCause
    BY DEF FailsForCause
  <2>u. Undisturbed
    BY DEF IInv
  <2>1. ASSUME NEW p \in Procs, Refused(p)
        PROVE  ~At(p, "receipt") /\ (At(p, "copy") => edits > 0)
    <3>1. At(p, "receipt") => OnNode(cmd[p])
      BY DEF IInv, Typed, Where, Working, At
    <3>2. At(p, "copy") => read[p] # None
      BY DEF IInv, Typed, Where, Validated, At
    <3>3. edits \in Nat
      BY DEF IInv, Typed, Values
    <3>4. Finds(p)
      BY DEF IInv, Unspoiled
    <3>5. ~At(p, "receipt")
      BY <2>1, <2>u, <3>1 DEF Refused, At, Undisturbed, Fresh, Working
    <3>6. At(p, "copy") => edits > 0
      BY <2>1, <3>2, <3>3, <3>4 DEF Refused, At, Finds
    <3> QED
      BY <3>5, <3>6
  <2>2. ASSUME NEW x \in scripts, Blocked(x)
        PROVE  \/ stage[x.op] = "removed"
               \/ x.at = "digests" /\ edits > 0
               \/ x.at \in {"digests", "inspect"} /\ stage[x.op] = "unpacked"
    <3>1. Meets(x) /\ edits \in Nat /\ x.op \in Ops /\ x.op \in 1..ops
      BY DEF IInv, Typed, Values, Unspoiled
    <3>2. /\ stage[x.op] \in {"none", "made", "sent", "unpacked", "removed"}
          /\ x.at # "rollback" => stage[x.op] # "none"
      BY <3>1 DEF IInv, Typed, Values, Staging, Inside
    <3>3. Acts(x) => Serves(x)
      BY <2>u DEF Undisturbed, Serving
    <3>4. node.up # None => node.current # None
      BY DEF IInv, Unspoiled
    <3>5. staged[x.op] # None
      BY DEF IInv, Typed
    <3> QED
      BY <2>2, <3>1, <3>2, <3>3, <3>4, <3>5
      DEF Blocked, FilesGone, Fenced, AsRead, Meets, Acts, Running, Serves
  <2>3. ASSUME NEW x \in scripts, x.at = "rollback" PROVE node.current # None
    BY <2>3 DEF IInv, Checked, Wanted, Unspoiled
  <2> QED
    BY <2>1, <2>2, <2>3 DEF FailsForCause
<1> QED
  BY Inductive, <1>1, PTL

\* Receipts are written at one place.
LEMMA OnlyReceipt ==
  ASSUME IInv, [Next]_vars, receipts' # receipts
  PROVE  \E p \in Procs : Receipt(p)
<1>1. ASSUME NEW p \in Procs,
             \/ Promote(p) \/ IntentOpen(p) \/ IntentWrite(p) \/ RenderLoad(p) \/ RenderCreate(p)
             \/ Verify(p) \/ Copy(p) \/ Prepare(p) \/ Transfer(p) \/ Grant(p) \/ Ask(p)
      PROVE  receipts' = receipts
  BY <1>1 DEF Promote, IntentOpen, IntentWrite, RenderLoad, RenderCreate, Verify, Copy, Prepare,
              Transfer, Grant, Ask, local
<1>2. ASSUME NEW p \in Procs, Run(p) \/ Cleanup(p) \/ Refuse(p) \/ SessionLost(p) \/ Stop(p)
      PROVE  receipts' = receipts
  BY <1>2 DEF Run, Cleanup, Refuse, SessionLost, Stop, local
<1>3. ASSUME NEW p \in Procs, NEW c \in Commands[p], Begin(p, c) PROVE receipts' = receipts
  BY <1>3 DEF Begin, local
<1>4. ASSUME NEW x \in scripts, Script(x) \/ ScriptDies(x) PROVE receipts' = receipts
  <2>1. Telling(x)
    BY <1>4, ScriptSteps DEF IInv
  <2> QED
    BY <2>1 DEF Telling, local
<1>5. Edit \/ UNCHANGED vars => receipts' = receipts
  BY DEF Edit, vars, local
<1> QED
  BY <1>1, <1>2, <1>3, <1>4, <1>5 DEF Next, Cli

\* A receipt is written over the truth: the node serves what it says, unless
\* the command was begun over another (activation.rs:811-814, 425-433).
THEOREM ReceiptsTrue == Spec => ReceiptTrue
<1>1. IInv /\ [Next]_vars =>
        [\A q \in Paths :
           ~overlap /\ receipts'[q] # receipts[q] => receipts'[q] = node.up]_vars
  <2> SUFFICES ASSUME IInv, [Next]_vars, ~overlap,
                      NEW q \in Paths, receipts'[q] # receipts[q]
               PROVE  receipts'[q] = node.up
    OBVIOUS
  <2>1. PICK p \in Procs : Receipt(p)
    BY OnlyReceipt
  <2>2. receipts \in [Paths -> Payload \cup {None}]
    BY DEF IInv, Typed, Values
  <2>3. receipts'[q] = staged[op[p]]
    BY <2>1, <2>2 DEF Receipt
  <2> QED
    BY <2>1, <2>3 DEF Receipt, At, IInv, Undisturbed, Serving, Reports
<1> QED
  BY Inductive, <1>1, PTL DEF Spec, ReceiptTrue

\* A licence installation that ends well has put the licence on the node,
\* unless its files were edited or it was begun over another command
\* (license.rs, activation.rs:280-560).
THEOREM LicenceReachesNode == Spec => LicenceServed
<1>1. IInv /\ [Next]_vars =>
        [\A p \in Procs :
           /\ ~overlap /\ edits = 0
           /\ cmd[p].kind = "licence" /\ receipts'[cmd[p].path] # receipts[cmd[p].path]
           => node.up.config.licensed]_vars
  <2> SUFFICES ASSUME IInv, [Next]_vars, ~overlap, NEW p \in Procs, cmd[p].kind = "licence",
                      receipts'[cmd[p].path] # receipts[cmd[p].path], edits = 0
               PROVE  node.up.config.licensed
    OBVIOUS
  <2>1. PICK r \in Procs : Receipt(r)
    BY OnlyReceipt
  <2>2. r = p
    BY <2>1 DEF Receipt, At, IInv, Typed, Where, Undisturbed, Alone, Working, OnNode
  <2> QED
    BY <2>1, <2>2
    DEF Receipt, At, IInv, Undisturbed, Serving, Reports, Licensed, Permits, Numbered
<1> QED
  BY Inductive, <1>1, PTL DEF Spec, LicenceServed

\* Activation implements NodeRelease: what is installed changes only while
\* nothing is served, and only it is served, for any number of sessions
\* lost, scripts that run on and commands sent again; until a command is begun
\* over what an earlier one left running.
THEOREM ActivationReleasesNode == Spec => NodeIsReleased
<1>1. Init => Node!NInit
  BY DEF Init, Node!NInit
<1>2. IInv /\ [Next]_vars => [Node!NNext]_Node!nvars
  <2> SUFFICES ASSUME IInv, [Next]_vars, ~overlap
               PROVE  Node!NNext \/ UNCHANGED <<node.current, node.up>>
    BY DEF Node!nvars, Node!NNext
  <2> USE DEF Node!NNext, Node!GoDown, Node!Switch, Node!GoUp, Node!Revert
  <2>t. node \in [current : Payload \cup {None}, up : Payload \cup {None},
                  kept : SUBSET Payload, reader : BOOLEAN]
    BY DEF IInv, Typed, Values
  <2>1. CASE UNCHANGED vars
    BY <2>1 DEF vars, remote
  <2>2. CASE Edit
    BY <2>2 DEF Edit, remote
  <2>3. ASSUME NEW p \in Procs,
               Cli(p) \/ SessionLost(p) \/ Stop(p) \/ \E c \in Commands[p] : Begin(p, c)
        PROVE  UNCHANGED <<node.current, node.up>>
    BY <2>3, <2>t, CliSteps DEF IInv, CliStep
  <2>4. ASSUME NEW x \in scripts, Script(x) \/ ScriptDies(x)
        PROVE  Node!NNext \/ UNCHANGED <<node.current, node.up>>
    <3>1. Enters(x) \/ RollsBack(x) \/ IsOver(x) \/ \E to \in Steps : GoesOn(x, to)
      BY <2>4, ScriptSteps DEF IInv
    <3>2. staged[x.op] \in Payload
      BY DEF IInv, Typed, Values
    <3>3. CASE RollsBack(x)
      <4>1. /\ node.current # None
            /\ node'.current = staged[x.op] /\ node'.up = staged[x.op]
        BY <2>t, <3>3 DEF RollsBack
      <4> QED
        BY <3>2, <4>1
    <3>4. ASSUME NEW to \in Steps, GoesOn(x, to)
          PROVE  Node!NNext \/ UNCHANGED <<node.current, node.up>>
      <4>1. CASE x.at \in {"stopping", "down"}
        <5>1. node'.up = None /\ node'.current = node.current
          BY <2>t, <3>4, <4>1 DEF GoesOn
        <5> QED
          BY <5>1
      <4>2. CASE x.at = "installing"
        <5>1. node.up = None
          BY <3>4, <4>2 DEF GoesOn, IInv, Undisturbed, Serving, Serves
        <5>2. node'.up = node.up /\ node'.current = staged[x.op]
          BY <2>t, <3>4, <4>2 DEF GoesOn
        <5> QED
          BY <3>2, <5>1, <5>2
      <4>3. CASE x.at = "starting"
        <5>1. /\ node.current # None
              /\ node'.up = node.current /\ node'.current = node.current
          BY <2>t, <3>4, <4>3 DEF GoesOn
        <5> QED
          BY <5>1
      <4>4. CASE x.at \in {"digests", "existing", "preflight", "secrets"}
        BY <3>4, <4>4 DEF GoesOn
      <4> QED
        BY <3>4, <4>1, <4>2, <4>3, <4>4 DEF GoesOn
    <3> QED
      BY <3>1, <3>3, <3>4 DEF Enters, IsOver
  <2> QED
    BY <2>1, <2>2, <2>3, <2>4 DEF Next
<1> QED
  BY Inductive, <1>1, <1>2, PTL DEF Spec, NodeIsReleased, Node!NSpec
===============================================================================
