---------------------------- MODULE WorkspaceProofs ----------------------------
(***************************************************************************)
(* Proofs about Workspace, for any number of terminals, contents of the    *)
(* intent, commands, stops and edits.                                      *)
(***************************************************************************)
EXTENDS Workspace, TLAPS

\* The plan file of each command, and what may be saved in it.
LEMMA Files ==
  ASSUME NEW k \in Command
  PROVE  /\ FileOf(k) \in PlanFile
         /\ FileOf(k) = "thelve-destroy" <=> k = "destroy"
         /\ FileOf(k) = "thelve-replace-node" <=> k = "replace"
         /\ Asked(k) \in Power
BY DEF Command, PlanFile, FileOf, Asked, Power

LEMMA NoneIsNoCommand ==
  /\ None # "replace" /\ None # "running"
  /\ None \notin Configs \cup Vars \cup Plan
BY NoneAssumption DEF Command, Power

-------------------------------------------------------------------------------
(* Types.                                                                  *)

\* Where a command of each kind can be, and what its plan file holds.
Typed ==
  /\ TypeOK
  /\ \A p \in Procs : pc[p] # "idle" => kind[p] \in Command
  /\ \A p \in Procs : pc[p] = "check" => kind[p] = "up"
  /\ \A p \in Procs : pc[p] = "show" => kind[p] = "replace"
  /\ \A p \in Procs : pc[p] # "idle" /\ kind[p] = "status" => phase[p] = "before" /\ pc[p] \notin {"plan", "show"}
  /\ \A p \in Procs : pc[p] \in {"plan", "show", "apply"} => phase[p] = "main"
  /\ \A p \in Procs : pc[p] = "apply" => kind[p] \in Command \ {"plan", "status"}
  /\ plans["thelve-replace-node"] # None => plans["thelve-replace-node"].kind = "replace"

LEMMA TypedInit == Init => Typed
<1> SUFFICES ASSUME Init PROVE Typed
  OBVIOUS
<1> USE DEF Init
<1>1. intent \in Configs /\ cfg = [p \in Procs |-> intent]
  OBVIOUS
<1>2. 0 \in 0 .. MaxCommands /\ 0 \in 0 .. MaxStops /\ 0 \in 0 .. MaxEdits
  BY BoundsAssumption
<1>3. TypeOK
  BY <1>1, <1>2 DEF TypeOK, PlanFile
<1>4. /\ \A p \in Procs : pc[p] = "idle"
      /\ plans["thelve-replace-node"] = None
  BY DEF PlanFile
<1> QED
  BY <1>3, <1>4 DEF Typed

\* What applying a plan can make of the cloud and of the saved plans.
LEMMA Outcomes ==
  ASSUME TypeOK, NEW pl \in Plan, NEW c \in Partial(pl) \cup {Target(pl)}, Becomes(c)
  PROVE  /\ cloud' \in [host : {None} \cup Power, rest : {None} \cup Configs]
         /\ cloud'.rest = None => cloud'.host = None /\ ~versions'
         /\ versions' \in BOOLEAN
         /\ plans' \in {plans, [f \in PlanFile |-> None]}
<1>1. \/ c = cloud
      \/ c = [host |-> None, rest |-> None]
      \/ c = [host |-> pl.power, rest |-> pl.cfg]
      \/ c = [cloud EXCEPT !.host = None]
      \/ c = [host |-> None, rest |-> pl.cfg]
      \/ c = [cloud EXCEPT !.rest = pl.cfg]
  BY DEF Partial, Target, Plan
<1>2. pl.power \in Power /\ pl.cfg \in Configs /\ None \notin Configs
  BY NoneIsNoCommand DEF Plan
<1>3. /\ c \in [host : {None} \cup Power, rest : {None} \cup Configs]
      /\ c.rest = None => c.host = None
  BY <1>1, <1>2 DEF TypeOK
<1>4. versions' \in BOOLEAN /\ (c.rest = None => ~versions')
  BY DEF Becomes
<1> QED
  BY <1>3, <1>4 DEF Becomes

LEMMA TypedNext == Typed /\ [Next]_all => Typed'
<1> SUFFICES ASSUME Typed, [Next]_all PROVE Typed'
  OBVIOUS
<1> USE DEF Typed, TypeOK, At, Busy, Goto, Ends, Fault, procs, workspace, history, bounds
<1>a. MaxCommands \in Nat /\ MaxStops \in Nat /\ MaxEdits \in Nat
  BY BoundsAssumption
<1>1. CASE SetSecrets BY <1>1 DEF SetSecrets
<1>2. CASE Edit BY <1>2, <1>a DEF Edit
<1>3. ASSUME NEW p \in Procs, Terminal(p) PROVE Typed'
  <2>1. ASSUME NEW k \in Command, Begin(p, k) PROVE Typed'
    <3>1. alone' \in [Procs -> BOOLEAN] /\ sole' \in [Procs -> BOOLEAN]
      BY <2>1 DEF Begin
    <3>2. /\ pc' \in [Procs -> {"idle", "check", "refresh", "refreshing", "vars", "writing",
                                "init", "plan", "show", "apply"}]
          /\ kind' = [kind EXCEPT ![p] = k] /\ cfg' = [cfg EXCEPT ![p] = intent]
          /\ phase' = [phase EXCEPT ![p] = IF k \in {"status", "replace"} THEN "before" ELSE "main"]
          /\ pc' = [pc EXCEPT ![p] = IF k = "up" THEN "check" ELSE "refresh"]
          /\ begun' \in 0 .. MaxCommands
          /\ UNCHANGED <<intent, workspace, cloud, versions, stops, edits>>
      BY <2>1, <1>a DEF Begin
    <3>3. TypeOK'
      BY <3>1, <3>2
    <3> QED
      BY <3>2, <3>3
  <2>2. CASE CheckVersions(p) BY <2>2 DEF CheckVersions
  <2>3. CASE Refresh(p) BY <2>3 DEF Refresh
  <2>4. CASE RefreshWrite(p) BY <2>4 DEF RefreshWrite
  <2>5. CASE VarsOpen(p) BY <2>5 DEF VarsOpen
  <2>6. CASE VarsWrite(p) BY <2>6, Files DEF VarsWrite, Mine, Vars
  <2>7. CASE InitBackend(p) BY <2>7 DEF InitBackend, Command
  <2>8. CASE SavePlan(p)
    <3>1. kind[p] \in Command /\ vars \in Vars
      BY <2>8 DEF SavePlan, Readable
    <3>2. PICK k \in {"apply", "destroy", "replace"} :
            /\ plans' = [plans EXCEPT ![FileOf(kind[p])] =
                            [kind |-> k, power |-> vars.power, cfg |-> vars.cfg]]
            /\ k = "destroy" <=> kind[p] = "destroy"
            /\ k = "replace" <=> kind[p] = "replace"
      BY <2>8 DEF SavePlan
    <3>3. [kind |-> k, power |-> vars.power, cfg |-> vars.cfg] \in Plan
      BY <3>1 DEF Plan, Vars
    <3>4. plans' \in [PlanFile -> {None} \cup Plan]
      BY <3>1, <3>2, <3>3, Files
    <3>5. /\ plans'["thelve"] # None => plans'["thelve"].kind = "apply"
          /\ plans'["thelve-destroy"] # None => plans'["thelve-destroy"].kind = "destroy"
          /\ plans'["thelve-replace-node"] # None =>
               plans'["thelve-replace-node"].kind = "replace"
      BY <3>1, <3>2, Files DEF PlanFile
    <3>6. \/ kind[p] = "plan" /\ Ends(p)
          \/ kind[p] = "replace" /\ Goto(p, "show")
          \/ kind[p] \in Command \ {"plan", "status"} /\ Goto(p, "apply")
      BY <2>8, <3>1 DEF SavePlan
    <3> QED
      BY <2>8, <3>1, <3>4, <3>5, <3>6 DEF SavePlan
  <2>9. CASE Show(p) BY <2>9 DEF Show, Command
  <2>10. CASE Apply(p)
    <3>1. kind[p] \in Command /\ plans[FileOf(kind[p])] \in Plan
      BY <2>10, Files DEF Apply, Fresh
    <3>2. Becomes(Target(plans[FileOf(kind[p])]))
      BY <2>10 DEF Apply
    <3>3. /\ cloud' \in [host : {None} \cup Power, rest : {None} \cup Configs]
          /\ cloud'.rest = None => cloud'.host = None /\ ~versions'
          /\ versions' \in BOOLEAN
          /\ plans' \in {plans, [f \in PlanFile |-> None]}
      BY <3>1, <3>2, Outcomes
    <3>4. /\ plans' \in [PlanFile -> {None} \cup Plan]
          /\ plans'["thelve"] # None => plans'["thelve"].kind = "apply"
          /\ plans'["thelve-destroy"] # None => plans'["thelve-destroy"].kind = "destroy"
          /\ plans'["thelve-replace-node"] # None =>
               plans'["thelve-replace-node"].kind = "replace"
      BY <3>3 DEF PlanFile
    <3>5. \/ Ends(p)
          \/ /\ kind[p] = "replace"
             /\ pc' = [pc EXCEPT ![p] = "refresh"] /\ phase' = [phase EXCEPT ![p] = "after"]
             /\ UNCHANGED <<kind, cfg, history>>
      BY <2>10 DEF Apply
    <3> QED
      BY <2>10, <3>3, <3>4, <3>5 DEF Apply
  <2>11. CASE ApplyFails(p) 
    <3>1. kind[p] \in Command /\ plans[FileOf(kind[p])] \in Plan
      BY <2>11, Files DEF ApplyFails, Fresh
    <3>2. PICK c \in Partial(plans[FileOf(kind[p])]) : Becomes(c)
      BY <2>11 DEF ApplyFails
    <3>3. /\ cloud' \in [host : {None} \cup Power, rest : {None} \cup Configs]
          /\ cloud'.rest = None => cloud'.host = None /\ ~versions'
          /\ versions' \in BOOLEAN
          /\ plans' \in {plans, [f \in PlanFile |-> None]}
      BY <3>1, <3>2, Outcomes
    <3>4. /\ plans' \in [PlanFile -> {None} \cup Plan]
          /\ plans'["thelve"] # None => plans'["thelve"].kind = "apply"
          /\ plans'["thelve-destroy"] # None => plans'["thelve-destroy"].kind = "destroy"
          /\ plans'["thelve-replace-node"] # None =>
               plans'["thelve-replace-node"].kind = "replace"
      BY <3>3 DEF PlanFile
    <3> QED
      BY <2>11, <1>a, <3>3, <3>4 DEF ApplyFails
  <2>12. CASE Refuse(p) BY <2>12 DEF Refuse
  <2>13. CASE Stop(p) BY <2>13, <1>a DEF Stop
  <2> QED
    BY <1>3, <2>1, <2>2, <2>3, <2>4, <2>5, <2>6, <2>7, <2>8, <2>9, <2>10, <2>11,
       <2>12, <2>13 DEF Terminal
<1>4. CASE UNCHANGED all BY <1>4 DEF all
<1> QED
  BY <1>1, <1>2, <1>3, <1>4 DEF Next

-------------------------------------------------------------------------------
(* The plan a replacement applies is the one that was shown.               *)

\* A replacement no other has overlapped is the only one there is, and from
\* the moment its plan was found to change the instance alone the file holds
\* that plan, or none that applies.
Shown ==
  \A p \in Procs : sole[p] /\ kind[p] = "replace" =>
    /\ \A q \in Procs \ {p} : kind[q] # "replace"
    /\ pc[p] = "apply" /\ plans["thelve-replace-node"] # None
         => plans["thelve-replace-node"].cfg = cloud.rest

LEMMA ShownInit == Init => Shown
BY DEF Init, Shown

\* A step that begins no replacement, takes none to its apply and leaves the
\* plan it has shown, or none, keeps what is known of the replacements.
LEMMA ShownKept ==
  ASSUME Shown,
         \A q \in Procs : kind'[q] = "replace" => kind[q] = "replace",
         \A q \in Procs : sole'[q] => sole[q],
         \A q \in Procs : /\ sole[q] /\ kind[q] = "replace"
                          /\ kind'[q] = "replace" /\ pc'[q] = "apply"
           => /\ pc[q] = "apply"
              /\ \/ plans'["thelve-replace-node"] = None
                 \/ UNCHANGED <<plans["thelve-replace-node"], cloud>>
  PROVE  Shown'
BY DEF Shown

LEMMA ShownNext == Typed /\ Shown /\ [Next]_all => Shown'
<1> SUFFICES ASSUME Typed, Shown, [Next]_all PROVE Shown'
  OBVIOUS
<1> USE DEF Typed, TypeOK, At, Busy, Goto, Ends, Fault, procs, workspace, history, bounds
<1>1. CASE SetSecrets BY <1>1, ShownKept DEF SetSecrets
<1>2. CASE Edit BY <1>2, ShownKept DEF Edit
<1>3. ASSUME NEW p \in Procs, Terminal(p) PROVE Shown'
  <2>a. \A c : Becomes(c) => \/ cloud' = cloud /\ plans' = plans
                            \/ plans'["thelve-replace-node"] = None
    BY DEF Becomes, PlanFile
  <2>1. ASSUME NEW k \in Command, Begin(p, k) PROVE Shown'
    <3>1. /\ sole'[p] => \A q \in Procs \ {p} : kind[q] # "replace"
          /\ \A q \in Procs \ {p} : sole'[q] => sole[q] /\ k # "replace"
      <4>1. sole' = [q \in Procs |-> IF q = p THEN \A o \in Procs \ {p} : kind[o] # "replace"
                                     ELSE sole[q] /\ k # "replace"]
        BY <2>1 DEF Begin
      <4> QED
        BY <4>1, Zenon
    <3>2. /\ kind' = [kind EXCEPT ![p] = k]
          /\ pc'[p] # "apply" /\ \A q \in Procs \ {p} : pc'[q] = pc[q]
          /\ UNCHANGED <<plans, cloud>>
      BY <2>1 DEF Begin
    <3> QED
      BY <3>1, <3>2 DEF Shown
  <2>2. CASE CheckVersions(p) BY <2>2, ShownKept DEF CheckVersions
  <2>3. CASE Refresh(p) BY <2>3, ShownKept DEF Refresh
  <2>4. CASE RefreshWrite(p) BY <2>4, ShownKept DEF RefreshWrite
  <2>5. CASE VarsOpen(p) BY <2>5, ShownKept DEF VarsOpen
  <2>6. CASE VarsWrite(p) BY <2>6, ShownKept DEF VarsWrite
  <2>7. CASE InitBackend(p)
    <3>1. /\ kind' = kind \/ kind' = [kind EXCEPT ![p] = None]
          /\ \A q \in Procs \ {p} : pc'[q] = pc[q]
          /\ pc'[p] # "apply" /\ UNCHANGED <<plans, cloud, sole>>
      BY <2>7 DEF InitBackend
    <3> QED
      BY <3>1, ShownKept, NoneIsNoCommand
  <2>8. CASE SavePlan(p)
    <3>1. kind[p] # "replace" => plans'["thelve-replace-node"] = plans["thelve-replace-node"]
      BY <2>8, Files DEF SavePlan, PlanFile
    <3>2. /\ kind' = kind \/ kind' = [kind EXCEPT ![p] = None]
          /\ \A q \in Procs \ {p} : pc'[q] = pc[q]
          /\ pc'[p] = "apply" => kind[p] # "replace"
          /\ UNCHANGED <<cloud, sole>>
      BY <2>8 DEF SavePlan
    <3>3. ASSUME NEW q \in Procs, sole[q], kind[q] = "replace", pc'[q] = "apply"
          PROVE  pc[q] = "apply" /\ kind[p] # "replace"
      BY <3>2, <3>3 DEF Shown
    <3> QED
      BY <3>1, <3>2, <3>3, ShownKept, NoneIsNoCommand
  <2>9. CASE Show(p)
    <3>1. FileOf("replace") = "thelve-replace-node"
      BY DEF FileOf
    <3>2. plans["thelve-replace-node"].cfg = cloud.rest
      BY <2>9, <3>1 DEF Show, Exact
    <3>3. UNCHANGED <<plans, cloud, kind, sole>>
      BY <2>9 DEF Show
    <3> QED
      BY <3>2, <3>3 DEF Shown
  <2>10. CASE Apply(p)
    <3>1. /\ kind' = kind \/ kind' = [kind EXCEPT ![p] = None]
          /\ \A q \in Procs \ {p} : pc'[q] = pc[q]
          /\ pc'[p] # "apply" /\ UNCHANGED sole
      BY <2>10 DEF Apply
    <3>2. \/ cloud' = cloud /\ plans' = plans
          \/ plans'["thelve-replace-node"] = None
      BY <2>10, <2>a DEF Apply
    <3> QED
      BY <3>1, <3>2, ShownKept, NoneIsNoCommand
  <2>11. CASE ApplyFails(p)
    <3>1. /\ kind' = [kind EXCEPT ![p] = None]
          /\ \A q \in Procs \ {p} : pc'[q] = pc[q]
          /\ pc'[p] # "apply" /\ UNCHANGED sole
      BY <2>11 DEF ApplyFails
    <3>2. \/ cloud' = cloud /\ plans' = plans
          \/ plans'["thelve-replace-node"] = None
      BY <2>11, <2>a DEF ApplyFails
    <3> QED
      BY <3>1, <3>2, ShownKept, NoneIsNoCommand
  <2>12. ASSUME Refuse(p) \/ Stop(p) PROVE Shown'
    <3>1. /\ kind' = [kind EXCEPT ![p] = None]
          /\ \A q \in Procs \ {p} : pc'[q] = pc[q]
          /\ pc'[p] # "apply" /\ UNCHANGED <<plans, cloud, sole>>
      BY <2>12 DEF Refuse, Stop
    <3> QED
      BY <3>1, ShownKept, NoneIsNoCommand
  <2> QED
    BY <1>3, <2>1, <2>2, <2>3, <2>4, <2>5, <2>6, <2>7, <2>8, <2>9, <2>10, <2>11,
       <2>12 DEF Terminal
<1>4. CASE UNCHANGED all BY <1>4, ShownKept DEF all
<1> QED
  BY <1>1, <1>2, <1>3, <1>4 DEF Next

-------------------------------------------------------------------------------
(* A command that runs alone finds what it wrote.                          *)

Alone ==
  \A p \in Procs : alone[p] /\ pc[p] # "idle" =>
    /\ \A q \in Procs \ {p} : pc[q] = "idle"
    /\ pc[p] \in {"init", "plan", "show", "apply"} => vars = Mine(p)
    /\ pc[p] \in {"show", "apply"} /\ plans[FileOf(kind[p])] # None
         => /\ plans[FileOf(kind[p])].power = Asked(kind[p])
            /\ plans[FileOf(kind[p])].cfg = cfg[p]
    /\ kind[p] = "up" /\ pc[p] # "check" => versions
    /\ kind[p] = "replace" /\ phase[p] # "after" => versions

LEMMA AloneInit == Init => Alone
BY DEF Init, Alone

LEMMA AloneNext == Typed /\ Alone /\ [Next]_all => Alone'
<1> SUFFICES ASSUME Typed, Alone, [Next]_all PROVE Alone'
  OBVIOUS
<1> USE DEF Typed, TypeOK, Alone, At, Busy, Goto, Ends, Fault, procs, workspace, history, bounds, Mine
<1>1. CASE SetSecrets BY <1>1 DEF SetSecrets
<1>2. CASE Edit BY <1>2 DEF Edit
<1>3. ASSUME NEW p \in Procs, Terminal(p) PROVE Alone'
  <2>1. ASSUME NEW k \in Command, Begin(p, k) PROVE Alone'
    <3>1. /\ alone'[p] => \A q \in Procs \ {p} : pc'[q] = "idle"
          /\ \A q \in Procs \ {p} : ~alone'[q]
      <4>1. alone' = [q \in Procs |-> q = p /\ \A o \in Procs \ {p} : pc[o] = "idle"]
        BY <2>1 DEF Begin
      <4>2. /\ alone'[p] => \A o \in Procs \ {p} : pc[o] = "idle"
            /\ \A q \in Procs \ {p} : ~alone'[q]
        BY <4>1, Zenon
      <4>3. \A q \in Procs \ {p} : pc'[q] = pc[q]
        BY <2>1 DEF Begin
      <4> QED
        BY <4>2, <4>3
    <3>2. pc'[p] = (IF k = "up" THEN "check" ELSE "refresh") /\ kind'[p] = k
      BY <2>1 DEF Begin
    <3>3. k = "replace" => versions'
      BY <2>1 DEF Begin, MayReplace
    <3> QED
      BY <3>1, <3>2, <3>3
  <2>2. CASE CheckVersions(p) BY <2>2 DEF CheckVersions
  <2>3. CASE Refresh(p) BY <2>3 DEF Refresh
  <2>4. CASE RefreshWrite(p) BY <2>4 DEF RefreshWrite
  <2>5. CASE VarsOpen(p) BY <2>5 DEF VarsOpen, Kept
  <2>6. CASE VarsWrite(p) BY <2>6 DEF VarsWrite
  <2>7. CASE InitBackend(p) BY <2>7 DEF InitBackend
  <2>8. CASE SavePlan(p) BY <2>8, Files DEF SavePlan
  <2>9. CASE Show(p) BY <2>9 DEF Show
  <2>10. CASE Apply(p) BY <2>10 DEF Apply
  <2>11. CASE ApplyFails(p) BY <2>11 DEF ApplyFails
  <2>12. CASE Refuse(p) BY <2>12 DEF Refuse
  <2>13. CASE Stop(p) BY <2>13 DEF Stop
  <2> QED
    BY <1>3, <2>1, <2>2, <2>3, <2>4, <2>5, <2>6, <2>7, <2>8, <2>9, <2>10, <2>11,
       <2>12, <2>13 DEF Terminal
<1>4. CASE UNCHANGED all BY <1>4 DEF all
<1> QED
  BY <1>1, <1>2, <1>3, <1>4 DEF Next

-------------------------------------------------------------------------------
(* A command that runs alone is refused on purpose only.                   *)

Clean ==
  \A p \in Procs : alone[p] /\ pc[p] # "idle" =>
    /\ pc[p] \in {"vars", "writing", "init", "plan", "show", "apply"} => files = "ours"
    /\ pc[p] \in {"show", "apply"} => plans[FileOf(kind[p])] # None
    /\ kind[p] = "replace" /\ phase[p] # "after" => cloud.host # None

LEMMA CleanInit == Init => Clean
BY DEF Init, Clean

LEMMA CleanNext == Typed /\ Alone /\ Clean /\ [Next]_all => Clean'
<1> SUFFICES ASSUME Typed, Alone, Clean, [Next]_all PROVE Clean'
  OBVIOUS
<1> USE DEF Typed, TypeOK, Alone, Clean, At, Busy, Goto, Ends, Fault, procs, workspace, history, bounds, Mine
<1>1. CASE SetSecrets BY <1>1 DEF SetSecrets
<1>2. CASE Edit BY <1>2 DEF Edit
<1>3. ASSUME NEW p \in Procs, Terminal(p) PROVE Clean'
  <2>1. ASSUME NEW k \in Command, Begin(p, k) PROVE Clean'
    <3>1. /\ alone'[p] => \A q \in Procs \ {p} : pc'[q] = "idle"
          /\ \A q \in Procs \ {p} : ~alone'[q]
      <4>1. alone' = [q \in Procs |-> q = p /\ \A o \in Procs \ {p} : pc[o] = "idle"]
        BY <2>1 DEF Begin
      <4>2. /\ alone'[p] => \A o \in Procs \ {p} : pc[o] = "idle"
            /\ \A q \in Procs \ {p} : ~alone'[q]
        BY <4>1, Zenon
      <4>3. \A q \in Procs \ {p} : pc'[q] = pc[q]
        BY <2>1 DEF Begin
      <4> QED
        BY <4>2, <4>3
    <3>2. pc'[p] = (IF k = "up" THEN "check" ELSE "refresh") /\ kind'[p] = k
      BY <2>1 DEF Begin
    <3>3. k = "replace" => cloud'.host # None
      BY <2>1, NoneIsNoCommand DEF Begin, MayReplace
    <3> QED
      BY <3>1, <3>2, <3>3
  <2>2. CASE CheckVersions(p) BY <2>2 DEF CheckVersions
  <2>3. CASE Refresh(p) BY <2>3 DEF Refresh
  <2>4. CASE RefreshWrite(p) BY <2>4 DEF RefreshWrite
  <2>5. CASE VarsOpen(p) BY <2>5 DEF VarsOpen, Kept
  <2>6. CASE VarsWrite(p) BY <2>6 DEF VarsWrite
  <2>7. CASE InitBackend(p) BY <2>7 DEF InitBackend
  <2>8. CASE SavePlan(p)
    <3>1. PICK k \in {"apply", "destroy", "replace"} :
            plans' = [plans EXCEPT ![FileOf(kind[p])] =
                        [kind |-> k, power |-> vars.power, cfg |-> vars.cfg]]
      BY <2>8 DEF SavePlan
    <3>2. vars.power \in Power /\ vars.cfg \in Configs /\ FileOf(kind[p]) \in PlanFile
      BY <2>8, Files DEF SavePlan, Readable, Vars
    <3>3. plans'[FileOf(kind[p])] \in Plan
      BY <3>1, <3>2 DEF Plan
    <3>4. plans'[FileOf(kind[p])] # None
      BY <3>3, NoneIsNoCommand
    <3>5. /\ \A q \in Procs \ {p} : pc'[q] = pc[q] /\ kind'[q] = kind[q] /\ phase'[q] = phase[q]
          /\ \/ pc'[p] = "idle"
             \/ kind'[p] = kind[p] /\ phase'[p] = phase[p]
          /\ UNCHANGED <<files, cloud, alone>>
          /\ pc[p] = "plan"
      BY <2>8 DEF SavePlan
    <3>6. \A q \in Procs \ {p} : alone[q] => pc[q] = "idle"
      BY <3>5
    <3> QED
      BY <3>4, <3>5, <3>6
  <2>9. CASE Show(p) BY <2>9 DEF Show
  <2>10. CASE Apply(p) BY <2>10 DEF Apply
  <2>11. CASE ApplyFails(p) BY <2>11 DEF ApplyFails
  <2>12. CASE Refuse(p) BY <2>12 DEF Refuse
  <2>13. CASE Stop(p) BY <2>13 DEF Stop
  <2> QED
    BY <1>3, <2>1, <2>2, <2>3, <2>4, <2>5, <2>6, <2>7, <2>8, <2>9, <2>10, <2>11,
       <2>12, <2>13 DEF Terminal
<1>4. CASE UNCHANGED all BY <1>4 DEF all
<1> QED
  BY <1>1, <1>2, <1>3, <1>4 DEF Next

-------------------------------------------------------------------------------
(* The theorems.                                                           *)

IInv == Typed /\ Shown /\ Alone /\ Clean

LEMMA Inductive == Spec => []IInv
<1>1. Init => IInv
  BY TypedInit, ShownInit, AloneInit, CleanInit DEF IInv
<1>2. IInv /\ [Next]_all => IInv'
  BY TypedNext, ShownNext, AloneNext, CleanNext DEF IInv
<1> QED
  BY <1>1, <1>2, PTL DEF Spec

\* The cloud changes only where a command applies the plan its file holds.
LEMMA ChangesByPlan ==
  ASSUME Typed, [Next]_all, cloud' # cloud
  PROVE  \E p \in Procs :
           /\ Apply(p) \/ ApplyFails(p)
           /\ pc[p] = "apply" /\ pc'[p] # "apply"
           /\ kind[p] \in Command \ {"plan", "status"}
           /\ plans[FileOf(kind[p])] # None /\ plans[FileOf(kind[p])] \in Plan
           /\ cloud' \in Partial(plans[FileOf(kind[p])])
<1>1. PICK p \in Procs : Apply(p) \/ ApplyFails(p)
  BY DEF Next, Terminal, SetSecrets, Edit, Begin, CheckVersions, Refresh, RefreshWrite,
     VarsOpen, VarsWrite, InitBackend, SavePlan, Show, Refuse, Stop, all
<1>2. pc[p] = "apply" /\ kind[p] \in Command \ {"plan", "status"}
  BY <1>1 DEF Apply, ApplyFails, At, Typed
<1>3. plans[FileOf(kind[p])] # None /\ plans[FileOf(kind[p])] \in Plan
  BY <1>1, <1>2, Files DEF Apply, ApplyFails, Fresh, Typed, TypeOK
<1>4. cloud' \in Partial(plans[FileOf(kind[p])])
  BY <1>1 DEF Apply, ApplyFails, Becomes, Partial
<1>5. pc'[p] # "apply"
  BY <1>1 DEF Apply, ApplyFails, Ends, Typed, TypeOK
<1> QED
  BY <1>1, <1>2, <1>3, <1>4, <1>5

\* The plans a file can hold are of one kind.
LEMMA KindOfPlan ==
  ASSUME Typed, NEW k \in Command, plans[FileOf(k)] # None
  PROVE  /\ plans[FileOf(k)].kind = "destroy" <=> k = "destroy"
         /\ plans[FileOf(k)].kind = "replace" <=> k = "replace"
<1>1. FileOf(k) \in {"thelve", "thelve-destroy", "thelve-replace-node"}
  BY Files DEF PlanFile
<1> QED
  BY <1>1, Files DEF Typed, TypeOK

\* What a plan can do to the cloud, by its kind.
LEMMA Effects ==
  ASSUME TypeOK, NEW pl \in Plan, NEW c \in Partial(pl), c # cloud
  PROVE  /\ pl.kind # "destroy" => c.rest \in {cloud.rest, pl.cfg}
         /\ c.host # cloud.host /\ c.host # None => c.host = pl.power /\ pl.kind # "destroy"
<1>1. CASE pl.kind = "destroy"
  <2>1. c \in {[host |-> None, rest |-> None], [cloud EXCEPT !.host = None]}
    BY <1>1 DEF Partial, Target
  <2> QED
    BY <1>1, <2>1 DEF TypeOK
<1>2. CASE pl.kind = "replace"
  <2>1. c \in {[host |-> pl.power, rest |-> pl.cfg], [host |-> None, rest |-> pl.cfg]}
    BY <1>2 DEF Partial, Target
  <2> QED
    BY <1>2, <2>1
<1>3. CASE pl.kind = "apply"
  <2>1. c \in {[host |-> pl.power, rest |-> pl.cfg], [cloud EXCEPT !.rest = pl.cfg]}
    BY <1>3 DEF Partial, Target
  <2> QED
    BY <1>3, <2>1 DEF TypeOK
<1> QED
  BY <1>1, <1>2, <1>3 DEF Plan

\* The workspace of src/terraform.rs keeps its types.
THEOREM TypesKept == Spec => []TypeOK
<1>1. IInv => TypeOK
  BY DEF IInv, Typed
<1> QED
  BY <1>1, Inductive, PTL

\* The address, the containers and the backups go only where `destroy`
\* applies its plan, however any number of commands overlap.
THEOREM DestroyedOnlyByDestroy == Spec => OnlyDestroyDestroys
<1>1. IInv /\ [Next]_all =>
        [cloud.rest # None /\ cloud'.rest = None
           => \E p \in Procs : kind[p] = "destroy" /\ At(p, "apply")]_all
  <2> SUFFICES ASSUME Typed, [Next]_all, cloud.rest # None, cloud'.rest = None
               PROVE  \E p \in Procs : kind[p] = "destroy" /\ At(p, "apply")
    BY DEF IInv
  <2>1. PICK p \in Procs :
          /\ pc[p] = "apply" /\ kind[p] \in Command
          /\ plans[FileOf(kind[p])] # None /\ plans[FileOf(kind[p])] \in Plan
          /\ cloud' \in Partial(plans[FileOf(kind[p])])
    <3>1. cloud' # cloud
      OBVIOUS
    <3> QED
      BY <3>1, ChangesByPlan
  <2>2. plans[FileOf(kind[p])].kind = "destroy"
    BY <2>1, Effects, NoneIsNoCommand DEF Typed, Plan
  <2> QED
    BY <2>1, <2>2, KindOfPlan DEF At
<1> QED
  BY <1>1, Inductive, PTL DEF Spec, OnlyDestroyDestroys

\* A replacement changes nothing but the instance, whatever but another
\* replacement overlaps it: the plan that is applied is the one validated.
THEOREM ReplacedExactly == Spec => ReplacesExactly
<1>1. IInv /\ [Next]_all =>
        [\A p \in Procs : kind[p] = "replace" /\ sole[p] /\ At(p, "apply") /\ ~At(p, "apply")'
           => cloud'.rest = cloud.rest]_all
  <2> SUFFICES ASSUME IInv, [Next]_all, NEW p \in Procs, kind[p] = "replace",
                      sole[p], pc[p] = "apply", pc'[p] # "apply", cloud' # cloud
               PROVE  cloud'.rest = cloud.rest
    BY DEF At
  <2> USE DEF IInv
  <2>1. PICK q \in Procs :
          /\ Apply(q) \/ ApplyFails(q)
          /\ plans[FileOf(kind[q])] # None /\ plans[FileOf(kind[q])] \in Plan
          /\ cloud' \in Partial(plans[FileOf(kind[q])])
    BY ChangesByPlan
  <2>2. q = p
    BY <2>1 DEF Apply, ApplyFails, Ends, Typed, TypeOK
  <2>3. FileOf(kind[p]) = "thelve-replace-node" /\ "replace" \in Command
    BY DEF FileOf, Command
  <2>4. plans["thelve-replace-node"].kind = "replace"
    BY <2>1, <2>2, <2>3 DEF Typed
  <2>5. plans["thelve-replace-node"].cfg = cloud.rest
    BY <2>1, <2>2, <2>3 DEF Shown
  <2> QED
    BY <2>1, <2>2, <2>3, <2>4, <2>5, Effects DEF Typed
<1> QED
  BY <1>1, Inductive, PTL DEF Spec, ReplacesExactly

\* A command that runs alone gets what it asked for, whatever earlier ones
\* left in the workspace.
THEOREM AppliedAsAsked == Spec => AsAsked
<1>1. IInv /\ [Next]_all =>
        [\A p \in Procs : Apply(p) /\ alone[p]
           => IF kind[p] = "destroy" THEN cloud'.rest = None
              ELSE cloud' = [host |-> Asked(kind[p]), rest |-> cfg[p]]]_all
  <2> SUFFICES ASSUME IInv, [Next]_all, NEW p \in Procs, Apply(p), alone[p]
               PROVE  IF kind[p] = "destroy" THEN cloud'.rest = None
                      ELSE cloud' = [host |-> Asked(kind[p]), rest |-> cfg[p]]
    OBVIOUS
  <2> DEFINE pl == plans[FileOf(kind[p])]
  <2>1. pc[p] = "apply" /\ kind[p] \in Command /\ pl # None /\ cloud' = Target(pl)
    BY DEF Apply, At, Fresh, Becomes, IInv, Typed
  <2>2. pl.kind = "destroy" <=> kind[p] = "destroy"
    BY <2>1, KindOfPlan DEF IInv
  <2>3. pl.power = Asked(kind[p]) /\ pl.cfg = cfg[p]
    BY <2>1 DEF IInv, Alone
  <2> QED
    BY <2>1, <2>2, <2>3 DEF Target
<1> QED
  BY <1>1, Inductive, PTL DEF Spec, AsAsked

\* The host is started with every secret in place, by any command that runs
\* alone.
THEOREM StartedWithSecrets == Spec => StartsWithSecrets
<1>1. IInv /\ [Next]_all =>
        [cloud.host # "running" /\ cloud'.host = "running"
           => \E p \in Procs : At(p, "apply") /\ (alone[p] => versions)]_all
  <2> SUFFICES ASSUME IInv, [Next]_all, cloud.host # "running", cloud'.host = "running"
               PROVE  \E p \in Procs : At(p, "apply") /\ (alone[p] => versions)
    OBVIOUS
  <2> USE DEF IInv
  <2>1. PICK p \in Procs :
          /\ pc[p] = "apply" /\ kind[p] \in Command \ {"plan", "status"}
          /\ plans[FileOf(kind[p])] # None /\ plans[FileOf(kind[p])] \in Plan
          /\ cloud' \in Partial(plans[FileOf(kind[p])])
    <3>1. cloud' # cloud
      OBVIOUS
    <3> QED
      BY <3>1, ChangesByPlan
  <2> DEFINE pl == plans[FileOf(kind[p])]
  <2>2. "running" # None /\ cloud' # cloud /\ TypeOK
    BY NoneIsNoCommand DEF Typed
  <2>3. pl.power = "running" /\ pl.kind # "destroy"
    BY <2>1, <2>2, Effects
  <2>4. kind[p] # "destroy"
    BY <2>1, <2>3, KindOfPlan
  <2>5. ASSUME alone[p] PROVE versions
    <3>1. Asked(kind[p]) = "running"
      BY <2>1, <2>3, <2>5 DEF Alone
    <3>2. kind[p] \in {"up", "replace"}
      BY <2>1, <2>4, <3>1 DEF Asked, Command
    <3> QED
      BY <2>1, <2>5, <3>2 DEF Alone, Typed
  <2> QED
    BY <2>1, <2>5 DEF At
<1> QED
  BY <1>1, Inductive, PTL DEF Spec, StartsWithSecrets

\* Whatever earlier commands left in the workspace of src/terraform.rs, a
\* command that runs alone is refused only by the checks it makes on purpose.
THEOREM OnlyChecksRefuse == Spec => []RefusedOnPurpose
<1>1. IInv => RefusedOnPurpose
  <2> SUFFICES ASSUME IInv, NEW p \in Procs, alone[p], Refused(p)
               PROVE  \/ At(p, "check")
                      \/ At(p, "show") /\ cfg[p] # cloud.rest
    BY DEF RefusedOnPurpose
  <2> USE DEF IInv, At, Clean
  <2>1. ~(At(p, "init") /\ files # "ours")
    OBVIOUS
  <2>2. ~(At(p, "plan") /\ ~Readable)
    <3> SUFFICES ASSUME pc[p] = "plan" PROVE Readable
      OBVIOUS
    <3>1. vars = Mine(p) /\ files = "ours" /\ cfg[p] \in Configs
      BY DEF Alone, Typed, TypeOK
    <3>2. Mine(p) \in Vars
      BY <3>1, Files DEF Mine, Typed, Vars
    <3>3. vars # None
      BY <3>1, <3>2, NoneIsNoCommand
    <3> QED
      BY <3>1, <3>3 DEF Readable
  <2>3. ~(At(p, "apply") /\ ~Fresh(FileOf(kind[p])))
    BY DEF Fresh
  <2>4. At(p, "show") => /\ kind[p] = "replace" /\ phase[p] = "main"
                         /\ Fresh(FileOf("replace")) /\ cloud.host # None
                         /\ plans[FileOf("replace")].cfg = cfg[p]
    BY DEF Typed, Alone, Fresh
  <2> QED
    BY <2>1, <2>2, <2>3, <2>4 DEF Refused, Exact
<1> QED
  BY <1>1, Inductive, PTL
===============================================================================
