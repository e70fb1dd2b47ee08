----------------------------- MODULE LaunchProofs -----------------------------
(***************************************************************************)
(* Proofs about Launch, for every set of requests, every list of secret    *)
(* names and any number of stopped executions.                             *)
(***************************************************************************)
EXTENDS Launch, TLAPS

-------------------------------------------------------------------------------
(* The order of the steps.                                                 *)

\* The position of each step in Order.
LEMMA OrderPositions ==
  ASSUME NEW i \in 1..NSteps
  PROVE  /\ Order[i] \in Step
         /\ Order[i] = "Intent"             <=> i = 2
         /\ Order[i] = "BootstrapState"     <=> i = 3
         /\ Order[i] = "Prepare"            <=> i = 4
         /\ Order[i] = "Domains"            <=> i = 5
         /\ Order[i] = "InternalSecrets"    <=> i = 6
         /\ Order[i] = "TelnyxSecrets"      <=> i = 7
         /\ Order[i] = "Up"                 <=> i = 8
         /\ Order[i] = "License"            <=> i = 9
         /\ Order[i] = "RenderNodeConfig"   <=> i = 10
         /\ Order[i] = "Activate"           <=> i = 11
         /\ Order[i] = "FirstAdministrator" <=> i = 12
<1>1. i \in {1, 2, 3, 4, 5, 6, 7, 8, 9, 10, 11, 12}
  BY DEF NSteps
<1> QED
  BY <1>1 DEF Order, Step, NSteps

\* No step occurs twice in Order.
LEMMA OrderInjective ==
  ASSUME NEW i \in 1..NSteps, NEW j \in 1..NSteps, Order[i] = Order[j]
  PROVE  i = j
<1>1. i \in {1, 2, 3, 4, 5, 6, 7, 8, 9, 10, 11, 12}
  BY DEF NSteps
<1>2. j \in {1, 2, 3, 4, 5, 6, 7, 8, 9, 10, 11, 12}
  BY DEF NSteps
<1> QED
  BY <1>1, <1>2 DEF Order, NSteps

\* The names the checks quantify over are strings of secret names.
LEMMA NamesFacts ==
  /\ Internal \subseteq Names /\ Telnyx \subseteq Names
  /\ Names = Internal \cup Telnyx
  /\ OperatorNames \subseteq Names
  /\ Len(InternalNames) \in Nat \ {0} /\ Len(TelnyxNames) \in Nat \ {0}
  /\ \A i \in 1..Len(InternalNames) : InternalNames[i] \in Internal
  /\ \A i \in 1..Len(TelnyxNames) : TelnyxNames[i] \in Telnyx
<1>1. InternalNames \in Seq(Names) /\ TelnyxNames \in Seq(Names)
  BY NamesAssumption
<1>2. Len(InternalNames) \in Nat /\ Len(TelnyxNames) \in Nat
  BY <1>1
<1>3. Len(InternalNames) # 0 /\ Len(TelnyxNames) # 0
  BY <1>2, NamesAssumption
<1>4. Names = Internal \cup Telnyx
  BY DEF Names, Internal, Telnyx
<1>5. OperatorNames \subseteq Names
  BY NamesAssumption
<1> QED
  BY <1>2, <1>3, <1>4, <1>5 DEF Internal, Telnyx

-------------------------------------------------------------------------------
(* Types.                                                                  *)

\* An execution that is inside a step is at one of the steps of Order.
InStep == pc \in {"within", "record", "recording"} => at <= NSteps

Typed0 == TypeOK /\ InStep

LEMMA TypeInit == Init => Typed0
BY ParameterAssumption
   DEF Init, Typed0, TypeOK, InStep, NoIntent, FileState, None, Version,
       Phases, NSteps

\* Every action of the command, the stops and the operator keep the types.
LEMMA TypeNext == Typed0 /\ [Next]_vars => Typed0'
<1> SUFFICES ASSUME TypeOK, InStep, [Next]_vars PROVE TypeOK' /\ InStep'
  BY DEF Typed0
<1> USE DEF TypeOK, files, world, Proceed, Enter, Leave, Running, Within,
            InStep, FileState, Contents, Phases
<1>a. NSteps = 12
  BY DEF NSteps
<1>b. \A i \in 1..NSteps : Order[i] \in Step
  BY DEF Step
<1>1. CASE Start BY <1>1, <1>a DEF Start
<1>2. CASE Skip BY <1>2, <1>a DEF Skip
<1>3. CASE RecordOpen BY <1>3 DEF RecordOpen
<1>4. CASE RecordWrite BY <1>4, <1>a, <1>b DEF RecordWrite
<1>5. CASE StatusAndPrint BY <1>5 DEF StatusAndPrint
<1>6. CASE Refuse BY <1>6, <1>a DEF Refuse
<1>7. CASE Doctor BY <1>7 DEF Doctor
<1>8. CASE IntentKept BY <1>8 DEF IntentKept
<1>9. CASE IntentOpen BY <1>9 DEF IntentOpen, NoIntent
<1>10. CASE IntentWrite BY <1>10 DEF IntentWrite
<1>11. CASE BootstrapState BY <1>11 DEF BootstrapState
<1>12. CASE Prepare BY <1>12 DEF Prepare
<1>13. CASE DomainsKept BY <1>13 DEF DomainsKept
<1>14. CASE DomainsOpen BY <1>14 DEF DomainsOpen
<1>15. CASE DomainsWrite BY <1>15 DEF DomainsWrite
<1>16. CASE InternalKept BY <1>16 DEF InternalKept
<1>17. CASE InternalGenerate BY <1>17 DEF InternalGenerate
<1>c. Batch(stops) \in Version /\ Typed \in Version /\ Provided \in Version
  BY DEF Batch, Typed, Provided, Version
<1>d. \A n, v : v \in Version => [secret EXCEPT ![n] = v] \in [Names -> Version]
  OBVIOUS
<1>18. CASE InternalWrite BY <1>18, <1>c, <1>d DEF InternalWrite
<1>19. CASE TelnyxKept BY <1>19 DEF TelnyxKept
<1>20. CASE TelnyxPrompt BY <1>20 DEF TelnyxPrompt
<1>21. CASE TelnyxSet BY <1>21, <1>c, <1>d DEF TelnyxSet
<1>22. CASE Up BY <1>22 DEF Up
<1>23. CASE LicenseKept BY <1>23 DEF LicenseKept
<1>24. CASE LicenseOpen BY <1>24 DEF LicenseOpen
<1>25. CASE LicenseWrite BY <1>25 DEF LicenseWrite
<1>26. CASE RenderOpen BY <1>26 DEF RenderOpen
<1>27. CASE RenderWrite BY <1>27 DEF RenderWrite
<1>28. CASE ActivateRemote BY <1>28 DEF ActivateRemote
<1>29. CASE ActivateReceiptOpen BY <1>29 DEF ActivateReceiptOpen
<1>30. CASE ActivateReceiptWrite BY <1>30 DEF ActivateReceiptWrite
<1>31. CASE AdministratorExternal BY <1>31 DEF AdministratorExternal
<1>32. CASE AdministratorCreated BY <1>32 DEF AdministratorCreated
<1>33. CASE AdministratorExists BY <1>33 DEF AdministratorExists
<1>34. CASE ActivateFails BY <1>34, <1>a DEF ActivateFails
<1>35. CASE Stop BY <1>35, <1>a DEF Stop
<1>36. CASE \E n \in OperatorNames : OperatorSets(n)
  BY <1>36, <1>c, <1>d DEF OperatorSets
<1>37. CASE UNCHANGED vars BY <1>37 DEF vars
<1> QED
  BY <1>1, <1>2, <1>3, <1>4, <1>5, <1>6, <1>7, <1>8, <1>9, <1>10, <1>11, <1>12,
     <1>13, <1>14, <1>15, <1>16, <1>17, <1>18, <1>19, <1>20, <1>21, <1>22,
     <1>23, <1>24, <1>25, <1>26, <1>27, <1>28, <1>29, <1>30, <1>31, <1>32,
     <1>33, <1>34, <1>35, <1>36, <1>37 DEF Next, Command

\* The launch keeps its types: src/launch.rs gives no variable another value.
THEOREM TypesKept == Spec => []TypeOK
<1>1. Init => Typed0
  BY TypeInit
<1>2. Typed0 /\ [Next]_vars => Typed0'
  BY TypeNext
<1>3. Typed0 => TypeOK
  BY DEF Typed0
<1> QED
  BY <1>1, <1>2, <1>3, PTL DEF Spec

-------------------------------------------------------------------------------
(* The control skeleton.  What an action does to the loop is one of eight  *)
(* moves, and the proofs about order need no more than that.               *)

done == receipt.done

Starts  == pc = "idle" /\ pc' = "loop" /\ at' = 1 /\ mem' = done /\ done' = done
Skips   == /\ pc = "loop" /\ at <= NSteps /\ Order[at] \in mem /\ at' = at + 1
           /\ pc' = pc /\ mem' = mem /\ done' = done
Begins  == /\ pc = "loop" /\ at <= NSteps /\ Order[at] \notin mem
           /\ pc' \in {"within", "record"}
           /\ at' = at /\ mem' = mem /\ done' = done
GoesOn  == /\ pc = "within" /\ pc' \in {"within", "record"}
           /\ at' = at /\ mem' = mem /\ done' = done
Opens   == /\ pc = "record" /\ pc' = "recording"
           /\ at' = at /\ mem' = mem /\ done' = done
Records == /\ pc = "recording" /\ pc' = "loop" /\ at' = at + 1
           /\ mem' = mem \cup {Order[at]} /\ done' = mem'
Ends    == pc # "idle" /\ pc' = "idle" /\ done' = done
Rests   == pc' = pc /\ at' = at /\ mem' = mem /\ done' = done

Moves == Starts \/ Skips \/ Begins \/ GoesOn \/ Opens \/ Records \/ Ends \/ Rests

\* Every step of the specification is one of the eight moves.
LEMMA ControlMoves == TypeOK /\ [Next]_vars => Moves
<1> SUFFICES ASSUME TypeOK, [Next]_vars PROVE Moves
  OBVIOUS
<1> USE DEF files, done, Running, Within, Proceed, Enter, Leave
<1>0. receipt.done \in SUBSET Step /\ [receipt EXCEPT !.state = "torn"].done = receipt.done
  BY DEF TypeOK
<1>1. Start => Starts
  BY DEF Start, Starts
<1>2. Skip => Skips
  BY DEF Skip, Skips
<1>3. RecordOpen => Opens
  BY <1>0 DEF RecordOpen, Opens
<1>4. RecordWrite => Records
  BY DEF RecordWrite, Records
<1>5. StatusAndPrint \/ Refuse \/ Stop \/ ActivateFails => Ends
  BY DEF StatusAndPrint, Refuse, Stop, ActivateFails, Ends
<1>6. Doctor \/ IntentKept \/ IntentOpen \/ BootstrapState \/ Prepare => Begins
  BY DEF Doctor, IntentKept, IntentOpen, BootstrapState, Prepare, Begins
<1>7. DomainsKept \/ DomainsOpen \/ InternalKept \/ InternalGenerate => Begins
  BY DEF DomainsKept, DomainsOpen, InternalKept, InternalGenerate, Begins
<1>8. TelnyxKept \/ TelnyxPrompt \/ Up \/ LicenseKept \/ LicenseOpen => Begins
  BY DEF TelnyxKept, TelnyxPrompt, Up, LicenseKept, LicenseOpen, Begins
<1>9. RenderOpen \/ ActivateRemote \/ AdministratorExternal => Begins
  BY DEF RenderOpen, ActivateRemote, AdministratorExternal, Begins
<1>10. AdministratorCreated \/ AdministratorExists => Begins
  BY DEF AdministratorCreated, AdministratorExists, Begins
<1>11. IntentWrite \/ DomainsWrite \/ LicenseWrite \/ RenderWrite => GoesOn
  BY DEF IntentWrite, DomainsWrite, LicenseWrite, RenderWrite, GoesOn
<1>12. InternalWrite \/ TelnyxSet => GoesOn
  BY DEF InternalWrite, TelnyxSet, GoesOn
<1>13. ActivateReceiptOpen \/ ActivateReceiptWrite => GoesOn
  BY DEF ActivateReceiptOpen, ActivateReceiptWrite, GoesOn
<1>14. (\E n \in OperatorNames : OperatorSets(n)) \/ UNCHANGED vars => Rests
  BY DEF OperatorSets, vars, Rests
<1> QED
  BY <1>1, <1>2, <1>3, <1>4, <1>5, <1>6, <1>7, <1>8, <1>9, <1>10, <1>11,
     <1>12, <1>13, <1>14 DEF Next, Command, Moves

\* The steps recorded are those before some step of Order; the receipt in
\* memory is the one on disk; and an execution stands at the first step
\* that is not recorded, or before it.
InOrder ==
  /\ pc # "idle" => mem = done /\ \A j \in 1..(at - 1) : Order[j] \in done
  /\ pc \in {"within", "record", "recording"} => at <= NSteps /\ Order[at] \notin done
  /\ \A i \in 1..NSteps : Order[i] \in done => \A j \in 1..i : Order[j] \in done

LEMMA InOrderInit == Init => InOrder
BY DEF Init, InOrder, done

LEMMA InOrderNext == TypeOK /\ InOrder /\ Moves => InOrder'
<1> SUFFICES ASSUME TypeOK, InOrder, Moves PROVE InOrder'
  OBVIOUS
<1>1. at \in 1..13 /\ NSteps = 12
  BY DEF TypeOK, NSteps
<1> USE <1>1 DEF InOrder
<1>2. CASE Starts BY <1>2 DEF Starts
<1>3. CASE Skips BY <1>3 DEF Skips
<1>4. CASE Begins BY <1>4 DEF Begins
<1>5. CASE GoesOn BY <1>5 DEF GoesOn
<1>6. CASE Opens BY <1>6 DEF Opens
<1>7. CASE Records
  <2>1. done' = done \cup {Order[at]} /\ mem' = done' /\ at' = at + 1 /\ pc' = "loop"
    BY <1>7 DEF Records
  <2>2. \A j \in 1..at : Order[j] \in done'
    BY <1>7, <2>1 DEF Records
  <2>3. ASSUME NEW i \in 1..NSteps, Order[i] \in done', NEW j \in 1..i
        PROVE  Order[j] \in done'
    <3>1. CASE Order[i] \in done BY <3>1, <2>1, <2>3
    <3>2. CASE Order[i] = Order[at]
      <4>1. at \in 1..NSteps
        BY <1>7 DEF Records
      <4>2. i = at
        BY <3>2, <4>1, OrderInjective
      <4> QED BY <4>2, <2>2
    <3> QED BY <3>1, <3>2, <2>1, <2>3
  <2> QED BY <2>1, <2>2, <2>3
<1>8. CASE Ends BY <1>8 DEF Ends
<1>9. CASE Rests BY <1>9 DEF Rests
<1> QED BY <1>2, <1>3, <1>4, <1>5, <1>6, <1>7, <1>8, <1>9 DEF Moves

LEMMA TypedInOrder == Spec => [](Typed0 /\ InOrder)
<1>1. Typed0 /\ InOrder /\ [Next]_vars => (Typed0 /\ InOrder)'
  BY TypeNext, ControlMoves, InOrderNext DEF Typed0
<1> QED
  BY <1>1, TypeInit, InOrderInit, PTL DEF Spec

-------------------------------------------------------------------------------
(* The launch implements a resumable sequence of steps.                    *)

\* The refinement of ResumableSteps: begun in order, never twice, for any
\* number of stopped executions.
THEOREM LaunchResumesInOrder == Spec => ResumesInOrder
<1> DEFINE run == IF pc \in {"within", "record", "recording"} THEN at ELSE 0
<1>1. Init => Resumable!RInit
  BY DEF Init, Resumable!RInit
<1>2. ASSUME Typed0, InOrder, [Next]_vars
      PROVE  [Resumable!RNext]_(Resumable!rvars)
  <2>1. Moves
    BY <1>2, ControlMoves DEF Typed0
  <2>2. at \in 1..13 /\ NSteps = 12 /\ DOMAIN Order = 1..12
    BY <1>2 DEF Typed0, TypeOK, NSteps, Order
  <2> USE <1>2, <2>2 DEF done, Resumable!RNext, Resumable!rvars
  <2>3. CASE Starts BY <2>3 DEF Starts
  <2>4. CASE Skips BY <2>4 DEF Skips
  <2>5. CASE Begins
    <3>1. Resumable!Begin(at)
      BY <2>5 DEF Begins, InOrder, Resumable!Begin
    <3> QED BY <3>1, <2>5 DEF Begins
  <2>6. CASE GoesOn BY <2>6 DEF GoesOn
  <2>7. CASE Opens BY <2>7 DEF Opens
  <2>8. CASE Records
    <3>1. Resumable!Complete
      BY <2>8 DEF Records, InOrder, Resumable!Complete
    <3> QED BY <3>1
  <2>9. CASE Ends
    <3>1. CASE run = 0 BY <2>9, <3>1 DEF Ends
    <3>2. CASE run # 0
      <4>1. Resumable!Abandon
        BY <2>9, <3>2 DEF Ends, Resumable!Abandon
      <4> QED BY <4>1
    <3> QED BY <3>1, <3>2
  <2>10. CASE Rests BY <2>10 DEF Rests
  <2> QED BY <2>1, <2>3, <2>4, <2>5, <2>6, <2>7, <2>8, <2>9, <2>10 DEF Moves
<1> QED
  BY <1>1, <1>2, TypedInOrder, PTL DEF Spec, ResumesInOrder, Resumable!RSpec

-------------------------------------------------------------------------------
(* The receipt is honest.                                                  *)

\* Nothing at or after the step under way is recorded.
LEMMA NothingAhead ==
  ASSUME TypeOK, InOrder, at <= NSteps, Order[at] \notin done
  PROVE  \A j \in at..NSteps : Order[j] \notin done
<1>1. at \in 1..13 /\ NSteps = 12
  BY DEF TypeOK, NSteps
<1> QED
  BY <1>1 DEF InOrder

\* An action that touches at most the secret store, and there only adds
\* versions, undoes no step.
LEMMA SameEffects ==
  ASSUME TypeOK, UNCHANGED <<request, intent, nodeConfig, activation>>,
         UNCHANGED <<bucket, host, node, user>>,
         \A n \in Names : Exists(n) => Exists(n)',
         NEW s \in Step, Effect(s)
  PROVE  Effect(s)'
BY NamesFacts DEF Effect

\* What holds inside a step and between a step's effect and its record.
Inside ==
  /\ Within("InternalSecrets") =>
       /\ k \in 1..Len(InternalNames)
       /\ \A i \in 1..(k - 1) : Exists(InternalNames[i])
  /\ Within("TelnyxSecrets") =>
       /\ k \in 1..Len(TelnyxNames)
       /\ \A i \in 1..(k - 1) : Exists(TelnyxNames[i])
  /\ Within("RenderNodeConfig") => nodeConfig.state = "torn"
  /\ Within("Activate") => node.service = "active"
  /\ pc \in {"record", "recording"} => Effect(Order[at])

\* A version that is there stays there; it may be replaced by another.
LEMMA VersionsStay ==
  TypeOK /\ [Next]_vars => \A n \in Names : Exists(n) => Exists(n)'
<1> SUFFICES ASSUME TypeOK, [Next]_vars PROVE \A n \in Names : Exists(n) => Exists(n)'
  OBVIOUS
<1> USE DEF Exists, TypeOK, world
<1>a. Batch(stops) # None /\ Typed # None /\ Provided # None
  BY DEF Batch, Typed, Provided, None
<1>1. CASE secret' = secret BY <1>1
<1>2. CASE \E m, v : v # None /\ secret' = [secret EXCEPT ![m] = v] BY <1>2
<1>3. InternalWrite \/ TelnyxSet \/ (\E n \in OperatorNames : OperatorSets(n))
        => \E m, v : v # None /\ secret' = [secret EXCEPT ![m] = v]
  BY <1>a DEF InternalWrite, TelnyxSet, OperatorSets
<1>4. Start \/ Skip \/ RecordOpen \/ RecordWrite \/ StatusAndPrint \/ Refuse
        \/ Doctor \/ IntentKept \/ IntentOpen \/ IntentWrite \/ BootstrapState
        => secret' = secret
  BY DEF Start, Skip, RecordOpen, RecordWrite, StatusAndPrint, Refuse, Doctor,
         IntentKept, IntentOpen, IntentWrite, BootstrapState
<1>5. Prepare \/ DomainsKept \/ DomainsOpen \/ DomainsWrite \/ InternalKept
        \/ InternalGenerate \/ TelnyxKept \/ TelnyxPrompt \/ Up
        => secret' = secret
  BY DEF Prepare, DomainsKept, DomainsOpen, DomainsWrite, InternalKept,
         InternalGenerate, TelnyxKept, TelnyxPrompt, Up
<1>6. LicenseKept \/ LicenseOpen \/ LicenseWrite \/ RenderOpen \/ RenderWrite
        \/ ActivateRemote \/ ActivateReceiptOpen \/ ActivateReceiptWrite
        => secret' = secret
  BY DEF LicenseKept, LicenseOpen, LicenseWrite, RenderOpen, RenderWrite,
         ActivateRemote, ActivateReceiptOpen, ActivateReceiptWrite
<1>7. AdministratorExternal \/ AdministratorCreated \/ AdministratorExists
        \/ ActivateFails \/ Stop \/ UNCHANGED vars
        => secret' = secret
  BY DEF AdministratorExternal, AdministratorCreated, AdministratorExists,
         ActivateFails, Stop, vars
<1> QED
  BY <1>1, <1>2, <1>3, <1>4, <1>5, <1>6, <1>7 DEF Next, Command

\* No action undoes a recorded step.
LEMMA RecordedStays ==
  Typed0 /\ InOrder /\ [Next]_vars
    => \A s \in done : Effect(s) => Effect(s)'
<1> SUFFICES ASSUME TypeOK, InStep, InOrder, [Next]_vars,
                    NEW s \in done, Effect(s)
             PROVE  Effect(s)'
  BY DEF Typed0
<1>a. s \in Step /\ at \in 1..13 /\ NSteps = 12
  BY DEF TypeOK, NSteps, done
<1>b. \A n \in Names : Exists(n) => Exists(n)'
  BY VersionsStay
<1>c. at <= NSteps /\ Order[at] \notin done =>
        /\ \A j \in at..12 : Order[j] \notin done
  BY NothingAhead, <1>a
<1>d. /\ Order[4] = "Prepare" /\ Order[5] = "Domains" /\ Order[8] = "Up"
      /\ Order[9] = "License" /\ Order[10] = "RenderNodeConfig"
      /\ Order[11] = "Activate"
  BY DEF Order
<1> USE <1>a, <1>b
<1>1. CASE UNCHANGED <<request, intent, nodeConfig, activation>>
           /\ UNCHANGED <<bucket, host, node, user>>
  BY <1>1, SameEffects
<1>2. CASE IntentOpen
  <2>1. at = 2
    BY <1>2, OrderPositions DEF IntentOpen, Running
  <2>2. s # "Domains" /\ s # "License"
    BY <2>1, <1>2, <1>c, <1>d DEF IntentOpen, Running, InOrder
  <2> QED BY <1>2, <2>2, NamesFacts DEF IntentOpen, Effect, world
<1>3. CASE IntentWrite
  <2>1. at = 2 /\ Order[at] \notin done
    BY <1>3, OrderPositions DEF IntentWrite, Within, InOrder
  <2>2. s # "Domains" /\ s # "License"
    BY <2>1, <1>c, <1>d
  <2> QED BY <1>3, <2>2, NamesFacts DEF IntentWrite, Effect, world
<1>4. CASE BootstrapState
  BY <1>4, NamesFacts DEF BootstrapState, Effect, files
<1>5. CASE Prepare
  <2>1. at = 4
    BY <1>5, OrderPositions DEF Prepare, Running
  <2>2. s # "Up"
    BY <2>1, <1>5, <1>c, <1>d DEF Prepare, Running, InOrder
  <2> QED BY <1>5, <2>2, NamesFacts DEF Prepare, Effect, files
<1>6. CASE DomainsOpen \/ LicenseOpen
  BY <1>6, NamesFacts DEF DomainsOpen, LicenseOpen, Effect, world, TypeOK
<1>7. CASE DomainsWrite \/ LicenseWrite
  BY <1>7, NamesFacts DEF DomainsWrite, LicenseWrite, Effect, world, TypeOK
<1>8. CASE Up
  BY <1>8, NamesFacts DEF Up, Effect, files
<1>9. CASE RenderOpen
  <2>1. s # "RenderNodeConfig"
    BY <1>9 DEF RenderOpen, Running, InOrder
  <2> QED BY <1>9, <2>1, NamesFacts DEF RenderOpen, Effect, world
<1>10. CASE RenderWrite
  BY <1>10, NamesFacts DEF RenderWrite, Effect, world, TypeOK
<1>11. CASE ActivateRemote \/ ActivateFails
  <2>1. s # "Activate"
    BY <1>11 DEF ActivateRemote, ActivateFails, Running, InOrder
  <2> QED BY <1>11, <2>1, NamesFacts DEF ActivateRemote, ActivateFails, Effect, files
<1>12. CASE ActivateReceiptOpen \/ ActivateReceiptWrite
  <2>1. s # "Activate"
    BY <1>12 DEF ActivateReceiptOpen, ActivateReceiptWrite, Within, InOrder
  <2> QED BY <1>12, <2>1, NamesFacts
          DEF ActivateReceiptOpen, ActivateReceiptWrite, Effect, world
<1>13. CASE AdministratorCreated
  BY <1>13, NamesFacts DEF AdministratorCreated, Effect, files
<1>14. CASE Start \/ Skip \/ RecordOpen \/ RecordWrite \/ StatusAndPrint
            \/ Refuse \/ Doctor \/ IntentKept \/ DomainsKept \/ InternalKept
            \/ InternalGenerate \/ InternalWrite
  BY <1>14, <1>1 DEF Start, Skip, RecordOpen, RecordWrite, StatusAndPrint,
     Refuse, Doctor, IntentKept, DomainsKept, InternalKept, InternalGenerate,
     InternalWrite, files, world
<1>15. CASE TelnyxKept \/ TelnyxPrompt \/ TelnyxSet \/ LicenseKept
            \/ AdministratorExternal \/ AdministratorExists \/ Stop
            \/ UNCHANGED vars
  BY <1>15, <1>1 DEF TelnyxKept, TelnyxPrompt, TelnyxSet, LicenseKept,
     AdministratorExternal, AdministratorExists, Stop, vars, files, world
<1>16. CASE \E n \in OperatorNames : OperatorSets(n)
  BY <1>16, <1>1 DEF OperatorSets, files
<1> QED
  BY <1>2, <1>3, <1>4, <1>5, <1>6, <1>7, <1>8, <1>9, <1>10, <1>11, <1>12,
     <1>13, <1>14, <1>15, <1>16 DEF Next, Command

\* A full observation is a fact: every name seen has a version.
LEMMA Observed == ASSUME NEW S, S \in Observations(S)
                  PROVE  \A n \in S : Exists(n)
BY DEF Observations, Seen

LEMMA InsideNext == Typed0 /\ InOrder /\ Inside /\ [Next]_vars => Inside'
<1> SUFFICES ASSUME TypeOK, InStep, InOrder, Inside, [Next]_vars PROVE Inside'
  BY DEF Typed0
<1>a. at \in 1..13 /\ NSteps = 12
  BY DEF TypeOK, NSteps
<1>b. \A n \in Names : Exists(n) => Exists(n)'
  BY VersionsStay
<1>c. pc' \in {"idle", "loop"} => Inside'
  BY DEF Inside, Within
<1> USE <1>a, <1>b
<1>1. CASE Start \/ Skip \/ RecordWrite \/ StatusAndPrint \/ Refuse \/ Stop
           \/ ActivateFails
  BY <1>1, <1>c DEF Start, Skip, RecordWrite, StatusAndPrint, Refuse, Stop,
     ActivateFails, TypeOK
<1>2. CASE RecordOpen
  <2>1. Effect(Order[at])'
    BY <1>2 DEF RecordOpen, Inside, Effect, world, Exists
  <2> QED BY <1>2, <2>1 DEF RecordOpen, Inside, Within
\* Steps done in one action.
<1>3. CASE Doctor \/ IntentKept \/ BootstrapState \/ Prepare \/ DomainsKept
  <2>1. pc' = "record" /\ Effect(Order[at])'
    BY <1>3 DEF Doctor, IntentKept, BootstrapState, Prepare, DomainsKept,
       Running, Loaded, Proceed, Effect, files, world
  <2> QED BY <2>1 DEF Inside, Within
<1>4. CASE InternalKept
  <2>1. \A n \in Internal : Exists(n)
    BY <1>4, Observed DEF InternalKept
  <2>2. pc' = "record" /\ Effect(Order[at])'
    BY <1>4, <2>1, NamesFacts DEF InternalKept, Running, Proceed, Effect
  <2> QED BY <2>2 DEF Inside, Within
<1>5. CASE TelnyxKept
  <2>1. \A n \in Telnyx : Exists(n)
    BY <1>5, Observed DEF TelnyxKept
  <2>2. pc' = "record" /\ Effect(Order[at])'
    BY <1>5, <2>1, NamesFacts DEF TelnyxKept, Running, Proceed, Effect
  <2> QED BY <2>2 DEF Inside, Within
<1>6. CASE Up \/ LicenseKept
  <2>1. pc' = "record" /\ Effect(Order[at])'
    BY <1>6 DEF Up, LicenseKept, Running, Proceed, Effect, files, world
  <2> QED BY <2>1 DEF Inside, Within
<1>7. CASE AdministratorExternal \/ AdministratorCreated \/ AdministratorExists
  <2>1. pc' = "record" /\ Effect(Order[at])'
    BY <1>7 DEF AdministratorExternal, AdministratorCreated,
       AdministratorExists, Running, Proceed, Effect, files, world
  <2> QED BY <2>1 DEF Inside, Within
\* The first action of a step of several writes.
<1>8. CASE IntentOpen \/ DomainsOpen \/ LicenseOpen \/ RenderOpen
  <2>1. /\ pc' = "within" /\ at' = at
        /\ Order[at] \notin {"InternalSecrets", "TelnyxSecrets", "Activate"}
        /\ Order[at] = "RenderNodeConfig" => nodeConfig'.state = "torn"
    BY <1>8 DEF IntentOpen, DomainsOpen, LicenseOpen, RenderOpen, Running, Enter
  <2> QED BY <2>1 DEF Inside, Within
<1>9. CASE InternalGenerate \/ TelnyxPrompt
  <2>1. pc' = "within" /\ at' = at /\ k' = 1
        /\ Order[at] \in {"InternalSecrets", "TelnyxSecrets"}
    BY <1>9 DEF InternalGenerate, TelnyxPrompt, Running, Enter
  <2> QED BY <2>1, NamesFacts DEF Inside, Within
<1>10. CASE ActivateRemote
  <2>1. pc' = "within" /\ at' = at /\ Order[at] = "Activate"
        /\ node'.service = "active"
    BY <1>10 DEF ActivateRemote, Running, Enter
  <2> QED BY <2>1 DEF Inside, Within
\* The last action of a step of several writes.
<1>11. CASE IntentWrite \/ DomainsWrite \/ LicenseWrite \/ RenderWrite
  <2>1. pc' = "record" /\ Effect(Order[at])' /\ at' = at
    BY <1>11 DEF IntentWrite, DomainsWrite, LicenseWrite, RenderWrite, Within,
       Leave, Effect, TypeOK
  <2> QED BY <2>1 DEF Inside, Within
<1>12. CASE InternalWrite
  <2>1. /\ k \in 1..Len(InternalNames) /\ Order[at] = "InternalSecrets"
        /\ \A i \in 1..(k - 1) : Exists(InternalNames[i])
        /\ at' = at
    BY <1>12 DEF InternalWrite, Inside, Within, Leave
  <2>2. \A i \in 1..k : Exists(InternalNames[i])'
    <3>1. ASSUME NEW i \in 1..k, i = k PROVE Exists(InternalNames[i])'
      BY <1>12, <2>1, <3>1, NamesFacts DEF InternalWrite, Exists, Batch, None, TypeOK
    <3>2. ASSUME NEW i \in 1..k, i # k PROVE Exists(InternalNames[i])'
      BY <2>1, <3>2, NamesFacts
    <3> QED BY <3>1, <3>2
  <2>3. CASE k = Len(InternalNames)
    <3>1. \A n \in Internal : Exists(n)'
      BY <2>2, <2>3 DEF Internal
    <3>2. pc' = "record" /\ Effect(Order[at])'
      BY <1>12, <2>1, <2>3, <3>1 DEF InternalWrite, Leave, Effect
    <3> QED BY <3>2 DEF Inside, Within
  <2>4. CASE k # Len(InternalNames)
    <3>1. pc' = "within" /\ k' = k + 1
      BY <1>12, <2>4 DEF InternalWrite, Within
    <3> QED BY <2>1, <2>2, <2>4, <3>1, NamesFacts DEF Inside, Within
  <2> QED BY <2>3, <2>4
<1>13. CASE TelnyxSet
  <2>1. /\ k \in 1..Len(TelnyxNames) /\ Order[at] = "TelnyxSecrets"
        /\ \A i \in 1..(k - 1) : Exists(TelnyxNames[i])
        /\ at' = at
    BY <1>13 DEF TelnyxSet, Inside, Within, Leave
  <2>2. \A i \in 1..k : Exists(TelnyxNames[i])'
    <3>1. ASSUME NEW i \in 1..k, i = k PROVE Exists(TelnyxNames[i])'
      BY <1>13, <2>1, <3>1, NamesFacts DEF TelnyxSet, Exists, Typed, None, TypeOK
    <3>2. ASSUME NEW i \in 1..k, i # k PROVE Exists(TelnyxNames[i])'
      BY <2>1, <3>2, NamesFacts
    <3> QED BY <3>1, <3>2
  <2>3. CASE k = Len(TelnyxNames)
    <3>1. \A n \in Telnyx : Exists(n)'
      BY <2>2, <2>3 DEF Telnyx
    <3>2. pc' = "record" /\ Effect(Order[at])'
      BY <1>13, <2>1, <2>3, <3>1 DEF TelnyxSet, Leave, Effect
    <3> QED BY <3>2 DEF Inside, Within
  <2>4. CASE k # Len(TelnyxNames)
    <3>1. pc' = "within" /\ k' = k + 1
      BY <1>13, <2>4 DEF TelnyxSet, Within
    <3> QED BY <2>1, <2>2, <2>4, <3>1, NamesFacts DEF Inside, Within
  <2> QED BY <2>3, <2>4
<1>14. CASE ActivateReceiptOpen
  BY <1>14 DEF ActivateReceiptOpen, Within, Inside, world
<1>15. CASE ActivateReceiptWrite
  <2>1. pc' = "record" /\ Effect(Order[at])'
    BY <1>15 DEF ActivateReceiptWrite, Within, Inside, Leave, Effect, world
  <2> QED BY <2>1 DEF Inside, Within
\* The operator, and steps that change nothing.
<1>16. CASE (\E n \in OperatorNames : OperatorSets(n)) \/ UNCHANGED vars
  <2>1. /\ UNCHANGED <<request, intent, nodeConfig, activation>>
        /\ UNCHANGED <<bucket, host, node, user>>
        /\ UNCHANGED <<pc, at, k>>
    BY <1>16 DEF OperatorSets, files, vars
  <2>2. pc \in {"record", "recording"} => Effect(Order[at])'
    BY <2>1, OrderPositions, SameEffects DEF Inside, InStep
  <2> QED BY <2>1, <2>2, NamesFacts DEF Inside, Within
<1> QED
  BY <1>1, <1>2, <1>3, <1>4, <1>5, <1>6, <1>7, <1>8, <1>9, <1>10, <1>11,
     <1>12, <1>13, <1>14, <1>15, <1>16 DEF Next, Command

\* The inductive invariant: typed, in order, honest inside and out.
Honest == Typed0 /\ InOrder /\ Inside /\ ReceiptHonest

LEMMA HonestInit == Init => Honest
BY TypeInit, InOrderInit
   DEF Honest, Init, Inside, Within, ReceiptHonest

LEMMA HonestNext == Honest /\ [Next]_vars => Honest'
<1> SUFFICES ASSUME Honest, [Next]_vars PROVE ReceiptHonest'
  BY TypeNext, ControlMoves, InOrderNext, InsideNext DEF Honest, Typed0
<1>1. Moves /\ \A s \in done : Effect(s)'
  BY ControlMoves, RecordedStays DEF Honest, Typed0, ReceiptHonest, done
<1>2. CASE done' = done
  BY <1>1, <1>2 DEF ReceiptHonest, done
<1>3. CASE Records
  <2>1. RecordWrite
    BY <1>3 DEF Records, Next, Command, RecordWrite, Start, Skip, RecordOpen,
       StatusAndPrint, Refuse, Doctor, IntentKept, IntentOpen, IntentWrite,
       BootstrapState, Prepare, DomainsKept, DomainsOpen, DomainsWrite,
       InternalKept, InternalGenerate, InternalWrite, TelnyxKept,
       TelnyxPrompt, TelnyxSet, Up, LicenseKept, LicenseOpen, LicenseWrite,
       RenderOpen, RenderWrite, ActivateRemote, ActivateReceiptOpen,
       ActivateReceiptWrite, AdministratorExternal, AdministratorCreated,
       AdministratorExists, ActivateFails, Stop, OperatorSets, vars,
       Running, Within
  <2>2. ASSUME NEW s, s = Order[at] PROVE Effect(s)'
    BY <2>1, <2>2 DEF Honest, Inside, RecordWrite, Effect, world, Exists
  <2>3. done' = done \cup {Order[at]}
    BY <1>3, <1>1 DEF Records, Honest, InOrder
  <2>4. \A s \in done' : Effect(s)'
    BY <1>1, <2>2, <2>3
  <2> QED BY <2>4 DEF ReceiptHonest, done
<1> QED
  BY <1>1, <1>2, <1>3 DEF Moves, Starts, Skips, Begins, GoesOn, Opens, Ends, Rests

\* The launch receipt never claims a step that has no effect in place.
THEOREM LaunchReceiptHonest == Spec => []ReceiptHonest
<1>1. Honest => ReceiptHonest
  BY DEF Honest
<1> QED
  BY <1>1, HonestInit, HonestNext, PTL DEF Spec

-------------------------------------------------------------------------------
(* The host.                                                               *)

\* Only `prepare` and `up` change the state of the host.
LEMMA HostChanges == [Next]_vars => host' = host \/ Prepare \/ Up
<1> SUFFICES ASSUME [Next]_vars PROVE host' = host \/ Prepare \/ Up
  OBVIOUS
<1> USE DEF world
<1>1. Start \/ Skip \/ RecordOpen \/ RecordWrite \/ StatusAndPrint \/ Refuse
        \/ Doctor \/ IntentKept \/ IntentOpen \/ IntentWrite \/ BootstrapState
        => host' = host
  BY DEF Start, Skip, RecordOpen, RecordWrite, StatusAndPrint, Refuse, Doctor,
         IntentKept, IntentOpen, IntentWrite, BootstrapState
<1>2. DomainsKept \/ DomainsOpen \/ DomainsWrite \/ InternalKept
        \/ InternalGenerate \/ InternalWrite \/ TelnyxKept \/ TelnyxPrompt
        \/ TelnyxSet \/ LicenseKept \/ LicenseOpen \/ LicenseWrite
        => host' = host
  BY DEF DomainsKept, DomainsOpen, DomainsWrite, InternalKept,
         InternalGenerate, InternalWrite, TelnyxKept, TelnyxPrompt, TelnyxSet,
         LicenseKept, LicenseOpen, LicenseWrite
<1>3. RenderOpen \/ RenderWrite \/ ActivateRemote \/ ActivateReceiptOpen
        \/ ActivateReceiptWrite \/ AdministratorExternal
        \/ AdministratorCreated \/ AdministratorExists \/ ActivateFails \/ Stop
        \/ (\E n \in OperatorNames : OperatorSets(n)) \/ UNCHANGED vars
        => host' = host
  BY DEF RenderOpen, RenderWrite, ActivateRemote, ActivateReceiptOpen,
         ActivateReceiptWrite, AdministratorExternal, AdministratorCreated,
         AdministratorExists, ActivateFails, Stop, OperatorSets, vars
<1> QED
  BY <1>1, <1>2, <1>3 DEF Next, Command

\* The host never runs without every declared secret.
THEOREM LaunchHostHasSecrets == Spec => []RunningHostHasSecrets
<1>1. Init => RunningHostHasSecrets
  BY DEF Init, RunningHostHasSecrets
<1>2. ASSUME TypeOK, RunningHostHasSecrets, [Next]_vars
      PROVE  RunningHostHasSecrets'
  <2>1. CASE host' = host
    BY <1>2, <2>1, VersionsStay DEF RunningHostHasSecrets
  <2>2. CASE Prepare
    BY <2>2 DEF Prepare, RunningHostHasSecrets
  <2>3. CASE Up
    BY <1>2, <2>3, Observed, VersionsStay DEF Up, RunningHostHasSecrets
  <2> QED BY <1>2, <2>1, <2>2, <2>3, HostChanges
<1> QED
  BY <1>1, <1>2, TypesKept, PTL DEF Spec

\* The invariant behind UpIsNeverUndone: a host that runs was prepared, and
\* the receipt says so.
PreparedOnRecord == host = "RUNNING" => "Prepare" \in done

\* What `up` started, no later execution stops.
THEOREM LaunchKeepsHostUp == Spec => UpIsNeverUndone
<1>a. NSteps = 12 /\ Order[4] = "Prepare"
  BY DEF NSteps, Order
<1>1. Init => PreparedOnRecord
  BY DEF Init, PreparedOnRecord
<1>2. ASSUME Typed0, InOrder, PreparedOnRecord, [Next]_vars
      PROVE  PreparedOnRecord' /\ (host = "RUNNING" => host' = "RUNNING")
  <2>1. done \subseteq done'
    BY <1>2, ControlMoves
       DEF Typed0, Moves, Starts, Skips, Begins, GoesOn, Opens, Records,
           Ends, Rests, InOrder
  <2>2. CASE host' = host
    BY <1>2, <2>1, <2>2 DEF PreparedOnRecord
  <2>3. CASE Prepare
    BY <1>2, <2>3 DEF Prepare, Running, InOrder, PreparedOnRecord
  <2>4. CASE Up
    <3>1. at = 8 /\ pc = "loop"
      BY <1>2, <2>4, OrderPositions DEF Up, Running, Typed0, TypeOK
    <3>2. "Prepare" \in done
      BY <1>2, <3>1, <1>a DEF InOrder
    <3> QED BY <2>1, <2>4, <3>2 DEF Up, PreparedOnRecord
  <2> QED BY <1>2, <2>2, <2>3, <2>4, HostChanges
<1>3. Typed0 /\ InOrder /\ PreparedOnRecord /\ [Next]_vars
        => (host = "RUNNING" => host' = "RUNNING")
  BY <1>2
<1>4. Typed0 /\ InOrder /\ PreparedOnRecord /\ [Next]_vars => PreparedOnRecord'
  BY <1>2
<1>5. Spec => []PreparedOnRecord
  BY <1>1, <1>4, TypedInOrder, PTL DEF Spec
<1>6. Typed0 /\ InOrder /\ PreparedOnRecord /\ [Next]_vars
        => [host = "RUNNING" => host' = "RUNNING"]_vars
  BY <1>3
<1> QED
  BY <1>5, <1>6, TypedInOrder, PTL DEF Spec, UpIsNeverUndone

-------------------------------------------------------------------------------
(* The certificate reaches the node.                                       *)

\* The invariant behind LicensedAtFirstBoot: the rendered configuration has
\* it, whether or not the rendering was recorded.
LicenseCarried ==
  /\ nodeConfig.state # "absent" =>
       "certificate" \in nodeConfig.carries \/ request.skipLicense
  /\ LicensedAtFirstBoot

LEMMA LicenseCarriedNext ==
  Honest /\ LicenseCarried /\ [Next]_vars => LicenseCarried'
<1> SUFFICES ASSUME Honest, LicenseCarried, [Next]_vars PROVE LicenseCarried'
  OBVIOUS
<1>a. NSteps = 12 /\ Order[9] = "License"
  BY DEF NSteps, Order
<1> USE DEF world, files, LicenseCarried, LicensedAtFirstBoot
<1>1. CASE UNCHANGED <<request, nodeConfig, node>> BY <1>1
<1>2. CASE RenderOpen
  <2>1. at = 10 /\ pc = "loop"
    BY <1>2, OrderPositions DEF RenderOpen, Running, Honest, Typed0, TypeOK
  <2>2. "License" \in done
    BY <2>1, <1>a DEF Honest, InOrder
  <2>3. "certificate" \in intent.carries \/ request.skipLicense
    BY <2>2 DEF Honest, ReceiptHonest, Effect, done
  <2> QED BY <1>2, <2>3 DEF RenderOpen
<1>3. CASE RenderWrite
  <2>1. nodeConfig.state # "absent"
    BY <1>3 DEF RenderWrite, Honest, Inside
  <2> QED BY <1>3, <2>1 DEF RenderWrite, Honest, Typed0, TypeOK
<1>4. CASE ActivateRemote \/ ActivateFails
  BY <1>4 DEF ActivateRemote, ActivateFails
<1>5. Start \/ Skip \/ RecordOpen \/ RecordWrite \/ StatusAndPrint \/ Refuse
        \/ Doctor \/ IntentKept \/ IntentOpen \/ IntentWrite \/ BootstrapState
        => UNCHANGED <<request, nodeConfig, node>>
  BY DEF Start, Skip, RecordOpen, RecordWrite, StatusAndPrint, Refuse, Doctor,
         IntentKept, IntentOpen, IntentWrite, BootstrapState
<1>6. Prepare \/ DomainsKept \/ DomainsOpen \/ DomainsWrite \/ InternalKept
        \/ InternalGenerate \/ InternalWrite \/ TelnyxKept \/ TelnyxPrompt
        \/ TelnyxSet \/ Up \/ LicenseKept \/ LicenseOpen \/ LicenseWrite
        => UNCHANGED <<request, nodeConfig, node>>
  BY DEF Prepare, DomainsKept, DomainsOpen, DomainsWrite, InternalKept,
         InternalGenerate, InternalWrite, TelnyxKept, TelnyxPrompt, TelnyxSet,
         Up, LicenseKept, LicenseOpen, LicenseWrite
<1>7. ActivateReceiptOpen \/ ActivateReceiptWrite \/ AdministratorExternal
        \/ AdministratorCreated \/ AdministratorExists \/ Stop
        \/ (\E n \in OperatorNames : OperatorSets(n)) \/ UNCHANGED vars
        => UNCHANGED <<request, nodeConfig, node>>
  BY DEF ActivateReceiptOpen, ActivateReceiptWrite, AdministratorExternal,
         AdministratorCreated, AdministratorExists, Stop, OperatorSets, vars
<1> QED
  BY <1>1, <1>2, <1>3, <1>4, <1>5, <1>6, <1>7 DEF Next, Command

\* A serving node is licensed, unless the operator asked otherwise.
THEOREM LaunchLicensesNode == Spec => []LicensedAtFirstBoot
<1>1. Init => LicenseCarried
  BY DEF Init, LicenseCarried, LicensedAtFirstBoot
<1>2. LicenseCarried => LicensedAtFirstBoot
  BY DEF LicenseCarried
<1> QED
  BY <1>1, <1>2, HonestInit, HonestNext, LicenseCarriedNext, PTL DEF Spec

-------------------------------------------------------------------------------
(* The generated secrets are of one batch.                                 *)

\* The invariant behind CorrelatedInternal: while a batch is being written
\* every generated value is of that batch.
OneBatch ==
  /\ CorrelatedInternal
  /\ Within("InternalSecrets") =>
       \A n \in Internal : secret[n].by = "generated" => secret[n].batch = stops

LEMMA OneBatchNext ==
  ASSUME ProbesMayFail = FALSE, TypeOK, OneBatch, [Next]_vars
  PROVE  OneBatch'
<1> USE DEF OneBatch, CorrelatedInternal, world, files
<1>1. CASE /\ secret' = secret
           /\ Within("InternalSecrets")' => Within("InternalSecrets") /\ stops' = stops
  BY <1>1
<1>2. CASE InternalGenerate
  <2>1. \A n \in Internal : secret[n] = None
    BY <1>2 DEF InternalGenerate, Observations, Seen, Exists
  <2> QED BY <1>2, <2>1 DEF InternalGenerate, None, Within
<1>3. CASE InternalWrite
  <2>1. \A n \in Internal : secret'[n].by = "generated" => secret'[n].batch = stops
    <3> SUFFICES ASSUME NEW n \in Internal, secret'[n].by = "generated"
                 PROVE  secret'[n].batch = stops
      OBVIOUS
    <3>1. CASE n = InternalNames[k]
      BY <1>3, <3>1, NamesFacts DEF InternalWrite, Batch, TypeOK
    <3>2. CASE n # InternalNames[k]
      BY <1>3, <3>2, NamesFacts DEF InternalWrite, TypeOK
    <3> QED BY <3>1, <3>2
  <2>2. stops' = stops
    BY <1>3 DEF InternalWrite, Leave
  <2> QED BY <2>1, <2>2
<1>4. CASE TelnyxSet
  <2>1. \A n \in Internal : secret'[n] = secret[n] \/ secret'[n] = Typed
    BY <1>4, NamesFacts DEF TelnyxSet, TypeOK
  <2>2. ~Within("InternalSecrets")'
    BY <1>4 DEF TelnyxSet, Within, Leave
  <2> QED BY <2>1, <2>2 DEF Typed
<1>5. CASE \E n \in OperatorNames : OperatorSets(n)
  <2>1. \A n \in Internal : secret'[n] = secret[n] \/ secret'[n] = Provided
    BY <1>5, NamesFacts DEF OperatorSets, TypeOK
  <2>2. UNCHANGED <<pc, at, stops>>
    BY <1>5 DEF OperatorSets
  <2> QED BY <2>1, <2>2 DEF Provided, Within
<1>6. Start \/ Skip \/ RecordOpen \/ RecordWrite \/ StatusAndPrint \/ Refuse
        \/ Stop \/ ActivateFails
        => secret' = secret /\ pc' # "within"
  BY DEF Start, Skip, RecordOpen, RecordWrite, StatusAndPrint, Refuse, Stop,
         ActivateFails
<1>7. Doctor \/ IntentKept \/ BootstrapState \/ Prepare \/ DomainsKept
        \/ InternalKept \/ TelnyxKept \/ Up \/ LicenseKept
        \/ AdministratorExternal \/ AdministratorCreated \/ AdministratorExists
        => secret' = secret /\ pc' # "within"
  BY DEF Doctor, IntentKept, BootstrapState, Prepare, DomainsKept,
         InternalKept, TelnyxKept, Up, LicenseKept, AdministratorExternal,
         AdministratorCreated, AdministratorExists, Proceed
<1>8. IntentOpen \/ DomainsOpen \/ TelnyxPrompt \/ LicenseOpen \/ RenderOpen
        \/ ActivateRemote
        => secret' = secret /\ at' = at /\ Order[at] # "InternalSecrets"
  BY DEF IntentOpen, DomainsOpen, TelnyxPrompt, LicenseOpen, RenderOpen,
         ActivateRemote, Enter, Running
<1>9. IntentWrite \/ DomainsWrite \/ LicenseWrite \/ RenderWrite
        \/ ActivateReceiptOpen \/ ActivateReceiptWrite
        => secret' = secret /\ at' = at /\ Order[at] # "InternalSecrets"
  BY DEF IntentWrite, DomainsWrite, LicenseWrite, RenderWrite,
         ActivateReceiptOpen, ActivateReceiptWrite, Leave, Within
<1>10. CASE UNCHANGED vars
  BY <1>1, <1>10 DEF vars, Within
<1> QED
  BY <1>1, <1>2, <1>3, <1>4, <1>5, <1>6, <1>7, <1>8, <1>9, <1>10
     DEF Next, Command, Within

\* Where version checks do not fail, the correlated credentials of a
\* deployment are always those of one generation.
THEOREM LaunchCorrelatedInternal ==
  ASSUME ProbesMayFail = FALSE
  PROVE  Spec => []CorrelatedInternal
<1>1. Init => OneBatch
  BY NamesFacts DEF Init, OneBatch, CorrelatedInternal, None, Within
<1>2. TypeOK /\ OneBatch /\ [Next]_vars => OneBatch'
  BY OneBatchNext
<1>3. OneBatch => CorrelatedInternal
  BY DEF OneBatch
<1> QED
  BY <1>1, <1>2, <1>3, TypesKept, PTL DEF Spec
-------------------------------------------------------------------------------
(* A launch is never stuck.                                                *)

\* What the steps before one have left is what it wants.
LEMMA FindsWhatItWants ==
  ASSUME Honest, pc = "loop", at <= NSteps, Order[at] \notin mem, ~Wedged
  PROVE  Wants(Order[at])
<1> DEFINE s == Order[at]
<1>a. at \in 1..12 /\ NSteps = 12 /\ mem = done /\ s \in Step
  BY OrderPositions DEF Honest, Typed0, TypeOK, InOrder, NSteps
<1>b. \A j \in 1..(at - 1) : Effect(Order[j])
  BY <1>a DEF Honest, InOrder, ReceiptHonest, done
<1>c. /\ Order[2] = "Intent" /\ Order[3] = "BootstrapState" /\ Order[4] = "Prepare"
      /\ Order[5] = "Domains" /\ Order[6] = "InternalSecrets"
      /\ Order[7] = "TelnyxSecrets" /\ Order[8] = "Up" /\ Order[10] = "RenderNodeConfig"
      /\ Order[11] = "Activate"
  BY DEF Order
<1>d. /\ s = "Doctor" => at = 1
      /\ s \notin {"Doctor", "Intent"} => at > 2
  BY <1>a, OrderPositions DEF Order
<1>1. s # "Doctor" => Loaded \/ (s = "Intent" /\ intent.state = "absent")
  <2>1. intent.state # "torn" /\ intent.state \in FileState
    BY DEF Wedged, TornFile, Honest, Typed0, TypeOK
  <2>2. at > 2 => intent.state # "absent"
    BY <1>a, <1>b, <1>c DEF Effect
  <2> QED
    BY <1>d, <2>1, <2>2 DEF Loaded, FileState
<1>2. s = "Prepare" => bucket = "created"
  <2>1. s = "Prepare" => at = 4
    BY <1>a, OrderPositions
  <2> QED
    BY <1>b, <1>c, <2>1 DEF Effect
<1>3. at > 4 => host # "none"
  BY <1>a, <1>b, <1>c DEF Effect
<1>4. at > 5 => "domains" \in intent.carries
  BY <1>a, <1>b, <1>c DEF Effect
<1>5. s = "InternalSecrets" => Seen(Internal) \in {{}, Internal}
  <2> SUFFICES ASSUME s = "InternalSecrets" PROVE Seen(Internal) \in {{}, Internal}
    OBVIOUS
  <2>1. (\A n \in Internal : Exists(n)) \/ (\A n \in Internal : ~Exists(n))
    BY <1>a DEF Wedged, PartialInternal, done
  <2> QED
    BY <2>1 DEF Seen
<1>6. at > 7 => Seen(Names) = Names
  <2> SUFFICES ASSUME at > 7 PROVE \A n \in Names : Exists(n)
    BY DEF Seen
  <2>1. Effect("InternalSecrets") /\ Effect("TelnyxSecrets")
    BY <1>a, <1>b, <1>c
  <2> QED
    BY <2>1, NamesFacts DEF Effect
<1>7. /\ at > 8 => host = "RUNNING"
      /\ at > 10 => nodeConfig.state = "ok"
      /\ at > 11 => node.service = "active"
  BY <1>a, <1>b, <1>c DEF Effect
<1>8. request.provider = "gcp"
  BY ParameterAssumption DEF Wedged, Honest, Typed0, TypeOK, LaunchRequest
<1>9. /\ s = "RenderNodeConfig" => nodeConfig.state = "absent"
      /\ s = "Activate" => activation = "absent"
  BY <1>a DEF Wedged, OrphanFile, done
<1>10. /\ s = "Domains" => at = 5
       /\ s = "InternalSecrets" => at = 6
       /\ s = "TelnyxSecrets" => at = 7
       /\ s = "Up" => at = 8
       /\ s = "RenderNodeConfig" => at = 10
       /\ s = "Activate" => at = 11
       /\ s = "FirstAdministrator" => at = 12
  BY <1>a, OrderPositions
<1> QED
  BY <1>1, <1>2, <1>3, <1>4, <1>5, <1>6, <1>7, <1>8, <1>9, <1>10 DEF Wants, Containers

\* A launch of src/launch.rs, wherever those before it were stopped, finds
\* what each step wants, except in the states of Wedged.
THEOREM LaunchNeverStuck == Spec => []NeverStuck
<1>1. Honest => NeverStuck
  <2> SUFFICES ASSUME Honest, pc = "loop", ~Wedged
               PROVE  IF at > NSteps THEN Loaded ELSE Order[at] \in mem \/ Wants(Order[at])
    BY DEF NeverStuck
  <2>1. at \in 1..13 /\ NSteps = 12
    BY DEF Honest, Typed0, TypeOK, NSteps
  <2>2. CASE at > NSteps
    <3>1. Order[2] \in done /\ Order[2] = "Intent"
      BY <2>1, <2>2 DEF Honest, InOrder, Order
    <3>2. intent.state \notin {"absent", "torn"} /\ intent.state \in FileState
      BY <3>1 DEF Honest, ReceiptHonest, Effect, done, Wedged, TornFile, Typed0, TypeOK
    <3> QED
      BY <2>2, <3>2 DEF Loaded, FileState
  <2>3. CASE ~(at > NSteps)
    BY <2>1, <2>3, FindsWhatItWants
  <2> QED
    BY <2>2, <2>3
<1> QED
  BY <1>1, HonestInit, HonestNext, PTL
     DEF Spec
===============================================================================
