--------------------------- MODULE ReplacementProofs ---------------------------
(***************************************************************************)
(* Proofs about Replacement, for any number of terminals, every set of     *)
(* commands, receipts, backups and releases, and any number of stops, of   *)
(* acts of the operator and of VMs.                                        *)
(***************************************************************************)
EXTENDS Replacement, TLAPS

\* What a command of the operator consists of.
LEMMA CommandFields ==
  ASSUME NEW c \in Commands
  PROVE  /\ c.kind \in {"replace", "restore", "create"} /\ c.path \in Paths
         /\ c.backup \in Backups /\ c.release \in Releases
         /\ c # NoCommand
BY ParameterAssumption DEF Command, NoCommand

-------------------------------------------------------------------------------
(* Types, and where a command of each kind can be.                         *)

Typed ==
  /\ TypeOK
  /\ \A t \in Terminals :
       /\ cmd[t] = NoCommand <=> pc[t] = "idle"
       /\ pc[t] = "create" => cmd[t].kind = "create"
       /\ pc[t] \in {"verify", "restore", "failclose"} => Disturbs(t)
       /\ pc[t] \in {"resume", "inspect", "apply", "applied", "identified",
                     "checkpointing", "activate", "cleanup"} => Replaces(t)
       /\ pc[t] \in {"resume", "inspect", "apply", "applied", "identified",
                     "checkpointing", "activate", "restore"} => archive[cmd[t].backup] # "none"

\* The command in progress at a terminal.
LEMMA InProgress ==
  ASSUME Typed, NEW t \in Terminals
  PROVE  /\ pc[t] = "idle" => ~Replaces(t) /\ ~Disturbs(t)
         /\ pc[t] # "idle" => /\ cmd[t] \in Commands /\ Path(t) \in Paths
                              /\ cmd[t].backup \in Backups /\ cmd[t].release \in Releases
                              /\ cmd[t].kind \in {"replace", "restore", "create"}
BY CommandFields DEF Typed, TypeOK, Replaces, Disturbs, Path, NoCommand

\* A command that ends leaves the others where they are.
LEMMA Leaves ==
  ASSUME Typed, NEW t \in Terminals, Ends(t)
  PROVE  /\ pc'[t] = "idle" /\ ~Replaces(t)' /\ ~Disturbs(t)' /\ ~alone'[t]
         /\ \A u \in Terminals \ {t} :
              /\ pc'[u] = pc[u] /\ cmd'[u] = cmd[u] /\ alone'[u] = alone[u]
              /\ before'[u] = before[u] /\ after'[u] = after[u]
              /\ Replaces(u)' = Replaces(u) /\ Disturbs(u)' = Disturbs(u) /\ Path(u)' = Path(u)
         /\ \A u \in Terminals : /\ Replaces(u)' => u # t /\ Replaces(u) /\ Path(u)' = Path(u)
                                /\ pc'[u] # "idle" => u # t /\ pc'[u] = pc[u] /\ Path(u)' = Path(u)
BY DEF Typed, TypeOK, Ends, Replaces, Disturbs, Path, NoCommand

\* A command that begins.
LEMMA Begins ==
  ASSUME Typed, NEW t \in Terminals, NEW c \in Commands, Begin(t, c)
  PROVE  /\ pc'[t] = IF c.kind = "create" THEN "create" ELSE "verify"
         /\ cmd'[t] = c /\ pc[t] = "idle" /\ receipt[c.path] = "absent"
         /\ alone'[t] => \A o \in Terminals \ {t} : ~Disturbs(o)
         /\ ~raced' => ~raced /\ (c.kind = "replace" => \A u \in Terminals : ~Replaces(u))
         /\ \A u \in Terminals \ {t} :
              /\ pc'[u] = pc[u] /\ cmd'[u] = cmd[u]
              /\ alone'[u] => alone[u] /\ c.kind = "create"
         /\ UNCHANGED <<files, cloud, node, before, after, applied, hand>>
<1> USE DEF Typed, TypeOK, Begin, At
<1>1. /\ pc'[t] = IF c.kind = "create" THEN "create" ELSE "verify"
      /\ cmd'[t] = c /\ pc[t] = "idle" /\ receipt[c.path] = "absent"
      /\ \A u \in Terminals \ {t} : pc'[u] = pc[u] /\ cmd'[u] = cmd[u]
      /\ UNCHANGED <<files, cloud, node, before, after, applied, hand>>
  OBVIOUS
<1>2. alone' = [u \in Terminals |-> IF u = t THEN \A o \in Terminals \ {t} : ~Disturbs(o)
                                    ELSE alone[u] /\ c.kind = "create"]
  BY DEF Overlaps
<1>3. alone'[t] => \A o \in Terminals \ {t} : ~Disturbs(o)
  BY <1>2, Zenon
<1>4. \A u \in Terminals \ {t} : alone'[u] => alone[u] /\ c.kind = "create"
  BY <1>2, Zenon
<1>5. ~raced' => ~raced /\ (c.kind = "replace" => \A u \in Terminals : ~Replaces(u))
  BY DEF Overlaps
<1> QED
  BY <1>1, <1>3, <1>4, <1>5

LEMMA TypedInit == Init => Typed
<1> SUFFICES ASSUME Init PROVE Typed
  OBVIOUS
<1>1. /\ archive \in [Backups -> Data \cup {"none"}]
      /\ node \in Node
  BY DEF Init, Data, Node
<1>2. /\ NoCheckpoint \in Checkpoint
      /\ 0 \in 0..MaxVms /\ 1 \in 1..MaxVms /\ 0 \in 0..MaxActs /\ 0 \in 0..MaxStops
  BY ParameterAssumption DEF NoCheckpoint, FileState, Checkpoint
<1>3. TypeOK
  BY <1>1, <1>2 DEF Init, TypeOK, FileState
<1>4. \A t \in Terminals : pc[t] = "idle" /\ cmd[t] = NoCommand
  BY DEF Init
<1> QED
  BY <1>3, <1>4 DEF Typed

LEMMA TypedNext == Typed /\ [Next]_vars => Typed'
<1> SUFFICES ASSUME Typed, [Next]_vars PROVE Typed'
  OBVIOUS
<1> USE DEF Typed, TypeOK, Checkpoint, Node, At, Path, Replaces, Disturbs, files, cloud, history,
        Goto, Ends, Fails
<1>b. MaxVms \in Nat \ {0} /\ MaxStops \in Nat /\ MaxActs \in Nat
  BY ParameterAssumption
<1>c. NoCommand \in Commands \cup {NoCommand} /\ NoCommand.kind = "none"
  BY DEF NoCommand
<1>1. ASSUME NEW t \in Terminals, Session(t) \/ Failure(t) PROVE Typed'
  <2>a. pc[t] # "idle" => /\ cmd[t] \in Commands /\ cmd[t].path \in Paths
                          /\ cmd[t].backup \in Backups /\ cmd[t].release \in Releases
                          /\ cmd[t].kind \in {"replace", "restore", "create"}
    BY InProgress
  <2>1. ASSUME NEW c \in Commands, Begin(t, c) PROVE Typed'
    <3>1. c.kind \in {"replace", "restore", "create"} /\ c # NoCommand
      BY CommandFields
    <3>2. /\ pc' = [pc EXCEPT ![t] = IF c.kind = "create" THEN "create" ELSE "verify"]
          /\ cmd' = [cmd EXCEPT ![t] = c]
          /\ UNCHANGED <<files, cloud, node, before, after, applied, hand, acts, stops>>
      BY <2>1 DEF Begin
    <3>3. alone' \in [Terminals -> BOOLEAN]
      BY <2>1 DEF Begin, Overlaps
    <3>4. raced' \in BOOLEAN
      BY <2>1 DEF Begin, Overlaps
    <3> QED
      BY <3>1, <3>2, <3>3, <3>4
  <2>2. CASE CreateBackup(t) BY <2>2, <2>a, <1>b, <1>c DEF CreateBackup, Data
  <2>3. CASE VerifyBackup(t) BY <2>3, <2>a, <1>b, <1>c DEF VerifyBackup
  <2>4. CASE Resume(t) BY <2>4, <2>a, <1>b, <1>c DEF Resume, Resumes, Resumable
  <2>5. CASE Inspect(t) BY <2>5, <2>a, <1>b, <1>c DEF Inspect
  <2>6. CASE Apply(t) BY <2>6, <2>a, <1>b, <1>c DEF Apply, Bare, Data
  <2>7. CASE Identify(t) BY <2>7, <2>a, <1>b, <1>c DEF Identify
  <2>8. CASE CheckpointOpen(t) BY <2>8, <2>a, <1>b, <1>c DEF CheckpointOpen, FileState
  <2>9. CASE CheckpointWrite(t)
    <3>1. checkpoint' \in [Paths -> Checkpoint]
      <4>1. /\ Path(t) \in Paths /\ "ok" \in FileState
            /\ checkpoint' \in {checkpoint, [checkpoint EXCEPT ![Path(t)].state = "ok"]}
        BY <2>9, <2>a DEF CheckpointWrite, FileState
      <4>2. [checkpoint[Path(t)] EXCEPT !.state = "ok"] \in Checkpoint
        <5>1. checkpoint[Path(t)] \in Checkpoint
          BY <4>1
        <5>2. \A c \in Checkpoint, f \in FileState : [c EXCEPT !.state = f] \in Checkpoint
          OBVIOUS
        <5> QED
          BY <4>1, <5>1, <5>2
      <4>3. checkpoint' \in {checkpoint, [checkpoint EXCEPT ![Path(t)] =
                             [checkpoint[Path(t)] EXCEPT !.state = "ok"]]}
        BY <4>1
      <4> QED
        BY <4>1, <4>2, <4>3
    <3> QED
      BY <2>9, <2>a, <3>1 DEF CheckpointWrite
  <2>10. CASE Activate(t) BY <2>10, <2>a, <1>b, <1>c DEF Activate
  <2>11. CASE Restore(t) BY <2>11, <2>a, <1>b, <1>c DEF Restore
  <2>12. CASE RestoreForAnotherRelease(t) BY <2>12, <2>a, <1>b, <1>c DEF RestoreForAnotherRelease
  <2>13. CASE RestoreNotThere(t) BY <2>13, <2>a, <1>b, <1>c DEF RestoreNotThere
  <2>14. CASE FailClose(t) BY <2>14, <2>a, <1>b, <1>c DEF FailClose
  <2>15. CASE ReceiptOpen(t) BY <2>15, <2>a, <1>b, <1>c DEF ReceiptOpen, FileState
  <2>16. CASE ReceiptWrite(t)
    <3>1. receipt' \in [Paths -> FileState]
      BY <2>16, <2>a DEF ReceiptWrite, FileState
    <3>2. CASE Replaces(t) BY <2>16, <2>a, <3>1, <3>2 DEF ReceiptWrite
    <3>3. CASE ~Replaces(t) 
      <4>1. Ends(t) /\ UNCHANGED <<checkpoint, cloud, node, history>>
        BY <2>16, <3>3 DEF ReceiptWrite
      <4> QED
        BY <3>1, <4>1, <1>b, <1>c
    <3> QED
      BY <3>2, <3>3
  <2>17. CASE Cleanup(t)
    <3>1. checkpoint' \in [Paths -> Checkpoint]
      BY <2>17, <2>a, <1>b DEF Cleanup, NoCheckpoint, FileState
    <3> QED
      BY <2>17, <2>a, <1>b, <1>c, <3>1 DEF Cleanup
  <2>18. CASE Refuse(t) BY <2>18, <2>a, <1>b, <1>c DEF Refuse
  <2>19. CASE ApplyFailsHalfway(t) BY <2>19, <2>a, <1>b, <1>c DEF ApplyFailsHalfway, Bare, Data
  <2>20. CASE ActivateFails(t)
    <3>1. \/ node' = node
          \/ \E s \in {"stopped", "active"} :
               node' = [node EXCEPT !.release = cmd[t].release, !.service = s]
          \/ node' = [node EXCEPT !.service = "stopped"]
      BY <2>20 DEF ActivateFails, HalfActivated
    <3>2. node' \in Node
      BY <2>20, <2>a, <3>1 DEF ActivateFails
    <3> QED
      BY <2>20, <2>a, <1>b, <1>c, <3>2 DEF ActivateFails
  <2>21. CASE RestoreFails(t)
    <3>1. archive[cmd[t].backup] \in Data
      BY <2>21, <2>a DEF RestoreFails
    <3>2. PICK d \in {node.data, "partial", archive[cmd[t].backup]}, s \in {node.service, "stopped"} :
            node' = [node EXCEPT !.data = d, !.service = s]
      BY <2>21 DEF RestoreFails
    <3>3. d \in Data /\ s \in {"none", "stopped", "active"}
      BY <3>1, <3>2 DEF Data
    <3>4. node' \in Node
      BY <3>2, <3>3
    <3> QED
      BY <2>21, <2>a, <1>b, <3>4 DEF RestoreFails
  <2>22. CASE FailCloseFails(t) BY <2>22, <2>a, <1>b, <1>c DEF FailCloseFails
  <2>23. CASE Stop(t) BY <2>23, <2>a, <1>b, <1>c DEF Stop
  <2> QED
    BY <1>1, <2>1, <2>2, <2>3, <2>4, <2>5, <2>6, <2>7, <2>8, <2>9, <2>10, <2>11, <2>12, <2>13, <2>14, <2>15, <2>16, <2>17, <2>18, <2>19, <2>20, <2>21, <2>22, <2>23 DEF Session, Failure
<1>2. ASSUME NEW s \in {"RUNNING", "TERMINATED"}, SetPower(s) PROVE Typed'
  BY <1>2, <1>b DEF SetPower, Acts
<1>3. CASE Recreate BY <1>3, <1>b DEF Recreate, Acts, Bare, Data
<1>4. ASSUME NEW r \in Releases, ActivateByHand(r) PROVE Typed'
  <2>1. node' \in Node
    BY <1>4 DEF ActivateByHand
  <2> QED
    BY <1>4, <1>b, <2>1 DEF ActivateByHand, Acts
<1>5. CASE UNCHANGED vars BY <1>5 DEF vars
<1> QED
  BY <1>1, <1>2, <1>3, <1>4, <1>5 DEF Next, Operator

-------------------------------------------------------------------------------
(* The VMs that the files and the commands name.                           *)

Named ==
  /\ \A p \in Paths : checkpoint[p].before <= checkpoint[p].after /\ checkpoint[p].after <= vm
  /\ \A t \in Terminals :
       /\ before[t] <= vm /\ after[t] <= vm
       /\ pc[t] = "applied" => before[t] < vm
       /\ \/ pc[t] \in {"identified", "checkpointing", "activate"}
          \/ pc[t] \in {"restore", "receipt", "writing"} /\ Replaces(t)
          => before[t] < after[t]

LEMMA NamedInit == Init => Named
BY DEF Init, Named, NoCheckpoint, NoCommand, Replaces

LEMMA NamedNext == Typed /\ Named /\ [Next]_vars => Named'
<1> SUFFICES ASSUME Typed, Named, [Next]_vars PROVE Named'
  OBVIOUS
<1> USE DEF Typed, TypeOK, Named, At, Path, Replaces, Disturbs, files, cloud, history, Goto, Ends, Fails
<1>b. /\ vm \in Nat /\ MaxVms \in Nat
      /\ \A u \in Terminals : before[u] \in Nat /\ after[u] \in Nat
      /\ \A p \in Paths : checkpoint[p].before \in Nat /\ checkpoint[p].after \in Nat
  BY ParameterAssumption DEF Checkpoint
<1>1. ASSUME NEW t \in Terminals, Session(t) \/ Failure(t) PROVE Named'
  <2>a. pc[t] # "idle" => /\ cmd[t] \in Commands /\ Path(t) \in Paths
                          /\ cmd[t].backup \in Backups /\ cmd[t].release \in Releases
                          /\ cmd[t].kind \in {"replace", "restore", "create"}
    BY InProgress
  <2>1. ASSUME NEW c \in Commands, Begin(t, c) PROVE Named'
    BY <2>1, CommandFields DEF Begin, Overlaps
  <2>2. CASE CreateBackup(t) BY <2>2, <2>a, <1>b DEF CreateBackup
  <2>3. CASE VerifyBackup(t) BY <2>3, <2>a, <1>b DEF VerifyBackup
  <2>4. CASE Resume(t) BY <2>4, <2>a, <1>b DEF Resume, Resumes, Resumable
  <2>5. CASE Inspect(t) BY <2>5, <2>a, <1>b DEF Inspect
  <2>6. CASE Apply(t) BY <2>6, <2>a, <1>b DEF Apply
  <2>7. CASE Identify(t) BY <2>7, <2>a, <1>b DEF Identify
  <2>8. CASE CheckpointOpen(t) BY <2>8, <2>a, <1>b DEF CheckpointOpen
  <2>9. CASE CheckpointWrite(t)
    <3>1. /\ checkpoint' \in {checkpoint, [checkpoint EXCEPT ![Path(t)].state = "ok"]}
          /\ \A u \in Terminals : pc'[u] = IF u = t THEN "activate" ELSE pc[u]
          /\ UNCHANGED <<vm, cmd, before, after>> /\ pc[t] = "checkpointing"
      BY <2>9 DEF CheckpointWrite
    <3>2. \A p \in Paths : checkpoint'[p].before = checkpoint[p].before
                          /\ checkpoint'[p].after = checkpoint[p].after
      <4>1. CASE checkpoint' = checkpoint
        BY <4>1
      <4>2. CASE checkpoint' = [checkpoint EXCEPT ![Path(t)].state = "ok"]
        BY <4>2
      <4> QED
        BY <3>1, <4>1, <4>2
    <3> QED
      BY <3>1, <3>2, <2>a, <1>b
  <2>10. CASE Activate(t) BY <2>10, <2>a, <1>b DEF Activate
  <2>11. CASE Restore(t) BY <2>11, <2>a, <1>b DEF Restore, Tools, Reachable
  <2>12. CASE RestoreForAnotherRelease(t) BY <2>12, <2>a, <1>b DEF RestoreForAnotherRelease
  <2>13. CASE RestoreNotThere(t) BY <2>13, <2>a, <1>b DEF RestoreNotThere
  <2>14. CASE FailClose(t) BY <2>14, <2>a, <1>b DEF FailClose
  <2>15. CASE ReceiptOpen(t) BY <2>15, <2>a, <1>b DEF ReceiptOpen
  <2>16. CASE ReceiptWrite(t) BY <2>16, <2>a, <1>b DEF ReceiptWrite
  <2>17. CASE Cleanup(t)
    <3>1. \A p \in Paths : checkpoint'[p] \in {checkpoint[p], NoCheckpoint}
      BY <2>17, <2>a DEF Cleanup
    <3>2. \A u \in Terminals :
            \/ /\ pc'[u] = pc[u] /\ cmd'[u] = cmd[u]
               /\ before'[u] = before[u] /\ after'[u] = after[u]
            \/ pc'[u] = "idle" /\ before'[u] = 0 /\ after'[u] = 0
      <4> HIDE DEF Typed, Ends, Replaces, Disturbs, Path
      <4>1. Ends(t)
        BY <2>17 DEF Cleanup
      <4>2. before'[t] = 0 /\ after'[t] = 0
        BY <4>1 DEF Ends, Typed, TypeOK
      <4> QED
        BY <4>1, <4>2, Leaves
    <3>3. vm' = vm /\ NoCheckpoint.before = 0 /\ NoCheckpoint.after = 0
      BY <2>17 DEF Cleanup, NoCheckpoint
    <3> QED
      BY <3>1, <3>2, <3>3, <1>b
  <2>18. CASE Refuse(t) BY <2>18, <2>a, <1>b DEF Refuse
  <2>19. CASE ApplyFailsHalfway(t) BY <2>19, <2>a, <1>b DEF ApplyFailsHalfway
  <2>20. CASE ActivateFails(t) BY <2>20, <2>a, <1>b DEF ActivateFails
  <2>21. CASE RestoreFails(t) BY <2>21, <2>a, <1>b DEF RestoreFails
  <2>22. CASE FailCloseFails(t) BY <2>22, <2>a, <1>b DEF FailCloseFails
  <2>23. CASE Stop(t) BY <2>23, <2>a, <1>b DEF Stop
  <2> QED
    BY <1>1, <2>1, <2>2, <2>3, <2>4, <2>5, <2>6, <2>7, <2>8, <2>9, <2>10, <2>11, <2>12,
       <2>13, <2>14, <2>15, <2>16, <2>17, <2>18, <2>19, <2>20, <2>21, <2>22, <2>23 DEF Session, Failure
<1>2. ASSUME NEW s \in {"RUNNING", "TERMINATED"}, SetPower(s) PROVE Named'
  BY <1>2 DEF SetPower, Acts
<1>3. CASE Recreate
  BY <1>3, <1>b DEF Recreate, Acts
<1>4. ASSUME NEW r \in Releases, ActivateByHand(r) PROVE Named'
  BY <1>4 DEF ActivateByHand, Acts
<1>5. CASE UNCHANGED vars BY <1>5 DEF vars
<1> QED
  BY <1>1, <1>2, <1>3, <1>4, <1>5 DEF Next, Operator

-------------------------------------------------------------------------------
(* A command that no other command disturbs.                               *)

Undisturbed ==
  \A t \in Terminals : alone[t] =>
    /\ \A u \in Terminals \ {t} : ~Disturbs(u)
    /\ pc[t] \in {"inspect", "apply", "applied", "identified"} => checkpoint[Path(t)].state = "absent"
    /\ \/ pc[t] \in {"identified", "checkpointing", "activate"}
       \/ pc[t] \in {"restore", "receipt", "writing"} /\ Replaces(t)
       => after[t] = vm
    /\ pc[t] \in {"receipt", "writing"} /\ Disturbs(t)
       => /\ power = "RUNNING" /\ node.service = "active"
          /\ node.release = cmd[t].release /\ node.data = archive[cmd[t].backup]

LEMMA UndisturbedInit == Init => Undisturbed
BY DEF Init, Undisturbed

\* A command that ends and leaves the node and the files as they are.
LEMMA UndisturbedLeft ==
  ASSUME Typed, Undisturbed, NEW t \in Terminals, Ends(t),
         UNCHANGED <<checkpoint, vm, power, archive, node>>
  PROVE  Undisturbed'
<1>1. \A u \in Terminals : ~Disturbs(u) => ~Disturbs(u)'
  BY Leaves
<1>2. ASSUME NEW u \in Terminals, alone'[u]
      PROVE  u # t /\ alone[u] /\ pc'[u] = pc[u] /\ cmd'[u] = cmd[u] /\ after'[u] = after[u]
  BY <1>2, Leaves
<1> QED
  BY <1>1, <1>2 DEF Undisturbed, Replaces, Disturbs, Path

LEMMA UndisturbedNext == Typed /\ Undisturbed /\ [Next]_vars => Undisturbed'
<1> SUFFICES ASSUME Typed, Undisturbed, [Next]_vars PROVE Undisturbed'
  OBVIOUS
<1> USE DEF Typed, TypeOK, Undisturbed, At, Path, Replaces, Disturbs, files, cloud, history, Goto, Ends, Fails
<1>b. /\ vm \in Nat /\ MaxVms \in Nat
      /\ \A u \in Terminals : before[u] \in Nat /\ after[u] \in Nat
      /\ \A p \in Paths : checkpoint[p].before \in Nat /\ checkpoint[p].after \in Nat
  BY ParameterAssumption DEF Checkpoint
<1>1. ASSUME NEW t \in Terminals, Session(t) \/ Failure(t) PROVE Undisturbed'
  <2>a. pc[t] # "idle" => /\ cmd[t] \in Commands /\ Path(t) \in Paths
                          /\ cmd[t].backup \in Backups /\ cmd[t].release \in Releases
                          /\ cmd[t].kind \in {"replace", "restore", "create"}
    BY InProgress
  <2>1. ASSUME NEW c \in Commands, Begin(t, c) PROVE Undisturbed'
    <3>1. \A u \in Terminals \ {t} : Disturbs(u)' = Disturbs(u)
      BY <2>1, Begins
    <3>2. c.kind = "create" => ~Disturbs(t)'
      BY <2>1, Begins
    <3> HIDE DEF Disturbs
    <3> QED
      BY <2>1, <3>1, <3>2, Begins
  <2>2. CASE CreateBackup(t) BY <2>2, <2>a, <1>b DEF CreateBackup
  <2>3. CASE VerifyBackup(t) BY <2>3, <2>a, <1>b DEF VerifyBackup
  <2>4. CASE Resume(t) BY <2>4, <2>a, <1>b DEF Resume, Resumes, Resumable
  <2>5. CASE Inspect(t) BY <2>5, <2>a, <1>b DEF Inspect
  <2>6. CASE Apply(t) BY <2>6, <2>a, <1>b DEF Apply
  <2>7. CASE Identify(t) BY <2>7, <2>a, <1>b DEF Identify
  <2>8. CASE CheckpointOpen(t) BY <2>8, <2>a, <1>b DEF CheckpointOpen
  <2>9. CASE CheckpointWrite(t) BY <2>9, <2>a, <1>b DEF CheckpointWrite
  <2>10. CASE Activate(t) BY <2>10, <2>a, <1>b DEF Activate
  <2>11. CASE Restore(t) BY <2>11, <2>a, <1>b DEF Restore, Tools, Reachable
  <2>12. CASE RestoreForAnotherRelease(t) BY <2>12, <2>a, <1>b DEF RestoreForAnotherRelease
  <2>13. CASE RestoreNotThere(t) BY <2>13, <2>a, <1>b DEF RestoreNotThere
  <2>14. CASE FailClose(t) BY <2>14, <2>a, <1>b DEF FailClose
  <2>15. CASE ReceiptOpen(t) BY <2>15, <2>a, <1>b DEF ReceiptOpen
  <2>16. CASE ReceiptWrite(t)
    <3>1. CASE Replaces(t) BY <2>16, <3>1, <2>a, <1>b DEF ReceiptWrite
    <3>2. CASE ~Replaces(t) BY <2>16, <3>2, UndisturbedLeft DEF ReceiptWrite
    <3> QED
      BY <3>1, <3>2
  <2>17. CASE Cleanup(t) BY <2>17, <2>a, <1>b DEF Cleanup, NoCheckpoint
  <2>18. CASE Refuse(t) BY <2>18, UndisturbedLeft DEF Refuse
  <2>19. CASE ApplyFailsHalfway(t) BY <2>19, <2>a, <1>b DEF ApplyFailsHalfway
  <2>20. CASE ActivateFails(t) BY <2>20, <2>a, <1>b DEF ActivateFails
  <2>21. CASE RestoreFails(t) BY <2>21, <2>a, <1>b DEF RestoreFails
  <2>22. CASE FailCloseFails(t) BY <2>22, <2>a, <1>b DEF FailCloseFails
  <2>23. CASE Stop(t) BY <2>23, UndisturbedLeft DEF Stop
  <2> QED
    BY <1>1, <2>1, <2>2, <2>3, <2>4, <2>5, <2>6, <2>7, <2>8, <2>9, <2>10, <2>11, <2>12,
       <2>13, <2>14, <2>15, <2>16, <2>17, <2>18, <2>19, <2>20, <2>21, <2>22, <2>23 DEF Session, Failure
<1>2. ASSUME NEW s \in {"RUNNING", "TERMINATED"}, SetPower(s) PROVE Undisturbed'
  BY <1>2 DEF SetPower, Acts
<1>3. CASE Recreate
  BY <1>3, <1>b DEF Recreate, Acts
<1>4. ASSUME NEW r \in Releases, ActivateByHand(r) PROVE Undisturbed'
  BY <1>4 DEF ActivateByHand, Acts
<1>5. CASE UNCHANGED vars BY <1>5 DEF vars
<1> QED
  BY <1>1, <1>2, <1>3, <1>4, <1>5 DEF Next, Operator

-------------------------------------------------------------------------------
(* What an undisturbed replacement finds again.                            *)

Expected ==
  /\ \A p \in Paths : checkpoint[p].state # "absent" => checkpoint[p].before < checkpoint[p].after
  /\ \A t \in Terminals : alone[t] =>
       /\ pc[t] = "apply" => before[t] = vm
       /\ pc[t] = "resume" => checkpoint[Path(t)].state # "absent"
       /\ pc[t] = "restore" /\ Replaces(t) => node.release = cmd[t].release

LEMMA ExpectedInit == Init => Expected
BY DEF Init, Expected, NoCheckpoint

\* A command that ends and leaves the node and the files as they are.
LEMMA ExpectedLeft ==
  ASSUME Typed, Expected, NEW t \in Terminals, Ends(t),
         UNCHANGED <<checkpoint, vm, node>>
  PROVE  Expected'
<1>1. ASSUME NEW u \in Terminals, alone'[u]
      PROVE  u # t /\ alone[u] /\ pc'[u] = pc[u] /\ cmd'[u] = cmd[u] /\ before'[u] = before[u]
  BY <1>1, Leaves
<1> QED
  BY <1>1 DEF Expected, Replaces, Path

LEMMA ExpectedNext == Typed /\ Named /\ Undisturbed /\ Expected /\ [Next]_vars => Expected'
<1> SUFFICES ASSUME Typed, Named, Undisturbed, Expected, [Next]_vars PROVE Expected'
  OBVIOUS
<1> USE DEF Typed, TypeOK, Undisturbed, Expected, At, Path, Replaces, Disturbs, files, cloud, history, Goto, Ends, Fails
<1>b. /\ vm \in Nat /\ MaxVms \in Nat
      /\ \A u \in Terminals : before[u] \in Nat /\ after[u] \in Nat
      /\ \A p \in Paths : checkpoint[p].before \in Nat /\ checkpoint[p].after \in Nat
  BY ParameterAssumption DEF Checkpoint
<1>1. ASSUME NEW t \in Terminals, Session(t) \/ Failure(t) PROVE Expected'
  <2>a. pc[t] # "idle" => /\ cmd[t] \in Commands /\ Path(t) \in Paths
                          /\ cmd[t].backup \in Backups /\ cmd[t].release \in Releases
                          /\ cmd[t].kind \in {"replace", "restore", "create"}
    BY InProgress
  <2>1. ASSUME NEW c \in Commands, Begin(t, c) PROVE Expected'
    <3>1. \A u \in Terminals \ {t} : Disturbs(u)' = Disturbs(u)
      BY <2>1, Begins
    <3>2. c.kind = "create" => ~Disturbs(t)'
      BY <2>1, Begins
    <3> HIDE DEF Disturbs
    <3> QED
      BY <2>1, <3>1, <3>2, Begins
  <2>2. CASE CreateBackup(t) BY <2>2, <2>a, <1>b DEF CreateBackup
  <2>3. CASE VerifyBackup(t) BY <2>3, <2>a, <1>b DEF VerifyBackup
  <2>4. CASE Resume(t) BY <2>4, <2>a, <1>b DEF Resume, Resumes, Resumable
  <2>5. CASE Inspect(t) BY <2>5, <2>a, <1>b DEF Inspect
  <2>6. CASE Apply(t) BY <2>6, <2>a, <1>b DEF Apply
  <2>7. CASE Identify(t) BY <2>7, <2>a, <1>b DEF Identify
  <2>8. CASE CheckpointOpen(t) BY <2>8, <2>a, <1>b DEF CheckpointOpen, Named
  <2>9. CASE CheckpointWrite(t) BY <2>9, <2>a, <1>b DEF CheckpointWrite
  <2>10. CASE Activate(t) BY <2>10, <2>a, <1>b DEF Activate
  <2>11. CASE Restore(t) BY <2>11, <2>a, <1>b DEF Restore, Tools, Reachable
  <2>12. CASE RestoreForAnotherRelease(t) BY <2>12, <2>a, <1>b DEF RestoreForAnotherRelease
  <2>13. CASE RestoreNotThere(t) BY <2>13, <2>a, <1>b DEF RestoreNotThere
  <2>14. CASE FailClose(t) BY <2>14, <2>a, <1>b DEF FailClose
  <2>15. CASE ReceiptOpen(t) BY <2>15, <2>a, <1>b DEF ReceiptOpen
  <2>16. CASE ReceiptWrite(t)
    <3>1. CASE Replaces(t) BY <2>16, <3>1, <2>a, <1>b DEF ReceiptWrite
    <3>2. CASE ~Replaces(t) BY <2>16, <3>2, ExpectedLeft DEF ReceiptWrite
    <3> QED
      BY <3>1, <3>2
  <2>17. CASE Cleanup(t) BY <2>17, <2>a, <1>b DEF Cleanup, NoCheckpoint
  <2>18. CASE Refuse(t) BY <2>18, ExpectedLeft DEF Refuse
  <2>19. CASE ApplyFailsHalfway(t) BY <2>19, <2>a, <1>b DEF ApplyFailsHalfway
  <2>20. CASE ActivateFails(t) BY <2>20, <2>a, <1>b DEF ActivateFails
  <2>21. CASE RestoreFails(t) BY <2>21, <2>a, <1>b DEF RestoreFails
  <2>22. CASE FailCloseFails(t) BY <2>22, <2>a, <1>b DEF FailCloseFails
  <2>23. CASE Stop(t) BY <2>23, ExpectedLeft DEF Stop
  <2> QED
    BY <1>1, <2>1, <2>2, <2>3, <2>4, <2>5, <2>6, <2>7, <2>8, <2>9, <2>10, <2>11, <2>12,
       <2>13, <2>14, <2>15, <2>16, <2>17, <2>18, <2>19, <2>20, <2>21, <2>22, <2>23 DEF Session, Failure
<1>2. ASSUME NEW s \in {"RUNNING", "TERMINATED"}, SetPower(s) PROVE Expected'
  BY <1>2 DEF SetPower, Acts
<1>3. CASE Recreate
  BY <1>3, <1>b DEF Recreate, Acts
<1>4. ASSUME NEW r \in Releases, ActivateByHand(r) PROVE Expected'
  BY <1>4 DEF ActivateByHand, Acts
<1>5. CASE UNCHANGED vars BY <1>5 DEF vars
<1> QED
  BY <1>1, <1>2, <1>3, <1>4, <1>5 DEF Next, Operator

-------------------------------------------------------------------------------
(* A replacement is applied once.                                          *)

Forgotten(p) ==
  /\ applied[p] # 0 /\ checkpoint[p].state = "absent"
  /\ receipt[p] = "absent" \/ \E t \in Terminals : Replaces(t) /\ Path(t) = p

Once ==
  hand = "no" /\ ~raced =>
    /\ \A t, u \in Terminals : Replaces(t) /\ Replaces(u) => t = u
    /\ \A p \in Paths :
         /\ applied[p] <= 1
         /\ Forgotten(p) => /\ node.release = "none"
                            /\ \A q \in Paths : checkpoint[q].after < vm
    /\ \A t \in Terminals :
         /\ pc[t] \in {"inspect", "apply", "applied", "identified"}
              => checkpoint[Path(t)].state = "absent"
         /\ pc[t] = "apply" => node.release # "none"
         /\ pc[t] \in {"applied", "identified"} => \A p \in Paths : Forgotten(p) => p = Path(t)
         /\ pc[t] \in {"checkpointing", "activate"} => \A p \in Paths : ~Forgotten(p)
         /\ pc[t] = "cleanup" => receipt[Path(t)] # "absent"

LEMMA OnceInit == Init => Once
BY DEF Init, Once, Forgotten, NoCommand, Replaces

\* A command that ends, and leaves a node without a release if it was a
\* replacement, or with another one if no replacement is forgotten.
LEMMA OnceLeft ==
  ASSUME Typed, Once, hand' = "no", ~raced', NEW t \in Terminals, Ends(t),
         UNCHANGED <<files, vm, raced, applied, hand>>,
         \/ node'.release = node.release
         \/ Replaces(t) /\ (node'.release = "none" \/ \A p \in Paths : ~Forgotten(p))
  PROVE  Once'
<1>1. hand = "no" /\ ~raced /\ UNCHANGED <<receipt, checkpoint>>
  BY DEF files
<1>2. \A u \in Terminals : Replaces(u)' => u # t /\ Replaces(u) /\ Path(u)' = Path(u)
  BY Leaves
<1>3. \A p \in Paths : Forgotten(p)' => Forgotten(p)
  BY <1>1, <1>2 DEF Forgotten
<1>4. \A u \in Terminals : pc'[u] # "idle" => u # t /\ pc'[u] = pc[u] /\ Path(u)' = Path(u)
  BY Leaves
<1>5. \A u \in Terminals : pc'[u] = "apply" => node'.release # "none"
  <2>1. \A u \in Terminals : pc[u] = "apply" => Replaces(u) /\ node.release # "none"
    BY <1>1 DEF Typed, Once
  <2>2. \A u \in Terminals : pc'[u] = "apply" => u # t /\ Replaces(u) /\ node.release # "none"
    BY <2>1, <1>4
  <2>3. Replaces(t) => \A u \in Terminals : pc'[u] # "apply"
    BY <2>2, <1>1 DEF Once
  <2> QED
    BY <2>2, <2>3
<1>6. \A p \in Paths : Forgotten(p)' => node'.release = "none"
  BY <1>1, <1>3 DEF Once
<1> HIDE DEF Forgotten
<1> QED
  BY <1>1, <1>2, <1>3, <1>4, <1>5, <1>6 DEF Once

LEMMA OnceNext == Typed /\ Named /\ Once /\ [Next]_vars => Once'
<1> SUFFICES ASSUME Typed, Named, Once, [Next]_vars, hand' = "no", ~raced' PROVE Once'
  BY DEF Once
<1> USE DEF Typed, TypeOK, Once, At, Path, Replaces, Disturbs, files, cloud, history, Goto, Ends, Fails, Forgotten
<1>b. /\ vm \in Nat /\ MaxVms \in Nat
      /\ \A u \in Terminals : before[u] \in Nat /\ after[u] \in Nat
      /\ \A p \in Paths : checkpoint[p].before \in Nat /\ checkpoint[p].after \in Nat
  BY ParameterAssumption DEF Checkpoint
<1>1. ASSUME NEW t \in Terminals, Session(t) \/ Failure(t) PROVE Once'
  <2>a. pc[t] # "idle" => /\ cmd[t] \in Commands /\ Path(t) \in Paths
                          /\ cmd[t].backup \in Backups /\ cmd[t].release \in Releases
                          /\ cmd[t].kind \in {"replace", "restore", "create"}
    BY InProgress
  <2>1. ASSUME NEW c \in Commands, Begin(t, c) PROVE Once'
    <3>1. /\ \A u \in Terminals : Replaces(u)' => Replaces(u) \/ (u = t /\ c.kind = "replace")
          /\ c.kind = "replace" => \A u \in Terminals : ~Replaces(u)
          /\ receipt[c.path] = "absent" /\ cmd'[t] = c /\ hand = "no" /\ ~raced
      BY <2>1, Begins
    <3>2. \A p \in Paths : Forgotten(p)' => Forgotten(p)
      BY <2>1, <3>1, Begins
    <3>3. \A u \in Terminals : pc'[u] \notin {"idle", "create", "verify"}
                              => u # t /\ pc'[u] = pc[u] /\ cmd'[u] = cmd[u]
      BY <2>1, Begins, CommandFields
    <3>4. UNCHANGED <<receipt, checkpoint, vm, node, applied>>
      BY <2>1, Begins
    <3> HIDE DEF Forgotten
    <3> QED
      BY <3>1, <3>2, <3>3, <3>4, <2>1, Begins
  <2>2. CASE CreateBackup(t) BY <2>2, <2>a, <1>b DEF CreateBackup
  <2>3. CASE VerifyBackup(t) BY <2>3, <2>a, <1>b DEF VerifyBackup
  <2>4. CASE Resume(t) BY <2>4, <2>a, <1>b DEF Resume, Resumes, Resumable
  <2>5. CASE Inspect(t) BY <2>5, <2>a, <1>b DEF Inspect
  <2>6. CASE Apply(t)
    <3>1. /\ hand = "no" /\ ~raced /\ Replaces(t) /\ pc[t] = "apply" /\ Path(t) \in Paths
          /\ node.release # "none" /\ checkpoint[Path(t)].state = "absent"
          /\ UNCHANGED <<receipt, checkpoint, cmd>> /\ vm' = vm + 1 /\ node'.release = "none"
          /\ applied' = [applied EXCEPT ![Path(t)] = @ + 1]
          /\ \A u \in Terminals : pc'[u] = IF u = t THEN "applied" ELSE pc[u]
      BY <2>6, <2>a DEF Apply, Bare
    <3>2. \A p \in Paths : ~Forgotten(p)
      BY <3>1
    <3>3. applied[Path(t)] = 0
      BY <3>1, <3>2
    <3>4. \A q \in Paths : checkpoint'[q].after < vm'
      BY <3>1, <1>b DEF Named
    <3>5. \A p \in Paths : Forgotten(p)' => p = Path(t)
      BY <3>1, <3>2
    <3>6. \A p \in Paths : applied'[p] <= 1
      BY <3>1, <3>3
    <3>7. \A u \in Terminals : /\ Replaces(u)' = Replaces(u) /\ Path(u)' = Path(u)
                               /\ Replaces(u) => u = t
                               /\ pc'[u] \in {"resume", "inspect", "apply", "applied", "identified",
                                             "checkpointing", "activate", "cleanup"} => u = t
      BY <3>1
    <3> HIDE DEF Forgotten
    <3> QED
      BY <3>1, <3>4, <3>5, <3>6, <3>7
  <2>7. CASE Identify(t) BY <2>7, <2>a, <1>b DEF Identify
  <2>8. CASE CheckpointOpen(t) BY <2>8, <2>a, <1>b DEF CheckpointOpen
  <2>9. CASE CheckpointWrite(t) BY <2>9, <2>a, <1>b DEF CheckpointWrite
  <2>10. CASE Activate(t) BY <2>10, <2>a, <1>b DEF Activate
  <2>11. CASE Restore(t) BY <2>11, <2>a, <1>b DEF Restore, Tools, Reachable
  <2>12. CASE RestoreForAnotherRelease(t) BY <2>12, <2>a, <1>b DEF RestoreForAnotherRelease
  <2>13. CASE RestoreNotThere(t) BY <2>13, <2>a, <1>b DEF RestoreNotThere
  <2>14. CASE FailClose(t)
    <3>1. node'.release = node.release
      BY <2>14 DEF FailClose
    <3> QED
      BY <2>14, <3>1, OnceLeft DEF FailClose
  <2>15. CASE ReceiptOpen(t) BY <2>15, <2>a, <1>b DEF ReceiptOpen
  <2>16. CASE ReceiptWrite(t)
    <3>1. CASE Replaces(t) BY <2>16, <3>1, <2>a, <1>b DEF ReceiptWrite
    <3>2. CASE ~Replaces(t)
      <4>1. /\ hand = "no" /\ ~raced
            /\ UNCHANGED <<checkpoint, vm, node, applied>> /\ Path(t) \in Paths
            /\ receipt' = [receipt EXCEPT ![Path(t)] = "ok"] /\ Ends(t)
        BY <2>16, <3>2, <2>a DEF ReceiptWrite
      <4>2. \A u \in Terminals : /\ Replaces(u)' => Replaces(u) /\ Path(u)' = Path(u)
                                 /\ pc'[u] # "idle" => pc'[u] = pc[u] /\ Path(u)' = Path(u)
        <5> HIDE DEF Typed, Ends, Replaces, Path
        <5> QED
          BY <4>1, Leaves
      <4>3. \A p \in Paths : Forgotten(p)' => Forgotten(p)
        BY <4>1, <4>2
      <4>4. \A u \in Terminals : pc'[u] = "cleanup" => receipt'[Path(u)] # "absent"
        BY <4>1, <4>2
      <4> HIDE DEF Forgotten, Ends
      <4> QED
        BY <4>1, <4>2, <4>3, <4>4
    <3> QED
      BY <3>1, <3>2
  <2>17. CASE Cleanup(t)
    <3>1. /\ hand = "no" /\ ~raced /\ Ends(t) /\ Replaces(t)
          /\ receipt[Path(t)] # "absent" /\ Path(t) \in Paths
          /\ UNCHANGED <<receipt, vm, node, applied>>
      BY <2>17, <2>a DEF Cleanup
    <3>2. \A u \in Terminals : /\ Replaces(u)' => Replaces(u) /\ Path(u)' = Path(u) /\ u # t
                               /\ pc'[u] # "idle" => pc'[u] = pc[u] /\ Path(u)' = Path(u) /\ u # t
      <4> HIDE DEF Typed, Ends, Replaces, Path
      <4> QED
        BY <3>1, Leaves
    <3>3. \A u \in Terminals : ~Replaces(u)'
      BY <3>1, <3>2
    <3>4. \A q \in Paths : \/ checkpoint'[q] = checkpoint[q]
                           \/ q = Path(t) /\ checkpoint'[q] = NoCheckpoint
      BY <2>17, <3>1 DEF Cleanup
    <3>5. \A q \in Paths : Forgotten(q)' => Forgotten(q)
      BY <3>1, <3>2, <3>3, <3>4
    <3>6. \A q \in Paths : checkpoint'[q].after <= checkpoint[q].after
                           /\ checkpoint'[q].after \in Nat
      BY <3>4, <1>b DEF NoCheckpoint
    <3>7. \A u \in Terminals : pc'[u] \notin {"resume", "inspect", "apply", "applied", "identified",
                                             "checkpointing", "activate", "cleanup"}
      BY <3>1, <3>2
    <3>8. ASSUME NEW p \in Paths, Forgotten(p)'
          PROVE  node'.release = "none" /\ \A q \in Paths : checkpoint'[q].after < vm'
      <4>1. node.release = "none" /\ \A q \in Paths : checkpoint[q].after < vm
        BY <3>1, <3>5, <3>8
      <4> QED
        BY <4>1, <3>1, <3>6, <1>b
    <3> HIDE DEF Forgotten, Ends
    <3> QED
      BY <3>1, <3>3, <3>7, <3>8
  <2>18. CASE Refuse(t) BY <2>18, OnceLeft DEF Refuse
  <2>19. CASE ApplyFailsHalfway(t) BY <2>19, OnceLeft DEF ApplyFailsHalfway, Bare
  <2>20. CASE ActivateFails(t)
    <3>1. \A p \in Paths : ~Forgotten(p)
      BY <2>20 DEF ActivateFails
    <3> QED
      BY <2>20, <3>1, OnceLeft DEF ActivateFails
  <2>21. CASE RestoreFails(t) BY <2>21, <2>a, <1>b DEF RestoreFails
  <2>22. CASE FailCloseFails(t) BY <2>22, OnceLeft DEF FailCloseFails
  <2>23. CASE Stop(t) BY <2>23, OnceLeft DEF Stop
  <2> QED
    BY <1>1, <2>1, <2>2, <2>3, <2>4, <2>5, <2>6, <2>7, <2>8, <2>9, <2>10, <2>11, <2>12,
       <2>13, <2>14, <2>15, <2>16, <2>17, <2>18, <2>19, <2>20, <2>21, <2>22, <2>23 DEF Session, Failure
<1>2. ASSUME NEW s \in {"RUNNING", "TERMINATED"}, SetPower(s) PROVE Once'
  BY <1>2 DEF SetPower, Acts
<1>3. CASE Recreate
  BY <1>3, <1>b DEF Recreate, Acts
<1>4. ASSUME NEW r \in Releases, ActivateByHand(r) PROVE Once'
  BY <1>4 DEF ActivateByHand, Acts
<1>5. CASE UNCHANGED vars BY <1>5 DEF vars
<1> QED
  BY <1>1, <1>2, <1>3, <1>4, <1>5 DEF Next, Operator

-------------------------------------------------------------------------------
(* The tenant's data.                                                      *)

Kept ==
  hand = "no" => \/ \E b \in Backups : archive[b] = "tenant"
                 \/ /\ node.data = "tenant" /\ power # "none"
                    /\ \A b \in Backups : archive[b] = "none"

LEMMA KeptInit == Init => Kept
BY DEF Init, Kept

LEMMA KeptNext == Typed /\ Kept /\ [Next]_vars => Kept'
<1> SUFFICES ASSUME Typed, Kept, [Next]_vars, hand' = "no" PROVE Kept'
  BY DEF Kept
<1> USE DEF Typed, TypeOK, Kept, At, Path, Replaces, Disturbs, files, cloud, history, Goto, Ends, Fails
<1>b. TRUE
  OBVIOUS
<1>1. ASSUME NEW t \in Terminals, Session(t) \/ Failure(t) PROVE Kept'
  <2>a. pc[t] # "idle" => /\ cmd[t] \in Commands /\ Path(t) \in Paths
                          /\ cmd[t].backup \in Backups /\ cmd[t].release \in Releases
                          /\ cmd[t].kind \in {"replace", "restore", "create"}
    BY InProgress
  <2>1. ASSUME NEW c \in Commands, Begin(t, c) PROVE Kept'
    BY <2>1, CommandFields DEF Begin, Overlaps
  <2>2. CASE CreateBackup(t) BY <2>2, <2>a DEF CreateBackup
  <2>3. CASE VerifyBackup(t) BY <2>3, <2>a DEF VerifyBackup
  <2>4. CASE Resume(t) BY <2>4, <2>a DEF Resume, Resumes, Resumable
  <2>5. CASE Inspect(t) BY <2>5, <2>a DEF Inspect
  <2>6. CASE Apply(t) BY <2>6, <2>a DEF Apply
  <2>7. CASE Identify(t) BY <2>7, <2>a DEF Identify
  <2>8. CASE CheckpointOpen(t) BY <2>8, <2>a DEF CheckpointOpen
  <2>9. CASE CheckpointWrite(t) BY <2>9, <2>a DEF CheckpointWrite
  <2>10. CASE Activate(t) BY <2>10, <2>a DEF Activate
  <2>11. CASE Restore(t) BY <2>11, <2>a DEF Restore, Tools, Reachable
  <2>12. CASE RestoreForAnotherRelease(t) BY <2>12, <2>a DEF RestoreForAnotherRelease
  <2>13. CASE RestoreNotThere(t) BY <2>13, <2>a DEF RestoreNotThere
  <2>14. CASE FailClose(t) BY <2>14, <2>a DEF FailClose
  <2>15. CASE ReceiptOpen(t) BY <2>15, <2>a DEF ReceiptOpen
  <2>16. CASE ReceiptWrite(t) BY <2>16, <2>a DEF ReceiptWrite
  <2>17. CASE Cleanup(t) BY <2>17, <2>a DEF Cleanup, NoCheckpoint
  <2>18. CASE Refuse(t) BY <2>18, <2>a DEF Refuse
  <2>19. CASE ApplyFailsHalfway(t) BY <2>19, <2>a DEF ApplyFailsHalfway
  <2>20. CASE ActivateFails(t) BY <2>20, <2>a DEF ActivateFails
  <2>21. CASE RestoreFails(t) BY <2>21, <2>a DEF RestoreFails
  <2>22. CASE FailCloseFails(t) BY <2>22, <2>a DEF FailCloseFails
  <2>23. CASE Stop(t) BY <2>23, <2>a DEF Stop
  <2> QED
    BY <1>1, <2>1, <2>2, <2>3, <2>4, <2>5, <2>6, <2>7, <2>8, <2>9, <2>10, <2>11, <2>12,
       <2>13, <2>14, <2>15, <2>16, <2>17, <2>18, <2>19, <2>20, <2>21, <2>22, <2>23 DEF Session, Failure
<1>2. ASSUME NEW s \in {"RUNNING", "TERMINATED"}, SetPower(s) PROVE Kept'
  BY <1>2 DEF SetPower, Acts
<1>3. CASE Recreate
  BY <1>3, <1>b DEF Recreate, Acts
<1>4. ASSUME NEW r \in Releases, ActivateByHand(r) PROVE Kept'
  BY <1>4 DEF ActivateByHand, Acts
<1>5. CASE UNCHANGED vars BY <1>5 DEF vars
<1> QED
  BY <1>1, <1>2, <1>3, <1>4, <1>5 DEF Next, Operator

-------------------------------------------------------------------------------
(* The theorems.                                                           *)

IInv == Typed /\ Named /\ Undisturbed /\ Expected /\ Once /\ Kept

LEMMA Inductive == Spec => []IInv
<1>1. Init => IInv
  BY TypedInit, NamedInit, UndisturbedInit, ExpectedInit, OnceInit, KeptInit DEF IInv
<1>2. IInv /\ [Next]_vars => IInv'
  BY TypedNext, NamedNext, UndisturbedNext, ExpectedNext, OnceNext, KeptNext DEF IInv
<1> QED
  BY <1>1, <1>2, PTL DEF Spec

\* The model of src/recovery.rs keeps its types, whatever the commands and
\* however they overlap.
THEOREM TypesKept == Spec => []TypeOK
<1>1. IInv => TypeOK
  BY DEF IInv, Typed
<1> QED
  BY <1>1, Inductive, PTL

\* Rerunning replace-node over one receipt path replaces the VM at most
\* once, for any number of stops at any step and any restores, backups and
\* pauses between its steps, until two replacements overlap or the node is
\* recreated or activated by hand (recovery.rs:101-165).
THEOREM AppliedOnce == Spec => []AtMostOneApply
<1>1. IInv => AtMostOneApply
  BY DEF IInv, Once, AtMostOneApply
<1> QED
  BY <1>1, Inductive, PTL

\* The tenant's data is on the node or in an archive, for any number of
\* backups, restores and replacements that overlap and fail anywhere.
THEOREM DataKept == Spec => []TenantDataNeverLost
<1>1. IInv => TenantDataNeverLost
  BY DEF IInv, Kept, TenantDataNeverLost
<1> QED
  BY <1>1, Inductive, PTL

\* A receipt is written only over the truth (recovery.rs:191-222).
THEOREM ReceiptsTrue == Spec => ReceiptTrue
<1>1. IInv /\ [Next]_vars =>
        [\A t \in Terminals : ReceiptWrite(t) /\ Disturbs(t) =>
           /\ alone[t] =>
                /\ power = "RUNNING" /\ node.service = "active"
                /\ node.release = cmd[t].release /\ node.data = archive[cmd[t].backup]
                /\ Replaces(t) => after[t] = vm
           /\ Replaces(t) => before[t] < after[t]]_vars
  <2> SUFFICES ASSUME IInv, NEW t \in Terminals, pc[t] = "writing", Disturbs(t)
               PROVE  /\ alone[t] =>
                           /\ power = "RUNNING" /\ node.service = "active"
                           /\ node.release = cmd[t].release
                           /\ node.data = archive[cmd[t].backup]
                           /\ Replaces(t) => after[t] = vm
                      /\ Replaces(t) => before[t] < after[t]
    BY DEF ReceiptWrite, At
  <2> QED
    BY DEF IInv, Undisturbed, Named
<1> QED
  BY <1>1, Inductive, PTL DEF Spec, ReceiptTrue

\* A command that finds its own checkpoint does not replace the VM again.
THEOREM PendingKept == Spec => PendingNeverReplaced
<1>1. IInv /\ [Next]_vars =>
        [\A t \in Terminals : alone[t] /\ Apply(t)
           => checkpoint[Path(t)].state = "absent"]_vars
  BY DEF IInv, Undisturbed, Apply, At
<1> QED
  BY <1>1, Inductive, PTL DEF Spec, PendingNeverReplaced

\* A replacement that no other command disturbs stops only for one of the
\* causes listed, whatever earlier commands left (recovery.rs:93-190).
THEOREM RefusalsHaveCause == Spec => []RefusedForCause
<1>1. IInv => RefusedForCause
  <2> SUFFICES ASSUME IInv, NEW t \in Terminals, alone[t], Replaces(t), GoesNoFurther(t)
               PROVE  Cause(t)
    BY DEF RefusedForCause
  <2> USE DEF IInv, At, Path, Cause, Wedged
  <2>1. /\ Path(t) \in Paths /\ vm \in Nat
        /\ checkpoint[Path(t)].state \in {"absent", "torn", "ok"}
        /\ checkpoint[Path(t)].before \in Nat /\ checkpoint[Path(t)].after \in Nat
        /\ before[t] \in Nat
    BY InProgress DEF Typed, TypeOK, Checkpoint, FileState
  <2>2. CASE pc[t] \in {"create", "verify"} /\ ~Tools
    BY <2>2 DEF Tools, Typed, TypeOK, Replaces
  <2>3. CASE At(t, "create") /\ \A b \in Backups : archive[b] # "none"
    BY <2>3 DEF Typed, Replaces
  <2>4. CASE At(t, "verify") /\ archive[cmd[t].backup] = "none"
    BY <2>4
  <2>5. CASE At(t, "resume") /\ ~Resumable(t)
    BY <2>1, <2>5 DEF Resumable, Expected
  <2>6. CASE At(t, "inspect") /\ (~Reachable \/ node.release = "none")
    BY <2>6 DEF Undisturbed
  <2>7. CASE At(t, "apply") /\ (power = "none" \/ vm # before[t] \/ vm = MaxVms)
    BY <2>7 DEF Expected
  <2>8. CASE At(t, "applied") /\ (~Reachable \/ before[t] = vm)
    BY <2>1, <2>8 DEF Named
  <2>9. CASE At(t, "identified") /\ checkpoint[Path(t)].state # "absent"
    BY <2>9 DEF Undisturbed
  <2>10. CASE \/ At(t, "activate") /\ ~Reachable
              \/ At(t, "receipt") /\ receipt[Path(t)] # "absent"
    BY <2>10
  <2>11. CASE At(t, "restore") /\ (~Tools \/ node.release # cmd[t].release)
    BY <2>11 DEF Expected, Tools, Typed, TypeOK
  <2> QED
    BY <2>2, <2>3, <2>4, <2>5, <2>6, <2>7, <2>8, <2>9, <2>10, <2>11 DEF GoesNoFurther, Refused
<1> QED
  BY <1>1, Inductive, PTL
===============================================================================
