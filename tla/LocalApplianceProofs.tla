-------------------------- MODULE LocalApplianceProofs --------------------------
(***************************************************************************)
(* Proofs about LocalAppliance, for any number of terminals, directories,  *)
(* releases, secrets and passwords, commands stopped, and VMs deleted.     *)
(***************************************************************************)
EXTENDS LocalAppliance, TLAPS

\* A launch, in the order of its places.
Early    == {"marker", "secrets", "rename"}
Noding   == {"node", "noding", "load", "telnyx", "telnyxing", "release", "releasing", "render",
             "stage", "copy"}
Owning   == {"ownerfile", "ownering", "mark"}
Closing  == {"receipt", "receipting"}
Served   == {"admin", "password", "bind"} \cup Closing
Ups      == {"up"} \cup Served
Launches == Early \cup Noding \cup Owning \cup {"activate"} \cup Ups

\* A command on an appliance, and the end of a destroy.
Emptying == {"rmopt", "rmdata", "rmdir"}
Removes  == {"rmetc"} \cup Emptying
Operates == {"owner", "down"} \cup Removes
Places   == {"idle"} \cup Launches \cup Operates

\* A step of the command that p runs.
Step(p) == Launching(p) \/ Operating(p) \/ Refuse(p) \/ ComposeUpFails(p) \/ Stop(p)

-------------------------------------------------------------------------------
(* Types, and where a command of each kind can be.                         *)

FileRecord == [node : FileState, release : Releases \cup {None},
               secrets : Batches \cup {None}, owner : FileState,
               receipt : FileState, finished : Releases \cup {None},
               password : Passwords \cup {None}]
VmRecord   == [render : Releases \cup {None}, node : Dirs \cup {"torn", None},
               secrets : Batches \cup {None}, marker : Dirs \cup {None},
               runtime : Batches \cup {None}]
DataRecord == [batch : Batches \cup {None}, admin : Passwords \cup {None}, bound : BOOLEAN]

Stored    == files \in [Dirs -> FileRecord]
Hosted    == /\ vm \in VmRecord /\ data \in DataRecord
             /\ stack \in [release : Releases \cup {None}, ready : BOOLEAN]
Scheduled == /\ pc \in [Procs -> Places] /\ cmd \in [Procs -> Commands \cup {NoCommand}]
             /\ last \in [Procs -> {"none", "ok", "refused", "failed"}]
             /\ force \in [Procs -> BOOLEAN]
Counted   == /\ mishaps \subseteq {"unfinished", "destroy", "wipe", "lost"}
             /\ crossed \in BOOLEAN /\ stops \in 0..MaxStops /\ wipes \in 0..MaxWipes

Where(p) ==
  /\ pc[p] = "idle" <=> cmd[p] = NoCommand
  /\ pc[p] \in Launches <=> cmd[p].kind = "launch"
  /\ pc[p] \in Operates <=> cmd[p].kind \in {"status", "stop", "destroy"}
  /\ pc[p] = "down" => cmd[p].kind # "status"
  /\ pc[p] \in Removes => cmd[p].kind = "destroy"
  /\ pc[p] # "idle" => last[p] = "none"

Typed == Stored /\ Hosted /\ Scheduled /\ Counted /\ \A p \in Procs : Where(p)

LEMMA Fields ==
  ASSUME NEW c \in Commands
  PROVE  /\ c # NoCommand /\ c.dir \in Dirs
         /\ c.kind \in {"launch", "status", "stop", "destroy"}
         /\ c.kind = "launch" => c.release \in Releases /\ c.telnyx \in BOOLEAN
BY ParameterAssumption DEF Command, NoCommand

\* The command of a process that is under way.
LEMMA Busy ==
  ASSUME Typed, NEW p \in Procs, pc[p] # "idle"
  PROVE  /\ cmd[p] \in Commands /\ Dir(p) \in Dirs /\ last[p] = "none"
         /\ cmd[p].kind \in {"launch", "status", "stop", "destroy"}
         /\ pc[p] \in Launches => cmd[p].kind = "launch" /\ cmd[p].release \in Releases
         /\ Mine(p) \in FileRecord
BY Fields DEF Typed, Scheduled, Stored, Where, Dir, Mine

LEMMA TypedTypes == Typed <=> TypeOK /\ \A p \in Procs : Where(p)
BY DEF Typed, TypeOK, Stored, Hosted, Scheduled, Counted, FileRecord, VmRecord, DataRecord,
       Places, Launches, Early, Noding, Owning, Ups, Served, Closing, Operates, Removes, Emptying

LEMMA TypedInit == Init => Typed
<1> SUFFICES ASSUME Init PROVE Typed
  OBVIOUS
<1>1. 0 \in 0..MaxStops /\ 0 \in 0..MaxWipes
  BY ParameterAssumption
<1>2. Stored /\ Hosted /\ Counted
  BY <1>1 DEF Init, Stored, Hosted, Counted, NoFiles, NoVm, NoStack, NoData, FileState,
              FileRecord, VmRecord, DataRecord
<1>3. Scheduled
  BY DEF Init, Scheduled, Places
<1>4. \A p \in Procs : Where(p)
  BY DEF Init, Where, NoCommand, Launches, Early, Noding, Owning, Ups, Served, Closing, Operates,
         Removes, Emptying
<1> QED
  BY <1>2, <1>3, <1>4 DEF Typed

-------------------------------------------------------------------------------
(* What a step does to the process that takes it: it goes on to a later    *)
(* place of its command, or ends the command.                              *)

Later(p, l) ==
  /\ pc[p] \in Early => l \in Early \cup {"node", "load"}
  /\ pc[p] \in Noding => l \in Noding \cup {"ownerfile"}
  /\ pc[p] \in Owning => l \in Owning \cup {"activate"}
  /\ pc[p] = "activate" => l = "up"
  /\ pc[p] \in Ups => l \in Served
  /\ pc[p] \in Operates => l \in Operates \ {"owner"}
  /\ l = "down" => cmd[p].kind # "status"
  /\ l \in Removes => cmd[p].kind = "destroy"

Turn(p) ==
  \/ \E l \in Places : /\ Later(p, l) /\ Goto(p, l)
                       /\ force' \in {force, [force EXCEPT ![p] = force'[p]]}
                       /\ force'[p] \in BOOLEAN
  \/ \E how \in {"ok", "refused", "failed"} : Ends(p, how)

LEMMA Turns ==
  ASSUME Typed, NEW p \in Procs, Step(p)
  PROVE  pc[p] # "idle" /\ Turn(p)
<1>0. force \in [Procs -> BOOLEAN] /\ (pc[p] \in Operates => cmd[p].kind \in {"status", "stop", "destroy"})
        /\ (pc[p] \in Removes => cmd[p].kind = "destroy") /\ (pc[p] = "down" => cmd[p].kind # "status")
  BY DEF Typed, Scheduled, Where
<1> USE <1>0 DEF At, Turn, Later, Places, Launches, Early, Noding, Owning, Ups, Served, Closing,
                Operates, Removes, Emptying
<1>1. CASE Launching(p)
  <2>1. CASE \/ CheckMarker(p) \/ SecretsKept(p) \/ SecretsStage(p) \/ SecretsRename(p)
             \/ NodeOpen(p) \/ NodeWrite(p) \/ Load(p) \/ RewriteOpen(p) \/ TelnyxWrite(p)
             \/ ReleaseWrite(p)
    BY <2>1 DEF CheckMarker, SecretsKept, SecretsStage, SecretsRename, NodeOpen, NodeWrite, Load,
                RewriteOpen, TelnyxWrite, ReleaseWrite, Writes, Goto
  <2>2. CASE \/ StageRender(p) \/ StageNode(p) \/ StageSecrets(p) \/ OwnerOpen(p)
             \/ OwnerWrite(p) \/ StageMarker(p) \/ ActivateSecrets(p)
    BY <2>2 DEF StageRender, StageNode, StageSecrets, OwnerOpen, OwnerWrite, StageMarker,
                ActivateSecrets, Writes, Stages, Goto
  <2>3. CASE \/ ComposeUp(p) \/ AdministratorCreated(p) \/ AdministratorExists(p)
             \/ SavePassword(p) \/ BindAdministrator(p) \/ ReceiptOpen(p)
    BY <2>3 DEF ComposeUp, AdministratorCreated, AdministratorExists, SavePassword,
                BindAdministrator, ReceiptOpen, Writes, Goto
  <2>4. CASE ReceiptWrite(p)
    BY <2>4 DEF ReceiptWrite
  <2> QED
    BY <1>1, <2>1, <2>2, <2>3, <2>4 DEF Launching
<1>2. CASE Operating(p)
  <2>1. CASE CheckOwner(p) \/ Down(p)
    BY <2>1 DEF CheckOwner, Down, Goto
  <2>2. CASE RemoveEtc(p) \/ RemoveOpt(p) \/ RemoveData(p)
    BY <2>2 DEF RemoveEtc, RemoveOpt, RemoveData, Goto
  <2>3. CASE RemoveDirectory(p)
    BY <2>3 DEF RemoveDirectory
  <2> QED
    BY <1>2, <2>1, <2>2, <2>3 DEF Operating
<1>3. CASE Refuse(p)
  BY <1>3 DEF Refuse, Refused
<1>4. CASE ComposeUpFails(p)
  BY <1>4 DEF ComposeUpFails
<1>5. CASE Stop(p)
  BY <1>5 DEF Stop
<1> QED
  BY <1>1, <1>2, <1>3, <1>4, <1>5 DEF Step

LEMMA TurnKeeps ==
  ASSUME Typed, NEW p \in Procs, pc[p] # "idle", Turn(p)
  PROVE  /\ Scheduled' /\ \A q \in Procs : Where(q)'
         /\ \A q \in Procs \ {p} : /\ pc'[q] = pc[q] /\ cmd'[q] = cmd[q] /\ force'[q] = force[q]
                                  /\ last'[q] = last[q]
         /\ pc'[p] # "idle" => cmd'[p] = cmd[p]
<1>1. Scheduled /\ \A q \in Procs : Where(q)
  BY DEF Typed
<1>2. CASE \E l \in Places : /\ Later(p, l) /\ Goto(p, l)
                             /\ force' \in {force, [force EXCEPT ![p] = force'[p]]}
                             /\ force'[p] \in BOOLEAN
  <2>1. PICK l \in Places : /\ Later(p, l) /\ Goto(p, l)
                            /\ force' \in {force, [force EXCEPT ![p] = force'[p]]}
                            /\ force'[p] \in BOOLEAN
    BY <1>2
  <2>2. Scheduled'
    BY <1>1, <2>1 DEF Goto, Scheduled
  <2>3. \A q \in Procs \ {p} : /\ pc'[q] = pc[q] /\ cmd'[q] = cmd[q] /\ force'[q] = force[q]
                               /\ last'[q] = last[q]
    BY <1>1, <2>1 DEF Goto, Scheduled
  <2>4. pc'[p] = l /\ cmd'[p] = cmd[p] /\ last'[p] = last[p]
    BY <1>1, <2>1 DEF Goto, Scheduled
  <2>a. Where(p) /\ pc[p] \in Places
    BY <1>1 DEF Scheduled
  <2>b. IF pc[p] \in Launches THEN l \in Launches ELSE l \in Operates
    BY <2>1, <2>a DEF Later, Places, Launches, Early, Noding, Owning, Ups, Served, Closing, Operates,
                      Removes, Emptying
  <2>c. /\ "idle" \notin Launches \cup Operates
        /\ \A x \in Launches : x \notin Operates /\ x # "down"
        /\ "down" \in Operates /\ \A x \in Removes : x \in Operates
    BY DEF Launches, Early, Noding, Owning, Ups, Served, Closing, Operates, Removes, Emptying
  <2>d. cmd[p] # NoCommand /\ last[p] = "none" /\ l # "idle"
    BY <2>a, <2>b, <2>c DEF Where
  <2>e. /\ l \in Launches <=> cmd[p].kind = "launch"
        /\ l \in Operates <=> cmd[p].kind \in {"status", "stop", "destroy"}
    BY <2>a, <2>b, <2>c, <2>d DEF Where, Places
  <2>f. (l = "down" => cmd[p].kind # "status") /\ (l \in Removes => cmd[p].kind = "destroy")
    BY <2>1 DEF Later
  <2>5. Where(p)'
    BY <2>4, <2>d, <2>e, <2>f DEF Where
  <2> QED
    BY <1>1, <2>2, <2>3, <2>4, <2>5 DEF Where
<1>3. ASSUME NEW how \in {"ok", "refused", "failed"}, Ends(p, how)
      PROVE  /\ Scheduled' /\ \A q \in Procs : Where(q)'
             /\ \A q \in Procs \ {p} : /\ pc'[q] = pc[q] /\ cmd'[q] = cmd[q]
                                      /\ force'[q] = force[q] /\ last'[q] = last[q]
             /\ pc'[p] = "idle"
  <2>1. Scheduled'
    BY <1>1, <1>3 DEF Ends, Scheduled, Places
  <2>2. \A q \in Procs \ {p} : /\ pc'[q] = pc[q] /\ cmd'[q] = cmd[q] /\ force'[q] = force[q]
                               /\ last'[q] = last[q]
    BY <1>1, <1>3 DEF Ends, Scheduled
  <2>3. pc'[p] = "idle" /\ cmd'[p] = NoCommand
    BY <1>1, <1>3 DEF Ends, Scheduled
  <2>4. Where(p)'
    BY <2>3 DEF Where, NoCommand, Launches, Early, Noding, Owning, Ups, Served, Closing, Operates,
                Removes, Emptying
  <2> QED
    BY <1>1, <2>1, <2>2, <2>3, <2>4 DEF Where
<1> QED
  BY <1>2, <1>3 DEF Turn

-------------------------------------------------------------------------------
(* What a step of p does to its directory, to the VM, to the containers,   *)
(* to the data and to the history.                                         *)

OnFiles(p) ==
  LET f == Mine(p)
      g == files'[Dir(p)]
  IN
  /\ Stored' /\ \A d \in Dirs \ {Dir(p)} : files'[d] = files[d]
  /\ \/ files' = files
     \/ pc[p] = "rmdir" /\ pc'[p] = "idle" /\ g = NoFiles
     \/ /\ g.owner = f.owner /\ g.receipt = f.receipt /\ g.finished = f.finished
        /\ g.password = f.password
        /\ \/ f.secrets = None /\ g.secrets # None /\ g.node = f.node
           \/ pc[p] \in Noding /\ g.secrets = f.secrets
     \/ /\ g.node = f.node /\ g.secrets = f.secrets
        /\ g.owner = f.owner \/ g.owner # "absent"
        /\ \/ g.receipt = f.receipt /\ g.finished = f.finished
           \/ pc[p] = "receipt" /\ pc'[p] = "receipting" /\ g.receipt = "torn"
           \/ /\ pc[p] = "receipting" /\ pc'[p] = "idle"
              /\ g.receipt = "ok" /\ g.finished = cmd[p].release
        /\ \/ g.password = f.password
           \/ pc[p] = "password" /\ pc'[p] = "bind" /\ g.password = data.admin

LEMMA FileSteps ==
  ASSUME Typed, NEW p \in Procs, Step(p)
  PROVE  OnFiles(p)
<1>0. /\ Stored /\ Dir(p) \in Dirs /\ Mine(p) \in FileRecord /\ Mine(p) = files[Dir(p)]
      /\ pc[p] \in Launches => cmd[p].release \in Releases
      /\ data.admin \in Passwords \cup {None} /\ pc \in [Procs -> Places]
  BY Turns, Busy DEF Typed, Hosted, DataRecord, Mine, Scheduled
<1>1. ASSUME UNCHANGED files PROVE OnFiles(p)
  BY <1>0, <1>1 DEF OnFiles, Stored
<1>2. ASSUME NEW f \in FileRecord, Writes(p, f)
      PROVE  Stored' /\ files'[Dir(p)] = f /\ \A d \in Dirs \ {Dir(p)} : files'[d] = files[d]
  BY <1>0, <1>2 DEF Stored, Writes
<1>3. CASE SecretsRename(p)
  <2>1. PICK b \in Batches : Writes(p, [Mine(p) EXCEPT !.secrets = b])
    BY <1>3 DEF SecretsRename
  <2>2. [Mine(p) EXCEPT !.secrets = b] \in FileRecord /\ b # None
    BY <1>0, ParameterAssumption DEF FileRecord
  <2>3. Mine(p).secrets = None
    BY <1>3 DEF SecretsRename
  <2> QED
    BY <1>0, <1>2, <2>1, <2>2, <2>3 DEF OnFiles, FileRecord
<1>4. CASE NodeOpen(p) \/ RewriteOpen(p)
  <2>1. [Mine(p) EXCEPT !.node = "torn"] \in FileRecord
    BY <1>0 DEF FileRecord, FileState
  <2> QED
    BY <1>0, <1>2, <1>4, <2>1 DEF NodeOpen, RewriteOpen, At, OnFiles, FileRecord, Noding
<1>5. CASE NodeWrite(p) \/ ReleaseWrite(p)
  <2>1. [Mine(p) EXCEPT !.node = "ok", !.release = cmd[p].release] \in FileRecord
    BY <1>0, <1>5 DEF FileRecord, FileState, NodeWrite, ReleaseWrite, At, Launches, Noding
  <2> QED
    BY <1>0, <1>2, <1>5, <2>1 DEF NodeWrite, ReleaseWrite, At, OnFiles, FileRecord, Noding
<1>6. CASE TelnyxWrite(p)
  <2>1. [Mine(p) EXCEPT !.node = "ok"] \in FileRecord
    BY <1>0 DEF FileRecord, FileState
  <2> QED
    BY <1>0, <1>2, <1>6, <2>1 DEF TelnyxWrite, At, OnFiles, FileRecord, Noding
<1>7. CASE OwnerOpen(p) \/ OwnerWrite(p)
  <2>1. \E o \in {"torn", "ok"} : Writes(p, [Mine(p) EXCEPT !.owner = o])
    BY <1>7 DEF OwnerOpen, OwnerWrite
  <2>2. \A o \in {"torn", "ok"} : [Mine(p) EXCEPT !.owner = o] \in FileRecord
    BY <1>0 DEF FileRecord, FileState
  <2> QED
    BY <1>0, <1>2, <2>1, <2>2 DEF OnFiles, FileRecord
<1>8. CASE SavePassword(p)
  <2>1. [Mine(p) EXCEPT !.password = data.admin] \in FileRecord
    BY <1>0 DEF FileRecord
  <2>2. pc[p] = "password" /\ pc'[p] = "bind"
    BY <1>0, <1>8 DEF SavePassword, At, Goto
  <2> QED
    BY <1>0, <1>2, <1>8, <2>1, <2>2 DEF SavePassword, OnFiles, FileRecord
<1>9. CASE ReceiptOpen(p)
  <2>1. [Mine(p) EXCEPT !.receipt = "torn"] \in FileRecord
    BY <1>0 DEF FileRecord, FileState
  <2>2. pc[p] = "receipt" /\ pc'[p] = "receipting"
    BY <1>0, <1>9 DEF ReceiptOpen, At, Goto
  <2> QED
    BY <1>0, <1>2, <1>9, <2>1, <2>2 DEF ReceiptOpen, OnFiles, FileRecord
<1>10. CASE ReceiptWrite(p)
  <2>1. pc[p] = "receipting" /\ pc'[p] = "idle" /\ cmd[p].release \in Releases
    BY <1>0, <1>10 DEF ReceiptWrite, At, Ends, Launches, Ups, Served, Closing
  <2>2. /\ files' = [files EXCEPT ![Dir(p)].receipt = "ok", ![Dir(p)].finished = cmd[p].release]
    BY <1>10 DEF ReceiptWrite
  <2>3. /\ files'[Dir(p)] = [Mine(p) EXCEPT !.receipt = "ok", !.finished = cmd[p].release]
        /\ \A d \in Dirs \ {Dir(p)} : files'[d] = files[d]
        /\ files' = [files EXCEPT ![Dir(p)] = files'[Dir(p)]]
    BY <1>0, <2>2 DEF Stored
  <2>4. files'[Dir(p)] \in FileRecord
    BY <1>0, <2>1, <2>3 DEF FileRecord, FileState
  <2>5. Stored'
    BY <1>0, <2>3, <2>4 DEF Stored
  <2> QED
    BY <1>0, <2>1, <2>3, <2>5 DEF OnFiles, FileRecord
<1>11. CASE RemoveDirectory(p)
  <2>1. pc[p] = "rmdir" /\ pc'[p] = "idle" /\ files' = [files EXCEPT ![Dir(p)] = NoFiles]
    BY <1>0, <1>11 DEF RemoveDirectory, At, Ends
  <2>2. NoFiles \in FileRecord
    BY DEF NoFiles, FileRecord, FileState
  <2> QED
    BY <1>0, <2>1, <2>2 DEF OnFiles, Stored
<1>12. CASE Refuse(p) \/ ComposeUpFails(p) \/ Stop(p)
  BY <1>1, <1>12 DEF Refuse, ComposeUpFails, Stop
<1>13. CASE \/ CheckMarker(p) \/ SecretsKept(p) \/ SecretsStage(p) \/ Load(p) \/ StageRender(p)
            \/ StageNode(p) \/ StageSecrets(p) \/ StageMarker(p) \/ ActivateSecrets(p)
            \/ ComposeUp(p) \/ AdministratorCreated(p) \/ AdministratorExists(p)
            \/ BindAdministrator(p)
  BY <1>1, <1>13 DEF CheckMarker, SecretsKept, SecretsStage, Load, StageRender, StageNode,
       StageSecrets, StageMarker, ActivateSecrets, ComposeUp, AdministratorCreated,
       AdministratorExists, BindAdministrator, Stages
<1>14. CASE CheckOwner(p) \/ Down(p) \/ RemoveEtc(p) \/ RemoveOpt(p) \/ RemoveData(p)
  BY <1>1, <1>14 DEF CheckOwner, Down, RemoveEtc, RemoveOpt, RemoveData
<1> QED
  BY <1>3, <1>4, <1>5, <1>6, <1>7, <1>8, <1>9, <1>10, <1>11, <1>12, <1>13, <1>14
     DEF Step, Launching, Operating

OnVm(p) ==
  /\ vm' \in VmRecord
  /\ pc[p] \in {"marker", "owner"} => vm' = vm
  /\ \/ vm'.marker = vm.marker
     \/ pc[p] = "mark" /\ pc'[p] = "activate" /\ vm'.marker = Dir(p)
     \/ pc[p] = "rmetc" /\ pc'[p] = "rmopt" /\ vm'.marker = None
  /\ \/ vm'.secrets = vm.secrets
     \/ pc[p] = "copy" /\ vm'.secrets = Mine(p).secrets
     \/ pc[p] = "rmetc"
  /\ \/ vm'.runtime = vm.runtime
     \/ pc[p] = "activate" /\ vm'.runtime = vm.secrets
     \/ pc[p] = "rmdata"

LEMMA VmSteps ==
  ASSUME Typed, NEW p \in Procs, Step(p)
  PROVE  OnVm(p)
<1>0. /\ vm \in VmRecord /\ Dir(p) \in Dirs /\ Mine(p) \in FileRecord /\ pc \in [Procs -> Places]
      /\ pc[p] \in Launches => cmd[p].release \in Releases
  BY Turns, Busy DEF Typed, Hosted, Scheduled
<1>1. ASSUME UNCHANGED vm PROVE OnVm(p)
  BY <1>0, <1>1 DEF OnVm
<1>2. CASE StageRender(p) \/ StageNode(p)
  <2>1. cmd[p].release \in Releases
    BY <1>0, <1>2 DEF StageRender, StageNode, At, Launches, Noding
  <2> QED
    BY <1>0, <1>2, <2>1 DEF StageRender, StageNode, At, Stages, OnVm, VmRecord
<1>3. CASE StageSecrets(p)
  BY <1>0, <1>3 DEF StageSecrets, Stages, At, OnVm, VmRecord, FileRecord
<1>4. CASE StageMarker(p)
  BY <1>0, <1>4 DEF StageMarker, Stages, At, Goto, OnVm, VmRecord
<1>5. CASE ActivateSecrets(p)
  BY <1>0, <1>5 DEF ActivateSecrets, At, OnVm, VmRecord
<1>6. CASE RemoveEtc(p)
  BY <1>0, <1>6 DEF RemoveEtc, At, Goto, OnVm, VmRecord, NoVm
<1>7. CASE RemoveOpt(p) \/ RemoveData(p)
  BY <1>0, <1>7 DEF RemoveOpt, RemoveData, At, OnVm, VmRecord
<1>8. CASE Refuse(p) \/ ComposeUpFails(p) \/ Stop(p)
  BY <1>1, <1>8 DEF Refuse, ComposeUpFails, Stop, machine
<1>9. CASE \/ CheckMarker(p) \/ SecretsKept(p) \/ SecretsStage(p) \/ SecretsRename(p)
           \/ NodeOpen(p) \/ NodeWrite(p) \/ Load(p) \/ RewriteOpen(p) \/ TelnyxWrite(p)
           \/ ReleaseWrite(p) \/ OwnerOpen(p) \/ OwnerWrite(p)
  BY <1>1, <1>9 DEF CheckMarker, SecretsKept, SecretsStage, SecretsRename, NodeOpen, NodeWrite,
       Load, RewriteOpen, TelnyxWrite, ReleaseWrite, OwnerOpen, OwnerWrite, Writes, machine
<1>10. CASE \/ ComposeUp(p) \/ AdministratorCreated(p) \/ AdministratorExists(p)
            \/ SavePassword(p) \/ BindAdministrator(p) \/ ReceiptOpen(p) \/ ReceiptWrite(p)
            \/ CheckOwner(p) \/ Down(p) \/ RemoveDirectory(p)
  BY <1>1, <1>10 DEF ComposeUp, AdministratorCreated, AdministratorExists, SavePassword,
       BindAdministrator, ReceiptOpen, ReceiptWrite, CheckOwner, Down, RemoveDirectory, Writes,
       machine
<1> QED
  BY <1>2, <1>3, <1>4, <1>5, <1>6, <1>7, <1>8, <1>9, <1>10 DEF Step, Launching, Operating

\* mishaps change in the same steps as the containers.
OnStack(p) ==
  /\ stack' \in [release : Releases \cup {None}, ready : BOOLEAN]
  /\ \/ stack' = stack /\ mishaps \subseteq mishaps'
     \/ pc[p] = "down" /\ pc'[p] \in {"idle", "rmetc"} /\ stack' = NoStack
        /\ mishaps' = mishaps \ {"unfinished"}
     \/ pc[p] = "up" /\ pc'[p] = "admin" /\ stack' = [release |-> Containers(p), ready |-> TRUE]
        /\ mishaps' = Remade(p, mishaps)
     \/ pc[p] = "up" /\ pc'[p] = "idle" /\ stack'.ready = FALSE
        /\ mishaps' = mishaps \cup {"unfinished"}
  /\ mishaps' \subseteq {"unfinished", "destroy", "wipe", "lost"}

LEMMA StackSteps ==
  ASSUME Typed, NEW p \in Procs, Step(p)
  PROVE  OnStack(p)
<1>0. /\ stack \in [release : Releases \cup {None}, ready : BOOLEAN] /\ pc \in [Procs -> Places]
      /\ pc[p] \in Launches => cmd[p].release \in Releases
      /\ mishaps \subseteq {"unfinished", "destroy", "wipe", "lost"}
  BY Turns, Busy DEF Typed, Hosted, Scheduled, Counted
<1>1. ASSUME UNCHANGED <<stack, mishaps>> PROVE OnStack(p)
  BY <1>0, <1>1 DEF OnStack
<1>2. ASSUME pc[p] = "up"
      PROVE  Containers(p) \in Releases \cup {None} /\ cmd[p].release \in Releases
  BY <1>0, <1>2 DEF Containers, Launches, Ups
<1>3. CASE ComposeUp(p)
  BY <1>0, <1>2, <1>3 DEF ComposeUp, At, Goto, OnStack, Remade
<1>4. CASE ComposeUpFails(p)
  <2>1. pc[p] = "up" /\ pc'[p] = "idle" /\ mishaps' = mishaps \cup {"unfinished"}
    BY <1>0, <1>4 DEF ComposeUpFails, At, Ends
  <2>2. stack' \in {[release |-> Containers(p), ready |-> FALSE], [stack EXCEPT !.ready = FALSE]}
    BY <1>4 DEF ComposeUpFails
  <2>3. CASE stack' = [release |-> Containers(p), ready |-> FALSE]
    BY <1>0, <1>2, <2>1, <2>3 DEF OnStack
  <2>4. CASE stack' = [stack EXCEPT !.ready = FALSE]
    BY <1>0, <2>1, <2>4 DEF OnStack
  <2> QED
    BY <2>2, <2>3, <2>4
<1>5. CASE Down(p)
  BY <1>0, <1>5 DEF Down, At, Goto, Ends, OnStack, NoStack
<1>6. CASE Refuse(p) \/ Stop(p)
  <2>1. /\ mishaps' = mishaps \cup Blame(p) /\ stack' = stack
        /\ Blame(p) \subseteq {"unfinished", "destroy", "lost"}
    BY <1>6 DEF Refuse, Stop, Blame, machine
  <2> QED
    BY <1>0, <2>1 DEF OnStack
<1>7. CASE \/ CheckMarker(p) \/ SecretsKept(p) \/ SecretsStage(p) \/ SecretsRename(p)
           \/ NodeOpen(p) \/ NodeWrite(p) \/ Load(p) \/ RewriteOpen(p) \/ TelnyxWrite(p)
           \/ ReleaseWrite(p) \/ OwnerOpen(p) \/ OwnerWrite(p)
  BY <1>1, <1>7 DEF CheckMarker, SecretsKept, SecretsStage, SecretsRename, NodeOpen, NodeWrite,
       Load, RewriteOpen, TelnyxWrite, ReleaseWrite, OwnerOpen, OwnerWrite, Writes, machine, bounds
<1>8. CASE \/ StageRender(p) \/ StageNode(p) \/ StageSecrets(p) \/ StageMarker(p)
           \/ ActivateSecrets(p) \/ RemoveEtc(p) \/ RemoveOpt(p) \/ RemoveData(p)
  BY <1>1, <1>8 DEF StageRender, StageNode, StageSecrets, StageMarker, ActivateSecrets, RemoveEtc,
       RemoveOpt, RemoveData, Stages, bounds
<1>9. CASE \/ AdministratorCreated(p) \/ AdministratorExists(p) \/ SavePassword(p)
           \/ BindAdministrator(p) \/ ReceiptOpen(p) \/ ReceiptWrite(p) \/ CheckOwner(p)
           \/ RemoveDirectory(p)
  BY <1>1, <1>9 DEF AdministratorCreated, AdministratorExists, SavePassword, BindAdministrator,
       ReceiptOpen, ReceiptWrite, CheckOwner, RemoveDirectory, Writes, machine, bounds
<1> QED
  BY <1>3, <1>4, <1>5, <1>6, <1>7, <1>8, <1>9 DEF Step, Launching, Operating

OnData(p) ==
  /\ data' \in DataRecord
  /\ \/ data' = data
     \/ /\ pc[p] = "up" /\ data.batch = None /\ vm.runtime = data'.batch
        /\ data'.admin = None /\ data'.bound = FALSE
     \/ /\ pc[p] = "admin" /\ pc'[p] = "password" /\ SignsIn(p)
        /\ data.admin = None /\ data'.admin # None
        /\ data'.batch = data.batch /\ data'.bound = data.bound
     \/ /\ pc[p] = "bind" /\ pc'[p] = "receipt" /\ SignsIn(p)
        /\ data'.bound /\ data'.batch = data.batch /\ data'.admin = data.admin
     \/ pc[p] = "rmdata" /\ pc'[p] = "rmdir" /\ data' = NoData

LEMMA DataSteps ==
  ASSUME Typed, NEW p \in Procs, Step(p)
  PROVE  OnData(p)
<1>0. /\ data \in DataRecord /\ vm \in VmRecord /\ pc \in [Procs -> Places]
  BY DEF Typed, Hosted, Scheduled
<1>1. ASSUME UNCHANGED data PROVE OnData(p)
  BY <1>0, <1>1 DEF OnData
<1>2. ASSUME data.batch = None, data' = [NoData EXCEPT !.batch = vm.runtime], pc[p] = "up"
      PROVE  OnData(p)
  BY <1>0, <1>2 DEF OnData, DataRecord, VmRecord, NoData
<1>3. CASE ComposeUp(p) \/ ComposeUpFails(p)
  BY <1>1, <1>2, <1>3 DEF ComposeUp, ComposeUpFails, At
<1>4. CASE AdministratorCreated(p)
  <2>1. PICK w \in Passwords : data' = [data EXCEPT !.admin = w]
    BY <1>4 DEF AdministratorCreated
  <2>2. pc[p] = "admin" /\ pc'[p] = "password" /\ SignsIn(p) /\ data.admin = None
    BY <1>0, <1>4 DEF AdministratorCreated, At, Goto
  <2> QED
    BY <1>0, <2>1, <2>2, ParameterAssumption DEF OnData, DataRecord
<1>5. CASE BindAdministrator(p)
  BY <1>0, <1>5 DEF BindAdministrator, At, Goto, OnData, DataRecord
<1>6. CASE RemoveData(p)
  BY <1>0, <1>6 DEF RemoveData, At, Goto, OnData, DataRecord, NoData
<1>7. CASE Refuse(p) \/ Stop(p)
  BY <1>1, <1>7 DEF Refuse, Stop, machine
<1>8. CASE \/ CheckMarker(p) \/ SecretsKept(p) \/ SecretsStage(p) \/ SecretsRename(p)
           \/ NodeOpen(p) \/ NodeWrite(p) \/ Load(p) \/ RewriteOpen(p) \/ TelnyxWrite(p)
           \/ ReleaseWrite(p) \/ OwnerOpen(p) \/ OwnerWrite(p)
  BY <1>1, <1>8 DEF CheckMarker, SecretsKept, SecretsStage, SecretsRename, NodeOpen, NodeWrite,
       Load, RewriteOpen, TelnyxWrite, ReleaseWrite, OwnerOpen, OwnerWrite, Writes, machine
<1>9. CASE \/ StageRender(p) \/ StageNode(p) \/ StageSecrets(p) \/ StageMarker(p)
           \/ ActivateSecrets(p) \/ RemoveEtc(p) \/ RemoveOpt(p)
  BY <1>1, <1>9 DEF StageRender, StageNode, StageSecrets, StageMarker, ActivateSecrets, RemoveEtc,
       RemoveOpt, Stages
<1>10. CASE \/ AdministratorExists(p) \/ SavePassword(p) \/ ReceiptOpen(p) \/ ReceiptWrite(p)
            \/ CheckOwner(p) \/ Down(p) \/ RemoveDirectory(p)
  BY <1>1, <1>10 DEF AdministratorExists, SavePassword, ReceiptOpen, ReceiptWrite, CheckOwner,
       Down, RemoveDirectory, Writes, machine
<1> QED
  BY <1>3, <1>4, <1>5, <1>6, <1>7, <1>8, <1>9, <1>10 DEF Step, Launching, Operating

\* What the end of a command leaves in the history.
Blamed(p) ==
  /\ stops' \in 0..MaxStops /\ wipes' = wipes /\ crossed' = crossed
  /\ pc[p] \in Launches /\ last'[p] = "ok" => pc[p] = "receipting"
  /\ pc'[p] = "idle" =>
       /\ pc[p] \in Ups => \/ "unfinished" \in mishaps'
                           \/ /\ pc[p] = "receipting" /\ files'[Dir(p)].receipt = "ok"
                              /\ files'[Dir(p)].finished = cmd[p].release
       /\ pc[p] \in Emptying => \/ "destroy" \in mishaps'
                                \/ pc[p] = "rmdir" /\ files'[Dir(p)] = NoFiles
       /\ pc[p] = "password" => "lost" \in mishaps'

LEMMA BlameSteps ==
  ASSUME Typed, NEW p \in Procs, Step(p)
  PROVE  Blamed(p)
<1>0. /\ stops \in 0..MaxStops /\ pc \in [Procs -> Places] /\ last \in [Procs -> {"none", "ok", "refused", "failed"}]
      /\ pc[p] # "idle" /\ last[p] = "none" /\ Mine(p) = files[Dir(p)] /\ files[Dir(p)] \in FileRecord
      /\ pc[p] \in Launches <=> cmd[p].kind = "launch"
      /\ Dir(p) \in Dirs /\ Stored
  BY Turns, Busy DEF Typed, Scheduled, Counted, Mine, Where
<1>a. MaxStops \in Nat
  BY ParameterAssumption
<1>1. CASE \E l \in Places : /\ Goto(p, l) /\ l # "idle"
                             /\ stops' = stops /\ wipes' = wipes /\ crossed' = crossed
  BY <1>0, <1>1 DEF Goto, Blamed
<1>2. CASE Refuse(p) \/ Stop(p)
  <2>1. pc'[p] = "idle" /\ last'[p] # "ok" /\ mishaps' = mishaps \cup Blame(p)
    BY <1>0, <1>2 DEF Refuse, Stop, Ends
  <2>2. stops' \in 0..MaxStops /\ wipes' = wipes /\ crossed' = crossed
    BY <1>0, <1>2, <1>a DEF Refuse, Stop
  <2>3. pc[p] \in Ups => "unfinished" \in Blame(p)
    BY <1>0 DEF Blame, Unfinished, Ups, Served, Closing, Launches
  <2>4. pc[p] \in Emptying => "destroy" \in Blame(p)
    BY DEF Blame, Emptying
  <2>5. pc[p] = "password" => "lost" \in Blame(p)
    BY DEF Blame, At
  <2> QED
    BY <2>1, <2>2, <2>3, <2>4, <2>5 DEF Blamed
<1>3. CASE ComposeUpFails(p)
  <2>1. pc'[p] = "idle" /\ last'[p] # "ok" /\ "unfinished" \in mishaps' /\ pc[p] = "up"
    BY <1>0, <1>3 DEF ComposeUpFails, Ends, At
  <2>2. stops' \in 0..MaxStops /\ wipes' = wipes /\ crossed' = crossed
    BY <1>0, <1>3, <1>a DEF ComposeUpFails
  <2> QED
    BY <2>1, <2>2 DEF Blamed, Emptying
<1>4. CASE ReceiptWrite(p)
  BY <1>0, <1>4 DEF ReceiptWrite, At, Blamed, bounds, Emptying, Stored, FileRecord
<1>5. CASE CheckOwner(p) \/ Down(p) \/ RemoveDirectory(p)
  <2>1. /\ stops' = stops /\ wipes' = wipes /\ crossed' = crossed
        /\ pc[p] \in {"owner", "down", "rmdir"}
    BY <1>5 DEF CheckOwner, Down, RemoveDirectory, At, bounds
  <2>2. pc[p] = "rmdir" => files'[Dir(p)] = NoFiles
    BY <1>0, <1>5 DEF CheckOwner, Down, RemoveDirectory, At, Stored
  <2> QED
    BY <1>0, <2>1, <2>2 DEF Blamed, Ups, Served, Closing, Emptying, Launches, Early, Noding, Owning
<1> USE DEF At, Places, Launches, Early, Noding, Owning, Ups, Served, Closing, Operates, Removes,
            Emptying
<1>6. CASE \/ CheckMarker(p) \/ SecretsKept(p) \/ SecretsStage(p) \/ SecretsRename(p)
           \/ NodeOpen(p) \/ NodeWrite(p) \/ Load(p) \/ RewriteOpen(p) \/ TelnyxWrite(p)
           \/ ReleaseWrite(p) \/ OwnerOpen(p) \/ OwnerWrite(p)
  BY <1>1, <1>6 DEF CheckMarker, SecretsKept, SecretsStage, SecretsRename, NodeOpen, NodeWrite,
       Load, RewriteOpen, TelnyxWrite, ReleaseWrite, OwnerOpen, OwnerWrite, Writes, bounds
<1>7. CASE \/ StageRender(p) \/ StageNode(p) \/ StageSecrets(p) \/ StageMarker(p)
           \/ ActivateSecrets(p) \/ RemoveEtc(p) \/ RemoveOpt(p) \/ RemoveData(p)
  BY <1>1, <1>7 DEF StageRender, StageNode, StageSecrets, StageMarker, ActivateSecrets, RemoveEtc,
       RemoveOpt, RemoveData, Stages, bounds
<1>8. CASE \/ ComposeUp(p) \/ AdministratorCreated(p) \/ AdministratorExists(p)
           \/ SavePassword(p) \/ BindAdministrator(p) \/ ReceiptOpen(p)
  BY <1>1, <1>8 DEF ComposeUp, AdministratorCreated, AdministratorExists, SavePassword,
       BindAdministrator, ReceiptOpen, Writes, bounds
<1> QED
  BY <1>2, <1>3, <1>4, <1>5, <1>6, <1>7, <1>8 DEF Step, Launching, Operating

\* What a command found, or left, when it came to a place.
Found(p) ==
  /\ pc[p] \in {"marker", "owner"} /\ pc'[p] # "idle" => vm.marker \in {None, Dir(p)}
  /\ pc'[p] \in Noding => \/ pc[p] \in Noding \/ Mine(p).node # "absent"
                          \/ files'[Dir(p)].secrets # None
  /\ pc'[p] = "ownerfile" => pc[p] = "copy" /\ vm'.secrets = Mine(p).secrets
  /\ pc'[p] \in {"ownering", "mark"} =>
       pc[p] \in {"ownerfile", "ownering"} /\ files'[Dir(p)].owner # "absent"
  /\ pc'[p] = "activate" => pc[p] = "mark" /\ vm'.marker = Dir(p)
  /\ pc'[p] = "up" => /\ pc[p] = "activate" /\ vm'.runtime = vm.secrets
                      /\ Mine(p).receipt = "ok" /\ Mine(p).finished # cmd[p].release => force'[p]
  /\ pc[p] \in Ups /\ pc'[p] # "idle" => pc'[p] \in Served
  /\ pc[p] \in Emptying /\ pc'[p] # "idle" => pc'[p] \in Emptying
  /\ pc'[p] \in Served => pc[p] \in Ups
  /\ pc'[p] = "admin" => /\ pc[p] = "up" /\ stack'.release = Containers(p)
                         /\ mishaps' = Remade(p, mishaps)
  /\ pc'[p] \in {"password", "bind"} =>
       pc[p] \in {"admin", "password"} /\ (pc[p] = "admin" => data'.admin # None)
  /\ pc[p] = "password" /\ pc'[p] # "idle" => files'[Dir(p)].password = data.admin
  /\ pc'[p] \in Closing => \/ pc[p] = "bind" /\ SignsIn(p) /\ data'.bound
                           \/ pc[p] = "receipt"
  /\ pc'[p] = "down" => pc[p] = "owner" /\ vm.marker = Dir(p)
  /\ pc'[p] = "rmetc" => pc[p] = "down" /\ stack' = NoStack
  /\ pc'[p] = "rmopt" => pc[p] = "rmetc" /\ vm'.marker = None
  /\ pc'[p] = "rmdata" => pc[p] = "rmopt"
  /\ pc'[p] = "rmdir" => pc[p] = "rmdata" /\ data' = NoData

LEMMA FoundSteps ==
  ASSUME Typed, NEW p \in Procs, Step(p)
  PROVE  Found(p)
<1>0. /\ pc \in [Procs -> Places] /\ force \in [Procs -> BOOLEAN] /\ pc[p] # "idle"
      /\ Mine(p) = files[Dir(p)] /\ files[Dir(p)] \in FileRecord
      /\ Dir(p) \in Dirs /\ Stored /\ vm \in VmRecord /\ data \in DataRecord
  BY Turns, Busy DEF Typed, Scheduled, Hosted, Mine
<1>1. ASSUME pc'[p] = "idle" PROVE Found(p)
  BY <1>1 DEF Found, Early, Noding, Served, Closing
<1> USE DEF At, Noding, Ups, Served, Closing, Emptying
<1>2. CASE CheckMarker(p)
  BY <1>0, <1>2 DEF CheckMarker, MayLaunch, Goto, Found
<1>3. CASE SecretsKept(p) \/ SecretsStage(p)
  BY <1>0, <1>3 DEF SecretsKept, SecretsStage, Goto, Found
<1>4. CASE SecretsRename(p)
  <2>1. PICK b \in Batches : Writes(p, [Mine(p) EXCEPT !.secrets = b])
    BY <1>4 DEF SecretsRename
  <2>2. files'[Dir(p)].secrets # None
    BY <1>0, <2>1, ParameterAssumption DEF Writes, Stored, FileRecord
  <2> QED
    BY <1>0, <1>4, <2>2 DEF SecretsRename, Goto, Found
<1>5. CASE NodeOpen(p) \/ NodeWrite(p) \/ Load(p)
  BY <1>0, <1>5 DEF NodeOpen, NodeWrite, Load, Goto, Found
<1>6. CASE RewriteOpen(p) \/ TelnyxWrite(p) \/ ReleaseWrite(p)
  BY <1>0, <1>6 DEF RewriteOpen, TelnyxWrite, ReleaseWrite, Goto, Found
<1>7. CASE StageRender(p) \/ StageNode(p)
  BY <1>0, <1>7 DEF StageRender, StageNode, Goto, Found
<1>8. CASE StageSecrets(p)
  BY <1>0, <1>8 DEF StageSecrets, Stages, Goto, Found, VmRecord
<1>9. CASE OwnerOpen(p) \/ OwnerWrite(p)
  <2>1. \E o \in {"torn", "ok"} : Writes(p, [Mine(p) EXCEPT !.owner = o])
    BY <1>9 DEF OwnerOpen, OwnerWrite
  <2>2. files'[Dir(p)].owner # "absent"
    BY <1>0, <2>1 DEF Writes, Stored, FileRecord
  <2> QED
    BY <1>0, <1>9, <2>2 DEF OwnerOpen, OwnerWrite, Goto, Found
<1>10. CASE StageMarker(p)
  BY <1>0, <1>10 DEF StageMarker, Stages, Goto, Found, VmRecord
<1>11. CASE ActivateSecrets(p)
  BY <1>0, <1>11 DEF ActivateSecrets, Goto, Found, VmRecord
<1>12. CASE ComposeUp(p)
  BY <1>0, <1>12 DEF ComposeUp, Goto, Found
<1>13. CASE AdministratorCreated(p)
  <2>1. data'.admin # None
    BY <1>0, <1>13, ParameterAssumption DEF AdministratorCreated, DataRecord
  <2> QED
    BY <1>0, <1>13, <2>1 DEF AdministratorCreated, Goto, Found
<1>14. CASE AdministratorExists(p)
  BY <1>0, <1>14 DEF AdministratorExists, Goto, Found, machine
<1>23. CASE SavePassword(p)
  <2>1. files'[Dir(p)].password = data.admin
    BY <1>0, <1>23 DEF SavePassword, Writes, Stored, FileRecord
  <2> QED
    BY <1>0, <1>23, <2>1 DEF SavePassword, Goto, Found
<1>15. CASE BindAdministrator(p) \/ ReceiptOpen(p)
  BY <1>0, <1>15 DEF BindAdministrator, ReceiptOpen, Goto, Found, DataRecord
<1>16. CASE ReceiptWrite(p)
  BY <1>0, <1>1, <1>16 DEF ReceiptWrite, Ends
<1>17. CASE CheckOwner(p)
  BY <1>0, <1>1, <1>17 DEF CheckOwner, MayOperate, Goto, Ends, Found
<1>18. CASE Down(p)
  BY <1>0, <1>1, <1>18 DEF Down, Goto, Ends, Found
<1>19. CASE RemoveEtc(p)
  <2>1. vm'.marker = None
    BY <1>19 DEF RemoveEtc, NoVm
  <2> QED
    BY <1>0, <1>19, <2>1 DEF RemoveEtc, Goto, Found
<1>22. CASE RemoveOpt(p) \/ RemoveData(p)
  BY <1>0, <1>22 DEF RemoveOpt, RemoveData, Goto, Found
<1>20. CASE RemoveDirectory(p)
  BY <1>0, <1>1, <1>20 DEF RemoveDirectory, Ends
<1>21. CASE Refuse(p) \/ ComposeUpFails(p) \/ Stop(p)
  BY <1>0, <1>1, <1>21 DEF Refuse, ComposeUpFails, Stop, Ends
<1> QED
  BY <1>2, <1>3, <1>4, <1>5, <1>6, <1>7, <1>8, <1>9, <1>10, <1>11, <1>12, <1>13, <1>14, <1>15,
     <1>16, <1>17, <1>18, <1>19, <1>20, <1>21, <1>22, <1>23 DEF Step, Launching, Operating

-------------------------------------------------------------------------------
(* Types are kept.                                                         *)

LEMMA TypedStep ==
  ASSUME Typed, NEW p \in Procs, Step(p)
  PROVE  Typed'
BY Turns, TurnKeeps, FileSteps, VmSteps, StackSteps, DataSteps, BlameSteps
   DEF Typed, Hosted, Counted, OnFiles, OnVm, OnStack, OnData, Blamed

\* A process that begins a command, and everything else.
Begins(p, c) ==
  /\ pc[p] = "idle" /\ pc'[p] = IF c.kind = "launch" THEN "marker" ELSE "owner"
  /\ cmd'[p] = c /\ last'[p] = "none"
  /\ \A q \in Procs \ {p} : pc'[q] = pc[q] /\ cmd'[q] = cmd[q] /\ last'[q] = last[q]

LEMMA BeginStep ==
  ASSUME Typed, NEW p \in Procs, NEW c \in Commands, Begin(p, c)
  PROVE  /\ Typed' /\ Begins(p, c) /\ ~crossed
         /\ UNCHANGED <<files, vm, stack, data, force, mishaps>>
         /\ ~crossed' => \A q \in Procs : ~Crosses(c, q)
<1>1. /\ UNCHANGED <<files, vm, stack, data, force, mishaps, wipes>> /\ ~crossed
      /\ ~crossed' => \A q \in Procs : ~Crosses(c, q)
  BY DEF Begin, machine
<1>5. crossed' \in BOOLEAN /\ stops' \in 0..MaxStops
  <2>1. \/ stops < MaxStops /\ stops' = stops + 1 /\ crossed' = TRUE
        \/ UNCHANGED <<stops, crossed>>
    BY DEF Begin
  <2>2. MaxStops \in Nat /\ stops \in 0..MaxStops /\ crossed \in BOOLEAN
    BY ParameterAssumption DEF Typed, Counted
  <2>3. stops' \in 0..MaxStops
    BY <2>1, <2>2
  <2>4. crossed' = TRUE \/ crossed' = crossed
    BY <2>1
  <2> QED
    BY <2>2, <2>3, <2>4
<1>2. Begins(p, c)
  BY DEF Begin, At, Begins, Typed, Scheduled
<1>3. Scheduled'
  BY DEF Begin, Typed, Scheduled, Places, Launches, Early, Operates
<1>4. Where(p)'
  BY <1>2, Fields DEF Begins, Where, Launches, Early, Noding, Owning, Ups, Served, Closing,
                      Operates, Removes, Emptying
<1> QED
  BY <1>1, <1>2, <1>3, <1>4, <1>5 DEF Begins, Typed, Where, Stored, Hosted, Counted

LEMMA WipeStep ==
  ASSUME Typed, Wipe
  PROVE  Typed' /\ Quiet /\ Quiet'
<1>1. NoVm \in VmRecord /\ NoData \in DataRecord
      /\ NoStack \in [release : Releases \cup {None}, ready : BOOLEAN]
  BY DEF NoVm, VmRecord, NoData, DataRecord, NoStack
<1>2. wipes' \in 0..MaxWipes /\ mishaps' \subseteq {"unfinished", "destroy", "wipe", "lost"}
  BY ParameterAssumption DEF Wipe, Typed, Counted
<1> QED
  BY <1>1, <1>2 DEF Wipe, Quiet, Typed, Stored, Hosted, Scheduled, Counted, Where

LEMMA Stutter ==
  ASSUME Typed, UNCHANGED vars
  PROVE  Typed'
BY DEF Typed, vars, Stored, Hosted, Scheduled, Counted, Where

LEMMA Steps ==
  ASSUME [Next]_vars
  PROVE  \/ \E p \in Procs : Step(p) \/ \E c \in Commands : Begin(p, c)
         \/ Wipe \/ UNCHANGED vars
BY DEF Next, Step

\* Every variable keeps to the values the code can give it, whatever
\* commands overlap.
THEOREM TypesKept == Spec => []TypeOK
<1>1. Typed /\ [Next]_vars => Typed'
  BY Steps, TypedStep, BeginStep, WipeStep, Stutter
<1>2. Typed => TypeOK
  BY TypedTypes
<1> QED
  BY <1>1, <1>2, TypedInit, PTL DEF Spec

-------------------------------------------------------------------------------
(* The invariant, as long as no command has crossed another.               *)

\* Commands under way are of one directory, none of them a destroy, and the
\* launches among them of one release.
Apart ==
  \A p, q \in Procs :
    p # q /\ pc[p] # "idle" /\ pc[q] # "idle" =>
      /\ Dir(p) = Dir(q) /\ cmd[p].kind # "destroy"
      /\ pc[p] \in Launches /\ pc[q] \in Launches => cmd[p].release = cmd[q].release

\* The VM is nobody else's, and this directory's once it is marked.
Marked(p) ==
  /\ pc[p] \notin {"idle", "marker", "owner"} => vm.marker \in {None, Dir(p)}
  /\ pc[p] \in {"activate", "down", "rmetc"} \cup Ups => vm.marker = Dir(p)
  /\ pc[p] \in Emptying => vm.marker = None

\* The directory's secrets are the ones staged, and then the ones in use.
Secured(p) ==
  /\ pc[p] \in Noding \cup Owning \cup {"activate"} \cup Ups => Mine(p).secrets # None
  /\ pc[p] \in Owning \cup {"activate"} => vm.secrets = Mine(p).secrets
  /\ pc[p] \in Ups => vm.runtime = Mine(p).secrets
  /\ pc[p] \in {"ownering", "mark", "activate"} \cup Ups => Mine(p).owner # "absent"

\* What a launch has made of the data, and a destroy has taken away.
Readied(p) ==
  /\ pc[p] \in {"password", "bind"} \cup Closing => data.admin # None
  /\ pc[p] \in Closing => data.bound /\ data.batch = Mine(p).secrets
  /\ pc[p] \in Removes => stack = NoStack
  /\ pc[p] = "rmdir" => data = NoData

\* An empty data directory holds nothing, containers that do not exist do
\* not serve, and a directory with node.yaml has secrets.
Bare ==
  /\ data.batch = None => data = NoData
  /\ stack.release = None => stack = NoStack
  /\ stack.release # None => vm.marker # None
  /\ \A d \in Dirs : files[d].node # "absent" => files[d].secrets # None

Coherent == Typed /\ Apart /\ Bare
              /\ \A p \in Procs : Marked(p) /\ Secured(p) /\ Readied(p)

\* A launch about to start the containers recreates those of another release.
Forces(p) ==
  pc[p] = "up" /\ Mine(p).receipt = "ok" /\ Mine(p).finished # cmd[p].release => force[p]

\* Whose containers those are: a launch's under way, or those of the launch
\* that wrote the marked directory's receipt.
Made(p)  == pc[p] \in Served /\ cmd[p].release = stack.release
Accounted ==
  "unfinished" \notin mishaps =>
    /\ \A p \in Procs : pc[p] \in Served => stack.release \in {None, cmd[p].release}
    /\ stack.release # None =>
         \/ \E p \in Procs : Made(p)
         \/ \E d \in Dirs : vm.marker = d /\ files[d].receipt = "ok"
                             /\ files[d].finished = stack.release

\* Every password file is the marked directory's, or about to be removed.
Known ==
  mishaps \cap {"destroy", "wipe"} = {} =>
    \A d \in Dirs : files[d].password # None =>
      \/ vm.marker = d /\ files[d].password = data.admin
      \/ \E p \in Procs : pc[p] \in Emptying /\ Dir(p) = d

LEMMA CoherentInit == Init => Coherent /\ Accounted /\ Known /\ \A p \in Procs : Forces(p)
BY TypedInit DEF Init, Coherent, Apart, Bare, Marked, Secured, Readied, Forces, Accounted, Known,
   Made, NoFiles, NoStack, NoVm, Noding, Owning, Ups, Served, Closing, Removes, Emptying

\* The parts of a step that the rest of the proof rests on.
LEMMA Parts ==
  ASSUME Typed, NEW p \in Procs, Step(p)
  PROVE  /\ Typed' /\ OnFiles(p) /\ OnVm(p) /\ OnStack(p) /\ OnData(p) /\ Blamed(p) /\ Found(p)
         /\ pc[p] # "idle" /\ Dir(p) \in Dirs /\ Mine(p) = files[Dir(p)]
         /\ \A q \in Procs \ {p} : /\ pc'[q] = pc[q] /\ cmd'[q] = cmd[q] /\ force'[q] = force[q]
                                  /\ last'[q] = last[q] /\ Dir(q)' = Dir(q)
         /\ pc'[p] # "idle" => cmd'[p] = cmd[p] /\ Dir(p)' = Dir(p)
BY Turns, TurnKeeps, TypedStep, FileSteps, VmSteps, StackSteps, DataSteps, BlameSteps, FoundSteps,
   Busy DEF Dir, Mine

\* The others are in commands of the same directory, and nobody removes it.
LEMMA Others ==
  ASSUME Typed, Apart, NEW p \in Procs, NEW q \in Procs \ {p}, pc[p] # "idle", pc[q] # "idle"
  PROVE  /\ Dir(q) = Dir(p) /\ pc[p] \notin Removes /\ pc[q] \notin Removes
         /\ pc[p] \in Launches /\ pc[q] \in Launches => cmd[q].release = cmd[p].release
BY DEF Typed, Where, Apart

\* A directory's secrets and owner file last until it is removed.
LEMMA Lasting ==
  ASSUME Typed, NEW p \in Procs, Step(p), pc[p] # "rmdir", NEW d \in Dirs
  PROVE  /\ files[d].secrets # None => files'[d].secrets = files[d].secrets
         /\ files[d].owner # "absent" => files'[d].owner # "absent"
BY Parts DEF OnFiles

LEMMA ApartStep ==
  ASSUME Typed, Apart, NEW p \in Procs, Step(p)
  PROVE  Apart'
<1>1. pc'[p] # "idle" /\ pc'[p] \in Launches => pc[p] \in Launches
  BY Parts DEF Typed, Where
<1>2. pc[p] # "idle"
  BY Turns
<1> QED
  BY <1>1, <1>2, Parts DEF Apart

LEMMA ApartBegin ==
  ASSUME ~crossed', Typed, Apart, NEW p \in Procs, NEW c \in Commands, Begin(p, c)
  PROVE  Apart'
<1>1. Begins(p, c) /\ Typed'
  BY BeginStep
<1>2. ASSUME NEW q \in Procs \ {p}, pc[q] # "idle"
      PROVE  /\ Dir(q) = c.dir /\ cmd[q].kind # "destroy" /\ c.kind # "destroy"
             /\ pc[q] \in Launches /\ c.kind = "launch" => cmd[q].release = c.release
  BY <1>2, BeginStep DEF Crosses, Dir, Typed, Where
<1>3. pc'[p] \in Launches => c.kind = "launch"
  BY <1>1 DEF Begins, Typed, Where
<1>4. ASSUME NEW q \in Procs, NEW r \in Procs, q # r, pc'[q] # "idle", pc'[r] # "idle"
      PROVE  /\ Dir(q)' = Dir(r)' /\ cmd'[q].kind # "destroy"
             /\ pc'[q] \in Launches /\ pc'[r] \in Launches => cmd'[q].release = cmd'[r].release
  <2>1. CASE q # p /\ r # p
    BY <1>1, <1>4, <2>1 DEF Begins, Apart, Dir
  <2>2. CASE q = p
    BY <1>1, <1>2, <1>3, <1>4, <2>2 DEF Begins, Dir
  <2>3. CASE r = p
    BY <1>1, <1>2, <1>3, <1>4, <2>3 DEF Begins, Dir
  <2> QED
    BY <2>1, <2>2, <2>3
<1> QED
  BY <1>4 DEF Apart

LEMMA BareStep ==
  ASSUME Coherent, NEW p \in Procs, Step(p)
  PROVE  Bare'
<1>0. Typed /\ Bare /\ Marked(p) /\ Secured(p) /\ Readied(p)
  BY DEF Coherent
<1>1. /\ Typed' /\ OnFiles(p) /\ OnVm(p) /\ OnStack(p) /\ OnData(p)
      /\ Dir(p) \in Dirs /\ Mine(p) = files[Dir(p)]
  BY <1>0, Parts
<1>2. (data.batch = None => data = NoData)'
  <2>1. CASE pc[p] = "up"
    BY <1>0, <1>1, <2>1 DEF OnData, Bare, DataRecord, NoData
  <2>2. CASE pc[p] \in {"admin", "bind"}
    <3>1. SignsIn(p) => data.batch # None
      BY <1>0, <2>2 DEF SignsIn, Secured, Ups, Served
    <3> QED
      BY <1>0, <1>1, <2>2, <3>1 DEF OnData, Bare
  <2> QED
    BY <1>0, <1>1, <2>1, <2>2 DEF OnData, Bare, NoData
<1>3. (stack.release = None => stack = NoStack)'
  <2>1. pc[p] = "up" => cmd[p].release \in Releases
    BY <1>0, Busy DEF Launches, Ups
  <2>2. pc[p] = "up" => Containers(p) # None
    BY <2>1, ParameterAssumption DEF Containers
  <2> QED
    BY <1>0, <1>1, <2>2 DEF OnStack, Bare, Typed, Hosted, NoStack
<1>4. (stack.release # None => vm.marker # None)'
  <2>1. CASE pc[p] = "rmetc"
    BY <1>0, <1>1, <2>1 DEF Readied, Removes, OnStack, NoStack
  <2>2. CASE pc[p] = "up"
    BY <1>0, <1>1, <2>2, ParameterAssumption DEF Marked, Ups, OnVm
  <2> QED
    BY <1>0, <1>1, <2>1, <2>2, ParameterAssumption DEF OnStack, OnVm, Bare, NoStack
<1>5. (\A d \in Dirs : files[d].node # "absent" => files[d].secrets # None)'
  BY <1>0, <1>1 DEF OnFiles, Bare, NoFiles, Secured
<1> QED
  BY <1>2, <1>3, <1>4, <1>5 DEF Bare

LEMMA MarkedStep ==
  ASSUME Coherent, NEW p \in Procs, Step(p), NEW q \in Procs
  PROVE  Marked(q)'
<1>0. Typed /\ Apart /\ Marked(p) /\ Marked(q)
  BY DEF Coherent
<1>1. OnVm(p) /\ Found(p) /\ pc[p] # "idle" /\ Typed'
  BY <1>0, Parts
<1> USE DEF Noding, Owning, Ups, Served, Closing, Removes, Emptying
<1>2. CASE q = p
  <2>1. CASE pc'[p] = "idle"
    BY <1>2, <2>1 DEF Marked
  <2>2. CASE pc'[p] # "idle"
    <3>1. Dir(p)' = Dir(p) /\ vm.marker \in {None, Dir(p)}
      BY <1>0, <1>1, <2>2, Parts DEF Marked, Found
    <3>2. vm'.marker \in {None, Dir(p)}
      BY <1>1, <3>1 DEF OnVm
    <3>3. pc'[p] \in {"activate", "down", "rmetc"} \cup Ups => vm'.marker = Dir(p)
      BY <1>0, <1>1 DEF Marked, OnVm, Found
    <3>4. pc'[p] \in Emptying => vm'.marker = None
      BY <1>0, <1>1 DEF Marked, OnVm, Found
    <3> QED
      BY <1>2, <3>1, <3>2, <3>3, <3>4 DEF Marked
  <2> QED
    BY <2>1, <2>2
<1>3. CASE q # p /\ pc[q] # "idle"
  <2>1. pc'[q] = pc[q] /\ Dir(q)' = Dir(q) /\ Dir(q) = Dir(p)
        /\ pc[p] \notin Removes /\ pc[q] \notin Removes
    BY <1>0, <1>1, <1>3, Parts, Others
  <2> QED
    BY <1>0, <1>1, <2>1 DEF Marked, OnVm
<1>4. CASE q # p /\ pc[q] = "idle"
  BY <1>0, <1>4, Parts DEF Marked
<1> QED
  BY <1>2, <1>3, <1>4

LEMMA SecuredStep ==
  ASSUME Coherent, NEW p \in Procs, Step(p), NEW q \in Procs
  PROVE  Secured(q)'
<1>0. Typed /\ Apart /\ Bare /\ Secured(p) /\ Secured(q)
  BY DEF Coherent
<1>1. OnFiles(p) /\ OnVm(p) /\ Found(p) /\ pc[p] # "idle" /\ Mine(p) = files[Dir(p)] /\ Dir(p) \in Dirs
  BY <1>0, Parts
<1> USE DEF Noding, Owning, Ups, Served, Closing, Removes, Emptying
<1>2. ASSUME pc[p] # "rmdir"
      PROVE  /\ Mine(p).secrets # None => files'[Dir(p)].secrets = Mine(p).secrets
             /\ Mine(p).owner # "absent" => files'[Dir(p)].owner # "absent"
  BY <1>0, <1>1, <1>2, Lasting
<1>3. CASE q = p
  <2>1. CASE pc'[p] = "idle"
    BY <1>3, <2>1 DEF Secured
  <2>2. CASE pc'[p] # "idle"
    <3>1. Mine(p)' = files'[Dir(p)]
      BY <1>0, <2>2, Parts DEF Mine
    <3>2. pc'[p] \in Noding \cup Owning \cup {"activate"} \cup Ups => pc[p] # "rmdir"
      BY <1>0, <2>2, Parts DEF Typed, Where, Launches
    <3>3. pc'[p] \in Noding \cup Owning \cup {"activate"} \cup Ups
            => files'[Dir(p)].secrets # None
      BY <1>0, <1>1, <1>2, <3>2 DEF Secured, Found, Bare
    <3>4. pc'[p] \in Owning \cup {"activate"} => vm'.secrets = files'[Dir(p)].secrets
      BY <1>0, <1>1, <1>2, <3>2 DEF Secured, Found, OnVm
    <3>5. pc'[p] \in Ups => vm'.runtime = files'[Dir(p)].secrets
      BY <1>0, <1>1, <1>2, <3>2 DEF Secured, Found, OnVm
    <3>6. pc'[p] \in {"ownering", "mark", "activate"} \cup Ups => files'[Dir(p)].owner # "absent"
      BY <1>0, <1>1, <1>2, <3>2 DEF Secured, Found
    <3> QED
      BY <1>3, <3>1, <3>3, <3>4, <3>5, <3>6 DEF Secured
  <2> QED
    BY <2>1, <2>2
<1>4. CASE q # p /\ pc[q] # "idle"
  <2>1. /\ pc'[q] = pc[q] /\ Dir(q)' = Dir(q) /\ Dir(q) = Dir(p)
        /\ pc[p] \notin Removes /\ pc[q] \notin Removes
    BY <1>0, <1>1, <1>4, Parts, Others
  <2>2. Mine(q) = Mine(p) /\ Mine(q)' = files'[Dir(p)]
    BY <2>1, <1>1 DEF Mine
  <2>3. vm'.secrets = vm.secrets \/ pc[p] = "copy"
    BY <1>1, <2>1 DEF OnVm
  <2>4. pc[p] = "copy" => Mine(p).secrets # None /\ vm'.secrets \in {vm.secrets, Mine(p).secrets}
    BY <1>0, <1>1 DEF Secured, OnVm, Found
  <2>5. pc[p] = "activate" => vm'.runtime \in {vm.runtime, Mine(p).secrets}
    BY <1>0, <1>1 DEF Secured, OnVm, Found
  <2>6. vm'.runtime = vm.runtime \/ pc[p] = "activate"
    BY <1>1, <2>1 DEF OnVm
  <2> QED
    BY <1>0, <1>2, <2>1, <2>2, <2>3, <2>4, <2>5, <2>6 DEF Secured
<1>5. CASE q # p /\ pc[q] = "idle"
  BY <1>0, <1>5, Parts DEF Secured
<1> QED
  BY <1>3, <1>4, <1>5

LEMMA ReadiedStep ==
  ASSUME Coherent, NEW p \in Procs, Step(p), NEW q \in Procs
  PROVE  Readied(q)'
<1>0. Typed /\ Apart /\ Bare /\ Secured(p) /\ Readied(p) /\ Readied(q)
  BY DEF Coherent
<1>1. /\ OnFiles(p) /\ OnStack(p) /\ OnData(p) /\ Found(p) /\ pc[p] # "idle"
      /\ Mine(p) = files[Dir(p)] /\ Dir(p) \in Dirs
  BY <1>0, Parts
<1> USE DEF Noding, Owning, Ups, Served, Closing, Removes, Emptying
<1>2. ASSUME pc[p] # "rmdir", Mine(p).secrets # None
      PROVE  files'[Dir(p)].secrets = Mine(p).secrets
  BY <1>0, <1>1, <1>2, Lasting
<1>3. ASSUME pc[p] # "rmdata", data.admin # None
      PROVE  data'.admin = data.admin /\ data'.batch = data.batch
  BY <1>0, <1>1, <1>3 DEF OnData, Bare, NoData
<1>4. ASSUME pc[p] # "rmdata", data.bound
      PROVE  data'.bound
  <2>1. data.batch # None
    BY <1>0, <1>4 DEF Bare, NoData
  <2>2. \/ data' = data \/ data'.bound = data.bound \/ data'.bound
    BY <1>1, <1>4, <2>1 DEF OnData
  <2> QED
    BY <1>4, <2>2
<1>5. CASE q = p
  <2>1. CASE pc'[p] = "idle"
    BY <1>5, <2>1 DEF Readied
  <2>2. CASE pc'[p] # "idle"
    <3>1. Mine(p)' = files'[Dir(p)]
      BY <1>0, <2>2, Parts DEF Mine
    <3>2. pc'[p] \in {"password", "bind"} \cup Closing => data'.admin # None
      BY <1>0, <1>1, <1>3 DEF Readied, Found
    <3>3. pc'[p] \in Closing => data'.bound /\ data'.batch = files'[Dir(p)].secrets
      BY <1>0, <1>1, <1>2, <1>3, <1>4 DEF Readied, Found, Secured, SignsIn
    <3>4. pc'[p] \in Removes => stack' = NoStack
      BY <1>0, <1>1 DEF Readied, Found, OnStack
    <3>5. pc'[p] = "rmdir" => data' = NoData
      BY <1>1 DEF Found
    <3> QED
      BY <1>5, <3>1, <3>2, <3>3, <3>4, <3>5 DEF Readied
  <2> QED
    BY <2>1, <2>2
<1>6. CASE q # p /\ pc[q] # "idle"
  <2>1. /\ pc'[q] = pc[q] /\ Dir(q)' = Dir(q) /\ Dir(q) = Dir(p)
        /\ pc[p] \notin Removes /\ pc[q] \notin Removes
    BY <1>0, <1>1, <1>6, Parts, Others
  <2>2. Mine(q) = Mine(p) /\ Mine(q)' = files'[Dir(p)]
    BY <2>1, <1>1 DEF Mine
  <2>3. pc[q] \in Closing => Mine(q).secrets # None
    BY DEF Coherent, Secured
  <2> QED
    BY <1>0, <1>2, <1>3, <1>4, <2>1, <2>2, <2>3 DEF Readied
<1>7. CASE q # p /\ pc[q] = "idle"
  BY <1>0, <1>7, Parts DEF Readied
<1> QED
  BY <1>5, <1>6, <1>7

LEMMA CoherentStep ==
  ASSUME Coherent, NEW p \in Procs, Step(p)
  PROVE  Coherent'
BY Parts, ApartStep, BareStep, MarkedStep, SecuredStep, ReadiedStep DEF Coherent

LEMMA CoherentBegin ==
  ASSUME ~crossed', Coherent, NEW p \in Procs, NEW c \in Commands, Begin(p, c)
  PROVE  Coherent'
<1>1. Typed' /\ Begins(p, c) /\ UNCHANGED <<files, vm, stack, data, force, mishaps>>
  BY BeginStep DEF Coherent
<1>2. Apart' /\ Bare'
  BY <1>1, ApartBegin DEF Coherent, Bare
<1>3. pc'[p] \in {"marker", "owner"}
  BY <1>1 DEF Begins
<1>4. Marked(p)' /\ Secured(p)' /\ Readied(p)'
  BY <1>3 DEF Marked, Secured, Readied, Noding, Owning, Ups, Served, Closing, Removes, Emptying
<1>5. ASSUME NEW q \in Procs \ {p}
      PROVE  Marked(q)' /\ Secured(q)' /\ Readied(q)'
  BY <1>1 DEF Begins, Coherent, Marked, Secured, Readied, Mine, Dir
<1> QED
  BY <1>1, <1>2, <1>4, <1>5 DEF Coherent

LEMMA CoherentWipe ==
  ASSUME Coherent, Wipe
  PROVE  Coherent'
<1>1. Typed' /\ Quiet'
  BY WipeStep DEF Coherent
<1>2. Bare'
  BY DEF Wipe, Bare, Coherent, NoStack, NoData
<1> QED
  BY <1>1, <1>2 DEF Coherent, Quiet, Apart, Marked, Secured, Readied, Noding, Owning, Ups, Served,
                    Closing, Removes, Emptying

LEMMA CoherentStutter ==
  ASSUME Coherent, UNCHANGED vars
  PROVE  Coherent'
BY Stutter DEF Coherent, vars, Apart, Bare, Marked, Secured, Readied, Mine, Dir

\* Whose step it is.
LEMMA Whose ==
  ASSUME Typed, [Next]_vars, NEW p \in Procs, pc[p] # "idle", pc'[p] # pc[p]
  PROVE  Step(p)
<1>1. CASE UNCHANGED vars
  BY <1>1 DEF vars
<1>2. CASE Wipe
  BY <1>2 DEF Wipe
<1>3. ASSUME NEW q \in Procs, NEW c \in Commands, Begin(q, c) PROVE FALSE
  BY <1>3, BeginStep DEF Begins
<1>4. ASSUME NEW q \in Procs, Step(q) PROVE q = p
  BY <1>4, Parts
<1> QED
  BY <1>1, <1>2, <1>3, <1>4, Steps

-------------------------------------------------------------------------------
(* Data has an owner.                                                      *)

LEMMA OwnedStep ==
  ASSUME Coherent, DataHasOwner, ~crossed, NEW p \in Procs, Step(p)
  PROVE  DataHasOwner'
<1> SUFFICES ASSUME data'.batch # None, "destroy" \notin mishaps', ~ Removing'
             PROVE  \E d \in Dirs : /\ vm'.marker = d /\ files'[d].owner # "absent"
                                   /\ files'[d].secrets = data'.batch
  BY DEF DataHasOwner
<1>0. Typed /\ Apart /\ Bare /\ Marked(p) /\ Secured(p) /\ Readied(p)
  BY DEF Coherent
<1>1. /\ OnVm(p) /\ OnStack(p) /\ OnData(p) /\ Blamed(p) /\ Found(p)
      /\ pc[p] # "idle" /\ Mine(p) = files[Dir(p)] /\ Dir(p) \in Dirs
  BY <1>0, Parts
<1>2. pc'[p] \notin {"rmopt", "rmdata"}
  BY DEF Removing
<1>3. "destroy" \notin mishaps
  BY <1>1 DEF OnStack, Remade
<1>4. pc[p] \notin Emptying
  <2>1. pc[p] \notin {"rmopt", "rmdata"}
    BY <1>1, <1>2 DEF Blamed, Found, Emptying, NoData
  <2>2. pc[p] # "rmdir"
    BY <1>0, <1>1 DEF Readied, OnData, NoData
  <2> QED
    BY <2>1, <2>2 DEF Emptying
<1>5. ~ Removing
  <2>1. ASSUME NEW q \in Procs, pc[q] \in {"rmopt", "rmdata"} PROVE q = p
    BY <1>0, <1>1, <2>1, Others DEF Removes, Emptying
  <2> QED
    BY <1>4, <2>1 DEF Removing, Emptying
<1>6. CASE data.batch # None
  <2>1. PICK d \in Dirs : vm.marker = d /\ files[d].owner # "absent" /\ files[d].secrets = data.batch
    BY <1>3, <1>5, <1>6 DEF DataHasOwner
  <2>2. vm'.marker = d
    BY <1>0, <1>1, <1>2, <2>1, ParameterAssumption DEF OnVm, Marked
  <2>3. data'.batch = data.batch
    BY <1>1, <1>4, <1>6 DEF OnData, Emptying
  <2>4. files'[d].owner # "absent" /\ files'[d].secrets = data.batch
    BY <1>0, <1>4, <1>6, <2>1, Lasting DEF Emptying
  <2> QED
    BY <2>2, <2>3, <2>4
<1>7. CASE data.batch = None
  <2>1. pc[p] = "up" /\ data'.batch = vm.runtime
    BY <1>0, <1>1, <1>4, <1>7 DEF OnData, SignsIn, Emptying, Secured, Ups, Served
  <2>2. vm.runtime = Mine(p).secrets /\ Mine(p).secrets # None /\ Mine(p).owner # "absent"
        /\ vm.marker = Dir(p)
    BY <1>0, <2>1 DEF Secured, Marked, Ups
  <2>3. vm'.marker = Dir(p)
    BY <1>1, <2>1, <2>2 DEF OnVm
  <2>4. files'[Dir(p)].owner # "absent" /\ files'[Dir(p)].secrets = Mine(p).secrets
    BY <1>0, <1>1, <2>1, <2>2, Lasting
  <2> QED
    BY <1>1, <2>1, <2>2, <2>3, <2>4
<1> QED
  BY <1>6, <1>7

LEMMA OwnedNext ==
  ASSUME Coherent, DataHasOwner, ~crossed, [Next]_vars
  PROVE  DataHasOwner'
<1>1. CASE UNCHANGED vars
  BY <1>1 DEF vars, DataHasOwner, Removing
<1>2. CASE Wipe
  BY <1>2 DEF Wipe, DataHasOwner, NoData
<1>3. ASSUME NEW p \in Procs, NEW c \in Commands, Begin(p, c) PROVE DataHasOwner'
  BY <1>3, BeginStep DEF Coherent, Begins, DataHasOwner, Removing
<1> QED
  BY <1>1, <1>2, <1>3, Steps, OwnedStep

-------------------------------------------------------------------------------
(* The containers hold the release the receipt names.                      *)

Traced == Accounted /\ \A p \in Procs : Forces(p)

LEMMA ForcesStep ==
  ASSUME Coherent, Traced, NEW p \in Procs, Step(p), NEW q \in Procs
  PROVE  Forces(q)'
<1>0. Typed /\ Apart /\ Forces(q)
  BY DEF Coherent, Traced
<1>1. /\ OnFiles(p) /\ Found(p) /\ pc[p] # "idle" /\ Mine(p) = files[Dir(p)] /\ Dir(p) \in Dirs
  BY <1>0, Parts
<1>2. CASE q = p
  <2>1. CASE pc'[p] = "up"
    <3>1. pc[p] = "activate" /\ Mine(p)' = files'[Dir(p)] /\ cmd'[p] = cmd[p]
      BY <1>0, <1>1, <2>1, Parts DEF Found, Mine
    <3>2. files'[Dir(p)].receipt = Mine(p).receipt /\ files'[Dir(p)].finished = Mine(p).finished
      BY <1>1, <3>1 DEF OnFiles
    <3> QED
      BY <1>1, <1>2, <2>1, <3>1, <3>2 DEF Found, Forces
  <2> QED
    BY <1>2, <2>1 DEF Forces
<1>3. CASE q # p /\ pc[q] = "up"
  <2>1. /\ pc'[q] = "up" /\ cmd'[q] = cmd[q] /\ force'[q] = force[q] /\ Dir(q)' = Dir(q)
        /\ Dir(q) = Dir(p) /\ pc[p] \notin Removes
        /\ pc[p] \in Launches => cmd[p].release = cmd[q].release
    BY <1>0, <1>1, <1>3, Parts, Others DEF Launches, Ups
  <2>2. Mine(q) = Mine(p) /\ Mine(q)' = files'[Dir(p)]
    BY <1>1, <2>1 DEF Mine
  <2>3. pc[p] \in {"receipt", "receipting"} => pc[p] \in Launches
    BY DEF Launches, Ups, Served, Closing
  <2>4. pc[p] # "rmdir"
    BY <2>1 DEF Removes, Emptying
  <2> QED
    BY <1>0, <1>1, <1>3, <2>1, <2>2, <2>3, <2>4 DEF OnFiles, Forces
<1>4. CASE q # p /\ pc[q] # "up"
  BY <1>0, <1>4, Parts DEF Forces
<1> QED
  BY <1>2, <1>3, <1>4

\* `docker compose up` leaves containers of the command's release, unless
\* those of an unfinished launch were kept.
LEMMA ComposedStep ==
  ASSUME Coherent, Traced, NEW p \in Procs, Step(p), pc'[p] = "admin", "unfinished" \notin mishaps'
  PROVE  stack'.release = cmd[p].release
<1>0. Typed /\ Apart /\ Marked(p) /\ Forces(p)
  BY DEF Coherent, Traced
<1>1. /\ pc[p] = "up" /\ stack'.release = Containers(p) /\ mishaps' = Remade(p, mishaps)
      /\ Mine(p) = files[Dir(p)]
  BY <1>0, Parts DEF Found
<1>2. CASE force[p] \/ stack.release = None
  BY <1>1, <1>2 DEF Containers
<1>3. CASE ~ (force[p] \/ stack.release = None)
  <2>1. "unfinished" \notin mishaps /\ stack'.release = stack.release
    BY <1>1, <1>3 DEF Containers, Remade
  <2>2. CASE \E q \in Procs : Made(q)
    <3>1. PICK q \in Procs : Made(q)
      BY <2>2
    <3>2. pc[q] \in Served /\ q # p
      BY <1>1, <3>1 DEF Made, Served, Closing
    <3>3. cmd[q].release = cmd[p].release
      BY <1>0, <1>1, <3>2, Others DEF Launches, Ups, Served, Closing
    <3> QED
      BY <2>1, <3>1, <3>3 DEF Made
  <2>3. CASE \E d \in Dirs : vm.marker = d /\ files[d].receipt = "ok" /\ files[d].finished = stack.release
    <3>1. Mine(p).receipt = "ok" /\ Mine(p).finished = stack.release
      BY <1>0, <1>1, <2>3 DEF Marked, Ups
    <3> QED
      BY <1>0, <1>1, <1>3, <2>1, <3>1 DEF Forces
  <2> QED
    BY <1>3, <2>1, <2>2, <2>3 DEF Traced, Accounted
<1> QED
  BY <1>2, <1>3

LEMMA AccountedStep ==
  ASSUME Coherent, Traced, NEW p \in Procs, Step(p)
  PROVE  Accounted'
<1> SUFFICES ASSUME "unfinished" \notin mishaps' PROVE Accounted'
  BY DEF Accounted
<1>0. Typed /\ Apart /\ Bare /\ Marked(p) /\ Readied(p)
  BY DEF Coherent
<1>1. /\ OnFiles(p) /\ OnVm(p) /\ OnStack(p) /\ Blamed(p) /\ Found(p) /\ pc[p] # "idle"
      /\ Mine(p) = files[Dir(p)] /\ Dir(p) \in Dirs /\ (pc'[p] # "idle" => cmd'[p] = cmd[p])
      /\ \A q \in Procs \ {p} : pc'[q] = pc[q] /\ cmd'[q] = cmd[q]
  BY <1>0, Parts
<1>2. ASSUME NEW q \in Procs \ {p}, pc[q] \in Served, pc[p] \in Ups
      PROVE  cmd[q].release = cmd[p].release
  BY <1>0, <1>1, <1>2, Others DEF Launches, Ups, Served, Closing
<1>3. CASE pc'[p] = "admin"
  <2>1. stack'.release = cmd[p].release /\ pc[p] \in Ups
    BY <1>1, <1>3, ComposedStep DEF Found, Ups
  <2>2. Made(p)'
    BY <1>1, <1>3, <2>1 DEF Made, Served
  <2> QED
    BY <1>1, <1>2, <1>3, <2>1, <2>2 DEF Accounted
<1>4. CASE pc[p] = "down" /\ stack' = NoStack
  BY <1>4 DEF Accounted, NoStack
<1>5. CASE pc'[p] # "admin" /\ stack' = stack /\ mishaps \subseteq mishaps'
  <2>1. /\ \A q \in Procs : pc[q] \in Served => stack.release \in {None, cmd[q].release}
        /\ stack.release # None =>
             \/ \E q \in Procs : Made(q)
             \/ \E d \in Dirs : vm.marker = d /\ files[d].receipt = "ok"
                                 /\ files[d].finished = stack.release
    BY <1>5 DEF Traced, Accounted
  <2>2. pc'[p] \in Served => pc[p] \in Served
    BY <1>1, <1>5 DEF Found, Served, Closing
  <2>3. \A q \in Procs : pc'[q] \in Served => stack.release \in {None, cmd'[q].release}
    BY <1>1, <2>1, <2>2 DEF Served, Closing
  <2>4. ASSUME stack.release # None, pc[p] \in Served
        PROVE  \/ \E q \in Procs : Made(q)'
               \/ \E d \in Dirs : vm'.marker = d /\ files'[d].receipt = "ok"
                                   /\ files'[d].finished = stack.release
    <3>1. cmd[p].release = stack.release
      BY <2>1, <2>4
    <3>2. CASE pc'[p] # "idle"
      BY <1>1, <1>5, <2>4, <3>1, <3>2 DEF Found, Ups, Made
    <3>3. CASE pc'[p] = "idle"
      <4>1. /\ pc[p] = "receipting" /\ files'[Dir(p)].receipt = "ok"
            /\ files'[Dir(p)].finished = stack.release
        BY <1>1, <2>4, <3>1, <3>3 DEF Blamed, Ups
      <4>2. vm'.marker = Dir(p)
        BY <1>0, <1>1, <4>1 DEF OnVm, Marked, Ups, Served, Closing
      <4> QED
        BY <1>1, <4>1, <4>2
    <3> QED
      BY <3>2, <3>3
  <2>5. ASSUME stack.release # None, pc[p] \notin Served
        PROVE  \/ \E q \in Procs : Made(q)'
               \/ \E d \in Dirs : vm'.marker = d /\ files'[d].receipt = "ok"
                                   /\ files'[d].finished = stack.release
    <3>1. CASE \E q \in Procs : Made(q)
      BY <1>1, <1>5, <2>5, <3>1 DEF Made
    <3>2. CASE \E d \in Dirs : vm.marker = d /\ files[d].receipt = "ok"
                               /\ files[d].finished = stack.release
      <4>1. PICK d \in Dirs : vm.marker = d /\ files[d].receipt = "ok"
                             /\ files[d].finished = stack.release
        BY <3>2
      <4>2. pc[p] \notin Removes
        BY <1>0, <2>5 DEF Readied, NoStack
      <4>3. vm'.marker = d
        BY <1>0, <1>1, <4>1, <4>2, ParameterAssumption DEF OnVm, Marked, Removes
      <4>4. files'[d].receipt = "ok" /\ files'[d].finished = stack.release
        BY <1>1, <2>5, <4>1, <4>2 DEF OnFiles, Served, Closing, Removes, Emptying
      <4> QED
        BY <4>3, <4>4
    <3> QED
      BY <2>1, <2>5, <3>1, <3>2
  <2> QED
    BY <1>5, <2>3, <2>4, <2>5 DEF Accounted
<1> QED
  BY <1>1, <1>3, <1>4, <1>5 DEF OnStack

LEMMA TracedNext ==
  ASSUME Coherent, Traced, [Next]_vars
  PROVE  Traced'
<1>1. CASE UNCHANGED vars
  BY <1>1 DEF vars, Traced, Accounted, Made, Forces, Mine, Dir
<1>2. CASE Wipe
  BY <1>2, WipeStep DEF Wipe, Traced, Accounted, Forces, Made, Quiet, NoStack, Served, Closing,
                        Coherent
<1>3. ASSUME NEW p \in Procs, NEW c \in Commands, Begin(p, c) PROVE Traced'
  <2>1. /\ Begins(p, c) /\ UNCHANGED <<files, vm, stack, data, force, mishaps>>
        /\ pc'[p] \in {"marker", "owner"}
    BY <1>3, BeginStep DEF Coherent, Begins
  <2>2. \A q \in Procs : Forces(q)'
    BY <2>1 DEF Begins, Traced, Forces, Mine, Dir
  <2>3. \A q \in Procs : Made(q) => Made(q)'
    BY <2>1 DEF Begins, Made, Served, Closing
  <2>4. \A q \in Procs : pc'[q] \in Served => pc[q] \in Served /\ cmd'[q] = cmd[q]
    BY <2>1 DEF Begins, Served, Closing
  <2> QED
    BY <2>1, <2>2, <2>3, <2>4 DEF Traced, Accounted
<1> QED
  BY <1>1, <1>2, <1>3, Steps, AccountedStep, ForcesStep DEF Traced

-------------------------------------------------------------------------------
(* The password file is true.                                              *)

LEMMA KnownStep ==
  ASSUME Coherent, Known, NEW p \in Procs, Step(p)
  PROVE  Known'
<1> SUFFICES ASSUME mishaps' \cap {"destroy", "wipe"} = {}, NEW d \in Dirs,
                    files'[d].password # None
             PROVE  \/ vm'.marker = d /\ files'[d].password = data'.admin
                    \/ pc'[p] \in Emptying /\ Dir(p)' = d
  BY DEF Known
<1>0. Typed /\ Apart /\ Bare /\ Marked(p)
  BY DEF Coherent
<1>1. /\ OnFiles(p) /\ OnVm(p) /\ OnStack(p) /\ OnData(p) /\ Blamed(p) /\ Found(p)
      /\ pc[p] # "idle" /\ Mine(p) = files[Dir(p)] /\ Dir(p) \in Dirs
      /\ pc'[p] # "idle" => Dir(p)' = Dir(p)
  BY <1>0, Parts
<1>2. mishaps \cap {"destroy", "wipe"} = {}
  BY <1>1 DEF OnStack, Remade
<1>3. ASSUME files[d].password # None
      PROVE  \/ vm.marker = d /\ files[d].password = data.admin
             \/ pc[p] \in Emptying /\ Dir(p) = d
  <2>1. ASSUME NEW r \in Procs, pc[r] \in Emptying PROVE r = p
    BY <1>0, <1>1, <2>1, Others DEF Removes, Emptying
  <2> QED
    BY <1>2, <1>3, <2>1 DEF Known
<1>4. CASE d # Dir(p)
  <2>1. files'[d] = files[d] /\ vm.marker = d /\ files[d].password = data.admin
    BY <1>1, <1>3, <1>4 DEF OnFiles
  <2>2. pc[p] \in {"marker", "owner"}
    BY <1>0, <1>1, <1>4, <2>1, ParameterAssumption DEF Marked
  <2>3. vm' = vm /\ data' = data
    BY <1>1, <2>2 DEF OnVm, OnData
  <2> QED
    BY <2>1, <2>3
<1>5. CASE d = Dir(p) /\ files'[d].password = files[d].password
  <2>1. CASE pc[p] \in Emptying
    <3>1. pc'[p] # "idle"
      BY <1>1, <1>5, <2>1 DEF Blamed, NoFiles
    <3> QED
      BY <1>1, <1>5, <2>1, <3>1 DEF Found
  <2>2. CASE pc[p] \notin Emptying
    <3>1. vm.marker = d /\ files[d].password = data.admin
      BY <1>3, <1>5, <2>2
    <3>2. data'.admin = data.admin
      BY <1>0, <1>1, <1>5, <2>2, <3>1 DEF OnData, Bare, NoData, Emptying
    <3>3. vm'.marker = d \/ pc'[p] = "rmopt"
      BY <1>1, <1>5, <3>1 DEF OnVm
    <3> QED
      BY <1>1, <1>5, <3>1, <3>2, <3>3 DEF Emptying
  <2> QED
    BY <2>1, <2>2
<1>6. CASE d = Dir(p) /\ files'[d].password # files[d].password
  <2>1. pc[p] = "password" /\ files'[d].password = data.admin
    BY <1>1, <1>6 DEF OnFiles, NoFiles
  <2>2. vm'.marker = d /\ data' = data
    BY <1>0, <1>1, <1>6, <2>1 DEF OnVm, OnData, Marked, Ups, Served
  <2> QED
    BY <2>1, <2>2
<1> QED
  BY <1>4, <1>5, <1>6

LEMMA KnownNext ==
  ASSUME Coherent, Known, [Next]_vars
  PROVE  Known'
<1>1. CASE UNCHANGED vars
  BY <1>1 DEF vars, Known, Dir
<1>2. CASE Wipe
  BY <1>2 DEF Wipe, Known
<1>3. ASSUME NEW p \in Procs, NEW c \in Commands, Begin(p, c) PROVE Known'
  <2>1. Begins(p, c) /\ UNCHANGED <<files, vm, stack, data, force, mishaps>>
    BY <1>3, BeginStep DEF Coherent
  <2>2. \A q \in Procs : pc[q] \in Emptying => pc'[q] = pc[q] /\ Dir(q)' = Dir(q)
    BY <2>1 DEF Begins, Emptying, Dir
  <2> QED
    BY <2>1, <2>2 DEF Known
<1> QED
  BY <1>1, <1>2, <1>3, Steps, KnownStep

\* An administrator's password is in the file, or about to be saved, or lost.
Kept ==
  mishaps \cap {"destroy", "wipe"} = {} /\ "lost" \notin mishaps /\ data.admin # None =>
    \A d \in Dirs : vm.marker = d => files[d].password # None \/ Saving(d)

LEMMA KeptStep ==
  ASSUME Coherent, DataHasOwner, Kept, ~crossed, NEW p \in Procs, Step(p)
  PROVE  Kept'
<1> SUFFICES ASSUME mishaps' \cap {"destroy", "wipe"} = {}, "lost" \notin mishaps',
                    data'.admin # None, NEW d \in Dirs, vm'.marker = d
             PROVE  files'[d].password # None \/ \E q \in Procs : pc'[q] = "password" /\ Dir(q)' = d
  BY DEF Kept, Saving, At, Dir
<1>0. Typed /\ Apart /\ Bare /\ Marked(p) /\ Readied(p)
  BY DEF Coherent
<1>1. /\ OnFiles(p) /\ OnVm(p) /\ OnStack(p) /\ OnData(p) /\ Blamed(p) /\ Found(p)
      /\ pc[p] # "idle" /\ Mine(p) = files[Dir(p)] /\ Dir(p) \in Dirs
      /\ pc'[p] # "idle" => Dir(p)' = Dir(p)
      /\ \A q \in Procs \ {p} : pc'[q] = pc[q] /\ Dir(q)' = Dir(q)
  BY <1>0, Parts
<1>2. mishaps \cap {"destroy", "wipe"} = {} /\ "lost" \notin mishaps
  BY <1>1 DEF OnStack, Remade
<1>3. CASE data.admin = None
  <2>1. pc[p] = "admin" /\ pc'[p] = "password"
    BY <1>1, <1>3 DEF OnData, NoData
  <2>2. vm'.marker = Dir(p)
    BY <1>0, <1>1, <2>1 DEF OnVm, Marked, Ups, Served
  <2> QED
    BY <1>1, <2>1, <2>2
<1>4. CASE data.admin # None
  <2>1. data.batch # None
    BY <1>0, <1>4 DEF Bare, NoData
  <2>2. CASE pc[p] \in Emptying
    BY <1>0, <1>1, <2>2, ParameterAssumption DEF Marked, Emptying, OnVm
  <2>3. CASE pc[p] \notin Emptying /\ vm'.marker # vm.marker
    <3>1. pc[p] = "mark" /\ vm.marker \in {None, Dir(p)} /\ vm'.marker = Dir(p)
      BY <1>0, <1>1, <2>3, ParameterAssumption DEF OnVm, Marked
    <3>2. ~ Removing
      BY <1>0, <1>1, <3>1, Others DEF Removing, Removes, Emptying
    <3>3. vm.marker \in Dirs
      BY <1>2, <2>1, <3>2 DEF DataHasOwner
    <3> QED
      BY <2>3, <3>1, <3>3, ParameterAssumption
  <2>4. CASE pc[p] \notin Emptying /\ vm.marker = d
    <3>1. files[d].password # None \/ Saving(d)
      BY <1>2, <1>4, <2>4 DEF Kept
    <3>2. CASE files[d].password # None
      <4>1. files'[d].password \in {files[d].password, data.admin}
        BY <1>1, <2>4 DEF OnFiles, Emptying
      <4> QED
        BY <1>4, <3>2, <4>1
    <3>3. CASE pc[p] = "password" /\ Dir(p) = d
      BY <1>1, <1>4, <3>3 DEF Found, Blamed
    <3>4. ASSUME NEW q \in Procs \ {p}, pc[q] = "password", Dir(q) = d
          PROVE  \E r \in Procs : pc'[r] = "password" /\ Dir(r)' = d
      BY <1>1, <3>4
    <3> QED
      BY <3>1, <3>2, <3>3, <3>4 DEF Saving, At
  <2> QED
    BY <2>2, <2>3, <2>4
<1> QED
  BY <1>3, <1>4

LEMMA KeptNext ==
  ASSUME Coherent, DataHasOwner, Kept, ~crossed, [Next]_vars
  PROVE  Kept'
<1>1. CASE UNCHANGED vars
  BY <1>1 DEF vars, Kept, Saving, At, Dir
<1>2. CASE Wipe
  BY <1>2 DEF Wipe, Kept
<1>3. ASSUME NEW p \in Procs, NEW c \in Commands, Begin(p, c) PROVE Kept'
  <2>1. Begins(p, c) /\ UNCHANGED <<files, vm, stack, data, force, mishaps>>
    BY <1>3, BeginStep DEF Coherent
  <2>2. \A d \in Dirs : Saving(d) => Saving(d)'
    BY <2>1 DEF Begins, Saving, At, Dir
  <2> QED
    BY <2>1, <2>2 DEF Kept
<1> QED
  BY <1>1, <1>2, <1>3, Steps, KeptStep

-------------------------------------------------------------------------------
(* The theorems.                                                           *)

\* Commands that crossed have crossed for ever; until then all of it holds.
Ordered == ~crossed => Coherent /\ DataHasOwner /\ Traced /\ Known /\ Kept
IInv    == Typed /\ Ordered

LEMMA CrossedStays ==
  ASSUME Typed, [Next]_vars, ~crossed'
  PROVE  ~crossed
<1>1. ASSUME NEW p \in Procs, Step(p) PROVE crossed' = crossed
  BY <1>1, Parts DEF Blamed
<1>2. Wipe \/ UNCHANGED vars => crossed' = crossed
  BY DEF Wipe, vars
<1>3. ASSUME NEW p \in Procs, NEW c \in Commands, Begin(p, c) PROVE ~crossed
  BY <1>3, BeginStep
<1> QED
  BY <1>1, <1>2, <1>3, Steps

LEMMA CoherentNext ==
  ASSUME Coherent, [Next]_vars, ~crossed'
  PROVE  Coherent'
BY Steps, CoherentStep, CoherentBegin, CoherentWipe, CoherentStutter

LEMMA Invariance == Spec => []IInv
<1>1. Init => IInv
  BY CoherentInit DEF IInv, Ordered, Coherent, Traced, Init, DataHasOwner, NoData, Kept
<1>2. IInv /\ [Next]_vars => IInv'
  <2>1. Typed /\ [Next]_vars => Typed'
    BY Steps, TypedStep, BeginStep, WipeStep, Stutter
  <2> QED
    BY <2>1, CrossedStays, CoherentNext, OwnedNext, TracedNext, KnownNext, KeptNext
       DEF IInv, Ordered
<1> QED
  BY <1>1, <1>2, PTL DEF Spec

\* Wherever commands stop, data in the VM can be found and removed again.
THEOREM DataIsOwned == Spec => []DataHasOwner
<1>1. IInv => DataHasOwner
  BY DEF IInv, Ordered, DataHasOwner
<1> QED
  BY <1>1, Invariance, PTL

\* Containers that serve hold the release the directory's receipt names.
THEOREM ContainersRefreshed == Spec => []ReleaseRefreshed
<1>1. IInv => ReleaseRefreshed
  BY DEF IInv, Ordered, Coherent, Bare, Traced, Accounted, Made, Quiet, ReleaseRefreshed, NoStack,
         Served, Closing
<1> QED
  BY <1>1, Invariance, PTL

\* The password file is never wrong about the administrator of the running
\* appliance, and missing only when a launch ended before saving it.
THEOREM PasswordIsTrue == Spec => []PasswordFileTrue
<1>1. ASSUME IInv, ~crossed, mishaps \cap {"destroy", "wipe"} = {}, NEW d \in Dirs, vm.marker = d
      PROVE  \/ files[d].password = data.admin
             \/ files[d].password = None /\ (Saving(d) \/ "lost" \in mishaps)
  <2>1. Coherent /\ Known /\ Kept
    BY <1>1 DEF IInv, Ordered
  <2>2. CASE files[d].password # None
    BY <1>1, <2>1, <2>2, ParameterAssumption DEF Coherent, Marked, Known
  <2>3. CASE files[d].password = None
    BY <1>1, <2>1, <2>3 DEF Kept
  <2> QED
    BY <2>2, <2>3
<1>2. IInv => PasswordFileTrue
  BY <1>1 DEF PasswordFileTrue
<1> QED
  BY <1>2, Invariance, PTL

\* A launch that reports the appliance ready left an administrator linked to
\* the tenant, on data that this directory's secrets open.
THEOREM ReadyIsReady == Spec => ReadyMeansReady
<1>1. ASSUME Coherent, [Next]_vars, NEW p \in Procs, cmd[p].kind = "launch", last'[p] = "ok"
      PROVE  data.admin # None /\ data.bound /\ data.batch = Mine(p).secrets
  <2>1. pc[p] \in Launches /\ pc[p] # "idle" /\ last[p] = "none"
    BY <1>1 DEF Coherent, Typed, Where, NoCommand
  <2>2. Step(p)
    <3>1. ~ UNCHANGED vars /\ ~ Wipe
      BY <1>1, <2>1 DEF vars, Wipe
    <3>2. ASSUME NEW q \in Procs, NEW c \in Commands PROVE ~ Begin(q, c)
      BY <1>1, <2>1, BeginStep DEF Begins, Coherent
    <3>3. ASSUME NEW q \in Procs, Step(q) PROVE q = p
      BY <1>1, <2>1, <3>3, Parts DEF Coherent
    <3> QED
      BY <1>1, <3>1, <3>2, <3>3, Steps
  <2>3. pc[p] = "receipting"
    BY <1>1, <2>1, <2>2, Parts DEF Blamed, Coherent
  <2> QED
    BY <1>1, <2>3 DEF Coherent, Readied, Closing
<1>2. IInv /\ [Next]_vars =>
        [\A p \in Procs : ~crossed /\ cmd[p].kind = "launch" /\ last'[p] = "ok"
           => data.admin # None /\ data.bound /\ data.batch = Mine(p).secrets]_vars
  BY <1>1 DEF IInv, Ordered
<1> QED
  BY <1>2, Invariance, PTL DEF Spec, ReadyMeansReady
===============================================================================
