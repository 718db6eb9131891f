----------------------- MODULE ServerLifecycleProofs -----------------------
(***************************************************************************)
(* What holds of ServerLifecycle for any nodes, any number of PHP workers  *)
(* and any behaviour of the daemons.                                       *)
(***************************************************************************)
EXTENDS ServerLifecycle, SequenceTheorems, TLAPS

-----------------------------------------------------------------------------
(* The requests the actions build. *)

LEMMA IdleType == Idle \in Request
BY HomeAssumption, BoundsAssumption DEF Idle, Request, Step, Status

LEMMA LoadedNodeType ==
  ASSUME TypeOK, NEW step \in Step
  PROVE  LoadedNode(step) \in Request
BY IdleType DEF LoadedNode, TypeOK, Server, Request

LEMMA LoadedType ==
  ASSUME TypeOK, NEW step \in Step
  PROVE  Loaded(step) \in Request
BY LoadedNodeType DEF Loaded, TypeOK, Server, Request

LEMMA LoadedTransferType ==
  ASSUME TypeOK, NEW step \in Step, NEW i \in PendingRows
  PROVE  LoadedTransfer(step, i) \in Request
<1>1. /\ i \in 0 .. MaxTransfers
      /\ transfers[i] \in Transfer
  BY BoundsAssumption DEF TypeOK, PendingRows
<1>2. transfers[i].old \in Node /\ transfers[i].new \in Node
  BY <1>1 DEF Transfer
<1> DEFINE base == LoadedNode(step)
<1>3. base \in Request
  BY LoadedNodeType
<1>4. LoadedTransfer(step, i) =
        [base EXCEPT !.transfer = i, !.old = transfers[i].old,
                     !.new = transfers[i].new]
  BY DEF LoadedTransfer
<1> HIDE DEF base
<1> QED
  BY <1>1, <1>2, <1>3, <1>4 DEF Request

LEMMA BeginType ==
  ASSUME TypeOK, NEW r \in Slot, NEW loaded \in Request, Begin(r, loaded)
  PROVE  request' \in [Slot -> Request]
BY DEF Begin, TypeOK

LEMMA EndType ==
  ASSUME TypeOK, NEW r \in Slot, End(r)
  PROVE  request' \in [Slot -> Request]
BY IdleType DEF End, TypeOK

LEMMA GotoType ==
  ASSUME TypeOK, NEW r \in Slot, NEW step \in Step, Goto(r, step)
  PROVE  request' \in [Slot -> Request]
BY DEF Goto, TypeOK, Request

LEMMA SaveStatusType ==
  ASSUME TypeOK, NEW r \in Slot, SaveStatus(r)
  PROVE  server' \in Server
BY DEF SaveStatus, Saved, TypeOK, Server, Request

LEMMA SettleType ==
  ASSUME TypeOK, NEW i, NEW value \in {"pending", "yes", "no"}, Settle(i, value)
  PROVE  /\ transfers' \in Seq(Transfer)
         /\ Len(transfers') = Len(transfers)
         /\ DOMAIN transfers' = DOMAIN transfers
<1>1. CASE i \in DOMAIN transfers
  <2> DEFINE row == [transfers[i] EXCEPT !.successful = value]
  <2>a. i \in 1 .. Len(transfers)
    BY <1>1 DEF TypeOK
  <2>b. transfers[i] \in Transfer
    BY <2>a, ElementOfSeq DEF TypeOK
  <2>1. i \in 1 .. Len(transfers) /\ row \in Transfer
    BY <2>a, <2>b DEF Transfer
  <2>2. transfers' = [transfers EXCEPT ![i] = row]
    BY <1>1 DEF Settle
  <2> HIDE DEF row
  <2> QED
    BY <2>1, <2>2, ExceptSeq DEF TypeOK
<1>2. CASE i \notin DOMAIN transfers
  BY <1>2 DEF Settle, TypeOK
<1> QED
  BY <1>1, <1>2

LEMMA RemoveType ==
  ASSUME TypeOK, NEW n \in Node, NEW answer, Remove(n, answer)
  PROVE  jobs' \subseteq Job /\ files' \subseteq Node
BY DEF Remove, JobsWithout, TypeOK

LEMMA ReadByType ==
  ASSUME TypeOK, NEW n \in Node, NEW status
  PROVE  ReadBy(n, status) \subseteq Node
BY DEF ReadBy, TypeOK

LEMMA JobTypes ==
  ASSUME NEW n \in Node, NEW m \in Node,
         NEW kind \in {"install", "reinstall", "restore"}
  PROVE  InstallJob(kind, n) \in Job /\ TransferJob(n, m) \in Job
BY DEF InstallJob, TransferJob, Job

-----------------------------------------------------------------------------
(* Type correctness. *)

LEMMA InitType == Init => TypeOK
<1> SUFFICES ASSUME Init PROVE TypeOK
  OBVIOUS
<1>1. request \in [Slot -> Request]
  <2> DEFINE create == [Idle EXCEPT !.step = "create", !.status = "installing"]
  <2>1. create \in Request
    BY IdleType DEF Request, Step, Status
  <2>2. PICK r \in Slot : request = [[s \in Slot |-> Idle] EXCEPT ![r] = create]
    BY DEF Init
  <2> HIDE DEF create
  <2> QED
    BY <2>1, <2>2, IdleType
<1>2. server \in Server
  BY HomeAssumption DEF Init, Server, Status
<1>3. transfers \in Seq(Transfer) /\ Len(transfers) <= MaxTransfers
  BY BoundsAssumption DEF Init
<1> QED
  BY <1>1, <1>2, <1>3 DEF Init, TypeOK

LEMMA PanelType ==
  ASSUME TypeOK, NEW r \in Slot, Panel(r)
  PROVE  TypeOK'
<1> USE DEF rows, daemons
<1> SUFFICES /\ request' \in [Slot -> Request]
             /\ UNCHANGED <<rows, daemons>>
  BY DEF TypeOK
<1>1. CASE BeginSuspend(r)
  BY <1>1, LoadedType, BeginType DEF BeginSuspend, Request, Step, Status
<1>2. CASE BeginUnsuspend(r)
  BY <1>2, LoadedType, BeginType DEF BeginUnsuspend, Request, Step, Status
<1>3. CASE BeginReinstall(r)
  BY <1>3, LoadedType, BeginType DEF BeginReinstall, Request, Step, Status
<1>4. CASE BeginToggleInstall(r)
  BY <1>4, LoadedType, BeginType DEF BeginToggleInstall, Request, Step, Status
<1>5. CASE BeginRestore(r)
  BY <1>5, LoadedType, BeginType DEF BeginRestore, Request, Step, Status
<1>6. ASSUME NEW n \in Node, BeginTransfer(r, n)
      PROVE  request' \in [Slot -> Request] /\ UNCHANGED <<rows, daemons>>
  <2>1. Len(transfers) \in 0 .. MaxTransfers
    BY BoundsAssumption, LenProperties DEF TypeOK
  <2>2. LoadedNode("startTransfer") \in Request
    BY LoadedNodeType DEF Step
  <2>3. [LoadedNode("startTransfer") EXCEPT !.new = n, !.transfer = Len(transfers)]
          \in Request
    BY <2>1, <2>2 DEF Request
  <2> QED
    BY <1>6, <2>3, BeginType DEF BeginTransfer
<1>7. CASE BeginCancel(r)
  BY <1>7, LoadedTransferType, BeginType DEF BeginCancel, Step
<1>8. ASSUME NEW force \in BOOLEAN, BeginDelete(r, force)
      PROVE  request' \in [Slot -> Request] /\ UNCHANGED <<rows, daemons>>
  BY <1>8, LoadedNodeType, BeginType DEF BeginDelete, Request, Step
<1> QED
  BY <1>1, <1>2, <1>3, <1>4, <1>5, <1>6, <1>7, <1>8 DEF Panel

LEMMA CallbackType ==
  ASSUME TypeOK, NEW r \in Slot, Callback(r)
  PROVE  TypeOK'
<1> USE DEF rows, daemons, Reported
<1>1. PICK job \in jobs :
        \/ \E successful \in BOOLEAN : BeginInstalled(r, job, successful)
        \/ BeginRestored(r, job)
        \/ BeginTransferSuccess(r, job)
        \/ BeginTransferFailure(r, job)
  BY DEF Callback
<1>j. job \in Job /\ job.to \in Node
  BY DEF TypeOK, Job
<1>t. ASSUME NEW step \in Step, BeginTransferReport(r, step)
      PROVE  request' \in [Slot -> Request]
  BY <1>t, LoadedTransferType, BeginType DEF BeginTransferReport, TypeOK
<1>2. ASSUME NEW successful \in BOOLEAN, BeginInstalled(r, job, successful)
      PROVE  TypeOK'
  <2> DEFINE saved == ReportedStatus(server.status, successful, job.kind = "reinstall")
  <2>1. saved \in Status
    BY DEF ReportedStatus, Status
  <2>2. Loaded("installed") \in Request
    BY LoadedType DEF Step
  <2>3. [Loaded("installed") EXCEPT !.save = saved] \in Request
    <3> HIDE DEF saved
    <3> QED BY <2>1, <2>2 DEF Request
  <2>4. request' \in [Slot -> Request]
    BY <1>2, <2>3, BeginType DEF BeginInstalled
  <2> QED
    BY <1>2, <2>4 DEF BeginInstalled, TypeOK
<1>3. CASE BeginRestored(r, job)
  <2>1. request' \in [Slot -> Request]
    BY <1>3, LoadedType, BeginType DEF BeginRestored, Step
  <2>2. [job EXCEPT !.kind = "restored"] \in Job
    BY <1>j DEF Job
  <2> QED
    BY <1>3, <2>1, <2>2 DEF BeginRestored, TypeOK
<1>4. CASE BeginTransferSuccess(r, job)
  <2>1. request' \in [Slot -> Request]
    BY <1>4, <1>t DEF BeginTransferSuccess, Step
  <2>2. suspendedOn' \subseteq Node
    BY <1>4, <1>j, ReadByType DEF BeginTransferSuccess
  <2> QED
    BY <1>4, <1>j, <2>1, <2>2 DEF BeginTransferSuccess, TypeOK
<1>5. CASE BeginTransferFailure(r, job)
  <2>1. request' \in [Slot -> Request]
    BY <1>5, <1>t DEF BeginTransferFailure, Step
  <2> QED
    BY <1>5, <2>1 DEF BeginTransferFailure, TypeOK
<1> QED
  BY <1>1, <1>2, <1>3, <1>4, <1>5

LEMMA ContinueType ==
  ASSUME TypeOK, NEW r \in Slot, Continue(r)
  PROVE  TypeOK'
<1> USE DEF rows, daemons
<1>r. /\ request[r] \in Request
      /\ request[r].node \in Node
      /\ request[r].old \in Node
      /\ request[r].new \in Node
      /\ request[r].save \in Status
  BY DEF TypeOK, Request
<1>1. CASE CommitSuspension(r)
  <2>1. [Idle EXCEPT !.step = "sync", !.node = request[r].node] \in Request
    BY <1>r, IdleType DEF Request, Step
  <2>2. request' \in [Slot -> Request]
    BY <1>1, <2>1 DEF CommitSuspension, TypeOK
  <2> QED
    BY <1>1, <2>2, SaveStatusType DEF CommitSuspension, TypeOK
<1>2. CASE Sync(r)
  <2>1. suspendedOn' \subseteq Node
    BY <1>2, <1>r, ReadByType DEF Sync, TypeOK
  <2> QED
    BY <1>2, <2>1, EndType DEF Sync, TypeOK
<1>c. ASSUME NEW job \in Job, CommitWithDaemon(r, job)
      PROVE  TypeOK'
  BY <1>c, SaveStatusType, EndType DEF CommitWithDaemon, TypeOK
<1>3. CASE CommitReinstall(r)
  BY <1>3, <1>c, <1>r, JobTypes DEF CommitReinstall
<1>4. CASE CommitRestore(r)
  BY <1>4, <1>c, <1>r, JobTypes DEF CommitRestore
<1>5. CASE CommitToggleInstall(r)
  BY <1>5, SaveStatusType, EndType DEF CommitToggleInstall, TypeOK
<1>6. CASE CommitTransfer(r)
  <2> DEFINE from == request[r].node
             to == request[r].new
             row == [old |-> from, new |-> to, successful |-> "pending"]
  <2>1. row \in Transfer
    BY <1>r DEF Transfer
  <2>2. TransferJob(from, to) \in Job
    BY <1>r, JobTypes
  <2>3. /\ Append(transfers, row) \in Seq(Transfer)
        /\ Len(Append(transfers, row)) = Len(transfers) + 1
    BY <2>1, AppendProperties DEF TypeOK
  <2>4. jobs' \subseteq Job
    BY <1>6, <2>2 DEF CommitTransfer, TypeOK
  <2>5. transfers' = transfers \/ (Len(transfers) < MaxTransfers /\ transfers' = Append(transfers, row))
    BY <1>6 DEF CommitTransfer
  <2> HIDE DEF row
  <2>6. transfers' \in Seq(Transfer) /\ Len(transfers') <= MaxTransfers
    BY <2>3, <2>5, BoundsAssumption, LenProperties DEF TypeOK
  <2> QED
    BY <1>6, <2>4, <2>6, EndType DEF CommitTransfer, TypeOK
<1>7. CASE CommitCancel(r)
  BY <1>7, SettleType, GotoType DEF CommitCancel, Step, TypeOK
<1>8. CASE CancelCalls(r)
  BY <1>8, EndType DEF CancelCalls, TypeOK
<1>9. CASE DaemonCreate(r)
  <2>1. request' \in [Slot -> Request]
    <3>1. CASE End(r)
      BY <3>1, EndType
    <3>2. CASE request' = [request EXCEPT ![r].step = "delete", ![r].force = TRUE]
      BY <3>2, <1>r DEF TypeOK, Request, Step
    <3> QED
      BY <1>9, <3>1, <3>2 DEF DaemonCreate
  <2>2. suspendedOn' \subseteq Node
    BY <1>9, <1>r, ReadByType DEF DaemonCreate, TypeOK
  <2>3. InstallJob("install", request[r].node) \in Job
    BY <1>r, JobTypes
  <2> QED
    BY <1>9, <1>r, <2>1, <2>2, <2>3 DEF DaemonCreate, TypeOK
<1>10. CASE DaemonDelete(r)
  <2>1. request' \in [Slot -> Request]
    BY <1>10, EndType, GotoType DEF DaemonDelete, Step
  <2>2. jobs' \subseteq Job /\ files' \subseteq Node
    BY <1>10, <1>r, RemoveType DEF DaemonDelete
  <2> QED
    BY <1>10, <2>1, <2>2 DEF DaemonDelete, TypeOK
<1>11. CASE DeleteRows(r)
  <2>1. transfers' \in Seq(Transfer) /\ Len(transfers') <= MaxTransfers
    BY <1>11, BoundsAssumption DEF DeleteRows
  <2> QED
    BY <1>11, <2>1, EndType DEF DeleteRows, TypeOK
<1>12. CASE CommitInstalled(r)
  BY <1>12, SaveStatusType, EndType DEF CommitInstalled, TypeOK
<1>13. CASE CommitRestored(r)
  BY <1>13, SaveStatusType, EndType DEF CommitRestored, TypeOK
<1>14. CASE CommitTransferSuccess(r)
  <2>1. request' \in [Slot -> Request]
    BY <1>14, EndType, GotoType DEF CommitTransferSuccess, Step
  <2>2. server' \in Server
    BY <1>14, <1>r DEF CommitTransferSuccess, Saved, TypeOK, Server
  <2>3. transfers' \in Seq(Transfer) /\ Len(transfers') <= MaxTransfers
    BY <1>14, SettleType DEF CommitTransferSuccess, TypeOK
  <2> QED
    BY <1>14, <2>1, <2>2, <2>3 DEF CommitTransferSuccess, TypeOK
<1>15. CASE DeleteOld(r)
  <2>1. jobs' \subseteq Job /\ files' \subseteq Node
    BY <1>15, <1>r, RemoveType DEF DeleteOld
  <2> QED
    BY <1>15, <2>1, EndType DEF DeleteOld, TypeOK
<1>16. CASE CommitTransferFailure(r)
  BY <1>16, SettleType, EndType DEF CommitTransferFailure, TypeOK
<1> QED
  BY <1>1, <1>2, <1>3, <1>4, <1>5, <1>6, <1>7, <1>8, <1>9, <1>10, <1>11, <1>12,
     <1>13, <1>14, <1>15, <1>16 DEF Continue

LEMMA DaemonType ==
  ASSUME TypeOK, NEW n \in Node, Daemon(n)
  PROVE  TypeOK'
<1> USE DEF rows
<1>1. CASE Crash(n)
  BY <1>1 DEF Crash, TypeOK
<1>2. CASE Boot(n)
  <2>1. server' \in Server
    BY <1>2 DEF Boot, ResetStatus, TypeOK, Server, Status
  <2>2. suspendedOn' \subseteq Node
    BY <1>2, ReadByType DEF Boot, TypeOK
  <2> QED
    BY <1>2, <2>1, <2>2 DEF Boot, TypeOK
<1> QED
  BY <1>1, <1>2 DEF Daemon

\* A backup that goes away changes what its restoration will be answered, and
\* nothing else.
LEMMA BackupKeeps ==
  ASSUME NEW job \in jobs, Backup(job)
  PROVE  UNCHANGED <<exists, server, transfers, request, files, suspendedOn, down>>
BY DEF Backup, DeleteBackup, RefuseRestored, rows

LEMMA BackupType ==
  ASSUME TypeOK, NEW job \in jobs, Backup(job)
  PROVE  TypeOK'
<1>1. job \in Job
  BY DEF TypeOK
<1>2. [job EXCEPT !.kind = "orphan"] \in Job
  BY <1>1 DEF Job
<1>3. jobs' \subseteq Job
  BY <1>2 DEF Backup, DeleteBackup, RefuseRestored, Reported, TypeOK
<1> QED
  BY <1>3, BackupKeeps DEF TypeOK

\* Every variable stays of its type: in particular a request never refers to a
\* transfer that cannot exist, and no more transfers are recorded than the bound.
THEOREM TypeCorrect == Spec => []TypeOK
<1>1. TypeOK /\ [Next]_vars => TypeOK'
  <2> SUFFICES ASSUME TypeOK, [Next]_vars PROVE TypeOK'
    OBVIOUS
  <2>1. CASE UNCHANGED vars
    BY <2>1 DEF vars, TypeOK
  <2>2. CASE Next
    BY <2>2, PanelType, CallbackType, ContinueType, BackupType, DaemonType DEF Next
  <2> QED
    BY <2>1, <2>2
<1> QED
  BY InitType, <1>1, PTL DEF Spec

-----------------------------------------------------------------------------
(* The steps that change the row of the server. *)

\* Panel requests only load it, and so do daemon reports.
LEMMA BeginsKeepRows ==
  ASSUME NEW r \in Slot, Panel(r) \/ Callback(r)
  PROVE  UNCHANGED rows
BY DEF Panel, Callback, BeginSuspend, BeginUnsuspend, BeginReinstall,
       BeginToggleInstall, BeginRestore, BeginTransfer, BeginCancel, BeginDelete,
       BeginInstalled, BeginRestored, BeginTransferSuccess, BeginTransferFailure, rows

\* A step of a request that changes the row saves a status, or is the success of
\* a transfer.
LEMMA ContinueServer ==
  ASSUME TypeOK, NEW r \in Slot, Continue(r), server' # server
  PROVE  \/ SaveStatus(r) \/ CommitInstalled(r) \/ CommitTransferSuccess(r)
BY DEF Continue, CommitSuspension, Sync, CommitReinstall, CommitToggleInstall,
       CommitRestore, CommitWithDaemon, CommitTransfer, CommitCancel, CancelCalls,
       DaemonCreate, DaemonDelete, DeleteRows, CommitRestored, DeleteOld,
       CommitTransferFailure, rows

LEMMA NodeChange ==
  ASSUME TypeOK, [Next]_vars, server'.node # server.node
  PROVE  \E r \in Slot : CommitTransferSuccess(r)
<1>1. CASE UNCHANGED vars
  BY <1>1 DEF vars
<1>2. ASSUME NEW r \in Slot, Panel(r) \/ Callback(r)
      PROVE  FALSE
  BY <1>2, BeginsKeepRows DEF rows
<1>3. ASSUME NEW r \in Slot, Continue(r)
      PROVE  CommitTransferSuccess(r)
  <2>1. \/ SaveStatus(r) \/ CommitInstalled(r) \/ CommitTransferSuccess(r)
    BY <1>3, ContinueServer
  <2>2. ~SaveStatus(r)
    BY DEF SaveStatus, TypeOK, Server
  <2>3. ~CommitInstalled(r)
    BY DEF CommitInstalled, SaveStatus, TypeOK, Server
  <2> QED
    BY <2>1, <2>2, <2>3
<1>4. ASSUME NEW n \in Node, Daemon(n)
      PROVE  FALSE
  BY <1>4 DEF Daemon, Crash, Boot, ResetStatus, rows, TypeOK, Server
<1>5. ASSUME NEW job \in jobs, Backup(job)
      PROVE  FALSE
  BY <1>5, BackupKeeps
<1> QED
  BY <1>1, <1>2, <1>3, <1>4, <1>5 DEF Next

\* The server moves in the step in which a pending transfer becomes successful.
THEOREM MoveIsRecorded == Spec => MoveSettlesTransfer
<1>1. TypeOK /\ [Next]_vars =>
        (exists /\ server'.node # server.node =>
           \E i \in PendingRows : /\ i \in DOMAIN transfers'
                                 /\ transfers'[i].successful = "yes")
  <2> SUFFICES ASSUME TypeOK, [Next]_vars, exists, server'.node # server.node
               PROVE  \E i \in PendingRows : /\ i \in DOMAIN transfers'
                                            /\ transfers'[i].successful = "yes"
    OBVIOUS
  <2>1. PICK r \in Slot : CommitTransferSuccess(r)
    BY NodeChange
  <2>2. PICK i \in PendingRows : Settle(i, "yes")
    BY <2>1 DEF CommitTransferSuccess
  <2>3. i \in DOMAIN transfers /\ transfers[i] \in Transfer
    BY ElementOfSeq DEF PendingRows, TypeOK
  <2>4. transfers' = [transfers EXCEPT ![i].successful = "yes"]
    BY <2>2, <2>3 DEF Settle
  <2> QED
    BY <2>3, <2>4 DEF Transfer
<1> QED
  BY TypeCorrect, <1>1, PTL DEF Spec, MoveSettlesTransfer

-----------------------------------------------------------------------------
(* Suspensions.  A request that is about to save `suspended` either suspends  *)
(* the server or has found it suspended.                                      *)

SavesHaveCause ==
  \A r \in Slot :
    request[r].save = "suspended" =>
      request[r].step = "suspension" \/ request[r].status = "suspended"

\* A step that replaces one request keeps the others.
LEMMA SavesHaveCauseStep ==
  ASSUME TypeOK, SavesHaveCause, NEW r \in Slot, NEW q,
         request' = [request EXCEPT ![r] = q],
         q.save = "suspended" => q.step = "suspension" \/ q.status = "suspended"
  PROVE  SavesHaveCause'
BY DEF SavesHaveCause, TypeOK

LEMMA SavesHaveCauseBegin ==
  ASSUME TypeOK, SavesHaveCause, NEW r \in Slot, Panel(r) \/ Callback(r)
  PROVE  SavesHaveCause'
<1> USE DEF Idle, LoadedNode, Loaded, LoadedTransfer, Begin
<1>1. CASE BeginSuspend(r)
  BY <1>1, SavesHaveCauseStep DEF BeginSuspend
<1>2. CASE BeginUnsuspend(r)
  BY <1>2, SavesHaveCauseStep DEF BeginUnsuspend
<1>3. CASE BeginReinstall(r)
  BY <1>3, SavesHaveCauseStep DEF BeginReinstall
<1>4. CASE BeginToggleInstall(r)
  <2> DEFINE save == IF isInstalled(server.status) THEN "installing" ELSE "normal"
             q == [Loaded("toggleInstall") EXCEPT !.save = save]
  <2>1. save # "suspended"
    OBVIOUS
  <2>2. request' = [request EXCEPT ![r] = q]
    BY <1>4 DEF BeginToggleInstall
  <2> HIDE DEF save
  <2>3. q.save = save
    OBVIOUS
  <2> QED
    BY <2>1, <2>2, <2>3, SavesHaveCauseStep
<1>5. CASE BeginRestore(r)
  BY <1>5, SavesHaveCauseStep DEF BeginRestore
<1>6. ASSUME NEW n \in Node, BeginTransfer(r, n)
      PROVE  SavesHaveCause'
  BY <1>6, SavesHaveCauseStep DEF BeginTransfer
<1>7. CASE BeginCancel(r)
  BY <1>7, SavesHaveCauseStep DEF BeginCancel
<1>8. ASSUME NEW force \in BOOLEAN, BeginDelete(r, force)
      PROVE  SavesHaveCause'
  BY <1>8, SavesHaveCauseStep DEF BeginDelete
<1>9. ASSUME NEW job, NEW successful, BeginInstalled(r, job, successful)
      PROVE  SavesHaveCause'
  <2> DEFINE save == ReportedStatus(server.status, successful, job.kind = "reinstall")
             q == [Loaded("installed") EXCEPT !.save = save]
  <2>1. save = "suspended" => server.status = "suspended"
    BY DEF ReportedStatus
  <2>2. request' = [request EXCEPT ![r] = q]
    BY <1>9 DEF BeginInstalled
  <2> HIDE DEF save
  <2>3. q.save = save /\ q.status = server.status
    OBVIOUS
  <2> QED
    BY <2>1, <2>2, <2>3, SavesHaveCauseStep
<1>10. ASSUME NEW job, BeginRestored(r, job)
       PROVE  SavesHaveCause'
  BY <1>10, SavesHaveCauseStep DEF BeginRestored
<1>11. ASSUME NEW step, BeginTransferReport(r, step)
       PROVE  SavesHaveCause'
  <2>1. CASE UNCHANGED request
    BY <2>1 DEF SavesHaveCause
  <2>2. CASE \E i \in PendingRows : Begin(r, LoadedTransfer(step, i))
    BY <2>2, SavesHaveCauseStep
  <2> QED
    BY <1>11, <2>1, <2>2 DEF BeginTransferReport
<1> QED
  BY <1>1, <1>2, <1>3, <1>4, <1>5, <1>6, <1>7, <1>8, <1>9, <1>10, <1>11
     DEF Panel, Callback, BeginTransferSuccess, BeginTransferFailure

\* What a step leaves of a request: nothing, or the request with another step.
LEMMA SavesHaveCauseContinue ==
  ASSUME TypeOK, SavesHaveCause, NEW r \in Slot, Continue(r)
  PROVE  SavesHaveCause'
<1>1. ASSUME End(r) PROVE SavesHaveCause'
  BY <1>1, SavesHaveCauseStep DEF End, Idle
<1>2. ASSUME NEW step, Goto(r, step), request[r].step # "suspension"
      PROVE  SavesHaveCause'
  BY <1>2 DEF Goto, SavesHaveCause, TypeOK, Request
<1>3. CASE CommitSuspension(r)
  BY <1>3, SavesHaveCauseStep DEF CommitSuspension, Idle
<1>4. CASE DaemonCreate(r)
  <2>1. CASE request' = [request EXCEPT ![r].step = "delete", ![r].force = TRUE]
    BY <1>4, <2>1 DEF DaemonCreate, At, SavesHaveCause, TypeOK, Request
  <2> QED
    BY <1>1, <1>4, <2>1 DEF DaemonCreate
<1>5. CASE CommitCancel(r)
  BY <1>2, <1>5 DEF CommitCancel, At
<1>6. CASE DaemonDelete(r)
  BY <1>1, <1>2, <1>6 DEF DaemonDelete, At
<1>7. CASE CommitTransferSuccess(r)
  BY <1>1, <1>2, <1>7 DEF CommitTransferSuccess, At
<1> QED
  BY <1>1, <1>3, <1>4, <1>5, <1>6, <1>7
     DEF Continue, Sync, CommitReinstall, CommitToggleInstall, CommitRestore,
         CommitWithDaemon, CommitTransfer, CancelCalls, DeleteRows, CommitInstalled,
         CommitRestored, DeleteOld, CommitTransferFailure

LEMMA SavesHaveCauseInvariant == Spec => []SavesHaveCause
<1>1. Init => SavesHaveCause
  <2> SUFFICES ASSUME Init, NEW s \in Slot PROVE request[s].save # "suspended"
    BY DEF SavesHaveCause
  <2> QED
    BY DEF Init, Idle
<1>2. TypeOK /\ SavesHaveCause /\ [Next]_vars => SavesHaveCause'
  <2> SUFFICES ASSUME TypeOK, SavesHaveCause, [Next]_vars PROVE SavesHaveCause'
    OBVIOUS
  <2>1. CASE UNCHANGED vars
    BY <2>1 DEF vars, SavesHaveCause
  <2>2. ASSUME NEW n \in Node, Daemon(n) PROVE SavesHaveCause'
    BY <2>2 DEF Daemon, Crash, Boot, SavesHaveCause
  <2>3. ASSUME NEW job \in jobs, Backup(job) PROVE SavesHaveCause'
    BY <2>3, BackupKeeps DEF SavesHaveCause
  <2> QED
    BY <2>1, <2>2, <2>3, SavesHaveCauseBegin, SavesHaveCauseContinue DEF Next
<1> QED
  BY TypeCorrect, <1>1, <1>2, PTL DEF Spec

\* No interleaving of requests and reports suspends a server that nobody asks to
\* suspend, although every report writes back a status it read earlier.
THEOREM NothingElseSuspends == Spec => OnlySuspendSuspends
<1>1. TypeOK /\ SavesHaveCause /\ [Next]_vars =>
        (exists /\ server'.status = "suspended" /\ server.status # "suspended" =>
           \E r \in Slot : request[r].step = "suspension")
  <2> SUFFICES ASSUME TypeOK, SavesHaveCause, [Next]_vars,
                      server'.status = "suspended", server.status # "suspended"
               PROVE  \E r \in Slot : request[r].step = "suspension"
    OBVIOUS
  <2>1. CASE UNCHANGED vars
    BY <2>1 DEF vars
  <2>2. ASSUME NEW r \in Slot, Panel(r) \/ Callback(r) PROVE FALSE
    BY <2>2, BeginsKeepRows DEF rows
  <2>3. ASSUME NEW r \in Slot, Continue(r)
        PROVE  request[r].step = "suspension"
    <3>1. CASE SaveStatus(r)
      BY <3>1 DEF SaveStatus, Saved, SavesHaveCause, TypeOK, Server
    <3>2. CASE CommitInstalled(r)
      BY <3>2 DEF CommitInstalled, SaveStatus, Saved, SavesHaveCause, TypeOK, Server
    <3>3. ~CommitTransferSuccess(r)
      BY DEF CommitTransferSuccess, TypeOK, Server
    <3> QED
      BY <2>3, <3>1, <3>2, <3>3, ContinueServer
  <2>4. ASSUME NEW n \in Node, Daemon(n) PROVE FALSE
    BY <2>4 DEF Daemon, Crash, Boot, ResetStatus, rows, TypeOK, Server
  <2>5. ASSUME NEW job \in jobs, Backup(job) PROVE FALSE
    BY <2>5, BackupKeeps
  <2> QED
    BY <2>1, <2>2, <2>3, <2>4, <2>5 DEF Next
<1> QED
  BY TypeCorrect, SavesHaveCauseInvariant, <1>1, PTL DEF Spec, OnlySuspendSuspends
-----------------------------------------------------------------------------
(* What lifts a suspension.  A request that has found the server suspended    *)
(* and saves the outcome of something else leaves it so.                      *)

Outcome == {"installed", "toggleInstall", "restore"}

Keeps(q) == q.step \in Outcome /\ q.status = "suspended" => q.save = "suspended"

SuspensionsKept == \A r \in Slot : Keeps(request[r])

LEMMA SuspensionsKeptStep ==
  ASSUME TypeOK, SuspensionsKept, NEW r \in Slot, NEW q,
         request' = [request EXCEPT ![r] = q], Keeps(q)
  PROVE  SuspensionsKept'
BY DEF SuspensionsKept, TypeOK

LEMMA SuspensionsKeptBegin ==
  ASSUME TypeOK, SuspensionsKept, NEW r \in Slot, Panel(r) \/ Callback(r)
  PROVE  SuspensionsKept'
<1> USE DEF Idle, LoadedNode, Loaded, LoadedTransfer, Begin, Keeps, Outcome
<1>1. CASE BeginSuspend(r) \/ BeginUnsuspend(r) \/ BeginReinstall(r)
  BY <1>1, SuspensionsKeptStep DEF BeginSuspend, BeginUnsuspend, BeginReinstall
<1>2. CASE BeginToggleInstall(r)
  <2> DEFINE save == IF isInstalled(server.status) THEN "installing" ELSE "normal"
             q == [Loaded("toggleInstall") EXCEPT !.save = save]
  <2>1. request' = [request EXCEPT ![r] = q] /\ server.status # "suspended"
    BY <1>2 DEF BeginToggleInstall
  <2> HIDE DEF save
  <2>2. q.status = server.status
    OBVIOUS
  <2> QED
    BY <2>1, <2>2, SuspensionsKeptStep
<1>3. CASE BeginRestore(r)
  BY <1>3, SuspensionsKeptStep DEF BeginRestore
<1>4. ASSUME NEW n \in Node, BeginTransfer(r, n)
      PROVE  SuspensionsKept'
  BY <1>4, SuspensionsKeptStep DEF BeginTransfer
<1>5. CASE BeginCancel(r)
  BY <1>5, SuspensionsKeptStep DEF BeginCancel
<1>6. ASSUME NEW force \in BOOLEAN, BeginDelete(r, force)
      PROVE  SuspensionsKept'
  BY <1>6, SuspensionsKeptStep DEF BeginDelete
<1>7. ASSUME NEW job, NEW successful, BeginInstalled(r, job, successful)
      PROVE  SuspensionsKept'
  <2> DEFINE save == ReportedStatus(server.status, successful, job.kind = "reinstall")
             q == [Loaded("installed") EXCEPT !.save = save]
  <2>1. server.status = "suspended" => save = "suspended"
    BY DEF ReportedStatus
  <2>2. request' = [request EXCEPT ![r] = q]
    BY <1>7 DEF BeginInstalled
  <2> HIDE DEF save
  <2>3. q.save = save /\ q.status = server.status
    OBVIOUS
  <2> QED
    BY <2>1, <2>2, <2>3, SuspensionsKeptStep
<1>8. ASSUME NEW job, BeginRestored(r, job)
      PROVE  SuspensionsKept'
  BY <1>8, SuspensionsKeptStep DEF BeginRestored
<1>9. ASSUME NEW step \in {"transferSuccess", "transferFailure"},
             BeginTransferReport(r, step)
      PROVE  SuspensionsKept'
  <2>1. CASE UNCHANGED request
    BY <2>1 DEF SuspensionsKept
  <2>2. CASE \E i \in PendingRows : Begin(r, LoadedTransfer(step, i))
    BY <2>2, SuspensionsKeptStep
  <2> QED
    BY <1>9, <2>1, <2>2 DEF BeginTransferReport
<1> QED
  BY <1>1, <1>2, <1>3, <1>4, <1>5, <1>6, <1>7, <1>8, <1>9
     DEF Panel, Callback, BeginTransferSuccess, BeginTransferFailure

LEMMA SuspensionsKeptContinue ==
  ASSUME TypeOK, SuspensionsKept, NEW r \in Slot, Continue(r)
  PROVE  SuspensionsKept'
<1> USE DEF Keeps, Outcome
<1>1. ASSUME End(r) PROVE SuspensionsKept'
  BY <1>1, SuspensionsKeptStep DEF End, Idle
<1>2. ASSUME NEW step, step \notin Outcome, Goto(r, step)
      PROVE  SuspensionsKept'
  BY <1>2 DEF Goto, SuspensionsKept, TypeOK, Request
<1>3. CASE CommitSuspension(r)
  BY <1>3, SuspensionsKeptStep DEF CommitSuspension, Idle
<1>4. CASE DaemonCreate(r)
  <2>1. CASE request' = [request EXCEPT ![r].step = "delete", ![r].force = TRUE]
    BY <2>1 DEF SuspensionsKept, TypeOK, Request
  <2> QED
    BY <1>1, <1>4, <2>1 DEF DaemonCreate
<1>5. CASE CommitCancel(r)
  BY <1>2, <1>5 DEF CommitCancel
<1>6. CASE DaemonDelete(r)
  BY <1>1, <1>2, <1>6 DEF DaemonDelete
<1>7. CASE CommitTransferSuccess(r)
  BY <1>1, <1>2, <1>7 DEF CommitTransferSuccess
<1> QED
  BY <1>1, <1>3, <1>4, <1>5, <1>6, <1>7
     DEF Continue, Sync, CommitReinstall, CommitToggleInstall, CommitRestore,
         CommitWithDaemon, CommitTransfer, CancelCalls, DeleteRows, CommitInstalled,
         CommitRestored, DeleteOld, CommitTransferFailure

LEMMA SuspensionsKeptInvariant == Spec => []SuspensionsKept
<1>1. Init => SuspensionsKept
  <2> SUFFICES ASSUME Init, NEW s \in Slot PROVE request[s].status # "suspended"
    BY DEF SuspensionsKept, Keeps
  <2> QED
    BY DEF Init, Idle
<1>2. TypeOK /\ SuspensionsKept /\ [Next]_vars => SuspensionsKept'
  <2> SUFFICES ASSUME TypeOK, SuspensionsKept, [Next]_vars PROVE SuspensionsKept'
    OBVIOUS
  <2>1. CASE UNCHANGED vars
    BY <2>1 DEF vars, SuspensionsKept
  <2>2. ASSUME NEW n \in Node, Daemon(n) PROVE SuspensionsKept'
    BY <2>2 DEF Daemon, Crash, Boot, SuspensionsKept
  <2>3. ASSUME NEW job \in jobs, Backup(job) PROVE SuspensionsKept'
    BY <2>3, BackupKeeps DEF SuspensionsKept
  <2> QED
    BY <2>1, <2>2, <2>3, SuspensionsKeptBegin, SuspensionsKeptContinue DEF Next
<1> QED
  BY TypeCorrect, <1>1, <1>2, PTL DEF Spec

\* No report of an installation, no reset and no other request lifts a suspension
\* it has seen, except those that are meant to and the report of a restoration.
THEOREM SuspensionsLast == Spec => SuspensionLasts
<1>1. TypeOK /\ SuspensionsKept /\ [Next]_vars =>
        (exists /\ server.status = "suspended" /\ server'.status # "suspended" =>
           \E r \in Slot :
             \/ request[r].step \in {"suspension", "reinstall", "restored"}
             \/ /\ request[r].step \in {"installed", "toggleInstall", "restore"}
                /\ request[r].status # "suspended")
  <2> SUFFICES ASSUME TypeOK, SuspensionsKept, [Next]_vars,
                      server.status = "suspended", server'.status # "suspended"
               PROVE  \E r \in Slot :
                        \/ request[r].step \in {"suspension", "reinstall", "restored"}
                        \/ /\ request[r].step \in Outcome
                           /\ request[r].status # "suspended"
    BY DEF Outcome
  <2>1. CASE UNCHANGED vars
    BY <2>1 DEF vars
  <2>2. ASSUME NEW r \in Slot, Panel(r) \/ Callback(r) PROVE FALSE
    BY <2>2, BeginsKeepRows DEF rows
  <2>3. ASSUME NEW r \in Slot, Continue(r)
        PROVE  \/ request[r].step \in {"suspension", "reinstall", "restored"}
               \/ request[r].step \in Outcome /\ request[r].status # "suspended"
    <3>1. ~CommitTransferSuccess(r)
      BY DEF CommitTransferSuccess, TypeOK, Server
    <3>2. SaveStatus(r) \/ CommitInstalled(r)
      BY <2>3, <3>1, ContinueServer
    <3>3. request[r].save # "suspended"
      BY <3>2 DEF SaveStatus, CommitInstalled, Saved, TypeOK, Server
    <3>4. request[r].step \in Outcome \cup {"suspension", "reinstall", "restored"}
      BY <2>3, <3>1
         DEF Continue, At, Outcome, CommitSuspension, Sync, CommitReinstall,
             CommitToggleInstall, CommitRestore, CommitWithDaemon, CommitTransfer,
             CommitCancel, CancelCalls, DaemonCreate, DaemonDelete, DeleteRows,
             CommitInstalled, CommitRestored, DeleteOld, CommitTransferFailure, rows
    <3> QED
      BY <3>3, <3>4 DEF SuspensionsKept, Keeps
  <2>4. ASSUME NEW n \in Node, Daemon(n) PROVE FALSE
    BY <2>4 DEF Daemon, Crash, Boot, ResetStatus, rows, TypeOK, Server
  <2>5. ASSUME NEW job \in jobs, Backup(job) PROVE FALSE
    BY <2>5, BackupKeeps
  <2> QED
    BY <2>1, <2>2, <2>3, <2>4, <2>5 DEF Next
<1> QED
  BY TypeCorrect, SuspensionsKeptInvariant, <1>1, PTL DEF Spec, SuspensionLasts

-----------------------------------------------------------------------------
(* The node of the server.  A request that handles the success of a transfer *)
(* will move the server to a node that some row names, also when that row has *)
(* been settled, and the rows after it inserted, since it was loaded.         *)

OnRecord(n) == \E i \in DOMAIN transfers : transfers[i].new = n

SuccessOnRecord ==
  \A r \in Slot : exists /\ At(r, "transferSuccess") => OnRecord(request[r].new)

RecordInv == NodeOnRecord /\ SuccessOnRecord

\* A server that is deleted stays deleted.
LEMMA DeletedForGood ==
  ASSUME [Next]_vars, exists'
  PROVE  exists
<1>1. ASSUME NEW r \in Slot, Continue(r) PROVE exists
  BY <1>1 DEF Continue, CommitSuspension, Sync, CommitReinstall, CommitToggleInstall,
     CommitRestore, CommitWithDaemon, CommitTransfer, CommitCancel, CancelCalls,
     DaemonCreate, DaemonDelete, DeleteRows, CommitInstalled, CommitRestored,
     CommitTransferSuccess, DeleteOld, CommitTransferFailure, rows
<1> QED
  BY <1>1, BeginsKeepRows, BackupKeeps DEF Next, vars, rows, Daemon, Crash, Boot

\* No row of a server that still exists is removed or given another destination.
LEMMA RowsStay ==
  ASSUME TypeOK, [Next]_vars, exists', NEW n, OnRecord(n)
  PROVE  OnRecord(n)'
<1> PICK i \in DOMAIN transfers : transfers[i].new = n
  BY DEF OnRecord
<1>i. i \in 1 .. Len(transfers) /\ transfers[i] \in Transfer
  BY ElementOfSeq DEF TypeOK
<1>1. ASSUME UNCHANGED transfers
      PROVE  OnRecord(n)'
  BY <1>1 DEF OnRecord
<1>2. ASSUME NEW j, NEW value \in {"pending", "yes", "no"}, Settle(j, value)
      PROVE  OnRecord(n)'
  <2>1. i \in DOMAIN transfers'
    BY <1>2, SettleType
  <2>2. transfers'[i].new = n
    BY <1>2, <1>i DEF Settle, Transfer
  <2> QED
    BY <1>2, <2>1, <2>2 DEF OnRecord
<1>3. ASSUME NEW r \in Slot, Continue(r) PROVE OnRecord(n)'
  <2>1. CASE CommitTransfer(r)
    <3> DEFINE row == [old |-> request[r].node, new |-> request[r].new,
                       successful |-> "pending"]
    <3>1. transfers' = transfers \/ transfers' = Append(transfers, row)
      BY <2>1 DEF CommitTransfer
    <3>2. row \in Transfer
      BY DEF TypeOK, Request, Transfer
    <3> HIDE DEF row
    <3>3. CASE transfers' = Append(transfers, row)
      BY <3>1, <3>2, <3>3, <1>i, AppendProperties DEF OnRecord, TypeOK
    <3> QED
      BY <3>1, <3>3, <1>1
  <2>2. CASE CommitCancel(r)
    BY <2>2, <1>2 DEF CommitCancel
  <2>3. CASE CommitTransferFailure(r)
    BY <2>3, <1>2 DEF CommitTransferFailure
  <2>4. CASE CommitTransferSuccess(r)
    BY <2>4, <1>1, <1>2 DEF CommitTransferSuccess
  <2>5. ~DeleteRows(r)
    BY DEF DeleteRows
  <2> QED
    BY <1>1, <1>3, <2>1, <2>2, <2>3, <2>4, <2>5
       DEF Continue, CommitSuspension, Sync, CommitReinstall, CommitToggleInstall,
           CommitRestore, CommitWithDaemon, CancelCalls, DaemonCreate, DaemonDelete,
           CommitInstalled, CommitRestored, DeleteOld, rows
<1>4. ASSUME NEW r \in Slot, Panel(r) \/ Callback(r) PROVE OnRecord(n)'
  BY <1>1, <1>4, BeginsKeepRows DEF rows
<1>5. ASSUME NEW m \in Node, Daemon(m) PROVE OnRecord(n)'
  BY <1>1, <1>5 DEF Daemon, Crash, Boot, rows
<1>6. CASE UNCHANGED vars
  BY <1>1, <1>6 DEF vars
<1>7. ASSUME NEW job \in jobs, Backup(job) PROVE OnRecord(n)'
  BY <1>1, <1>7, BackupKeeps
<1> QED
  BY <1>3, <1>4, <1>5, <1>6, <1>7 DEF Next

\* A request comes to handle a success by loading the row of a transfer.
LEMMA SuccessLoaded ==
  ASSUME TypeOK, [Next]_vars, NEW s \in Slot, At(s, "transferSuccess")'
  PROVE  \/ At(s, "transferSuccess") /\ request'[s].new = request[s].new
         \/ OnRecord(request'[s].new)
<1> DEFINE Goal == \/ At(s, "transferSuccess") /\ request'[s].new = request[s].new
                   \/ OnRecord(request'[s].new)
<1> SUFFICES Goal
  OBVIOUS
<1>1. CASE request'[s] = request[s]
  BY <1>1 DEF At
<1>2. ASSUME NEW r \in Slot, NEW q, q.step # "transferSuccess",
             request' = [request EXCEPT ![r] = q]
      PROVE  Goal
  BY <1>1, <1>2 DEF At, TypeOK
<1> HIDE DEF Goal
<1>3. ASSUME NEW r \in Slot, End(r) PROVE Goal
  BY <1>2, <1>3 DEF End, Idle
<1>4. ASSUME NEW r \in Slot, NEW step, step # "transferSuccess", Goto(r, step)
      PROVE  Goal
  <2> DEFINE q == [request[r] EXCEPT !.step = step]
  <2>1. q.step # "transferSuccess"
    BY <1>4 DEF TypeOK, Request
  <2>2. request' = [request EXCEPT ![r] = q]
    BY <1>4 DEF Goto
  <2> HIDE DEF q
  <2> QED
    BY <1>2, <2>1, <2>2
<1>5. ASSUME NEW r \in Slot, Panel(r) PROVE Goal
  <2> USE DEF Begin, LoadedNode, Loaded, LoadedTransfer, Idle
  <2>1. CASE BeginSuspend(r)
    BY <2>1, <1>2 DEF BeginSuspend
  <2>2. CASE BeginUnsuspend(r)
    BY <2>2, <1>2 DEF BeginUnsuspend
  <2>3. CASE BeginReinstall(r)
    BY <2>3, <1>2 DEF BeginReinstall
  <2>4. CASE BeginToggleInstall(r)
    <3> DEFINE save == IF isInstalled(server.status) THEN "installing" ELSE "normal"
               q == [Loaded("toggleInstall") EXCEPT !.save = save]
    <3>1. request' = [request EXCEPT ![r] = q]
      BY <2>4 DEF BeginToggleInstall
    <3> HIDE DEF save
    <3>2. q.step = "toggleInstall"
      OBVIOUS
    <3> QED
      BY <1>2, <3>1, <3>2
  <2>5. CASE BeginRestore(r)
    BY <2>5, <1>2 DEF BeginRestore
  <2>6. ASSUME NEW n \in Node, BeginTransfer(r, n) PROVE Goal
    BY <2>6, <1>2 DEF BeginTransfer
  <2>7. CASE BeginCancel(r)
    BY <2>7, <1>2 DEF BeginCancel
  <2>8. ASSUME NEW force \in BOOLEAN, BeginDelete(r, force) PROVE Goal
    BY <2>8, <1>2 DEF BeginDelete
  <2> QED
    BY <1>5, <2>1, <2>2, <2>3, <2>4, <2>5, <2>6, <2>7, <2>8 DEF Panel
<1>6. ASSUME NEW r \in Slot, Callback(r) PROVE Goal
  <2>1. ASSUME NEW job, NEW successful, BeginInstalled(r, job, successful)
        PROVE  Goal
    <3> DEFINE save == ReportedStatus(server.status, successful, job.kind = "reinstall")
               q == [Loaded("installed") EXCEPT !.save = save]
    <3>1. request' = [request EXCEPT ![r] = q]
      BY <2>1 DEF BeginInstalled, Begin
    <3> HIDE DEF save
    <3>2. q.step = "installed"
      BY DEF Loaded, LoadedNode, Idle
    <3> QED
      BY <1>2, <3>1, <3>2
  <2>2. ASSUME NEW job, BeginRestored(r, job) PROVE Goal
    BY <2>2, <1>2 DEF BeginRestored, Begin, Loaded, LoadedNode, Idle
  <2>3. ASSUME NEW step, BeginTransferReport(r, step) PROVE Goal
    <3>1. CASE UNCHANGED request
      BY <3>1, <1>1
    <3>2. ASSUME NEW i \in PendingRows, Begin(r, LoadedTransfer(step, i)) PROVE Goal
      <4>1. i \in DOMAIN transfers /\ LoadedTransfer(step, i).new = transfers[i].new
        BY DEF PendingRows, LoadedTransfer, LoadedNode, Idle
      <4>2. CASE r = s
        <5>1. request'[s].new = transfers[i].new
          BY <3>2, <4>1, <4>2 DEF Begin, TypeOK
        <5> QED
          BY <4>1, <5>1 DEF OnRecord, Goal
      <4> QED
        BY <3>2, <4>2, <1>1 DEF Begin, TypeOK
    <3> QED
      BY <2>3, <3>1, <3>2 DEF BeginTransferReport
  <2> QED
    BY <1>6, <2>1, <2>2, <2>3 DEF Callback, BeginTransferSuccess, BeginTransferFailure
<1>7. ASSUME NEW r \in Slot, Continue(r) PROVE Goal
  <2>1. CASE CommitSuspension(r)
    BY <2>1, <1>2 DEF CommitSuspension, Idle
  <2>2. CASE CommitCancel(r)
    BY <2>2, <1>4 DEF CommitCancel
  <2>3. CASE DaemonCreate(r)
    <3> DEFINE q == [request[r] EXCEPT !.step = "delete", !.force = TRUE]
    <3>1. q.step # "transferSuccess"
      BY DEF TypeOK, Request
    <3>2. End(r) \/ request' = [request EXCEPT ![r] = q]
      BY <2>3 DEF DaemonCreate
    <3> HIDE DEF q
    <3> QED
      BY <3>1, <3>2, <1>2, <1>3
  <2>4. CASE DaemonDelete(r)
    BY <2>4, <1>3, <1>4 DEF DaemonDelete
  <2>5. CASE CommitTransferSuccess(r)
    BY <2>5, <1>3, <1>4 DEF CommitTransferSuccess
  <2> QED
    BY <1>7, <1>3, <2>1, <2>2, <2>3, <2>4, <2>5
       DEF Continue, Sync, CommitReinstall, CommitToggleInstall, CommitRestore,
           CommitWithDaemon, CommitTransfer, CancelCalls, DeleteRows, CommitInstalled,
           CommitRestored, DeleteOld, CommitTransferFailure
<1>8. ASSUME NEW n \in Node, Daemon(n) PROVE Goal
  BY <1>8, <1>1 DEF Daemon, Crash, Boot
<1>9. CASE UNCHANGED vars
  BY <1>9, <1>1 DEF vars
<1>10. ASSUME NEW job \in jobs, Backup(job) PROVE Goal
  BY <1>10, <1>1, BackupKeeps
<1> QED
  BY <1>5, <1>6, <1>7, <1>8, <1>9, <1>10 DEF Next

\* Whatever transfers end while others begin, and in whatever order requests and
\* reports on stale rows are handled, the server is on its first node or on one
\* that a transfer took it to.
THEOREM NodeIsOnRecord == Spec => []NodeOnRecord
<1>1. Init => RecordInv
  BY DEF Init, Idle, At, RecordInv, NodeOnRecord, SuccessOnRecord
<1>2. TypeOK /\ RecordInv /\ [Next]_vars => RecordInv'
  <2> SUFFICES ASSUME TypeOK, RecordInv, [Next]_vars PROVE RecordInv'
    OBVIOUS
  <2>1. NodeOnRecord'
    <3> SUFFICES ASSUME exists' PROVE server'.node = Home \/ OnRecord(server.node)'
      BY DEF NodeOnRecord, OnRecord
    <3>1. CASE server'.node = server.node
      <4>1. exists
        BY DeletedForGood
      <4> QED
        BY <3>1, <4>1, RowsStay DEF RecordInv, NodeOnRecord, OnRecord
    <3>2. CASE server'.node # server.node
      <4>1. PICK r \in Slot : CommitTransferSuccess(r)
        BY <3>2, NodeChange
      <4>2. /\ exists /\ At(r, "transferSuccess")
            /\ server'.node = request[r].new
        BY <3>2, <4>1 DEF CommitTransferSuccess, Saved, TypeOK, Server
      <4> QED
        BY <4>2, RowsStay DEF RecordInv, SuccessOnRecord
    <3> QED
      BY <3>1, <3>2
  <2>2. SuccessOnRecord'
    <3> SUFFICES ASSUME NEW s \in Slot, exists', At(s, "transferSuccess")'
                 PROVE  OnRecord(request[s].new)'
      BY DEF SuccessOnRecord
    <3>1. OnRecord(request'[s].new)
      BY SuccessLoaded, DeletedForGood DEF RecordInv, SuccessOnRecord
    <3>2. PICK n : n = request'[s].new
      OBVIOUS
    <3>3. OnRecord(n)'
      BY <3>1, <3>2, RowsStay
    <3> QED
      BY <3>2, <3>3 DEF OnRecord
  <2> QED
    BY <2>1, <2>2 DEF RecordInv
<1>3. RecordInv => NodeOnRecord
  BY DEF RecordInv
<1> QED
  BY TypeCorrect, <1>1, <1>2, <1>3, PTL DEF Spec
=============================================================================
