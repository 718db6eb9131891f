-------------------------- MODULE ServerLifecycle --------------------------
(***************************************************************************)
(* One game server of the panel: its row in the `servers` table (status,   *)
(* node), its rows in `server_transfers`, the daemons that hold its files, *)
(* and the PHP requests that work on it.                                   *)
(*                                                                         *)
(* A request reads the rows it needs once (route model binding and the     *)
(* lazily loaded `transfer` relation) and then acts on that snapshot; no   *)
(* row is locked and none is read again before it is written.  Eloquent    *)
(* writes only attributes that differ from the snapshot.  `request[r]` is  *)
(* the snapshot together with the next thing the request will do.          *)
(*                                                                         *)
(* The daemon is external.  A call to it ends in one of four ways; the     *)
(* HTTP client of the panel does not turn an HTTP error into an exception, *)
(* so only the last two raise ConnectionException:                         *)
(*   accepted     the daemon did it and answered 2xx                       *)
(*   refused      the daemon answered 4xx or 5xx and did nothing           *)
(*   unreachable  no connection                                            *)
(*   lost         the daemon did it, the answer timed out                  *)
(***************************************************************************)
EXTENDS Naturals, Sequences, FiniteSets

CONSTANTS
  Node,           \* the nodes; each runs one daemon
  Home,           \* the node the server is created on
  Slot,           \* PHP workers: how many requests run at the same time
  Answers,        \* how a reachable daemon may answer
  Unstable,       \* the nodes whose daemon may stop and start again
  MaxTransfers,   \* bound: rows of server_transfers
  MaxJobs         \* bound: no more work is asked for while this many jobs go on

ASSUME HomeAssumption == Home \in Node
ASSUME AnswersAssumption ==
  Answers \subseteq {"accepted", "refused", "unreachable", "lost"}
ASSUME UnstableAssumption == Unstable \subseteq Node
ASSUME BoundsAssumption == MaxTransfers \in Nat /\ MaxJobs \in Nat

VARIABLES
  exists,       \* the row of the server has not been deleted
  server,       \* the row of the server
  transfers,    \* the rows of server_transfers, in order of id
  request,      \* what each PHP worker is doing
  jobs,         \* work the daemons have accepted and not finished
  files,        \* the nodes whose daemon holds the server
  suspendedOn,  \* the nodes whose daemon last read the server as suspended
  down          \* the nodes whose daemon is not running

daemons == <<jobs, files, suspendedOn, down>>
rows == <<exists, server, transfers>>
vars == <<exists, server, transfers, request, jobs, files, suspendedOn, down>>

Status == {"normal", "installing", "install_failed", "reinstall_failed",
           "suspended", "restoring_backup"}

Step == {"idle", "suspension", "sync", "reinstall", "toggleInstall",
         "restore", "startTransfer", "cancelTransfer", "cancelCalls", "create",
         "delete", "deleteRows", "installed", "restored", "transferSuccess",
         "deleteOld", "transferFailure"}

Server == [status : Status, node : Node]
Transfer == [old : Node, new : Node, successful : {"pending", "yes", "no"}]

\* "restored" is a restoration that is over and whose report was not answered, and
\* "orphan" one whose backup has been deleted from the panel.
Job == [kind : {"install", "reinstall", "restore", "restored", "orphan", "transfer"},
        at : Node, to : Node]

\* The transfer of a request that starts one is the latest row there was when it
\* looked, pending or not: history, for FirstStartRight only.
Request ==
  [step : Step,
   status : Status, node : Node,                       \* the row as it was loaded
   transfer : 0 .. MaxTransfers, old : Node, new : Node,   \* the transfer loaded
   save : Status,                                      \* the status it will save
   force : BOOLEAN]                                    \* a forced deletion

TypeOK ==
  /\ exists \in BOOLEAN
  /\ server \in Server
  /\ transfers \in Seq(Transfer)
  /\ Len(transfers) <= MaxTransfers
  /\ request \in [Slot -> Request]
  /\ jobs \subseteq Job
  /\ files \subseteq Node
  /\ suspendedOn \subseteq Node
  /\ down \subseteq Node

-----------------------------------------------------------------------------
(* The model's accessors. *)

isInstalled(status) == status \notin {"installing", "install_failed"}

\* The transfers whose `successful` is NULL.
PendingRows == {i \in DOMAIN transfers : transfers[i].successful = "pending"}

\* Row i is what the `transfer` relation returns: the latest pending row.
IsTransfer(i) == i \in PendingRows /\ \A j \in PendingRows : j <= i

\* (The maintenance mode of the node, which refuses more, is left out.)
isInConflictState ==
  \/ server.status \in {"suspended", "restoring_backup"}
  \/ ~isInstalled(server.status)
  \/ PendingRows # {}

validateTransferState ==
  /\ isInstalled(server.status)
  /\ server.status # "restoring_backup"
  /\ PendingRows = {}

\* The value of a column after a save of a model that was loaded with `loaded`
\* and then given `new`: an attribute that is not dirty is not written.
Saved(current, loaded, new) == IF new = loaded THEN current ELSE new

\* Mutant: a server that was installed gets a status the enumeration lacks.
ReportedInstalled(status, successful, reinstall) ==
  IF status = "suspended" THEN "suspended"
  ELSE IF successful THEN "installed"
  ELSE IF reinstall THEN "reinstall_failed" ELSE "install_failed"

\* Mutant: a report does not look whether the server is suspended.
ReportedRegardless(status, successful, reinstall) ==
  IF successful THEN "normal"
  ELSE IF reinstall THEN "reinstall_failed" ELSE "install_failed"

\* The status an install report gives a server that was loaded with `status`.
ReportedStatus(status, successful, reinstall) ==
  IF status = "suspended" THEN "suspended"
  ELSE IF successful THEN "normal"
  ELSE IF reinstall THEN "reinstall_failed" ELSE "install_failed"

-----------------------------------------------------------------------------
(* Daemon calls. *)

Answer(n) == IF n \in down THEN {"unreachable"} ELSE Answers

\* The answer about a server: 404 when the daemon does not hold it.
Reply(n) == IF n \notin files /\ n \notin down THEN {"refused"} ELSE Answer(n)

Threw(answer) == answer \in {"unreachable", "lost"}      \* ConnectionException
Processed(answer) == answer \in {"accepted", "lost"}

\* What the daemon of n knows after it has read the server from the panel.
ReadBy(n, status) ==
  IF status = "suspended" THEN suspendedOn \cup {n} ELSE suspendedOn \ {n}

InstallJob(kind, n) == [kind |-> kind, at |-> n, to |-> n]
TransferJob(from, to) == [kind |-> "transfer", at |-> from, to |-> to]

\* The jobs that survive the removal of the server from the daemon of n.
JobsWithout(n) == {j \in jobs : j.at # n}

-----------------------------------------------------------------------------
(* Requests. *)

Idle == [step |-> "idle", status |-> "normal", node |-> Home, transfer |-> 0,
         old |-> Home, new |-> Home, save |-> "normal", force |-> FALSE]

\* What a request has loaded, as far as it will use it: the node of the server,
\* also its status, and a transfer.
LoadedNode(step) == [Idle EXCEPT !.step = step, !.node = server.node]

Loaded(step) == [LoadedNode(step) EXCEPT !.status = server.status]

LoadedTransfer(step, i) ==
  [LoadedNode(step) EXCEPT !.transfer = i, !.old = transfers[i].old,
                           !.new = transfers[i].new]

Begin(r, loaded) ==
  /\ exists
  /\ request[r] = Idle
  /\ request' = [request EXCEPT ![r] = loaded]

At(r, step) == request[r].step = step
Goto(r, step) == request' = [request EXCEPT ![r].step = step]
End(r) == request' = [request EXCEPT ![r] = Idle]

\* UPDATE servers SET status: nothing happens when the row is gone.
SaveStatus(r) ==
  server' = IF exists
            THEN [server EXCEPT !.status =
                    Saved(@, request[r].status, request[r].save)]
            ELSE server

-----------------------------------------------------------------------------
(* SuspensionService::handle *)

BeginSuspend(r) ==
  /\ server.status # "suspended"
  /\ PendingRows = {}
  /\ Begin(r, [Loaded("suspension") EXCEPT !.save = "suspended"])
  /\ UNCHANGED <<rows, daemons>>

BeginUnsuspend(r) ==
  /\ server.status = "suspended"
  /\ PendingRows = {}
  /\ Begin(r, [Loaded("suspension") EXCEPT !.save = "normal"])
  /\ UNCHANGED <<rows, daemons>>

CommitSuspension(r) ==
  /\ At(r, "suspension")
  /\ SaveStatus(r)
  /\ request' = [request EXCEPT ![r] =
                   [Idle EXCEPT !.step = "sync", !.node = request[r].node]]
  /\ UNCHANGED <<exists, transfers, daemons>>

\* The daemon reads the server back from the panel.
Sync(r) ==
  /\ At(r, "sync")
  /\ \E answer \in Reply(request[r].node) :
       suspendedOn' = IF Processed(answer)
                      THEN ReadBy(request[r].node, server.status)
                      ELSE suspendedOn
  /\ End(r)
  /\ UNCHANGED <<rows, jobs, files, down>>

-----------------------------------------------------------------------------
(* ReinstallServerService::handle, ToggleInstallService::handle and         *)
(* BackupController::restore.  The first and the last call the daemon inside *)
(* their transaction: an exception undoes the status, an HTTP error does not.*)

BeginReinstall(r) ==
  /\ Cardinality(jobs) < MaxJobs
  /\ Begin(r, [Loaded("reinstall") EXCEPT !.save = "installing"])
  /\ UNCHANGED <<rows, daemons>>

BeginRestore(r) ==
  /\ Cardinality(jobs) < MaxJobs
  /\ ~isInConflictState
  /\ server.status = "normal"
  /\ Begin(r, [Loaded("restore") EXCEPT !.save = "restoring_backup"])
  /\ UNCHANGED <<rows, daemons>>

\* Save the status and have the daemon start `job`, in one transaction.
CommitWithDaemon(r, job) ==
  /\ \E answer \in Reply(request[r].node) :
       /\ IF Threw(answer) THEN server' = server ELSE SaveStatus(r)
       /\ jobs' = IF Processed(answer) THEN jobs \cup {job} ELSE jobs
  /\ End(r)
  /\ UNCHANGED <<exists, transfers, files, suspendedOn, down>>

CommitReinstall(r) ==
  /\ At(r, "reinstall")
  /\ CommitWithDaemon(r, InstallJob("reinstall", request[r].node))

CommitRestore(r) ==
  /\ At(r, "restore")
  /\ CommitWithDaemon(r, InstallJob("restore", request[r].node))

\* The button is disabled on a suspended server; on a server whose install
\* failed it runs BeginReinstall instead.
BeginToggleInstall(r) ==
  /\ server.status \notin {"suspended", "install_failed"}
  /\ Begin(r, [Loaded("toggleInstall") EXCEPT
                 !.save = IF isInstalled(server.status) THEN "installing" ELSE "normal"])
  /\ UNCHANGED <<rows, daemons>>

CommitToggleInstall(r) ==
  /\ At(r, "toggleInstall")
  /\ SaveStatus(r)
  /\ End(r)
  /\ UNCHANGED <<exists, transfers, daemons>>

-----------------------------------------------------------------------------
(* TransferServerService::handle and ServerManagementController::cancelTransfer *)

\* Mutant: a transfer starts without validateTransferState.
BeginTransferUnguarded(r, n) ==
  /\ Cardinality(jobs) < MaxJobs
  /\ Len(transfers) < MaxTransfers
  /\ Begin(r, [LoadedNode("startTransfer") EXCEPT !.new = n, !.transfer = Len(transfers)])
  /\ UNCHANGED <<rows, daemons>>

BeginTransfer(r, n) ==
  /\ Cardinality(jobs) < MaxJobs
  /\ validateTransferState
  /\ Len(transfers) < MaxTransfers
  /\ Begin(r, [LoadedNode("startTransfer") EXCEPT !.new = n, !.transfer = Len(transfers)])
  /\ UNCHANGED <<rows, daemons>>

\* The row is inserted and the old node told in one transaction.  A server that
\* is gone fails the foreign key.
CommitTransfer(r) ==
  LET from == request[r].node
      to == request[r].new
      row == [old |-> from, new |-> to, successful |-> "pending"]
  IN /\ At(r, "startTransfer")
     /\ IF exists /\ Len(transfers) < MaxTransfers
        THEN \E answer \in Reply(from) :
               /\ transfers' = IF Threw(answer) THEN transfers
                               ELSE Append(transfers, row)
               /\ jobs' = IF Processed(answer) THEN jobs \cup {TransferJob(from, to)}
                          ELSE jobs
        ELSE UNCHANGED <<transfers, jobs>>
     /\ End(r)
     /\ UNCHANGED <<exists, server, files, suspendedOn, down>>

BeginCancel(r) ==
  /\ \E i \in PendingRows :
       IsTransfer(i) /\ Begin(r, LoadedTransfer("cancelTransfer", i))
  /\ UNCHANGED <<rows, daemons>>

\* `successful` of row i becomes `value`: the model was loaded with NULL, so the
\* attribute is dirty whatever the row holds by now.
Settle(i, value) ==
  transfers' = IF i \in DOMAIN transfers
               THEN [transfers EXCEPT ![i].successful = value] ELSE transfers

CommitCancel(r) ==
  /\ At(r, "cancelTransfer")
  /\ Settle(request[r].transfer, "yes")
  /\ Goto(r, "cancelCalls")
  /\ UNCHANGED <<exists, server, daemons>>

\* The source is told first; an exception there leaves the destination untold.
CancelCalls(r) ==
  /\ At(r, "cancelCalls")
  /\ \E source \in Reply(request[r].old), destination \in Answer(request[r].new) :
       jobs' = IF \/ Processed(source)
                  \/ ~Threw(source) /\ Processed(destination)
               THEN jobs \ {TransferJob(request[r].old, request[r].new)}
               ELSE jobs
  /\ End(r)
  /\ UNCHANGED <<rows, files, suspendedOn, down>>

-----------------------------------------------------------------------------
(* ServerCreationService::handle after its transaction, and                 *)
(* ServerDeletionService::handle.                                           *)

\* A daemon that cannot be reached has the new server deleted again, by force.
DaemonCreate(r) ==
  LET n == request[r].node
  IN /\ At(r, "create")
     /\ \E answer \in Answer(n) :
          /\ IF Processed(answer)
             THEN /\ files' = files \cup {n}
                  /\ jobs' = jobs \cup {InstallJob("install", n)}
                  /\ suspendedOn' = ReadBy(n, server.status)
             ELSE UNCHANGED <<files, jobs, suspendedOn>>
          /\ IF Threw(answer)
             THEN request' = [request EXCEPT ![r].step = "delete", ![r].force = TRUE]
             ELSE End(r)
     /\ UNCHANGED <<rows, down>>

BeginDelete(r, force) ==
  /\ Begin(r, [LoadedNode("delete") EXCEPT !.force = force])
  /\ UNCHANGED <<rows, daemons>>

\* The daemon of n is told to remove the server.
Remove(n, answer) ==
  /\ files' = IF Processed(answer) THEN files \ {n} ELSE files
  /\ jobs' = IF Processed(answer) THEN JobsWithout(n) ELSE jobs

DaemonDelete(r) ==
  /\ At(r, "delete")
  /\ \E answer \in Reply(request[r].node) :
       /\ Remove(request[r].node, answer)
       /\ IF Threw(answer) /\ ~request[r].force THEN End(r) ELSE Goto(r, "deleteRows")
  /\ UNCHANGED <<rows, suspendedOn, down>>

\* The rows of server_transfers go with the server (ON DELETE CASCADE).
DeleteRows(r) ==
  /\ At(r, "deleteRows")
  /\ exists' = FALSE
  /\ transfers' = <<>>
  /\ End(r)
  /\ UNCHANGED <<server, daemons>>

-----------------------------------------------------------------------------
(* The daemon reports.  A report ends its job unless the daemon missed the  *)
(* answer and will send it again.  The panel does not check that the        *)
(* reporting node is the node of the server.                                *)

Reported(job) == jobs' \in {jobs, jobs \ {job}}

\* ServerInstallController::store
BeginInstalled(r, job, successful) ==
  /\ job.kind \in {"install", "reinstall"}
  /\ Reported(job)
  /\ Begin(r, [Loaded("installed") EXCEPT
                 !.save = ReportedStatus(server.status, successful,
                                         job.kind = "reinstall")])
  /\ UNCHANGED <<rows, files, suspendedOn, down>>

\* Mutant: the status is written by a query, also when it is as it was loaded.
CommitInstalledByQuery(r) ==
  /\ At(r, "installed")
  /\ server' = IF exists
               THEN [server EXCEPT !.status = request[r].save]
               ELSE server
  /\ End(r)
  /\ UNCHANGED <<exists, transfers, daemons>>

\* (installed_at, which nothing reads, is left out.)
CommitInstalled(r) ==
  /\ At(r, "installed")
  /\ SaveStatus(r)
  /\ End(r)
  /\ UNCHANGED <<exists, transfers, daemons>>

\* BackupStatusController::restore: NULL, whether or not it was successful.
BeginRestored(r, job) ==
  /\ job.kind \in {"restore", "restored"}
  /\ jobs' \in {jobs \ {job}, (jobs \ {job}) \cup {[job EXCEPT !.kind = "restored"]}}
  /\ Begin(r, Loaded("restored"))
  /\ UNCHANGED <<rows, files, suspendedOn, down>>

\* firstOrFail finds no backup: 404, and the status stays.
RefuseRestored(job) ==
  /\ job.kind = "orphan"
  /\ Reported(job)
  /\ UNCHANGED <<rows, request, files, suspendedOn, down>>

\* The backup that is being restored is deleted (softly): by a request from before
\* the restoration, or on a page of backups that was opened before it.
DeleteBackup(job) ==
  /\ exists
  /\ job.kind \in {"restore", "restored"}
  /\ jobs' = (jobs \ {job}) \cup {[job EXCEPT !.kind = "orphan"]}
  /\ UNCHANGED <<rows, request, files, suspendedOn, down>>

CommitRestored(r) ==
  /\ At(r, "restored")
  /\ SaveStatus(r)
  /\ End(r)
  /\ UNCHANGED <<exists, transfers, daemons>>

\* Without a pending transfer the report is answered with 409.
BeginTransferReport(r, step) ==
  \/ /\ exists
     /\ request[r] = Idle
     /\ PendingRows = {}
     /\ UNCHANGED request
  \/ \E i \in PendingRows : IsTransfer(i) /\ Begin(r, LoadedTransfer(step, i))

\* ServerTransferController::success: by now the destination holds the server
\* and has read its configuration.
BeginTransferSuccess(r, job) ==
  /\ job.kind = "transfer"
  /\ job.at # job.to
  /\ Reported(job)
  /\ files' = files \cup {job.to}
  /\ suspendedOn' = ReadBy(job.to, server.status)
  /\ BeginTransferReport(r, "transferSuccess")
  /\ UNCHANGED <<rows, down>>

\* Mutant: the handler settles the row it loaded, whatever has become of it.
CommitSuccessOfLoaded(r) ==
  /\ At(r, "transferSuccess")
  /\ server' = [server EXCEPT !.node = Saved(@, request[r].node, request[r].new)]
  /\ Settle(request[r].transfer, "yes")
  /\ Goto(r, "deleteOld")
  /\ UNCHANGED <<exists, daemons>>

\* Mutant: the handler forgets to settle the transfer.
CommitSuccessUnsettled(r) ==
  /\ At(r, "transferSuccess")
  /\ server' = [server EXCEPT !.node = Saved(@, request[r].node, request[r].new)]
  /\ Goto(r, "deleteOld")
  /\ UNCHANGED <<exists, transfers, daemons>>

\* The server moves to the node of the transfer it loaded; the row that becomes
\* successful is the one the relation returns now.  Without one the handler
\* fails and the transaction is undone.
CommitTransferSuccess(r) ==
  /\ At(r, "transferSuccess")
  /\ IF exists /\ PendingRows # {}
     THEN /\ server' = [server EXCEPT !.node = Saved(@, request[r].node, request[r].new)]
          /\ \E i \in PendingRows : IsTransfer(i) /\ Settle(i, "yes")
          /\ Goto(r, "deleteOld")
     ELSE End(r) /\ UNCHANGED <<server, transfers>>
  /\ UNCHANGED <<exists, daemons>>

DeleteOld(r) ==
  /\ At(r, "deleteOld")
  /\ \E answer \in Reply(request[r].old) : Remove(request[r].old, answer)
  /\ End(r)
  /\ UNCHANGED <<rows, suspendedOn, down>>

\* ServerTransferController::failure
BeginTransferFailure(r, job) ==
  /\ job.kind = "transfer"
  /\ Reported(job)
  /\ BeginTransferReport(r, "transferFailure")
  /\ UNCHANGED <<rows, files, suspendedOn, down>>

\* Mutant: a failed transfer is deleted instead of marked.
CommitFailureDeletes(r) ==
  /\ At(r, "transferFailure")
  /\ transfers' = SubSeq(transfers, 1, request[r].transfer - 1)
  /\ End(r)
  /\ UNCHANGED <<exists, server, daemons>>

CommitTransferFailure(r) ==
  /\ At(r, "transferFailure")
  /\ Settle(request[r].transfer, "no")
  /\ End(r)
  /\ UNCHANGED <<exists, server, daemons>>

-----------------------------------------------------------------------------
(* A daemon stops, and starts again: it reads its servers from the panel    *)
(* (ServerDetailsController::list) and has their states reset               *)
(* (ServerDetailsController::resetState, one query).                        *)

Crash(n) ==
  /\ n \in Unstable \ down
  /\ down' = down \cup {n}
  /\ jobs' = {j \in jobs : j.at # n /\ j.to # n}
  /\ UNCHANGED <<rows, request, files, suspendedOn>>

\* Mutant: the reset forgets the servers that restore a backup.
ResetInstalling(n) ==
  IF exists /\ server.node = n /\ server.status = "installing"
  THEN [server EXCEPT !.status = "normal"] ELSE server

ResetStatus(n) ==
  IF exists /\ server.node = n /\ server.status \in {"installing", "restoring_backup"}
  THEN [server EXCEPT !.status = "normal"] ELSE server

\* Mutant: a daemon that starts does not read its servers again.
BootUnread(n) ==
  /\ n \in down
  /\ down' = down \ {n}
  /\ server' = ResetStatus(n)
  /\ UNCHANGED <<exists, transfers, request, jobs, files, suspendedOn>>

Boot(n) ==
  /\ n \in down
  /\ down' = down \ {n}
  /\ suspendedOn' = IF exists /\ server.node = n
                    THEN ReadBy(n, server.status) ELSE suspendedOn
  /\ server' = ResetStatus(n)
  /\ UNCHANGED <<exists, transfers, request, jobs, files>>

-----------------------------------------------------------------------------

\* The row has just been committed and the daemon has not been told.
Init ==
  /\ exists = TRUE
  /\ server = [status |-> "installing", node |-> Home]
  /\ transfers = <<>>
  /\ \E r \in Slot :
       request = [[s \in Slot |-> Idle] EXCEPT
                    ![r] = [Idle EXCEPT !.step = "create", !.status = "installing"]]
  /\ jobs = {}
  /\ files = {}
  /\ suspendedOn = {}
  /\ down = {}

\* An administrator or a user of the server asks.
Panel(r) ==
  \/ BeginSuspend(r)
  \/ BeginUnsuspend(r)
  \/ BeginReinstall(r)
  \/ BeginToggleInstall(r)
  \/ BeginRestore(r)
  \/ \E n \in Node : BeginTransfer(r, n)
  \/ BeginCancel(r)
  \/ \E force \in BOOLEAN : BeginDelete(r, force)

\* A daemon reports.
Callback(r) ==
  \E job \in jobs :
    \/ \E successful \in BOOLEAN : BeginInstalled(r, job, successful)
    \/ BeginRestored(r, job)
    \/ BeginTransferSuccess(r, job)
    \/ BeginTransferFailure(r, job)

\* A request goes on.
Continue(r) ==
  \/ CommitSuspension(r)
  \/ Sync(r)
  \/ CommitReinstall(r)
  \/ CommitToggleInstall(r)
  \/ CommitRestore(r)
  \/ CommitTransfer(r)
  \/ CommitCancel(r)
  \/ CancelCalls(r)
  \/ DaemonCreate(r)
  \/ DaemonDelete(r)
  \/ DeleteRows(r)
  \/ CommitInstalled(r)
  \/ CommitRestored(r)
  \/ CommitTransferSuccess(r)
  \/ DeleteOld(r)
  \/ CommitTransferFailure(r)

Daemon(n) == Crash(n) \/ Boot(n)

\* The backup a daemon restores goes away, or has gone when it reports.
Backup(job) == DeleteBackup(job) \/ RefuseRestored(job)

Next ==
  \/ \E r \in Slot : Panel(r) \/ Callback(r) \/ Continue(r)
  \/ \E job \in jobs : Backup(job)
  \/ \E n \in Node : Daemon(n)

Spec == Init /\ [][Next]_vars

\* A PHP worker goes on with the request it has, a daemon that has stopped is
\* started again, and a daemon repeats a report until a worker takes it.
Fairness ==
  /\ \A r \in Slot : WF_vars(Continue(r))
  /\ \A n \in Node : WF_vars(Boot(n))
  /\ SF_vars(\E r \in Slot, job \in jobs : BeginRestored(r, job))

FairSpec == Spec /\ Fairness

-----------------------------------------------------------------------------
(* Properties. *)

\* A start of a transfer that no other start has overtaken since it looked finds
\* no transfer pending and the server on the node it recorded: of starts that
\* overlap, the first to be recorded is as validateTransferState promises, whatever
\* reports, cancellations and suspensions come between its two steps.
FirstStartRight ==
  [][\A r \in Slot :
       /\ At(r, "startTransfer") /\ request'[r] # request[r]
       /\ Len(transfers') > Len(transfers) /\ Len(transfers) = request[r].transfer
       => PendingRows = {} /\ transfers'[Len(transfers')].old = server.node]_vars

\* No transfer is pending while the daemon of the server restores a backup.
\* ("Update the status right away for the server so that we know not to allow
\* certain actions against it", BackupController.php:233; validateTransferState
\* refuses a server with that status, Server.php:411.)
RestoreExcludesTransfer ==
  exists /\ PendingRows # {} => InstallJob("restore", server.node) \notin jobs

\* The server is on the node it was created on or on one a transfer names: no
\* order of requests makes up another.
NodeOnRecord ==
  exists => \/ server.node = Home
            \/ \E i \in DOMAIN transfers : server.node = transfers[i].new

\* The server changes node in the step in which a transfer becomes successful,
\* and on no other occasion: a move is never half recorded.
MoveSettlesTransfer ==
  [][exists /\ server'.node # server.node =>
       \E i \in PendingRows : /\ i \in DOMAIN transfers'
                             /\ transfers'[i].successful = "yes"]_vars

\* A restoration ends, "even if the restoration failed": once the daemon of the
\* server has it, or is down, with its report, with the reset the daemon asks for
\* when it starts again, or otherwise; except that the backup is deleted meanwhile,
\* and the report refused.
RestoreEnds ==
  /\ exists /\ server.status = "restoring_backup"
  /\ server.node \in down \/ \E kind \in {"restore", "restored"} :
                               InstallJob(kind, server.node) \in jobs
  ~> \/ ~exists \/ server.status # "restoring_backup"
     \/ InstallJob("orphan", server.node) \in jobs

\* A suspension reaches the daemon of the server, also when that daemon was
\* down at the time.
SuspensionReachesDaemon ==
  exists /\ server.status = "suspended"
    ~> \/ ~exists \/ server.status # "suspended"
       \/ server.node \in suspendedOn

\* A server becomes suspended by a request to suspend it.  An install report
\* that found it suspended does not suspend it again when that has been lifted
\* since, because what it saves is not dirty.
OnlySuspendSuspends ==
  [][exists /\ server'.status = "suspended" /\ server.status # "suspended" =>
       \E r \in Slot : request[r].step = "suspension"]_vars

\* A suspension is lifted by a request that means to, by a reinstallation, by the
\* report of a restoration, or by a request that loaded the server before it was
\* suspended: no report of an installation lifts one it has seen, and neither
\* does the reset a daemon asks for.  (ServerInstallController::store,
\* ServerDetailsController::resetState.)
SuspensionLasts ==
  [][exists /\ server.status = "suspended" /\ server'.status # "suspended" =>
       \E r \in Slot :
         \/ request[r].step \in {"suspension", "reinstall", "restored"}
         \/ /\ request[r].step \in {"installed", "toggleInstall", "restore"}
            /\ request[r].status # "suspended"]_vars

\* While a request starts a transfer no other one does, and no success is being
\* reported.  Nothing in the code keeps them apart, and the ledger depends on it.
Apart ==
  \A q, r \in Slot :
    q # r /\ At(q, "startTransfer") =>
      request[r].step \notin {"startTransfer", "transferSuccess"}

\* Where the pending transfer takes the server.
destination == {transfers[i].new : i \in PendingRows}

Ledger == INSTANCE TransferLedger WITH
  gone <- ~exists, node <- server.node, destination <- destination

\* Transfers that run one after the other move the server as the ledger says.
ImplementsLedger == Ledger!Spec
=============================================================================
