# Pelican Panel in TLA+

Pelican Panel administers game servers: a PHP (Laravel) application with a
database, a queue and a cron scheduler, and on every *node* a daemon ("wings")
that runs the servers of that node. This directory holds TLA+ models of the
panel's own logic, TLC configurations that check them on small instances, and
proofs that TLAPS checks. All paths below are relative to `src/`.

| module | what it is | proofs |
|---|---|---|
| `ServerLifecycle` | one server: status, node, transfers, the daemons' copies and jobs | `ServerLifecycleProofs`, `ServerTransferProofs` |
| `TransferLedger` | abstract: where the panel promises a server to be | |
| `Backups` | the backups of one server: rows, archives, daemon jobs | `BackupsProofs`, `BackupLimitsProofs` |
| `BackupLife` | abstract: the life of a backup as a user sees it | |
| `Schedules` | one schedule: its row, its tasks, the queue of jobs, the processes | `SchedulesProofs` |
| `ScheduleRun` | abstract: what a schedule promises of its runs | |
| `Allocations` | the ports of all servers, and which of them is primary | `AllocationsProofs` |
| `Databases` | the databases of a server, in the panel and on their host | `DatabasesProofs` |
| `Subusers` | permissions on one server, and the tokens its daemon accepts | `SubusersProofs` |
| `MC…` | the model with symmetry sets and constants, for TLC | |

## 1. Inventory

### How the parts interact

* **Requests.** A PHP worker handles one HTTP request (or queued job, or cron
  run) from beginning to end; there are several workers. A request loads its
  models once, at route binding, decides on that snapshot, and writes only
  attributes that differ from it. Rows are locked only by what a transaction has
  written, until it ends. Two requests therefore interleave at every database
  statement and every call of the daemon.
* **Calls to a daemon.** HTTP, synchronous, often inside an open transaction.
  The macro `Http::daemon` (`app/Providers/AppServiceProvider.php:87`) does not
  turn an HTTP error into an exception: only a lost connection or a timeout
  raises `ConnectionException`. A timeout leaves open whether the daemon did it.
* **Reports of a daemon.** `routes/api-remote.php`: installation, backup and
  transfer results, state reset and configuration at start. A daemon repeats a
  report whose answer it missed; most reports name only the server.
* **Queue and scheduler.** Tasks of schedules run as a chain of queued jobs;
  `app/Console/Kernel.php` runs the due schedules every minute and prunes
  orphaned backups every 30 minutes.
* **Database hosts and S3** are further services with their own failures.

### Components

| component | state | operations | hard behaviour | what makes it correct |
|---|---|---|---|---|
| Server lifecycle | `servers.status`, `node_id`; `server_transfers`; per daemon: copy of the server, jobs, last configuration | create, install, reinstall, toggle, suspend, restore, transfer, cancel, delete, reports, reset | stale snapshots, lost calls, repeated and late reports, daemons that restart | the first of overlapping transfers starts from where the server is; the node changes only with a successful transfer; a suspension is entered and left by the operation that means it, and reaches the daemon; restorations end |
| Backups | `backups` rows, archives on the node or in S3, daemon jobs | create (with rotation), delete, lock, upload, report, prune | limits checked before a transaction, reports after pruning or deletion, S3 calls inside a transaction | the throttle holds; locked backups survive; "successful" means there is an archive; every backup settles |
| Allocations | `allocations.server_id`, `servers.allocation_id` | store, set primary, delete, change the build, create, transfer and delete a server | read-then-write; two columns nothing ties together; ids recorded by a transfer and used at its end | the primary one belongs to its server; none is left on a node the server is not on |
| Creation and deployment | the rows of a new server, memory/disk/CPU sums of nodes | create, find node, find ports | allocations assigned unasked; compensation when the daemon is down | a failed creation leaves nothing; what it takes was free |
| Schedules | `is_processing`, `is_queued`, queued jobs | run due, run by hand, run a task, fail, switch, edit tasks | workers that stop, retries, overlapping runs, tasks edited on the way | tasks in order; no second chain; a schedule does not stay "processing" |
| Databases | rows; users and schemas on the host | create, delete, rotate password | no transaction spans the host; statements fail one by one | the password shown works; nothing is left on the host unknown to the panel, or it was left by a request that failed; the limit is exceeded by overlapping requests only, or on purpose |
| Subusers | owner, rows, permissions; tokens the daemon accepts | add, update, remove, change the owner (API, form), ask for a token | changes overlap on what they loaded; revocation is best effort and comes before the commit | a token grants what its holder may do; access ends |
| Request authentication | none | middleware | — | stateless decision on one request |
| Nodes, eggs, users and keys, activity log, webhooks, admin forms, requests and transformers, console set-up | see `PROJECT.json` | | | |

`PROJECT.json` lists every component with its sources and status, and every
hazard at its line with the properties that watch it, or the reason why none does.

### How the models fit together

The components share few columns, and each model owns the ones it writes.
`servers.status` and `servers.node_id` belong to `ServerLifecycle`. `Schedules`
sees the status as `busy`, which changes at any time; `Backups` does not see it.
`Allocations` has the transfers of `ServerLifecycle` once more, from the side of
the allocations they reserve and release: there a report is one step, because
how reports overlap is checked in `ServerLifecycle` (`MoveSettlesTransfer`), and
all servers are present, because the ids a transfer recorded may have another
owner at its end. The three abstract modules state what a reader of the API sees
of a component; the detailed ones are shown to implement them.

## 2. Plan and order

1. `ServerLifecycle`, `TransferLedger`: the heart of the panel, where stale
   snapshots, daemon failures and late reports meet.
2. `Backups`, `BackupLife`.
3. `Schedules`, `ScheduleRun`: the chain of jobs, overlapping and interrupted runs.
4. `Allocations`: ownership by concurrent requests, and the allocations of
   transfers, which are the composition of both.
5. `Databases`: a step per statement on the host, with failures between them.
6. `Subusers`: overlapping changes against tokens the daemon holds.

Runs are few: one per module that checks its invariants and the refinement where
there is one, one with overlapping requests for what survives them, one with
fairness, and two in which TLC shows that what a comment of the code says does
not hold. Theorems: every invariant, every action property and every refinement
the passing runs check, for any number of requests, without conditions where the
property has them not. What is left to TLC is liveness.

A model of node capacity and deployment was planned and dropped:
`Node::isViable` compares sums, the choice of node and ports changes nothing, and
what can go wrong (two requests both see the last free space) is plain.

## 3. ServerLifecycle

**State.** `exists`, `server` (status and node) and
`transfers` are the rows; a `successful` column of `NULL`, true or false is
`"pending"`, `"yes"`, `"no"`. `request[r]` is what worker `r` is doing: its next
step, and the part of its snapshot it will still use. `files`, `jobs`,
`suspendedOn` and `down` are the daemons: who holds the server, what work was
accepted and not finished, who last read it as suspended, who is not running.

**Actions.** A handler is cut where other requests can see a difference. `Begin…`
is route binding with the guards and early returns; `Commit…` is the database
write, together with the daemon call when the code makes it inside the
transaction; a call after the commit is a step of its own (`Sync`,
`CancelCalls`, `DeleteOld`, `DaemonDelete`). `Saved(current, loaded, new)` is
Eloquent's rule that an attribute equal to its loaded value is not written,
which decides several races.

| action | code |
|---|---|
| `BeginSuspend`, `BeginUnsuspend`, `CommitSuspension`, `Sync` | `SuspensionService::handle` |
| `BeginReinstall`, `CommitReinstall` | `ReinstallServerService::handle` |
| `BeginToggleInstall`, `CommitToggleInstall` | `ToggleInstallService::handle`, the admin form |
| `BeginRestore`, `CommitRestore` | `BackupController::restore` |
| `BeginTransfer`, `CommitTransfer` | `TransferServerService::handle` |
| `BeginCancel`, `CommitCancel`, `CancelCalls` | `ServerManagementController::cancelTransfer` |
| `DaemonCreate` | `ServerCreationService::handle` after its transaction |
| `BeginDelete`, `DaemonDelete`, `DeleteRows` | `ServerDeletionService::handle` |
| `BeginInstalled`, `CommitInstalled` | `ServerInstallController::store` |
| `BeginRestored`, `CommitRestored`, `RefuseRestored` | `BackupStatusController::restore`; a 404 when the row of the backup is gone |
| `DeleteBackup` | the row of the backup that is being restored is deleted (its job is an "orphan" from then on) |
| `BeginTransferSuccess`, `CommitTransferSuccess`, `DeleteOld` | `ServerTransferController::success` |
| `BeginTransferFailure`, `CommitTransferFailure` | `ServerTransferController::failure` |
| `Crash`, `Boot` | a daemon; `ServerDetailsController::list`, `resetState` |

The model begins when `ServerCreationService` has committed the rows and has not
yet called the daemon.

**External behaviour assumed.** A daemon answers 404 about a server it does not
hold; it accepts a job or refuses it; a job ends with a report, which is
repeated until answered; a daemon that stops has lost its jobs.

**Not modelled.** The maintenance mode of nodes (it refuses more), power actions
and commands (nothing the panel keeps), the allocations of a transfer (in
`Allocations`), the databases a deletion drops, the choice of the destination node.

## 4. Backups

**State.** `backups[b]` is row `b`: "unused", "open" while the transaction that
inserted it waits for the daemon, "undone" when that failed, "live", or
"trashed" (soft-deleted). Ids are given in order of creation, so `b <= c` is the
order of `created_at`; backups up to `aged` are older than the throttle period.
`archives` are the backups that could be downloaded. `jobs` are the daemon's:
making, uploading, or finished with a report due. `default` is the adapter
configured at the moment (`wings` or `s3`).

| action | code |
|---|---|
| `BeginCreate`, `BeginRotate`, `CreateAndCall`, `CommitCreate` | `InitiateBackupService::handle`; the row is open across the call of the daemon, whose report may therefore find no row |
| `BeginDelete`, `RemoveArchive`, `DeleteRow` | `DeleteBackupService::handle`, `deleteFromS3` |
| `BeginToggleLock`, `CommitToggleLock` | `BackupController::toggleLock` |
| `BeginUpload`, `CommitUpload`, `RefuseUpload` | `BackupRemoteUploadController` |
| `BeginReport`, `CommitReport`, `RefuseReport` | `BackupStatusController::index`, `completeMultipartUpload` |
| `Prune` | `PruneOrphanedBackupsCommand` (one query) |
| `Finish`, `Restart`, `Age`, `SwitchAdapter` | the daemon, time, the administrator |

`CreateNone` ends a request when the bound on backups is reached. Download links
and the request to restore change none of this; what a restoration does to the
server is in `ServerLifecycle`.

Two rotations at the same time find the same oldest backup. The second deletes a
row that is deleted already and creates a backup all the same: in this way
overlapping rotations exceed the limit by as many as there are requests, again
and again (`InitiateBackupService.php:104`).

**`BackupLife`** is what a user sees: the status of every backup, and `place`,
which is true between the deletion that a rotation made and the backup it was made
for. A backup begins when there is room or in such a place, so that backups that
come back after they were pruned may exceed the limit, but no rotation adds to
that. In the refinement `place` is the `rotate` of a request that creates.

**Assumed.** The daemon's archive exists before it reports success, and an
archive in S3 only once the panel has completed its upload. The age
`PruneOrphanedBackupsCommand` looks for (6 hours) is not less than the throttle
period (10 minutes), as configured by default: `Prune(k)` has the guard
`k <= aged`.

## 5. Schedules

**State.** `schedule` is its row (active, processing). `tasks[t]` is the row of
task `t`: its place in the sequence (0: there is no row) and its `is_queued`
mark. `waiting` is the queue, a bag of jobs; a job is the id of a task, whether
the run was started by hand, and the attempts so far. `run[p]` is what a process
does, with the part of the loaded rows it will still use. `last` is the task last
attempted and `lost` says that a job was dropped without `RunTaskJob::failed`.

| action | code |
|---|---|
| `BeginCron`, `BeginManual`, `CommitStart` | `ProcessRunnableCommand`, `ScheduleController::execute`, `ProcessScheduleService::handle` with its transaction |
| `RefuseOffline`, `DispatchFirst`, `RunNow` | the rest of `ProcessScheduleService::handle` |
| `Take` | the queue worker: counts attempts, fails a job taken too often, drops one whose task is gone (`deleteWhenMissingModels`) |
| `Refuse`, `Act`, `Throw` | `RunTaskJob::handle` up to the action of the task and its exceptions |
| `Advance`, `Dispatch`, `Done` | `markTaskNotQueued`, `queueNextTask`; the removal of the job |
| `Fail` | `RunTaskJob::failed` |
| `Stop` | a worker process ends; its job is handed out again after `retry_after` |
| `AddTask`, `MoveTask`, `DeleteTask` | `ScheduleTaskController` |
| `Toggle` | `ScheduleController::update`, which resets `is_processing` |
| `ServerStatus` | the server becomes busy or free |

**External behaviour assumed.** The queue delivers at least once. When a schedule
is due and how long a job waits is arbitrary.

**Not modelled.** The cron expression, the deletion of the schedule, and a cron
or web process that dies between the commit and the dispatch: it leaves the
schedule marked as processing for good (see section 11).

## 6. Allocations

**State.** `owner[a]` is `allocations.server_id`; `server[s]` has the node and the
primary allocation; `transfer[s]` is the pending transfer with the ids it
recorded. `left[s]` are allocations that a cancelled transfer left with the
server. `request[r]` is a request with the server as it was loaded and what it
decided; it commits in a later step or ends in an error (`Refuse`).

| action | code |
|---|---|
| `BeginCreate`, `CommitCreate`, `CreateOnDaemon` | `StoreServerRequest`, `ServerCreationService::handle` with its compensation |
| `BeginStore`, `CommitStore` | `NetworkAllocationController::store`, `FindAssignableAllocationService` |
| `BeginDelete`, `CommitDelete` | `NetworkAllocationController::delete` |
| `BeginPrimary`, `CommitPrimary` | `NetworkAllocationController::setPrimary` |
| `BeginBuild`, `CommitBuild` | `BuildModificationService::handle`, `processAllocations` |
| `BeginTransfer`, `CommitTransfer` | `TransferServerService::handle`, `assignAllocationsToServer` |
| `Succeed`, `Fail` | `ServerTransferController::success`, `failure` |
| `Cancel` | `ServerManagementController::cancelTransfer` |
| `DeleteServer` | `ServerDeletionService::handle`; the foreign key empties `server_id` |

The unique index of `servers.allocation_id` is `IsPrimaryOf`. `Forms` restricts
transfers and creations to what the panel's forms offer (free allocations of the
chosen node); `AnyTime` lets administrators change the build during a transfer,
as the application API does. The application API holds requests to neither, and
the pages of the panel on which administrators assign, release and choose
allocations (`AllocationsRelationManager`) not to the second: what holds only
under these conditions is said with each theorem, and what fails without them in
§11.

## 7. Databases

**State.** `rows[d]` is the committed password of database `d`; `schemas` and
`users` are what is on the host. `request[s]` is a request: which statements it
still has to send, and whether it holds the lock of its row (or of the key it has
inserted). A user name is made up for each database and never used again
(`spent`), therefore it stands for the row; schema names can repeat. `doubt[d]`
is not part of the code: it notes what a request that failed half way has left
unsettled, and a later one that succeeds clears it.

`waived` notes what was created with the check of the limit off, as the form of
the administrators does (`DatabaseManagementService::setValidateDatabaseLimit`,
`EditServer.php:757`); `NoLimit` is a limit of null.

| action | code |
|---|---|
| `Validate`, `BeginCreate`, `Insert` | `DatabaseManagementService::create` up to the first statement, `createModel` |
| `BeginRotate`, `Update` | `DatabasePasswordService::handle` up to the first statement |
| `BeginDelete` | `DatabaseManagementService::delete` |
| `Execute` | one statement: create or drop the schema, create or drop the user, grant |
| `Refused`, `Unanswered`, `Die` | the statement fails; took effect but the connection broke; the process ends |
| `Commit` | the end of the transaction |
| `DeleteRow` | the page of a database host (`DatabasesRelationManager`), which deletes the row without the service |

**Not modelled.** Changes of the limit, the choice of a host, `max_connections`,
`FLUSH PRIVILEGES`, and the loop over the databases when their server is deleted.

## 8. Subusers

**State.** `owner` is `owner_id`; `rows` are the rows of subusers, by their id,
because a user can get two of them. `request[c]` is a request: what it loaded,
whether its transaction has written (`open`) and so holds the lock of a row, and
whose tokens it has still to have denied (`revoke`). `asked[u]` is a request for a
token that has read the permissions and not issued it yet; `tokens` are the valid
ones. Requests overlap in any way the locks of MySQL allow: two changes of one row
wait for each other, and so do two changes of the owner; a row that is inserted
refers to the row of the server and waits while the owner is being changed.
Nothing else waits, and nothing is read again after a wait.

`excused` is not part of the code. A row is excused when it was inserted although
its user had become the owner, or had a row already, or when the hook that was to
delete it failed. A token is excused when the panel did not have it denied: the
call was lost, the token was issued on a reading that a change overtook, or its
user stopped being the owner by a request that does not revoke *his* tokens.

| action | code |
|---|---|
| `BeginCreate`, `CheckCreate`, `Insert` | `SubuserCreationService::handle`: the comparison with the owner that was loaded, the count of rows, the insertion |
| `BeginUpdate`, `BeginDelete`, `CommitRow` | `SubuserUpdateService`, `SubuserDeletionService` |
| `BeginSave` | a request loads the server it is going to save |
| `Details`, `CommitDetails` | `DetailsModificationService::handle`, with the `saved` hook of `Server` inside its transaction |
| `SaveForm` | `EditServer` (`owner_id`, line 114) and whatever else saves a server: no transaction, the hook comes after, nobody revokes the tokens of the owner who was replaced |
| `Revoke`, `Rollback` | a call of the daemon inside a transaction; any exception |
| `Ask`, `Issue` | `WebsocketController` |
| `Expire` | ten minutes, or a daemon that starts again |

`SaveForm` disagrees with the comment of `DetailsModificationService.php:45-47`,
by which a former owner loses his websocket access: `TokensCurrent` excuses his
tokens, and what limits them is `AccessEnds`.

## 9. What the runs check

| run | at once | what it shows |
|---|---|---|
| `lifecycle_concurrent` | 2 | on every interleaving of stale snapshots, with nothing kept apart and two transfers: `TypeOK`; `NodeOnRecord`; `FirstStartRight`: a start that no other has overtaken finds no transfer pending and records the node the server is on; `MoveSettlesTransfer`; `OnlySuspendSuspends`; `SuspensionLasts` |
| `lifecycle_apart` | 2 | `ImplementsLedger`: node and destination of the server follow `TransferLedger` although reports and cancellations race on two transfers, but for what `Apart` keeps from the start of a transfer: another start, and a success report |
| `lifecycle_live` | 1 | with daemons that stop at any time: `ImplementsLedger` again; `RestoreEnds`: a restoration ends, unless its backup is deleted; `SuspensionReachesDaemon` |
| `lifecycle_restore` | 1 | a *violation*: `RestoreExcludesTransfer`. The status that is to keep a transfer away from a restoration (`BackupController.php:234`) is replaced while the daemon restores |
| `backups_limit` | 1 | a *violation*: `WithinLimit`. A pruned backup is not counted (`InitiateBackupService.php:93`), and counts again when it succeeds late |
| `backups_s3` | 2 | `SuccessHasArchive`: the row is saved before the upload is completed, and only the roll-back keeps them together |
| `backups_life` | 1 | `TypeOK`; `WithinThrottle`; `LockedSurvives`; `ImplementsLife`: refused and lost calls, restarts, pruning and changed adapters leave every backup with a life that `BackupLife` allows; `BackupSettles`, under fairness: a backup nobody reports is given up. Two backups; that a rotation does not add to backups that came back takes three, which is proved for any number (`BackupsImplementLife`) |
| `schedules_run` | cron, 2 workers | `TypeOK`; `OneChain`, `MarkedWhileJob`, `NothingLeftMarked`, and `ImplementsRun`: three tasks, three attempts, every outcome of an action, workers that stop before and after it |
| `schedules_live` | cron, web, 1 worker | `JobWhileMarked` and `ScheduleCompletes`, with runs by hand, the schedule switched off and on, tasks edited, and workers that stop anywhere: what is marked has a job, and the job ends |
| `allocations_serial` | 1 | `TypeOK`, `PrimaryOwned`, `OnNode`: two servers, two nodes, three allocations, transfers that succeed, fail and are cancelled |
| `databases_host` | 2 | `TypeOK`, `CredentialsWork`, `NothingLeftOnHost`, `LimitExceededByOthersOnly`: every statement done, refused or unanswered, two databases of the same name, creations with the check of the limit on and off |
| `subusers_tokens` | 2, any token requests | `TypeOK`, `OwnerIsNoSubuser`, `TokensCurrent`, `AccessEnds`: overlapping changes, duplicate rows, revocations that get lost, tokens issued in between |

Each property of a passing run has a mutant in `PROJECT.json`: a plausible bug in one definition
that makes TLC refute the property under the same configuration.

**Bounds.** `MaxTransfers`, `MaxBackups`, `MaxEdits` bound rows and edits; `MaxJobs`
bounds the work a daemon or queue has at the time more is asked for. Two nodes
make every transfer, back and forth; two transfers let a report meet the wrong
one; two backups exceed a limit and a throttle of one, and let one be deleted and
counted still. Two requests suffice for a race of a reader with a
writer; statuses and outcomes are not reduced. `lifecycle_concurrent` leaves out
refusals and restarts, whose effect on the panel's rows (nothing happens, or a
reset that `lifecycle_live` covers) the proofs take into account for any number
of workers. Three tasks have a first, a next and a last one, and one of them
(`Continues`) goes on when its action fails; two tasks and one edit let the task
of a waiting job be deleted, moved or followed by a new one. Three allocations on
two nodes let a server have an additional one, or reserve one; requests name at
most one allocation in each list. Three databases, two of one name and a limit of
one, reach the limit by concurrent requests, and reuse a name. Two users,
the permission to connect and another one, two rows and two requests at the same
time give every kind of change and every race of two; `MaxTokens` bounds the
tokens that are asked for or valid at once, and one of them is enough to outlive
a change. In `databases_host`, `View` takes for the same two states that
differ only in what no step can see any more: the password of a user that neither a
row nor a request has, a doubt about such a user that is not there, and whether the
limit was waived for it. In `lifecycle_concurrent` and `lifecycle_apart`, `View`
leaves out `suspendedOn`, what the daemons have read of the suspension: no step
depends on it, and of the properties, apart from its type, only
`SuspensionReachesDaemon`, which `lifecycle_live` checks on the whole state.

`CHECK_DEADLOCK FALSE` stands in the runs whose instance comes to an end: the server
may be deleted (`lifecycle_concurrent`, `lifecycle_apart`, `lifecycle_restore`),
every server created and removed (`allocations_serial`), the user names spent
(`databases_host`). `lifecycle_apart` has `Apart` as a `CONSTRAINT`: nothing is
explored beyond a state in which the start of a transfer overlaps with another
one or with a success report. Nothing in the code keeps these apart, and the
run, like the theorem on that condition, says nothing of them: `ImplementsLedger`
fails there (§11), and what holds there is in `lifecycle_concurrent`.

**Fairness.** `Continue(r)` is weakly fair: a PHP worker goes on with its request
(every call has a timeout). `Boot(n)` is weakly fair: the daemon is a service
that is restarted. The report of a restoration is strongly fair, because the
daemon repeats it and it needs a free worker, and workers become free again and
again. In `Backups`, time passes (`Age`) and the cron command runs (`Prune`). In
`Schedules` processes go on with what they began (`Continue`, `DispatchFirst`,
`RunNow`) and queue workers take jobs (`TakeAny`); a worker may stop, but the
queue counts attempts, so a job is not retried for ever. In `Subusers` a
token that was asked for is issued, and every token expires; changes may stop
anywhere. Nothing else is fair: no user has to ask for
anything, cron need not start a run, no transfer or backup has to finish.
`RestoreEnds` needs `Answers = {"accepted"}`: a daemon that *refuses* a
restoration leaves the server in `restoring_backup`, because the HTTP error
raises no exception; and `SuspensionReachesDaemon` needs it because a call lost
while the daemon is up is never repeated.

## 10. What is proved

Every theorem below is about all values of the constants that satisfy the
assumptions their module names: any nodes, any number of requests at the same
time, any bounds and any outcomes, but for the conditions stated with it.

**`ServerLifecycleProofs`.**

* `TypeCorrect`: `Spec => []TypeOK`. `TypeOK` is inductive; the lemmas
  `BeginType`, `EndType`, `GotoType`, `SaveStatusType`, `SettleType` give what
  the operators the actions are built from preserve, and `PanelType`,
  `CallbackType`, `ContinueType`, `DaemonType` go through the actions.
* `MoveIsRecorded`: `Spec => MoveSettlesTransfer`. Only `CommitTransferSuccess`
  changes the node (`NodeChange`), and in the same step it settles a pending row.
* `NothingElseSuspends`: `Spec => OnlySuspendSuspends`. The invariant needed is
  `SavesHaveCause`: a request holds `"suspended"` as the status to save only when
  it is a suspension or had loaded `"suspended"`, in which case the attribute is
  not dirty and is not written.
* `SuspensionsLast`: `Spec => SuspensionLasts`. The counterpart,
  `SuspensionsKept`: a request that found the server suspended and does not mean
  to change that saves `"suspended"`.
* `NodeIsOnRecord`: `Spec => []NodeOnRecord`. Not inductive alone: a success that
  is on its way must name the destination of a recorded transfer
  (`SuccessOnRecord`). `RecordInv` is the conjunction; `RowsStay` shows that rows
  of transfers are only ever added or settled while the server exists, and
  `DeletedForGood` that it does not come back.

**`ServerTransferProofs`**, for any number of requests at the same time, any answers
of the daemons and any restarts.

* `FirstStartIsRight`: `Spec => FirstStartRight`, without conditions. Requests that
  start a transfer check and insert in different steps. The one that inserts first
  finds nothing pending, because until it does no step makes a transfer pending or
  moves the server: a move needs a pending transfer. The property says nothing of a
  start that another has overtaken; it inserts a second pending transfer (§11).
* `TransfersImplementLedger`, the refinement of `TransferLedger`, as long as the
  start of a transfer overlaps neither with another start nor with a success report
  (`[]Apart`; all other requests may overlap with it and with each other). Nothing
  in the code guarantees that, and without either part TLC refutes
  `ImplementsLedger` on the instance of `lifecycle_apart` (§11). `TransfersInv` adds
  what each request relies on (`Fits`): a transfer about to be inserted finds none
  pending, and the node it loaded; a success finds its transfer pending, or none,
  never another one. Every step but the start of a transfer only takes away from
  what is pending (`Shrinks`), which leaves the other requests with what they rely
  on (`OthersFit`); the start adds a row, and `Apart` says that nobody is there who
  relied on its absence (`TransferStep`). From `TransfersInv` every step is one of
  the ledger or leaves it alone (`LedgerStep`).

**`BackupsProofs`.**

* `TypeCorrect`. `TypeOK` is not inductive: a report completes the archive of the
  backup its request names, so a request that works on a backup must name one
  (`TypeInv`).
* `LockedBackupsSurvive` (`LockedSurvives`), for any number of requests at the same
  time, as long as the removal of a backup does not overlap with the request that
  locks it or reports its success (`[]LocksApart`). What a deletion in flight was
  allowed to remove it still is (`LockedInv`), because only those two make a backup
  one that must stay. It rests on `RowStep`, which lists what a step can do to a row
  (`RowChange`), on `RequestStep`, which does so for a request, and on `RowsInv`:
  what a request loaded has been committed, and what it is to commit is its own.
* `SuccessAlwaysHasArchive` (`SuccessHasArchive`), for any number of requests, if
  all backups are in S3 and no answer is lost (`OnlyS3`): a deletion whose answer
  S3 loses has removed the archive and keeps the row. `ArchiveInv` adds to the
  property that rows are successful only when they are committed and completed
  (`Stored`), that a request works on a committed row, with the S3 adapter
  (`Fits`), and that two requests never commit the same row (`OwnCommits`).

**`BackupLimitsProofs`**, for any number of requests at the same time:

* `ThrottleKept` (`WithinThrottle`), as long as no two creations overlap
  (`[]OneCreation`): the rows are counted before the transaction that inserts one,
  and nothing keeps creations apart. What the throttle counts grows only when a
  request commits a backup (`RecentGrows`). A pruned backup is older than the
  throttle period, which is why the throttle needs no condition on pruning. `RoomInv`
  says that what a request counted still holds when it commits (`HasRoom`). Of the
  limit there is no theorem: `backups_limit` shows that it does not hold.
* `BackupsImplementLife`, the refinement of `BackupLife`, as long as no two creations
  overlap, no pruned backup comes back while one is created, and the backup that
  gives way is not deleted by another request (`[]LivesApart`). `LivesInv` says that
  there is room for the backup a request creates, unless it has one that gives way
  and is still there. Every step is then one of `BackupLife` or leaves it alone
  (`BeginLife`, `ContinueLife`, `PruneLife`): a row deleted twice, a report after the
  deletion and a second report of the same success are the steps that do.
No weaker condition will do: without any one of the three clauses of `LivesApart`
TLC refutes `ImplementsLife` with two requests (§11).

**`SchedulesProofs`**, without conditions, for any tasks, workers, attempts and
edits:

* `TypeCorrect`. `TypeOK` is not inductive: taking a job counts one more attempt,
  so what waits, and what may be released to wait again, has had `MaxAttempts` at
  most (`TypeInv`). `EditOf` shows that adding, moving and deleting tasks keeps
  every sequence between 1 and the number of tasks, and marks none.
* `MarkHasJob` (`JobWhileMarked`): what is marked has a job that will see to the
  mark, or one was dropped. It is what `ScheduleCompletes` rests on, and holds when
  chains overlap too, because every way out of a job resets the mark, passes the
  job on, or drops it (`WorkingHas`, `JobsKept`).

The rest is about schedules that only the cron command starts (`~Manual`) and
nobody switches (`~Toggles`), and whose workers do not stop between the dispatch
of a job and the removal of their own (`"done" \notin Stops`):

* `MarkLasts` (`MarkedWhileJob`), with tasks edited at any time. It and the lemma
  `NoSecondChain` (`OneChain`) need each other: a second chain is kept off by the mark, and the
  mark is reset only by the end of the one chain. `ChainInv` is their conjunction
  with what a run that has not committed yet knows: it is cron's, and neither the
  schedule it read nor the one there is now has the mark. `KeepsChain` and
  `PassesOn` are the two ways in which a process may go on.
* `NothingStaysMarked` (`NothingLeftMarked`), with tasks edited at any time, needs
  to know who will take back the mark of each task (`Accounted`): the job that waits
  for it, or the process at work on it, provided that it knows of the mark
  (`Claims`). One more condition: a worker does not stop where it has marked the
  next task and not dispatched it (`"dispatch" \notin Stops`).
* `RunsInOrder` (`ImplementsRun`), the refinement of `ScheduleRun`, while the tasks
  stay as they are (`MaxEdits = 0`). `OrderInv` says that the job that waits, and the
  process that holds the chain before the action, are at the task last attempted
  or the one after it (`Due`), and after the action at the last; a `CommitStart`
  starts a run, `Act` attempts a task, and what resets the mark finishes it
  (`ContinueRun`). All other steps leave the run alone.

Each of these conditions, dropped, has a counterexample (section 11).

**`AllocationsProofs`.** `TypeCorrect` without conditions, and `AlwaysOnNode`
(`OnNode`) for any number of requests at the same time, choices the forms offer
(`Forms`), no build changed during a transfer (`~AnyTime`), and requests that decided
about the same things not overlapping (`[]RequestsApart`): no allocation is in the
hands of two requests of which one will write it without looking again, and no
transfer of a server, and no two changes of its primary allocation of which one is a
build, overlap. Nothing in the code keeps such requests apart: the condition is what
an administrator must see to, and each of its parts is needed (§11). Additions to
builds need nothing, since the update itself asks for allocations without a server.

The invariant `AllocationsInv` says for every server that its primary allocation
is its own, that all of its allocations are in place, and that during a transfer
they are exactly the recorded old and new ones (`Reserved`, without which the
release of the recorded ids could not be shown to be right); and for each request
in flight that what it decided still holds (`Holds`): what it found free is free,
what it found not to be primary is not. `CommitHolds` is the lemma about two
requests: the commit of one leaves what the other decided as it is.

**`DatabasesProofs`.** `TypeCorrect`, and `CredentialsAlwaysWork`: if no request
for a database overlaps with its deletion (`~Overlap`), `CredentialsWork` holds
with any number of concurrent rotations and creations. `HostInv` has six parts:
only a request that holds its lock has sent statements (`Protocol`); two requests
that hold a lock of the same row are one (`Exclusive`); a name has one database
or creation (`OneName`); the host is as far as the statements sent (`Progress`);
and away from requests the user and the schema of each row work, or are in doubt
(`UserWorks`, `SchemaWorks`). On the same condition `NothingUnknownOnHost`
(`NothingLeftOnHost`), the other direction: `LeftInv` says that a user or schema on
the host belongs to a row, to a request that has begun to send statements, or is in
doubt (`UsersKnown`, `SchemasKnown`), and that a deletion has really dropped what it
is past (`Dropped`). `LimitOnlyExceededByOthers`
(`LimitExceededByOthersOnly`) has no condition on overlaps or failures: a creation
that is checked begins below the limit, and commits by turning a request into a row,
so the sum of both never grows otherwise; what was created with the check off, or
has no limit, is not counted, and only takes room from the others.

**`SubusersProofs`**, without conditions, for any users, rows, permissions and number
of overlapping requests:

* `TypeCorrect`.
* `OwnersRowsExcused` (`OwnerIsNoSubuser`). `OwnerInv` has what the commit of a change
  of owner relies on: the row its hook found is locked by it (`Held`), it is the only
  one of the user that is not excused (`Twins`), and once the hook has looked, no row
  of the user is inserted but an excused one (`AboutToSave`).
* `TokensStayCurrent` (`TokensCurrent`). `TokensInv` says of every token that it is
  excused, or its user is still to be revoked by whoever is about to take permissions
  from him, or it grants no more than that request will leave (`Covered`).

**Only model-checked:** liveness, that is `RestoreEnds`, `SuspensionReachesDaemon`,
`BackupSettles`, `ScheduleCompletes` and `AccessEnds`: fairness and `ENABLED` are out
of the prover's reach. So is what a fold computes: that the queue of `Schedules`
never holds more than `MaxJobs` jobs is a bound of the model, kept by the guard
`Room`, of which no theorem makes use.

## 11. Where code and documentation disagree, and what the models leave out

### Behaviour the properties exclude

Each of the following is behaviour of the code that a model shows when the
condition in brackets is changed. Two of them contradict a comment and are runs
here: `lifecycle_restore` and `backups_limit`.

* Two requests both pass `validateTransferState`, which runs outside the
  transaction (`TransferServerService.php:62`): two transfers are pending. A success
  that is committed between the two moves the server, and the second records a node
  it has left (`TransferServerService.php:70`). [`lifecycle_apart` without
  `"startTransfer"` in `Apart`: `ImplementsLedger`] `FirstStartRight` says only that
  the first is right.
* A transfer starts while the daemon restores a backup, because a suspension, its
  being lifted, or the report of an installation has replaced `restoring_backup`
  (`SuspensionService.php:44`, `ServerInstallController.php:46`), or because both
  were checked at the same time. [`lifecycle_restore`]
* A backup can be deleted while it is restored. The report of the restoration is
  then a 404 (`BackupStatusController.php:94`), and the server stays in
  `restoring_backup` until its daemon starts again. [`RestoreEnds` without "orphan"]
* The report of a restoration clears the status of a server that was suspended
  meanwhile (`BackupStatusController.php:96`). [`SuspensionLasts` without `"restored"`]
* An install report decides on the row it loaded: a suspension committed in
  between is overwritten (`ServerInstallController.php:46`). [`SuspensionLasts`
  without its second disjunct]
* A daemon that refuses a deletion is taken for success and the rows go, because
  `Http::daemon` does not throw on HTTP errors (`ServerDeletionService.php:46`).
* A success report that outlived its transfer is credited to the next one, since
  reports name no transfer (`ServerTransferController.php:48`). A success that is
  being handled while its transfer is cancelled and another one starts moves the
  server in spite of both. [`lifecycle_apart` without `"transferSuccess"`:
  `ImplementsLedger`]
* A pruned backup makes room for another and then succeeds: the limit is exceeded
  (`BackupStatusController.php:49`). [`backups_limit`] Two requests at the same time
  exceed it too (`InitiateBackupService.php:95`), and the throttle.
  [`WithinThrottle` with two slots]
  While another is created, a backup that comes back takes the room that was counted
  for it. [`ImplementsLife` with two slots]
* A rotation whose backup is deleted by another request meanwhile begins a new one
  all the same, in no place (`InitiateBackupService.php:109`). [`ImplementsLife` with
  two slots]
* A backup that is locked, or succeeds, after its deletion was allowed is removed all
  the same (`DeleteBackupService.php:38`). [`LockedSurvives` with two slots]
* A backup created locked can be deleted while it is in progress, a pruned one
  keeps its lock (`DeleteBackupService.php:38`, `PruneOrphanedBackupsCommand.php:35`).
* A report uses the default adapter of the moment, not the disk of the backup
  (`BackupStatusController.php:72`): when it was changed from `s3` meanwhile, the
  upload is never completed; `SuccessHasArchive` is checked with one adapter.
* The row of a backup is deleted although the daemon refused to delete the
  archive (`DeleteBackupService.php:50`), or will still complete it.
* A failed backup passes the check of a restoration (`BackupController.php:219`).
* A run by hand starts a second chain beside a running one. The page of the
  schedule disables its button while it is processing, the API does not.
  [`Manual`] So does switching the schedule off and on, which resets the mark
  (`ScheduleController::update`). [`Toggles`] So does a worker that stops after
  the dispatch and before its job is removed (`RunTaskJob.php:114`). [`"done"` in
  `Stops`] `ScheduleCompletes` is checked with all three.
* A task moved or inserted during a run can be repeated or passed over, because
  the next one is sought by the sequence loaded (`RunTaskJob.php:101`).
  [`MaxEdits`] Deleting the task whose job waits drops the job, and the schedule
  stays marked (`ScheduleTaskController.php:178`). [`lost`]
* A worker that stops at the dispatch has already marked the next task; if the
  job then fails for good, that mark stays. [`"dispatch"` in `Stops`:
  `NothingLeftMarked`]
* Two requests race for allocations: one makes primary what another releases, two
  are given the same free one (`NetworkAllocationController.php:132`,
  `FindAssignableAllocationService.php:29`, `ServerCreationService.php:184`).
  [`allocations_serial` with two slots: `PrimaryOwned`] No
  race without an overlap that `RequestsApart` excludes (§10); of its parts, the
  first dropped, two creations take the same allocation [`PrimaryOwned`]; the
  second, a build committed after a transfer adds on the node the server has left
  [`OnNode`]; the third, a build drops what another request made primary
  [`PrimaryOwned`].
* A transfer to an allocation that is not free records it all the same, and its
  failure releases another server's allocation (`TransferServerService.php:113`).
  [`Forms = FALSE`: `PrimaryOwned`] A build changed during a transfer is
  undone by its end, or outlives it on the old node. [`AnyTime`: `OnNode`]
* A cancelled transfer leaves the reserved allocations with the server
  (`ServerManagementController.php:125`); `OnNode` allows it (`left`).
* A rotation that overlaps with the deletion of its database creates the user
  again after it was dropped (`DatabaseManagementService.php:119`). [`Overlap`:
  `NothingLeftOnHost`] A deletion that is delayed until a database of the same
  name has been created again drops the new schema. [`Overlap`]
* The page of a database host deletes the row of a database and leaves its schema and
  its user on the host (`DatabasesRelationManager.php:73`; the list of databases
  calls the service instead, `ListDatabases.php:84`). [`NothingLeftOnHost` without
  `doubt`] Administrators create databases beyond the limit, on purpose
  (`EditServer.php:757`). [`LimitExceededByOthersOnly` without `waived`]
* A subuser is created while the server is given to him, or twice at the same time:
  the owner has a row, or a subuser two, of which the next change of owner deletes
  one (`SubuserCreationService.php:55`, `:59`). [`OwnerIsNoSubuser` without `excused`]
* The form of the administrators changes the owner and revokes nothing
  (`EditServer.php:114`; `afterSave` passes over `owner_id`), and of two changes at
  the same time the second revokes the owner it has loaded, not the one there is
  (`DetailsModificationService.php:36`). The console of the former owner stays open
  for up to ten minutes, which the comment at `DetailsModificationService.php:45`
  means to prevent. [`TokensCurrent` without `excused`]
* A token asked for between a revocation and the commit outlives the change by up
  to ten minutes, although the activity log says that access was revoked. A lost
  revocation does the same. `TokensCurrent` excuses both, `AccessEnds` does not.

### Not modelled

* Pages of the panel that change a modelled component without the checks of the API:
  administrators assign, release and choose the primary allocation of a server at any
  time (`AllocationsRelationManager`); tasks are reordered by dragging
  (`TasksRelationManager`); the page of backups restores after a look at the status
  only (`ListBackups.php:108`). Access to a page is checked when it is opened, not
  when one of its actions is run.
* `ScheduleTaskController::store` counts the tasks and inserts one more without a
  lock: two requests can give the same place to two tasks. In `Schedules` an edit
  is one step.
* A cron or web process that dies between the commit of a start and the dispatch
  of the first job leaves the schedule marked as processing, and nothing but
  switching it resets that.
* `ServerDeletionService` drops the databases of the server one by one inside the
  transaction that deletes it. A forced deletion goes on when one cannot be
  dropped and leaves it on the host, as its comment says; a roll-back brings back
  the rows of those that are gone.
* The capacity of nodes, and the choice of nodes, ports and hosts (section 2).
* Maintenance mode, power actions and commands, SFTP sessions, download links:
  they change nothing the panel keeps.
* Nodes, eggs, users and API keys, webhooks, activity log, forms, transformers,
  set-up commands: single-request decisions, data transformations or output; the
  reason is with each component in `PROJECT.json`.
* JavaScript. What the repository has of it is Filament's published build under
  `public/js` and the configuration of Vite: neither is the panel's own logic, all
  of which is in PHP.
