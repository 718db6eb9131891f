------------------------------ MODULE Backups ------------------------------
(***************************************************************************)
(* The backups of one server: their rows in the `backups` table, the       *)
(* archives the rows stand for, the work the daemon does for them, and the *)
(* PHP requests, queue workers and cron runs that touch them.              *)
(*                                                                         *)
(* As in ServerLifecycle a request acts on the row it loaded and writes    *)
(* only what differs from it.  A transaction is open across the call to    *)
(* the daemon or to S3 that is made inside it, so its rows are committed   *)
(* in a later step than the call.  A call ends in one of four ways, and    *)
(* the HTTP client of the panel raises ConnectionException on the last two *)
(* only; the client of S3 raises an exception on all but the first:        *)
(*   accepted     done, and answered so                                    *)
(*   refused      answered with an HTTP error, not done                    *)
(*   unreachable  no connection                                            *)
(*   lost         done, the answer timed out                               *)
(* The server stays on one node.  Whether its state allows a user to do    *)
(* anything at all is in ServerLifecycle: here it always does.             *)
(***************************************************************************)
EXTENDS Naturals, FiniteSets

CONSTANTS
  Slot,          \* PHP workers: how many requests run at the same time
  Adapters,      \* the values config('backups.default') takes over time
  Answers,       \* how the daemon and S3 may answer
  BackupLimit,   \* server.backup_limit
  ThrottleLimit, \* config('backups.throttles.limit')
  Pruning,       \* config('backups.prune_age') is not 0
  Stop,          \* the daemon may stop and start again
  Repeats,       \* the daemon may miss an answer and ask again
  MaxBackups     \* bound: backups ever asked of the daemon

ASSUME AdaptersAssumption == Adapters \subseteq {"wings", "s3"} /\ Adapters # {}
ASSUME AnswersAssumption ==
  Answers \subseteq {"accepted", "refused", "unreachable", "lost"}
ASSUME LimitsAssumption ==
  BackupLimit \in Nat /\ ThrottleLimit \in Nat /\ MaxBackups \in Nat
ASSUME SwitchesAssumption == {Pruning, Stop, Repeats} \subseteq BOOLEAN

VARIABLES
  default,    \* the adapter new backups go to
  backups,    \* the rows, by id: later backups have greater ids
  aged,       \* the backups up to this one are older than the throttle period
  archives,   \* the backups whose archive can be downloaded
  jobs,       \* the backups the daemon works on or has still to report
  request     \* what each PHP worker is doing

vars == <<default, backups, aged, archives, jobs, request>>

Id == 1 .. MaxBackups

\* A row that is "open" has been inserted by a transaction that is not over; one
\* that is "undone" was, until the transaction failed.
State == {"unused", "open", "undone", "live", "trashed"}

Row == [state : State, disk : {"wings", "s3"}, locked : BOOLEAN,
        successful : BOOLEAN, completed : BOOLEAN, upload : BOOLEAN]

\* `work`: being made; waiting for a place to upload it to was over when it is
\* "uploading"; the report that is due when it is "made" or "failed".
Job == [id : Id, disk : {"wings", "s3"},
        work : {"making", "uploading", "made", "failed"}]

Step == {"idle", "remove", "deleteRow", "create", "commit", "toggle", "upload",
         "report"}

Request ==
  [step : Step, id : 0 .. MaxBackups,
   adapter : {"wings", "s3"},   \* config('backups.default') of its process
   locked : BOOLEAN,       \* the lock as it was loaded or asked for
   successful : BOOLEAN,   \* the outcome reported
   rotate : BOOLEAN]       \* a deletion that makes room for a new backup

TypeOK ==
  /\ default \in Adapters
  /\ backups \in [Id -> Row]
  /\ aged \in 0 .. MaxBackups
  /\ archives \subseteq Id
  /\ jobs \subseteq Job
  /\ request \in [Slot -> Request]

-----------------------------------------------------------------------------
(* The model's accessors and its query builder. *)

Live == {b \in Id : backups[b].state = "live"}
Trashed == {b \in Id : backups[b].state = "trashed"}

InProgress == {b \in Live : ~backups[b].completed}
Successful == {b \in Live : backups[b].completed /\ backups[b].successful}
Failed == {b \in Live : backups[b].completed /\ ~backups[b].successful}

\* whereNull('completed_at')->orWhere('is_successful', true)
nonFailed(rows) == {b \in rows : ~backups[b].completed \/ backups[b].successful}

\* Mutant: soft-deleted backups are not counted.
ThrottledLive ==
  Cardinality({b \in nonFailed(Live) : b > aged}) >= ThrottleLimit

\* The throttle counts what has been deleted, too.
Throttled ==
  Cardinality({b \in nonFailed(Live \cup Trashed) : b > aged}) >= ThrottleLimit

AtLimit == BackupLimit = 0 \/ Cardinality(nonFailed(Live)) >= BackupLimit

\* Mutant: the lock guards failed backups instead of successful ones.
DeletableFailed == Live \ {b \in Failed : backups[b].locked}

\* What DeleteBackupService does not refuse to delete.
Deletable == Live \ {b \in Successful : backups[b].locked}

\* Row b is the one that gives way to a new backup.
Oldest(b) ==
  LET candidates == {c \in nonFailed(Live) : ~backups[c].locked}
  IN b \in candidates /\ \A c \in candidates : b <= c

-----------------------------------------------------------------------------
(* Calls and requests. *)

Threw(answer) == answer \in {"unreachable", "lost"}
Processed(answer) == answer \in {"accepted", "lost"}

Idle == [step |-> "idle", id |-> 0, adapter |-> "wings", locked |-> FALSE,
         successful |-> FALSE, rotate |-> FALSE]

Begin(r, loaded) ==
  /\ request[r] = Idle
  /\ request' = [request EXCEPT ![r] = [loaded EXCEPT !.adapter = default]]

At(r, step) == request[r].step = step
Goto(r, step) == request' = [request EXCEPT ![r].step = step]
End(r) == request' = [request EXCEPT ![r] = Idle]

SetRow(b, row) == backups' = [backups EXCEPT ![b] = row]

-----------------------------------------------------------------------------
(* InitiateBackupService::handle: by a user, or to `override` the limit by a *)
(* task of a schedule, which never locks.                                    *)

BeginCreate(r, locked) ==
  /\ ~Throttled
  /\ ~AtLimit
  /\ Begin(r, [Idle EXCEPT !.step = "create", !.locked = locked])
  /\ UNCHANGED <<default, backups, aged, archives, jobs>>

BeginRotate(r) ==
  /\ ~Throttled
  /\ AtLimit
  /\ BackupLimit > 0
  /\ \E b \in Deletable :
       /\ Oldest(b)
       /\ Begin(r, [Idle EXCEPT !.step = "remove", !.id = b, !.rotate = TRUE])
  /\ UNCHANGED <<default, backups, aged, archives, jobs>>

\* The row is inserted, then the daemon told; only an exception undoes the row.
CreateAndCall(r) ==
  LET disk == request[r].adapter
      unused == {b \in Id : backups[b].state = "unused"}
  IN /\ At(r, "create")
     /\ \E b \in unused, answer \in Answers :
          /\ \A c \in unused : b <= c
          /\ SetRow(b, [state |-> IF Threw(answer) THEN "undone" ELSE "open",
                        disk |-> disk, locked |-> request[r].locked,
                        successful |-> FALSE, completed |-> FALSE, upload |-> FALSE])
          /\ jobs' = IF Processed(answer)
                     THEN jobs \cup {[id |-> b, disk |-> disk, work |-> "making"]}
                     ELSE jobs
          /\ IF Threw(answer)
             THEN End(r)
             ELSE request' = [request EXCEPT ![r] =
                                    [Idle EXCEPT !.step = "commit", !.id = b,
                                                 !.rotate = request[r].rotate]]
     /\ UNCHANGED <<default, aged, archives>>

\* The bound on backups is reached.
CreateNone(r) ==
  /\ At(r, "create")
  /\ \A b \in Id : backups[b].state # "unused"
  /\ End(r)
  /\ UNCHANGED <<default, backups, aged, archives, jobs>>

CommitCreate(r) ==
  /\ At(r, "commit")
  /\ SetRow(request[r].id, [backups[request[r].id] EXCEPT !.state = "live"])
  /\ End(r)
  /\ UNCHANGED <<default, aged, archives, jobs>>

-----------------------------------------------------------------------------
(* DeleteBackupService::handle *)

BeginDelete(r, b) ==
  /\ b \in Deletable
  /\ Begin(r, [Idle EXCEPT !.step = "remove", !.id = b])
  /\ UNCHANGED <<default, backups, aged, archives, jobs>>

\* The answer to a deletion: the daemon says 404 when it has no such archive.
Reply(b) ==
  IF backups[b].disk = "wings" /\ b \notin archives
  THEN (Answers \ {"accepted"}) \cup {"refused"} ELSE Answers

\* An exception ends the deletion: every one of S3, those of no connection with
\* the daemon.
RemoveArchive(r) ==
  LET b == request[r].id
  IN /\ At(r, "remove")
     /\ \E answer \in Reply(b) :
          /\ archives' = IF Processed(answer) THEN archives \ {b} ELSE archives
          /\ IF IF backups[b].disk = "s3" THEN answer # "accepted" ELSE Threw(answer)
             THEN End(r)
             ELSE Goto(r, "deleteRow")
     /\ UNCHANGED <<default, backups, aged, jobs>>

\* The archive is gone: so is the row, and a rotation goes on.
DeleteRow(r) ==
  /\ At(r, "deleteRow")
  /\ SetRow(request[r].id, [backups[request[r].id] EXCEPT !.state = "trashed"])
  /\ IF request[r].rotate
     THEN request' = [request EXCEPT ![r].step = "create"]
     ELSE End(r)
  /\ UNCHANGED <<default, aged, archives, jobs>>

-----------------------------------------------------------------------------
(* BackupController::toggleLock *)

BeginToggleLock(r, b) ==
  /\ b \in Live
  /\ Begin(r, [Idle EXCEPT !.step = "toggle", !.id = b, !.locked = backups[b].locked])
  /\ UNCHANGED <<default, backups, aged, archives, jobs>>

CommitToggleLock(r) ==
  LET b == request[r].id
  IN /\ At(r, "toggle")
     /\ SetRow(b, [backups[b] EXCEPT !.locked = ~request[r].locked])
     /\ End(r)
     /\ UNCHANGED <<default, aged, archives, jobs>>

-----------------------------------------------------------------------------
(* The daemon makes the archive, and for S3 asks the panel where to upload   *)
(* it (BackupRemoteUploadController).                                        *)

Work(job, work) == jobs' = (jobs \ {job}) \cup {[job EXCEPT !.work = work]}

\* The archive on the daemon exists before it is reported; that on S3 only when
\* the panel has completed the upload.
Finish(job, work) ==
  /\ job.work = IF job.disk = "s3" /\ work = "made" THEN "uploading" ELSE "making"
  /\ Work(job, work)
  /\ archives' = IF work = "made" /\ job.disk = "wings"
                 THEN archives \cup {job.id} ELSE archives
  /\ UNCHANGED <<default, backups, aged, request>>

Uploadable(b) == b \in InProgress /\ default = "s3"

\* Mutant: the work gets a state that nothing handles.
RefuseUploadForgotten(job) ==
  /\ job.disk = "s3"
  /\ job.work = "making"
  /\ ~Uploadable(job.id)
  /\ Work(job, "refused")
  /\ UNCHANGED <<default, backups, aged, archives, request>>

\* 404, 409 or 400: no place to upload to.
RefuseUpload(job) ==
  /\ job.disk = "s3"
  /\ job.work = "making"
  /\ ~Uploadable(job.id)
  /\ Work(job, "failed")
  /\ UNCHANGED <<default, backups, aged, archives, request>>

BeginUpload(r, job) ==
  /\ job.disk = "s3"
  /\ job.work = "making"
  /\ Uploadable(job.id)
  /\ Begin(r, [Idle EXCEPT !.step = "upload", !.id = job.id])
  /\ UNCHANGED <<default, backups, aged, archives, jobs>>

\* The upload is created in S3 and its id saved; the daemon goes on if it still
\* does this job and the answer reaches it.
CommitUpload(r) ==
  LET b == request[r].id
      waiting == {job \in jobs : job.id = b /\ job.work = "making"}
  IN /\ At(r, "upload")
     /\ \/ /\ "accepted" \in Answers
           /\ SetRow(b, [backups[b] EXCEPT !.upload = TRUE])
           /\ \/ jobs' = (jobs \ waiting) \cup
                           {[job EXCEPT !.work = "uploading"] : job \in waiting}
              \/ Repeats /\ UNCHANGED jobs
        \/ Answers # {"accepted"} /\ UNCHANGED <<backups, jobs>>
     /\ End(r)
     /\ UNCHANGED <<default, aged, archives>>

-----------------------------------------------------------------------------
(* BackupStatusController::index.  A report ends the job unless the daemon   *)
(* missed the answer and repeats it.                                         *)

Reported(job) ==
  \/ jobs' = jobs \ {job}
  \/ Repeats /\ UNCHANGED jobs

\* Not found, or marked as successful already.
RefuseReport(job) ==
  /\ job.work \in {"made", "failed"}
  /\ job.id \notin Live \/ backups[job.id].successful
  /\ jobs' = jobs \ {job}
  /\ UNCHANGED <<default, backups, aged, archives, request>>

BeginReport(r, job) ==
  /\ job.work \in {"made", "failed"}
  /\ job.id \in Live
  /\ ~backups[job.id].successful
  /\ Reported(job)
  /\ Begin(r, [Idle EXCEPT !.step = "report", !.id = job.id,
                           !.locked = backups[job.id].locked,
                           !.successful = (job.work = "made")])
  /\ UNCHANGED <<default, backups, aged, archives>>

\* The row after the report was saved: a failure unlocks it, and leaves
\* is_successful, which was loaded as false, as it is.
ReportedRow(row, loaded) ==
  [row EXCEPT !.completed = TRUE,
              !.successful = @ \/ loaded.successful,
              !.locked = @ /\ (loaded.successful \/ ~loaded.locked)]

\* Mutant: the upload is left incomplete.
CompleteUploadSkipped(b, answer) == UNCHANGED archives

\* CompleteMultipartUpload: now the archive is there.
CompleteUpload(b, answer) ==
  archives' = IF Processed(answer) THEN archives \cup {b} ELSE archives

\* Which adapter completes the upload is the default one at this time, whatever
\* the disk of the backup.  Without an upload id a success is an error, which
\* undoes the save like any exception of S3.
CommitReport(r) ==
  LET b == request[r].id
      adapter == request[r].adapter
      save == SetRow(b, ReportedRow(backups[b], request[r]))
  IN /\ At(r, "report")
     /\ \/ /\ adapter = "wings" \/ (~backups[b].upload /\ ~request[r].successful)
           /\ save
           /\ UNCHANGED archives
        \/ /\ adapter = "s3" /\ ~backups[b].upload /\ request[r].successful
           /\ UNCHANGED <<backups, archives>>
        \/ /\ adapter = "s3" /\ backups[b].upload
           /\ \E answer \in Answers :
                /\ IF request[r].successful THEN CompleteUpload(b, answer)
                   ELSE UNCHANGED archives
                /\ IF answer = "accepted" THEN save ELSE UNCHANGED backups
     /\ End(r)
     /\ UNCHANGED <<default, aged, jobs>>

-----------------------------------------------------------------------------
(* PruneOrphanedBackupsCommand: one query.  The age it looks for is not less *)
(* than the throttle period (6 hours against 10 minutes).                    *)

\* Mutant: the command does not ask whether a backup is completed.
PruneAll(k) ==
  /\ Pruning
  /\ k <= aged
  /\ backups' = [b \in Id |->
                   IF b \in Live /\ b <= k
                   THEN [backups[b] EXCEPT !.completed = TRUE, !.successful = FALSE]
                   ELSE backups[b]]
  /\ UNCHANGED <<default, aged, archives, jobs, request>>

\* Mutant: the command looks for failed backups.
PruneFailed(k) ==
  /\ Pruning
  /\ k <= aged
  /\ backups' = [b \in Id |->
                   IF b \in Failed /\ b <= k
                   THEN [backups[b] EXCEPT !.completed = TRUE] ELSE backups[b]]
  /\ UNCHANGED <<default, aged, archives, jobs, request>>

Prune(k) ==
  /\ Pruning
  /\ k <= aged
  /\ backups' = [b \in Id |->
                   IF b \in InProgress /\ b <= k
                   THEN [backups[b] EXCEPT !.completed = TRUE, !.successful = FALSE]
                   ELSE backups[b]]
  /\ UNCHANGED <<default, aged, archives, jobs, request>>

\* Time passes; backups grow older.
Age ==
  /\ aged < MaxBackups
  /\ backups[aged + 1].state \notin {"unused", "open"}
  /\ aged' = aged + 1
  /\ UNCHANGED <<default, backups, archives, jobs, request>>

\* The administrator changes APP_BACKUP_DRIVER.
SwitchAdapter ==
  /\ default' \in Adapters \ {default}
  /\ UNCHANGED <<backups, aged, archives, jobs, request>>

\* The daemon stops and starts again: it has lost its work and what it had to
\* report.
Restart ==
  /\ Stop
  /\ jobs # {}
  /\ jobs' = {}
  /\ UNCHANGED <<default, backups, aged, archives, request>>

-----------------------------------------------------------------------------

Init ==
  /\ default \in Adapters
  /\ backups = [b \in Id |->
                  [state |-> "unused", disk |-> "wings", locked |-> FALSE,
                   successful |-> FALSE, completed |-> FALSE, upload |-> FALSE]]
  /\ aged = 0
  /\ archives = {}
  /\ jobs = {}
  /\ request = [r \in Slot |-> Idle]

\* A user asks, or a task of a schedule.
User(r) ==
  \/ \E locked \in BOOLEAN : BeginCreate(r, locked)
  \/ BeginRotate(r)
  \/ \E b \in Id : BeginDelete(r, b) \/ BeginToggleLock(r, b)

\* A request goes on.
Continue(r) ==
  \/ CreateAndCall(r)
  \/ CreateNone(r)
  \/ CommitCreate(r)
  \/ RemoveArchive(r)
  \/ DeleteRow(r)
  \/ CommitToggleLock(r)
  \/ CommitUpload(r)
  \/ CommitReport(r)

Daemon ==
  \/ \E job \in jobs :
       \/ \E work \in {"made", "failed"} : Finish(job, work)
       \/ RefuseUpload(job)
       \/ RefuseReport(job)
       \/ \E r \in Slot : BeginUpload(r, job) \/ BeginReport(r, job)
  \/ Restart

Environment ==
  \/ \E k \in Id : Prune(k)
  \/ Age
  \/ SwitchAdapter

Next ==
  \/ \E r \in Slot : User(r) \/ Continue(r)
  \/ Daemon
  \/ Environment

Spec == Init /\ [][Next]_vars

\* A request ends, time passes, and the command runs every 30 minutes.
Fairness ==
  /\ \A r \in Slot : WF_vars(Continue(r))
  /\ WF_vars(Age)
  /\ \A k \in Id : WF_vars(Prune(k))

FairSpec == Spec /\ Fairness
-----------------------------------------------------------------------------
(* Which requests must not overlap: nothing in the code keeps them apart. *)

\* A request that counted the backups and has not committed another one.
Creating(q) == q.rotate \/ q.step \in {"create", "commit"}

\* What the throttle depends on.
OneCreation == \A q, r \in Slot : Creating(request[q]) /\ Creating(request[r]) => q = r

\* A request that is going to remove backup b, and one that is going to make it
\* one that must not be removed.
Removing(r, b) == request[r].step \in {"remove", "deleteRow"} /\ request[r].id = b

Protecting(r, b) ==
  /\ request[r].id = b
  /\ \/ At(r, "toggle") /\ ~request[r].locked
     \/ At(r, "report") /\ request[r].successful

\* What the lock depends on.
LocksApart == \A q, r \in Slot, b \in Id : ~(Removing(q, b) /\ Protecting(r, b))

\* A report of success for a backup that has been given up.
Reviving(r) == At(r, "report") /\ request[r].successful /\ request[r].id \in Failed

\* What the lives of the backups depend on: while one is created none comes back,
\* and the one that gives way is not deleted by another request.
LivesApart ==
  /\ OneCreation
  /\ \A q, r \in Slot : request[q].step \in {"create", "commit"} => ~Reviving(r)
  /\ \A q, r \in Slot, b \in Id :
       Removing(q, b) /\ Removing(r, b) /\ request[q].rotate => q = r

-----------------------------------------------------------------------------
(* Properties. *)

\* "Even if they delete a backup it will be included in the throttle count": no
\* more than that many backups are successful or pending in one period.
WithinThrottle ==
  Cardinality({b \in nonFailed(Live \cup Trashed) : b > aged}) <= ThrottleLimit

\* The server never has more successful and ongoing backups than it may: "completed_at
\* == null will cover any ongoing backups" (InitiateBackupService.php:93).
WithinLimit == Cardinality(nonFailed(Live)) <= BackupLimit

\* A locked, successful backup is removed neither by a user nor by the rotation.
LockedSurvives ==
  [][\A b \in Successful : backups[b].locked => backups'[b].state = "live"]_vars

\* What is shown as successful can be downloaded, but for the moment between the
\* removal of its archive and the commit of its deletion.
SuccessHasArchive ==
  \A b \in Successful \ archives :
    \E r \in Slot : At(r, "deleteRow") /\ request[r].id = b

\* A backup in progress comes to an end, whatever has become of the daemon: it
\* succeeds, fails, is deleted or is pruned.
BackupSettles == \A b \in Id : b \in InProgress ~> b \notin InProgress

\* The status of a backup, as BackupStatus gives it, for those the panel has.
statusOf(row) ==
  CASE row.state = "live" /\ ~row.completed -> "in_progress"
    [] row.state = "live" /\ row.completed -> IF row.successful THEN "successful" ELSE "failed"
    [] row.state = "trashed" -> "deleted"
    [] OTHER -> "none"

status == [b \in Id |-> statusOf(backups[b])]

\* A rotation has deleted a backup and has yet to begin the one it was for.
place == \E r \in Slot : request[r].rotate /\ request[r].step \in {"create", "commit"}

Life == INSTANCE BackupLife WITH Limit <- BackupLimit

\* As long as LivesApart holds every backup has a life it may have.
ImplementsLife == Life!Spec
=============================================================================
