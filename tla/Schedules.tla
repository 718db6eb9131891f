----------------------------- MODULE Schedules -----------------------------
(***************************************************************************)
(* One schedule of a server: its row, the rows of its tasks, the queue of  *)
(* jobs, and the processes that work on them: queue workers, the cron      *)
(* command that starts the schedules that are due, and the web request of  *)
(* a user who runs one by hand.                                            *)
(*                                                                         *)
(* A run is a chain of jobs, each of which does one task and queues the    *)
(* next.  The queue delivers at least once: a job whose worker stopped is  *)
(* taken again, a job that threw is released, and one that was taken too   *)
(* often fails.  A job carries the id of its task; the row is loaded when  *)
(* the job is taken, and the decisions until the job ends are made on that *)
(* snapshot.  When the schedule is due (`next_run_at`) and how long a job   *)
(* waits (`time_offset`) is arbitrary here.                                *)
(***************************************************************************)
EXTENDS Naturals, FiniteSets, Functions

CONSTANTS
  Task,         \* the tasks there are at any time
  Length,       \* so many of them make up the schedule at first
  Worker,       \* the queue workers
  Continues,    \* the tasks with continue_on_failure
  MaxAttempts,  \* queue:work --tries
  Outcomes,     \* how the action of a task may end
  OnlyOnline,   \* only_when_online
  Manual,       \* users run the schedule by hand
  Toggles,      \* users switch it off and on
  Stops,        \* the steps at which a worker may stop
  MaxEdits,     \* bound: edits of the tasks
  MaxJobs       \* bound: jobs at the same time

ASSUME TaskAssumption == Task \subseteq Nat \ {0} /\ IsFiniteSet(Task) /\ Task # {}
ASSUME LengthAssumption == Length \in Nat /\ 1 .. Length \subseteq Task
ASSUME WorkerAssumption == "cron" \notin Worker /\ "web" \notin Worker
ASSUME OutcomesAssumption == Outcomes \subseteq {"done", "unreachable", "error"}
ASSUME StopsAssumption == Stops \subseteq {"handle", "advance", "dispatch", "done", "failed"}
ASSUME SwitchesAssumption == {OnlyOnline, Manual, Toggles} \subseteq BOOLEAN
ASSUME BoundsAssumption ==
  MaxAttempts \in Nat \ {0} /\ MaxEdits \in Nat /\ MaxJobs \in Nat

VARIABLES
  schedule,    \* the row of the schedule
  tasks,       \* the rows of the tasks, by id
  busy,        \* the status of the server is not NULL
  waiting,     \* how often each job waits in the queue
  run,         \* what each process is doing
  last,        \* the place of the task last attempted in this run, or 0
  lost,        \* a job ended without RunTaskJob::failed or a successor
  edits        \* the number of edits

vars == <<schedule, tasks, busy, waiting, run, last, lost, edits>>

Process == Worker \cup {"cron", "web"}

Schedule == [active : BOOLEAN, processing : BOOLEAN]

\* There is no row where the sequence is 0.
Row == [sequence : 0 .. Cardinality(Task), queued : BOOLEAN]

Job == [task : Task, manual : BOOLEAN, attempts : 0 .. MaxAttempts + 1]

Step == {"idle", "commit", "start", "handle", "advance", "dispatch", "done", "failed"}

Run ==
  [step : Step, job : Job,
   sequence : 0 .. Cardinality(Task),   \* of the task, as it was loaded
   queued : BOOLEAN,                    \* its mark, as it was loaded
   processing : BOOLEAN,                \* the mark of the schedule, as loaded
   next : Task]                         \* the task to dispatch

TypeOK ==
  /\ schedule \in Schedule
  /\ tasks \in [Task -> Row]
  /\ busy \in BOOLEAN
  /\ waiting \in [Job -> Nat]
  /\ run \in [Process -> Run]
  /\ last \in 0 .. Cardinality(Task)
  /\ lost \in BOOLEAN
  /\ edits \in 0 .. MaxEdits

-----------------------------------------------------------------------------
(* Tasks in their order. *)

Rows == {t \in Task : tasks[t].sequence > 0}

After(n) == {t \in Rows : tasks[t].sequence > n}

\* The first of some tasks by sequence_id.
IsFirstOf(t, T) == t \in T /\ \A u \in T : tasks[t].sequence <= tasks[u].sequence

\* The rows with the mark of t changed; a row that is gone stays so.
Marked(rows, t, mark) ==
  IF rows[t].sequence > 0 THEN [rows EXCEPT ![t].queued = mark] ELSE rows

-----------------------------------------------------------------------------
(* Processes and jobs. *)

AnyTask == CHOOSE t \in Task : TRUE

Idle ==
  [step |-> "idle", job |-> [task |-> AnyTask, manual |-> FALSE, attempts |-> 0],
   sequence |-> 0, queued |-> FALSE, processing |-> FALSE, next |-> AnyTask]

At(p, step) == run[p].step = step
Goto(p, step) == run' = [run EXCEPT ![p].step = step]
End(p) == run' = [run EXCEPT ![p] = Idle]

\* Process p has loaded the task t.
Loaded(step, job) ==
  [Idle EXCEPT !.step = step, !.job = job, !.sequence = tasks[job.task].sequence,
               !.queued = tasks[job.task].queued]

Add(job) == waiting' = [waiting EXCEPT ![job] = @ + 1]

Busy == {p \in Process : ~At(p, "idle")}
Pending == {job \in Job : waiting[job] > 0}

\* The bound: there is room for one more job.
Room == FoldFunction(+, 0, waiting) + Cardinality(Busy) < MaxJobs

\* RunTaskJob::failed, markScheduleComplete and markTaskNotQueued: the mark of
\* the task is written if it was set when it was loaded.
Completed == schedule' = [schedule EXCEPT !.processing = FALSE]
Unmarked(p) == IF run[p].queued THEN Marked(tasks, run[p].job.task, FALSE) ELSE tasks

-----------------------------------------------------------------------------
(* ProcessRunnableCommand, ScheduleController::execute, and                  *)
(* ProcessScheduleService::handle.                                           *)

\* Mutant: the command does not ask whether the schedule is processing.
BeginCronAgain ==
  /\ run["cron"] = Idle
  /\ Room
  /\ schedule.active /\ ~busy
  /\ \E t \in Rows :
       /\ IsFirstOf(t, Rows)
       /\ run' = [run EXCEPT !["cron"] =
                    Loaded("commit", [task |-> t, manual |-> FALSE, attempts |-> 0])]
  /\ UNCHANGED <<schedule, tasks, busy, waiting, last, lost, edits>>

BeginCron ==
  /\ run["cron"] = Idle
  /\ Room
  /\ schedule.active /\ ~schedule.processing /\ ~busy
  /\ \E t \in Rows :
       /\ IsFirstOf(t, Rows)
       /\ run' = [run EXCEPT !["cron"] =
                    Loaded("commit", [task |-> t, manual |-> FALSE, attempts |-> 0])]
  /\ UNCHANGED <<schedule, tasks, busy, waiting, last, lost, edits>>

\* By hand, whatever the state of the schedule.
BeginManual ==
  /\ Manual
  /\ run["web"] = Idle
  /\ Room
  /\ \E t \in Rows :
       /\ IsFirstOf(t, Rows)
       /\ run' = [run EXCEPT !["web"] =
                    [Loaded("commit", [task |-> t, manual |-> TRUE, attempts |-> 0])
                       EXCEPT !.processing = schedule.processing]]
  /\ UNCHANGED <<schedule, tasks, busy, waiting, last, lost, edits>>

\* A mark that was set when it was loaded is not written.
CommitStart(p) ==
  /\ At(p, "commit")
  /\ schedule' = [schedule EXCEPT !.processing = @ \/ ~run[p].processing]
  /\ tasks' = IF run[p].queued THEN tasks ELSE Marked(tasks, run[p].job.task, TRUE)
  /\ run' = [run EXCEPT ![p].step = "start", ![p].queued = TRUE,
                           ![p].processing = FALSE]
  /\ last' = 0
  /\ UNCHANGED <<busy, waiting, lost, edits>>

\* The server is offline, or the daemon cannot be asked.
RefuseOffline(p) ==
  /\ At(p, "start")
  /\ OnlyOnline
  /\ tasks' = Unmarked(p)
  /\ Completed
  /\ End(p)
  /\ UNCHANGED <<busy, waiting, last, lost, edits>>

DispatchFirst ==
  /\ At("cron", "start")
  /\ Add(run["cron"].job)
  /\ End("cron")
  /\ UNCHANGED <<schedule, tasks, busy, last, lost, edits>>

\* dispatchNow: in the request itself.
RunNow ==
  /\ At("web", "start")
  /\ Goto("web", "handle")
  /\ UNCHANGED <<schedule, tasks, busy, waiting, last, lost, edits>>

-----------------------------------------------------------------------------
(* A worker takes a job.  The queue counts the attempts, fails a job that    *)
(* was taken too often, and drops one whose model it cannot load any more:   *)
(* RunTaskJob::failed is then not called either.                             *)

\* Mutant: the attempts are counted but not limited.
TakeForever(w, job) ==
  LET taken == [job EXCEPT !.attempts = @ + 1]
  IN /\ run[w] = Idle
     /\ waiting[job] > 0
     /\ waiting' = [waiting EXCEPT ![job] = @ - 1]
     /\ IF job.task \notin Rows
        THEN lost' = TRUE /\ UNCHANGED run
        ELSE run' = [run EXCEPT ![w] = Loaded("handle", taken)] /\ UNCHANGED lost
     /\ UNCHANGED <<schedule, tasks, busy, last, edits>>

Take(w, job) ==
  LET taken == [job EXCEPT !.attempts = @ + 1]
  IN /\ run[w] = Idle
     /\ waiting[job] > 0
     /\ waiting' = [waiting EXCEPT ![job] = @ - 1]
     /\ IF job.task \notin Rows
        THEN lost' = TRUE /\ UNCHANGED run
        ELSE /\ run' = [run EXCEPT ![w] =
                          Loaded(IF taken.attempts > MaxAttempts THEN "failed" ELSE "handle",
                                 taken)]
             /\ UNCHANGED lost
     /\ UNCHANGED <<schedule, tasks, busy, last, edits>>

\* RunTaskJob::handle: the schedule is not active or the server not free.
Refuse(p) ==
  /\ At(p, "handle")
  /\ busy \/ (~schedule.active /\ ~run[p].job.manual)
  /\ tasks' = Unmarked(p)
  /\ Completed
  /\ Goto(p, "done")
  /\ UNCHANGED <<busy, waiting, last, lost, edits>>

GoesOn(t, outcome) == outcome = "done" \/ (outcome = "unreachable" /\ t \in Continues)

\* Mutant: a job that is released completes the schedule already.
ThrowCompletes(p) ==
  IF p = "web"
  THEN tasks' = Unmarked(p) /\ Completed /\ End(p) /\ UNCHANGED waiting
  ELSE /\ IF run[p].job.attempts < MaxAttempts
          THEN Add(run[p].job) /\ End(p)
          ELSE Goto(p, "failed") /\ UNCHANGED waiting
       /\ Completed
       /\ UNCHANGED tasks

\* Mutant: the request by hand does not catch the exception.
ThrowUncaught(p) ==
  IF p = "web"
  THEN End(p) /\ UNCHANGED <<schedule, tasks, waiting>>
  ELSE /\ IF run[p].job.attempts < MaxAttempts
          THEN Add(run[p].job) /\ End(p)
          ELSE Goto(p, "failed") /\ UNCHANGED waiting
       /\ UNCHANGED <<schedule, tasks>>

\* An exception: the job is released or, at last, fails; the request by hand
\* calls RunTaskJob::failed itself.
Throw(p) ==
  IF p = "web"
  THEN tasks' = Unmarked(p) /\ Completed /\ End(p) /\ UNCHANGED waiting
  ELSE /\ IF run[p].job.attempts < MaxAttempts
          THEN Add(run[p].job) /\ End(p)
          ELSE Goto(p, "failed") /\ UNCHANGED waiting
       /\ UNCHANGED <<schedule, tasks>>

\* The action of the task.
Act(p) ==
  /\ At(p, "handle")
  /\ ~busy /\ (schedule.active \/ run[p].job.manual)
  /\ \E outcome \in Outcomes :
       /\ IF GoesOn(run[p].job.task, outcome)
          THEN Goto(p, "advance") /\ UNCHANGED <<schedule, tasks, waiting>>
          ELSE Throw(p)
  /\ last' = run[p].sequence
  /\ UNCHANGED <<busy, lost, edits>>

\* Mutant: the tasks come in descending order.
AdvanceToLast(p) ==
  LET rest == After(run[p].sequence)
  IN /\ At(p, "advance")
     /\ IF rest = {}
        THEN tasks' = Unmarked(p) /\ Completed /\ Goto(p, "done")
        ELSE /\ \E t \in rest :
                  /\ \A u \in rest : tasks[u].sequence <= tasks[t].sequence
                  /\ tasks' = Marked(Unmarked(p), t, TRUE)
                  /\ run' = [run EXCEPT ![p].step = "dispatch", ![p].next = t]
             /\ UNCHANGED schedule
     /\ UNCHANGED <<busy, waiting, last, lost, edits>>

\* Mutant: the end of the chain does not complete the schedule.
AdvanceUncompleted(p) ==
  LET rest == After(run[p].sequence)
  IN /\ At(p, "advance")
     /\ IF rest = {}
        THEN tasks' = Unmarked(p) /\ UNCHANGED schedule /\ Goto(p, "done")
        ELSE /\ \E t \in rest :
                  /\ IsFirstOf(t, rest)
                  /\ tasks' = Marked(Unmarked(p), t, TRUE)
                  /\ run' = [run EXCEPT ![p].step = "dispatch", ![p].next = t]
             /\ UNCHANGED schedule
     /\ UNCHANGED <<busy, waiting, last, lost, edits>>

\* markTaskNotQueued and queueNextTask, but for the dispatch.
Advance(p) ==
  LET rest == After(run[p].sequence)
  IN /\ At(p, "advance")
     /\ IF rest = {}
        THEN tasks' = Unmarked(p) /\ Completed /\ Goto(p, "done")
        ELSE /\ \E t \in rest :
                  /\ IsFirstOf(t, rest)
                  /\ tasks' = Marked(Unmarked(p), t, TRUE)
                  /\ run' = [run EXCEPT ![p].step = "dispatch", ![p].next = t]
             /\ UNCHANGED schedule
     /\ UNCHANGED <<busy, waiting, last, lost, edits>>

Dispatch(p) ==
  /\ At(p, "dispatch")
  /\ Add([task |-> run[p].next, manual |-> run[p].job.manual, attempts |-> 0])
  /\ Goto(p, "done")
  /\ UNCHANGED <<schedule, tasks, busy, last, lost, edits>>

\* The job is removed from the queue; the request ends.
Done(p) ==
  /\ At(p, "done")
  /\ End(p)
  /\ UNCHANGED <<schedule, tasks, busy, waiting, last, lost, edits>>

\* Mutant: a job that fails leaves the mark of its task.
FailUnmarked(p) ==
  /\ At(p, "failed")
  /\ Completed
  /\ End(p)
  /\ UNCHANGED <<tasks, busy, waiting, last, lost, edits>>

\* The job is removed from the queue, and RunTaskJob::failed called, on a task
\* that is loaded once more.
Fail(p) ==
  /\ At(p, "failed")
  /\ IF run[p].job.task \in Rows
     THEN /\ tasks' = Marked(tasks, run[p].job.task, FALSE)
          /\ Completed
          /\ UNCHANGED lost
     ELSE lost' = TRUE /\ UNCHANGED <<schedule, tasks>>
  /\ End(p)
  /\ UNCHANGED <<busy, waiting, last, edits>>

\* A worker stops: its job is taken again after retry_after, unless it had
\* failed and been removed.
Stop(w) ==
  /\ run[w].step \in Stops
  /\ IF At(w, "failed")
     THEN lost' = TRUE /\ UNCHANGED waiting
     ELSE Room /\ Add(run[w].job) /\ UNCHANGED lost
  /\ End(w)
  /\ UNCHANGED <<schedule, tasks, busy, last, edits>>

-----------------------------------------------------------------------------
(* ScheduleTaskController and ScheduleController, at any time.  The place a  *)
(* request asks for is bounded.                                              *)

Place == 1 .. Cardinality(Task)

\* The rows with those in S moved by one.
Up(rows, S) == [t \in Task |-> IF t \in S THEN [rows[t] EXCEPT !.sequence = @ + 1] ELSE rows[t]]
Down(rows, S) == [t \in Task |-> IF t \in S THEN [rows[t] EXCEPT !.sequence = @ - 1] ELSE rows[t]]

Edit ==
  /\ edits < MaxEdits
  /\ edits' = edits + 1
  /\ UNCHANGED <<schedule, busy, waiting, run, last, lost>>

\* A place after the last becomes the one after the last.
AddTask ==
  /\ Edit
  /\ \E t \in Task \ Rows, n \in Place :
       /\ Cardinality(Task) \notin {tasks[u].sequence : u \in Rows}
       /\ n = 1 \/ n - 1 \in {tasks[u].sequence : u \in Rows} \/ After(n - 1) # {}
       /\ tasks' = [Up(tasks, After(n - 1)) EXCEPT ![t] = [sequence |-> n, queued |-> FALSE]]

MoveTask ==
  /\ Edit
  /\ \E t \in Rows, n \in Place :
       LET from == tasks[t].sequence
           pushed == {u \in Rows : n <= tasks[u].sequence /\ tasks[u].sequence < from}
           pulled == {u \in Rows : from < tasks[u].sequence /\ tasks[u].sequence <= n}
       IN tasks' = [Down(Up(tasks, pushed), pulled) EXCEPT ![t].sequence = n]

DeleteTask ==
  /\ Edit
  /\ \E t \in Rows :
       tasks' = [Down(tasks, After(tasks[t].sequence))
                   EXCEPT ![t] = [sequence |-> 0, queued |-> FALSE]]

\* The schedule is switched on or off, which resets its mark.
Toggle ==
  /\ Toggles
  /\ schedule' = [active |-> ~schedule.active, processing |-> FALSE]
  /\ UNCHANGED <<tasks, busy, waiting, run, last, lost, edits>>

-----------------------------------------------------------------------------
(* The server is suspended, reinstalled, restored, and free again.           *)

ServerStatus ==
  /\ busy' = ~busy
  /\ UNCHANGED <<schedule, tasks, waiting, run, last, lost, edits>>

-----------------------------------------------------------------------------

Init ==
  /\ schedule = [active |-> TRUE, processing |-> FALSE]
  /\ tasks = [t \in Task |-> [sequence |-> IF t <= Length THEN t ELSE 0, queued |-> FALSE]]
  /\ busy = FALSE
  /\ waiting = [job \in Job |-> 0]
  /\ run = [p \in Process |-> Idle]
  /\ last = 0
  /\ lost = FALSE
  /\ edits = 0

Continue(p) ==
  \/ CommitStart(p)
  \/ RefuseOffline(p)
  \/ Refuse(p)
  \/ Act(p)
  \/ Advance(p)
  \/ Dispatch(p)
  \/ Done(p)
  \/ Fail(p)

TakeAny(w) == \E job \in Job : Take(w, job)

Next ==
  \/ BeginCron \/ BeginManual
  \/ DispatchFirst \/ RunNow
  \/ \E p \in Process : Continue(p)
  \/ \E w \in Worker : TakeAny(w) \/ Stop(w)
  \/ AddTask \/ MoveTask \/ DeleteTask \/ Toggle
  \/ ServerStatus

Spec == Init /\ [][Next]_vars

\* Processes go on once they have begun, and every worker looks for jobs.
FairSpec ==
  /\ Spec
  /\ \A p \in Process : WF_vars(Continue(p))
  /\ WF_vars(DispatchFirst) /\ WF_vars(RunNow)
  /\ \A w \in Worker : WF_vars(TakeAny(w))

-----------------------------------------------------------------------------
(* Properties.                                                               *)

\* Process p holds the chain: it has begun it or taken its job, and has not
\* yet passed it on or ended it.
Holding(p) ==
  run[p].step \in {"commit", "start", "handle", "advance", "dispatch", "failed"}

\* Whatever is retried or taken again after a stop, two jobs of the schedule
\* never exist side by side as long as only the cron command starts it.  (The
\* query of ProcessRunnableCommand::handle and the marks of RunTaskJob are all
\* that keeps a second chain from being started.)
OneChain ==
  /\ \A p, q \in Process : Holding(p) /\ Holding(q) => p = q
  /\ \A p \in Process : Holding(p) => Pending = {}
  /\ \A i, j \in Pending : i = j /\ waiting[i] = 1

\* The schedule is marked as processing for as long as there is a job of it.
\* (RunTaskJob::markScheduleComplete comes after the last of them only.)
MarkedWhileJob ==
  (Pending # {} \/ \E p \in Process : Holding(p) /\ ~At(p, "commit")) => schedule.processing

\* As long as the schedule is marked there is a job that will end in resetting the
\* mark, or in another such job, even when chains overlap, tasks are edited and
\* workers stop anywhere: unless one was dropped, the schedule can always be
\* started again.  (Every way out of RunTaskJob::handle, and RunTaskJob::failed.)
JobWhileMarked ==
  schedule.processing =>
    lost \/ Pending # {} \/ \E p \in Process : Holding(p) /\ ~At(p, "commit")

\* When nothing is left to do nothing is left marked: neither the schedule,
\* which would not be started again, nor one of its tasks.  (Every way out of
\* RunTaskJob::handle, and RunTaskJob::failed.)
NothingLeftMarked ==
  (Pending = {} /\ Busy = {}) =>
    lost \/ (~schedule.processing /\ \A t \in Rows : ~tasks[t].queued)

\* A run attempts one task after another, in the order of their sequence,
\* and passes over none.  (RunTaskJob::queueNextTask.)
ScheduleRunOf == INSTANCE ScheduleRun WITH running <- schedule.processing
ImplementsRun == ScheduleRunOf!Spec

\* A schedule that is processing comes to its end, though workers stop, jobs
\* throw, users run it by hand, switch it or change its tasks: unless a job
\* was dropped.  (RunTaskJob; Illuminate's queue worker.)
ScheduleCompletes == schedule.processing ~> ~schedule.processing \/ lost
=============================================================================
