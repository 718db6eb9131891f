-------------------------- MODULE SchedulesProofs --------------------------
(***************************************************************************)
(* What holds of Schedules for any tasks, any number of queue workers and  *)
(* of attempts.  Types, and that a mark has a job, hold without            *)
(* conditions.  The rest is about a schedule that only the cron command    *)
(* starts and nobody switches, and whose workers do not stop between the   *)
(* dispatch of the next job and the removal of their own.                  *)
(***************************************************************************)
EXTENDS Schedules, FiniteSetTheorems, TLAPS

-----------------------------------------------------------------------------
(* Types.  TypeOK is not inductive: a worker counts one more attempt when it  *)
(* takes a job, so that what waits, and what may be released to wait again,   *)
(* must have been attempted MaxAttempts times at most.                        *)

QueueInv ==
  /\ waiting \in [Job -> Nat]
  /\ \A job \in Job : waiting[job] > 0 => job.attempts <= MaxAttempts

Limited(r) == r.step = "failed" \/ r.job.attempts <= MaxAttempts

RunsInv ==
  /\ run \in [Process -> Run]
  /\ \A p \in Process : Limited(run[p])

TypeInv == TypeOK /\ QueueInv /\ RunsInv

\* The places there may be.
Most == Cardinality(Task)

LEMMA MostType == Most \in Nat \ {0} /\ Length <= Most
<1>1. Most \in Nat /\ Most # 0
  BY FS_CardinalityType, FS_EmptySet, TaskAssumption DEF Most
<1>2. Cardinality(1 .. Length) <= Most
  BY FS_Subset, TaskAssumption, LengthAssumption DEF Most
<1>3. Cardinality(1 .. Length) = Length
  BY FS_Interval, LengthAssumption
<1> QED
  BY <1>1, <1>2, <1>3

LEMMA ProcessType == "cron" \in Process /\ "web" \in Process /\ Worker \subseteq Process
BY DEF Process

LEMMA IdleType ==
  /\ Idle \in Run /\ Idle.job \in Job
  /\ Idle.step = "idle" /\ Idle.job.attempts = 0 /\ ~Idle.processing
<1>1. AnyTask \in Task
  BY TaskAssumption DEF AnyTask
<1>2. [task |-> AnyTask, manual |-> FALSE, attempts |-> 0] \in Job
  BY <1>1, BoundsAssumption DEF Job
<1>3. 0 \in 0 .. Cardinality(Task)
  BY MostType DEF Most
<1> QED
  BY <1>1, <1>2, <1>3 DEF Idle, Run, Step

LEMMA RunType ==
  ASSUME TypeInv, NEW p \in Process
  PROVE  /\ run[p] \in Run /\ run[p].job \in Job /\ run[p].job.task \in Task
         /\ run[p].next \in Task /\ run[p].sequence \in 0 .. Most
         /\ run[p].job.attempts \in Nat /\ run[p].job.manual \in BOOLEAN
         /\ run[p].queued \in BOOLEAN
         /\ Limited(run[p])
BY DEF TypeInv, RunsInv, Run, Job, Most

LEMMA LoadedType ==
  ASSUME TypeInv, NEW step \in Step, NEW job \in Job
  PROVE  /\ Loaded(step, job) \in Run
         /\ Loaded(step, job).step = step
         /\ Loaded(step, job).job = job
         /\ Loaded(step, job).sequence = tasks[job.task].sequence
         /\ Loaded(step, job).queued = tasks[job.task].queued
         /\ ~Loaded(step, job).processing
<1>1. tasks[job.task] \in Row
  BY DEF TypeInv, TypeOK, Job
<1> QED
  BY <1>1, IdleType DEF Loaded, Idle, Run, Row

\* Marks change no sequence.
LEMMA MarkedType ==
  ASSUME NEW rows \in [Task -> Row], NEW t \in Task, NEW mark \in BOOLEAN
  PROVE  /\ Marked(rows, t, mark) \in [Task -> Row]
         /\ \A u \in Task : Marked(rows, t, mark)[u].sequence = rows[u].sequence
         /\ \A u \in Task \ {t} : Marked(rows, t, mark)[u] = rows[u]
         /\ rows[t].sequence > 0 => Marked(rows, t, mark)[t].queued = mark
         /\ ~(rows[t].sequence > 0) => Marked(rows, t, mark) = rows
BY DEF Marked, Row

LEMMA UnmarkedType ==
  ASSUME TypeInv, NEW p \in Process
  PROVE  /\ Unmarked(p) \in [Task -> Row]
         /\ \A u \in Task : Unmarked(p)[u].sequence = tasks[u].sequence
         /\ \A u \in Task : Unmarked(p)[u].queued => tasks[u].queued
         /\ run[p].queued /\ tasks[run[p].job.task].sequence > 0 =>
              ~Unmarked(p)[run[p].job.task].queued
<1>1. run[p].job.task \in Task /\ tasks \in [Task -> Row]
  BY RunType DEF TypeInv, TypeOK
<1> QED
  BY <1>1 DEF Unmarked, Marked, Row

LEMMA CompletedType ==
  ASSUME TypeInv, Completed
  PROVE  schedule' \in Schedule /\ ~schedule'.processing
BY DEF TypeInv, TypeOK, Completed, Schedule

\* A job is added to the queue.
LEMMA AddOf ==
  ASSUME TypeInv, NEW job \in Job, Add(job)
  PROVE  /\ waiting' \in [Job -> Nat]
         /\ waiting'[job] = waiting[job] + 1
         /\ \A i \in Job \ {job} : waiting'[i] = waiting[i]
         /\ Pending' = Pending \cup {job}
         /\ job.attempts <= MaxAttempts => QueueInv'
<1>1. /\ waiting' \in [Job -> Nat]
      /\ waiting'[job] = waiting[job] + 1
      /\ \A i \in Job \ {job} : waiting'[i] = waiting[i]
  BY DEF TypeInv, QueueInv, Add
<1>2. Pending' = Pending \cup {job}
  BY <1>1 DEF Pending, TypeInv, QueueInv
<1>3. job.attempts <= MaxAttempts => QueueInv'
  BY <1>1 DEF TypeInv, QueueInv
<1> QED
  BY <1>1, <1>2, <1>3

\* A process changes what it is doing; no other one does.
LEMMA RunsStep ==
  ASSUME TypeInv, NEW p \in Process, NEW r \in Run, Limited(r),
         run' = [run EXCEPT ![p] = r]
  PROVE  RunsInv' /\ run'[p] = r /\ \A q \in Process \ {p} : run'[q] = run[q]
BY DEF TypeInv, RunsInv

LEMMA EndOf ==
  ASSUME TypeInv, NEW p \in Process, End(p)
  PROVE  /\ RunsInv'
         /\ ~Holding(p)' /\ ~At(p, "commit")'
         /\ \A q \in Process \ {p} : run'[q] = run[q]
<1>1. Limited(Idle)
  BY IdleType, BoundsAssumption DEF Limited
<1>2. RunsInv' /\ run'[p] = Idle /\ \A q \in Process \ {p} : run'[q] = run[q]
  BY <1>1, IdleType, RunsStep DEF End
<1> QED
  BY <1>2, IdleType DEF Holding, At

LEMMA GotoOf ==
  ASSUME TypeInv, NEW p \in Process, NEW step \in Step, Goto(p, step),
         step = "failed" \/ ~At(p, "failed")
  PROVE  /\ RunsInv'
         /\ run'[p].step = step
         /\ run'[p] = [run[p] EXCEPT !.step = step]
         /\ \A q \in Process \ {p} : run'[q] = run[q]
<1> DEFINE r == [run[p] EXCEPT !.step = step]
<1>1. r \in Run /\ r.step = step /\ r.job = run[p].job
  BY RunType DEF Run
<1>2. Limited(r)
  BY <1>1, RunType DEF Limited, At
<1>3. run' = [run EXCEPT ![p] = r]
  BY DEF Goto
<1> HIDE DEF r
<1>4. RunsInv' /\ run'[p] = r /\ \A q \in Process \ {p} : run'[q] = run[q]
  BY <1>1, <1>2, <1>3, RunsStep
<1> QED
  BY <1>1, <1>4 DEF r

-----------------------------------------------------------------------------
(* Edits keep the sequence between 1 and the number of tasks. *)

LEMMA UpType ==
  ASSUME NEW rows \in [Task -> Row], NEW S, \A u \in Task : u \in S => rows[u].sequence < Most
  PROVE  /\ Up(rows, S) \in [Task -> Row]
         /\ \A u \in Task : u \in S => Up(rows, S)[u].sequence = rows[u].sequence + 1
         /\ \A u \in Task : u \notin S => Up(rows, S)[u] = rows[u]
         /\ \A u \in Task : Up(rows, S)[u].queued = rows[u].queued
BY MostType DEF Up, Row, Most

LEMMA DownType ==
  ASSUME NEW rows \in [Task -> Row], NEW S, \A u \in Task : u \in S => rows[u].sequence > 0
  PROVE  /\ Down(rows, S) \in [Task -> Row]
         /\ \A u \in Task : u \in S => Down(rows, S)[u].sequence = rows[u].sequence - 1
         /\ \A u \in Task : u \notin S => Down(rows, S)[u] = rows[u]
         /\ \A u \in Task : Down(rows, S)[u].queued = rows[u].queued
BY MostType DEF Down, Row, Most

\* What an edit makes of the rows: no row is marked that was not.
LEMMA EditOf ==
  ASSUME TypeInv, AddTask \/ MoveTask \/ DeleteTask
  PROVE  /\ tasks' \in [Task -> Row]
         /\ \A u \in Task : tasks'[u].sequence > 0 /\ tasks'[u].queued =>
                            tasks[u].sequence > 0 /\ tasks[u].queued
<1>1. tasks \in [Task -> Row] /\ \A u \in Task : tasks[u].sequence \in 0 .. Most
  BY DEF TypeInv, TypeOK, Row, Most
<1>2. Place \subseteq 1 .. Most
  BY MostType DEF Place, Most
<1>3. CASE AddTask
  <2>1. PICK t \in Task \ Rows, n \in Place :
          /\ Cardinality(Task) \notin {tasks[u].sequence : u \in Rows}
          /\ tasks' = [Up(tasks, After(n - 1)) EXCEPT ![t] = [sequence |-> n, queued |-> FALSE]]
    BY <1>3 DEF AddTask
  <2> DEFINE later == After(n - 1)
             moved == Up(tasks, later)
  <2>2. \A u \in Task : u \in later => tasks[u].sequence > 0 /\ tasks[u].sequence < Most
    BY <1>1, <2>1, MostType DEF After, Rows, Most
  <2>3. [sequence |-> n, queued |-> FALSE] \in Row
    BY <1>2, MostType DEF Row, Most
  <2> HIDE DEF later
  <2>4. /\ moved \in [Task -> Row]
        /\ \A u \in Task : u \notin later => moved[u] = tasks[u]
        /\ \A u \in Task : moved[u].queued = tasks[u].queued
    BY <1>1, <2>2, UpType
  <2>5. tasks' = [moved EXCEPT ![t] = [sequence |-> n, queued |-> FALSE]]
    BY <2>1 DEF later
  <2> HIDE DEF moved
  <2> QED
    BY <1>1, <2>2, <2>3, <2>4, <2>5
<1>4. CASE MoveTask
  <2>1. PICK t \in Rows, n \in Place :
          tasks' = [Down(Up(tasks, {u \in Rows : n <= tasks[u].sequence /\ tasks[u].sequence < tasks[t].sequence}),
                         {u \in Rows : tasks[t].sequence < tasks[u].sequence /\ tasks[u].sequence <= n})
                      EXCEPT ![t].sequence = n]
    BY <1>4 DEF MoveTask
  <2> DEFINE pushed == {u \in Rows : n <= tasks[u].sequence /\ tasks[u].sequence < tasks[t].sequence}
             pulled == {u \in Rows : tasks[t].sequence < tasks[u].sequence /\ tasks[u].sequence <= n}
             up == Up(tasks, pushed)
             down == Down(up, pulled)
  <2>2. t \in Task /\ n \in 0 .. Most /\ tasks[t].sequence > 0
    BY <1>2, MostType DEF Rows
  <2>3. /\ \A u \in Task : u \in pushed => tasks[u].sequence < Most /\ tasks[u].sequence > 0
        /\ \A u \in Task : u \in pulled => u \notin pushed /\ tasks[u].sequence > 0
    BY <1>1, <2>2, MostType DEF Rows
  <2>4. tasks' = [down EXCEPT ![t].sequence = n]
    BY <2>1
  <2> HIDE DEF pushed, pulled
  <2>5. /\ up \in [Task -> Row]
        /\ \A u \in Task : u \notin pushed => up[u] = tasks[u]
        /\ \A u \in Task : up[u].queued = tasks[u].queued
    BY <1>1, <2>3, UpType
  <2> HIDE DEF up
  <2>6. /\ down \in [Task -> Row]
        /\ \A u \in Task : u \notin pulled => down[u] = up[u]
        /\ \A u \in Task : down[u].queued = up[u].queued
    <3>1. \A u \in Task : u \in pulled => up[u].sequence > 0
      BY <2>3, <2>5
    <3> QED
      BY <2>5, <3>1, DownType
  <2> HIDE DEF down
  <2>7. tasks' \in [Task -> Row]
    BY <2>2, <2>4, <2>6 DEF Row, Most
  <2>8. ASSUME NEW u \in Task, tasks'[u].sequence > 0, tasks'[u].queued
        PROVE  tasks[u].sequence > 0 /\ tasks[u].queued
    <3>1. tasks'[u].queued = down[u].queued
      BY <2>2, <2>4, <2>6 DEF Row
    <3>2. tasks[u].queued
      BY <2>5, <2>6, <2>8, <3>1
    <3>3. CASE u = t
      BY <2>2, <3>2, <3>3
    <3>4. CASE u # t
      <4>1. tasks'[u] = down[u]
        BY <2>2, <2>4, <2>6, <3>4
      <4> QED
        BY <2>3, <2>5, <2>6, <2>8, <3>2, <4>1
    <3> QED
      BY <3>3, <3>4
  <2> QED
    BY <2>7, <2>8
<1>5. CASE DeleteTask
  <2>1. PICK t \in Rows :
          tasks' = [Down(tasks, After(tasks[t].sequence)) EXCEPT ![t] = [sequence |-> 0, queued |-> FALSE]]
    BY <1>5 DEF DeleteTask
  <2> DEFINE later == After(tasks[t].sequence)
             moved == Down(tasks, later)
  <2>2. \A u \in Task : u \in later => tasks[u].sequence > 0
    BY <1>1 DEF After, Rows
  <2>3. [sequence |-> 0, queued |-> FALSE] \in Row
    BY MostType DEF Row, Most
  <2> HIDE DEF later
  <2>4. /\ moved \in [Task -> Row]
        /\ \A u \in Task : u \notin later => moved[u] = tasks[u]
        /\ \A u \in Task : moved[u].queued = tasks[u].queued
    BY <1>1, <2>2, DownType
  <2>5. tasks' = [moved EXCEPT ![t] = [sequence |-> 0, queued |-> FALSE]] /\ t \in Task
    BY <2>1 DEF later, Rows
  <2> HIDE DEF moved
  <2> QED
    BY <1>1, <2>2, <2>3, <2>4, <2>5
<1> QED
  BY <1>3, <1>4, <1>5

-----------------------------------------------------------------------------

\* A process ends, or goes on, and at most adds its job to the queue again.
LEMMA ThrowType ==
  ASSUME TypeInv, NEW p \in Process, At(p, "handle"), Throw(p)
  PROVE  /\ schedule' \in Schedule /\ tasks' \in [Task -> Row]
         /\ QueueInv' /\ RunsInv'
<1>1. schedule \in Schedule /\ tasks \in [Task -> Row] /\ QueueInv
  BY DEF TypeInv, TypeOK
<1>2. "failed" \in Step
  BY DEF Step
<1>3. CASE p = "web"
  <2>1. tasks' = Unmarked(p) /\ Completed /\ End(p) /\ UNCHANGED waiting
    BY <1>3 DEF Throw
  <2> QED
    BY <1>1, <2>1, UnmarkedType, CompletedType, EndOf DEF QueueInv
<1>4. CASE p # "web" /\ run[p].job.attempts < MaxAttempts
  <2>1. Add(run[p].job) /\ End(p) /\ UNCHANGED <<schedule, tasks>>
    BY <1>4 DEF Throw
  <2>2. run[p].job \in Job /\ run[p].job.attempts <= MaxAttempts
    BY <1>4, RunType, BoundsAssumption
  <2> QED
    BY <1>1, <2>1, <2>2, AddOf, EndOf
<1>5. CASE p # "web" /\ ~(run[p].job.attempts < MaxAttempts)
  <2>1. Goto(p, "failed") /\ UNCHANGED <<schedule, tasks, waiting>>
    BY <1>5 DEF Throw
  <2> QED
    BY <1>1, <1>2, <2>1, GotoOf DEF QueueInv
<1> QED
  BY <1>3, <1>4, <1>5

LEMMA ContinueType ==
  ASSUME TypeInv, NEW p \in Process, Continue(p)
  PROVE  TypeInv'
<1>0. /\ schedule \in Schedule /\ tasks \in [Task -> Row] /\ QueueInv
      /\ busy \in BOOLEAN /\ last \in 0 .. Most /\ lost \in BOOLEAN /\ edits \in 0 .. MaxEdits
  BY DEF TypeInv, TypeOK, Most
<1>1. ASSUME schedule' \in Schedule, tasks' \in [Task -> Row], QueueInv', RunsInv',
             UNCHANGED <<busy, edits>>, last' \in 0 .. Most, lost' \in BOOLEAN
      PROVE  TypeInv'
  BY <1>0, <1>1 DEF TypeInv, TypeOK, QueueInv, RunsInv, Most
<1>2. UNCHANGED waiting => QueueInv'
  BY <1>0 DEF QueueInv
<1>3. {"start", "handle", "advance", "dispatch", "done", "failed"} \subseteq Step
  BY DEF Step
<1>4. CASE CommitStart(p)
  <2> DEFINE r == [run[p] EXCEPT !.step = "start", !.queued = TRUE, !.processing = FALSE]
  <2>1. r \in Run /\ r.step = "start" /\ r.job = run[p].job
    BY <1>3, RunType DEF Run
  <2>2. Limited(r)
    BY <1>4, <2>1, RunType DEF CommitStart, Limited, At
  <2>3. run' = [run EXCEPT ![p] = r]
    BY <1>4 DEF CommitStart
  <2> HIDE DEF r
  <2>4. RunsInv'
    BY <2>1, <2>2, <2>3, RunsStep
  <2>5. tasks' \in [Task -> Row]
    BY <1>0, <1>4, RunType DEF CommitStart, Marked, Row
  <2>6. schedule' \in Schedule
    BY <1>0, <1>4, RunType DEF CommitStart, Schedule
  <2>7. last' \in 0 .. Most /\ UNCHANGED <<busy, waiting, lost, edits>>
    BY <1>4, MostType DEF CommitStart
  <2> QED
    BY <1>0, <1>1, <1>2, <2>4, <2>5, <2>6, <2>7
<1>5. CASE RefuseOffline(p)
  BY <1>0, <1>1, <1>2, <1>5, UnmarkedType, CompletedType, EndOf DEF RefuseOffline
<1>6. CASE Refuse(p)
  <2>1. RunsInv'
    BY <1>3, <1>6, GotoOf DEF Refuse, At
  <2> QED
    BY <1>0, <1>1, <1>2, <1>6, <2>1, UnmarkedType, CompletedType DEF Refuse
<1>7. CASE Act(p)
  <2>1. At(p, "handle") /\ last' = run[p].sequence /\ UNCHANGED <<busy, lost, edits>>
    BY <1>7 DEF Act
  <2>2. \/ Goto(p, "advance") /\ UNCHANGED <<schedule, tasks, waiting>>
        \/ Throw(p)
    BY <1>7 DEF Act
  <2>3. schedule' \in Schedule /\ tasks' \in [Task -> Row] /\ QueueInv' /\ RunsInv'
    BY <1>0, <1>2, <1>3, <2>1, <2>2, GotoOf, ThrowType DEF At
  <2> QED
    BY <1>0, <1>1, <2>1, <2>3, RunType
<1>8. CASE Advance(p)
  <2>1. At(p, "advance") /\ UNCHANGED <<busy, waiting, last, lost, edits>>
    BY <1>8 DEF Advance
  <2>2. CASE After(run[p].sequence) = {}
    <3>1. tasks' = Unmarked(p) /\ Completed /\ Goto(p, "done")
      BY <1>8, <2>2 DEF Advance
    <3>2. RunsInv'
      BY <1>3, <2>1, <3>1, GotoOf DEF At
    <3> QED
      BY <1>0, <1>1, <1>2, <2>1, <3>1, <3>2, UnmarkedType, CompletedType
  <2>3. CASE After(run[p].sequence) # {}
    <3>1. PICK t \in Task :
            /\ tasks' = Marked(Unmarked(p), t, TRUE)
            /\ run' = [run EXCEPT ![p].step = "dispatch", ![p].next = t]
      BY <1>8, <2>3 DEF Advance, After, Rows
    <3>2. UNCHANGED schedule
      BY <1>8, <2>3 DEF Advance
    <3> DEFINE r == [run[p] EXCEPT !.step = "dispatch", !.next = t]
    <3>3. r \in Run /\ r.step = "dispatch" /\ r.job = run[p].job
      BY <1>3, RunType DEF Run
    <3>4. Limited(r)
      BY <2>1, <3>3, RunType DEF Limited, At
    <3>5. run' = [run EXCEPT ![p] = r]
      BY <3>1
    <3> HIDE DEF r
    <3>6. RunsInv'
      BY <3>3, <3>4, <3>5, RunsStep
    <3>7. tasks' \in [Task -> Row]
      <4> DEFINE rows == Unmarked(p)
      <4>1. rows \in [Task -> Row] /\ tasks' = Marked(rows, t, TRUE)
        BY <3>1, UnmarkedType
      <4> HIDE DEF rows
      <4> QED
        BY <4>1 DEF Marked, Row
    <3> QED
      BY <1>0, <1>1, <1>2, <2>1, <3>2, <3>6, <3>7
  <2> QED
    BY <2>2, <2>3
<1>9. CASE Dispatch(p)
  <2> DEFINE job == [task |-> run[p].next, manual |-> run[p].job.manual, attempts |-> 0]
  <2>1. job \in Job /\ job.attempts <= MaxAttempts
    BY RunType, BoundsAssumption DEF Job
  <2>2. /\ At(p, "dispatch") /\ Add(job) /\ Goto(p, "done")
        /\ UNCHANGED <<schedule, tasks, busy, last, lost, edits>>
    BY <1>9 DEF Dispatch
  <2> HIDE DEF job
  <2>3. QueueInv' /\ RunsInv'
    BY <1>3, <2>1, <2>2, AddOf, GotoOf DEF At
  <2> QED
    BY <1>0, <1>1, <2>2, <2>3
<1>10. CASE Done(p)
  BY <1>0, <1>1, <1>2, <1>10, EndOf DEF Done
<1>11. CASE Fail(p)
  <2>1. End(p) /\ UNCHANGED <<busy, waiting, last, edits>>
    BY <1>11 DEF Fail
  <2>2. CASE run[p].job.task \in Rows
    <3>1. tasks' = Marked(tasks, run[p].job.task, FALSE) /\ Completed /\ UNCHANGED lost
      BY <1>11, <2>2 DEF Fail
    <3>2. tasks' \in [Task -> Row]
      BY <1>0, <3>1, RunType DEF Marked, Row
    <3> QED
      BY <1>0, <1>1, <1>2, <2>1, <3>1, <3>2, CompletedType, EndOf
  <2>3. CASE run[p].job.task \notin Rows
    <3>1. lost' = TRUE /\ UNCHANGED <<schedule, tasks>>
      BY <1>11, <2>3 DEF Fail
    <3> QED
      BY <1>0, <1>1, <1>2, <2>1, <3>1, EndOf
  <2> QED
    BY <2>2, <2>3
<1> QED
  BY <1>4, <1>5, <1>6, <1>7, <1>8, <1>9, <1>10, <1>11 DEF Continue

\* A worker takes a job: what it was attempted is counted.
LEMMA TakeOf ==
  ASSUME TypeInv, NEW w \in Worker, NEW job \in Job, Take(w, job)
  PROVE  /\ w \in Process /\ run[w] = Idle /\ waiting[job] > 0
         /\ UNCHANGED <<schedule, tasks, busy, last, edits>>
         /\ waiting' \in [Job -> Nat] /\ waiting'[job] = waiting[job] - 1
         /\ \A i \in Job \ {job} : waiting'[i] = waiting[i]
         /\ QueueInv' /\ RunsInv'
         /\ \/ lost' = TRUE /\ UNCHANGED run
            \/ /\ UNCHANGED lost /\ job.task \in Rows
               /\ \A q \in Process \ {w} : run'[q] = run[q]
               /\ run'[w].step \in {"failed", "handle"}
               /\ run'[w].job.task = job.task
               /\ run'[w].sequence = tasks[job.task].sequence
               /\ run'[w].queued = tasks[job.task].queued
<1> DEFINE taken == [job EXCEPT !.attempts = @ + 1]
           step == IF taken.attempts > MaxAttempts THEN "failed" ELSE "handle"
<1>1. /\ w \in Process /\ run[w] = Idle /\ waiting[job] > 0
      /\ UNCHANGED <<schedule, tasks, busy, last, edits>>
      /\ waiting' = [waiting EXCEPT ![job] = @ - 1]
  BY ProcessType DEF Take
<1>2. /\ waiting' \in [Job -> Nat] /\ waiting'[job] = waiting[job] - 1
      /\ \A i \in Job \ {job} : waiting'[i] = waiting[i]
  BY <1>1 DEF TypeInv, QueueInv
<1>3. QueueInv'
  BY <1>1, <1>2 DEF TypeInv, QueueInv
<1>4. CASE job.task \notin Rows
  BY <1>1, <1>2, <1>3, <1>4 DEF Take, TypeInv, RunsInv
<1>5. CASE job.task \in Rows
  <2>1. job.attempts \in Nat /\ job.attempts <= MaxAttempts
    BY <1>1 DEF TypeInv, QueueInv, Job
  <2>2. taken \in Job /\ taken.task = job.task /\ taken.attempts = job.attempts + 1
    BY <2>1, BoundsAssumption DEF Job
  <2>3. step \in {"failed", "handle"} /\ step \in Step
        /\ (step = "failed" \/ taken.attempts <= MaxAttempts)
    BY <2>1, <2>2, BoundsAssumption DEF Step
  <2>4. run' = [run EXCEPT ![w] = Loaded(step, taken)] /\ UNCHANGED lost
    BY <1>5 DEF Take
  <2> HIDE DEF taken, step
  <2> DEFINE r == Loaded(step, taken)
  <2>5. /\ r \in Run /\ r.step = step /\ r.job = taken
        /\ r.sequence = tasks[job.task].sequence /\ r.queued = tasks[job.task].queued
    BY <2>2, <2>3, LoadedType
  <2>6. Limited(r)
    BY <2>3, <2>5 DEF Limited
  <2>7. run' = [run EXCEPT ![w] = r]
    BY <2>4
  <2> HIDE DEF r
  <2>8. RunsInv' /\ run'[w] = r /\ \A q \in Process \ {w} : run'[q] = run[q]
    BY <1>1, <2>5, <2>6, <2>7, RunsStep
  <2> QED
    BY <1>1, <1>2, <1>3, <1>5, <2>2, <2>3, <2>4, <2>5, <2>8
<1> QED
  BY <1>4, <1>5

\* A start begins, with the first task.
LEMMA BeginOf ==
  ASSUME TypeInv, BeginCron \/ BeginManual
  PROVE  /\ UNCHANGED <<schedule, tasks, busy, waiting, last, lost, edits>>
         /\ RunsInv'
         /\ \E t \in Rows :
              /\ IsFirstOf(t, Rows)
              /\ BeginCron =>
                   /\ run'["cron"].step = "commit" /\ run'["cron"].job.task = t
                   /\ run'["cron"].sequence = tasks[t].sequence
                   /\ ~run'["cron"].processing
                   /\ \A q \in Process \ {"cron"} : run'[q] = run[q]
<1>1. UNCHANGED <<schedule, tasks, busy, waiting, last, lost, edits>>
  BY DEF BeginCron, BeginManual
<1>2. "commit" \in Step
  BY DEF Step
<1>4. CASE BeginCron
  <2>1. PICK t \in Rows :
          /\ IsFirstOf(t, Rows)
          /\ run' = [run EXCEPT !["cron"] =
                       Loaded("commit", [task |-> t, manual |-> FALSE, attempts |-> 0])]
    BY <1>4 DEF BeginCron
  <2> DEFINE job == [task |-> t, manual |-> FALSE, attempts |-> 0]
             r == Loaded("commit", job)
  <2>2. /\ r \in Run /\ r.step = "commit" /\ r.job.task = t /\ r.job.attempts = 0
        /\ r.sequence = tasks[t].sequence /\ ~r.processing
    <3>1. job \in Job /\ job.task = t /\ job.attempts = 0
      BY BoundsAssumption DEF Rows, Job
    <3> HIDE DEF job
    <3> QED
      BY <1>2, <3>1, LoadedType
  <2>3. run' = [run EXCEPT !["cron"] = r]
    BY <2>1
  <2>4. Limited(r)
    BY <2>2, BoundsAssumption DEF Limited
  <2> HIDE DEF r
  <2>5. RunsInv' /\ run'["cron"] = r /\ \A q \in Process \ {"cron"} : run'[q] = run[q]
    BY <2>2, <2>3, <2>4, ProcessType, RunsStep
  <2> QED
    BY <1>1, <2>1, <2>2, <2>5
<1>5. CASE BeginManual /\ ~BeginCron
  <2>1. PICK t \in Rows :
          /\ IsFirstOf(t, Rows)
          /\ run' = [run EXCEPT !["web"] =
                       [Loaded("commit", [task |-> t, manual |-> TRUE, attempts |-> 0])
                          EXCEPT !.processing = schedule.processing]]
    BY <1>5 DEF BeginManual
  <2> DEFINE job == [task |-> t, manual |-> TRUE, attempts |-> 0]
             r == [Loaded("commit", job) EXCEPT !.processing = schedule.processing]
  <2>2. r \in Run /\ r.job.attempts = 0
    <3>1. schedule.processing \in BOOLEAN
      BY DEF TypeInv, TypeOK, Schedule
    <3>2. job \in Job /\ job.attempts = 0
      BY BoundsAssumption DEF Rows, Job
    <3> HIDE DEF job
    <3>3. Loaded("commit", job) \in Run /\ Loaded("commit", job).job = job
      BY <1>2, <3>2, LoadedType
    <3> QED
      BY <3>1, <3>2, <3>3 DEF Run
  <2>3. run' = [run EXCEPT !["web"] = r]
    BY <2>1
  <2>4. Limited(r)
    BY <2>2, BoundsAssumption DEF Limited
  <2> HIDE DEF r
  <2>5. RunsInv'
    BY <2>2, <2>3, <2>4, ProcessType, RunsStep
  <2> QED
    BY <1>1, <1>5, <2>1, <2>5
<1> QED
  BY <1>4, <1>5

LEMMA TypeStep ==
  ASSUME TypeInv, Next
  PROVE  TypeInv'
<1>0. /\ schedule \in Schedule /\ tasks \in [Task -> Row] /\ QueueInv /\ RunsInv
      /\ busy \in BOOLEAN /\ last \in 0 .. Most /\ lost \in BOOLEAN /\ edits \in 0 .. MaxEdits
  BY DEF TypeInv, TypeOK, Most
<1>1. ASSUME schedule' \in Schedule, tasks' \in [Task -> Row], QueueInv', RunsInv',
             busy' \in BOOLEAN, last' \in 0 .. Most, lost' \in BOOLEAN, edits' \in 0 .. MaxEdits
      PROVE  TypeInv'
  BY <1>1 DEF TypeInv, TypeOK, QueueInv, RunsInv, Most
<1>2. UNCHANGED waiting => QueueInv'
  BY <1>0 DEF QueueInv
<1>3. UNCHANGED run => RunsInv'
  BY <1>0 DEF RunsInv
<1>4. CASE BeginCron \/ BeginManual
  BY <1>0, <1>1, <1>2, <1>4, BeginOf
<1>5. CASE DispatchFirst
  <2>1. run["cron"].job \in Job /\ run["cron"].job.attempts <= MaxAttempts
    BY <1>5, ProcessType, RunType DEF DispatchFirst, Limited, At
  <2> QED
    BY <1>0, <1>1, <1>5, <2>1, AddOf, EndOf, ProcessType DEF DispatchFirst
<1>6. CASE RunNow
  <2>1. RunsInv'
    BY <1>6, GotoOf, ProcessType DEF RunNow, At, Step
  <2> QED
    BY <1>0, <1>1, <1>2, <1>6, <2>1 DEF RunNow
<1>7. ASSUME NEW w \in Worker, NEW job \in Job, Take(w, job)
      PROVE  TypeInv'
  BY <1>0, <1>1, <1>7, TakeOf
<1>8. ASSUME NEW w \in Worker, Stop(w)
      PROVE  TypeInv'
  <2>1. w \in Process /\ End(w) /\ UNCHANGED <<schedule, tasks, busy, last, edits>>
    BY <1>8, ProcessType DEF Stop
  <2>2. CASE At(w, "failed")
    BY <1>0, <1>1, <1>2, <1>8, <2>1, <2>2, EndOf DEF Stop
  <2>3. CASE ~At(w, "failed")
    <3>1. run[w].job \in Job /\ run[w].job.attempts <= MaxAttempts
      BY <2>1, <2>3, RunType DEF Limited, At
    <3> QED
      BY <1>0, <1>1, <1>8, <2>1, <2>3, <3>1, AddOf, EndOf DEF Stop
  <2> QED
    BY <2>2, <2>3
<1>9. CASE AddTask \/ MoveTask \/ DeleteTask
  <2>1. edits' \in 0 .. MaxEdits /\ UNCHANGED <<schedule, busy, waiting, run, last, lost>>
    BY <1>0, <1>9, BoundsAssumption DEF AddTask, MoveTask, DeleteTask, Edit
  <2> QED
    BY <1>0, <1>1, <1>2, <1>3, <1>9, <2>1, EditOf
<1>10. CASE Toggle
  <2>1. schedule' \in Schedule
    BY <1>0, <1>10 DEF Toggle, Schedule
  <2> QED
    BY <1>0, <1>1, <1>2, <1>3, <1>10, <2>1 DEF Toggle
<1>11. CASE ServerStatus
  BY <1>0, <1>1, <1>2, <1>3, <1>11 DEF ServerStatus
<1> QED
  BY <1>4, <1>5, <1>6, <1>7, <1>8, <1>9, <1>10, <1>11, ContinueType DEF Next, TakeAny

LEMMA TypeInvariant == Spec => []TypeInv
<1>1. Init => TypeInv
  <2> SUFFICES ASSUME Init PROVE TypeInv
    OBVIOUS
  <2>1. tasks \in [Task -> Row]
    <3>1. \A t \in Task : (IF t <= Length THEN t ELSE 0) \in 0 .. Cardinality(Task)
      BY MostType, TaskAssumption, LengthAssumption DEF Most
    <3> QED
      BY <3>1 DEF Init, Row
  <2>2. 0 \in 0 .. Cardinality(Task) /\ 0 \in 0 .. MaxEdits
    BY MostType, BoundsAssumption DEF Most
  <2>3. QueueInv /\ RunsInv
    BY IdleType, BoundsAssumption DEF Init, QueueInv, RunsInv, Limited
  <2> QED
    BY <2>1, <2>2, <2>3 DEF Init, TypeInv, TypeOK, QueueInv, RunsInv, Schedule
<1>2. TypeInv /\ [Next]_vars => TypeInv'
  <2> SUFFICES ASSUME TypeInv, [Next]_vars PROVE TypeInv'
    OBVIOUS
  <2>1. CASE UNCHANGED vars
    BY <2>1 DEF vars, TypeInv, TypeOK, QueueInv, RunsInv
  <2> QED
    BY <2>1, TypeStep
<1> QED
  BY <1>1, <1>2, PTL DEF Spec

\* Every variable keeps its type: no job is attempted more than MaxAttempts times
\* and failed, and no task is put outside 1 .. the number of tasks, however tasks
\* are added, moved and deleted.  (RunTaskJob, ScheduleTaskController.)
THEOREM TypeCorrect == Spec => []TypeOK
<1>1. TypeInv => TypeOK
  BY DEF TypeInv
<1> QED
  BY <1>1, TypeInvariant, PTL

-----------------------------------------------------------------------------
(* The chain of jobs.  OneChain and MarkedWhileJob support each other.  A     *)
(* start that is not yet committed is cron's, and the schedule is not marked. *)

ChainInv ==
  /\ OneChain
  /\ MarkedWhileJob
  /\ \A p \in Process : At(p, "commit") => p = "cron" /\ ~run[p].processing /\ ~schedule.processing
  /\ run["web"].step = "idle"

\* Process p is at work on a task, or between two of them.
Working(p) == Holding(p) /\ ~At(p, "commit")

LEMMA HoldsAlone ==
  ASSUME ChainInv, NEW p \in Process, Holding(p)
  PROVE  /\ p # "web" /\ Pending = {}
         /\ \A q \in Process \ {p} : ~Holding(q) /\ ~At(q, "commit")
         /\ Working(p) => schedule.processing
BY DEF ChainInv, OneChain, MarkedWhileJob, Holding, Working, At

\* Process p gives up the chain, or goes on with it.
LEMMA KeepsChain ==
  ASSUME TypeInv, ChainInv, NEW p \in Process, Holding(p),
         \A q \in Process \ {p} : run'[q] = run[q],
         waiting' = waiting, ~At(p, "commit")', Holding(p)' => schedule'.processing
  PROVE  ChainInv'
<1>1. p # "web" /\ Pending = {} /\ Pending' = {}
  BY HoldsAlone DEF Pending
<1>2. \A q \in Process \ {p} : ~Holding(q)' /\ ~At(q, "commit")'
  BY HoldsAlone DEF Holding, At
<1>3. run'["web"].step = "idle"
  BY <1>1, ProcessType DEF ChainInv
<1> QED
  BY <1>1, <1>2, <1>3 DEF ChainInv, OneChain, MarkedWhileJob

\* Process p passes the chain on to the queue.
LEMMA PassesOn ==
  ASSUME TypeInv, ChainInv, NEW p \in Process, Holding(p), ~Holding(p)',
         \A q \in Process \ {p} : run'[q] = run[q],
         NEW job \in Job, Add(job), schedule'.processing
  PROVE  ChainInv'
<1>1. p # "web" /\ Pending = {} /\ Pending' = {job}
  BY HoldsAlone, AddOf
<1>2. \A q \in Process : ~Holding(q)' /\ ~At(q, "commit")'
  BY HoldsAlone DEF Holding, At
<1>3. waiting[job] = 0 /\ waiting'[job] = 1
  BY <1>1, AddOf DEF Pending, TypeInv, QueueInv
<1>4. run'["web"].step = "idle"
  BY <1>1, ProcessType DEF ChainInv
<1> QED
  BY <1>1, <1>2, <1>3, <1>4 DEF ChainInv, OneChain, MarkedWhileJob

\* Neither the processes nor the queue change.
LEMMA StaysOut ==
  ASSUME ChainInv, UNCHANGED <<schedule, waiting, run>>
  PROVE  ChainInv'
BY DEF ChainInv, OneChain, MarkedWhileJob, Holding, At, Pending

LEMMA ContinueChain ==
  ASSUME TypeInv, ChainInv, NEW p \in Process, Continue(p)
  PROVE  ChainInv'
<1>0. {"start", "handle", "advance", "dispatch", "done", "failed"} \subseteq Step
  BY DEF Step
<1>1. CASE CommitStart(p)
  <2>1. Holding(p) /\ ~run[p].processing /\ UNCHANGED waiting
    BY <1>1 DEF CommitStart, Holding, At, ChainInv
  <2>2. schedule'.processing
    BY <1>1, <2>1 DEF CommitStart, TypeInv, TypeOK, Schedule
  <2>3. run'[p].step = "start" /\ \A q \in Process \ {p} : run'[q] = run[q]
    BY <1>1, RunType DEF CommitStart, TypeInv, RunsInv, Run
  <2> QED
    BY <2>1, <2>2, <2>3, KeepsChain DEF At
<1>2. ASSUME Holding(p), End(p), UNCHANGED waiting
      PROVE  ChainInv'
  BY <1>2, EndOf, KeepsChain
<1>3. ASSUME Working(p), ~At(p, "failed"), NEW step \in Step \ {"commit"}, Goto(p, step),
             step = "done" \/ UNCHANGED schedule, UNCHANGED waiting
      PROVE  ChainInv'
  <2>1. run'[p].step = step /\ \A q \in Process \ {p} : run'[q] = run[q]
    BY <1>3, GotoOf
  <2>2. Holding(p)' => schedule'.processing
    BY <1>3, <2>1, HoldsAlone DEF Working, Holding
  <2> QED
    BY <1>3, <2>1, <2>2, KeepsChain DEF Working, At
<1>4. CASE RefuseOffline(p) \/ Fail(p)
  BY <1>2, <1>4 DEF RefuseOffline, Fail, Holding, At
<1>5. CASE Refuse(p)
  BY <1>0, <1>3, <1>5 DEF Refuse, Working, Holding, At
<1>6. CASE Act(p)
  <2>1. Working(p) /\ ~At(p, "failed") /\ p # "web"
    BY <1>6 DEF Act, Working, Holding, At, ChainInv
  <2>2. \/ Goto(p, "advance") /\ UNCHANGED <<schedule, tasks, waiting>>
        \/ Throw(p)
    BY <1>6 DEF Act
  <2>3. CASE Goto(p, "advance") /\ UNCHANGED <<schedule, tasks, waiting>>
    BY <1>0, <1>3, <2>1, <2>3
  <2>4. CASE Goto(p, "failed") /\ UNCHANGED <<schedule, tasks, waiting>>
    BY <1>0, <1>3, <2>1, <2>4
  <2>5. CASE Add(run[p].job) /\ End(p) /\ UNCHANGED <<schedule, tasks>>
    BY <2>1, <2>5, RunType, EndOf, HoldsAlone, PassesOn DEF Working
  <2> QED
    BY <2>1, <2>2, <2>3, <2>4, <2>5 DEF Throw
<1>7. CASE Advance(p)
  <2>1. Working(p) /\ ~At(p, "failed") /\ UNCHANGED waiting
    BY <1>7 DEF Advance, Working, Holding, At
  <2>2. CASE After(run[p].sequence) = {}
    BY <1>0, <1>3, <1>7, <2>1, <2>2 DEF Advance
  <2>3. CASE After(run[p].sequence) # {}
    <3>1. PICK t \in Task : run' = [run EXCEPT ![p].step = "dispatch", ![p].next = t]
      BY <1>7, <2>3 DEF Advance, After, Rows
    <3>2. run'[p].step = "dispatch" /\ \A q \in Process \ {p} : run'[q] = run[q]
      BY <3>1, RunType DEF TypeInv, RunsInv, Run
    <3>3. schedule'.processing
      BY <1>7, <2>1, <2>3, HoldsAlone DEF Advance, Working
    <3> QED
      BY <2>1, <3>2, <3>3, KeepsChain DEF Working, At
  <2> QED
    BY <2>2, <2>3
<1>8. CASE Dispatch(p)
  <2> DEFINE job == [task |-> run[p].next, manual |-> run[p].job.manual, attempts |-> 0]
  <2>1. job \in Job
    BY RunType, BoundsAssumption DEF Job
  <2>2. Working(p) /\ ~At(p, "failed") /\ Add(job) /\ Goto(p, "done") /\ UNCHANGED schedule
    BY <1>8 DEF Dispatch, Working, Holding, At
  <2> HIDE DEF job
  <2>3. ~Holding(p)' /\ \A q \in Process \ {p} : run'[q] = run[q]
    BY <1>0, <2>2, GotoOf DEF Holding
  <2> QED
    BY <2>1, <2>2, <2>3, HoldsAlone, PassesOn DEF Working
<1>9. CASE Done(p)
  <2>1. At(p, "done") /\ End(p) /\ UNCHANGED <<schedule, waiting>>
    BY <1>9 DEF Done
  <2>2. /\ ~Holding(p)' /\ ~At(p, "commit")'
        /\ \A q \in Process \ {p} : run'[q] = run[q]
    BY <2>1, EndOf
  <2>3. run'["web"].step = "idle"
    BY <2>1, <2>2, ProcessType DEF ChainInv, At
  <2> QED
    BY <2>1, <2>2, <2>3 DEF ChainInv, OneChain, MarkedWhileJob, Holding, At, Pending
<1> QED
  BY <1>1, <1>4, <1>5, <1>6, <1>7, <1>8, <1>9 DEF Continue

LEMMA ChainStep ==
  ASSUME TypeInv, ChainInv, ~Manual, ~Toggles, "done" \notin Stops, Next
  PROVE  ChainInv'
<1>1. CASE BeginCron
  <2>1. ~schedule.processing /\ UNCHANGED <<schedule, waiting>>
    BY <1>1 DEF BeginCron
  <2>2. /\ run'["cron"].step = "commit" /\ ~run'["cron"].processing
        /\ \A q \in Process \ {"cron"} : run'[q] = run[q]
    BY <1>1, BeginOf
  <2>3. Pending = {} /\ Pending' = {} /\ \A q \in Process : ~Working(q)
    BY <2>1 DEF ChainInv, MarkedWhileJob, Working, Pending
  <2>4. \A q \in Process \ {"cron"} : ~Holding(q)' /\ ~At(q, "commit")'
    BY <2>2, <2>3 DEF ChainInv, Working, Holding, At
  <2>5. run'["web"].step = "idle"
    BY <2>2, ProcessType DEF ChainInv
  <2> QED
    BY <2>1, <2>2, <2>3, <2>4, <2>5, ProcessType
       DEF ChainInv, OneChain, MarkedWhileJob, At
<1>2. CASE BeginManual
  BY <1>2 DEF BeginManual
<1>3. CASE DispatchFirst
  <2>1. Add(run["cron"].job) /\ End("cron") /\ UNCHANGED schedule /\ Working("cron")
    BY <1>3 DEF DispatchFirst, Working, Holding, At
  <2>2. run["cron"].job \in Job /\ schedule'.processing
    BY <2>1, ProcessType, RunType, HoldsAlone DEF Working
  <2> QED
    BY <2>1, <2>2, ProcessType, EndOf, PassesOn DEF Working
<1>4. CASE RunNow
  BY <1>4 DEF RunNow, At, ChainInv
<1>5. ASSUME NEW w \in Worker, NEW job \in Job, Take(w, job)
      PROVE  ChainInv'
  <2>1. job \in Pending /\ (\A i \in Pending : i = job) /\ waiting[job] = 1
    BY <1>5, TakeOf DEF Pending, ChainInv, OneChain
  <2>2. schedule.processing /\ \A q \in Process : ~Holding(q) /\ ~At(q, "commit")
    BY <2>1 DEF ChainInv, OneChain, MarkedWhileJob, Holding, At
  <2>3. Pending' = {} /\ UNCHANGED schedule /\ w \in Process /\ w # "web"
    <3>1. /\ waiting'[job] = waiting[job] - 1
          /\ \A i \in Job \ {job} : waiting'[i] = waiting[i]
      BY <1>5, TakeOf
    <3>2. waiting'[job] = 0
      BY <2>1, <3>1
    <3>3. Pending' = {}
      BY <2>1, <3>1, <3>2 DEF Pending
    <3> QED
      BY <1>5, <3>3, TakeOf, WorkerAssumption
  <2>4. /\ \A q \in Process \ {w} : run'[q] = run[q]
        /\ ~At(w, "commit")'
    BY <1>5, <2>2, <2>3, TakeOf DEF At
  <2>5. run'["web"].step = "idle"
    BY <2>3, <2>4, ProcessType DEF ChainInv
  <2>6. \A q \in Process \ {w} : ~Holding(q)' /\ ~At(q, "commit")'
    BY <2>2, <2>4 DEF Holding, At
  <2> QED
    BY <2>2, <2>3, <2>4, <2>5, <2>6 DEF ChainInv, OneChain, MarkedWhileJob
<1>6. ASSUME NEW w \in Worker, Stop(w)
      PROVE  ChainInv'
  <2>1. w \in Process /\ End(w) /\ UNCHANGED schedule
    BY <1>6, ProcessType DEF Stop
  <2>2. Working(w)
    <3>1. run[w].step \in {"handle", "advance", "dispatch", "failed"}
      BY <1>6, StopsAssumption DEF Stop
    <3> QED
      BY <3>1 DEF Working, Holding, At
  <2>3. CASE UNCHANGED waiting
    BY <2>1, <2>2, <2>3, EndOf, KeepsChain DEF Working
  <2>4. CASE Add(run[w].job)
    BY <2>1, <2>2, <2>4, RunType, EndOf, HoldsAlone, PassesOn DEF Working
  <2> QED
    BY <1>6, <2>3, <2>4 DEF Stop
<1>7. CASE AddTask \/ MoveTask \/ DeleteTask
  BY <1>7, StaysOut DEF AddTask, MoveTask, DeleteTask, Edit
<1>8. CASE Toggle
  BY <1>8 DEF Toggle
<1>9. CASE ServerStatus
  BY <1>9, StaysOut DEF ServerStatus
<1> QED
  BY <1>1, <1>2, <1>3, <1>4, <1>5, <1>6, <1>7, <1>8, <1>9, ContinueChain DEF Next, TakeAny

LEMMA ChainInvariant ==
  ASSUME ~Manual, ~Toggles, "done" \notin Stops
  PROVE  Spec => []ChainInv
<1>1. Init => ChainInv
  BY IdleType, ProcessType
     DEF Init, ChainInv, OneChain, MarkedWhileJob, Holding, At, Pending
<1>2. TypeInv /\ ChainInv /\ [Next]_vars => ChainInv'
  <2> SUFFICES ASSUME TypeInv, ChainInv, [Next]_vars PROVE ChainInv'
    OBVIOUS
  <2>1. CASE UNCHANGED vars
    BY <2>1, StaysOut DEF vars
  <2> QED
    BY <2>1, ChainStep
<1> QED
  BY <1>1, <1>2, TypeInvariant, PTL DEF Spec

\* Two jobs of a schedule never exist side by side, however jobs are retried or
\* taken again and tasks edited.  (ProcessRunnableCommand::handle, RunTaskJob.)
LEMMA NoSecondChain ==
  ASSUME ~Manual, ~Toggles, "done" \notin Stops
  PROVE  Spec => []OneChain
<1>1. ChainInv => OneChain
  BY DEF ChainInv
<1> QED
  BY <1>1, ChainInvariant, PTL

\* The schedule stays marked until its last job is over.
\* (RunTaskJob::markScheduleComplete.)
THEOREM MarkLasts ==
  ASSUME ~Manual, ~Toggles, "done" \notin Stops
  PROVE  Spec => []MarkedWhileJob
<1>1. ChainInv => MarkedWhileJob
  BY DEF ChainInv
<1> QED
  BY <1>1, ChainInvariant, PTL

-----------------------------------------------------------------------------
(* The mark has a job, without conditions: chains may overlap, and the mark   *)
(* of one be reset by the end of another.                                     *)

\* Process p is where it was with a job of its own, or has one now.
LEMMA WorkingHas ==
  ASSUME NEW p \in Process, Working(p)' \/ Pending' # {}
  PROVE  JobWhileMarked'
BY DEF JobWhileMarked, Working

\* Processes that work go on as they were, and so does the queue.
LEMMA JobsKept ==
  ASSUME JobWhileMarked, UNCHANGED <<schedule, waiting>>, lost => lost',
         \A q \in Process : Working(q) => run'[q] = run[q]
  PROVE  JobWhileMarked'
<1>1. \A q \in Process : Working(q) => Working(q)'
  BY DEF Working, Holding, At
<1>2. Pending' = Pending
  BY DEF Pending
<1> QED
  BY <1>1, <1>2 DEF JobWhileMarked, Working

LEMMA ContinueJob ==
  ASSUME TypeInv, JobWhileMarked, NEW p \in Process, Continue(p)
  PROVE  JobWhileMarked'
<1>0. {"start", "handle", "advance", "dispatch", "done", "failed"} \subseteq Step
  BY DEF Step
<1>1. ASSUME Completed
      PROVE  JobWhileMarked'
  BY <1>1, CompletedType DEF JobWhileMarked
<1>2. ASSUME NEW s \in {"advance", "failed"}, Goto(p, s), ~At(p, "failed")
      PROVE  JobWhileMarked'
  <2>1. run'[p].step = s
    BY <1>0, <1>2, GotoOf
  <2> QED
    BY <2>1, WorkingHas DEF Working, Holding, At
<1>3. CASE CommitStart(p)
  <2>1. run'[p].step = "start"
    BY <1>3, RunType DEF CommitStart, TypeInv, RunsInv, Run
  <2> QED
    BY <2>1, WorkingHas DEF Working, Holding, At
<1>4. CASE RefuseOffline(p) \/ Refuse(p)
  BY <1>1, <1>4 DEF RefuseOffline, Refuse
<1>5. CASE Act(p)
  <2>1. At(p, "handle") /\ ~At(p, "failed")
    BY <1>5 DEF Act, At
  <2>2. Goto(p, "advance") \/ Throw(p)
    BY <1>5 DEF Act
  <2>3. CASE Add(run[p].job)
    BY <2>3, RunType, AddOf, WorkingHas
  <2> QED
    BY <1>1, <1>2, <2>1, <2>2, <2>3 DEF Throw
<1>6. CASE Advance(p)
  <2>1. CASE After(run[p].sequence) = {}
    BY <1>1, <1>6, <2>1 DEF Advance
  <2>2. CASE After(run[p].sequence) # {}
    <3>1. PICK t \in Task : run' = [run EXCEPT ![p].step = "dispatch", ![p].next = t]
      BY <1>6, <2>2 DEF Advance, After, Rows
    <3>2. run'[p].step = "dispatch"
      BY <3>1, RunType DEF TypeInv, RunsInv, Run
    <3> QED
      BY <3>2, WorkingHas DEF Working, Holding, At
  <2> QED
    BY <2>1, <2>2
<1>7. CASE Dispatch(p)
  <2> DEFINE job == [task |-> run[p].next, manual |-> run[p].job.manual, attempts |-> 0]
  <2>1. job \in Job /\ Add(job)
    BY <1>7, RunType, BoundsAssumption DEF Dispatch, Job
  <2> HIDE DEF job
  <2> QED
    BY <2>1, AddOf, WorkingHas
<1>8. CASE Done(p)
  <2>1. ~Working(p) /\ End(p) /\ UNCHANGED <<schedule, waiting, lost>>
    BY <1>8 DEF Done, Working, Holding, At
  <2> QED
    BY <2>1, EndOf, JobsKept
<1>9. CASE Fail(p)
  BY <1>1, <1>9 DEF Fail, JobWhileMarked
<1> QED
  BY <1>3, <1>4, <1>5, <1>6, <1>7, <1>8, <1>9 DEF Continue

LEMMA JobStep ==
  ASSUME TypeInv, JobWhileMarked, Next
  PROVE  JobWhileMarked'
<1>1. CASE BeginCron \/ BeginManual
  <2>1. /\ UNCHANGED <<schedule, waiting, lost>>
        /\ \A q \in Process : Working(q) => run'[q] = run[q]
    BY <1>1, IdleType DEF BeginCron, BeginManual, TypeInv, RunsInv, Working, Holding
  <2> QED
    BY <2>1, JobsKept
<1>2. CASE DispatchFirst
  <2>1. run["cron"].job \in Job /\ Add(run["cron"].job)
    BY <1>2, ProcessType, RunType DEF DispatchFirst
  <2> QED
    BY <2>1, AddOf, ProcessType, WorkingHas
<1>3. CASE RunNow
  <2>1. run'["web"].step = "handle"
    BY <1>3, ProcessType, GotoOf DEF RunNow, Step, At
  <2> QED
    BY <2>1, ProcessType, WorkingHas DEF Working, Holding, At
<1>4. ASSUME NEW w \in Worker, NEW job \in Job, Take(w, job)
      PROVE  JobWhileMarked'
  <2>1. w \in Process /\ (lost' = TRUE \/ run'[w].step \in {"failed", "handle"})
    BY <1>4, TakeOf
  <2> QED
    BY <2>1, WorkingHas DEF JobWhileMarked, Working, Holding, At
<1>5. ASSUME NEW w \in Worker, Stop(w)
      PROVE  JobWhileMarked'
  <2>1. w \in Process /\ run[w].job \in Job
    BY <1>5, ProcessType, RunType
  <2>2. lost' = TRUE \/ Add(run[w].job)
    BY <1>5 DEF Stop
  <2> QED
    BY <2>1, <2>2, AddOf, WorkingHas DEF JobWhileMarked
<1>6. CASE AddTask \/ MoveTask \/ DeleteTask \/ ServerStatus
  BY <1>6, JobsKept DEF AddTask, MoveTask, DeleteTask, Edit, ServerStatus
<1>7. CASE Toggle
  BY <1>7 DEF Toggle, JobWhileMarked
<1> QED
  BY <1>1, <1>2, <1>3, <1>4, <1>5, <1>6, <1>7, ContinueJob DEF Next, TakeAny

\* A schedule that is marked has a job that will see to the mark, unless one was
\* dropped: whoever starts, switches and edits it, however many workers there
\* are, and wherever they stop.  (RunTaskJob::handle, RunTaskJob::failed,
\* ProcessScheduleService::handle.)
THEOREM MarkHasJob == Spec => []JobWhileMarked
<1>1. Init => JobWhileMarked
  BY DEF Init, JobWhileMarked
<1>2. TypeInv /\ JobWhileMarked /\ [Next]_vars => JobWhileMarked'
  <2> SUFFICES ASSUME TypeInv, JobWhileMarked, [Next]_vars PROVE JobWhileMarked'
    OBVIOUS
  <2>1. CASE UNCHANGED vars
    BY <2>1, JobsKept DEF vars
  <2> QED
    BY <2>1, JobStep
<1> QED
  BY <1>1, <1>2, TypeInvariant, PTL DEF Spec

-----------------------------------------------------------------------------
(* Marks.  What is marked will be unmarked: by the job that waits for the     *)
(* task, or by the process that is at work on it and knows of the mark.       *)

\* Process p will see to the mark of task t.
Claims(p, t) ==
  /\ Working(p)
  /\ IF At(p, "dispatch")
     THEN run[p].next = t
     ELSE run[p].job.task = t /\ (At(p, "failed") \/ run[p].queued)

Claimed(t) == (\E job \in Pending : job.task = t) \/ \E p \in Process : Claims(p, t)

Accounted ==
  /\ schedule.processing => Pending # {} \/ \E p \in Process : Working(p)
  /\ \A t \in Rows : tasks[t].queued => Claimed(t)

MarksInv == lost \/ Accounted

LEMMA MarksSuffice == MarksInv => NothingLeftMarked
<1> SUFFICES ASSUME Accounted, Pending = {}, Busy = {}
             PROVE  ~schedule.processing /\ \A t \in Rows : ~tasks[t].queued
  BY DEF MarksInv, NothingLeftMarked
<1>1. \A p \in Process : ~Working(p)
  BY DEF Busy, Working, Holding, At
<1> QED
  BY <1>1 DEF Accounted, Claimed, Claims

\* The one that holds the chain has all claims.
LEMMA OnlyClaims ==
  ASSUME ChainInv, Accounted, NEW p \in Process, Holding(p)
  PROVE  \A t \in Rows : tasks[t].queued => Claims(p, t)
BY HoldsAlone DEF Accounted, Claimed, Claims, Working

\* The chain comes to its end.
LEMMA EndsAccounted ==
  ASSUME TypeInv, ChainInv, Accounted, NEW p \in Process, Working(p),
         ~At(p, "dispatch"), ~At(p, "failed"), tasks' = Unmarked(p), Completed
  PROVE  Accounted'
<1>1. \A t \in Rows : tasks[t].queued => t = run[p].job.task /\ run[p].queued
  BY OnlyClaims DEF Claims, Working
<1>2. \A t \in Rows' : t \in Rows /\ ~tasks'[t].queued
  <2> SUFFICES ASSUME NEW t \in Rows' PROVE t \in Rows /\ ~tasks'[t].queued
    OBVIOUS
  <2>1. t \in Task /\ tasks[t].sequence > 0 /\ (tasks'[t].queued => tasks[t].queued)
    BY UnmarkedType DEF Rows
  <2> QED
    BY <1>1, <2>1, UnmarkedType DEF Rows
<1> QED
  BY <1>2, CompletedType DEF Accounted

\* The chain goes on, with the same tasks marked.
LEMMA GoesOnAccounted ==
  ASSUME ChainInv, Accounted, NEW p \in Process, Working(p),
         UNCHANGED <<schedule, tasks>>,
         Working(p)' \/ Pending' # {},
         \A t \in Task : Claims(p, t) => Claimed(t)'
  PROVE  Accounted'
<1>1. \A t \in Rows' : tasks'[t].queued => t \in Task /\ Claims(p, t)
  BY OnlyClaims DEF Rows, Working
<1> QED
  BY <1>1 DEF Accounted

LEMMA ContinueMarks ==
  ASSUME TypeInv, ChainInv, MarksInv, NEW p \in Process, Continue(p)
  PROVE  MarksInv'
<1>0. {"start", "handle", "advance", "dispatch", "done", "failed"} \subseteq Step
  BY DEF Step
<1>1. lost => lost'
  BY DEF Continue, CommitStart, RefuseOffline, Refuse, Act, Advance, Dispatch, Done, Fail
<1>2. SUFFICES ASSUME Accounted, ~lost, ~lost' PROVE Accounted'
  BY <1>1 DEF MarksInv
<1>3. CASE CommitStart(p)
  <2>1. /\ At(p, "commit") /\ Holding(p)
        /\ tasks' = IF run[p].queued THEN tasks ELSE Marked(tasks, run[p].job.task, TRUE)
    BY <1>3 DEF CommitStart, Holding, At
  <2>2. \A t \in Rows : ~tasks[t].queued
    BY <1>2, <2>1, OnlyClaims DEF Claims, Working
  <2>3. \A t \in Rows' : tasks'[t].queued => t = run[p].job.task
    BY <2>1, <2>2, RunType DEF Rows, Marked, Row, TypeInv, TypeOK
  <2>4. /\ run'[p].step = "start" /\ run'[p].queued
        /\ run'[p].job = run[p].job
    BY <1>3, RunType DEF CommitStart, TypeInv, RunsInv, Run
  <2>5. Working(p)' /\ \A t \in Task : t = run[p].job.task => Claims(p, t)'
    BY <2>4 DEF Claims, Working, Holding, At
  <2> QED
    BY <2>3, <2>5 DEF Accounted, Claimed, Rows
<1>4. CASE RefuseOffline(p)
  BY <1>2, <1>4, EndsAccounted DEF RefuseOffline, Working, Holding, At
<1>5. CASE Refuse(p)
  BY <1>2, <1>5, EndsAccounted DEF Refuse, Working, Holding, At
<1>6. ASSUME Working(p), ~At(p, "dispatch"), NEW step \in {"advance", "failed"}, Goto(p, step),
             ~At(p, "failed"), UNCHANGED <<schedule, tasks, waiting>>
      PROVE  Accounted'
  <2>1. run'[p].step = step /\ run'[p].job = run[p].job /\ run'[p].queued = run[p].queued
    BY <1>0, <1>6, GotoOf, RunType DEF Run
  <2>2. Working(p)' /\ \A t \in Task : Claims(p, t) => Claims(p, t)'
    BY <1>6, <2>1 DEF Claims, Working, Holding, At
  <2> QED
    BY <1>2, <1>6, <2>2, GoesOnAccounted DEF Claimed
<1>7. CASE Act(p)
  <2>1. Working(p) /\ ~At(p, "dispatch") /\ ~At(p, "failed") /\ p # "web"
    BY <1>7 DEF Act, Working, Holding, At, ChainInv
  <2>2. \/ Goto(p, "advance") /\ UNCHANGED <<schedule, tasks, waiting>>
        \/ Throw(p)
    BY <1>7 DEF Act
  <2>3. CASE Add(run[p].job) /\ End(p) /\ UNCHANGED <<schedule, tasks>>
    <3>1. Pending' = Pending \cup {run[p].job}
      BY <2>3, RunType, AddOf
    <3>2. \A t \in Task : Claims(p, t) => Claimed(t)'
      BY <2>1, <3>1 DEF Claims, Claimed
    <3> QED
      BY <1>2, <2>1, <2>3, <3>1, <3>2, GoesOnAccounted
  <2> QED
    BY <1>6, <2>1, <2>2, <2>3 DEF Throw
<1>8. CASE Advance(p)
  <2>1. Working(p) /\ ~At(p, "dispatch") /\ ~At(p, "failed")
    BY <1>8 DEF Advance, Working, Holding, At
  <2>2. CASE After(run[p].sequence) = {}
    BY <1>2, <1>8, <2>1, <2>2, EndsAccounted DEF Advance
  <2>3. CASE After(run[p].sequence) # {}
    <3>1. PICK t \in Task :
            /\ tasks' = Marked(Unmarked(p), t, TRUE)
            /\ run' = [run EXCEPT ![p].step = "dispatch", ![p].next = t]
      BY <1>8, <2>3 DEF Advance, After, Rows
    <3>2. run'[p].step = "dispatch" /\ run'[p].next = t
      BY <3>1, RunType DEF TypeInv, RunsInv, Run
    <3>3. Working(p)' /\ Claims(p, t)'
      BY <3>2 DEF Claims, Working, Holding, At
    <3>4. \A u \in Rows : tasks[u].queued => u = run[p].job.task /\ run[p].queued
      BY <1>2, <2>1, OnlyClaims DEF Claims, Working
    <3>5. \A u \in Rows' : tasks'[u].queued => u = t
      <4> SUFFICES ASSUME NEW u \in Rows', tasks'[u].queued, u # t PROVE FALSE
        OBVIOUS
      <4> DEFINE rows == Unmarked(p)
      <4>1. /\ rows \in [Task -> Row] /\ tasks' = Marked(rows, t, TRUE)
            /\ rows[u].sequence = tasks[u].sequence /\ (rows[u].queued => tasks[u].queued)
            /\ run[p].queued /\ tasks[run[p].job.task].sequence > 0 =>
                 ~rows[run[p].job.task].queued
            /\ u \in Task
        BY <3>1, UnmarkedType DEF Rows
      <4> HIDE DEF rows
      <4>2. rows[u] = tasks'[u]
        BY <4>1 DEF Marked, Row
      <4>3. u \in Rows /\ rows[u].queued /\ tasks[u].queued
        BY <4>1, <4>2 DEF Rows
      <4> QED
        BY <3>4, <4>1, <4>3 DEF Rows
    <3>6. \A u \in Rows' : tasks'[u].queued => Claimed(u)'
      <4> SUFFICES ASSUME NEW u \in Rows', tasks'[u].queued PROVE Claims(p, u)'
        BY DEF Claimed
      <4>1. u = t
        BY <3>5
      <4> QED
        BY <3>3, <4>1
    <3> QED
      BY <3>3, <3>6 DEF Accounted
  <2> QED
    BY <2>2, <2>3
<1>9. CASE Dispatch(p)
  <2> DEFINE job == [task |-> run[p].next, manual |-> run[p].job.manual, attempts |-> 0]
  <2>1. job \in Job /\ job.task = run[p].next
    BY RunType, BoundsAssumption DEF Job
  <2>2. Working(p) /\ At(p, "dispatch") /\ Add(job) /\ UNCHANGED <<schedule, tasks>>
    BY <1>9 DEF Dispatch, Working, Holding, At
  <2> HIDE DEF job
  <2>3. Pending' = Pending \cup {job}
    BY <2>1, <2>2, AddOf
  <2>4. \A t \in Task : Claims(p, t) => Claimed(t)'
    BY <2>1, <2>2, <2>3 DEF Claims, Claimed
  <2> QED
    BY <1>2, <2>2, <2>3, <2>4, GoesOnAccounted
<1>10. CASE Done(p)
  <2>1. At(p, "done") /\ End(p) /\ UNCHANGED <<schedule, tasks, waiting>>
    BY <1>10 DEF Done
  <2>2. \A q \in Process : Working(q) => q # p /\ run'[q] = run[q]
    BY <2>1, EndOf DEF Working, Holding, At
  <2>3. \A q \in Process : Working(q) => Working(q)' /\ \A t \in Task : Claims(q, t) => Claims(q, t)'
    BY <2>2 DEF Claims, Working, Holding, At
  <2>4. \A t \in Task : Claimed(t) => Claimed(t)'
    BY <2>1, <2>3 DEF Claimed, Claims, Pending
  <2> QED
    BY <1>2, <2>1, <2>3, <2>4 DEF Accounted, Rows, Pending
<1>11. CASE Fail(p)
  <2>1. Working(p) /\ At(p, "failed") /\ run[p].job.task \in Task
    BY <1>11, RunType DEF Fail, Working, Holding, At
  <2>2. tasks' = Marked(tasks, run[p].job.task, FALSE) /\ Completed
    BY <1>2, <1>11 DEF Fail
  <2>3. \A t \in Rows : tasks[t].queued => t = run[p].job.task
    BY <1>2, <2>1, OnlyClaims DEF Claims, Working, At
  <2>4. \A t \in Rows' : ~tasks'[t].queued
    BY <2>1, <2>2, <2>3 DEF Rows, Marked, Row, TypeInv, TypeOK
  <2> QED
    BY <2>2, <2>4, CompletedType DEF Accounted
<1> QED
  BY <1>3, <1>4, <1>5, <1>7, <1>8, <1>9, <1>10, <1>11 DEF Continue

LEMMA MarksStep ==
  ASSUME TypeInv, ChainInv, MarksInv,
         ~Manual, ~Toggles, Stops \cap {"dispatch", "done"} = {}, Next
  PROVE  MarksInv'
<1>1. CASE BeginCron
  <2>1. ~schedule.processing /\ UNCHANGED <<schedule, tasks, waiting, lost>>
    BY <1>1 DEF BeginCron
  <2>2. Pending = {} /\ \A q \in Process : ~Working(q)
    BY <2>1 DEF ChainInv, MarkedWhileJob, Working
  <2>3. Accounted => \A t \in Rows : ~tasks[t].queued
    BY <2>2 DEF Accounted, Claimed, Claims
  <2> QED
    BY <2>1, <2>3 DEF MarksInv, Accounted, Rows
<1>2. CASE BeginManual
  BY <1>2 DEF BeginManual
<1>3. ASSUME NEW p \in Process, Working(p), ~At(p, "dispatch"), Add(run[p].job),
             UNCHANGED <<schedule, tasks, lost>>
      PROVE  MarksInv'
  <2>1. Pending' = Pending \cup {run[p].job}
    BY <1>3, RunType, AddOf
  <2>2. \A t \in Task : Claims(p, t) => Claimed(t)'
    BY <1>3, <2>1 DEF Claims, Claimed
  <2> QED
    BY <1>3, <2>1, <2>2, GoesOnAccounted DEF MarksInv
<1>4. CASE DispatchFirst
  BY <1>3, <1>4, ProcessType DEF DispatchFirst, Working, Holding, At
<1>5. CASE RunNow
  BY <1>5 DEF RunNow, At, ChainInv
<1>6. ASSUME NEW w \in Worker, NEW job \in Job, Take(w, job)
      PROVE  MarksInv'
  <2>1. UNCHANGED <<schedule, tasks>> /\ w \in Process /\ job \in Pending
    BY <1>6, TakeOf DEF Pending
  <2>2. CASE lost' = TRUE
    BY <2>2 DEF MarksInv
  <2>3. CASE UNCHANGED lost /\ ~lost /\ run'[w].step \in {"failed", "handle"}
             /\ run'[w].job.task = job.task /\ run'[w].queued = tasks[job.task].queued
    <3>1. \A i \in Pending : i = job
      BY <2>1 DEF ChainInv, OneChain
    <3>2. \A q \in Process : ~Working(q)
      BY <2>1 DEF ChainInv, OneChain, Working
    <3>3. \A t \in Rows : tasks[t].queued => t = job.task
      BY <2>3, <3>1, <3>2 DEF MarksInv, Accounted, Claimed, Claims
    <3>4. Working(w)'
      BY <2>3 DEF Working, Holding, At
    <3>5. \A t \in Rows : tasks[t].queued => Claims(w, t)'
      <4> SUFFICES ASSUME NEW t \in Rows, tasks[t].queued
                   PROVE  Claims(w, t)'
        OBVIOUS
      <4>1. t = job.task
        BY <3>3
      <4> QED
        BY <2>3, <3>4, <4>1 DEF Claims, At
    <3> QED
      BY <2>1, <3>4, <3>5 DEF MarksInv, Accounted, Claimed, Rows
  <2>4. CASE lost
    BY <1>6, <2>4, TakeOf DEF MarksInv
  <2> QED
    BY <1>6, <2>2, <2>3, <2>4, TakeOf
<1>7. ASSUME NEW w \in Worker, Stop(w)
      PROVE  MarksInv'
  <2>1. w \in Process /\ UNCHANGED <<schedule, tasks>>
    BY <1>7, ProcessType DEF Stop
  <2>2. CASE At(w, "failed")
    BY <1>7, <2>2 DEF Stop, MarksInv
  <2>3. CASE ~At(w, "failed")
    <3>1. Add(run[w].job) /\ UNCHANGED lost
      BY <1>7, <2>3 DEF Stop
    <3>2. run[w].step \in {"handle", "advance"}
      BY <1>7, <2>3, StopsAssumption DEF Stop, At
    <3> QED
      BY <1>3, <2>1, <3>1, <3>2 DEF Working, Holding, At
  <2> QED
    BY <2>2, <2>3
<1>8. CASE AddTask \/ MoveTask \/ DeleteTask
  <2>1. UNCHANGED <<schedule, waiting, run, lost>>
    BY <1>8 DEF AddTask, MoveTask, DeleteTask, Edit
  <2>2. \A t \in Rows' : tasks'[t].queued => t \in Rows /\ tasks[t].queued
    BY <1>8, EditOf DEF Rows
  <2>3. /\ Pending' = Pending
        /\ \A q \in Process : Working(q)' <=> Working(q)
        /\ \A t \in Task : Claimed(t)' <=> Claimed(t)
    BY <2>1 DEF Claimed, Claims, Working, Holding, At, Pending
  <2> QED
    BY <2>1, <2>2, <2>3 DEF MarksInv, Accounted, Rows
<1>9. CASE Toggle
  BY <1>9 DEF Toggle
<1>10. CASE ServerStatus
  BY <1>10 DEF ServerStatus, MarksInv, Accounted, Claimed, Claims, Working, Holding, At,
               Pending, Rows
<1> QED
  BY <1>1, <1>2, <1>4, <1>5, <1>6, <1>7, <1>8, <1>9, <1>10, ContinueMarks DEF Next, TakeAny

\* When nothing is left to do nothing is left marked, unless a job was dropped,
\* however jobs throw and are retried and tasks edited.  A worker must not stop
\* where it has marked the next task and not dispatched it, besides what the
\* chain needs.  (RunTaskJob::handle, RunTaskJob::failed.)
THEOREM NothingStaysMarked ==
  ASSUME ~Manual, ~Toggles, Stops \cap {"dispatch", "done"} = {}
  PROVE  Spec => []NothingLeftMarked
<1>1. Init => MarksInv
  BY DEF Init, MarksInv, Accounted, Rows
<1>2. TypeInv /\ ChainInv /\ MarksInv /\ [Next]_vars => MarksInv'
  <2> SUFFICES ASSUME TypeInv, ChainInv, MarksInv, [Next]_vars PROVE MarksInv'
    OBVIOUS
  <2>1. CASE UNCHANGED vars
    BY <2>1 DEF vars, MarksInv, Accounted, Claimed, Claims, Working, Holding, At, Pending, Rows
  <2> QED
    BY <2>1, MarksStep
<1>3. "done" \notin Stops
  OBVIOUS
<1> QED
  BY <1>1, <1>2, <1>3, TypeInvariant, ChainInvariant, MarksSuffice, PTL DEF Spec

-----------------------------------------------------------------------------
(* Order.  While the tasks stay as they are, the job that waits and the       *)
(* process that holds the chain are at the task last attempted or at the one  *)
(* after it, and a task that has just been attempted is the last.             *)

\* Task t may follow the task last attempted, n, or be attempted once more.
Due(t, n) == t \in {n, n + 1} \cap 1 .. Length

\* Process p follows the order.
Follows(p) ==
  /\ run[p].job.task \in 1 .. Length /\ run[p].sequence = run[p].job.task
  /\ At(p, "commit") => run[p].job.task = 1
  /\ At(p, "start") \/ At(p, "handle") \/ At(p, "failed") => Due(run[p].job.task, last)
  /\ At(p, "advance") \/ At(p, "dispatch") => run[p].job.task = last
  /\ At(p, "dispatch") => Due(run[p].next, last)

OrderInv ==
  /\ \A t \in Task : tasks[t].sequence = IF t <= Length THEN t ELSE 0
  /\ \A job \in Pending : Due(job.task, last)
  /\ \A p \in Process : Holding(p) => Follows(p)

LEMMA OrderedRows ==
  ASSUME OrderInv
  PROVE  /\ Rows = 1 .. Length
         /\ \A t \in Rows : tasks[t].sequence = t
         /\ \A t \in Rows : IsFirstOf(t, Rows) => t = 1
<1>1. Rows = 1 .. Length /\ \A t \in Rows : tasks[t].sequence = t
  <2>1. \A t \in Task : t \in Nat /\ t > 0
    BY TaskAssumption
  <2>2. \A t \in Task : t \in Rows <=> t \in 1 .. Length
    BY <2>1, LengthAssumption DEF OrderInv, Rows
  <2>3. Rows \subseteq Task /\ 1 .. Length \subseteq Task
    BY LengthAssumption DEF Rows
  <2>4. \A t \in 1 .. Length : tasks[t].sequence = t
    BY <2>3, LengthAssumption DEF OrderInv
  <2> QED
    BY <2>2, <2>3, <2>4
<1>2. \A t \in Rows : IsFirstOf(t, Rows) => t = 1
  <2> SUFFICES ASSUME NEW t \in 1 .. Length, IsFirstOf(t, 1 .. Length) PROVE t = 1
    BY <1>1
  <2>1. 1 \in 1 .. Length
    BY LengthAssumption
  <2> QED
    BY <1>1, <2>1, LengthAssumption DEF IsFirstOf
<1> QED
  BY <1>1, <1>2

\* One process goes on, or none; the others do not hold the chain.
LEMMA OrderKept ==
  ASSUME TypeInv, OrderInv, NEW p \in Process,
         \A q \in Process \ {p} : ~Holding(q) /\ run'[q] = run[q],
         \A t \in Task : tasks'[t].sequence = tasks[t].sequence,
         \A job \in Pending' : Due(job.task, last'),
         Holding(p)' => Follows(p)'
  PROVE  OrderInv'
<1>1. \A q \in Process \ {p} : ~Holding(q)'
  BY DEF Holding
<1> QED
  BY <1>1 DEF OrderInv

\* Process p has attempted its task.
LEMMA OrderAttempted ==
  ASSUME TypeInv, ChainInv, OrderInv, NEW p \in Process, Holding(p), ~At(p, "failed"),
         NEW s \in {"advance", "failed"}, Goto(p, s), UNCHANGED <<tasks, waiting>>,
         last' = run[p].sequence
  PROVE  OrderInv'
<1>1. s \in Step
  BY DEF Step
<1>2. /\ run'[p].step = s /\ run'[p].job = run[p].job /\ run'[p].sequence = run[p].sequence
      /\ \A q \in Process \ {p} : run'[q] = run[q]
  BY <1>1, GotoOf, RunType DEF Run
<1>3. Pending' = {}
  BY HoldsAlone DEF Pending
<1>4. Follows(p)
  BY DEF OrderInv
<1>5. Due(run[p].job.task, last')
  BY <1>2, <1>4, LengthAssumption DEF Follows, Due
<1>6. Holding(p)' => Follows(p)'
  BY <1>2, <1>4, <1>5 DEF Holding, Follows, At, Due
<1> QED
  BY <1>2, <1>3, <1>6, HoldsAlone, OrderKept

\* Process p passes the chain on, or ends it.
LEMMA OrderPassed ==
  ASSUME TypeInv, ChainInv, OrderInv, NEW p \in Process, Holding(p), ~Holding(p)',
         \A q \in Process \ {p} : run'[q] = run[q],
         \A t \in Task : tasks'[t].sequence = tasks[t].sequence,
         UNCHANGED waiting \/ \E job \in Job : Add(job) /\ Due(job.task, last')
  PROVE  OrderInv'
<1>1. CASE UNCHANGED waiting
  <2>1. Pending' = {}
    BY <1>1, HoldsAlone DEF Pending
  <2> QED
    BY <2>1, HoldsAlone, OrderKept
<1>2. CASE \E job \in Job : Add(job) /\ Due(job.task, last')
  <2>1. PICK job \in Job : Add(job) /\ Due(job.task, last')
    BY <1>2
  <2>2. Pending' = {job}
    BY <2>1, AddOf, HoldsAlone
  <2> QED
    BY <2>1, <2>2, HoldsAlone, OrderKept
<1> QED
  BY <1>1, <1>2

LEMMA ContinueOrder ==
  ASSUME TypeInv, ChainInv, OrderInv, NEW p \in Process, Continue(p)
  PROVE  OrderInv'
<1>0. "done" \in Step /\ tasks \in [Task -> Row]
  BY DEF Step, TypeInv, TypeOK
<1>1. Holding(p) => Follows(p)
  BY DEF OrderInv
<1>2. /\ \A t \in Task : Unmarked(p)[t].sequence = tasks[t].sequence
      /\ \A t \in Task : Marked(tasks, run[p].job.task, FALSE)[t].sequence = tasks[t].sequence
      /\ \A t \in Task : Marked(tasks, run[p].job.task, TRUE)[t].sequence = tasks[t].sequence
  BY <1>0, RunType, UnmarkedType DEF Marked, Row
<1>3. CASE CommitStart(p)
  <2>1. /\ Holding(p) /\ At(p, "commit") /\ UNCHANGED waiting /\ last' = 0
        /\ \A t \in Task : tasks'[t].sequence = tasks[t].sequence
    BY <1>2, <1>3 DEF CommitStart, Holding, At
  <2>2. /\ run'[p].step = "start" /\ run'[p].job = run[p].job
        /\ run'[p].sequence = run[p].sequence
        /\ \A q \in Process \ {p} : run'[q] = run[q]
    BY <1>3, RunType DEF CommitStart, TypeInv, RunsInv, Run
  <2>3. Follows(p)'
    BY <1>1, <2>1, <2>2, LengthAssumption DEF Follows, Due, At
  <2>4. Pending' = {}
    BY <2>1, HoldsAlone DEF Pending
  <2> QED
    BY <2>1, <2>2, <2>3, <2>4, HoldsAlone, OrderKept
<1>4. ASSUME Holding(p), End(p) \/ (Goto(p, "done") /\ ~At(p, "failed")), UNCHANGED waiting,
             \A t \in Task : tasks'[t].sequence = tasks[t].sequence
      PROVE  OrderInv'
  <2>1. ~Holding(p)' /\ \A q \in Process \ {p} : run'[q] = run[q]
    BY <1>0, <1>4, EndOf, GotoOf DEF Holding
  <2> QED
    BY <1>4, <2>1, OrderPassed
<1>5. CASE RefuseOffline(p) \/ Fail(p)
  <2>1. /\ Holding(p) /\ End(p) /\ UNCHANGED waiting
        /\ \A t \in Task : tasks'[t].sequence = tasks[t].sequence
    BY <1>2, <1>5 DEF RefuseOffline, Fail, Holding, At
  <2> QED
    BY <1>4, <2>1
<1>6. CASE Refuse(p)
  <2>1. /\ Holding(p) /\ ~At(p, "failed") /\ Goto(p, "done") /\ UNCHANGED waiting
        /\ \A t \in Task : tasks'[t].sequence = tasks[t].sequence
    BY <1>2, <1>6 DEF Refuse, Holding, At
  <2> QED
    BY <1>4, <2>1
<1>7. CASE Act(p)
  <2>1. /\ Holding(p) /\ At(p, "handle") /\ ~At(p, "failed") /\ p # "web"
        /\ last' = run[p].sequence
    BY <1>7 DEF Act, Holding, At, ChainInv
  <2>2. \/ Goto(p, "advance") /\ UNCHANGED <<schedule, tasks, waiting>>
        \/ Throw(p)
    BY <1>7 DEF Act
  <2>3. CASE Goto(p, "advance") /\ UNCHANGED <<schedule, tasks, waiting>>
    BY <2>1, <2>3, OrderAttempted
  <2>4. CASE Goto(p, "failed") /\ UNCHANGED <<schedule, tasks, waiting>>
    BY <2>1, <2>4, OrderAttempted
  <2>5. CASE Add(run[p].job) /\ End(p) /\ UNCHANGED <<schedule, tasks>>
    <3>1. Due(run[p].job.task, last')
      BY <1>1, <2>1 DEF Follows, Due
    <3> QED
      BY <2>1, <2>5, <3>1, RunType, EndOf, OrderPassed
  <2> QED
    BY <2>1, <2>2, <2>3, <2>4, <2>5 DEF Throw
<1>8. CASE Advance(p)
  <2>1. /\ Holding(p) /\ ~At(p, "failed") /\ UNCHANGED <<waiting, last>>
        /\ run[p].sequence = run[p].job.task /\ run[p].job.task = last
    BY <1>1, <1>8 DEF Advance, Holding, Follows, At
  <2>2. CASE After(run[p].sequence) = {}
    BY <1>2, <1>4, <1>8, <2>1, <2>2 DEF Advance
  <2>3. CASE After(run[p].sequence) # {}
    <3>1. PICK t \in After(last) :
            /\ IsFirstOf(t, After(last))
            /\ tasks' = Marked(Unmarked(p), t, TRUE)
            /\ run' = [run EXCEPT ![p].step = "dispatch", ![p].next = t]
      BY <1>8, <2>1, <2>3 DEF Advance
    <3>2. t \in Task /\ \A u \in Task : tasks'[u].sequence = tasks[u].sequence
      BY <1>2, <3>1, UnmarkedType DEF After, Rows, Marked, Row
    <3>3. /\ run'[p].step = "dispatch" /\ run'[p].next = t
          /\ run'[p].job = run[p].job /\ run'[p].sequence = run[p].sequence
          /\ \A q \in Process \ {p} : run'[q] = run[q]
      BY <3>1, RunType DEF TypeInv, RunsInv, Run
    <3>4. t \in 1 .. Length /\ t = last + 1
      <4>1. last \in 1 .. Length /\ t \in 1 .. Length /\ t > last
        BY <1>1, <2>1, <3>1, OrderedRows DEF After, Follows
      <4>2. last + 1 \in 1 .. Length /\ last + 1 <= t
        BY <4>1, LengthAssumption
      <4>3. last + 1 \in After(last)
        BY <4>1, <4>2, OrderedRows DEF After
      <4>4. tasks[t].sequence <= tasks[last + 1].sequence
        BY <3>1, <4>3 DEF IsFirstOf
      <4>5. t <= last + 1
        BY <4>1, <4>2, <4>4, OrderedRows
      <4> QED
        BY <4>1, <4>2, <4>5
    <3>5. Follows(p)'
      BY <1>1, <2>1, <3>3, <3>4 DEF Follows, Due, At
    <3>6. Pending' = {}
      BY <2>1, HoldsAlone DEF Pending
    <3> QED
      BY <2>1, <3>2, <3>3, <3>5, <3>6, HoldsAlone, OrderKept
  <2> QED
    BY <2>2, <2>3
<1>9. CASE Dispatch(p)
  <2> DEFINE job == [task |-> run[p].next, manual |-> run[p].job.manual, attempts |-> 0]
  <2>1. job \in Job /\ job.task = run[p].next
    BY RunType, BoundsAssumption DEF Job
  <2>2. /\ Holding(p) /\ ~At(p, "failed") /\ Add(job) /\ Goto(p, "done")
        /\ UNCHANGED <<tasks, last>> /\ Due(run[p].next, last)
    BY <1>1, <1>9 DEF Dispatch, Holding, At, Follows
  <2> HIDE DEF job
  <2>3. ~Holding(p)' /\ \A q \in Process \ {p} : run'[q] = run[q]
    BY <1>0, <2>2, GotoOf DEF Holding
  <2>4. Due(job.task, last')
    BY <2>1, <2>2
  <2> QED
    BY <2>1, <2>2, <2>3, <2>4, OrderPassed
<1>10. CASE Done(p)
  <2>1. /\ ~Holding(p) /\ End(p) /\ UNCHANGED <<tasks, waiting, last>>
    BY <1>10 DEF Done, Holding, At
  <2>2. ~Holding(p)' /\ \A q \in Process \ {p} : run'[q] = run[q]
    BY <2>1, EndOf
  <2>3. \A q \in Process : Holding(q)' => Holding(q) /\ run'[q] = run[q]
    BY <2>2 DEF Holding
  <2> QED
    BY <2>1, <2>3 DEF OrderInv, Follows, Due, At, Pending
<1> QED
  BY <1>3, <1>5, <1>6, <1>7, <1>8, <1>9, <1>10 DEF Continue

LEMMA OrderStep ==
  ASSUME TypeInv, ChainInv, OrderInv,
         ~Manual, ~Toggles, "done" \notin Stops, MaxEdits = 0, Next
  PROVE  OrderInv'
<1>1. CASE BeginCron
  <2>1. PICK t \in Rows :
          /\ IsFirstOf(t, Rows)
          /\ run'["cron"].step = "commit" /\ run'["cron"].job.task = t
          /\ run'["cron"].sequence = tasks[t].sequence
          /\ \A q \in Process \ {"cron"} : run'[q] = run[q]
    BY <1>1, BeginOf
  <2>2. ~schedule.processing /\ run["cron"] = Idle /\ UNCHANGED <<tasks, waiting, last>>
    BY <1>1 DEF BeginCron
  <2>3. Pending' = {} /\ \A q \in Process \ {"cron"} : ~Holding(q)
    BY <2>2 DEF ChainInv, MarkedWhileJob, Pending, Holding, At
  <2>4. Follows("cron")'
    BY <2>1, OrderedRows DEF Follows, At
  <2> QED
    BY <2>1, <2>2, <2>3, <2>4, ProcessType, OrderKept
<1>2. CASE BeginManual \/ RunNow \/ Toggle
  BY <1>2 DEF BeginManual, RunNow, Toggle, ChainInv, At
<1>3. CASE DispatchFirst
  <2>1. /\ Holding("cron") /\ At("cron", "start") /\ UNCHANGED <<tasks, last>>
        /\ Add(run["cron"].job) /\ End("cron")
    BY <1>3 DEF DispatchFirst, Holding, At
  <2>2. Due(run["cron"].job.task, last')
    BY <2>1, ProcessType DEF OrderInv, Follows
  <2> QED
    BY <2>1, <2>2, ProcessType, RunType, EndOf, OrderPassed
<1>4. ASSUME NEW w \in Worker, NEW job \in Job, Take(w, job)
      PROVE  OrderInv'
  <2>1. /\ job \in Pending /\ w \in Process /\ UNCHANGED <<tasks, last>>
        /\ \A i \in Job : waiting'[i] > 0 => i \in Pending
    <3>1. /\ waiting'[job] = waiting[job] - 1 /\ waiting[job] > 0 /\ w \in Process
          /\ UNCHANGED <<tasks, last>> /\ waiting \in [Job -> Nat]
          /\ \A i \in Job \ {job} : waiting'[i] = waiting[i]
      BY <1>4, TakeOf DEF TypeInv, QueueInv
    <3> QED
      BY <3>1 DEF Pending
  <2>2. Pending' \subseteq Pending /\ \A q \in Process : ~Holding(q)
    BY <2>1 DEF Pending, ChainInv, OneChain
  <2>3. \A i \in Pending' : Due(i.task, last')
    BY <2>1, <2>2 DEF OrderInv
  <2>4. \A q \in Process \ {w} : ~Holding(q) /\ run'[q] = run[q]
    BY <1>4, <2>2, TakeOf
  <2>5. Holding(w)' => Follows(w)'
    <3>1. CASE UNCHANGED run
      BY <2>1, <2>2, <3>1 DEF Holding
    <3>2. CASE /\ job.task \in Rows
               /\ run'[w].step \in {"failed", "handle"}
               /\ run'[w].job.task = job.task
               /\ run'[w].sequence = tasks[job.task].sequence
      <4>1. Due(job.task, last') /\ run'[w].job.task \in 1 .. Length
            /\ run'[w].sequence = run'[w].job.task
        BY <2>1, <3>2, OrderedRows DEF OrderInv
      <4> QED
        BY <3>2, <4>1 DEF Follows, At
    <3> QED
      BY <1>4, <3>1, <3>2, TakeOf
  <2> QED
    BY <2>1, <2>3, <2>4, <2>5, OrderKept
<1>5. ASSUME NEW w \in Worker, Stop(w)
      PROVE  OrderInv'
  <2>1. /\ w \in Process /\ Holding(w) /\ ~At(w, "commit") /\ End(w)
        /\ UNCHANGED <<tasks, last>>
    BY <1>5, ProcessType, StopsAssumption DEF Stop, Holding, At
  <2>2. At(w, "failed") => UNCHANGED waiting
    BY <1>5 DEF Stop
  <2>3. ~At(w, "failed") => Add(run[w].job) /\ Due(run[w].job.task, last')
    BY <1>5, <2>1 DEF Stop, OrderInv, Follows, Due, Holding, At
  <2> QED
    BY <2>1, <2>2, <2>3, RunType, EndOf, OrderPassed
<1>6. CASE AddTask \/ MoveTask \/ DeleteTask
  BY <1>6 DEF AddTask, MoveTask, DeleteTask, Edit, TypeInv, TypeOK
<1>7. CASE ServerStatus
  BY <1>7 DEF ServerStatus, OrderInv, Follows, Holding, At, Pending
<1> QED
  BY <1>1, <1>2, <1>3, <1>4, <1>5, <1>6, <1>7, ContinueOrder DEF Next, TakeAny

LEMMA OrderInvariant ==
  ASSUME ~Manual, ~Toggles, "done" \notin Stops, MaxEdits = 0
  PROVE  Spec => []OrderInv
<1>1. Init => OrderInv
  BY IdleType DEF Init, OrderInv, Holding, Pending
<1>2. TypeInv /\ ChainInv /\ OrderInv /\ [Next]_vars => OrderInv'
  <2> SUFFICES ASSUME TypeInv, ChainInv, OrderInv, [Next]_vars PROVE OrderInv'
    OBVIOUS
  <2>1. CASE UNCHANGED vars
    BY <2>1 DEF vars, OrderInv, Follows, Holding, At, Pending
  <2> QED
    BY <2>1, OrderStep
<1> QED
  BY <1>1, <1>2, TypeInvariant, ChainInvariant, PTL DEF Spec

\* A step of a process is a step of the run, or none.
LEMMA ContinueRun ==
  ASSUME TypeInv, ChainInv, OrderInv, NEW p \in Process, Continue(p)
  PROVE  [ScheduleRunOf!Next]_<<schedule.processing, last>>
<1>1. schedule \in Schedule /\ last \in Nat
  BY MostType DEF TypeInv, TypeOK, Most
<1>2. Working(p) => schedule.processing
  BY HoldsAlone DEF Working
<1>3. CASE CommitStart(p)
  <2>1. ~run[p].processing /\ ~schedule.processing
    BY <1>3 DEF CommitStart, ChainInv
  <2>2. schedule'.processing = TRUE /\ last' = 0
    BY <1>1, <1>3, <2>1 DEF CommitStart, Schedule
  <2> QED
    BY <2>1, <2>2 DEF ScheduleRunOf!Next, ScheduleRunOf!Start
<1>4. ASSUME Working(p), Completed, UNCHANGED last
      PROVE  ScheduleRunOf!Finish
  <2>1. schedule'.processing = FALSE
    BY <1>1, <1>4 DEF Completed, Schedule
  <2> QED
    BY <1>2, <1>4, <2>1 DEF ScheduleRunOf!Finish
<1>5. CASE RefuseOffline(p) \/ Refuse(p) \/ Fail(p)
  <2>1. Working(p) /\ UNCHANGED last /\ (Completed \/ UNCHANGED schedule)
    BY <1>5 DEF RefuseOffline, Refuse, Fail, Working, Holding, At
  <2> QED
    BY <1>4, <2>1 DEF ScheduleRunOf!Next
<1>6. CASE Act(p)
  <2>1. Working(p) /\ p # "web" /\ last' = run[p].sequence
    BY <1>6 DEF Act, Working, Holding, At, ChainInv
  <2>2. UNCHANGED schedule
    BY <1>6, <2>1 DEF Act, Throw
  <2>3. last' \in {last, last + 1} \cap 1 .. Length
    BY <1>6, <2>1 DEF Act, OrderInv, Follows, Due, Working
  <2> QED
    BY <1>2, <2>1, <2>2, <2>3 DEF ScheduleRunOf!Next, ScheduleRunOf!Perform
<1>7. CASE Advance(p)
  <2>1. Working(p) /\ UNCHANGED last /\ (Completed \/ UNCHANGED schedule)
    BY <1>7 DEF Advance, Working, Holding, At
  <2> QED
    BY <1>4, <2>1 DEF ScheduleRunOf!Next
<1>8. CASE Dispatch(p) \/ Done(p)
  BY <1>8 DEF Dispatch, Done
<1> QED
  BY <1>3, <1>5, <1>6, <1>7, <1>8 DEF Continue

LEMMA RunStep ==
  ASSUME TypeInv, ChainInv, OrderInv, ~Manual, ~Toggles, [Next]_vars
  PROVE  [ScheduleRunOf!Next]_<<schedule.processing, last>>
<1>1. CASE BeginCron \/ BeginManual
  BY <1>1, BeginOf
<1>2. CASE DispatchFirst \/ RunNow
  BY <1>2 DEF DispatchFirst, RunNow
<1>3. ASSUME NEW w \in Worker, TakeAny(w) \/ Stop(w)
      PROVE  UNCHANGED <<schedule, last>>
  BY <1>3, TakeOf DEF TakeAny, Stop
<1>4. CASE AddTask \/ MoveTask \/ DeleteTask \/ ServerStatus
  BY <1>4 DEF AddTask, MoveTask, DeleteTask, Edit, ServerStatus
<1>5. CASE Toggle
  BY <1>5 DEF Toggle
<1>6. CASE UNCHANGED vars
  BY <1>6 DEF vars
<1> QED
  BY <1>1, <1>2, <1>3, <1>4, <1>5, <1>6, ContinueRun DEF Next

\* A run of the schedule attempts its tasks in their order and passes over none,
\* however many workers stop and jobs are retried, as long as the tasks stay as
\* they are: an edit may move a task before one that was attempted.
\* (RunTaskJob::queueNextTask.)
THEOREM RunsInOrder ==
  ASSUME ~Manual, ~Toggles, "done" \notin Stops, MaxEdits = 0
  PROVE  Spec => ImplementsRun
<1>1. Init => ScheduleRunOf!Init
  BY DEF Init, ScheduleRunOf!Init
<1>2. TypeInv /\ ChainInv /\ OrderInv /\ [Next]_vars
        => [ScheduleRunOf!Next]_<<schedule.processing, last>>
  BY RunStep
<1> QED
  BY <1>1, <1>2, TypeInvariant, ChainInvariant, OrderInvariant, PTL
     DEF Spec, ImplementsRun, ScheduleRunOf!Spec

=============================================================================
