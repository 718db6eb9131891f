--------------------------- MODULE BackupsProofs ---------------------------
(***************************************************************************)
(* What holds of Backups for any number of backups and of requests at the  *)
(* same time, any limits, and any fate of the calls, unless a theorem says *)
(* otherwise.                                                              *)
(***************************************************************************)
EXTENDS Backups, TLAPS

-----------------------------------------------------------------------------
(* Types.                                                                    *)

\* A request that works on a backup names one.
Named == {q \in Request : q.step \notin {"idle", "create"} => q.id \in Id}

TypeInv == TypeOK /\ request \in [Slot -> Named]

LEMMA NextTypeInv ==
  ASSUME default' \in Adapters, backups' \in [Id -> Row], aged' \in 0 .. MaxBackups,
         archives' \subseteq Id, jobs' \subseteq Job, request' \in [Slot -> Named]
  PROVE  TypeInv'
<1>1. Named \subseteq Request
  BY DEF Named
<1>2. request' \in [Slot -> Request]
  BY <1>1
<1> QED
  BY <1>2 DEF TypeInv, TypeOK

LEMMA RequestType ==
  ASSUME TypeInv, NEW r \in Slot
  PROVE  /\ request[r] \in Request
         /\ request[r].step \in Step /\ request[r].adapter \in {"wings", "s3"}
         /\ request[r].id \in 0 .. MaxBackups
         /\ request[r].locked \in BOOLEAN /\ request[r].successful \in BOOLEAN
         /\ request[r].rotate \in BOOLEAN
         /\ request[r].step \notin {"idle", "create"} => request[r].id \in Id
BY DEF TypeInv, Named, Request

LEMMA BackupType ==
  ASSUME TypeOK, NEW b \in Id
  PROVE  /\ backups[b] \in Row /\ b \in 0 .. MaxBackups
         /\ backups[b].state \in State /\ backups[b].disk \in {"wings", "s3"}
         /\ backups[b].locked \in BOOLEAN /\ backups[b].successful \in BOOLEAN
         /\ backups[b].completed \in BOOLEAN /\ backups[b].upload \in BOOLEAN
BY LimitsAssumption DEF TypeOK, Row, Id

LEMMA IdleType == Idle \in Named /\ Idle \in Request /\ Idle.step = "idle"
BY LimitsAssumption DEF Idle, Named, Request, Step

\* A request begins: nothing else has changed in this step but the daemon's jobs.
LEMMA BeginType ==
  ASSUME TypeInv, NEW r \in Slot, NEW loaded \in Named, Begin(r, loaded)
  PROVE  request' \in [Slot -> Named]
<1>1. [loaded EXCEPT !.adapter = default] \in Named
  BY AdaptersAssumption DEF TypeInv, TypeOK, Named, Request
<1> QED
  BY <1>1 DEF Begin, TypeInv

LEMMA EndType ==
  ASSUME TypeInv, NEW r \in Slot, End(r)
  PROVE  request' \in [Slot -> Named]
BY IdleType DEF End, TypeInv

LEMMA GotoType ==
  ASSUME TypeInv, NEW r \in Slot, request[r].id \in Id, NEW step \in Step,
         request' = [request EXCEPT ![r].step = step]
  PROVE  request' \in [Slot -> Named]
<1>1. [request[r] EXCEPT !.step = step] \in Named
  BY RequestType DEF Named, Request
<1> QED
  BY <1>1 DEF TypeInv

\* A row that is not there is not changed.
LEMMA SetRowType ==
  ASSUME TypeOK, NEW b, NEW row, SetRow(b, row), b \in Id => row \in Row
  PROVE  backups' \in [Id -> Row]
<1>1. CASE b \in Id
  BY <1>1 DEF SetRow, TypeOK
<1>2. CASE b \notin Id
  BY <1>2 DEF SetRow, TypeOK
<1> QED
  BY <1>1, <1>2

LEMMA ReportedRowType ==
  ASSUME NEW row \in Row, NEW loaded \in Request
  PROVE  ReportedRow(row, loaded) \in Row
BY DEF ReportedRow, Row, Request

LEMMA UserType ==
  ASSUME TypeInv, NEW r \in Slot, User(r)
  PROVE  TypeInv'
<1>1. UNCHANGED <<default, backups, aged, archives, jobs>>
  BY DEF User, BeginCreate, BeginRotate, BeginDelete, BeginToggleLock
<1>2. \E loaded \in Named : Begin(r, loaded)
  <2>1. ASSUME NEW locked \in BOOLEAN, BeginCreate(r, locked)
        PROVE  \E loaded \in Named : Begin(r, loaded)
    <3>1. [Idle EXCEPT !.step = "create", !.locked = locked] \in Named
      BY IdleType DEF Named, Request, Step
    <3> QED
      BY <2>1, <3>1 DEF BeginCreate
  <2>2. ASSUME NEW b \in Id,
               BeginRotate(r) /\ Begin(r, [Idle EXCEPT !.step = "remove", !.id = b,
                                                       !.rotate = TRUE])
        PROVE  \E loaded \in Named : Begin(r, loaded)
    <3>1. [Idle EXCEPT !.step = "remove", !.id = b, !.rotate = TRUE] \in Named
      BY IdleType, BackupType DEF TypeInv, Named, Request, Step
    <3> QED
      BY <2>2, <3>1
  <2>3. ASSUME NEW b \in Id, BeginDelete(r, b)
        PROVE  \E loaded \in Named : Begin(r, loaded)
    <3>1. [Idle EXCEPT !.step = "remove", !.id = b] \in Named
      BY IdleType, BackupType DEF TypeInv, Named, Request, Step
    <3> QED
      BY <2>3, <3>1 DEF BeginDelete
  <2>4. ASSUME NEW b \in Id, BeginToggleLock(r, b)
        PROVE  \E loaded \in Named : Begin(r, loaded)
    <3>1. [Idle EXCEPT !.step = "toggle", !.id = b, !.locked = backups[b].locked] \in Named
      BY IdleType, BackupType DEF TypeInv, Named, Request, Step
    <3> QED
      BY <2>4, <3>1 DEF BeginToggleLock
  <2>5. BeginRotate(r) => \E b \in Id :
          BeginRotate(r) /\ Begin(r, [Idle EXCEPT !.step = "remove", !.id = b,
                                                  !.rotate = TRUE])
    BY DEF BeginRotate, Deletable, Live
  <2> QED
    BY <2>1, <2>2, <2>3, <2>4, <2>5 DEF User
<1> QED
  BY <1>1, <1>2, BeginType, NextTypeInv DEF TypeInv, TypeOK

\* The request that has inserted row b.
Committing(r, b) ==
  [Idle EXCEPT !.step = "commit", !.id = b, !.rotate = request[r].rotate]

LEMMA ContinueType ==
  ASSUME TypeInv, NEW r \in Slot, Continue(r)
  PROVE  TypeInv'
<1>1. CASE CreateAndCall(r)
  <2>1. PICK b \in Id, answer \in Answers :
          /\ SetRow(b, [state |-> IF Threw(answer) THEN "undone" ELSE "open",
                        disk |-> request[r].adapter, locked |-> request[r].locked,
                        successful |-> FALSE, completed |-> FALSE, upload |-> FALSE])
          /\ jobs' = IF Processed(answer)
                     THEN jobs \cup {[id |-> b, disk |-> request[r].adapter, work |-> "making"]}
                     ELSE jobs
          /\ IF Threw(answer)
             THEN End(r)
             ELSE request' = [request EXCEPT ![r] = Committing(r, b)]
    BY <1>1 DEF CreateAndCall, Committing
  <2>2. backups' \in [Id -> Row]
    BY <2>1, RequestType DEF SetRow, TypeInv, TypeOK, Row, State
  <2>3. jobs' \subseteq Job
    BY <2>1, RequestType DEF TypeInv, TypeOK, Job
  <2>4. Committing(r, b) \in Named
    BY IdleType, BackupType, RequestType DEF Committing, TypeInv, Named, Request, Step
  <2>5. request' \in [Slot -> Named]
    BY <2>1, <2>4, EndType DEF TypeInv, TypeOK
  <2> QED
    BY <1>1, <2>2, <2>3, <2>5, NextTypeInv DEF TypeInv, TypeOK, CreateAndCall
<1>2. CASE CreateNone(r)
  BY <1>2, EndType, NextTypeInv DEF TypeInv, TypeOK, CreateNone
<1>3. CASE CommitCreate(r)
  <2>1. request[r].id \in Id =>
          [backups[request[r].id] EXCEPT !.state = "live"] \in Row
    BY BackupType DEF TypeInv, Row, State
  <2> QED
    BY <1>3, <2>1, SetRowType, EndType, NextTypeInv DEF TypeInv, TypeOK, CommitCreate
<1>4. CASE RemoveArchive(r)
  <2>1. PICK answer :
          /\ archives' = IF Processed(answer) THEN archives \ {request[r].id} ELSE archives
          /\ End(r) \/ Goto(r, "deleteRow")
    BY <1>4 DEF RemoveArchive
  <2>2. request' \in [Slot -> Named]
    <3>1. request[r].id \in Id /\ "deleteRow" \in Step
      BY <1>4, RequestType DEF RemoveArchive, At, Step
    <3> QED
      BY <2>1, <3>1, EndType, GotoType DEF Goto
  <2>3. archives' \subseteq Id
    BY <2>1 DEF TypeInv, TypeOK
  <2> QED
    BY <1>4, <2>2, <2>3, NextTypeInv DEF TypeInv, TypeOK, RemoveArchive
<1>5. CASE DeleteRow(r)
  <2>1. request[r].id \in Id =>
          [backups[request[r].id] EXCEPT !.state = "trashed"] \in Row
    BY BackupType DEF TypeInv, Row, State
  <2>2. request' \in [Slot -> Named]
    BY <1>5, RequestType, EndType, GotoType DEF DeleteRow, At, Step
  <2> QED
    BY <1>5, <2>1, <2>2, SetRowType, NextTypeInv DEF TypeInv, TypeOK, DeleteRow
<1>6. CASE CommitToggleLock(r)
  <2>1. request[r].id \in Id =>
          [backups[request[r].id] EXCEPT !.locked = ~request[r].locked] \in Row
    BY BackupType DEF TypeInv, Row
  <2> QED
    BY <1>6, <2>1, SetRowType, EndType, NextTypeInv DEF TypeInv, TypeOK, CommitToggleLock
<1>7. CASE CommitUpload(r)
  <2>1. request[r].id \in Id =>
          [backups[request[r].id] EXCEPT !.upload = TRUE] \in Row
    BY BackupType DEF TypeInv, Row
  <2>2. backups' \in [Id -> Row]
    BY <1>7, <2>1, SetRowType DEF TypeInv, TypeOK, CommitUpload
  <2>3. \A job \in jobs : [job EXCEPT !.work = "uploading"] \in Job
    BY DEF TypeInv, TypeOK, Job
  <2>4. jobs' \subseteq Job
    BY <1>7, <2>3 DEF TypeInv, TypeOK, CommitUpload
  <2> QED
    BY <1>7, <2>2, <2>4, EndType, NextTypeInv DEF TypeInv, TypeOK, CommitUpload
<1>8. CASE CommitReport(r)
  <2>1. request[r].id \in Id => ReportedRow(backups[request[r].id], request[r]) \in Row
    BY BackupType, RequestType, ReportedRowType DEF TypeInv
  <2>2. \/ UNCHANGED backups
        \/ SetRow(request[r].id, ReportedRow(backups[request[r].id], request[r]))
    BY <1>8 DEF CommitReport
  <2>3. backups' \in [Id -> Row]
    BY <2>1, <2>2, SetRowType DEF TypeInv, TypeOK
  <2> QED
    BY <1>8, <2>3, RequestType, EndType, NextTypeInv DEF TypeInv, TypeOK, Named, CommitReport, CompleteUpload, At
<1> QED
  BY <1>1, <1>2, <1>3, <1>4, <1>5, <1>6, <1>7, <1>8 DEF Continue

LEMMA DaemonType ==
  ASSUME TypeInv, Daemon
  PROVE  TypeInv'
<1> USE DEF TypeInv, TypeOK
<1>1. ASSUME NEW job \in jobs
      PROVE  /\ job \in Job /\ job.id \in Id
             /\ \A work \in {"making", "uploading", "made", "failed"} :
                  [job EXCEPT !.work = work] \in Job
  BY DEF Job
<1>2. ASSUME NEW job \in jobs, NEW work \in {"made", "failed"}, Finish(job, work)
      PROVE  TypeInv'
  BY <1>1, <1>2, NextTypeInv DEF Finish, Work
<1>3. ASSUME NEW job \in jobs, RefuseUpload(job) \/ RefuseReport(job)
      PROVE  TypeInv'
  BY <1>1, <1>3, NextTypeInv DEF RefuseUpload, RefuseReport, Work
<1>4. ASSUME NEW job \in jobs, NEW r \in Slot, BeginUpload(r, job)
      PROVE  TypeInv'
  <2>1. [Idle EXCEPT !.step = "upload", !.id = job.id] \in Named
    BY <1>1, IdleType, BackupType DEF Named, Request, Step
  <2> QED
    BY <1>4, <2>1, BeginType, NextTypeInv DEF BeginUpload
<1>5. ASSUME NEW job \in jobs, NEW r \in Slot, BeginReport(r, job)
      PROVE  TypeInv'
  <2>1. [Idle EXCEPT !.step = "report", !.id = job.id, !.locked = backups[job.id].locked,
                     !.successful = (job.work = "made")] \in Named
    BY <1>1, IdleType, BackupType DEF Named, Request, Step
  <2>2. jobs' \subseteq Job
    BY <1>5 DEF BeginReport, Reported
  <2> QED
    BY <1>5, <2>1, <2>2, BeginType, NextTypeInv DEF BeginReport
<1>6. CASE Restart
  BY <1>6, NextTypeInv DEF Restart
<1> QED
  BY <1>2, <1>3, <1>4, <1>5, <1>6 DEF Daemon

LEMMA EnvironmentType ==
  ASSUME TypeInv, Environment
  PROVE  TypeInv'
<1>1. ASSUME NEW k \in Id, Prune(k)
      PROVE  TypeInv'
  <2>1. \A b \in Id : [backups[b] EXCEPT !.completed = TRUE, !.successful = FALSE] \in Row
    BY BackupType DEF TypeInv, Row
  <2>2. backups' \in [Id -> Row]
    BY <1>1, <2>1 DEF TypeInv, TypeOK, Prune
  <2> QED
    BY <1>1, <2>2, NextTypeInv DEF TypeInv, TypeOK, Prune
<1>2. CASE Age
  <2>1. aged' \in 0 .. MaxBackups
    BY <1>2, LimitsAssumption DEF TypeInv, TypeOK, Age
  <2> QED
    BY <1>2, <2>1, NextTypeInv DEF TypeInv, TypeOK, Age
<1>3. CASE SwitchAdapter
  BY <1>3, NextTypeInv DEF TypeInv, TypeOK, SwitchAdapter
<1> QED
  BY <1>1, <1>2, <1>3 DEF Environment

LEMMA TypeInvNext ==
  ASSUME TypeInv, [Next]_vars
  PROVE  TypeInv'
<1>1. CASE UNCHANGED vars
  BY <1>1, NextTypeInv DEF vars, TypeInv, TypeOK
<1> QED
  BY <1>1, UserType, ContinueType, DaemonType, EnvironmentType DEF Next

LEMMA TypeInvAlways == Spec => []TypeInv
<1>1. Init => TypeInv
  <2> SUFFICES ASSUME Init PROVE TypeInv
    OBVIOUS
  <2>1. backups \in [Id -> Row]
    BY DEF Init, Row, State
  <2>2. request \in [Slot -> Named] /\ request \in [Slot -> Request]
    BY IdleType DEF Init
  <2> QED
    BY <2>1, <2>2, LimitsAssumption DEF Init, TypeInv, TypeOK
<1> QED
  BY <1>1, TypeInvNext, PTL DEF Spec

\* Every variable keeps its type; in particular a request or a report never
\* adds an archive that no row can stand for.
THEOREM TypeCorrect == Spec => []TypeOK
<1>1. TypeInv => TypeOK
  BY DEF TypeInv
<1> QED
  BY <1>1, TypeInvAlways, PTL

-----------------------------------------------------------------------------
(* What a step does to the row of a backup. *)

\* A lock is put on a backup by a toggle only.
Becomes(b, state, completed, successful) ==
  /\ backups'[b].state = state
  /\ backups'[b].completed = completed
  /\ backups'[b].successful = successful
  /\ backups'[b].locked => backups[b].locked \/ \E r \in Slot : Protecting(r, b)

\* What the panel says of the backup stays.
Kept(b) == Becomes(b, backups[b].state, backups[b].completed, backups[b].successful)

Inserted(b) ==
  /\ backups[b].state = "unused"
  /\ backups'[b].state \in {"open", "undone"}
  /\ ~backups'[b].completed /\ ~backups'[b].successful

Committed(r, b) ==
  /\ CommitCreate(r) /\ request[r].id = b
  /\ Becomes(b, "live", backups[b].completed, backups[b].successful)

Deleted(r, b) ==
  /\ DeleteRow(r) /\ request[r].id = b
  /\ Becomes(b, "trashed", backups[b].completed, backups[b].successful)

Ended(r, b) ==
  /\ CommitReport(r) /\ request[r].id = b
  /\ Becomes(b, backups[b].state, TRUE, backups[b].successful \/ request[r].successful)

Pruned(b) ==
  /\ Pruning /\ b \in InProgress /\ b <= aged
  /\ Becomes(b, "live", TRUE, FALSE)

RowChange(b) ==
  \/ Kept(b)
  \/ Inserted(b)
  \/ \E r \in Slot : Committed(r, b) \/ Deleted(r, b) \/ Ended(r, b)
  \/ Pruned(b)

LEMMA SameRow ==
  ASSUME NEW b \in Id, backups'[b] = backups[b]
  PROVE  RowChange(b)
BY DEF RowChange, Kept, Becomes

\* The row a request works on, and the others.
LEMMA SetRowElse ==
  ASSUME TypeInv, NEW c, NEW row, SetRow(c, row), NEW b \in Id
  PROVE  backups'[b] = IF b = c THEN row ELSE backups[b]
BY DEF SetRow, TypeInv, TypeOK

LEMMA ContinueRow ==
  ASSUME TypeInv, NEW r \in Slot, Continue(r), NEW b \in Id
  PROVE  RowChange(b)
<1> DEFINE c == request[r].id
           row == backups[b]
<1>t. row \in Row
  BY DEF TypeInv, TypeOK
<1>1. CASE CreateAndCall(r)
  <2>0. PICK d \in Id :
          /\ backups[d].state = "unused"
          /\ \E inserted :
               /\ SetRow(d, inserted)
               /\ inserted.state \in {"open", "undone"}
               /\ ~inserted.completed /\ ~inserted.successful
    BY <1>1 DEF CreateAndCall
  <2>1. PICK inserted :
          /\ SetRow(d, inserted)
          /\ inserted.state \in {"open", "undone"}
          /\ ~inserted.completed /\ ~inserted.successful
    BY <2>0
  <2>2. backups'[b] = IF b = d THEN inserted ELSE backups[b]
    BY <2>1, SetRowElse
  <2>3. CASE b = d
    BY <2>0, <2>1, <2>2, <2>3 DEF RowChange, Inserted
  <2> QED
    BY <2>2, <2>3, SameRow
<1>2. CASE CreateNone(r) \/ RemoveArchive(r)
  BY <1>2, SameRow DEF CreateNone, RemoveArchive
<1>3. CASE CommitCreate(r)
  <2>1. backups'[b] = IF b = c THEN [row EXCEPT !.state = "live"] ELSE row
    BY <1>3, SetRowElse DEF CommitCreate
  <2>2. CASE b = c
    BY <1>t, <1>3, <2>1, <2>2 DEF RowChange, Committed, Becomes, Row
  <2> QED
    BY <2>1, <2>2, SameRow
<1>4. CASE DeleteRow(r)
  <2>1. backups'[b] = IF b = c THEN [row EXCEPT !.state = "trashed"] ELSE row
    BY <1>4, SetRowElse DEF DeleteRow
  <2>2. CASE b = c
    BY <1>t, <1>4, <2>1, <2>2 DEF RowChange, Deleted, Becomes, Row
  <2> QED
    BY <2>1, <2>2, SameRow
<1>5. CASE CommitToggleLock(r)
  <2>1. backups'[b] = IF b = c THEN [row EXCEPT !.locked = ~request[r].locked] ELSE row
    BY <1>5, SetRowElse DEF CommitToggleLock
  <2>2. CASE b = c
    <3>1. ~request[r].locked => Protecting(r, b)
      BY <1>5, <2>2 DEF CommitToggleLock, Protecting
    <3> QED
      BY <1>t, <2>1, <2>2, <3>1 DEF RowChange, Kept, Becomes, Row
  <2> QED
    BY <2>1, <2>2, SameRow
<1>6. CASE CommitUpload(r)
  <2>1. \/ backups'[b] = row
        \/ backups'[b] = [row EXCEPT !.upload = TRUE]
    BY <1>6, SetRowElse DEF CommitUpload
  <2> QED
    BY <1>t, <2>1, SameRow DEF RowChange, Kept, Becomes, Row
<1>7. CASE CommitReport(r)
  <2>1. UNCHANGED backups \/ SetRow(c, ReportedRow(backups[c], request[r]))
    BY <1>7 DEF CommitReport
  <2>2. CASE b = c /\ backups'[b] = ReportedRow(row, request[r])
    BY <1>t, <1>7, <2>2 DEF RowChange, Ended, Becomes, ReportedRow, Row
  <2> QED
    BY <2>1, <2>2, SetRowElse, SameRow
<1> QED
  BY <1>1, <1>2, <1>3, <1>4, <1>5, <1>6, <1>7 DEF Continue

LEMMA RowStep ==
  ASSUME TypeInv, [Next]_vars, NEW b \in Id
  PROVE  RowChange(b)
<1>1. ASSUME NEW k \in Id, Prune(k)
      PROVE  RowChange(b)
  <2>1. /\ k <= aged
        /\ backups'[b] = IF b \in InProgress /\ b <= k
                         THEN [backups[b] EXCEPT !.completed = TRUE, !.successful = FALSE]
                         ELSE backups[b]
    BY <1>1 DEF Prune
  <2>2. CASE b \in InProgress /\ b <= k
    <3>1. backups[b] \in Row /\ b <= aged
      BY <2>1, <2>2, LimitsAssumption DEF TypeInv, TypeOK, Id
    <3>2. Pruned(b)
      BY <1>1, <2>1, <2>2, <3>1 DEF Prune, Pruned, Becomes, Row, InProgress, Live
    <3> QED
      BY <3>2 DEF RowChange
  <2> QED
    BY <2>1, <2>2, SameRow
<1>2. CASE UNCHANGED vars
  BY <1>2, SameRow DEF vars
<1>3. ASSUME NEW r \in Slot, User(r)
      PROVE  RowChange(b)
  BY <1>3, SameRow DEF User, BeginCreate, BeginRotate, BeginDelete, BeginToggleLock
<1>4. CASE Daemon
  BY <1>4, SameRow
     DEF Daemon, Finish, RefuseUpload, RefuseReport, BeginUpload, BeginReport, Restart
<1>5. CASE Age \/ SwitchAdapter
  BY <1>5, SameRow DEF Age, SwitchAdapter
<1> QED
  BY <1>1, <1>2, <1>3, <1>4, <1>5, ContinueRow DEF Next, Environment

-----------------------------------------------------------------------------
(* What a step does to a request. *)

Told(q) == IF q.successful THEN "made" ELSE "failed"

\* What a request checks when it begins: that there is room, that the row may be
\* removed, and gives way if it is for another, that it is there, or how its job ended.
Loads(q) ==
  \/ q.step = "create" /\ ~q.rotate /\ ~Throttled /\ ~AtLimit
  \/ /\ q.step = "remove" /\ q.id \in Deletable
     /\ q.rotate => ~Throttled /\ BackupLimit > 0 /\ q.id \in nonFailed(Live)
  \/ q.step \in {"toggle", "upload"} /\ ~q.rotate /\ q.id \in Live
  \/ /\ q.step = "report" /\ ~q.rotate /\ q.id \in Live
     /\ \E job \in jobs : job.id = q.id /\ job.work = Told(q)

Began(r) ==
  /\ request[r] = Idle
  /\ Loads(request'[r])
  /\ UNCHANGED <<backups, aged>>
  /\ jobs' \subseteq jobs

\* The row it has inserted.
Inserts(r) ==
  /\ At(r, "create")
  /\ \E b \in Id :
       /\ request'[r] = Committing(r, b)
       /\ Inserted(b) /\ backups'[b].state = "open"

Removes(r) ==
  /\ RemoveArchive(r)
  /\ request'[r] = [request[r] EXCEPT !.step = "deleteRow"]

MakesRoom(r) ==
  /\ DeleteRow(r) /\ request[r].rotate
  /\ request'[r] = [request[r] EXCEPT !.step = "create"]

RequestChange(r) ==
  \/ request'[r] = request[r]
  \/ request'[r] = Idle
  \/ Began(r) \/ Inserts(r) \/ Removes(r) \/ MakesRoom(r)

OthersWait(r) == \A s \in Slot \ {r} : request'[s] = request[s]

LEMMA BeginRequest ==
  ASSUME TypeInv, NEW r \in Slot, NEW loaded \in Named, Begin(r, loaded), Loads(loaded),
         UNCHANGED <<backups, aged>>, jobs' \subseteq jobs
  PROVE  Began(r) /\ OthersWait(r)
<1>1. /\ request'[r] = [loaded EXCEPT !.adapter = default]
      /\ request[r] = Idle /\ OthersWait(r)
  BY DEF Begin, TypeInv, OthersWait
<1>2. /\ request'[r].step = loaded.step /\ request'[r].id = loaded.id
      /\ request'[r].successful = loaded.successful
      /\ request'[r].rotate = loaded.rotate
  BY <1>1 DEF Named, Request
<1> QED
  BY <1>1, <1>2 DEF Began, Loads, Told

LEMMA EndRequest ==
  ASSUME TypeInv, NEW r \in Slot, End(r)
  PROVE  request'[r] = Idle /\ OthersWait(r)
BY DEF End, TypeInv, OthersWait

LEMMA UserRequest ==
  ASSUME TypeInv, NEW r \in Slot, User(r)
  PROVE  Began(r) /\ OthersWait(r)
<1>1. UNCHANGED <<backups, aged>> /\ jobs' \subseteq jobs
  BY DEF User, BeginCreate, BeginRotate, BeginDelete, BeginToggleLock
<1>2. PICK loaded \in Named : Begin(r, loaded) /\ Loads(loaded)
  <2>1. ASSUME NEW locked \in BOOLEAN, BeginCreate(r, locked)
        PROVE  \E loaded \in Named : Begin(r, loaded) /\ Loads(loaded)
    <3> DEFINE q == [Idle EXCEPT !.step = "create", !.locked = locked]
    <3>1. q \in Named /\ q.step = "create" /\ ~q.rotate
      BY IdleType DEF Named, Request, Step, Idle
    <3>2. Begin(r, q) /\ ~Throttled /\ ~AtLimit
      BY <2>1 DEF BeginCreate
    <3> HIDE DEF q
    <3> QED
      BY <3>1, <3>2 DEF Loads
  <2>2. ASSUME NEW b \in Deletable, NEW q, q.step = "remove", q.id = b, Begin(r, q), q \in Request,
               q.rotate => ~Throttled /\ BackupLimit > 0 /\ b \in nonFailed(Live)
        PROVE  \E loaded \in Named : Begin(r, loaded) /\ Loads(loaded)
    BY <2>2 DEF Deletable, Live, Named, Loads
  <2>b. \A b \in Deletable : b \in Id /\ b \in 0 .. MaxBackups
    BY BackupType DEF Deletable, Live, TypeInv
  <2>3. CASE BeginRotate(r)
    <3>1. PICK b \in Deletable :
            /\ Begin(r, [Idle EXCEPT !.step = "remove", !.id = b, !.rotate = TRUE])
            /\ b \in nonFailed(Live)
      BY <2>3 DEF BeginRotate, Oldest
    <3>0. ~Throttled /\ BackupLimit > 0
      BY <2>3 DEF BeginRotate
    <3> DEFINE q == [Idle EXCEPT !.step = "remove", !.id = b, !.rotate = TRUE]
    <3>2. q \in Request /\ q.step = "remove" /\ q.id = b
      BY <2>b, IdleType DEF Request, Step, Idle
    <3> QED
      BY <2>2, <3>0, <3>1, <3>2
  <2>4. ASSUME NEW b \in Id, BeginDelete(r, b)
        PROVE  \E loaded \in Named : Begin(r, loaded) /\ Loads(loaded)
    <3> DEFINE q == [Idle EXCEPT !.step = "remove", !.id = b]
    <3>1. Begin(r, q) /\ b \in Deletable
      BY <2>4 DEF BeginDelete
    <3>2. q \in Request /\ q.step = "remove" /\ q.id = b /\ ~q.rotate
      BY <2>b, <3>1, IdleType DEF Request, Step, Idle
    <3> QED
      BY <2>2, <3>1, <3>2
  <2>5. ASSUME NEW b \in Id, BeginToggleLock(r, b)
        PROVE  \E loaded \in Named : Begin(r, loaded) /\ Loads(loaded)
    <3> DEFINE q == [Idle EXCEPT !.step = "toggle", !.id = b, !.locked = backups[b].locked]
    <3>1. q \in Named /\ q.step = "toggle" /\ q.id = b /\ ~q.rotate
      BY IdleType, BackupType DEF TypeInv, Named, Request, Step, Idle
    <3>2. Begin(r, q) /\ b \in Live
      BY <2>5 DEF BeginToggleLock
    <3> HIDE DEF q
    <3> QED
      BY <3>1, <3>2 DEF Loads
  <2> QED
    BY <2>1, <2>3, <2>4, <2>5 DEF User
<1> QED
  BY <1>1, <1>2, BeginRequest

LEMMA ContinueRequest ==
  ASSUME TypeInv, NEW r \in Slot, Continue(r)
  PROVE  RequestChange(r) /\ OthersWait(r)
<1> USE DEF RequestChange
<1>1. CASE CreateAndCall(r)
  <2>0. PICK b \in Id, answer \in Answers :
          /\ backups[b].state = "unused"
          /\ SetRow(b, [state |-> IF Threw(answer) THEN "undone" ELSE "open",
                        disk |-> request[r].adapter, locked |-> request[r].locked,
                        successful |-> FALSE, completed |-> FALSE, upload |-> FALSE])
          /\ IF Threw(answer)
             THEN End(r)
             ELSE request' = [request EXCEPT ![r] = Committing(r, b)]
    BY <1>1 DEF CreateAndCall, Committing
  <2>1. PICK inserted :
          /\ SetRow(b, inserted)
          /\ ~Threw(answer) => inserted.state = "open"
          /\ ~inserted.completed /\ ~inserted.successful
    BY <2>0
  <2>2. backups'[b] = inserted
    BY <2>1, SetRowElse
  <2>3. CASE End(r)
    BY <2>3, EndRequest
  <2>4. CASE ~Threw(answer) /\ request' = [request EXCEPT ![r] = Committing(r, b)]
    <3>1. request'[r] = Committing(r, b) /\ OthersWait(r)
      BY <2>4 DEF TypeInv, OthersWait
    <3> QED
      BY <1>1, <2>0, <2>1, <2>2, <2>4, <3>1 DEF Inserts, Inserted, CreateAndCall
  <2> QED
    BY <2>0, <2>3, <2>4
<1>2. CASE RemoveArchive(r) /\ Goto(r, "deleteRow")
  BY <1>2 DEF Goto, Removes, OthersWait, TypeInv
<1>3. CASE DeleteRow(r) /\ request[r].rotate
  BY <1>3 DEF DeleteRow, MakesRoom, OthersWait, TypeInv
<1>4. CASE End(r)
  BY <1>4, EndRequest
<1> QED
  BY <1>1, <1>2, <1>3, <1>4
     DEF Continue, CreateNone, CommitCreate, RemoveArchive, DeleteRow, CommitToggleLock,
         CommitUpload, CommitReport

LEMMA DaemonRequest ==
  ASSUME TypeInv, Daemon
  PROVE  \/ UNCHANGED request
         \/ \E r \in Slot : Began(r) /\ OthersWait(r)
<1>1. ASSUME NEW job \in jobs
      PROVE  job.id \in Id /\ job.id \in 0 .. MaxBackups
  BY LimitsAssumption DEF TypeInv, TypeOK, Job, Id
<1>2. ASSUME NEW job \in jobs, NEW r \in Slot, BeginUpload(r, job)
      PROVE  Began(r) /\ OthersWait(r)
  <2> DEFINE q == [Idle EXCEPT !.step = "upload", !.id = job.id]
  <2>1. q \in Named /\ q.step = "upload" /\ q.id = job.id /\ ~q.rotate
    BY <1>1, IdleType DEF Named, Request, Step, Idle
  <2>2. Begin(r, q) /\ job.id \in Live
    BY <1>2 DEF BeginUpload, Uploadable, InProgress
  <2> HIDE DEF q
  <2> QED
    BY <1>2, <2>1, <2>2, BeginRequest DEF BeginUpload, Loads
<1>3. ASSUME NEW job \in jobs, NEW r \in Slot, BeginReport(r, job)
      PROVE  Began(r) /\ OthersWait(r)
  <2> DEFINE made == (job.work = "made")
             q == [Idle EXCEPT !.step = "report", !.id = job.id,
                               !.locked = backups[job.id].locked, !.successful = made]
  <2>1. Begin(r, q) /\ made \in BOOLEAN /\ job.id \in Live
    BY <1>3 DEF BeginReport
  <2>w. job.work = IF made THEN "made" ELSE "failed"
    BY <1>3 DEF BeginReport
  <2> HIDE DEF made
  <2>2. /\ q \in Named /\ q.step = "report" /\ q.id = job.id
        /\ q.successful = made /\ ~q.rotate
    BY <1>1, <2>1, IdleType, BackupType DEF TypeInv, Named, Request, Step, Idle
  <2>3. UNCHANGED <<backups, aged>> /\ jobs' \subseteq jobs
    BY <1>3 DEF BeginReport, Reported
  <2> HIDE DEF q
  <2>4. Loads(q)
    BY <2>1, <2>2, <2>w DEF Loads, Told
  <2> QED
    BY <2>1, <2>2, <2>3, <2>4, BeginRequest
<1> QED
  BY <1>2, <1>3 DEF Daemon, Finish, RefuseUpload, RefuseReport, Restart

\* One request moves at most.
LEMMA RequestStep ==
  ASSUME TypeInv, [Next]_vars
  PROVE  \/ UNCHANGED request
         \/ \E r \in Slot : RequestChange(r) /\ OthersWait(r)
BY UserRequest, ContinueRequest, DaemonRequest
   DEF Next, Environment, Prune, Age, SwitchAdapter, vars, RequestChange

-----------------------------------------------------------------------------
(* Which rows requests work on: what they loaded has been committed, and what *)
(* they are to commit is theirs.                                             *)

\* Two requests never commit the same row.
OwnCommits ==
  \A q, r \in Slot : At(q, "commit") /\ At(r, "commit") /\ request[q].id = request[r].id => q = r

RowsInv ==
  /\ \A b \in Id :
       /\ backups[b].state \in {"unused", "open", "undone"} => ~backups[b].completed
       /\ backups[b].successful => backups[b].completed
  /\ \A r \in Slot :
       /\ request[r].step \in {"remove", "deleteRow", "toggle", "upload", "report"} =>
            backups[request[r].id].state \in {"live", "trashed"}
       /\ At(r, "commit") => backups[request[r].id].state = "open"
  /\ OwnCommits

\* A row that is to be committed is changed by its own request only, and one that
\* was committed stays so.
LEMMA RowsStay ==
  ASSUME TypeInv, RowsInv, [Next]_vars, NEW b \in Id
  PROVE  /\ backups[b].state \in {"live", "trashed"} => backups'[b].state \in {"live", "trashed"}
         /\ backups[b].state = "open" =>
              Kept(b) \/ \E r \in Slot : At(r, "commit") /\ request[r].id = b /\ request'[r] = Idle
<1>1. \A r \in Slot : Deleted(r, b) \/ Ended(r, b) => backups[b].state \in {"live", "trashed"}
  BY DEF RowsInv, Deleted, DeleteRow, Ended, CommitReport, At
<1>2. \A r \in Slot : Committed(r, b) =>
        At(r, "commit") /\ request[r].id = b /\ request'[r] = Idle /\ backups'[b].state = "live"
  BY EndRequest DEF Committed, CommitCreate, Becomes
<1> QED
  BY <1>1, <1>2, RowStep
     DEF RowChange, Kept, Inserted, Deleted, Ended, Pruned, Becomes, InProgress, Live

LEMMA RowsNext ==
  ASSUME TypeInv, RowsInv, [Next]_vars
  PROVE  RowsInv'
<1>1. ASSUME NEW b \in Id
      PROVE  /\ backups'[b].state \in {"unused", "open", "undone"} => ~backups'[b].completed
             /\ backups'[b].successful => backups'[b].completed
  <2>1. \A r \in Slot : Ended(r, b) => backups[b].state \in {"live", "trashed"}
    BY DEF RowsInv, Ended, CommitReport, At
  <2> QED
    BY <2>1, RowStep
       DEF RowsInv, RowChange, Kept, Inserted, Committed, Deleted, Ended, Pruned, Becomes
<1>2. ASSUME NEW r \in Slot, request'[r] = request[r]
      PROVE  /\ request'[r].step \in {"remove", "deleteRow", "toggle", "upload", "report"} =>
                  backups'[request'[r].id].state \in {"live", "trashed"}
             /\ At(r, "commit")' => backups'[request'[r].id].state = "open"
  <2>1. CASE request[r].step \in {"remove", "deleteRow", "toggle", "upload", "report"}
    BY <1>2, <2>1, RequestType, RowsStay DEF RowsInv, At
  <2>2. CASE At(r, "commit")
    <3>1. /\ request[r].id \in Id /\ backups[request[r].id].state = "open"
          /\ request[r].step = "commit"
      BY <2>2, RequestType DEF RowsInv, At
    <3>2. Kept(request[r].id)
      BY <1>2, <2>2, <3>1, RowsStay, IdleType DEF RowsInv, OwnCommits
    <3> QED
      BY <1>2, <3>1, <3>2 DEF Kept, Becomes, At
  <2> QED
    BY <1>2, <2>1, <2>2 DEF At
<1>3. ASSUME NEW r \in Slot, RequestChange(r)
      PROVE  /\ request'[r].step \in {"remove", "deleteRow", "toggle", "upload", "report"} =>
                  backups'[request'[r].id].state \in {"live", "trashed"}
             /\ At(r, "commit")' => backups'[request'[r].id].state = "open"
  <2>1. CASE Began(r)
    BY <2>1 DEF Began, Loads, Deletable, Live, At
  <2>2. CASE Inserts(r)
    BY <2>2 DEF Inserts, Committing, Idle, At
  <2>3. CASE Removes(r)
    <3>1. /\ request[r].step = "remove" /\ UNCHANGED backups
          /\ request'[r].id = request[r].id /\ request'[r].step = "deleteRow"
      BY <2>3, RequestType DEF Removes, RemoveArchive, At, Request
    <3> QED
      BY <3>1 DEF RowsInv, At
  <2>4. CASE MakesRoom(r)
    <3>1. request'[r].step = "create"
      BY <2>4, RequestType DEF MakesRoom, Request
    <3> QED
      BY <3>1 DEF At
  <2> QED
    BY <1>2, <1>3, <2>1, <2>2, <2>3, <2>4, IdleType DEF RequestChange, At
<1>4. OwnCommits'
  <2> SUFFICES ASSUME NEW q \in Slot, NEW r \in Slot, q # r, At(q, "commit")', At(r, "commit")',
                      request'[q].id = request'[r].id
               PROVE  FALSE
    BY DEF OwnCommits
  <2>1. ASSUME NEW s \in Slot, NEW p \in Slot, At(s, "commit")', At(p, "commit")',
               request'[p] = request[p], RequestChange(s), request'[s] # request[s]
        PROVE  request'[s].id # request'[p].id
    <3>1. Inserts(s)
      <4>1. ~Began(s)
        BY <2>1 DEF Began, Loads, At
      <4>2. ~Removes(s) /\ ~MakesRoom(s)
        BY <2>1, RequestType DEF Removes, MakesRoom, Request, At
      <4> QED
        BY <2>1, <4>1, <4>2, IdleType DEF RequestChange, At
    <3>2. PICK b \in Id : backups[b].state = "unused" /\ request'[s].id = b
      BY <3>1 DEF Inserts, Inserted, Committing, Idle
    <3> QED
      BY <2>1, <3>2 DEF RowsInv, At
  <2>2. request'[q] = request[q] \/ request'[r] = request[r]
    BY RequestStep DEF OthersWait
  <2> QED
    BY <2>1, <2>2, RequestStep DEF OthersWait, RowsInv, OwnCommits, At
<1>5. ASSUME NEW r \in Slot
      PROVE  request'[r] = request[r] \/ RequestChange(r)
  BY RequestStep DEF OthersWait
<1> QED
  BY <1>1, <1>2, <1>3, <1>4, <1>5 DEF RowsInv

LEMMA RowsAlways == Spec => []RowsInv
<1>1. Init => RowsInv
  BY DEF Init, RowsInv, OwnCommits, At, Idle
<1> QED
  BY TypeInvAlways, RowsNext, <1>1, PTL DEF Spec

-----------------------------------------------------------------------------
(* Locked backups. *)

Locked(b) == b \in Successful /\ backups[b].locked

\* What a deletion was allowed to remove when it began, it still is.
LockedInv == \A r \in Slot, b \in Id : Removing(r, b) => ~Locked(b)

LEMMA LockedNext ==
  ASSUME TypeInv, RowsInv, LockedInv, LocksApart, [Next]_vars
  PROVE  LockedInv'
<1> SUFFICES ASSUME NEW r \in Slot, NEW b \in Id, Removing(r, b)' PROVE ~Locked(b)'
  BY DEF LockedInv
<1>1. UNCHANGED backups => (Locked(b)' <=> Locked(b))
  BY DEF Locked, Successful, Live
<1>2. CASE request'[r] = request[r]
  <2>1. /\ Removing(r, b) /\ ~Locked(b) /\ backups[b].state \in {"live", "trashed"}
        /\ \A q \in Slot : ~Protecting(q, b)
    BY <1>2 DEF LockedInv, Removing, RowsInv, LocksApart
  <2>2. \A q \in Slot : Ended(q, b) => ~request[q].successful
    BY <2>1 DEF Ended, CommitReport, Protecting
  <2>3. \A q \in Slot : Committed(q, b) => backups[b].state = "open"
    BY DEF Committed, CommitCreate, RowsInv
  <2> QED
    BY <2>1, <2>2, <2>3, RowStep
       DEF RowChange, Kept, Inserted, Deleted, Ended, Pruned, Becomes, Locked, Successful, Live,
           RowsInv
<1>3. CASE Began(r)
  BY <1>1, <1>3 DEF Began, Loads, Removing, Deletable, Locked
<1>4. CASE Removes(r)
  <2>1. UNCHANGED backups /\ Removing(r, b)
    BY <1>4, RequestType DEF Removes, RemoveArchive, Removing, Request, At
  <2> QED
    BY <1>1, <2>1 DEF LockedInv
<1>5. CASE Inserts(r)
  BY <1>5 DEF Inserts, Committing, Idle, Removing
<1>6. CASE MakesRoom(r)
  BY <1>6, RequestType DEF MakesRoom, Request, Removing
<1> QED
  BY <1>2, <1>3, <1>4, <1>5, <1>6, RequestStep, IdleType DEF OthersWait, RequestChange, Removing

\* However many requests overlap, a locked backup that has succeeded is removed by
\* no deletion and no rotation, as long as none is locked or reported as a success
\* while one of them is removing it.  (DeleteBackupService::handle,
\* InitiateBackupService::handle, BackupController::toggleLock.)
THEOREM LockedBackupsSurvive == Spec /\ []LocksApart => LockedSurvives
<1>1. Init => LockedInv
  BY DEF Init, LockedInv, Removing, Idle
<1>2. TypeInv /\ RowsInv /\ LockedInv /\ LocksApart /\ [Next]_vars => LockedInv'
  BY LockedNext
<1>3. TypeInv /\ LockedInv /\ [Next]_vars =>
        [\A b \in Successful : backups[b].locked => backups'[b].state = "live"]_vars
  <2> SUFFICES ASSUME TypeInv, LockedInv, [Next]_vars, NEW b \in Successful, backups[b].locked
               PROVE  backups'[b].state = "live"
    BY DEF LockedSurvives
  <2>1. b \in Live /\ b \in Id /\ Locked(b)
    BY DEF Successful, Live, Locked
  <2>2. \A r \in Slot : ~Deleted(r, b)
    BY <2>1 DEF LockedInv, Removing, Deleted, DeleteRow, At
  <2> QED
    BY <2>1, <2>2, RowStep
       DEF RowChange, Kept, Inserted, Committed, Ended, Pruned, Becomes, Live
<1> QED
  BY <1>1, <1>2, <1>3, TypeInvAlways, RowsAlways, PTL DEF Spec, LockedSurvives

-----------------------------------------------------------------------------
(* Successful backups and their archives, when all are in S3 and no answer   *)
(* of S3 is lost.                                                            *)

OnlyS3 == Adapters = {"s3"} /\ "lost" \notin Answers

Stored(row) ==
  /\ row.state # "unused" => row.disk = "s3"
  /\ row.state \in {"unused", "open", "undone"} => ~row.successful
  /\ row.successful => row.completed

\* The row a request works on has been committed, but for that it is to commit.
Fits(q) ==
  /\ q.step \notin {"idle", "commit"} => q.adapter = "s3"
  /\ q.step \in {"remove", "deleteRow", "toggle", "upload", "report"} =>
       backups[q.id].state \in {"live", "trashed"}
  /\ q.step = "commit" => backups[q.id].state = "open"

ArchiveInv ==
  /\ \A b \in Id : Stored(backups[b])
  /\ \A r \in Slot : Fits(request[r])
  /\ OwnCommits
  /\ SuccessHasArchive

\* Nothing but the daemon's jobs, the clock and the adapter changes, and archives
\* are added.
LEMMA ArchivesGrow ==
  ASSUME TypeInv, ArchiveInv, UNCHANGED <<backups, request>>, archives \subseteq archives'
  PROVE  ArchiveInv'
BY DEF ArchiveInv, Stored, Fits, OwnCommits, SuccessHasArchive, Successful, Live, At

\* A request begins.
LEMMA BeginArchive ==
  ASSUME TypeInv, ArchiveInv, OnlyS3, NEW r \in Slot, NEW loaded \in Named, Begin(r, loaded),
         loaded.step \notin {"deleteRow", "commit", "idle"},
         loaded.step # "create" => loaded.id \in Live,
         UNCHANGED <<backups, archives>>
  PROVE  ArchiveInv'
<1> DEFINE q == [loaded EXCEPT !.adapter = default]
<1>1. default = "s3"
  BY DEF OnlyS3, TypeInv, TypeOK
<1>2. q.adapter = "s3" /\ q.step = loaded.step /\ q.id = loaded.id
  BY <1>1 DEF Named, Request
<1>3. request' = [request EXCEPT ![r] = q] /\ request[r] = Idle
  BY DEF Begin
<1> HIDE DEF q
<1>4. request'[r] = q /\ \A p \in Slot \ {r} : request'[p] = request[p]
  BY <1>3 DEF TypeInv
<1>5. Fits(q)
  BY <1>2 DEF Fits, Live
<1>6. \A p \in Slot : Fits(request[p])'
  BY <1>4, <1>5 DEF ArchiveInv, Fits
<1>7. OwnCommits'
  BY <1>2, <1>4 DEF ArchiveInv, OwnCommits, At
<1>8. SuccessHasArchive'
  BY <1>3, <1>4, IdleType DEF ArchiveInv, SuccessHasArchive, Successful, Live, At
<1> QED
  BY <1>6, <1>7, <1>8 DEF ArchiveInv, Stored

\* A request ends with a change to a row that stays where it is.
LEMMA RowArchive ==
  ASSUME TypeInv, ArchiveInv, NEW r \in Slot, End(r),
         ~At(r, "deleteRow"),
         NEW b \in Id, NEW row \in Row, SetRow(b, row),
         row.state = backups[b].state, Stored(row),
         b \in Live /\ row.successful => b \in Successful \/ b \in archives',
         archives \subseteq archives'
  PROVE  ArchiveInv'
<1>1. /\ backups'[b] = row /\ \A c \in Id \ {b} : backups'[c] = backups[c]
      /\ \A c \in Id : backups'[c].state = backups[c].state
  BY DEF SetRow, TypeInv, TypeOK
<1>2. request'[r] = Idle /\ \A p \in Slot \ {r} : request'[p] = request[p]
  BY DEF End, TypeInv
<1>3. \A c \in Id : Stored(backups'[c])
  BY <1>1 DEF ArchiveInv
<1>4. ASSUME NEW p \in Slot
      PROVE  Fits(request[p])'
  BY <1>1, <1>2, <1>4, IdleType, RequestType DEF ArchiveInv, Fits
<1>5. OwnCommits'
  BY <1>2, IdleType DEF ArchiveInv, OwnCommits, At
<1>6. ASSUME NEW c \in Successful', c \notin archives'
      PROVE  \E p \in Slot : At(p, "deleteRow")' /\ request'[p].id = c
  <2>1. c \in Successful
    BY <1>1, <1>6 DEF Successful, Live
  <2>2. PICK p \in Slot : At(p, "deleteRow") /\ request[p].id = c
    BY <1>6, <2>1 DEF ArchiveInv, SuccessHasArchive
  <2> QED
    BY <1>2, <2>2 DEF At
<1>7. SuccessHasArchive'
  BY <1>6 DEF SuccessHasArchive
<1> QED
  BY <1>3, <1>4, <1>5, <1>7 DEF ArchiveInv, Stored

LEMMA UserArchive ==
  ASSUME TypeInv, ArchiveInv, OnlyS3, NEW r \in Slot, User(r)
  PROVE  ArchiveInv'
<1>1. UNCHANGED <<backups, archives>>
  BY DEF User, BeginCreate, BeginRotate, BeginDelete, BeginToggleLock
<1>2. ASSUME NEW locked \in BOOLEAN, BeginCreate(r, locked)
      PROVE  ArchiveInv'
  <2> DEFINE q == [Idle EXCEPT !.step = "create", !.locked = locked]
  <2>1. q \in Named /\ q.step = "create"
    BY IdleType DEF Named, Request, Step
  <2>2. Begin(r, q)
    BY <1>2 DEF BeginCreate
  <2> HIDE DEF q
  <2> QED
    BY <1>1, <2>1, <2>2, BeginArchive
<1>3. ASSUME BeginRotate(r)
      PROVE  ArchiveInv'
  <2>1. PICK b \in Deletable : Begin(r, [Idle EXCEPT !.step = "remove", !.id = b, !.rotate = TRUE])
    BY <1>3 DEF BeginRotate
  <2> DEFINE q == [Idle EXCEPT !.step = "remove", !.id = b, !.rotate = TRUE]
  <2>2. b \in Live /\ b \in Id
    BY DEF Deletable, Live
  <2>3. q \in Named /\ q.step = "remove" /\ q.id = b
    BY <2>2, IdleType, BackupType DEF TypeInv, Named, Request, Step
  <2> HIDE DEF q
  <2> QED
    BY <1>1, <2>1, <2>2, <2>3, BeginArchive DEF q
<1>4. ASSUME NEW b \in Id, BeginDelete(r, b)
      PROVE  ArchiveInv'
  <2> DEFINE q == [Idle EXCEPT !.step = "remove", !.id = b]
  <2>1. b \in Live /\ Begin(r, q)
    BY <1>4 DEF BeginDelete, Deletable
  <2>2. q \in Named /\ q.step = "remove" /\ q.id = b
    BY IdleType, BackupType DEF TypeInv, Named, Request, Step
  <2> HIDE DEF q
  <2> QED
    BY <1>1, <2>1, <2>2, BeginArchive
<1>5. ASSUME NEW b \in Id, BeginToggleLock(r, b)
      PROVE  ArchiveInv'
  <2> DEFINE q == [Idle EXCEPT !.step = "toggle", !.id = b, !.locked = backups[b].locked]
  <2>1. b \in Live /\ Begin(r, q)
    BY <1>5 DEF BeginToggleLock
  <2>2. q \in Named /\ q.step = "toggle" /\ q.id = b
    BY IdleType, BackupType DEF TypeInv, Named, Request, Step
  <2> HIDE DEF q
  <2> QED
    BY <1>1, <2>1, <2>2, BeginArchive
<1> QED
  BY <1>2, <1>3, <1>4, <1>5 DEF User

LEMMA CreateArchive ==
  ASSUME TypeInv, ArchiveInv, NEW r \in Slot, CreateAndCall(r)
  PROVE  ArchiveInv'
<1>1. PICK b \in Id, answer \in Answers :
        /\ backups[b].state = "unused"
        /\ SetRow(b, [state |-> IF Threw(answer) THEN "undone" ELSE "open",
                      disk |-> request[r].adapter, locked |-> request[r].locked,
                      successful |-> FALSE, completed |-> FALSE, upload |-> FALSE])
        /\ IF Threw(answer)
           THEN End(r)
           ELSE request' = [request EXCEPT ![r] = Committing(r, b)]
  BY DEF CreateAndCall, Committing
<1>2. UNCHANGED archives /\ At(r, "create")
  BY DEF CreateAndCall
<1>3. /\ backups'[b].state \in {"undone", "open"}
      /\ ~Threw(answer) => backups'[b].state = "open"
      /\ backups'[b].disk = "s3" /\ ~backups'[b].successful
      /\ \A c \in Id \ {b} : backups'[c] = backups[c]
  BY <1>1, <1>2 DEF SetRow, TypeInv, TypeOK, ArchiveInv, Fits, At
<1>4. PICK q :
        /\ request'[r] = q /\ \A p \in Slot \ {r} : request'[p] = request[p]
        /\ q.step = "idle" \/ (q.step = "commit" /\ q.id = b /\ ~Threw(answer))
  <2>1. Committing(r, b).step = "commit" /\ Committing(r, b).id = b
    BY DEF Idle, Committing
  <2> QED
    BY <1>1, <2>1, IdleType DEF End, TypeInv
<1>5. \A c \in Id : Stored(backups'[c])
  BY <1>3 DEF ArchiveInv, Stored
<1>6. \A p \in Slot : Fits(request[p]) /\ request[p].id = b => request[p].step \in {"idle", "create"}
  BY <1>1, RequestType DEF Fits, Step
<1>7. ASSUME NEW p \in Slot
      PROVE  Fits(request[p])'
  <2>1. CASE p = r
    BY <1>3, <1>4, <2>1 DEF Fits
  <2>2. CASE p # r /\ request[p].id = b
    BY <1>3, <1>4, <1>6, <2>2 DEF ArchiveInv, Fits
  <2>3. CASE p # r /\ request[p].id # b
    BY <1>3, <1>4, <2>3, RequestType DEF ArchiveInv, Fits
  <2> QED
    BY <2>1, <2>2, <2>3
<1>8. OwnCommits'
  BY <1>4, <1>6 DEF ArchiveInv, OwnCommits, At
<1>9. SuccessHasArchive'
  <2> SUFFICES ASSUME NEW c \in Successful', c \notin archives'
               PROVE  \E p \in Slot : At(p, "deleteRow")' /\ request'[p].id = c
    BY DEF SuccessHasArchive
  <2>1. c \in Successful
    BY <1>3 DEF Successful, Live
  <2>2. PICK p \in Slot : At(p, "deleteRow") /\ request[p].id = c
    BY <1>2, <2>1 DEF ArchiveInv, SuccessHasArchive
  <2> QED
    BY <1>2, <1>4, <2>2 DEF At
<1> QED
  BY <1>5, <1>7, <1>8, <1>9 DEF ArchiveInv, Stored

LEMMA CommitArchive ==
  ASSUME TypeInv, ArchiveInv, NEW r \in Slot, CommitCreate(r)
  PROVE  ArchiveInv'
<1>1. PICK b \in Id : b = request[r].id
  BY RequestType DEF CommitCreate, At
<1>2. /\ At(r, "commit") /\ UNCHANGED archives
      /\ backups[b].state = "open" /\ ~backups[b].successful
  BY <1>1 DEF CommitCreate, ArchiveInv, Fits, Stored, At
<1>3. /\ backups'[b].state = "live" /\ ~backups'[b].successful
      /\ backups'[b].disk = backups[b].disk
      /\ \A c \in Id \ {b} : backups'[c] = backups[c]
  <2>1. /\ [backups[b] EXCEPT !.state = "live"].state = "live"
        /\ [backups[b] EXCEPT !.state = "live"].successful = backups[b].successful
        /\ [backups[b] EXCEPT !.state = "live"].disk = backups[b].disk
    BY BackupType DEF TypeInv, Row
  <2> QED
    BY <1>1, <1>2, <2>1 DEF CommitCreate, SetRow, TypeInv, TypeOK
<1>4. request'[r] = Idle /\ \A p \in Slot \ {r} : request'[p] = request[p]
  BY DEF CommitCreate, End, TypeInv
<1>5. \A c \in Id : Stored(backups'[c])
  BY <1>2, <1>3 DEF ArchiveInv, Stored
<1>6. ASSUME NEW p \in Slot
      PROVE  Fits(request[p])'
  <2>1. CASE p = r
    BY <1>4, <2>1, IdleType DEF Fits
  <2>2. CASE p # r /\ request[p].id = b
    BY <1>1, <1>2, <1>3, <1>4, <2>2 DEF ArchiveInv, OwnCommits, Fits, At
  <2>3. CASE p # r /\ request[p].id # b
    BY <1>3, <1>4, <2>3, RequestType DEF ArchiveInv, Fits
  <2> QED
    BY <2>1, <2>2, <2>3
<1>7. OwnCommits'
  BY <1>4, IdleType DEF ArchiveInv, OwnCommits, At
<1>8. SuccessHasArchive'
  <2> SUFFICES ASSUME NEW c \in Successful', c \notin archives'
               PROVE  \E p \in Slot : At(p, "deleteRow")' /\ request'[p].id = c
    BY DEF SuccessHasArchive
  <2>1. c \in Successful
    BY <1>3 DEF Successful, Live
  <2>2. PICK p \in Slot : At(p, "deleteRow") /\ request[p].id = c
    BY <1>2, <2>1 DEF ArchiveInv, SuccessHasArchive
  <2> QED
    BY <1>2, <1>4, <2>2 DEF At
<1> QED
  BY <1>5, <1>6, <1>7, <1>8 DEF ArchiveInv, Stored

LEMMA RemovalArchive ==
  ASSUME TypeInv, ArchiveInv, OnlyS3, NEW r \in Slot, RemoveArchive(r)
  PROVE  ArchiveInv'
<1>1. PICK b \in Id : b = request[r].id
  BY RequestType DEF RemoveArchive, At
<1>2. request[r].step = "remove" /\ backups[b].disk = "s3" /\ UNCHANGED backups
  BY <1>1 DEF RemoveArchive, ArchiveInv, Fits, Stored, At
<1>3. PICK answer \in Reply(b) :
        /\ archives' = IF Processed(answer) THEN archives \ {b} ELSE archives
        /\ IF answer # "accepted" THEN End(r) ELSE Goto(r, "deleteRow")
  BY <1>1, <1>2 DEF RemoveArchive
<1>4. answer # "lost"
  BY <1>3 DEF Reply, OnlyS3
<1>5. CASE answer # "accepted"
  <2>1. UNCHANGED archives /\ End(r)
    BY <1>3, <1>4, <1>5 DEF Processed
  <2>2. SetRow(b, backups[b]) /\ ~At(r, "deleteRow")
    BY <1>2 DEF SetRow, At, TypeInv, TypeOK
  <2>3. backups[b] \in Row /\ Stored(backups[b])
    BY BackupType DEF TypeInv, ArchiveInv
  <2>4. b \in Live /\ backups[b].successful => b \in Successful
    BY <2>3 DEF Successful, Stored, Live
  <2> QED
    BY <2>1, <2>2, <2>3, <2>4, RowArchive
<1>6. CASE answer = "accepted"
  <2>1. archives' = archives \ {b} /\ Goto(r, "deleteRow")
    BY <1>3, <1>6 DEF Processed
  <2>2. PICK q : /\ request'[r] = q /\ \A p \in Slot \ {r} : request'[p] = request[p]
                 /\ q.step = "deleteRow" /\ q.id = b /\ q.adapter = request[r].adapter
    <3> DEFINE q == [request[r] EXCEPT !.step = "deleteRow"]
    <3>1. q.step = "deleteRow" /\ q.id = b /\ q.adapter = request[r].adapter
      BY <1>1, RequestType DEF Request
    <3>2. request'[r] = q /\ \A p \in Slot \ {r} : request'[p] = request[p]
      BY <2>1 DEF Goto, TypeInv
    <3> QED
      BY <3>1, <3>2
  <2>3. \A p \in Slot : Fits(request[p])'
    BY <1>1, <1>2, <2>2 DEF ArchiveInv, Fits
  <2>4. OwnCommits'
    BY <2>2 DEF ArchiveInv, OwnCommits, At
  <2>5. SuccessHasArchive'
    <3> SUFFICES ASSUME NEW c \in Successful', c \notin archives'
                 PROVE  \E p \in Slot : At(p, "deleteRow")' /\ request'[p].id = c
      BY DEF SuccessHasArchive
    <3>1. CASE c = b
      BY <2>2, <3>1 DEF At
    <3>2. CASE c # b
      <4>1. c \in Successful /\ c \notin archives
        BY <1>2, <2>1, <3>2 DEF Successful, Live
      <4>2. PICK p \in Slot : At(p, "deleteRow") /\ request[p].id = c
        BY <4>1 DEF ArchiveInv, SuccessHasArchive
      <4> QED
        BY <1>2, <2>2, <4>2 DEF At
    <3> QED
      BY <3>1, <3>2
  <2> QED
    BY <1>2, <2>3, <2>4, <2>5 DEF ArchiveInv, Stored
<1> QED
  BY <1>5, <1>6

LEMMA DeleteArchive ==
  ASSUME TypeInv, ArchiveInv, NEW r \in Slot, DeleteRow(r)
  PROVE  ArchiveInv'
<1>1. PICK b \in Id : b = request[r].id
  BY RequestType DEF DeleteRow, At
<1>2. /\ request[r].step = "deleteRow" /\ request[r].adapter = "s3" /\ UNCHANGED archives
      /\ backups[b].state \in {"live", "trashed"}
  BY <1>1 DEF DeleteRow, ArchiveInv, Fits, At
<1>3. /\ backups'[b].state = "trashed" /\ backups'[b].disk = backups[b].disk
      /\ backups'[b].successful = backups[b].successful
      /\ backups'[b].completed = backups[b].completed
      /\ \A c \in Id \ {b} : backups'[c] = backups[c]
  <2> DEFINE row == [backups[b] EXCEPT !.state = "trashed"]
  <2>1. /\ row.state = "trashed" /\ row.disk = backups[b].disk
        /\ row.successful = backups[b].successful /\ row.completed = backups[b].completed
    BY BackupType DEF TypeInv, Row
  <2>2. backups'[b] = row /\ \A c \in Id \ {b} : backups'[c] = backups[c]
    BY <1>1 DEF DeleteRow, SetRow, TypeInv, TypeOK
  <2> QED
    BY <2>1, <2>2
<1>4. PICK q : /\ request'[r] = q /\ \A p \in Slot \ {r} : request'[p] = request[p]
               /\ q.step = "idle" \/ (q.step = "create" /\ q.adapter = "s3")
  <2> DEFINE q == [request[r] EXCEPT !.step = "create"]
  <2>1. q.step = "create" /\ q.adapter = "s3"
    BY <1>2, RequestType DEF Request
  <2>2. request' = [request EXCEPT ![r] = q] \/ End(r)
    BY DEF DeleteRow, TypeInv
  <2> HIDE DEF q
  <2> QED
    BY <2>1, <2>2, IdleType DEF End, TypeInv
<1>5. \A c \in Id : Stored(backups'[c])
  BY <1>2, <1>3 DEF ArchiveInv, Stored
<1>6. ASSUME NEW p \in Slot
      PROVE  Fits(request[p])'
  <2>1. CASE p = r
    BY <1>4, <2>1 DEF Fits
  <2>2. CASE p # r /\ request[p].id = b
    BY <1>2, <1>3, <1>4, <2>2 DEF ArchiveInv, Fits
  <2>3. CASE p # r /\ request[p].id # b
    BY <1>3, <1>4, <2>3, RequestType DEF ArchiveInv, Fits
  <2> QED
    BY <2>1, <2>2, <2>3
<1>7. OwnCommits'
  BY <1>4 DEF ArchiveInv, OwnCommits, At
<1>8. SuccessHasArchive'
  <2> SUFFICES ASSUME NEW c \in Successful', c \notin archives'
               PROVE  \E p \in Slot : At(p, "deleteRow")' /\ request'[p].id = c
    BY DEF SuccessHasArchive
  <2>1. c # b /\ c \in Successful
    BY <1>3 DEF Successful, Live
  <2>2. PICK p \in Slot : At(p, "deleteRow") /\ request[p].id = c
    BY <1>2, <2>1 DEF ArchiveInv, SuccessHasArchive
  <2> QED
    BY <1>1, <1>4, <2>1, <2>2 DEF At
<1> QED
  BY <1>5, <1>6, <1>7, <1>8 DEF ArchiveInv, Stored

\* A request ends, and changes at most whether its row is locked, completed,
\* successful, or has an upload.
LEMMA EndArchive ==
  ASSUME TypeInv, ArchiveInv, OnlyS3, NEW r \in Slot,
         CreateNone(r) \/ CommitToggleLock(r) \/ CommitUpload(r) \/ CommitReport(r)
  PROVE  ArchiveInv'
<1>1. End(r) /\ request[r].step \in {"create", "toggle", "upload", "report"}
  BY DEF CreateNone, CommitToggleLock, CommitUpload, CommitReport, At
<1>2. ~At(r, "deleteRow")
  BY <1>1 DEF At
<1>3. \A b \in Id : /\ Stored(backups[b]) /\ backups[b] \in Row
                    /\ b \in Live /\ backups[b].successful => b \in Successful
  BY BackupType DEF TypeInv, ArchiveInv, Stored, Successful, Live
<1>4. CASE UNCHANGED backups /\ archives \subseteq archives'
  <2>1. ASSUME NEW p \in Slot
        PROVE  Fits(request[p])'
    BY <1>1, <1>4, IdleType DEF ArchiveInv, Fits, End, TypeInv
  <2>2. OwnCommits'
    BY <1>1, IdleType DEF ArchiveInv, OwnCommits, At, End, TypeInv
  <2>3. SuccessHasArchive'
    <3> SUFFICES ASSUME NEW c \in Successful', c \notin archives'
                 PROVE  \E p \in Slot : At(p, "deleteRow")' /\ request'[p].id = c
      BY DEF SuccessHasArchive
    <3>1. PICK p \in Slot : At(p, "deleteRow") /\ request[p].id = c
      BY <1>4 DEF ArchiveInv, SuccessHasArchive, Successful, Live
    <3> QED
      BY <1>1, <1>2, <3>1 DEF At, End, TypeInv
  <2> QED
    BY <1>4, <2>1, <2>2, <2>3 DEF ArchiveInv, Stored
<1>5. CASE CreateNone(r)
  BY <1>4, <1>5 DEF CreateNone
<1>6. ASSUME request[r].step # "create"
      PROVE  request[r].id \in Id
  BY <1>1, <1>6, RequestType
<1>7. CASE CommitToggleLock(r)
  <2>1. PICK b \in Id : b = request[r].id
    BY <1>6, <1>7 DEF CommitToggleLock, At
  <2> DEFINE row == [backups[b] EXCEPT !.locked = ~request[r].locked]
  <2>2. /\ row \in Row /\ row.state = backups[b].state /\ row.disk = backups[b].disk
        /\ row.successful = backups[b].successful /\ row.completed = backups[b].completed
    BY BackupType DEF TypeInv, Row
  <2>3. SetRow(b, row) /\ UNCHANGED archives
    BY <1>7, <2>1 DEF CommitToggleLock
  <2> HIDE DEF row
  <2>4. Stored(row)
    BY <1>3, <2>2 DEF Stored
  <2> QED
    BY <1>1, <1>2, <1>3, <2>2, <2>3, <2>4, RowArchive
<1>8. CASE CommitUpload(r)
  <2>1. PICK b \in Id : b = request[r].id
    BY <1>6, <1>8 DEF CommitUpload, At
  <2> DEFINE row == [backups[b] EXCEPT !.upload = TRUE]
  <2>2. /\ row \in Row /\ row.state = backups[b].state /\ row.disk = backups[b].disk
        /\ row.successful = backups[b].successful /\ row.completed = backups[b].completed
    BY BackupType DEF TypeInv, Row
  <2>3. (SetRow(b, row) \/ UNCHANGED backups) /\ UNCHANGED archives
    BY <1>8, <2>1 DEF CommitUpload
  <2> HIDE DEF row
  <2>4. Stored(row)
    BY <1>3, <2>2 DEF Stored
  <2> QED
    BY <1>1, <1>2, <1>3, <1>4, <2>2, <2>3, <2>4, RowArchive
<1>9. CASE CommitReport(r)
  <2>1. PICK b \in Id : b = request[r].id
    BY <1>6, <1>9 DEF CommitReport, At
  <2>2. /\ request[r].adapter = "s3" /\ request[r].step = "report"
        /\ backups[b].state \in {"live", "trashed"}
    BY <1>9, <2>1 DEF CommitReport, ArchiveInv, Fits, At
  <2> DEFINE row == ReportedRow(backups[b], request[r])
  <2>3. /\ row \in Row /\ row.state = backups[b].state /\ row.disk = backups[b].disk
        /\ row.completed
        /\ row.successful => backups[b].successful \/ request[r].successful
    <3>1. row \in Row
      BY BackupType, RequestType, ReportedRowType DEF TypeInv
    <3>2. row.state = backups[b].state /\ row.disk = backups[b].disk /\ row.completed
      BY BackupType DEF ReportedRow, TypeInv, Row
    <3>3. row.successful = (backups[b].successful \/ request[r].successful)
      BY BackupType DEF ReportedRow, TypeInv, Row
    <3> QED
      BY <3>1, <3>2, <3>3
  <2>4. archives \subseteq archives'
    BY <1>9 DEF CommitReport, CompleteUpload
  <2>5. \/ UNCHANGED backups
        \/ SetRow(b, row) /\ (request[r].successful => b \in archives')
    BY <1>9, <2>1, <2>2 DEF CommitReport, CompleteUpload, Processed
  <2> HIDE DEF row
  <2>6. Stored(row)
    BY <1>3, <2>2, <2>3 DEF Stored
  <2> QED
    BY <1>1, <1>2, <1>3, <1>4, <2>3, <2>4, <2>5, <2>6, RowArchive
<1> QED
  BY <1>5, <1>7, <1>8, <1>9

LEMMA PruneArchive ==
  ASSUME TypeInv, ArchiveInv, NEW k \in Id, Prune(k)
  PROVE  ArchiveInv'
<1>1. \A b \in Id :
        \/ backups'[b] = backups[b]
        \/ /\ backups'[b].state = backups[b].state /\ backups'[b].disk = backups[b].disk
           /\ ~backups'[b].successful
  <2>1. ASSUME NEW b \in Id
        PROVE  LET row == [backups[b] EXCEPT !.completed = TRUE, !.successful = FALSE]
               IN row.state = backups[b].state /\ row.disk = backups[b].disk /\ ~row.successful
    BY BackupType DEF TypeInv, Row
  <2> QED
    BY <2>1 DEF Prune
<1>2. UNCHANGED <<request, archives>>
  BY DEF Prune
<1>3. \A b \in Id : Stored(backups'[b])
  BY <1>1 DEF ArchiveInv, Stored
<1>4. ASSUME NEW r \in Slot
      PROVE  Fits(request[r])'
  BY <1>1, <1>2, RequestType DEF ArchiveInv, Fits
<1>5. OwnCommits' /\ SuccessHasArchive'
  BY <1>1, <1>2 DEF ArchiveInv, OwnCommits, SuccessHasArchive, Successful, Live, At
<1> QED
  BY <1>3, <1>4, <1>5 DEF ArchiveInv

LEMMA DaemonArchive ==
  ASSUME TypeInv, ArchiveInv, OnlyS3, Daemon
  PROVE  ArchiveInv'
<1>1. ASSUME NEW job \in jobs
      PROVE  job.id \in Id
  BY DEF TypeInv, TypeOK, Job
<1>2. ASSUME NEW job \in jobs, NEW work \in {"made", "failed"}, Finish(job, work)
      PROVE  ArchiveInv'
  BY <1>2, ArchivesGrow DEF Finish
<1>3. ASSUME NEW job \in jobs, RefuseUpload(job) \/ RefuseReport(job)
      PROVE  ArchiveInv'
  BY <1>3, ArchivesGrow DEF RefuseUpload, RefuseReport
<1>4. ASSUME NEW job \in jobs, NEW r \in Slot, BeginUpload(r, job)
      PROVE  ArchiveInv'
  <2> DEFINE q == [Idle EXCEPT !.step = "upload", !.id = job.id]
  <2>1. q \in Named /\ q.step = "upload" /\ q.id = job.id
    BY <1>1, IdleType, BackupType DEF TypeInv, Named, Request, Step
  <2>2. Begin(r, q) /\ job.id \in Live /\ UNCHANGED <<backups, archives>>
    BY <1>4 DEF BeginUpload, Uploadable, InProgress
  <2> HIDE DEF q
  <2> QED
    BY <2>1, <2>2, BeginArchive
<1>5. ASSUME NEW job \in jobs, NEW r \in Slot, BeginReport(r, job)
      PROVE  ArchiveInv'
  <2> DEFINE q == [Idle EXCEPT !.step = "report", !.id = job.id,
                               !.locked = backups[job.id].locked,
                               !.successful = (job.work = "made")]
  <2>1. q \in Named /\ q.step = "report" /\ q.id = job.id
    BY <1>1, IdleType, BackupType DEF TypeInv, Named, Request, Step
  <2>2. Begin(r, q) /\ job.id \in Live /\ UNCHANGED <<backups, archives>>
    BY <1>5 DEF BeginReport
  <2> HIDE DEF q
  <2> QED
    BY <2>1, <2>2, BeginArchive
<1>6. CASE Restart
  BY <1>6, ArchivesGrow DEF Restart
<1> QED
  BY <1>2, <1>3, <1>4, <1>5, <1>6 DEF Daemon

\* With all backups in S3 and no answer of S3 lost, every backup shown as
\* successful has its archive or is just being deleted, however requests and
\* repeated reports overlap.  (BackupStatusController::index saves the row before
\* it completes the upload, DeleteBackupService removes the archive before the
\* row.)
THEOREM SuccessAlwaysHasArchive == ASSUME OnlyS3 PROVE Spec => []SuccessHasArchive
<1>1. Init => ArchiveInv
  BY DEF Init, ArchiveInv, Stored, Fits, OwnCommits, At, Idle, SuccessHasArchive, Successful,
         Live
<1>2. TypeInv /\ ArchiveInv /\ [Next]_vars => ArchiveInv'
  <2> SUFFICES ASSUME TypeInv, ArchiveInv, [Next]_vars PROVE ArchiveInv'
    OBVIOUS
  <2>1. CASE UNCHANGED vars
    BY <2>1, ArchivesGrow DEF vars
  <2>2. ASSUME NEW r \in Slot, Continue(r)
        PROVE  ArchiveInv'
    BY <2>2, CreateArchive, CommitArchive, RemovalArchive, DeleteArchive, EndArchive
       DEF Continue
  <2>3. CASE Environment
    BY <2>3, PruneArchive, ArchivesGrow DEF Environment, Age, SwitchAdapter
  <2> QED
    BY <2>1, <2>2, <2>3, UserArchive, DaemonArchive DEF Next
<1>3. ArchiveInv => SuccessHasArchive
  BY DEF ArchiveInv
<1> QED
  BY <1>1, <1>2, <1>3, TypeInvAlways, PTL DEF Spec
=============================================================================
