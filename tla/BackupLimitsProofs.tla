------------------------- MODULE BackupLimitsProofs -------------------------
(***************************************************************************)
(* The throttle of Backups and the life a backup may have, for any number  *)
(* of requests at the same time, any limits and any fate of the calls.     *)
(* What is counted grows only when a request commits a backup, and when a  *)
(* report of success brings back one that was given up: no other failure   *)
(* is taken back (NewsInv), whatever overlaps.  So the throttle holds as   *)
(* long as creations do not overlap with each other (RoomInv).             *)
(***************************************************************************)
EXTENDS BackupsProofs, FiniteSetTheorems

Current == nonFailed(Live)
Recent == {b \in nonFailed(Live \cup Trashed) : b > aged}

\* A backup that counts, if its row is committed.
Present(row) == ~row.completed \/ row.successful

\* The backups that may succeed after they have been given up.
Prunable(b) == Pruning /\ b <= aged

-----------------------------------------------------------------------------
(* Counting. *)

LEMMA FiniteCounts ==
  /\ IsFiniteSet(Id)
  /\ \A S \in SUBSET Id : IsFiniteSet(S) /\ Cardinality(S) \in Nat
<1>1. IsFiniteSet(Id)
  BY LimitsAssumption, FS_Interval DEF Id
<1> QED
  BY <1>1, FS_Subset, FS_CardinalityType

LEMMA CountAdd ==
  ASSUME NEW S \in SUBSET Id, NEW b
  PROVE  Cardinality(S \cup {b}) <= Cardinality(S) + 1
BY FiniteCounts, FS_AddElement

LEMMA CountRemove ==
  ASSUME NEW S \in SUBSET Id, NEW b \in S
  PROVE  Cardinality(S \ {b}) = Cardinality(S) - 1
BY FiniteCounts, FS_RemoveElement

LEMMA CountSubset ==
  ASSUME NEW S \in SUBSET Id, NEW T \in SUBSET S
  PROVE  Cardinality(T) <= Cardinality(S)
BY FiniteCounts, FS_Subset

LEMMA CountedType ==
  /\ Current \subseteq Id /\ Recent \subseteq Id
  /\ Cardinality(Current) \in Nat /\ Cardinality(Recent) \in Nat
<1>1. Current \subseteq Id /\ Recent \subseteq Id
  BY DEF Current, Recent, nonFailed, Live, Trashed
<1> QED
  BY <1>1, FiniteCounts

LEMMA CountedTypeNext ==
  /\ Current' \subseteq Id /\ Recent' \subseteq Id
  /\ Cardinality(Current') \in Nat /\ Cardinality(Recent') \in Nat
<1>1. Current' \subseteq Id /\ Recent' \subseteq Id
  BY DEF Current, Recent, nonFailed, Live, Trashed, Id
<1> QED
  BY <1>1, FiniteCounts

-----------------------------------------------------------------------------
(* What the daemon reports. *)

\* All that is still to be reported of a backup.
Outcome(b, work) == \A job \in jobs : job.id = b => job.work = work

\* A backup has one job, and a job has a row.
JobsInv ==
  /\ \A j, k \in jobs : j.id = k.id => j = k
  /\ \A j \in jobs : backups[j.id].state # "unused"

\* A backup that has failed, but by pruning, will not be reported as a success.
FailedForGood == \A b \in Failed : Prunable(b) \/ Outcome(b, "failed")

\* The report that is being handled says no more than the job did, and takes back
\* no failure.
NoNews(r) ==
  /\ Outcome(request[r].id, Told(request[r]))
  /\ request[r].successful => Prunable(request[r].id) \/ Present(backups[request[r].id])

\* No two reports, one being handled, one handled or still to come, contradict each
\* other.
NewsInv ==
  /\ JobsInv
  /\ FailedForGood
  /\ \A r \in Slot : At(r, "report") => NoNews(r)
  /\ \A q, r \in Slot :
       At(q, "report") /\ At(r, "report") /\ request[q].id = request[r].id =>
         request[q].successful = request[r].successful

\* The jobs after a step: those that go on, with an outcome that stays, and a new one.
JobsGoOn ==
  /\ \A j \in jobs' :
       \/ \E k \in jobs : k.id = j.id /\ (k.work \in {"made", "failed"} => j = k)
       \/ backups[j.id].state = "unused" /\ backups'[j.id].state # "unused"
  /\ \A j, k \in jobs' : j.id = k.id => j = k

LEMMA JobsFewer ==
  ASSUME JobsInv, jobs' \subseteq jobs
  PROVE  JobsGoOn
BY DEF JobsInv, JobsGoOn

\* The daemon goes on with its work.
LEMMA JobsWork ==
  ASSUME TypeInv, JobsInv, NEW job \in jobs, NEW work, job.work \notin {"made", "failed"},
         Work(job, work)
  PROVE  JobsGoOn
<1> DEFINE after == [job EXCEPT !.work = work]
<1>1. after.id = job.id
  BY DEF TypeInv, TypeOK, Job
<1>2. jobs' = (jobs \ {job}) \cup {after}
  BY DEF Work
<1> HIDE DEF after
<1> QED
  BY <1>1, <1>2 DEF JobsInv, JobsGoOn

LEMMA CreateJobs ==
  ASSUME TypeInv, JobsInv, NEW r \in Slot, CreateAndCall(r)
  PROVE  JobsGoOn
<1>1. PICK b \in Id, answer \in Answers :
        /\ backups[b].state = "unused"
        /\ SetRow(b, [state |-> IF Threw(answer) THEN "undone" ELSE "open",
                      disk |-> request[r].adapter, locked |-> request[r].locked,
                      successful |-> FALSE, completed |-> FALSE, upload |-> FALSE])
        /\ jobs' \subseteq
             jobs \cup {[id |-> b, disk |-> request[r].adapter, work |-> "making"]}
  BY DEF CreateAndCall
<1>2. backups'[b].state # "unused"
  BY <1>1 DEF SetRow, TypeInv, TypeOK
<1>3. \A j \in jobs : j.id # b
  BY <1>1 DEF JobsInv
<1> QED
  BY <1>1, <1>2, <1>3 DEF JobsInv, JobsGoOn

LEMMA UploadJobs ==
  ASSUME TypeInv, JobsInv, NEW r \in Slot, CommitUpload(r)
  PROVE  JobsGoOn
<1> DEFINE b == request[r].id
           waiting == {job \in jobs : job.id = b /\ job.work = "making"}
           going == {[job EXCEPT !.work = "uploading"] : job \in waiting}
<1>1. jobs' = jobs \/ jobs' = (jobs \ waiting) \cup going
  BY DEF CommitUpload
<1>2. \A j \in going : j.id = b /\ \E k \in waiting : j = [k EXCEPT !.work = "uploading"]
  BY DEF TypeInv, TypeOK, Job
<1>3. \A j, k \in going : j = k
  BY <1>2 DEF JobsInv
<1>4. \A j \in jobs \ waiting : j.id = b => going = {}
  <2> SUFFICES ASSUME NEW j \in jobs \ waiting, j.id = b, NEW k \in waiting PROVE FALSE
    OBVIOUS
  <2> QED
    BY DEF JobsInv
<1>5. CASE jobs' = (jobs \ waiting) \cup going
  <2>1. ASSUME NEW j \in jobs'
        PROVE  \E k \in jobs : k.id = j.id /\ (k.work \in {"made", "failed"} => j = k)
    <3>1. CASE j \in going
      <4>1. PICK k \in waiting : j.id = b
        BY <1>2, <3>1
      <4> QED
        BY <4>1
    <3> QED
      BY <1>5, <2>1, <3>1
  <2>2. ASSUME NEW j \in jobs', NEW k \in jobs', j.id = k.id PROVE j = k
    <3>1. \A i \in going : i.id = b
      BY <1>2
    <3> HIDE DEF waiting, going, b
    <3> QED
      BY <1>3, <1>4, <1>5, <2>2, <3>1 DEF JobsInv
  <2> QED
    BY <2>1, <2>2 DEF JobsGoOn
<1> QED
  BY <1>1, <1>5, JobsFewer

LEMMA JobStep ==
  ASSUME TypeInv, JobsInv, [Next]_vars
  PROVE  JobsGoOn
<1>1. ASSUME NEW r \in Slot, Continue(r)
      PROVE  JobsGoOn
  BY <1>1, CreateJobs, UploadJobs, JobsFewer
     DEF Continue, CreateNone, CommitCreate, RemoveArchive, DeleteRow, CommitToggleLock,
         CommitReport
<1>2. CASE Daemon
  <2>1. ASSUME NEW job \in jobs, NEW work \in {"made", "failed"}, Finish(job, work)
        PROVE  JobsGoOn
    BY <2>1, JobsWork DEF Finish
  <2>2. ASSUME NEW job \in jobs, RefuseUpload(job)
        PROVE  JobsGoOn
    BY <2>2, JobsWork DEF RefuseUpload
  <2> QED
    BY <1>2, <2>1, <2>2, JobsFewer
       DEF Daemon, RefuseReport, BeginUpload, BeginReport, Reported, Restart
<1> QED
  BY <1>1, <1>2, JobsFewer
     DEF Next, User, BeginCreate, BeginRotate, BeginDelete, BeginToggleLock, Environment,
         Prune, Age, SwitchAdapter, vars

LEMMA OutcomeStays ==
  ASSUME JobsGoOn, NEW b, backups[b].state # "unused", NEW work \in {"made", "failed"},
         Outcome(b, work)
  PROVE  Outcome(b, work)'
BY DEF JobsGoOn, Outcome

\* Time passes in one direction.
LEMMA AgedStep ==
  ASSUME TypeInv, [Next]_vars
  PROVE  aged \in Int /\ (aged' = aged \/ aged' = aged + 1)
<1>1. ASSUME NEW r \in Slot, User(r) \/ Continue(r)
      PROVE  aged' = aged
  BY <1>1
     DEF User, BeginCreate, BeginRotate, BeginDelete, BeginToggleLock, Continue,
         CreateAndCall, CreateNone, CommitCreate, RemoveArchive, DeleteRow, CommitToggleLock,
         CommitUpload, CommitReport
<1>2. ASSUME Daemon \/ UNCHANGED vars
      PROVE  aged' = aged
  BY <1>2
     DEF Daemon, Finish, RefuseUpload, RefuseReport, BeginUpload, BeginReport, Restart, vars
<1>3. ASSUME Environment
      PROVE  aged' = aged \/ aged' = aged + 1
  BY <1>3 DEF Environment, Prune, Age, SwitchAdapter
<1>4. aged \in Int
  BY LimitsAssumption DEF TypeInv, TypeOK
<1> QED
  BY <1>1, <1>2, <1>3, <1>4 DEF Next

LEMMA PrunableStays ==
  ASSUME TypeInv, [Next]_vars, NEW b \in Id, Prunable(b)
  PROVE  Prunable(b)'
<1>1. b \in Int
  BY LimitsAssumption DEF Id
<1> QED
  BY <1>1, AgedStep DEF Prunable

LEMMA NewsNext ==
  ASSUME TypeInv, RowsInv, NewsInv, [Next]_vars
  PROVE  NewsInv'
<1>1. JobsGoOn
  BY JobStep DEF NewsInv
<1>2. \A b \in Id : backups[b].state # "unused" => backups'[b].state # "unused"
  BY RowStep DEF RowChange, Kept, Inserted, Committed, Deleted, Ended, Pruned, Becomes
<1>3. JobsInv'
  BY <1>1, <1>2 DEF NewsInv, JobsInv, JobsGoOn, TypeInv, TypeOK, Job
<1>4. ASSUME NEW b \in Failed'
      PROVE  Prunable(b)' \/ Outcome(b, "failed")'
  <2>1. b \in Id
    BY <1>4 DEF Failed, Live, Id
  <2>2. CASE b \in Failed
    <3>1. backups[b].state # "unused"
      BY <2>2 DEF Failed, Live
    <3> QED
      BY <1>1, <2>1, <2>2, <3>1, OutcomeStays, PrunableStays DEF NewsInv, FailedForGood
  <2>3. ASSUME NEW r \in Slot, Ended(r, b)
        PROVE  Outcome(b, "failed")'
    <3>1. At(r, "report") /\ request[r].id = b /\ ~request[r].successful
      BY <1>4, <2>3 DEF Ended, CommitReport, Becomes, Failed
    <3>2. Outcome(b, "failed") /\ backups[b].state # "unused"
      BY <3>1 DEF NewsInv, NoNews, Told, RowsInv, At
    <3> QED
      BY <1>1, <3>2, OutcomeStays
  <2>4. CASE Pruned(b)
    BY <2>1, <2>4, PrunableStays DEF Pruned, Prunable
  <2>5. \A r \in Slot : Committed(r, b) => ~backups[b].completed
    BY <2>1 DEF Committed, CommitCreate, RowsInv, At
  <2>6. Kept(b) => b \in Failed
    BY <1>4, <2>1 DEF Kept, Becomes, Failed, Live
  <2> QED
    BY <1>4, <2>1, <2>2, <2>3, <2>4, <2>5, <2>6, RowStep
       DEF RowChange, Inserted, Committed, Deleted, Becomes, Failed, Live
<1>5. ASSUME NEW r \in Slot, At(r, "report"), request'[r] = request[r]
      PROVE  NoNews(r)'
  <2> PICK b \in Id : b = request[r].id
    BY <1>5, RequestType DEF At
  <2>1. /\ backups[b].state \in {"live", "trashed"}
        /\ Outcome(b, Told(request[r]))
        /\ request[r].successful => Prunable(b) \/ Present(backups[b])
    BY <1>5 DEF NewsInv, NoNews, RowsInv, At
  <2>2. Outcome(b, Told(request[r]))'
    BY <1>1, <1>5, <2>1, OutcomeStays DEF Told, Outcome
  <2>3. ASSUME request[r].successful, Present(backups[b])
        PROVE  Prunable(b)' \/ Present(backups'[b])
    <3>1. \A q \in Slot : Ended(q, b) => request[q].successful
      BY <1>5, <2>3 DEF Ended, CommitReport, NewsInv
    <3>2. Pruned(b) => Prunable(b)'
      BY PrunableStays DEF Pruned, Prunable
    <3> QED
      BY <2>1, <2>3, <3>1, <3>2, RowStep
         DEF RowChange, Kept, Inserted, Committed, Deleted, Ended, Becomes, Present
  <2> QED
    BY <1>5, <2>1, <2>2, <2>3, PrunableStays DEF NoNews, Prunable
<1>6. ASSUME NEW r \in Slot, At(r, "report")', request'[r] # request[r], RequestChange(r)
      PROVE  /\ NoNews(r)'
             /\ \E job \in jobs : job.id = request'[r].id /\ job.work = Told(request'[r])
  <2>1. Began(r)
    <3>1. ~Removes(r) /\ ~MakesRoom(r)
      BY <1>6, RequestType DEF Removes, MakesRoom, Request, At
    <3>2. ~Inserts(r)
      BY <1>6 DEF Inserts, Committing, Idle, At
    <3> QED
      BY <1>6, <3>1, <3>2, IdleType DEF RequestChange, At
  <2>2. PICK job \in jobs :
          request'[r].id = job.id /\ job.id \in Live /\ job.work = Told(request'[r])
    BY <1>6, <2>1 DEF Began, Loads, At
  <2>3. Outcome(job.id, job.work)
    BY DEF NewsInv, JobsInv, Outcome
  <2>4. job.id \in Id /\ backups[job.id].state # "unused" /\ backups' = backups
    BY <2>1, <2>2 DEF Live, Began
  <2>5. job.work \in {"made", "failed"}
    BY <2>2 DEF Told
  <2>6. Outcome(job.id, job.work)'
    BY <1>1, <2>3, <2>4, <2>5, OutcomeStays
  <2>7. request'[r].successful => Prunable(job.id) \/ Present(backups[job.id])
    BY <2>2, <2>4 DEF Told, NewsInv, FailedForGood, Outcome, Failed, Present
  <2>8. Prunable(job.id) => Prunable(job.id)'
    BY <2>4, PrunableStays
  <2> QED
    BY <2>2, <2>4, <2>6, <2>7, <2>8 DEF NoNews, Outcome, Prunable
<1>7. ASSUME NEW r \in Slot
      PROVE  request'[r] = request[r] \/ RequestChange(r)
  BY RequestStep DEF OthersWait
<1>8. ASSUME NEW q \in Slot, NEW r \in Slot, At(q, "report")', At(r, "report")',
             request'[q].id = request'[r].id
      PROVE  request'[q].successful = request'[r].successful
  <2>1. request'[q].successful \in BOOLEAN /\ request'[r].successful \in BOOLEAN
    <3>1. TypeInv'
      BY TypeInvNext
    <3> QED
      BY <3>1 DEF TypeInv, Named, Request
  <2>2. ASSUME NEW s \in {q, r}, NEW p \in {q, r}, request'[p] = request[p],
               request'[s] # request[s]
        PROVE  Told(request'[s]) = Told(request'[p])
    <3>1. \E job \in jobs : job.id = request'[s].id /\ job.work = Told(request'[s])
      BY <1>6, <1>7, <1>8, <2>2
    <3>2. Outcome(request[p].id, Told(request[p]))
      BY <1>8, <2>2 DEF NewsInv, NoNews, At
    <3> QED
      BY <1>8, <2>2, <3>1, <3>2 DEF Outcome
  <2>3. q = r \/ request'[q] = request[q] \/ request'[r] = request[r]
    BY RequestStep DEF OthersWait
  <2>4. CASE request'[q] = request[q] /\ request'[r] = request[r]
    BY <1>8, <2>4 DEF NewsInv, At
  <2>5. CASE q # r /\ (request'[q] # request[q] \/ request'[r] # request[r])
    <3>1. Told(request'[q]) = Told(request'[r])
      BY <2>2, <2>3, <2>5
    <3> QED
      BY <2>1, <3>1 DEF Told
  <2> QED
    BY <2>4, <2>5
<1>9. \A r \in Slot : At(r, "report")' => NoNews(r)'
  BY <1>5, <1>6, <1>7 DEF At
<1>10. FailedForGood'
  BY <1>4 DEF FailedForGood
<1> QED
  BY <1>3, <1>8, <1>9, <1>10 DEF NewsInv

LEMMA NewsAlways == Spec => []NewsInv
<1>1. Init => NewsInv
  BY DEF Init, NewsInv, JobsInv, FailedForGood, Failed, Live, At, Idle
<1> QED
  BY TypeInvAlways, RowsAlways, NewsNext, <1>1, PTL DEF Spec

-----------------------------------------------------------------------------
(* What is counted, and the room for more. *)

\* Only a commit adds to what the throttle counts, and to what the limit counts
\* only a commit or a report that brings back a pruned backup.
LEMMA RecentGrows ==
  ASSUME TypeInv, RowsInv, NewsInv, [Next]_vars, NEW b \in Recent', b \notin Recent
  PROVE  \E r \in Slot : Committed(r, b)
<1>1. b \in Id /\ b \in Int /\ b > aged
  BY AgedStep, LimitsAssumption DEF Recent, nonFailed, Live, Trashed, Id
<1>2. backups'[b].state \in {"live", "trashed"} /\ Present(backups'[b])
  BY DEF Recent, nonFailed, Live, Trashed, Present
<1>3. ~(backups[b].state \in {"live", "trashed"} /\ Present(backups[b]))
  BY <1>1 DEF Recent, nonFailed, Live, Trashed, Present
<1>4. ASSUME NEW r \in Slot, Ended(r, b)
      PROVE  FALSE
  <2>1. At(r, "report") /\ request[r].id = b
    BY <1>4 DEF Ended, CommitReport
  <2>2. backups[b].state \in {"live", "trashed"} /\ ~Present(backups[b])
    BY <1>3, <2>1 DEF RowsInv, At
  <2>3. request[r].successful
    BY <1>2, <1>4, <2>2 DEF Ended, Becomes, Present
  <2>4. Prunable(b)
    BY <2>1, <2>2, <2>3 DEF NewsInv, NoNews
  <2> QED
    BY <1>1, <2>4 DEF Prunable, TypeInv, TypeOK
<1>5. ~Pruned(b)
  BY <1>2 DEF Pruned, Becomes, Present
<1>6. \A r \in Slot : Deleted(r, b) => backups[b].state \in {"live", "trashed"}
  BY DEF Deleted, DeleteRow, RowsInv, At
<1> QED
  BY <1>1, <1>2, <1>3, <1>4, <1>5, <1>6, RowStep
     DEF RowChange, Kept, Inserted, Deleted, Becomes, Present

LEMMA CurrentGrows ==
  ASSUME TypeInv, RowsInv, NewsInv, [Next]_vars, NEW b \in Current', b \notin Current
  PROVE  \/ \E r \in Slot : Committed(r, b)
         \/ Pruning /\ \E r \in Slot : Ended(r, b) /\ Reviving(r)
<1>1. b \in Id
  BY DEF Current, nonFailed, Live, Id
<1>2. backups'[b].state = "live" /\ Present(backups'[b])
  BY DEF Current, nonFailed, Live, Present
<1>3. ~(backups[b].state = "live" /\ Present(backups[b]))
  BY <1>1 DEF Current, nonFailed, Live, Present
<1>4. ASSUME NEW r \in Slot, Ended(r, b)
      PROVE  Pruning /\ Reviving(r)
  <2>1. At(r, "report") /\ request[r].id = b
    BY <1>4 DEF Ended, CommitReport
  <2>2. backups[b].state = "live" /\ ~Present(backups[b])
    BY <1>2, <1>3, <1>4 DEF Ended, Becomes
  <2>3. request[r].successful
    BY <1>2, <1>4, <2>2 DEF Ended, Becomes, Present
  <2>4. Prunable(b)
    BY <2>1, <2>2, <2>3 DEF NewsInv, NoNews
  <2> QED
    BY <1>1, <2>1, <2>2, <2>3, <2>4 DEF Prunable, Reviving, Failed, Live, Present
<1>5. ~Pruned(b) /\ ~Kept(b) /\ ~Inserted(b) /\ \A r \in Slot : ~Deleted(r, b)
  BY <1>2, <1>3 DEF Pruned, Kept, Inserted, Deleted, Becomes, Present
<1> QED
  BY <1>1, <1>4, <1>5, RowStep DEF RowChange

\* What a request that creates a backup has counted still holds.
HasRoom(q) ==
  Creating(q) =>
    /\ q.rotate => BackupLimit > 0
    /\ Cardinality(Recent) < ThrottleLimit

RoomInv == WithinThrottle /\ \A r \in Slot : HasRoom(request[r])

LEMMA CountsOf ==
  WithinThrottle <=> Cardinality(Recent) <= ThrottleLimit
BY DEF WithinThrottle, Recent

\* A request that goes on finds the room it had, if nothing is added.
LEMMA StillRoom ==
  ASSUME TypeInv, NEW q, HasRoom(q), NEW p, Creating(p) => Creating(q), p.rotate => q.rotate,
         Recent' \subseteq Recent
  PROVE  HasRoom(p)'
<1> SUFFICES ASSUME Creating(p) PROVE HasRoom(p)'
  BY DEF HasRoom
<1>1. Cardinality(Recent') <= Cardinality(Recent)
  BY CountedType, CountSubset
<1>3. Cardinality(Recent') < ThrottleLimit
  BY <1>1, CountedType, CountedTypeNext, LimitsAssumption DEF HasRoom
<1> QED
  BY <1>3 DEF HasRoom

LEMMA BeganRoom ==
  ASSUME TypeInv, NEW r \in Slot, Began(r)
  PROVE  HasRoom(request[r])'
<1> PICK q : q = request'[r]
  OBVIOUS
<1>1. Recent' = Recent
  BY DEF Began, Recent, nonFailed, Live, Trashed, Id
<1>2. Loads(q)
  BY DEF Began
<1> SUFFICES ASSUME Creating(q) PROVE HasRoom(q)
  BY <1>1 DEF HasRoom
<1>3. Cardinality(Recent) < ThrottleLimit /\ (q.rotate => BackupLimit > 0)
  BY <1>2, CountedType, LimitsAssumption DEF Loads, Creating, Throttled, Recent
<1> QED
  BY <1>3 DEF HasRoom

\* A step that commits nothing.
LEMMA QuietRoom ==
  ASSUME TypeInv, RowsInv, NewsInv, RoomInv, [Next]_vars,
         \A r \in Slot, b \in Id : ~Committed(r, b)
  PROVE  RoomInv'
<1>1. Recent' \subseteq Recent
  BY RecentGrows, CountedTypeNext
<1>2. Cardinality(Recent') <= Cardinality(Recent)
  BY <1>1, CountedType, CountSubset
<1>3. WithinThrottle'
  <2>1. Cardinality(Recent') <= ThrottleLimit
    BY <1>2, CountsOf, CountedType, CountedTypeNext, LimitsAssumption DEF RoomInv
  <2> QED
    BY <2>1 DEF WithinThrottle, Recent
<1>4. ASSUME NEW r \in Slot
      PROVE  HasRoom(request[r])'
  <2> PICK q : q = request[r]
    OBVIOUS
  <2> PICK p : p = request'[r]
    OBVIOUS
  <2>0. HasRoom(q) /\ (HasRoom(p)' => HasRoom(request[r])')
    BY DEF RoomInv, HasRoom
  <2>1. CASE p = q
    BY <1>1, <2>0, <2>1, StillRoom
  <2>2. CASE p = Idle
    BY <2>2 DEF Idle, HasRoom, Creating
  <2>3. CASE Began(r)
    BY <2>3, BeganRoom
  <2>4. CASE Inserts(r)
    <3>1. /\ p.step = "commit" /\ p.rotate = q.rotate /\ q.step = "create"
      BY <2>4 DEF Inserts, Committing, Idle, At
    <3> QED
      BY <1>1, <2>0, <3>1, StillRoom DEF Creating
  <2>5. CASE Removes(r)
    <3>1. /\ p.step = "deleteRow" /\ p.rotate = q.rotate /\ p.id = q.id /\ q.step = "remove"
      BY <2>5, RequestType DEF Removes, RemoveArchive, At, Request
    <3> QED
      BY <1>1, <2>0, <3>1, StillRoom DEF Creating
  <2>6. CASE MakesRoom(r)
    <3>1. p.step = "create" /\ p.rotate /\ q.step = "deleteRow" /\ q.rotate /\ q.id \in Id
      BY <2>6, RequestType DEF MakesRoom, DeleteRow, At, Request
    <3> QED
      BY <1>1, <2>0, <3>1, StillRoom DEF Creating
  <2> QED
    BY <2>1, <2>2, <2>3, <2>4, <2>5, <2>6, RequestStep DEF OthersWait, RequestChange
<1> QED
  BY <1>3, <1>4 DEF RoomInv

\* A request commits its backup while no other creates one.
LEMMA CommitRoom ==
  ASSUME TypeInv, RowsInv, NewsInv, RoomInv, OneCreation, [Next]_vars,
         NEW r \in Slot, NEW b \in Id, Committed(r, b)
  PROVE  RoomInv'
<1>1. At(r, "commit") /\ request'[r] = Idle /\ OthersWait(r)
  BY EndRequest DEF Committed, CommitCreate
<1>2. \A q \in Slot, c \in Id : Committed(q, c) => q = r /\ c = b
  BY <1>1 DEF Committed, CommitCreate, OneCreation, Creating, At
<1>3. Recent' \subseteq Recent \cup {b}
  BY <1>2, RecentGrows, CountedTypeNext
<1>4. Cardinality(Recent) < ThrottleLimit
  BY <1>1 DEF RoomInv, HasRoom, Creating, At
<1>5. ASSUME NEW S \in SUBSET Id, NEW T \in SUBSET Id, T \subseteq S \cup {b}
      PROVE  Cardinality(T) <= Cardinality(S) + 1
  <2>1. S \cup {b} \in SUBSET Id
    OBVIOUS
  <2>2. Cardinality(T) <= Cardinality(S \cup {b}) /\ Cardinality(S \cup {b}) <= Cardinality(S) + 1
    BY <1>5, <2>1, CountSubset, CountAdd
  <2> QED
    BY <2>1, <2>2, FiniteCounts
<1>6. Cardinality(Recent') <= ThrottleLimit
  BY <1>3, <1>4, <1>5, CountedType, CountedTypeNext, LimitsAssumption
<1>7. WithinThrottle'
  BY <1>6 DEF WithinThrottle, Recent
<1>8. \A s \in Slot : ~Creating(request'[s])
  BY <1>1 DEF OthersWait, OneCreation, Creating, At, Idle
<1> QED
  BY <1>7, <1>8 DEF RoomInv, HasRoom

LEMMA RoomAlways == Spec /\ []OneCreation => []RoomInv
<1>1. Init => RoomInv
  <2> SUFFICES ASSUME Init PROVE RoomInv
    OBVIOUS
  <2>1. /\ \A b \in Id : backups[b].state = "unused"
        /\ \A r \in Slot : ~Creating(request[r])
    BY DEF Init, Idle, Creating
  <2>2. Recent = {}
    BY <2>1 DEF Recent, nonFailed, Live, Trashed
  <2> QED
    BY <2>1, <2>2, CountsOf, FS_EmptySet, LimitsAssumption DEF RoomInv, HasRoom
<1>2. TypeInv /\ RowsInv /\ NewsInv /\ RoomInv /\ OneCreation /\ [Next]_vars => RoomInv'
  BY QuietRoom, CommitRoom
<1> QED
  BY TypeInvAlways, RowsAlways, NewsAlways, <1>1, <1>2, PTL DEF Spec

\* No more backups than the throttle allows, however many are deleted while others
\* are made, and although a pruned one may succeed after all (by then it is too old
\* to count), as long as no two creations overlap.
THEOREM ThrottleKept == Spec /\ []OneCreation => []WithinThrottle
<1>1. RoomInv => WithinThrottle
  BY DEF RoomInv
<1> QED
  BY RoomAlways, <1>1, PTL

-----------------------------------------------------------------------------
(* The life a backup may have. *)

LEMMA LifeCardinality == \A S : Life!Cardinality(S) = Cardinality(S)
BY DEF Life!Cardinality, Cardinality

LEMMA LifeCurrent ==
  ASSUME TypeInv
  PROVE  Life!Current = Current
<1>1. \A b \in Id : status[b] = statusOf(backups[b])
  BY DEF status
<1> QED
  BY <1>1, BackupType DEF Life!Current, Current, nonFailed, Live, statusOf, TypeInv

LEMMA StatusSet ==
  ASSUME TypeInv, NEW b \in Id, NEW row, SetRow(b, row)
  PROVE  status' = [status EXCEPT ![b] = statusOf(row)]
<1>1. backups' = [backups EXCEPT ![b] = row] /\ Id' = Id
  BY DEF SetRow, Id
<1> QED
  BY <1>1 DEF status, TypeInv, TypeOK

LEMMA RowsKept ==
  ASSUME TypeInv, NEW c \in Id, NEW row, SetRow(c, row), row.state = backups[c].state,
         row.completed = backups[c].completed, row.successful = backups[c].successful
  PROVE  UNCHANGED status
<1>1. statusOf(row) = statusOf(backups[c])
  BY DEF statusOf
<1>2. \A b \in Id : statusOf(backups'[b]) = statusOf(backups[b])
  BY <1>1, SetRowElse
<1>3. Id' = Id
  BY DEF Id
<1> QED
  BY <1>2, <1>3 DEF status

\* A request that goes on in the place of the backup it has deleted.
InPlace(q) == q.rotate /\ q.step \in {"create", "commit"}

\* Whether a backup has given way is up to the one request that creates another.
LEMMA PlaceStep ==
  ASSUME TypeInv, OneCreation, NEW r \in Slot, OthersWait(r)
  PROVE  /\ Creating(request[r]) => place = InPlace(request[r]) /\ place' = InPlace(request'[r])
         /\ ~InPlace(request[r]) /\ ~InPlace(request'[r]) => UNCHANGED place
<1>1. place = (\E s \in Slot : InPlace(request[s])) /\ place' = (\E s \in Slot : InPlace(request'[s]))
  BY DEF place, InPlace
<1>2. \A s \in Slot \ {r} : InPlace(request'[s]) = InPlace(request[s])
  BY DEF OthersWait
<1>3. \A s \in Slot : InPlace(request[s]) => Creating(request[s])
  BY DEF InPlace, Creating
<1>4. /\ InPlace(request[r]) \in BOOLEAN /\ InPlace(request'[r]) \in BOOLEAN
  BY DEF InPlace
<1>5. ASSUME Creating(request[r])
      PROVE  \A s \in Slot \ {r} : ~InPlace(request[s]) /\ ~InPlace(request'[s])
  BY <1>2, <1>3, <1>5 DEF OneCreation
<1> QED
  BY <1>1, <1>2, <1>3, <1>4, <1>5

\* What a request relies on that goes on to create a backup: that there is room for
\* it, or that it is the one to make it.
LivesInv ==
  \A r \in Slot :
    /\ request[r].step \in {"create", "commit"} /\ ~request[r].rotate =>
         Cardinality(Current) < BackupLimit
    /\ request[r].step \in {"remove", "deleteRow"} /\ request[r].rotate =>
         request[r].id \in Live

\* Nothing is added while a request creates a backup, until it does.
LEMMA CreationAlone ==
  ASSUME TypeInv, RowsInv, NewsInv, LivesApart, [Next]_vars,
         NEW r \in Slot, request[r].step \in {"create", "commit"}, request'[r] # Idle
  PROVE  Cardinality(Current') <= Cardinality(Current)
<1>1. ASSUME NEW s \in Slot, NEW b, Committed(s, b)
      PROVE  FALSE
  <2>1. At(s, "commit") /\ request'[s] = Idle
    BY <1>1, EndRequest DEF Committed, CommitCreate
  <2>2. s = r
    BY <2>1 DEF LivesApart, OneCreation, Creating, At
  <2> QED
    BY <2>1, <2>2
<1>2. Current' \subseteq Current
  BY <1>1, CurrentGrows DEF LivesApart
<1> QED
  BY <1>2, CountedType, CountSubset

\* A backup that is to give way is there until it does.
LEMMA GivingWay ==
  ASSUME TypeInv, RowsInv, LivesApart, [Next]_vars,
         NEW r \in Slot, request[r].step \in {"remove", "deleteRow"}, request[r].rotate,
         request[r].id \in Live, ~DeleteRow(r)
  PROVE  request[r].id \in Live'
<1> PICK b : b = request[r].id
  OBVIOUS
<1>1. b \in Id /\ backups[b].state = "live"
  BY DEF Live
<1>2. ASSUME NEW s \in Slot, Deleted(s, b)
      PROVE  FALSE
  <2>1. At(s, "deleteRow") /\ request[s].id = b /\ DeleteRow(s)
    BY <1>2 DEF Deleted, DeleteRow
  <2>2. s = r
    BY <1>1, <2>1 DEF LivesApart, Removing, At
  <2> QED
    BY <2>1, <2>2
<1>3. backups'[b].state = "live"
  BY <1>1, <1>2, RowStep
     DEF RowChange, Kept, Inserted, Committed, Ended, Pruned, Becomes
<1> QED
  BY <1>1, <1>3 DEF Live, Id

LEMMA LivesNext ==
  ASSUME TypeInv, RowsInv, NewsInv, LivesInv, LivesApart, [Next]_vars
  PROVE  LivesInv'
<1> SUFFICES ASSUME NEW r \in Slot
             PROVE  /\ request'[r].step \in {"create", "commit"} /\ ~request'[r].rotate =>
                         Cardinality(Current') < BackupLimit
                    /\ request'[r].step \in {"remove", "deleteRow"} /\ request'[r].rotate =>
                         request'[r].id \in Live'
  BY DEF LivesInv
<1> PICK q : q = request[r]
  OBVIOUS
<1> PICK p : p = request'[r]
  OBVIOUS
<1>1. \/ p = q \/ p = Idle
      \/ Began(r) \/ Inserts(r) \/ Removes(r) \/ MakesRoom(r)
  BY RequestStep DEF OthersWait, RequestChange
<1>2. ASSUME q.step \in {"create", "commit"}, p # Idle, p.rotate = q.rotate,
             p.step \in {"create", "commit"}
      PROVE  ~p.rotate => Cardinality(Current') < BackupLimit
  BY <1>2, CreationAlone, CountedType, CountedTypeNext, LimitsAssumption DEF LivesInv
<1>3. ASSUME q.step \in {"remove", "deleteRow"}, p.rotate = q.rotate, p.id = q.id,
             p.step \in {"remove", "deleteRow"}
      PROVE  p.rotate => p.id \in Live'
  <2>1. ~DeleteRow(r)
    BY <1>3, RequestType, EndRequest DEF DeleteRow, Idle, TypeInv, Request
  <2> QED
    BY <1>3, <2>1, GivingWay DEF LivesInv
<1>4. CASE p = q
  BY <1>2, <1>3, <1>4 DEF Idle
<1>5. CASE p = Idle
  BY <1>5 DEF Idle
<1>6. CASE Began(r)
  <2>1. Live' = Live /\ Current' = Current /\ Loads(p)
    BY <1>6 DEF Began, Current, nonFailed, Live, Id
  <2>2. p.step = "create" => ~AtLimit
    BY <2>1 DEF Loads
  <2>3. ~AtLimit => Cardinality(Current) < BackupLimit
    BY CountedType, LimitsAssumption DEF AtLimit, Current
  <2>4. p.step # "commit" /\ p.step # "deleteRow"
    BY <2>1 DEF Loads
  <2>5. p.step = "remove" => p.id \in Live
    BY <2>1 DEF Loads, Deletable
  <2> QED
    BY <2>1, <2>2, <2>3, <2>4, <2>5
<1>7. CASE Inserts(r)
  <2>1. p.step = "commit" /\ p.rotate = q.rotate /\ q.step = "create"
    BY <1>7 DEF Inserts, Committing, Idle, At
  <2> QED
    BY <1>2, <2>1 DEF Idle
<1>8. CASE Removes(r)
  <2>1. p.step = "deleteRow" /\ p.rotate = q.rotate /\ p.id = q.id /\ q.step = "remove"
    BY <1>8, RequestType DEF Removes, RemoveArchive, At, Request
  <2> QED
    BY <1>3, <2>1
<1>9. CASE MakesRoom(r)
  <2>1. p.step = "create" /\ p.rotate
    BY <1>9, RequestType DEF MakesRoom, DeleteRow, At, Request
  <2> QED
    BY <2>1
<1> QED
  BY <1>1, <1>4, <1>5, <1>6, <1>7, <1>8, <1>9

LEMMA LivesAlways == Spec /\ []LivesApart => []LivesInv
<1>1. Init => LivesInv
  BY DEF Init, Idle, LivesInv
<1>2. TypeInv /\ RowsInv /\ NewsInv /\ LivesInv /\ LivesApart /\ [Next]_vars => LivesInv'
  BY LivesNext
<1> QED
  BY TypeInvAlways, RowsAlways, NewsAlways, <1>1, <1>2, PTL DEF Spec

-----------------------------------------------------------------------------
(* Every step is one in the life of a backup, or none. *)

LEMMA BeginLife ==
  ASSUME TypeInv, OneCreation, NEW r \in Slot, Began(r), OthersWait(r)
  PROVE  [Life!Next]_(Life!life)
<1>1. UNCHANGED status
  BY DEF Began, status, Id
<1>2. ~InPlace(request[r]) /\ ~InPlace(request'[r])
  BY DEF Began, Loads, Idle, InPlace
<1> QED
  BY <1>1, <1>2, PlaceStep DEF Life!life

\* A request ends without another change: what had given way has done so in vain.
LEMMA EndLife ==
  ASSUME TypeInv, OneCreation, NEW r \in Slot, End(r), UNCHANGED status
  PROVE  [Life!Next]_(Life!life)
<1>1. OthersWait(r) /\ ~InPlace(request'[r])
  BY EndRequest DEF Idle, InPlace
<1>2. UNCHANGED place \/ place' = FALSE
  <2>1. InPlace(request[r]) => Creating(request[r])
    BY DEF InPlace, Creating
  <2>2. place' = InPlace(request'[r]) => place' = FALSE
    BY <1>1 DEF InPlace
  <2> QED
    BY <1>1, <2>1, <2>2, PlaceStep
<1>3. place \in BOOLEAN
  BY DEF place
<1> QED
  BY <1>2, <1>3 DEF Life!Next, Life!life, Life!Forgo

\* A request that creates nothing changes one row.
LEMMA OwnRow ==
  ASSUME TypeInv, NEW r \in Slot, request[r].step \notin {"idle", "create"}
  PROVE  request[r].id \in Id
BY RequestType

LEMMA CreateLife ==
  ASSUME TypeInv, OneCreation, NEW r \in Slot, CreateAndCall(r)
  PROVE  [Life!Next]_(Life!life)
<1>1. PICK c \in Id, answer \in Answers :
        /\ backups[c].state = "unused"
        /\ SetRow(c, [state |-> IF Threw(answer) THEN "undone" ELSE "open",
                      disk |-> request[r].adapter, locked |-> request[r].locked,
                      successful |-> FALSE, completed |-> FALSE, upload |-> FALSE])
        /\ IF Threw(answer)
           THEN End(r)
           ELSE request' = [request EXCEPT ![r] = Committing(r, c)]
  BY DEF CreateAndCall, Committing
<1>2. backups'[c].state \in {"undone", "open"} /\ Id' = Id
      /\ \A d \in Id \ {c} : backups'[d] = backups[d]
  BY <1>1 DEF SetRow, TypeInv, TypeOK, Id
<1>3. UNCHANGED status
  BY <1>1, <1>2 DEF status, statusOf
<1>4. CASE End(r)
  BY <1>3, <1>4, EndLife
<1>5. CASE request' = [request EXCEPT ![r] = Committing(r, c)]
  <2>1. /\ request'[r].step = "commit"
        /\ request'[r].rotate = request[r].rotate
        /\ request[r].step = "create"
        /\ OthersWait(r)
    BY <1>5 DEF Committing, Idle, TypeInv, CreateAndCall, At, OthersWait
  <2>2. Creating(request[r]) /\ InPlace(request'[r]) = InPlace(request[r])
    BY <2>1 DEF Creating, InPlace
  <2>3. UNCHANGED place
    BY <2>1, <2>2, PlaceStep
  <2> QED
    BY <1>3, <2>3 DEF Life!life
<1> QED
  BY <1>1, <1>4, <1>5

LEMMA CommitLife ==
  ASSUME TypeInv, RowsInv, LivesInv, OneCreation, NEW r \in Slot, CommitCreate(r)
  PROVE  [Life!Next]_(Life!life)
<1> DEFINE b == request[r].id
           row == [backups[b] EXCEPT !.state = "live"]
<1>1. SetRow(b, row) /\ End(r) /\ At(r, "commit") /\ OthersWait(r)
  BY EndRequest DEF CommitCreate
<1>2. Creating(request[r]) /\ (request[r].rotate => InPlace(request[r]))
  BY <1>1 DEF At, Creating, InPlace
<1>3. place' = FALSE /\ (place \/ Cardinality(Current) < BackupLimit)
  <2>1. ~InPlace(request'[r])
    BY <1>1, EndRequest DEF Idle, InPlace
  <2> QED
    BY <1>1, <1>2, <2>1, PlaceStep DEF LivesInv, At
<1>4. b \in Id /\ backups[b].state = "open" /\ ~backups[b].completed
  BY <1>1, OwnRow DEF RowsInv, At
<1>5. row.state = "live" /\ ~row.completed
  BY <1>4, BackupType DEF TypeInv, Row
<1> HIDE DEF row
<1>6. status[b] = "none" /\ statusOf(row) = "in_progress"
  BY <1>4, <1>5 DEF status, statusOf
<1>7. status' = [status EXCEPT ![b] = "in_progress"]
  BY <1>1, <1>4, <1>6, StatusSet
<1>8. place \/ Life!Cardinality(Life!Current) < BackupLimit
  BY <1>3, LifeCurrent, LifeCardinality
<1>9. Life!Start(b)
  BY <1>3, <1>6, <1>7, <1>8 DEF Life!Start, Life!Become
<1> QED
  BY <1>4, <1>9 DEF Life!Next

LEMMA RemoveLife ==
  ASSUME TypeInv, OneCreation, NEW r \in Slot, RemoveArchive(r)
  PROVE  [Life!Next]_(Life!life)
<1>1. UNCHANGED status
  BY DEF RemoveArchive, status, Id
<1>2. CASE End(r)
  BY <1>1, <1>2, EndLife
<1>3. CASE Goto(r, "deleteRow")
  <2>1. /\ request'[r].step = "deleteRow" /\ request[r].step = "remove"
        /\ OthersWait(r)
    BY <1>3, RequestType DEF Goto, TypeInv, Request, OthersWait, RemoveArchive, At
  <2>2. ~InPlace(request'[r]) /\ ~InPlace(request[r])
    BY <2>1 DEF InPlace
  <2>3. UNCHANGED place
    BY <2>1, <2>2, PlaceStep
  <2> QED
    BY <1>1, <2>3 DEF Life!life
<1> QED
  BY <1>2, <1>3 DEF RemoveArchive

\* The row may have been deleted by another request, unless it gives way.
LEMMA DeleteLife ==
  ASSUME TypeInv, RowsInv, RoomInv, LivesInv, OneCreation, NEW r \in Slot, DeleteRow(r)
  PROVE  [Life!Next]_(Life!life)
<1> DEFINE b == request[r].id
           row == [backups[b] EXCEPT !.state = "trashed"]
<1>1. SetRow(b, row) /\ At(r, "deleteRow")
  BY DEF DeleteRow
<1>2. b \in Id /\ backups[b].state \in {"live", "trashed"}
  BY <1>1, OwnRow DEF At, RowsInv
<1>3. request[r].rotate => BackupLimit > 0 /\ backups[b].state = "live"
  BY <1>1 DEF RoomInv, HasRoom, Creating, LivesInv, At, Live
<1>4. row.state = "trashed"
  BY <1>2, BackupType DEF TypeInv, Row
<1> HIDE DEF row
<1>5. statusOf(row) = "deleted" /\ status' = [status EXCEPT ![b] = "deleted"]
  BY <1>1, <1>2, <1>4, StatusSet DEF statusOf
<1>6. CASE ~request[r].rotate
  <2>1. End(r)
    BY <1>6 DEF DeleteRow
  <2>2. CASE backups[b].state = "trashed"
    <3>1. status[b] = "deleted"
      BY <1>2, <2>2 DEF status, statusOf
    <3>2. UNCHANGED status
      BY <1>2, <1>5, <3>1 DEF status
    <3> QED
      BY <2>1, <3>2, EndLife
  <2>3. CASE backups[b].state = "live"
    <3>1. Life!Deletion(b)
      <4>1. status[b] \in {"in_progress", "successful", "failed"}
        BY <1>2, <2>3, BackupType DEF status, statusOf, TypeInv
      <4> QED
        BY <1>5, <4>1 DEF Life!Deletion, Life!Become
    <3>2. UNCHANGED place
      <4>1. OthersWait(r) /\ ~InPlace(request'[r]) /\ ~InPlace(request[r])
        BY <1>1, <2>1, EndRequest DEF At, Idle, InPlace
      <4> QED
        BY <4>1, PlaceStep
    <3> QED
      BY <1>2, <3>1, <3>2 DEF Life!Delete, Life!Next
  <2> QED
    BY <1>2, <2>2, <2>3
<1>7. CASE request[r].rotate
  <2>1. request'[r].step = "create" /\ request'[r].rotate /\ OthersWait(r)
    BY <1>7, RequestType DEF DeleteRow, TypeInv, Request, OthersWait
  <2>2. Creating(request[r]) /\ ~InPlace(request[r]) /\ InPlace(request'[r])
    BY <1>1, <1>7, <2>1 DEF Creating, InPlace, At
  <2>3. ~place /\ place' = TRUE
    BY <2>1, <2>2, PlaceStep
  <2>4. Life!Deletion(b)
    <3>1. status[b] \in {"in_progress", "successful", "failed"}
      BY <1>2, <1>3, <1>7, BackupType DEF status, statusOf, TypeInv
    <3> QED
      BY <1>5, <3>1 DEF Life!Deletion, Life!Become
  <2> QED
    BY <1>2, <1>3, <1>7, <2>3, <2>4 DEF Life!GiveWay, Life!Next
<1> QED
  BY <1>6, <1>7

\* The row may have been deleted, or have had another report.
LEMMA ReportLife ==
  ASSUME TypeInv, RowsInv, OneCreation, NEW r \in Slot, CommitReport(r)
  PROVE  [Life!Next]_(Life!life)
<1> DEFINE b == request[r].id
           row == ReportedRow(backups[b], request[r])
<1>1. /\ End(r) /\ OthersWait(r)
      /\ SetRow(b, row) \/ UNCHANGED backups
      /\ At(r, "report")
  BY EndRequest DEF CommitReport
<1>2. b \in Id /\ backups[b].state \in {"live", "trashed"}
  BY <1>1, OwnRow DEF At, RowsInv
<1>3. CASE UNCHANGED backups
  <2>1. UNCHANGED status
    BY <1>3 DEF status, Id
  <2> QED
    BY <1>1, <2>1, EndLife
<1>4. CASE SetRow(b, row)
  <2>1. /\ row.state = backups[b].state /\ row.completed
        /\ row.successful = (backups[b].successful \/ request[r].successful)
    BY <1>2, BackupType, RequestType DEF TypeInv, Row, ReportedRow
  <2> HIDE DEF row
  <2>2. backups[b].successful => backups[b].completed
    BY <1>2 DEF RowsInv
  <2>3. status' = [status EXCEPT ![b] = statusOf(row)]
    BY <1>2, <1>4, StatusSet
  <2>4. CASE statusOf(row) = status[b]
    <3>1. UNCHANGED status
      BY <1>2, <2>3, <2>4 DEF status
    <3> QED
      BY <1>1, <3>1, EndLife
  <2>5. CASE statusOf(row) # status[b]
    <3>1. \/ status[b] = "in_progress" /\ statusOf(row) \in {"successful", "failed"}
          \/ status[b] = "failed" /\ statusOf(row) = "successful"
      BY <1>2, <2>1, <2>2, <2>5, BackupType, RequestType DEF status, statusOf, TypeInv
    <3>2. ~InPlace(request[r]) /\ ~InPlace(request'[r])
      BY <1>1, EndRequest DEF At, Idle, InPlace
    <3>3. UNCHANGED place
      BY <1>1, <3>2, PlaceStep
    <3>4. Life!End(b)
      BY <2>3, <3>1, <3>3 DEF Life!End, Life!Become
    <3> QED
      BY <1>2, <3>4 DEF Life!Next
  <2> QED
    BY <2>4, <2>5
<1> QED
  BY <1>1, <1>3, <1>4

LEMMA ContinueLife ==
  ASSUME TypeInv, RowsInv, RoomInv, LivesInv, OneCreation, NEW r \in Slot, Continue(r)
  PROVE  [Life!Next]_(Life!life)
<1> DEFINE b == request[r].id
<1>1. CASE CreateNone(r)
  <2>1. UNCHANGED status
    BY <1>1 DEF CreateNone, status, Id
  <2> QED
    BY <1>1, <2>1, EndLife DEF CreateNone
<1>2. CASE CommitToggleLock(r)
  <2> DEFINE row == [backups[b] EXCEPT !.locked = ~request[r].locked]
  <2>1. b \in Id /\ SetRow(b, row) /\ End(r)
    BY <1>2, OwnRow DEF CommitToggleLock, At
  <2>2. UNCHANGED status
    BY <2>1, RowsKept, BackupType DEF TypeInv, Row
  <2> QED
    BY <2>1, <2>2, EndLife
<1>3. CASE CommitUpload(r)
  <2> DEFINE row == [backups[b] EXCEPT !.upload = TRUE]
  <2>1. b \in Id /\ (SetRow(b, row) \/ UNCHANGED backups) /\ End(r)
    BY <1>3, OwnRow DEF CommitUpload, At
  <2>2. CASE SetRow(b, row)
    <3>1. UNCHANGED status
      BY <2>1, <2>2, RowsKept, BackupType DEF TypeInv, Row
    <3> QED
      BY <2>1, <3>1, EndLife
  <2>3. CASE UNCHANGED backups
    <3>1. UNCHANGED status
      BY <2>3 DEF status, Id
    <3> QED
      BY <2>1, <3>1, EndLife
  <2> QED
    BY <2>1, <2>2, <2>3
<1> QED
  BY <1>1, <1>2, <1>3, CreateLife, CommitLife, RemoveLife, DeleteLife, ReportLife DEF Continue

LEMMA PruneLife ==
  ASSUME TypeInv, NEW k \in Id, Prune(k)
  PROVE  Life!GiveUp
<1> DEFINE B == {c \in InProgress : c <= k}
           pruned(c) == [backups[c] EXCEPT !.completed = TRUE, !.successful = FALSE]
<1>1. /\ backups' = [c \in Id |-> IF c \in B THEN pruned(c) ELSE backups[c]]
      /\ UNCHANGED request /\ Id' = Id
  BY DEF Prune, Id
<1>2. \A c \in B : c \in Id /\ status[c] = "in_progress"
  BY DEF InProgress, Live, status, statusOf
<1>3. \A c \in B : statusOf(pruned(c)) = "failed"
  <2> SUFFICES ASSUME NEW c \in B PROVE statusOf(pruned(c)) = "failed"
    OBVIOUS
  <2>1. /\ pruned(c).state = "live"
        /\ pruned(c).completed /\ ~pruned(c).successful
    BY <1>2, BackupType DEF InProgress, Live, TypeInv, Row
  <2> QED
    BY <2>1 DEF statusOf
<1> HIDE DEF B, pruned
<1>4. \A c \in Id : statusOf(backups'[c]) = IF c \in B THEN "failed" ELSE status[c]
  BY <1>1, <1>3 DEF status
<1>5. status' = [c \in Id |-> IF c \in B THEN "failed" ELSE status[c]]
  BY <1>1, <1>4 DEF status
<1>6. UNCHANGED place
  BY <1>1 DEF place
<1>7. B \in SUBSET {c \in Id : status[c] = "in_progress"}
  BY <1>2
<1> QED
  BY <1>5, <1>6, <1>7 DEF Life!GiveUp

\* Any requests that do not undo what one that creates a backup relies on (LivesApart)
\* give every backup a life it may have: it begins when there is room or another has
\* given way to it, whatever the daemon and S3 answer.
THEOREM BackupsImplementLife == Spec /\ []LivesApart => ImplementsLife
<1>1. Init => Life!Init
  BY DEF Init, Life!Init, status, statusOf, place, Idle
<1>2. TypeInv /\ RowsInv /\ RoomInv /\ LivesInv /\ OneCreation /\ [Next]_vars =>
        [Life!Next]_(Life!life)
  <2> SUFFICES ASSUME TypeInv, RowsInv, RoomInv, LivesInv, OneCreation, [Next]_vars
               PROVE  [Life!Next]_(Life!life)
    OBVIOUS
  <2>1. CASE UNCHANGED <<backups, request>>
    BY <2>1 DEF Life!life, status, place, Id
  <2>2. CASE UNCHANGED vars
    BY <2>1, <2>2 DEF vars
  <2>3. ASSUME NEW k \in Id, Prune(k) PROVE [Life!Next]_(Life!life)
    BY <2>3, PruneLife DEF Life!Next
  <2>4. CASE Age \/ SwitchAdapter
    BY <2>1, <2>4 DEF Age, SwitchAdapter
  <2>5. ASSUME NEW r \in Slot, User(r) PROVE [Life!Next]_(Life!life)
    BY <2>5, UserRequest, BeginLife
  <2>6. CASE Daemon
    <3>1. UNCHANGED backups
      BY <2>6 DEF Daemon, Finish, RefuseUpload, RefuseReport, BeginUpload, BeginReport, Restart
    <3> QED
      BY <2>1, <2>6, <3>1, DaemonRequest, BeginLife
  <2> QED
    BY <2>2, <2>3, <2>4, <2>5, <2>6, ContinueLife DEF Next, Environment
<1>3. LivesApart => OneCreation
  BY DEF LivesApart
<1> QED
  BY TypeInvAlways, RowsAlways, RoomAlways, LivesAlways, <1>1, <1>2, <1>3, PTL
     DEF Spec, ImplementsLife, Life!Spec
=============================================================================
