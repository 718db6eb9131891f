------------------------ MODULE ServerTransferProofs ------------------------
(***************************************************************************)
(* The transfers of a server, for any nodes, any number of requests at the *)
(* same time and any behaviour of the daemons.  First what holds however   *)
(* requests overlap: of starts that overlap, the first is right.  Then the *)
(* refinement of TransferLedger, as long as nothing that a transfer        *)
(* depends on overlaps with its start (Apart); its invariant is about      *)
(* requests between their two steps: what one checked or loaded when it    *)
(* began still holds when it writes.                                       *)
(***************************************************************************)
EXTENDS ServerLifecycleProofs

-----------------------------------------------------------------------------
(* The pending rows after a row is settled, and after one is inserted. *)

LEMMA SettlePending ==
  ASSUME TypeOK, NEW i, NEW value \in {"yes", "no"}, Settle(i, value)
  PROVE  /\ PendingRows' = PendingRows \ {i}
         /\ \A j \in PendingRows' : transfers'[j] = transfers[j]
<1>1. CASE i \notin DOMAIN transfers
  BY <1>1 DEF Settle, PendingRows
<1>2. CASE i \in DOMAIN transfers
  <2>1. transfers' = [transfers EXCEPT ![i].successful = value]
    BY <1>2 DEF Settle
  <2>2. DOMAIN transfers' = DOMAIN transfers
    BY SettleType
  <2>3. \A j \in DOMAIN transfers : transfers[j] \in Transfer
    BY ElementOfSeq DEF TypeOK
  <2>4. \A j \in DOMAIN transfers :
          /\ transfers'[j].successful = IF j = i THEN value ELSE transfers[j].successful
          /\ j # i => transfers'[j] = transfers[j]
    BY <2>1, <2>3 DEF Transfer
  <2> QED
    BY <1>2, <2>2, <2>4 DEF PendingRows
<1> QED
  BY <1>1, <1>2

LEMMA AppendPending ==
  ASSUME TypeOK, PendingRows = {}, NEW row \in Transfer, row.successful = "pending",
         transfers' = Append(transfers, row)
  PROVE  /\ PendingRows' = {Len(transfers) + 1}
         /\ transfers'[Len(transfers) + 1] = row
<1> DEFINE n == Len(transfers)
<1>1. n \in Nat /\ DOMAIN transfers = 1 .. n
  BY LenProperties DEF TypeOK
<1>2. /\ transfers' \in Seq(Transfer)
      /\ Len(transfers') = n + 1
      /\ DOMAIN transfers' = 1 .. n + 1
      /\ \A j \in 1 .. n : transfers'[j] = transfers[j]
      /\ transfers'[n + 1] = row
  BY AppendProperties, LenProperties DEF TypeOK
<1>3. \A j \in 1 .. n : transfers[j].successful # "pending"
  BY <1>1 DEF PendingRows
<1> QED
  BY <1>1, <1>2, <1>3 DEF PendingRows

-----------------------------------------------------------------------------
(* Starts that overlap.  Each of them has found no transfer pending, and that *)
(* stays so until the first of them is recorded: no other request makes a row *)
(* pending, and the server moves only while one is.                           *)

FirstStartFits ==
  exists => \A r \in Slot :
    At(r, "startTransfer") =>
      /\ request[r].transfer <= Len(transfers)
      /\ request[r].transfer = Len(transfers) =>
           PendingRows = {} /\ request[r].node = server.node

\* A step that records no transfer makes none pending, and keeps the rows of a
\* server that still exists.
LEMMA RowsSettled ==
  ASSUME TypeOK, [Next]_vars, \A r \in Slot : ~CommitTransfer(r)
  PROVE  /\ PendingRows' \subseteq PendingRows
         /\ Len(transfers') <= Len(transfers)
         /\ exists' => Len(transfers') = Len(transfers)
<1> DEFINE Goal == /\ PendingRows' \subseteq PendingRows
                   /\ Len(transfers') <= Len(transfers)
                   /\ exists' => Len(transfers') = Len(transfers)
<1> SUFFICES Goal
  OBVIOUS
<1>l. Len(transfers) \in Nat
  BY LenProperties DEF TypeOK
<1>1. ASSUME UNCHANGED transfers PROVE Goal
  BY <1>1, <1>l DEF PendingRows
<1>2. ASSUME NEW i, NEW value \in {"yes", "no"}, Settle(i, value) PROVE Goal
  BY <1>2, <1>l, SettleType, SettlePending
<1>d. ASSUME NEW r \in Slot, DeleteRows(r) PROVE Goal
  BY <1>d, <1>l DEF DeleteRows, PendingRows
<1> HIDE DEF Goal
<1>3. ASSUME NEW r \in Slot, Continue(r) PROVE Goal
  <2>1. CASE CommitCancel(r)
    BY <2>1, <1>2 DEF CommitCancel
  <2>2. CASE CommitTransferFailure(r)
    BY <2>2, <1>2 DEF CommitTransferFailure
  <2>3. CASE CommitTransferSuccess(r)
    BY <2>3, <1>1, <1>2 DEF CommitTransferSuccess
  <2> QED
    BY <1>1, <1>3, <1>d, <2>1, <2>2, <2>3
       DEF Continue, CommitSuspension, Sync, CommitReinstall, CommitToggleInstall,
           CommitRestore, CommitWithDaemon, CancelCalls, DaemonCreate, DaemonDelete,
           CommitInstalled, CommitRestored, DeleteOld, rows
<1>4. ASSUME NEW r \in Slot, Panel(r) \/ Callback(r) PROVE Goal
  BY <1>1, <1>4, BeginsKeepRows DEF rows
<1>5. ASSUME NEW m \in Node, Daemon(m) PROVE Goal
  BY <1>1, <1>5 DEF Daemon, Crash, Boot, rows
<1>6. ASSUME NEW job \in jobs, Backup(job) PROVE Goal
  BY <1>1, <1>6, BackupKeeps
<1>7. CASE UNCHANGED vars
  BY <1>1, <1>7 DEF vars
<1> QED
  BY <1>3, <1>4, <1>5, <1>6, <1>7 DEF Next

\* A transfer that is recorded makes the rows one more, or leaves them alone.
LEMMA RowsStarted ==
  ASSUME TypeOK, NEW r \in Slot, CommitTransfer(r)
  PROVE  \/ UNCHANGED transfers
         \/ /\ Len(transfers') = Len(transfers) + 1
            /\ transfers'[Len(transfers')].old = request[r].node
            /\ exists
<1> DEFINE row == [old |-> request[r].node, new |-> request[r].new,
                   successful |-> "pending"]
<1>1. transfers' = transfers \/ (exists /\ transfers' = Append(transfers, row))
  BY DEF CommitTransfer
<1>2. row \in Transfer /\ row.old = request[r].node
  BY DEF TypeOK, Request, Transfer
<1> HIDE DEF row
<1> QED
  BY <1>1, <1>2, AppendProperties, LenProperties DEF TypeOK

\* A request comes to start a transfer by finding none pending.
LEMMA StartLoaded ==
  ASSUME TypeOK, [Next]_vars, NEW s \in Slot, At(s, "startTransfer")'
  PROVE  \/ request'[s] = request[s]
         \/ /\ request'[s].transfer = Len(transfers) /\ PendingRows = {}
            /\ request'[s].node = server.node /\ UNCHANGED rows
<1> DEFINE Goal == \/ request'[s] = request[s]
                   \/ /\ request'[s].transfer = Len(transfers) /\ PendingRows = {}
                      /\ request'[s].node = server.node /\ UNCHANGED rows
<1> SUFFICES Goal
  OBVIOUS
<1>1. ASSUME request'[s] = request[s] PROVE Goal
  BY <1>1
<1>2. ASSUME NEW r \in Slot, NEW q, q.step # "startTransfer",
             request' = [request EXCEPT ![r] = q]
      PROVE  Goal
  BY <1>1, <1>2 DEF At, TypeOK
<1>3. ASSUME NEW r \in Slot, End(r) PROVE Goal
  BY <1>2, <1>3 DEF End, Idle
<1>4. ASSUME NEW r \in Slot, NEW step, step # "startTransfer", Goto(r, step)
      PROVE  Goal
  <2> DEFINE q == [request[r] EXCEPT !.step = step]
  <2>1. q.step # "startTransfer"
    BY <1>4 DEF TypeOK, Request
  <2>2. request' = [request EXCEPT ![r] = q]
    BY <1>4 DEF Goto
  <2> HIDE DEF q, Goal
  <2> QED
    BY <1>2, <2>1, <2>2
<1>5. ASSUME NEW r \in Slot, NEW n \in Node, BeginTransfer(r, n) PROVE Goal
  <2> DEFINE q == [LoadedNode("startTransfer") EXCEPT !.new = n,
                                                       !.transfer = Len(transfers)]
  <2>1. /\ q.transfer = Len(transfers) /\ q.node = server.node
        /\ request' = [request EXCEPT ![r] = q]
        /\ PendingRows = {} /\ UNCHANGED rows
    BY <1>5 DEF BeginTransfer, Begin, LoadedNode, Idle, validateTransferState
  <2> HIDE DEF q
  <2>2. CASE r = s
    BY <2>1, <2>2 DEF TypeOK
  <2>3. CASE r # s
    BY <2>1, <2>3 DEF TypeOK
  <2> QED
    BY <2>2, <2>3
<1> HIDE DEF Goal
<1>6. ASSUME NEW r \in Slot, Panel(r) PROVE Goal
  <2> USE DEF Begin, LoadedNode, Loaded, LoadedTransfer, Idle
  <2>1. CASE BeginSuspend(r) \/ BeginUnsuspend(r) \/ BeginReinstall(r) \/ BeginRestore(r)
    BY <2>1, <1>2 DEF BeginSuspend, BeginUnsuspend, BeginReinstall, BeginRestore
  <2>2. CASE BeginToggleInstall(r)
    <3> DEFINE save == IF isInstalled(server.status) THEN "installing" ELSE "normal"
               q == [Loaded("toggleInstall") EXCEPT !.save = save]
    <3>1. request' = [request EXCEPT ![r] = q]
      BY <2>2 DEF BeginToggleInstall
    <3> HIDE DEF save
    <3>2. q.step = "toggleInstall"
      OBVIOUS
    <3> QED
      BY <1>2, <3>1, <3>2
  <2>3. CASE BeginCancel(r)
    BY <2>3, <1>2 DEF BeginCancel
  <2>4. ASSUME NEW force \in BOOLEAN, BeginDelete(r, force) PROVE Goal
    BY <2>4, <1>2 DEF BeginDelete
  <2> QED
    BY <1>5, <1>6, <2>1, <2>2, <2>3, <2>4 DEF Panel
<1>7. ASSUME NEW r \in Slot, Callback(r) PROVE Goal
  <2>1. ASSUME NEW job, NEW successful, BeginInstalled(r, job, successful)
        PROVE  Goal
    <3> DEFINE save == ReportedStatus(server.status, successful, job.kind = "reinstall")
               q == [Loaded("installed") EXCEPT !.save = save]
    <3>1. request' = [request EXCEPT ![r] = q]
      BY <2>1 DEF BeginInstalled, Begin
    <3> HIDE DEF save
    <3>2. q.step = "installed"
      BY DEF Loaded, LoadedNode, Idle
    <3> QED
      BY <1>2, <3>1, <3>2
  <2>2. ASSUME NEW job, BeginRestored(r, job) PROVE Goal
    BY <2>2, <1>2 DEF BeginRestored, Begin, Loaded, LoadedNode, Idle
  <2>3. ASSUME NEW step \in {"transferSuccess", "transferFailure"},
               BeginTransferReport(r, step)
        PROVE  Goal
    <3>1. CASE UNCHANGED request
      BY <3>1, <1>1
    <3>2. ASSUME NEW i \in PendingRows, Begin(r, LoadedTransfer(step, i)) PROVE Goal
      BY <3>2, <1>2 DEF Begin, LoadedTransfer, LoadedNode, Idle
    <3> QED
      BY <2>3, <3>1, <3>2 DEF BeginTransferReport
  <2> QED
    BY <1>7, <2>1, <2>2, <2>3 DEF Callback, BeginTransferSuccess, BeginTransferFailure
<1>8. ASSUME NEW r \in Slot, Continue(r) PROVE Goal
  <2>1. CASE CommitSuspension(r)
    BY <2>1, <1>2 DEF CommitSuspension, Idle
  <2>2. CASE CommitCancel(r)
    BY <2>2, <1>4 DEF CommitCancel
  <2>3. CASE DaemonCreate(r)
    <3> DEFINE q == [request[r] EXCEPT !.step = "delete", !.force = TRUE]
    <3>1. q.step # "startTransfer"
      BY DEF TypeOK, Request
    <3>2. End(r) \/ request' = [request EXCEPT ![r] = q]
      BY <2>3 DEF DaemonCreate
    <3> HIDE DEF q
    <3> QED
      BY <3>1, <3>2, <1>2, <1>3
  <2>4. CASE DaemonDelete(r)
    BY <2>4, <1>3, <1>4 DEF DaemonDelete
  <2>5. CASE CommitTransferSuccess(r)
    BY <2>5, <1>3, <1>4 DEF CommitTransferSuccess
  <2> QED
    BY <1>8, <1>3, <2>1, <2>2, <2>3, <2>4, <2>5
       DEF Continue, Sync, CommitReinstall, CommitToggleInstall, CommitRestore,
           CommitWithDaemon, CommitTransfer, CancelCalls, DeleteRows, CommitInstalled,
           CommitRestored, DeleteOld, CommitTransferFailure
<1>9. ASSUME NEW n \in Node, Daemon(n) PROVE Goal
  BY <1>9, <1>1 DEF Daemon, Crash, Boot
<1>10. CASE UNCHANGED vars
  BY <1>10, <1>1 DEF vars
<1>11. ASSUME NEW job \in jobs, Backup(job) PROVE Goal
  BY <1>11, <1>1, BackupKeeps
<1> QED
  BY <1>6, <1>7, <1>8, <1>9, <1>10, <1>11 DEF Next

LEMMA FirstStartInvariant == Spec => []FirstStartFits
<1>1. Init => FirstStartFits
  <2> SUFFICES ASSUME Init, NEW s \in Slot PROVE ~At(s, "startTransfer")
    BY DEF FirstStartFits
  <2> QED
    BY DEF Init, Idle, At
<1>2. TypeOK /\ FirstStartFits /\ [Next]_vars => FirstStartFits'
  <2> SUFFICES ASSUME TypeOK, FirstStartFits, [Next]_vars, exists',
                      NEW s \in Slot, At(s, "startTransfer")'
               PROVE  /\ request'[s].transfer <= Len(transfers')
                      /\ request'[s].transfer = Len(transfers') =>
                           PendingRows' = {} /\ request'[s].node = server'.node
    BY DEF FirstStartFits
  <2>l. Len(transfers) \in Nat /\ request[s].transfer \in Nat
    BY LenProperties, BoundsAssumption DEF TypeOK, Request
  <2>1. CASE /\ request'[s].transfer = Len(transfers) /\ PendingRows = {}
             /\ request'[s].node = server.node /\ UNCHANGED rows
    BY <2>1, <2>l DEF rows, PendingRows
  <2>2. CASE request'[s] = request[s]
    <3>1. /\ request[s].transfer <= Len(transfers)
          /\ request[s].transfer = Len(transfers) =>
               PendingRows = {} /\ request[s].node = server.node
      BY <2>2, DeletedForGood DEF FirstStartFits, At
    <3>2. CASE \E r \in Slot : CommitTransfer(r)
      <4>1. UNCHANGED server /\ (UNCHANGED transfers \/ Len(transfers') = Len(transfers) + 1)
        BY <3>2, RowsStarted DEF CommitTransfer
      <4> QED
        BY <2>2, <2>l, <3>1, <4>1 DEF PendingRows
    <3>3. CASE \A r \in Slot : ~CommitTransfer(r)
      <4>1. Len(transfers') = Len(transfers) /\ PendingRows' \subseteq PendingRows
        BY <3>3, RowsSettled
      <4>2. server'.node # server.node => PendingRows # {}
        BY NodeChange DEF CommitTransferSuccess
      <4> QED
        BY <2>2, <3>1, <4>1, <4>2
    <3> QED
      BY <3>2, <3>3
  <2> QED
    BY <2>1, <2>2, StartLoaded
<1> QED
  BY TypeCorrect, <1>1, <1>2, PTL DEF Spec

\* Of starts that overlap, the first to be recorded finds no transfer pending and
\* records the node the server is on, whatever is reported, cancelled, suspended
\* and deleted between its two steps.  (TransferServerService::handle.)
THEOREM FirstStartIsRight == Spec => FirstStartRight
<1>1. TypeOK /\ FirstStartFits /\ [Next]_vars =>
        (\A r \in Slot :
           /\ At(r, "startTransfer") /\ request'[r] # request[r]
           /\ Len(transfers') > Len(transfers) /\ Len(transfers) = request[r].transfer
           => PendingRows = {} /\ transfers'[Len(transfers')].old = server.node)
  <2> SUFFICES ASSUME TypeOK, FirstStartFits, [Next]_vars, NEW r \in Slot,
                      At(r, "startTransfer"), request'[r] # request[r],
                      Len(transfers') > Len(transfers),
                      Len(transfers) = request[r].transfer
               PROVE  PendingRows = {} /\ transfers'[Len(transfers')].old = server.node
    OBVIOUS
  <2>l. Len(transfers) \in Nat
    BY LenProperties DEF TypeOK
  <2>2. PICK s \in Slot : CommitTransfer(s)
    BY <2>l, RowsSettled
  <2>3. s = r
    BY <2>2 DEF CommitTransfer, End, TypeOK
  <2>4. exists /\ transfers'[Len(transfers')].old = request[r].node
    BY <2>2, <2>3, <2>l, RowsStarted
  <2> QED
    BY <2>4 DEF FirstStartFits
<1> QED
  BY TypeCorrect, FirstStartInvariant, <1>1, PTL DEF Spec, FirstStartRight

-----------------------------------------------------------------------------
(* The rest is about requests that are Apart. *)

\* No two transfers are pending, and the one that is leaves from the node the
\* server is on.
AtMostOneTransfer == \A i, j \in PendingRows : i = j

TransferFromCurrentNode == \A i \in PendingRows : transfers[i].old = server.node

\* What a request relies on is still so.  A success may find its transfer
\* settled by others, but never another one pending.
Fits(q) ==
  /\ q.step = "startTransfer" => PendingRows = {} /\ q.node = server.node
  /\ q.step = "transferSuccess" =>
       \A i \in PendingRows :
         i = q.transfer /\ q.node = server.node /\ q.new = transfers[i].new

\* A request that relies on nothing.
Neutral(q) == q.step \notin {"startTransfer", "transferSuccess"}

RowsInv ==
  /\ AtMostOneTransfer
  /\ TransferFromCurrentNode
  /\ ~exists => transfers = <<>>

TransfersInv == RowsInv /\ \A r \in Slot : Fits(request[r])

\* What a step may do to the rows: only a start of a transfer does more.
Shrinks ==
  /\ exists' => exists
  /\ ~exists' => transfers' = <<>>
  /\ PendingRows' \subseteq PendingRows
  /\ \A i \in PendingRows' : transfers'[i] = transfers[i]
  /\ server'.node # server.node => PendingRows # {} /\ PendingRows' = {}

\* The row that the relation returns is the only pending one.
LEMMA OnlyPending ==
  ASSUME AtMostOneTransfer, NEW i \in PendingRows
  PROVE  PendingRows = {i}
BY DEF AtMostOneTransfer

-----------------------------------------------------------------------------
(* Steps that start no transfer. *)

\* What the other requests rely on stays.
LEMMA OthersFit ==
  ASSUME TypeOK, TransfersInv, Apart, NEW r \in Slot, Shrinks,
         NEW s \in Slot \ {r}, request'[s] = request[s]
  PROVE  Fits(request[s])'
<1>1. Fits(request[s])
  BY DEF TransfersInv
<1>2. request[s].step = "startTransfer" => PendingRows' = {} /\ server'.node = server.node
  BY <1>1 DEF Shrinks, Fits
<1>3. request[s].step = "transferSuccess" =>
        \A i \in PendingRows' :
          /\ i = request[s].transfer /\ request[s].node = server'.node
          /\ request[s].new = transfers'[i].new
  BY <1>1 DEF Shrinks, Fits
<1> QED
  BY <1>1, <1>2, <1>3 DEF Fits

LEMMA ShrinkKeepsRows ==
  ASSUME TransfersInv, NEW r \in Slot, Shrinks
  PROVE  RowsInv'
<1>2. AtMostOneTransfer'
  BY DEF TransfersInv, RowsInv, AtMostOneTransfer, Shrinks
<1>3. TransferFromCurrentNode'
  BY DEF TransfersInv, RowsInv, TransferFromCurrentNode, Shrinks
<1> QED
  BY <1>2, <1>3 DEF RowsInv, Shrinks

LEMMA ShrinkKeeps ==
  ASSUME TypeOK, TransfersInv, Apart, NEW r \in Slot, Shrinks,
         NEW q, request' = [request EXCEPT ![r] = q], Fits(q)'
  PROVE  TransfersInv'
<1>1. request'[r] = q /\ \A s \in Slot \ {r} : request'[s] = request[s]
  BY DEF TypeOK
<1>2. Fits(request[r])'
  BY <1>1 DEF Fits
<1>3. \A s \in Slot \ {r} : Fits(request[s])'
  BY <1>1, OthersFit
<1> QED
  BY <1>2, <1>3, ShrinkKeepsRows DEF TransfersInv

LEMMA NeutralKeeps ==
  ASSUME TypeOK, TransfersInv, Apart, NEW r \in Slot, Shrinks,
         NEW q, request' = [request EXCEPT ![r] = q], Neutral(q)
  PROVE  TransfersInv'
<1>1. Fits(q)'
  BY DEF Neutral, Fits
<1> QED
  BY <1>1, ShrinkKeeps

LEMMA EndKeeps ==
  ASSUME TypeOK, TransfersInv, Apart, NEW r \in Slot, Shrinks, End(r)
  PROVE  TransfersInv'
<1>1. Neutral(Idle)
  BY DEF Neutral, Idle
<1>2. request' = [request EXCEPT ![r] = Idle]
  BY DEF End
<1> QED
  BY <1>1, <1>2, NeutralKeeps

LEMMA GotoKeeps ==
  ASSUME TypeOK, TransfersInv, Apart, NEW r \in Slot, Shrinks,
         NEW step \in {"cancelCalls", "deleteRows", "deleteOld"}, Goto(r, step)
  PROVE  TransfersInv'
<1> DEFINE q == [request[r] EXCEPT !.step = step]
<1>1. q.step = step
  BY DEF TypeOK, Request
<1>3. request' = [request EXCEPT ![r] = q]
  BY DEF Goto
<1> HIDE DEF q
<1> QED
  BY <1>1, <1>3, NeutralKeeps DEF Neutral

\* No request takes part.
LEMMA RequestsStay ==
  ASSUME TransfersInv, UNCHANGED <<exists, transfers, request>>,
         server'.node = server.node
  PROVE  TransfersInv'
<1>1. PendingRows' = PendingRows
  BY DEF PendingRows
<1> QED
  BY <1>1 DEF TransfersInv, RowsInv, AtMostOneTransfer, TransferFromCurrentNode, Fits

\* The rows stay.
LEMMA RowsStayShrinks ==
  ASSUME TransfersInv, NEW r \in Slot, UNCHANGED rows
  PROVE  Shrinks
BY DEF TransfersInv, RowsInv, Shrinks, PendingRows, rows

\* A status is saved.
LEMMA SaveShrinks ==
  ASSUME TypeOK, TransfersInv, NEW r \in Slot, SaveStatus(r), UNCHANGED <<exists, transfers>>
  PROVE  Shrinks
<1>1. server'.node = server.node
  BY DEF SaveStatus, TypeOK, Server
<1> QED
  BY <1>1 DEF TransfersInv, RowsInv, Shrinks, PendingRows

\* A transfer is settled, whether or not it still is pending.
LEMMA SettleShrinks ==
  ASSUME TypeOK, TransfersInv, NEW r \in Slot, NEW i, NEW value \in {"yes", "no"},
         Settle(i, value), UNCHANGED exists,
         server'.node # server.node => PendingRows = {i}
  PROVE  Shrinks
<1>1. ~exists => transfers' = <<>>
  BY DEF TransfersInv, RowsInv, Settle
<1>2. /\ PendingRows' = PendingRows \ {i}
      /\ \A j \in PendingRows' : transfers'[j] = transfers[j]
  BY SettlePending
<1> QED
  BY <1>1, <1>2 DEF Shrinks

-----------------------------------------------------------------------------
(* A request begins: it loads the rows and leaves them alone. *)

LEMMA BeginFits ==
  ASSUME TypeOK, TransfersInv, Apart, UNCHANGED rows, NEW r \in Slot, NEW q,
         Begin(r, q), Fits(q)
  PROVE  TransfersInv'
<1>1. Fits(q)'
  BY DEF Fits, rows, PendingRows
<1> QED
  BY <1>1, RowsStayShrinks, ShrinkKeeps DEF Begin

LEMMA BeginTransfers ==
  ASSUME TypeOK, TransfersInv, Apart, NEW r \in Slot, Panel(r) \/ Callback(r)
  PROVE  TransfersInv'
<1> USE DEF Idle, LoadedNode, Loaded, LoadedTransfer
<1>r. UNCHANGED rows
  BY BeginsKeepRows
<1>s. ASSUME UNCHANGED request PROVE TransfersInv'
  BY <1>s, <1>r, RequestsStay DEF rows
\* A request that only loads the server and will save another status.
<1>n. ASSUME NEW q, Begin(r, q), Neutral(q) PROVE TransfersInv'
  BY <1>n, <1>r, BeginFits DEF Neutral, Fits
<1>t. ASSUME NEW step \in {"cancelTransfer", "transferSuccess", "transferFailure"},
             NEW i \in PendingRows, Begin(r, LoadedTransfer(step, i))
      PROVE  TransfersInv'
  <2> DEFINE q == LoadedTransfer(step, i)
  <2>1. /\ q.step = step
        /\ q.transfer = i
        /\ q.node = server.node
        /\ q.new = transfers[i].new
    OBVIOUS
  <2> HIDE DEF q
  <2>2. PendingRows = {i}
    BY OnlyPending DEF TransfersInv, RowsInv
  <2>3. Fits(q)
    BY <2>1, <2>2 DEF Fits
  <2> QED
    BY <1>r, <1>t, <2>3, BeginFits DEF q
<1>1. CASE BeginSuspend(r) \/ BeginUnsuspend(r) \/ BeginReinstall(r)
  BY <1>1, <1>n DEF BeginSuspend, BeginUnsuspend, BeginReinstall, Neutral
<1>2. CASE BeginToggleInstall(r)
  <2> DEFINE save == IF isInstalled(server.status) THEN "installing" ELSE "normal"
             q == [Loaded("toggleInstall") EXCEPT !.save = save]
  <2>1. Begin(r, q)
    BY <1>2 DEF BeginToggleInstall
  <2> HIDE DEF save
  <2>2. q.step = "toggleInstall"
    OBVIOUS
  <2> QED
    BY <2>1, <2>2, <1>n DEF Neutral
<1>3. CASE BeginRestore(r)
  <2> DEFINE q == [Loaded("restore") EXCEPT !.save = "restoring_backup"]
  <2>1. Begin(r, q)
    BY <1>3 DEF BeginRestore
  <2>2. q.step = "restore"
    OBVIOUS
  <2> HIDE DEF q
  <2> QED
    BY <2>1, <2>2, <1>n DEF Neutral
<1>4. ASSUME NEW n \in Node, BeginTransfer(r, n)
      PROVE  TransfersInv'
  <2> DEFINE q == [LoadedNode("startTransfer") EXCEPT !.new = n,
                                                       !.transfer = Len(transfers)]
  <2>1. Begin(r, q) /\ PendingRows = {}
    BY <1>4 DEF BeginTransfer, validateTransferState
  <2>2. q.step = "startTransfer" /\ q.node = server.node
    OBVIOUS
  <2> HIDE DEF q
  <2> QED
    BY <2>1, <2>2, <1>r, BeginFits DEF Fits
<1>5. CASE BeginCancel(r)
  BY <1>5, <1>t DEF BeginCancel
<1>6. ASSUME NEW force \in BOOLEAN, BeginDelete(r, force)
      PROVE  TransfersInv'
  BY <1>6, <1>n DEF BeginDelete, Neutral
<1>7. ASSUME NEW job, NEW successful, BeginInstalled(r, job, successful)
      PROVE  TransfersInv'
  <2> DEFINE save == ReportedStatus(server.status, successful, job.kind = "reinstall")
             q == [Loaded("installed") EXCEPT !.save = save]
  <2>1. Begin(r, q)
    BY <1>7 DEF BeginInstalled
  <2> HIDE DEF save
  <2>2. q.step = "installed"
    OBVIOUS
  <2> QED
    BY <2>1, <2>2, <1>n DEF Neutral
<1>8. ASSUME NEW job, BeginRestored(r, job)
      PROVE  TransfersInv'
  BY <1>8, <1>n DEF BeginRestored, Neutral
<1>9. ASSUME NEW step \in {"transferSuccess", "transferFailure"}, BeginTransferReport(r, step)
      PROVE  TransfersInv'
  BY <1>9, <1>s, <1>t DEF BeginTransferReport
<1> QED
  BY <1>1, <1>2, <1>3, <1>4, <1>5, <1>6, <1>7, <1>8, <1>9
     DEF Panel, Callback, BeginTransferSuccess, BeginTransferFailure

-----------------------------------------------------------------------------
(* The steps of a request that write the rows of transfers. *)

\* What CommitTransfer does to the rows.
LEMMA TransferStep ==
  ASSUME TypeOK, TransfersInv, NEW r \in Slot, CommitTransfer(r), transfers' # transfers
  PROVE  /\ exists
         /\ PendingRows = {}
         /\ PendingRows' = {Len(transfers) + 1}
         /\ transfers'[Len(transfers) + 1].new = request[r].new
         /\ RowsInv'
<1> DEFINE row == [old |-> request[r].node, new |-> request[r].new,
                   successful |-> "pending"]
           n == Len(transfers) + 1
<1>1. exists /\ transfers' = Append(transfers, row) /\ UNCHANGED <<exists, server>>
  BY DEF CommitTransfer
<1>2. row \in Transfer
  BY DEF TypeOK, Request, Transfer
<1>3. PendingRows = {} /\ request[r].node = server.node
  BY DEF CommitTransfer, At, TransfersInv, Fits
<1>4. row.successful = "pending" /\ row.old = request[r].node /\ row.new = request[r].new
  OBVIOUS
<1> HIDE DEF row
<1>5. PendingRows' = {n} /\ transfers'[n] = row
  BY <1>1, <1>2, <1>3, <1>4, AppendPending
<1> HIDE DEF n
<1>6. RowsInv'
  BY <1>1, <1>3, <1>4, <1>5
     DEF RowsInv, AtMostOneTransfer, TransferFromCurrentNode
<1> QED
  BY <1>1, <1>3, <1>4, <1>5, <1>6 DEF n

\* What CommitTransferSuccess does to the rows, if its transfer is still pending.
LEMMA SuccessStep ==
  ASSUME TypeOK, TransfersInv, NEW r \in Slot, CommitTransferSuccess(r), PendingRows # {}
  PROVE  /\ PendingRows = {request[r].transfer} /\ PendingRows' = {}
         /\ server'.node = request[r].new
         /\ transfers[request[r].transfer].new = request[r].new
         /\ UNCHANGED exists /\ Settle(request[r].transfer, "yes") /\ Goto(r, "deleteOld")
<1>1. /\ \A i \in PendingRows : i = request[r].transfer
      /\ request[r].node = server.node
      /\ \A i \in PendingRows : request[r].new = transfers[i].new
  BY DEF CommitTransferSuccess, At, TransfersInv, Fits
<1>2. exists
  BY DEF TransfersInv, RowsInv, PendingRows
<1>3. /\ server' = [server EXCEPT !.node = Saved(@, request[r].node, request[r].new)]
      /\ \E i \in PendingRows : IsTransfer(i) /\ Settle(i, "yes")
      /\ Goto(r, "deleteOld")
      /\ UNCHANGED exists
  BY <1>2 DEF CommitTransferSuccess
<1>4. server'.node = request[r].new
  BY <1>1, <1>3 DEF Saved, TypeOK, Server
<1>5. PendingRows = {request[r].transfer}
  BY <1>1
<1>6. PendingRows' = {}
  BY <1>1, <1>3, <1>5, SettlePending
<1> QED
  BY <1>1, <1>3, <1>4, <1>5, <1>6

LEMMA ContinueTransfers ==
  ASSUME TypeOK, TransfersInv, Apart, NEW r \in Slot, Continue(r)
  PROVE  TransfersInv'
<1>1. CASE CommitSuspension(r)
  <2> DEFINE q == [Idle EXCEPT !.step = "sync", !.node = request[r].node]
  <2>1. request' = [request EXCEPT ![r] = q]
    BY <1>1 DEF CommitSuspension
  <2>2. Neutral(q)
    BY DEF Idle, Neutral
  <2> HIDE DEF q
  <2> QED
    BY <1>1, <2>1, <2>2, SaveShrinks, NeutralKeeps DEF CommitSuspension
<1>2. CASE CommitToggleInstall(r) \/ CommitRestored(r)
  BY <1>2, SaveShrinks, EndKeeps DEF CommitToggleInstall, CommitRestored
<1>3. CASE CommitReinstall(r) \/ CommitRestore(r)
  <2>1. PICK job : CommitWithDaemon(r, job)
    BY <1>3 DEF CommitReinstall, CommitRestore
  <2>2. \/ UNCHANGED rows
        \/ SaveStatus(r) /\ UNCHANGED <<exists, transfers>>
    BY <2>1 DEF CommitWithDaemon, rows
  <2> QED
    BY <2>1, <2>2, RowsStayShrinks, SaveShrinks, EndKeeps DEF CommitWithDaemon
<1>4. CASE CommitInstalled(r)
  <2>1. server'.node = server.node /\ UNCHANGED <<exists, transfers>>
    BY <1>4 DEF CommitInstalled, SaveStatus, TypeOK, Server
  <2>2. Shrinks
    BY <2>1 DEF TransfersInv, RowsInv, Shrinks, PendingRows
  <2> QED
    BY <1>4, <2>2, EndKeeps DEF CommitInstalled
<1>5. CASE CommitTransfer(r)
  <2>1. CASE transfers' = transfers
    BY <1>5, <2>1, RowsStayShrinks, EndKeeps DEF CommitTransfer, rows
  <2>2. CASE transfers' # transfers
    <3>1. /\ request'[r] = Idle
          /\ \A s \in Slot \ {r} : request'[s] = request[s]
      BY <1>5 DEF CommitTransfer, End, TypeOK
    <3>2. Fits(request[r])'
      BY <3>1 DEF Fits, Idle
    <3>3. ASSUME NEW s \in Slot \ {r}
          PROVE  Fits(request[s])'
      <4>1. request[s].step \notin {"startTransfer", "transferSuccess"}
        BY <1>5 DEF CommitTransfer, Apart
      <4> QED
        BY <3>1, <4>1 DEF Fits
    <3> QED
      BY <1>5, <2>2, <3>2, <3>3, TransferStep DEF TransfersInv
  <2> QED
    BY <2>1, <2>2
<1>6. CASE CommitCancel(r)
  BY <1>6, SettleShrinks, GotoKeeps DEF CommitCancel, At
<1>7. CASE CommitTransferFailure(r)
  BY <1>7, SettleShrinks, EndKeeps DEF CommitTransferFailure
<1>8. CASE CommitTransferSuccess(r)
  <2>1. CASE PendingRows = {}
    BY <1>8, <2>1, RowsStayShrinks, EndKeeps DEF CommitTransferSuccess, rows
  <2>2. CASE PendingRows # {}
    <3>1. Shrinks
      BY <1>8, <2>2, SuccessStep, SettleShrinks
    <3> QED
      BY <1>8, <2>2, <3>1, SuccessStep, GotoKeeps DEF CommitTransferSuccess, At
  <2> QED
    BY <2>1, <2>2
<1>9. CASE DaemonCreate(r)
  <2> DEFINE q == [request[r] EXCEPT !.step = "delete", !.force = TRUE]
  <2>1. End(r) \/ request' = [request EXCEPT ![r] = q]
    BY <1>9 DEF DaemonCreate
  <2>2. Neutral(q)
    BY <1>9 DEF DaemonCreate, At, TypeOK, Request, TransfersInv, Fits, Neutral
  <2>3. Shrinks
    BY <1>9, RowsStayShrinks DEF DaemonCreate
  <2> HIDE DEF q
  <2> QED
    BY <2>1, <2>2, <2>3, EndKeeps, NeutralKeeps
<1>10. CASE DaemonDelete(r)
  <2>1. Shrinks
    BY <1>10, RowsStayShrinks DEF DaemonDelete
  <2> QED
    BY <1>10, <2>1, EndKeeps, GotoKeeps DEF DaemonDelete
<1>11. CASE DeleteRows(r)
  <2>1. Shrinks
    BY <1>11 DEF DeleteRows, Shrinks, PendingRows
  <2> QED
    BY <1>11, <2>1, EndKeeps DEF DeleteRows
<1>12. CASE Sync(r) \/ CancelCalls(r) \/ DeleteOld(r)
  BY <1>12, RowsStayShrinks, EndKeeps DEF Sync, CancelCalls, DeleteOld
<1> QED
  BY <1>1, <1>2, <1>3, <1>4, <1>5, <1>6, <1>7, <1>8, <1>9, <1>10, <1>11, <1>12
     DEF Continue

\* A daemon that stops or starts may end an installation or a restoration.
LEMMA DaemonTransfers ==
  ASSUME TypeOK, TransfersInv, NEW n \in Node, Daemon(n)
  PROVE  TransfersInv'
<1>1. /\ server'.node = server.node
      /\ UNCHANGED <<exists, transfers, request>>
  BY DEF Daemon, Crash, Boot, ResetStatus, rows, TypeOK, Server
<1> QED
  BY <1>1, RequestsStay

LEMMA TransfersInvariant == Spec /\ []Apart => []TransfersInv
<1>1. Init => TransfersInv
  <2> SUFFICES ASSUME Init PROVE TransfersInv
    OBVIOUS
  <2>1. \A s \in Slot : request[s].step \in {"idle", "create"}
    BY DEF Init, Idle
  <2>2. \A s \in Slot : Fits(request[s])
    BY <2>1 DEF Fits
  <2>3. PendingRows = {} /\ exists
    BY DEF Init, PendingRows
  <2> QED
    BY <2>2, <2>3 DEF TransfersInv, RowsInv, AtMostOneTransfer, TransferFromCurrentNode
<1>2. TypeOK /\ Apart /\ TransfersInv /\ [Next]_vars => TransfersInv'
  <2> SUFFICES ASSUME TypeOK, Apart, TransfersInv, [Next]_vars PROVE TransfersInv'
    OBVIOUS
  <2>1. CASE UNCHANGED vars
    BY <2>1, RequestsStay DEF vars
  <2>2. ASSUME NEW job \in jobs, Backup(job) PROVE TransfersInv'
    BY <2>2, BackupKeeps, RequestsStay
  <2> QED
    BY <2>1, <2>2, BeginTransfers, ContinueTransfers, DaemonTransfers DEF Next
<1> QED
  BY TypeCorrect, <1>1, <1>2, PTL DEF Spec

-----------------------------------------------------------------------------
(* The refinement. *)

\* A step that leaves the node, the existence and the rows of transfers alone.
LEMMA LedgerStutter ==
  ASSUME UNCHANGED <<exists, transfers>>, server'.node = server.node
  PROVE  UNCHANGED Ledger!ledger
BY DEF Ledger!ledger, destination, PendingRows

LEMMA LedgerStep ==
  ASSUME TypeOK, TransfersInv, [Next]_vars
  PROVE  [Ledger!Next]_(Ledger!ledger)
<1> USE DEF Ledger!Next, Ledger!ledger
<1>1. CASE UNCHANGED vars
  BY <1>1, LedgerStutter DEF vars
<1>2. ASSUME NEW r \in Slot, Panel(r) \/ Callback(r)
      PROVE  [Ledger!Next]_(Ledger!ledger)
  BY <1>2, BeginsKeepRows, LedgerStutter DEF rows
<1>3. ASSUME NEW n \in Node, Daemon(n)
      PROVE  [Ledger!Next]_(Ledger!ledger)
  BY <1>3, LedgerStutter DEF Daemon, Crash, Boot, ResetStatus, rows, TypeOK, Server
<1>4. ASSUME NEW r \in Slot, Continue(r)
      PROVE  [Ledger!Next]_(Ledger!ledger)
  <2>q. request[r].new \in Node
    BY DEF TypeOK, Request
  <2>a. ASSUME NEW i, NEW value \in {"yes", "no"}, Settle(i, value),
               UNCHANGED <<exists, server>>
        PROVE  [Ledger!Next]_(Ledger!ledger)
    <3>1. /\ PendingRows' = PendingRows \ {i}
          /\ \A j \in PendingRows' : transfers'[j] = transfers[j]
      BY <2>a, SettlePending
    <3>2. CASE i \in PendingRows
      <4>1. PendingRows = {i} /\ PendingRows' = {}
        BY <3>1, <3>2, OnlyPending DEF TransfersInv, RowsInv
      <4> QED
        BY <2>a, <4>1 DEF Ledger!Abandon, destination
    <3>3. CASE i \notin PendingRows
      <4>1. PendingRows' = PendingRows
        BY <3>1, <3>3
      <4>2. destination' = destination
        BY <3>1, <4>1 DEF destination
      <4> QED
        BY <2>a, <4>2
    <3> QED
      BY <3>2, <3>3
  <2>1. CASE CommitTransfer(r) /\ transfers' # transfers
    <3>1. destination = {} /\ destination' = {request[r].new} /\ exists
      BY <2>1, TransferStep DEF destination
    <3>2. Ledger!Start(request[r].new)
      BY <2>1, <3>1 DEF Ledger!Start, CommitTransfer
    <3> QED
      BY <2>q, <3>2
  <2>2. CASE CommitTransferSuccess(r) /\ PendingRows # {}
    <3>1. /\ destination = {request[r].new} /\ destination' = {}
          /\ server'.node = request[r].new /\ UNCHANGED exists
      BY <2>2, SuccessStep DEF destination
    <3>2. Ledger!Arrive(request[r].new)
      BY <3>1 DEF Ledger!Arrive
    <3> QED
      BY <2>q, <3>2
  <2>3. CASE CommitCancel(r)
    BY <2>3, <2>a DEF CommitCancel
  <2>4. CASE CommitTransferFailure(r)
    BY <2>4, <2>a DEF CommitTransferFailure
  <2>5. CASE DeleteRows(r)
    <3>1. ~exists' /\ destination' = {} /\ UNCHANGED server
      BY <2>5 DEF DeleteRows, destination, PendingRows
    <3>2. CASE exists
      BY <3>1, <3>2 DEF Ledger!Delete
    <3>3. CASE ~exists
      <4>1. destination = {}
        BY <3>3 DEF TransfersInv, RowsInv, destination, PendingRows
      <4> QED
        BY <3>1, <3>3, <4>1
    <3> QED
      BY <3>2, <3>3
  <2>6. CASE UNCHANGED <<exists, transfers>> /\ server'.node = server.node
    BY <2>6, LedgerStutter
  <2>7. \/ CommitTransfer(r) /\ transfers' # transfers
        \/ CommitTransferSuccess(r) /\ PendingRows # {}
        \/ CommitCancel(r) \/ CommitTransferFailure(r)
        \/ DeleteRows(r)
        \/ UNCHANGED <<exists, transfers>> /\ server'.node = server.node
    <3>1. server'.node = server.node \/ CommitTransferSuccess(r)
      BY <1>4, ContinueServer DEF SaveStatus, CommitInstalled, TypeOK, Server
    <3>2. CommitTransferSuccess(r) =>
            PendingRows # {} \/ UNCHANGED <<exists, server, transfers>>
      BY DEF CommitTransferSuccess
    <3> QED
      BY <1>4, <3>1, <3>2
         DEF Continue, CommitSuspension, Sync, CommitReinstall, CommitToggleInstall,
             CommitRestore, CommitWithDaemon, CommitTransfer, CancelCalls, DaemonCreate,
             DaemonDelete, CommitInstalled, CommitRestored, DeleteOld, rows
  <2> QED
    BY <2>1, <2>2, <2>3, <2>4, <2>5, <2>6, <2>7
<1>5. ASSUME NEW job \in jobs, Backup(job)
      PROVE  [Ledger!Next]_(Ledger!ledger)
  BY <1>5, BackupKeeps, LedgerStutter
<1> QED
  BY <1>1, <1>2, <1>3, <1>4, <1>5 DEF Next

\* However requests overlap, as long as nothing overlaps with the start of a
\* transfer it depends on, the server moves as the ledger promises: one
\* destination at a time, and never a move anywhere else.
THEOREM TransfersImplementLedger == Spec /\ []Apart => ImplementsLedger
<1>1. Init => Ledger!Init
  BY DEF Init, Ledger!Init, destination, PendingRows
<1>2. TypeOK /\ TransfersInv /\ [Next]_vars => [Ledger!Next]_(Ledger!ledger)
  BY LedgerStep
<1> QED
  BY TypeCorrect, TransfersInvariant, <1>1, <1>2, PTL DEF Spec, ImplementsLedger, Ledger!Spec
=============================================================================
