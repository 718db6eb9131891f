---------------------------- MODULE Allocations ----------------------------
(***************************************************************************)
(* The allocations (an address and a port of a node), the servers that own *)
(* them, and the server's primary one.  `allocations.server_id` is the     *)
(* owner, `servers.allocation_id` the primary allocation: two columns that *)
(* no constraint of the database ties together.                            *)
(*                                                                         *)
(* A request loads its server and checks it, and commits later what it     *)
(* decided then; Slot is the requests at the same time.  The reports that  *)
(* end a transfer, a cancellation and a deletion are one step here (their  *)
(* interleavings are in ServerLifecycle).  Allocations of a node differ in *)
(* their port only, and one the panel makes on demand is a free one.       *)
(***************************************************************************)
EXTENDS FiniteSets, Naturals

CONSTANTS
  Server,       \* servers, each created at most once
  Allocation,
  Node,
  NodeOf,       \* the node of each allocation
  None,         \* no server
  Slot,         \* requests at the same time
  Limit,        \* allocation_limit of every server
  Forms,        \* administrators choose among what the panel's forms offer
  AnyTime       \* administrators change servers that are being transferred

ASSUME NodeOfAssumption == Allocation # {} /\ NodeOf \in [Allocation -> Node]
ASSUME NoneAssumption == None \notin Server
ASSUME LimitAssumption == Limit \in Nat
ASSUME SwitchesAssumption == {Forms, AnyTime} \subseteq BOOLEAN

VARIABLES
  server,     \* the rows of the servers
  owner,      \* server_id of each allocation, or None
  transfer,   \* the pending transfer of each server
  left,       \* on other nodes: reserved for transfers that were cancelled
  request     \* what each request is doing

vars == <<server, owner, transfer, left, request>>

Row == [phase : {"unborn", "live", "gone"}, node : Node, primary : Allocation]

Transfer ==
  [pending : BOOLEAN, node : Node, primary : Allocation,
   old : SUBSET Allocation, new : SUBSET Allocation]

\* A request with the row of its server as it was loaded.
Request ==
  [op : {"create", "call", "store", "delete", "primary", "build", "transfer"},
   server : Server, loaded : Row,
   choice : Allocation,          \* the primary allocation asked for
   add : SUBSET Allocation, remove : SUBSET Allocation]

AnyAllocation == CHOOSE a \in Allocation : TRUE

Absent(phase) ==
  [phase |-> phase, node |-> NodeOf[AnyAllocation], primary |-> AnyAllocation]

NoTransfer ==
  [pending |-> FALSE, node |-> NodeOf[AnyAllocation], primary |-> AnyAllocation,
   old |-> {}, new |-> {}]

Idle == [op |-> "idle"]

TypeOK ==
  /\ server \in [Server -> Row]
  /\ owner \in [Allocation -> Server \cup {None}]
  /\ transfer \in [Server -> Transfer]
  /\ left \in [Server -> SUBSET Allocation]
  /\ request \in [Slot -> Request \cup {Idle}]

-----------------------------------------------------------------------------

Live(s) == server[s].phase = "live"
Owned(s) == {a \in Allocation : owner[a] = s}
Free == {a \in Allocation : owner[a] = None}
On(n) == {a \in Allocation : NodeOf[a] = n}

Assign(o, A, s) == [a \in Allocation |-> IF a \in A THEN s ELSE o[a]]
Release(o, A) == Assign(o, A, None)

\* The unique index of servers.allocation_id.
IsPrimaryOf(a, S) == \E s \in S : Live(s) /\ server[s].primary = a

Accept(r, op, s, choice, add, remove) ==
  /\ request[r].op = "idle"
  /\ request' = [request EXCEPT ![r] =
                   [op |-> op, server |-> s, loaded |-> server[s],
                    choice |-> choice, add |-> add, remove |-> remove]]
  /\ UNCHANGED <<server, owner, transfer, left>>

End(r) == request' = [request EXCEPT ![r] = Idle]

\* Users may change servers that are not in a conflict state.
\* (AuthenticateServerAccess.)
Accessible(s) == Live(s) /\ ~transfer[s].pending

\* Administrators may at any time.
Editable(s) == Live(s) /\ (AnyTime \/ ~transfer[s].pending)

-----------------------------------------------------------------------------
(* ServerCreationService.                                                    *)

\* StoreServerRequest: the allocations are free; the node is that of the
\* primary one.
BeginCreate(r, s, a, others) ==
  /\ server[s].phase = "unborn"
  /\ {a} \cup others \subseteq Free
  /\ Forms => others \subseteq On(NodeOf[a])
  /\ Accept(r, "create", s, a, others, {})

\* createModel and storeAssignedAllocations.
CommitCreate(r) ==
  LET s == request[r].server
      a == request[r].choice
  IN /\ request[r].op = "create"
     /\ server[s].phase = "unborn" /\ ~IsPrimaryOf(a, Server)
     /\ server' = [server EXCEPT ![s] = [phase |-> "live", node |-> NodeOf[a], primary |-> a]]
     /\ owner' = Assign(owner, {a} \cup request[r].add, s)
     /\ request' = [request EXCEPT ![r].op = "call"]
     /\ UNCHANGED <<transfer, left>>

\* Mutant: the row stays, without a primary allocation.
RemoveNulled(s) ==
  /\ Live(s)
  /\ server' = [server EXCEPT ![s] = [Absent("gone") EXCEPT !.primary = None]]
  /\ owner' = Release(owner, Owned(s))
  /\ transfer' = [transfer EXCEPT ![s] = NoTransfer]
  /\ left' = [left EXCEPT ![s] = {}]

\* ServerDeletionService::handle.
Remove(s) ==
  /\ Live(s)
  /\ server' = [server EXCEPT ![s] = Absent("gone")]
  /\ owner' = Release(owner, Owned(s))
  /\ transfer' = [transfer EXCEPT ![s] = NoTransfer]
  /\ left' = [left EXCEPT ![s] = {}]

DeleteServer(s) == Remove(s) /\ UNCHANGED request

\* The daemon cannot be reached: the new server is deleted again.
CreateOnDaemon(r) ==
  /\ request[r].op = "call"
  /\ End(r)
  /\ \/ UNCHANGED <<server, owner, transfer, left>>
     \/ Remove(request[r].server)

-----------------------------------------------------------------------------
(* NetworkAllocationController.                                              *)

\* The limit is checked, and FindAssignableAllocationService finds a free one.
BeginStore(r, s, a) ==
  /\ Accessible(s)
  /\ Cardinality(Owned(s)) < Limit
  /\ a \in Free \cap On(server[s].node)
  /\ Accept(r, "store", s, a, {}, {})

CommitStore(r) ==
  LET s == request[r].server
  IN /\ request[r].op = "store"
     /\ Live(s)
     /\ owner' = Assign(owner, {request[r].choice}, s)
     /\ End(r)
     /\ UNCHANGED <<server, transfer, left>>

\* Mutant: the primary allocation is not asked for.
BeginDeleteAny(r, s, a) ==
  /\ Accessible(s)
  /\ owner[a] = s
  /\ Limit > 0
  /\ Accept(r, "delete", s, a, {}, {})

BeginDelete(r, s, a) ==
  /\ Accessible(s)
  /\ owner[a] = s
  /\ Limit > 0 /\ a # server[s].primary
  /\ Accept(r, "delete", s, a, {}, {})

CommitDelete(r) ==
  /\ request[r].op = "delete"
  /\ owner' = Release(owner, {request[r].choice})
  /\ End(r)
  /\ UNCHANGED <<server, transfer, left>>

\* The primary allocation of s becomes a, which differs from the one that was
\* loaded; the row may be gone.
SetPrimary(s, a) ==
  IF Live(s)
  THEN /\ ~IsPrimaryOf(a, Server \ {s})
       /\ server' = [server EXCEPT ![s].primary = a]
  ELSE UNCHANGED server

BeginPrimary(r, s, a) ==
  /\ Accessible(s)
  /\ owner[a] = s /\ a # server[s].primary
  /\ Accept(r, "primary", s, a, {}, {})

CommitPrimary(r) ==
  /\ request[r].op = "primary"
  /\ SetPrimary(request[r].server, request[r].choice)
  /\ End(r)
  /\ UNCHANGED <<owner, transfer, left>>

-----------------------------------------------------------------------------
(* BuildModificationService.                                                 *)

\* UpdateServerBuildConfigurationRequest: no other server has the primary
\* allocation asked for.
BeginBuild(r, s, a, add, remove) ==
  /\ Editable(s)
  /\ ~IsPrimaryOf(a, Server \ {s})
  /\ Accept(r, "build", s, a, add, remove)

Addable(r) == request[r].add \cap On(request[r].loaded.node) \cap Free

\* processAllocations, and the new primary allocation: the one asked for, or,
\* if that is to be removed, one that was just added.
CommitBuild(r) ==
  LET s == request[r].server
      fresh == Addable(r)
      added == Assign(owner, fresh, s)
      drop == {a \in request[r].remove \ request[r].add :
                 added[a] = s /\ NodeOf[a] = request[r].loaded.node}
  IN /\ request[r].op = "build"
     /\ Live(s)
     /\ owner' = Release(added, drop)
     /\ \E a \in IF request[r].choice \in request[r].remove THEN fresh
                 ELSE {request[r].choice} :
          IF a = request[r].loaded.primary
          THEN UNCHANGED server
          ELSE owner'[a] = s /\ SetPrimary(s, a)
     /\ End(r)
     /\ UNCHANGED <<transfer, left>>

-----------------------------------------------------------------------------
(* TransferServerService, ServerTransferController, and                      *)
(* ServerManagementController::cancelTransfer.                               *)

\* The request validates that no server has the primary allocation already.
\* The node of `loaded` is the one asked for.
BeginTransfer(r, s, n, a, others) ==
  /\ Live(s) /\ ~transfer[s].pending
  /\ ~IsPrimaryOf(a, Server)
  /\ Forms => n # server[s].node /\ {a} \cup others \subseteq Free \cap On(n)
  /\ request[r].op = "idle"
  /\ request' = [request EXCEPT ![r] =
                   [op |-> "transfer", server |-> s,
                    loaded |-> [server[s] EXCEPT !.node = n],
                    choice |-> a, add |-> others, remove |-> {}]]
  /\ UNCHANGED <<server, owner, transfer, left>>

\* Those that are not free are passed over in silence.
CommitTransfer(r) ==
  LET s == request[r].server
      n == request[r].loaded.node
      new == {request[r].choice} \cup request[r].add
  IN /\ request[r].op = "transfer"
     /\ Live(s)
     /\ transfer' = [transfer EXCEPT ![s] =
                       [pending |-> TRUE, node |-> n, primary |-> request[r].choice,
                        old |-> Owned(s) \cup {request[r].loaded.primary}, new |-> new]]
     /\ owner' = Assign(owner, new \cap Free \cap On(n), s)
     /\ End(r)
     /\ UNCHANGED <<server, left>>

Succeed(s) ==
  /\ Live(s) /\ transfer[s].pending
  /\ ~IsPrimaryOf(transfer[s].primary, Server \ {s})
  /\ owner' = Release(owner, transfer[s].old)
  /\ server' = [server EXCEPT ![s].node = transfer[s].node, ![s].primary = transfer[s].primary]
  /\ transfer' = [transfer EXCEPT ![s] = NoTransfer]
  /\ left' = [left EXCEPT ![s] = {}]
  /\ UNCHANGED request

\* Mutant: the failure is recorded, and nothing released.
FailKept(s) ==
  /\ Live(s) /\ transfer[s].pending
  /\ transfer' = [transfer EXCEPT ![s] = NoTransfer]
  /\ UNCHANGED <<server, owner, left, request>>

Fail(s) ==
  /\ Live(s) /\ transfer[s].pending
  /\ owner' = Release(owner, transfer[s].new)
  /\ transfer' = [transfer EXCEPT ![s] = NoTransfer]
  /\ UNCHANGED <<server, left, request>>

\* The reserved allocations stay with the server.
Cancel(s) ==
  /\ Live(s) /\ transfer[s].pending
  /\ transfer' = [transfer EXCEPT ![s] = NoTransfer]
  /\ left' = [left EXCEPT ![s] = @ \cup transfer[s].new]
  /\ UNCHANGED <<server, owner, request>>

-----------------------------------------------------------------------------

\* A request ends in an error.
Refuse(r) ==
  /\ request[r].op \notin {"idle", "call"}
  /\ End(r)
  /\ UNCHANGED <<server, owner, transfer, left>>

Init ==
  /\ server = [s \in Server |-> Absent("unborn")]
  /\ owner = [a \in Allocation |-> None]
  /\ transfer = [s \in Server |-> NoTransfer]
  /\ left = [s \in Server |-> {}]
  /\ request = [r \in Slot |-> Idle]

\* A request names at most one allocation in each of its lists.
AtMostOne == {{}} \cup {{a} : a \in Allocation}

Begin(r, s, a) ==
  \/ BeginStore(r, s, a)
  \/ BeginDelete(r, s, a)
  \/ BeginPrimary(r, s, a)
  \/ \E others \in AtMostOne :
       \/ BeginCreate(r, s, a, others)
       \/ \E remove \in AtMostOne : BeginBuild(r, s, a, others, remove)
       \/ \E n \in Node : BeginTransfer(r, s, n, a, others)

Commit(r) ==
  \/ CommitCreate(r)
  \/ CreateOnDaemon(r)
  \/ CommitStore(r)
  \/ CommitDelete(r)
  \/ CommitPrimary(r)
  \/ CommitBuild(r)
  \/ CommitTransfer(r)
  \/ Refuse(r)

Next ==
  \/ \E r \in Slot : Commit(r) \/ \E s \in Server, a \in Allocation : Begin(r, s, a)
  \/ \E s \in Server : Succeed(s) \/ Fail(s) \/ Cancel(s) \/ DeleteServer(s)

Spec == Init /\ [][Next]_vars

-----------------------------------------------------------------------------
(* Which requests must not overlap: nothing in the code keeps them apart.    *)

\* The request is to commit what it decided when it began.
InFlight(q) == q.op \notin {"idle", "call"}

\* The allocations a request has decided about, and those it will write without
\* asking whose they are by then.
Uses(q) == {q.choice} \cup q.add
Writes(q) == IF q.op \in {"create", "store", "delete", "transfer"} THEN Uses(q) ELSE {}

\* What the ownership depends on.
RequestsApart ==
  \A r, t \in Slot :
    r # t /\ InFlight(request[r]) /\ InFlight(request[t]) =>
      /\ Writes(request[r]) \cap Uses(request[t]) = {}
      /\ request[r].server = request[t].server =>
           /\ request[r].op # "transfer"
           /\ request[r].op = "build" => request[t].op \notin {"build", "primary"}

-----------------------------------------------------------------------------
(* Properties.                                                               *)

\* The primary allocation of a server belongs to it: nobody else is given the
\* port it listens on.  (BuildModificationService and ServerTransferController
\* write the two columns one after the other.)
PrimaryOwned == \A s \in Server : Live(s) => owner[server[s].primary] = s

\* A server owns allocations of its own node, of the node it is being
\* transferred to, and those that cancelled transfers left to it; one that is
\* gone owns none.  (TransferServerService, ServerTransferController,
\* ServerDeletionService.)
OnNode ==
  \A a \in Allocation, s \in Server :
    owner[a] = s =>
      /\ Live(s)
      /\ \/ NodeOf[a] = server[s].node
         \/ transfer[s].pending /\ a \in transfer[s].new
         \/ a \in left[s]
=============================================================================
