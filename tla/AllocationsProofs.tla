------------------------- MODULE AllocationsProofs -------------------------
(***************************************************************************)
(* What holds of Allocations for any servers, allocations, nodes and       *)
(* requests at the same time, as long as requests that decided about the   *)
(* same things do not overlap (RequestsApart), administrators choose what  *)
(* the forms offer, and none changes a server that is being transferred.   *)
(***************************************************************************)
EXTENDS Allocations, TLAPS

-----------------------------------------------------------------------------
(* The invariant: of every server, what PrimaryOwned and OnNode say of it     *)
(* and what a pending transfer has reserved; and of each request in flight,   *)
(* that what was decided when it began still holds when it commits.           *)

Reserved(s) ==
  transfer[s].pending =>
    /\ Live(s)
    /\ Owned(s) = transfer[s].old \cup transfer[s].new
    /\ transfer[s].old \cap transfer[s].new = {}
    /\ server[s].primary \in transfer[s].old
    /\ transfer[s].primary \in transfer[s].new
    /\ transfer[s].new \subseteq On(transfer[s].node)

HasPrimary(s) == Live(s) => owner[server[s].primary] = s

InPlace(s, a) ==
  /\ Live(s)
  /\ \/ NodeOf[a] = server[s].node
     \/ transfer[s].pending /\ a \in transfer[s].new
     \/ a \in left[s]

Good(s) ==
  /\ HasPrimary(s)
  /\ \A a \in Owned(s) : InPlace(s, a)
  /\ Reserved(s)

Holds(q) ==
  /\ q.op = "create" =>
       /\ Uses(q) \subseteq Free
       /\ q.add \subseteq On(NodeOf[q.choice])
  /\ q.op \in {"store", "delete", "primary", "build", "transfer"} =>
       server[q.server].phase # "unborn" /\ ~transfer[q.server].pending
  /\ q.op = "store" =>
       /\ q.choice \in Free
       /\ Live(q.server) => NodeOf[q.choice] = server[q.server].node
  /\ q.op = "delete" =>
       /\ owner[q.choice] \in {q.server, None}
       /\ Live(q.server) => q.choice # server[q.server].primary
  /\ q.op = "primary" /\ Live(q.server) => owner[q.choice] = q.server
  /\ q.op = "build" /\ Live(q.server) => server[q.server] = q.loaded
  /\ q.op = "transfer" =>
       /\ Uses(q) \subseteq Free \cap On(q.loaded.node)
       /\ Live(q.server) => server[q.server].primary = q.loaded.primary

Decided(r) == Holds(request[r])

AllocationsInv ==
  /\ TypeOK
  /\ \A s \in Server : Good(s)
  /\ \A r \in Slot : Decided(r)

-----------------------------------------------------------------------------
(* Frames.                                                                   *)

\* Only server s changes.
Others(s) ==
  \A t \in Server \ {s} :
    /\ server'[t] = server[t] /\ transfer'[t] = transfer[t] /\ left'[t] = left[t]
    /\ Owned(t)' = Owned(t)

LEMMA OthersGood ==
  ASSUME TypeOK, NEW s \in Server, Others(s), \A t \in Server : Good(t), Good(s)'
  PROVE  \A t \in Server : Good(t)'
<1> SUFFICES ASSUME NEW t \in Server \ {s} PROVE Good(t)'
  OBVIOUS
<1>1. /\ server'[t] = server[t] /\ transfer'[t] = transfer[t] /\ left'[t] = left[t]
      /\ Owned(t)' = Owned(t) /\ (Live(t)' <=> Live(t))
  BY DEF Others, Live
<1>2. Reserved(t)'
  BY <1>1 DEF Good, Reserved
<1>3. \A a \in Owned(t)' : InPlace(t, a)'
  BY <1>1 DEF Good, InPlace
<1>4. HasPrimary(t)'
  <2>1. ASSUME Live(t)
        PROVE  owner'[server[t].primary] = t
    <3>1. server[t].primary \in Allocation
      BY DEF TypeOK, Row
    <3> QED
      BY <1>1, <2>1, <3>1 DEF Good, HasPrimary, Owned
  <2> QED
    BY <1>1, <2>1 DEF HasPrimary
<1> QED
  BY <1>2, <1>3, <1>4 DEF Good

LEMMA RequestType ==
  ASSUME TypeOK, NEW r \in Slot, request[r].op # "idle"
  PROVE  /\ request[r] \in Request
         /\ request[r].server \in Server /\ request[r].loaded \in Row
         /\ request[r].choice \in Allocation
         /\ request[r].add \in SUBSET Allocation /\ request[r].remove \in SUBSET Allocation
BY DEF TypeOK, Request, Idle

\* A request is over, or has nothing more to decide.
LEMMA EndRequest ==
  ASSUME TypeOK, NEW r \in Slot, End(r)
  PROVE  /\ request' \in [Slot -> Request \cup {Idle}]
         /\ Decided(r)'
         /\ \A t \in Slot \ {r} : request'[t] = request[t]
<1>1. request'[r] = Idle /\ request' \in [Slot -> Request \cup {Idle}]
      /\ \A t \in Slot \ {r} : request'[t] = request[t]
  BY DEF End, TypeOK
<1> QED
  BY <1>1 DEF Decided, Holds, Idle

\* A request begins.
LEMMA BeginGood ==
  ASSUME AllocationsInv, NEW r \in Slot, NEW x \in Request, Holds(x),
         request' = [request EXCEPT ![r] = x], UNCHANGED <<server, owner, transfer, left>>
  PROVE  AllocationsInv'
<1>1. TypeOK'
  BY DEF AllocationsInv, TypeOK
<1>2. \A s \in Server : Good(s)'
  BY DEF AllocationsInv, Good, HasPrimary, InPlace, Reserved, Live, Owned, On
<1>3. ASSUME NEW q, Holds(q)
      PROVE  Holds(q)'
  BY <1>3 DEF Holds, Live, Free, On
<1>4. \A t \in Slot : request'[t] = x \/ request'[t] = request[t]
  BY DEF AllocationsInv, TypeOK
<1>5. \A t \in Slot : Decided(t)'
  BY <1>3, <1>4 DEF AllocationsInv, Decided
<1> QED
  BY <1>1, <1>2, <1>5 DEF AllocationsInv

\* While a request is in flight, another server changes, or this one is deleted.
LEMMA MeanwhileHolds ==
  ASSUME AllocationsInv, NEW s \in Server, NEW r \in Slot, request'[r] = request[r],
         Others(s), server' \in [Server -> Row], owner' \in [Allocation -> Server \cup {None}],
         server'[s].phase # "unborn", ~transfer[s].pending => ~Live(s)',
         ~transfer'[s].pending,
         \A a \in Allocation : owner'[a] \in {owner[a], None}
  PROVE  Decided(r)'
<1> DEFINE q == request[r]
<1>1. Holds(q) /\ request'[r] = q
  BY DEF AllocationsInv, Decided
<1>2. CASE q.op = "idle"
  BY <1>1, <1>2 DEF Decided, Holds
<1>3. CASE q.op # "idle"
  <2>1. q.server \in Server /\ q.choice \in Allocation /\ q.add \in SUBSET Allocation
    BY <1>3, RequestType DEF AllocationsInv
  <2>2. Free \subseteq Free'
    BY DEF Free
  <2>3. CASE q.server = s
    <3>1. q.op \notin {"create", "call"} => ~transfer[s].pending
      BY <1>1, <1>3, <2>3, RequestType DEF Holds, Request, AllocationsInv
    <3>2. q.op \notin {"create", "call"} => ~Live(s)'
      BY <3>1
    <3> QED
      BY <1>1, <2>1, <2>2, <2>3, <3>2 DEF Decided, Holds, On, Uses
  <2>4. CASE q.server # s
    <3>1. /\ server'[q.server] = server[q.server] /\ transfer'[q.server] = transfer[q.server]
          /\ Owned(q.server)' = Owned(q.server) /\ (Live(q.server)' <=> Live(q.server))
      BY <2>1, <2>4 DEF Others, Live
    <3>2. owner[q.choice] = q.server => owner'[q.choice] = q.server
      BY <2>1, <3>1 DEF Owned
    <3>3. owner[q.choice] = None => owner'[q.choice] = None
      BY <2>1
    <3> QED
      BY <1>1, <2>1, <2>2, <3>1, <3>2, <3>3 DEF Decided, Holds, On, Uses
  <2> QED
    BY <2>3, <2>4
<1> QED
  BY <1>2, <1>3

\* While a request is in flight, another one that is apart from it commits.
LEMMA CommitHolds ==
  ASSUME AllocationsInv, RequestsApart, NEW r \in Slot, InFlight(request[r]),
         NEW t \in Slot \ {r}, request'[t] = request[t],
         NEW s \in Server, s = request[r].server, Others(s),
         server'[s].phase # "unborn",
         request[r].op = "create" => server[s].phase = "unborn",
         request[r].op \notin {"create", "transfer"} =>
           /\ transfer'[s] = transfer[s]
           /\ Live(s)' <=> Live(s)
           /\ server'[s].node = server[s].node
           /\ server'[s].primary \in {server[s].primary} \cup Uses(request[r]),
         request[r].op \in {"store", "delete"} => server'[s] = server[s],
         \A a \in Allocation :
           \/ owner'[a] = owner[a]
           \/ owner[a] = None /\ owner'[a] = s /\ a \in Uses(request[r])
           \/ /\ owner'[a] = None
              /\ a \in Writes(request[r]) \/ request[r].op = "build"
  PROVE  Decided(t)'
<1> PICK q : q = request[t]
  OBVIOUS
<1> PICK p : p = request[r]
  OBVIOUS
<1>1. Holds(q) /\ request'[t] = q
  BY DEF AllocationsInv, Decided
<1>2. CASE ~InFlight(q)
  BY <1>1, <1>2 DEF Decided, Holds, InFlight
<1>3. CASE InFlight(q)
  <2>1. /\ q.server \in Server /\ q.choice \in Allocation /\ q.add \in SUBSET Allocation
        /\ q.op \in {"create", "store", "delete", "primary", "build", "transfer"}
        /\ p.op \in {"create", "store", "delete", "primary", "build", "transfer"}
    BY <1>3, RequestType DEF AllocationsInv, InFlight, Request
  <2>2. Writes(p) \cap Uses(q) = {} /\ Writes(q) \cap Uses(p) = {}
    BY <1>3 DEF RequestsApart
  <2>3. q.server = s =>
          /\ p.op # "transfer" /\ q.op # "transfer"
          /\ p.op = "build" => q.op \notin {"build", "primary"}
          /\ q.op = "build" => p.op \notin {"build", "primary"}
    BY <1>3 DEF RequestsApart
  <2>4. ASSUME NEW a \in Writes(q), a \in Free
        PROVE  a \in Free'
    <3>1. a \in Allocation /\ owner[a] = None /\ a \notin Uses(p)
      BY <2>2, <2>4 DEF Free
    <3> QED
      BY <3>1 DEF Free
  <2>5. CASE q.op = "create"
    BY <1>1, <2>4, <2>5 DEF Decided, Holds, Writes, On
  <2>6. CASE q.op # "create"
    <3>1. server[q.server].phase # "unborn" /\ ~transfer[q.server].pending
      BY <1>1, <2>1, <2>6 DEF Holds
    <3>2. /\ server'[q.server].phase # "unborn" /\ ~transfer'[q.server].pending
          /\ Live(q.server)' <=> Live(q.server)
          /\ server'[q.server].node = server[q.server].node
          /\ server'[q.server].primary \in {server[q.server].primary} \cup Uses(p)
      BY <2>1, <2>3, <3>1 DEF Others, Live
    <3>3. CASE q.op = "store"
      BY <1>1, <2>4, <3>2, <3>3 DEF Decided, Holds, Writes, Uses
    <3>4. CASE q.op = "delete"
      <4>1. q.choice \notin Uses(p)
        BY <2>2, <3>4 DEF Writes, Uses
      <4> QED
        BY <1>1, <2>1, <3>2, <3>4, <4>1 DEF Decided, Holds
    <3>5. CASE q.op = "primary"
      <4>1. ASSUME owner[q.choice] = q.server
            PROVE  owner'[q.choice] = q.server
        <5>1. CASE q.server = s
          <6>1. q.choice \notin Writes(p) /\ p.op # "build"
            BY <2>2, <2>3, <3>5, <5>1 DEF Uses
          <6> QED
            BY <2>1, <4>1, <6>1, NoneAssumption
        <5>2. CASE q.server # s
          BY <2>1, <4>1, <5>2 DEF Others, Owned
        <5> QED
          BY <5>1, <5>2
      <4> QED
        BY <1>1, <3>2, <3>5, <4>1 DEF Decided, Holds
    <3>6. CASE q.op = "build"
      <4>1. server'[q.server] = server[q.server]
        BY <2>1, <2>3, <3>1, <3>6 DEF Others
      <4> QED
        BY <1>1, <3>2, <3>6, <4>1 DEF Decided, Holds
    <3>7. CASE q.op = "transfer"
      <4>1. server'[q.server] = server[q.server]
        BY <2>1, <2>3, <3>7 DEF Others
      <4>2. Uses(q) \subseteq Free' /\ Uses(q) \subseteq On(q.loaded.node)
        BY <1>1, <2>4, <3>7 DEF Holds, Writes
      <4> QED
        BY <1>1, <3>2, <3>7, <4>1, <4>2 DEF Decided, Holds, On
    <3> QED
      BY <2>1, <2>6, <3>3, <3>4, <3>5, <3>6, <3>7
  <2> QED
    BY <2>5, <2>6
<1> QED
  BY <1>2, <1>3

-----------------------------------------------------------------------------
(* What changes hands.                                                       *)

LEMMA AssignOf ==
  ASSUME TypeOK, NEW A \in SUBSET Allocation, NEW s \in Server \cup {None},
         owner' = Assign(owner, A, s)
  PROVE  /\ owner' \in [Allocation -> Server \cup {None}]
         /\ \A a \in A : owner'[a] = s
         /\ \A a \in Allocation \ A : owner'[a] = owner[a]
BY DEF Assign, TypeOK

\* Free allocations are given to a server.
LEMMA GiveOf ==
  ASSUME TypeOK, NEW A \in SUBSET Allocation, A \subseteq Free, NEW s \in Server,
         owner' = Assign(owner, A, s)
  PROVE  /\ owner' \in [Allocation -> Server \cup {None}]
         /\ Owned(s)' = Owned(s) \cup A
         /\ \A t \in Server \ {s} : Owned(t)' = Owned(t)
<1>1. /\ owner' \in [Allocation -> Server \cup {None}]
      /\ \A a \in A : owner'[a] = s
      /\ \A a \in Allocation \ A : owner'[a] = owner[a]
  BY AssignOf
<1>2. \A a \in A : owner[a] = None
  BY DEF Free
<1> QED
  BY <1>1, <1>2, NoneAssumption DEF Owned

\* Allocations of a server are released.
LEMMA ReleaseOf ==
  ASSUME TypeOK, NEW s \in Server, NEW A \in SUBSET Allocation,
         \A a \in A : owner[a] \in {s, None}, owner' = Release(owner, A)
  PROVE  /\ owner' \in [Allocation -> Server \cup {None}]
         /\ Owned(s)' = Owned(s) \ A
         /\ \A t \in Server \ {s} : Owned(t)' = Owned(t)
         /\ \A a \in Allocation : owner'[a] \in {owner[a], None}
<1>1. /\ owner' \in [Allocation -> Server \cup {None}]
      /\ \A a \in A : owner'[a] = None
      /\ \A a \in Allocation \ A : owner'[a] = owner[a]
  BY AssignOf DEF Release
<1> QED
  BY <1>1, NoneAssumption DEF Owned

LEMMA AbsentType ==
  ASSUME NEW phase \in {"unborn", "live", "gone"}
  PROVE  /\ Absent(phase) \in Row /\ Absent(phase).phase = phase
         /\ NoTransfer \in Transfer /\ ~NoTransfer.pending
BY NodeOfAssumption DEF Absent, Row, NoTransfer, Transfer, AnyAllocation

-----------------------------------------------------------------------------
(* Types, which need none of these conditions.                               *)

LEMMA EndType ==
  ASSUME TypeOK, NEW r \in Slot, End(r)
  PROVE  request' \in [Slot -> Request \cup {Idle}]
BY DEF TypeOK, End

LEMMA RemoveType ==
  ASSUME TypeOK, NEW s \in Server, Remove(s)
  PROVE  /\ server' \in [Server -> Row] /\ owner' \in [Allocation -> Server \cup {None}]
         /\ transfer' \in [Server -> Transfer] /\ left' \in [Server -> SUBSET Allocation]
<1>1. PICK A \in SUBSET Allocation : owner' = Assign(owner, A, None)
  BY DEF Remove, Release, Owned
<1> QED
  BY <1>1, AssignOf, AbsentType DEF TypeOK, Remove

LEMMA SetPrimaryType ==
  ASSUME TypeOK, NEW s \in Server, NEW a \in Allocation, SetPrimary(s, a)
  PROVE  server' \in [Server -> Row]
BY DEF TypeOK, SetPrimary, Row

LEMMA CommitType ==
  ASSUME TypeOK, NEW r \in Slot, Commit(r)
  PROVE  TypeOK'
<1>1. CASE CommitCreate(r)
  <2>1. PICK s \in Server, a \in Allocation, A \in SUBSET Allocation :
          /\ server' = [server EXCEPT ![s] =
                          [phase |-> "live", node |-> NodeOf[a], primary |-> a]]
          /\ owner' = Assign(owner, A, s)
    BY <1>1, RequestType DEF CommitCreate
  <2>2. server' \in [Server -> Row]
    BY <2>1, NodeOfAssumption DEF TypeOK, Row
  <2>3. request' \in [Slot -> Request \cup {Idle}]
    <3>1. [request[r] EXCEPT !.op = "call"] \in Request
      BY <1>1, RequestType DEF CommitCreate, Request
    <3>2. request' = [request EXCEPT ![r] = [request[r] EXCEPT !.op = "call"]]
      BY <1>1 DEF CommitCreate
    <3> QED
      BY <3>1, <3>2 DEF TypeOK
  <2> QED
    BY <1>1, <2>1, <2>2, <2>3, AssignOf DEF TypeOK, CommitCreate
<1>2. CASE CreateOnDaemon(r)
  <2>1. request[r].server \in Server
    BY <1>2, RequestType DEF CreateOnDaemon
  <2> QED
    BY <1>2, <2>1, EndType, RemoveType DEF TypeOK, CreateOnDaemon
<1>3. CASE CommitStore(r)
  <2>1. PICK s \in Server, A \in SUBSET Allocation : owner' = Assign(owner, A, s)
    BY <1>3, RequestType DEF CommitStore
  <2> QED
    BY <1>3, <2>1, AssignOf, EndType DEF TypeOK, CommitStore
<1>4. CASE CommitDelete(r)
  <2>1. PICK A \in SUBSET Allocation : owner' = Assign(owner, A, None)
    BY <1>4, RequestType DEF CommitDelete, Release
  <2> QED
    BY <1>4, <2>1, AssignOf, EndType DEF TypeOK, CommitDelete
<1>5. CASE CommitPrimary(r)
  <2>1. request[r].server \in Server /\ request[r].choice \in Allocation
    BY <1>5, RequestType DEF CommitPrimary
  <2> QED
    BY <1>5, <2>1, SetPrimaryType, EndType DEF TypeOK, CommitPrimary
<1>6. CASE CommitBuild(r)
  <2>1. /\ request[r].server \in Server /\ request[r].choice \in Allocation
        /\ request[r].add \in SUBSET Allocation
    BY <1>6, RequestType DEF CommitBuild
  <2>2. PICK added : /\ added = Assign(owner, Addable(r), request[r].server)
                     /\ \E A \in SUBSET Allocation : owner' = Release(added, A)
    <3> DEFINE a == Assign(owner, Addable(r), request[r].server)
               d == {x \in request[r].remove \ request[r].add :
                       a[x] = request[r].server /\ NodeOf[x] = request[r].loaded.node}
    <3>1. d \in SUBSET Allocation
      BY <1>6, RequestType DEF CommitBuild
    <3>2. owner' = Release(a, d)
      BY <1>6 DEF CommitBuild
    <3> QED
      BY <3>1, <3>2
  <2>3. added \in [Allocation -> Server \cup {None}]
    BY <2>1, <2>2 DEF Assign, TypeOK
  <2>4. owner' \in [Allocation -> Server \cup {None}]
    BY <2>2, <2>3 DEF Release, Assign
  <2>5. server' \in [Server -> Row]
    <3>1. PICK a \in Allocation : UNCHANGED server \/ SetPrimary(request[r].server, a)
      BY <1>6, <2>1 DEF CommitBuild, Addable, Free
    <3> QED
      BY <2>1, <3>1, SetPrimaryType DEF TypeOK
  <2> QED
    BY <1>6, <2>4, <2>5, EndType DEF TypeOK, CommitBuild
<1>7. CASE CommitTransfer(r)
  <2>1. /\ request[r].server \in Server /\ request[r].choice \in Allocation
        /\ request[r].add \in SUBSET Allocation /\ request[r].loaded \in Row
    BY <1>7, RequestType DEF CommitTransfer
  <2>2. PICK A \in SUBSET Allocation : owner' = Assign(owner, A, request[r].server)
    BY <1>7, <2>1 DEF CommitTransfer
  <2>3. transfer' \in [Server -> Transfer]
    BY <1>7, <2>1 DEF CommitTransfer, Transfer, TypeOK, Row, Owned
  <2> QED
    BY <1>7, <2>1, <2>2, <2>3, AssignOf, EndType DEF TypeOK, CommitTransfer
<1>8. CASE Refuse(r)
  BY <1>8, EndType DEF TypeOK, Refuse
<1> QED
  BY <1>1, <1>2, <1>3, <1>4, <1>5, <1>6, <1>7, <1>8 DEF Commit

LEMMA BeginType ==
  ASSUME TypeOK, NEW r \in Slot, NEW s \in Server, NEW a \in Allocation, Begin(r, s, a)
  PROVE  TypeOK'
<1>1. \A A \in AtMostOne : A \in SUBSET Allocation
  BY DEF AtMostOne
<1>2. server[s] \in Row
  BY DEF TypeOK
<1>3. \A op \in {"create", "store", "delete", "primary", "build"},
         add, remove \in SUBSET Allocation :
        Accept(r, op, s, a, add, remove) => TypeOK'
  BY <1>2 DEF Accept, TypeOK, Request
<1>4. ASSUME NEW n \in Node, NEW others \in AtMostOne, BeginTransfer(r, s, n, a, others)
      PROVE  TypeOK'
  <2>1. [server[s] EXCEPT !.node = n] \in Row
    BY <1>2 DEF Row
  <2> QED
    BY <1>1, <1>4, <2>1 DEF BeginTransfer, TypeOK, Request
<1> QED
  BY <1>1, <1>3, <1>4
     DEF Begin, BeginStore, BeginDelete, BeginPrimary, BeginCreate, BeginBuild

LEMMA TransferEndType ==
  ASSUME TypeOK, NEW s \in Server, Succeed(s) \/ Fail(s) \/ Cancel(s)
  PROVE  TypeOK'
<1>1. /\ transfer[s] \in Transfer
      /\ transfer' \in [Server -> Transfer]
      /\ UNCHANGED request
  BY AbsentType DEF TypeOK, Succeed, Fail, Cancel
<1>2. CASE Succeed(s)
  <2>1. PICK A \in SUBSET Allocation : owner' = Assign(owner, A, None)
    BY <1>1, <1>2 DEF Succeed, Release, Transfer
  <2>2. server' \in [Server -> Row]
    <3>1. transfer[s].node \in Node /\ transfer[s].primary \in Allocation
      BY <1>1 DEF Transfer
    <3>2. [server[s] EXCEPT !.node = transfer[s].node, !.primary = transfer[s].primary] \in Row
      BY <3>1 DEF TypeOK, Row
    <3>3. server' = [server EXCEPT ![s] =
            [server[s] EXCEPT !.node = transfer[s].node, !.primary = transfer[s].primary]]
      BY <1>2 DEF Succeed, TypeOK
    <3> QED
      BY <3>2, <3>3 DEF TypeOK
  <2> QED
    BY <1>1, <1>2, <2>1, <2>2, AssignOf DEF TypeOK, Succeed
<1>3. CASE Fail(s)
  <2>1. PICK A \in SUBSET Allocation : owner' = Assign(owner, A, None)
    BY <1>1, <1>3 DEF Fail, Release, Transfer
  <2> QED
    BY <1>1, <1>3, <2>1, AssignOf DEF TypeOK, Fail
<1>4. CASE Cancel(s)
  BY <1>1, <1>4 DEF TypeOK, Cancel, Transfer
<1> QED
  BY <1>2, <1>3, <1>4

\* Every variable keeps its type, however requests overlap and whatever
\* administrators choose.
THEOREM TypeCorrect == Spec => []TypeOK
<1>1. Init => TypeOK
  BY AbsentType DEF Init, TypeOK
<1>2. TypeOK /\ [Next]_vars => TypeOK'
  <2> SUFFICES ASSUME TypeOK, [Next]_vars PROVE TypeOK'
    OBVIOUS
  <2>1. CASE UNCHANGED vars
    BY <2>1 DEF vars, TypeOK
  <2>2. ASSUME NEW s \in Server, DeleteServer(s)
        PROVE  TypeOK'
    BY <2>2, RemoveType DEF DeleteServer, TypeOK
  <2> QED
    BY <2>1, <2>2, CommitType, BeginType, TransferEndType DEF Next
<1> QED
  BY <1>1, <1>2, PTL DEF Spec

-----------------------------------------------------------------------------
(* One step after the other.                                                 *)

LEMMA RemoveGood ==
  ASSUME AllocationsInv, NEW s \in Server, Remove(s)
  PROVE  /\ \A t \in Server : Good(t)'
         /\ Others(s) /\ ~Live(s)' /\ server'[s].phase # "unborn" /\ ~transfer'[s].pending
         /\ server' \in [Server -> Row] /\ owner' \in [Allocation -> Server \cup {None}]
         /\ transfer' \in [Server -> Transfer] /\ left' \in [Server -> SUBSET Allocation]
         /\ \A a \in Allocation : owner'[a] \in {owner[a], None}
<1> USE DEF AllocationsInv
<1>1. /\ server' = [server EXCEPT ![s] = Absent("gone")]
      /\ owner' = Release(owner, Owned(s))
      /\ transfer' = [transfer EXCEPT ![s] = NoTransfer]
      /\ left' = [left EXCEPT ![s] = {}]
  BY DEF Remove
<1>2. \A a \in Owned(s) : a \in Allocation /\ owner[a] = s
  BY DEF Owned
<1>3. /\ owner' \in [Allocation -> Server \cup {None}]
      /\ Owned(s)' = {}
      /\ \A t \in Server \ {s} : Owned(t)' = Owned(t)
      /\ \A a \in Allocation : owner'[a] \in {owner[a], None}
  <2>1. Owned(s) \in SUBSET Allocation
    BY <1>2
  <2> QED
    BY <1>1, <1>2, <2>1, ReleaseOf
<1>4. /\ server' \in [Server -> Row] /\ transfer' \in [Server -> Transfer]
      /\ left' \in [Server -> SUBSET Allocation]
      /\ server'[s].phase = "gone" /\ ~transfer'[s].pending
      /\ \A t \in Server \ {s} :
           server'[t] = server[t] /\ transfer'[t] = transfer[t] /\ left'[t] = left[t]
  BY <1>1, AbsentType DEF TypeOK
<1>5. Others(s) /\ ~Live(s)'
  BY <1>3, <1>4 DEF Others, Live
<1>6. Good(s)'
  BY <1>3, <1>4, <1>5 DEF Good, HasPrimary, Reserved
<1> QED
  BY <1>3, <1>4, <1>5, <1>6, OthersGood

LEMMA DeleteServerGood ==
  ASSUME AllocationsInv, NEW s \in Server, DeleteServer(s)
  PROVE  AllocationsInv'
<1>1. Remove(s) /\ UNCHANGED request /\ Live(s)
  BY DEF DeleteServer, Remove
<1>2. TypeOK'
  BY <1>1, RemoveGood DEF TypeOK, AllocationsInv
<1>3. \A r \in Slot : Decided(r)'
  BY <1>1, RemoveGood, MeanwhileHolds
<1> QED
  BY <1>2, <1>1, <1>3, RemoveGood DEF AllocationsInv

LEMMA CreateGood ==
  ASSUME AllocationsInv, RequestsApart, NEW r \in Slot, CommitCreate(r) \/ CreateOnDaemon(r)
  PROVE  AllocationsInv'
<1> USE DEF AllocationsInv
<1> /\ request[r].op \in {"create", "call"}
    /\ request[r] \in Request /\ request[r].add \in SUBSET Allocation
  BY RequestType DEF CommitCreate, CreateOnDaemon
<1> PICK s \in Server, a \in Allocation : s = request[r].server /\ a = request[r].choice
  BY RequestType
<1>1. CASE CommitCreate(r)
  <2>1. request[r].op = "create"
    BY <1>1 DEF CommitCreate
  <2>2. /\ request[r] \in Request /\ s \in Server /\ a \in Allocation
        /\ request[r].add \in SUBSET Allocation
    BY <2>1, RequestType
  <2>3. /\ server[s].phase = "unborn" /\ {a} \cup request[r].add \subseteq Free
        /\ request[r].add \subseteq On(NodeOf[a])
    BY <1>1, <2>1 DEF CommitCreate, Decided, Holds, Uses
  <2>4. Owned(s) = {} /\ ~transfer[s].pending
    BY <2>2, <2>3 DEF Good, InPlace, Reserved, Live, Owned
  <2>5. /\ owner' \in [Allocation -> Server \cup {None}]
        /\ Owned(s)' = {a} \cup request[r].add
        /\ \A t \in Server \ {s} : Owned(t)' = Owned(t)
    <3> DEFINE A == {a} \cup request[r].add
    <3>1. owner' = Assign(owner, A, s) /\ A \in SUBSET Allocation /\ A \subseteq Free
      BY <1>1, <2>2, <2>3 DEF CommitCreate
    <3> HIDE DEF A
    <3>2. /\ owner' \in [Allocation -> Server \cup {None}]
          /\ Owned(s)' = Owned(s) \cup A
          /\ \A t \in Server \ {s} : Owned(t)' = Owned(t)
      BY <3>1, GiveOf
    <3>3. Owned(s)' = A
      BY <2>4, <3>2
    <3> QED
      BY <3>2, <3>3 DEF A
  <2>6. /\ server' \in [Server -> Row]
        /\ server'[s] = [phase |-> "live", node |-> NodeOf[a], primary |-> a]
        /\ \A t \in Server \ {s} : server'[t] = server[t]
    <3>1. [phase |-> "live", node |-> NodeOf[a], primary |-> a] \in Row
      BY <2>2, NodeOfAssumption DEF Row
    <3> QED
      BY <1>1, <2>2, <3>1 DEF CommitCreate, TypeOK
  <2>7. UNCHANGED <<transfer, left>>
    BY <1>1 DEF CommitCreate
  <2>8. /\ request' \in [Slot -> Request \cup {Idle}]
        /\ Decided(r)'
        /\ \A t \in Slot \ {r} : request'[t] = request[t]
    <3> DEFINE x == [request[r] EXCEPT !.op = "call"]
    <3>1. x \in Request /\ x.op = "call"
      BY <2>2 DEF Request
    <3>2. request' = [request EXCEPT ![r] = x]
      BY <1>1 DEF CommitCreate
    <3> HIDE DEF x
    <3> QED
      <4>1. /\ request' \in [Slot -> Request \cup {Idle}] /\ request'[r] = x
            /\ \A t \in Slot \ {r} : request'[t] = request[t]
        BY <3>1, <3>2 DEF TypeOK
      <4> QED
        BY <3>1, <4>1 DEF Decided, Holds
  <2>9. TypeOK'
    BY <2>5, <2>6, <2>7, <2>8 DEF TypeOK
  <2>10. Others(s)
    BY <2>5, <2>6, <2>7 DEF Others
  <2>11. Good(s)'
    <3>1. Live(s)' /\ server'[s].node = NodeOf[a] /\ server'[s].primary = a
      BY <2>6 DEF Live
    <3>2. owner'[a] = s
      BY <2>5 DEF Owned
    <3>3. \A b \in Owned(s)' : NodeOf[b] = NodeOf[a]
      BY <2>3, <2>5 DEF On
    <3> QED
      BY <2>4, <2>7, <3>1, <3>2, <3>3 DEF Good, HasPrimary, InPlace, Reserved
  <2>12. ASSUME NEW t \in Slot \ {r}
         PROVE  Decided(t)'
    <3>1. server'[s].phase # "unborn"
      BY <2>6
    <3>2. \A b \in Allocation :
            \/ owner'[b] = owner[b]
            \/ owner[b] = None /\ owner'[b] = s /\ b \in Uses(request[r])
      <4> DEFINE A == {a} \cup request[r].add
      <4>1. owner' = Assign(owner, A, s) /\ A \in SUBSET Allocation
        BY <1>1, <2>2 DEF CommitCreate
      <4>2. A \subseteq Free /\ A = Uses(request[r])
        BY <2>3 DEF Uses
      <4> HIDE DEF A
      <4> QED
        BY <4>1, <4>2, AssignOf DEF Free
    <3> QED
      BY <2>1, <2>3, <2>8, <2>10, <3>1, <3>2, CommitHolds DEF InFlight
  <2> QED
    BY <2>2, <2>8, <2>9, <2>10, <2>11, <2>12, OthersGood
<1>2. CASE CreateOnDaemon(r)
  <2>1. request[r].op = "call" /\ End(r)
    BY <1>2 DEF CreateOnDaemon
  <2>2. s \in Server
    BY <2>1, RequestType
  <2>3. /\ request' \in [Slot -> Request \cup {Idle}] /\ Decided(r)'
        /\ \A t \in Slot \ {r} : request'[t] = request[t]
    BY <2>1, EndRequest
  <2>4. CASE UNCHANGED <<server, owner, transfer, left>>
    <3>1. \A t \in Slot \ {r} : Decided(t)'
      BY <2>3, <2>4 DEF Decided, Holds, Live, Free, On
    <3> QED
      BY <2>3, <2>4, <3>1 DEF TypeOK, Good, HasPrimary, InPlace, Reserved, Live, Owned, On
  <2>5. CASE Remove(s)
    <3>1. \A t \in Slot \ {r} : Decided(t)'
      BY <2>2, <2>3, <2>5, RemoveGood, MeanwhileHolds
    <3> QED
      BY <2>2, <2>3, <2>5, <3>1, RemoveGood DEF TypeOK
  <2> QED
    BY <1>2, <2>4, <2>5 DEF CreateOnDaemon
<1> QED
  BY <1>1, <1>2

LEMMA StoreGood ==
  ASSUME AllocationsInv, RequestsApart, NEW r \in Slot, CommitStore(r)
  PROVE  AllocationsInv'
<1> USE DEF AllocationsInv
<1> request[r].op = "store"
  BY DEF CommitStore
<1> PICK s \in Server, a \in Allocation : s = request[r].server /\ a = request[r].choice
  BY RequestType
<1>1. /\ request[r].op = "store" /\ Live(s) /\ End(r)
      /\ owner' = Assign(owner, {a}, s) /\ UNCHANGED <<server, transfer, left>>
  BY DEF CommitStore
<1>2. s \in Server /\ a \in Allocation /\ {a} \in SUBSET Allocation
  BY <1>1, RequestType
<1>3. {a} \subseteq Free /\ NodeOf[a] = server[s].node /\ ~transfer[s].pending
  BY <1>1 DEF Decided, Holds
<1>4. /\ owner' \in [Allocation -> Server \cup {None}]
      /\ Owned(s)' = Owned(s) \cup {a}
      /\ \A t \in Server \ {s} : Owned(t)' = Owned(t)
  BY <1>1, <1>2, <1>3, GiveOf
<1>5. /\ request' \in [Slot -> Request \cup {Idle}] /\ Decided(r)'
      /\ \A t \in Slot \ {r} : request'[t] = request[t]
  BY <1>1, EndRequest
<1>6. TypeOK'
  BY <1>1, <1>4, <1>5 DEF TypeOK
<1>7. Good(s)'
  <2>1. server[s].primary \in Owned(s)
    BY <1>1, <1>2 DEF Good, HasPrimary, Owned, TypeOK, Row
  <2>2. HasPrimary(s)'
    BY <1>1, <1>4, <2>1 DEF HasPrimary, Owned
  <2> QED
    BY <1>1, <1>2, <1>3, <1>4, <2>2 DEF Good, InPlace, Reserved, Live
<1>8. Others(s)
  BY <1>1, <1>4 DEF Others
<1>9. ASSUME NEW t \in Slot \ {r}
      PROVE  Decided(t)'
  <2>1. \A b \in Allocation :
          \/ owner'[b] = owner[b]
          \/ owner[b] = None /\ owner'[b] = s /\ b \in Uses(request[r])
    <3> DEFINE A == {a}
    <3>1. owner' = Assign(owner, A, s) /\ A \in SUBSET Allocation
      BY <1>1, <1>2
    <3>2. A \subseteq Free /\ A \subseteq Uses(request[r])
      BY <1>3 DEF Uses
    <3> HIDE DEF A
    <3> QED
      BY <3>1, <3>2, AssignOf DEF Free
  <2>2. server'[s] = server[s] /\ transfer'[s] = transfer[s] /\ server'[s].phase = "live"
        /\ (Live(s)' <=> Live(s))
    BY <1>1 DEF Live
  <2> QED
    BY <1>1, <1>5, <1>8, <2>1, <2>2, CommitHolds DEF InFlight
<1> QED
  BY <1>2, <1>5, <1>6, <1>7, <1>8, <1>9, OthersGood

LEMMA DeleteGood ==
  ASSUME AllocationsInv, RequestsApart, NEW r \in Slot, CommitDelete(r)
  PROVE  AllocationsInv'
<1> USE DEF AllocationsInv
<1> request[r].op = "delete"
  BY DEF CommitDelete
<1> PICK s \in Server, a \in Allocation : s = request[r].server /\ a = request[r].choice
  BY RequestType
<1>1. /\ request[r].op = "delete" /\ End(r)
      /\ owner' = Release(owner, {a}) /\ UNCHANGED <<server, transfer, left>>
  BY DEF CommitDelete
<1>2. s \in Server /\ a \in Allocation /\ {a} \in SUBSET Allocation
  BY <1>1, RequestType
<1>3. /\ owner[a] \in {s, None} /\ ~transfer[s].pending
      /\ Live(s) => a # server[s].primary
  BY <1>1 DEF Decided, Holds
<1>4. /\ owner' \in [Allocation -> Server \cup {None}]
      /\ Owned(s)' = Owned(s) \ {a}
      /\ \A t \in Server \ {s} : Owned(t)' = Owned(t)
  BY <1>1, <1>2, <1>3, ReleaseOf
<1>5. /\ request' \in [Slot -> Request \cup {Idle}] /\ Decided(r)'
      /\ \A t \in Slot \ {r} : request'[t] = request[t]
  BY <1>1, EndRequest
<1>6. TypeOK'
  BY <1>1, <1>4, <1>5 DEF TypeOK
<1>7. Good(s)'
  <2>1. Live(s) => server[s].primary \in Owned(s)'
    BY <1>2, <1>3, <1>4 DEF Good, HasPrimary, Owned, TypeOK, Row
  <2>2. HasPrimary(s)'
    BY <1>1, <2>1 DEF HasPrimary, Owned, Live
  <2> QED
    BY <1>1, <1>2, <1>3, <1>4, <2>2 DEF Good, InPlace, Reserved, Live
<1>8. Others(s)
  BY <1>1, <1>4 DEF Others
<1>9. ASSUME NEW t \in Slot \ {r}
      PROVE  Decided(t)'
  <2>1. \A b \in Allocation :
          \/ owner'[b] = owner[b]
          \/ owner'[b] = None /\ b \in Writes(request[r])
    <3> DEFINE A == {a}
    <3>1. owner' = Assign(owner, A, None) /\ A \in SUBSET Allocation
      BY <1>1, <1>2 DEF Release
    <3>2. A \subseteq Writes(request[r])
      BY <1>1 DEF Uses, Writes
    <3> HIDE DEF A
    <3> QED
      BY <3>1, <3>2, AssignOf
  <2>2. server'[s] = server[s] /\ transfer'[s] = transfer[s] /\ server'[s].phase # "unborn"
        /\ (Live(s)' <=> Live(s))
    BY <1>1 DEF Live, Decided, Holds
  <2> QED
    BY <1>1, <1>5, <1>8, <2>1, <2>2, CommitHolds DEF InFlight
<1> QED
  BY <1>2, <1>5, <1>6, <1>7, <1>8, <1>9, OthersGood

\* The primary allocation of a server that is not being transferred becomes
\* another one of its own; or the row is gone.
LEMMA SetPrimaryGood ==
  ASSUME AllocationsInv, NEW s \in Server, NEW a \in Allocation, SetPrimary(s, a),
         Live(s) => owner'[a] = s, ~transfer[s].pending
  PROVE  /\ server' \in [Server -> Row]
         /\ \A t \in Server \ {s} : server'[t] = server[t]
         /\ Live(s)' <=> Live(s)
         /\ server'[s].phase = server[s].phase /\ server'[s].node = server[s].node
         /\ server'[s].primary \in {server[s].primary, a}
         /\ HasPrimary(s)'
<1> server \in [Server -> Row]
  BY DEF AllocationsInv, TypeOK
<1>1. CASE Live(s)
  <2>1. server' = [server EXCEPT ![s].primary = a]
    BY <1>1 DEF SetPrimary
  <2>2. /\ server' \in [Server -> Row]
        /\ \A t \in Server \ {s} : server'[t] = server[t]
        /\ server'[s].phase = server[s].phase /\ server'[s].node = server[s].node
        /\ server'[s].primary = a
    BY <2>1 DEF Row
  <2> QED
    BY <1>1, <2>2 DEF HasPrimary, Live
<1>2. CASE ~Live(s)
  BY <1>2 DEF SetPrimary, HasPrimary, Live
<1> QED
  BY <1>1, <1>2

LEMMA PrimaryGood ==
  ASSUME AllocationsInv, RequestsApart, NEW r \in Slot, CommitPrimary(r)
  PROVE  AllocationsInv'
<1> USE DEF AllocationsInv
<1> request[r].op = "primary"
  BY DEF CommitPrimary
<1> PICK s \in Server, a \in Allocation : s = request[r].server /\ a = request[r].choice
  BY RequestType
<1>1. SetPrimary(s, a) /\ End(r) /\ UNCHANGED <<owner, transfer, left>>
  BY DEF CommitPrimary
<1>2. ~transfer[s].pending /\ (Live(s) => owner'[a] = s)
  BY <1>1 DEF Decided, Holds
<1>3. /\ server' \in [Server -> Row]
      /\ \A t \in Server \ {s} : server'[t] = server[t]
      /\ Live(s)' <=> Live(s)
      /\ server'[s].phase = server[s].phase /\ server'[s].node = server[s].node
      /\ server'[s].primary \in {server[s].primary, a}
      /\ HasPrimary(s)'
  BY <1>1, <1>2, SetPrimaryGood
<1>4. /\ request' \in [Slot -> Request \cup {Idle}] /\ Decided(r)'
      /\ \A t \in Slot \ {r} : request'[t] = request[t]
  BY <1>1, EndRequest
<1>5. \A t \in Server : Owned(t)' = Owned(t)
  BY <1>1 DEF Owned
<1>6. Good(s)'
  BY <1>1, <1>2, <1>3, <1>5 DEF Good, InPlace, Reserved
<1>7. Others(s)
  BY <1>1, <1>3, <1>5 DEF Others
<1>8. ASSUME NEW t \in Slot \ {r}
      PROVE  Decided(t)'
  <2>1. server'[s].phase # "unborn"
    BY <1>3 DEF Decided, Holds
  <2>2. transfer'[s] = transfer[s] /\ a \in Uses(request[r])
    BY <1>1 DEF Uses
  <2> QED
    BY <1>1, <1>3, <1>4, <1>7, <2>1, <2>2, CommitHolds DEF InFlight
<1> QED
  BY <1>1, <1>3, <1>4, <1>6, <1>7, <1>8, OthersGood DEF TypeOK

LEMMA BuildGood ==
  ASSUME AllocationsInv, RequestsApart, NEW r \in Slot, CommitBuild(r)
  PROVE  AllocationsInv'
<1> USE DEF AllocationsInv
<1> request[r].op = "build"
  BY DEF CommitBuild
<1> PICK s \in Server, choice \in Allocation, loaded \in Row,
         add \in SUBSET Allocation, remove \in SUBSET Allocation :
           /\ s = request[r].server /\ choice = request[r].choice
           /\ loaded = request[r].loaded
           /\ add = request[r].add /\ remove = request[r].remove
  BY RequestType
<1>1. Live(s) /\ End(r) /\ UNCHANGED <<transfer, left>>
  BY DEF CommitBuild
<1>2. server[s] = loaded /\ ~transfer[s].pending
  BY <1>1 DEF Decided, Holds
<1>3. PICK fresh \in SUBSET Allocation : fresh = add \cap On(loaded.node) \cap Free
  OBVIOUS
<1>4. PICK drop \in SUBSET Allocation :
        drop = {a \in remove \ add :
                  Assign(owner, fresh, s)[a] = s /\ NodeOf[a] = loaded.node}
  OBVIOUS
<1>5. owner' = Release(Assign(owner, fresh, s), drop)
  BY <1>3, <1>4 DEF CommitBuild, Addable
<1>6. \A a \in Allocation :
        owner'[a] = IF a \in drop THEN None ELSE IF a \in fresh THEN s ELSE owner[a]
  BY <1>5 DEF Release, Assign
<1>7. (\A a \in fresh : owner[a] = None /\ NodeOf[a] = server[s].node) /\ fresh \cap drop = {}
  BY <1>2, <1>3, <1>4 DEF Free, On
<1>8. \A a \in drop : owner[a] = s /\ a \in remove
  BY <1>4, <1>7 DEF Assign
<1>9. /\ owner' \in [Allocation -> Server \cup {None}]
      /\ Owned(s)' = (Owned(s) \cup fresh) \ drop
      /\ \A t \in Server \ {s} : Owned(t)' = Owned(t)
  <2>1. owner' \in [Allocation -> Server \cup {None}]
    <3>1. owner' = [a \in Allocation |-> owner'[a]]
      BY <1>5 DEF Release, Assign
    <3> QED
      BY <1>6, <3>1 DEF TypeOK
  <2> QED
    BY <1>6, <1>7, <1>8, <2>1, NoneAssumption DEF Owned
<1>10. /\ server' \in [Server -> Row]
       /\ \A t \in Server \ {s} : server'[t] = server[t]
       /\ Live(s)' <=> Live(s)
       /\ server'[s].phase = server[s].phase /\ server'[s].node = server[s].node
       /\ server'[s].primary \in {server[s].primary} \cup Uses(request[r])
       /\ HasPrimary(s)'
  <2>1. PICK a \in IF choice \in remove THEN fresh ELSE {choice} :
          IF a = loaded.primary THEN UNCHANGED server ELSE owner'[a] = s /\ SetPrimary(s, a)
    BY <1>3 DEF CommitBuild, Addable
  <2>2. a \in Allocation /\ a \in Uses(request[r])
    BY <1>3, <2>1 DEF Uses
  <2>3. CASE a = loaded.primary
    <3>1. owner[a] = s
      BY <1>1, <1>2, <2>3 DEF Good, HasPrimary
    <3>2. a \notin fresh
      BY <1>7, <3>1, NoneAssumption
    <3>3. a = choice /\ choice \notin remove
      BY <2>1, <3>2
    <3>4. owner'[a] = s
      BY <1>6, <1>8, <2>2, <3>1, <3>2, <3>3
    <3>5. UNCHANGED server
      BY <2>1, <2>3
    <3> QED
      BY <1>2, <2>3, <3>4, <3>5 DEF HasPrimary, Live, TypeOK
  <2>4. CASE a # loaded.primary
    BY <1>2, <2>1, <2>2, <2>4, SetPrimaryGood
  <2> QED
    BY <2>3, <2>4
<1>11. /\ request' \in [Slot -> Request \cup {Idle}] /\ Decided(r)'
      /\ \A t \in Slot \ {r} : request'[t] = request[t]
  BY <1>1, EndRequest
<1>12. Good(s)'
  BY <1>1, <1>2, <1>7, <1>9, <1>10 DEF Good, InPlace, Reserved
<1>13. Others(s)
  BY <1>1, <1>9, <1>10 DEF Others
<1>14. ASSUME NEW t \in Slot \ {r}
       PROVE  Decided(t)'
  <2>1. server'[s].phase # "unborn"
    BY <1>1, <1>10 DEF Live
  <2>2. \A a \in Allocation :
          \/ owner'[a] = owner[a] \/ owner'[a] = None
          \/ owner[a] = None /\ owner'[a] = s /\ a \in Uses(request[r])
    BY <1>3, <1>6, <1>7 DEF Uses
  <2>3. transfer'[s] = transfer[s]
    BY <1>1
  <2> QED
    BY <1>10, <1>11, <1>13, <2>1, <2>2, <2>3, CommitHolds DEF InFlight
<1> QED
  BY <1>1, <1>9, <1>10, <1>11, <1>12, <1>13, <1>14, OthersGood DEF TypeOK

LEMMA TransferGood ==
  ASSUME AllocationsInv, RequestsApart, NEW r \in Slot, CommitTransfer(r)
  PROVE  AllocationsInv'
<1> USE DEF AllocationsInv
<1> request[r].op = "transfer"
  BY DEF CommitTransfer
<1> PICK s \in Server, choice \in Allocation, loaded \in Row, add \in SUBSET Allocation :
           /\ s = request[r].server /\ choice = request[r].choice
           /\ loaded = request[r].loaded /\ add = request[r].add
  BY RequestType
<1>1. PICK new \in SUBSET Allocation : new = {choice} \cup add
  OBVIOUS
<1> DEFINE move == [pending |-> TRUE, node |-> loaded.node, primary |-> choice,
                    old |-> Owned(s) \cup {loaded.primary}, new |-> new]
<1>2. /\ Live(s) /\ End(r) /\ UNCHANGED <<server, left>>
      /\ transfer' = [transfer EXCEPT ![s] = move]
      /\ owner' = Assign(owner, new \cap Free \cap On(loaded.node), s)
  BY <1>1 DEF CommitTransfer
<1>3. /\ ~transfer[s].pending /\ server[s].primary = loaded.primary
      /\ new \subseteq Free /\ new \subseteq On(loaded.node)
  BY <1>1, <1>2 DEF Decided, Holds, Uses
<1>4. new \cap Free \cap On(loaded.node) = new
  BY <1>3
<1>5. /\ owner' \in [Allocation -> Server \cup {None}]
      /\ Owned(s)' = Owned(s) \cup new
      /\ \A t \in Server \ {s} : Owned(t)' = Owned(t)
  BY <1>2, <1>3, <1>4, GiveOf
<1>6. owner[server[s].primary] = s /\ server[s].primary \in Owned(s)
  BY <1>2 DEF Good, HasPrimary, Owned, TypeOK, Row
<1>7. PICK old \in SUBSET Allocation : old = Owned(s) \cup {loaded.primary} /\ old = Owned(s)
  BY <1>3, <1>6 DEF Owned
<1>8. move \in Transfer
  BY <1>7 DEF Transfer, Row
<1>9. /\ transfer' \in [Server -> Transfer]
      /\ transfer'[s].pending /\ transfer'[s].node = loaded.node
      /\ transfer'[s].primary = choice /\ transfer'[s].old = old /\ transfer'[s].new = new
      /\ \A t \in Server \ {s} : transfer'[t] = transfer[t]
  BY <1>2, <1>7, <1>8 DEF TypeOK
<1> HIDE DEF move
<1>10. /\ request' \in [Slot -> Request \cup {Idle}] /\ Decided(r)'
      /\ \A t \in Slot \ {r} : request'[t] = request[t]
  BY <1>2, EndRequest
<1>11. Good(s)'
  <2>1. old \cap new = {}
    BY <1>3, <1>7, NoneAssumption DEF Owned, Free
  <2>2. Reserved(s)'
    BY <1>1, <1>2, <1>3, <1>5, <1>6, <1>7, <1>9, <2>1 DEF Reserved, Live, On
  <2>3. HasPrimary(s)'
    BY <1>2, <1>5, <1>6 DEF HasPrimary, Owned, Live
  <2>4. ASSUME NEW a \in Owned(s)' PROVE InPlace(s, a)'
    <3>1. CASE a \in new
      BY <1>2, <1>9, <3>1 DEF InPlace, Live
    <3>2. CASE a \in Owned(s)
      BY <1>2, <1>3, <3>2 DEF Good, InPlace, Live
    <3> QED
      BY <1>5, <3>1, <3>2
  <2> QED
    BY <2>2, <2>3, <2>4 DEF Good
<1>12. Others(s)
  BY <1>2, <1>5, <1>9 DEF Others
<1>13. ASSUME NEW t \in Slot \ {r}
       PROVE  Decided(t)'
  <2>1. server'[s].phase # "unborn"
    BY <1>2 DEF Live
  <2>2. \A a \in Allocation :
          \/ owner'[a] = owner[a]
          \/ owner[a] = None /\ owner'[a] = s /\ a \in Uses(request[r])
    <3> DEFINE A == new \cap Free \cap On(loaded.node)
    <3>1. owner' = Assign(owner, A, s) /\ A \in SUBSET Allocation
      BY <1>2
    <3>2. A \subseteq Free /\ A \subseteq Uses(request[r])
      BY <1>1 DEF Uses
    <3> HIDE DEF A
    <3> QED
      BY <3>1, <3>2, AssignOf DEF Free
  <2> QED
    BY <1>10, <1>12, <2>1, <2>2, CommitHolds DEF InFlight
<1> QED
  BY <1>2, <1>5, <1>9, <1>10, <1>11, <1>12, <1>13, OthersGood DEF TypeOK

\* A transfer ends, one way or another.
LEMMA EndGood ==
  ASSUME AllocationsInv, NEW s \in Server, Succeed(s) \/ Fail(s) \/ Cancel(s)
  PROVE  AllocationsInv'
<1> USE DEF AllocationsInv
<1>1. Live(s) /\ transfer[s].pending /\ UNCHANGED request
      /\ transfer' = [transfer EXCEPT ![s] = NoTransfer]
  BY DEF Succeed, Fail, Cancel
<1>2. PICK old \in SUBSET Allocation, new \in SUBSET Allocation :
        /\ old = transfer[s].old /\ new = transfer[s].new
  BY DEF TypeOK, Transfer
<1>3. /\ Owned(s) = old \cup new /\ old \cap new = {}
      /\ server[s].primary \in old /\ transfer[s].primary \in new
      /\ new \subseteq On(transfer[s].node)
  BY <1>1, <1>2 DEF Good, Reserved
<1>4. \A a \in old \cup new : owner[a] = s
  BY <1>3 DEF Owned
<1>5. /\ transfer' \in [Server -> Transfer] /\ ~transfer'[s].pending
      /\ \A t \in Server \ {s} : transfer'[t] = transfer[t]
  BY <1>1, AbsentType DEF TypeOK
<1>6. ASSUME server' \in [Server -> Row], left' \in [Server -> SUBSET Allocation],
             owner' \in [Allocation -> Server \cup {None}],
             \A t \in Server \ {s} :
               server'[t] = server[t] /\ left'[t] = left[t] /\ Owned(t)' = Owned(t),
             \A a \in Allocation : owner'[a] \in {owner[a], None},
             Live(s)', owner'[server'[s].primary] = s,
             \A a \in Owned(s)' : NodeOf[a] = server'[s].node \/ a \in left'[s]
      PROVE  AllocationsInv'
  <2>1. TypeOK' /\ Others(s)
    BY <1>1, <1>5, <1>6 DEF TypeOK, Others
  <2>2. Good(s)'
    BY <1>5, <1>6 DEF Good, HasPrimary, InPlace, Reserved
  <2>3. server'[s].phase # "unborn"
    BY <1>6 DEF Live
  <2>4. \A r \in Slot : Decided(r)'
    BY <1>1, <1>5, <1>6, <2>1, <2>3, MeanwhileHolds
  <2> QED
    BY <2>1, <2>2, <2>4, OthersGood
<1>7. CASE Succeed(s)
  <2>1. /\ owner' = Release(owner, old)
        /\ server' = [server EXCEPT ![s].node = transfer[s].node,
                                    ![s].primary = transfer[s].primary]
        /\ left' = [left EXCEPT ![s] = {}]
    BY <1>2, <1>7 DEF Succeed
  <2>2. /\ owner' \in [Allocation -> Server \cup {None}]
        /\ Owned(s)' = Owned(s) \ old
        /\ \A t \in Server \ {s} : Owned(t)' = Owned(t)
        /\ \A a \in Allocation : owner'[a] \in {owner[a], None}
    BY <1>4, <2>1, ReleaseOf
  <2>3. /\ server' \in [Server -> Row]
        /\ server'[s].phase = "live" /\ server'[s].node = transfer[s].node
        /\ server'[s].primary = transfer[s].primary
        /\ \A t \in Server \ {s} : server'[t] = server[t]
    <3> DEFINE row == [server[s] EXCEPT !.node = transfer[s].node,
                                        !.primary = transfer[s].primary]
    <3>1. /\ row \in Row /\ row.phase = server[s].phase
          /\ row.node = transfer[s].node /\ row.primary = transfer[s].primary
      BY DEF TypeOK, Row, Transfer
    <3>2. server' = [server EXCEPT ![s] = row]
      BY <2>1
    <3> HIDE DEF row
    <3> QED
      BY <1>1, <3>1, <3>2 DEF TypeOK, Live
  <2>4. left' \in [Server -> SUBSET Allocation] /\ \A t \in Server \ {s} : left'[t] = left[t]
    BY <2>1 DEF TypeOK
  <2>5. Owned(s)' = new
    BY <1>3, <2>2
  <2>6. owner'[server'[s].primary] = s
    BY <1>3, <2>3, <2>5 DEF Owned
  <2>7. \A a \in Owned(s)' : NodeOf[a] = server'[s].node
    BY <1>3, <2>3, <2>5 DEF On
  <2> QED
    BY <1>6, <2>2, <2>3, <2>4, <2>6, <2>7 DEF Live
<1>8. CASE Fail(s)
  <2>1. owner' = Release(owner, new) /\ UNCHANGED <<server, left>>
    BY <1>2, <1>8 DEF Fail
  <2>2. /\ owner' \in [Allocation -> Server \cup {None}]
        /\ Owned(s)' = Owned(s) \ new
        /\ \A t \in Server \ {s} : Owned(t)' = Owned(t)
        /\ \A a \in Allocation : owner'[a] \in {owner[a], None}
    BY <1>4, <2>1, ReleaseOf
  <2>3. owner'[server[s].primary] = s
    BY <1>3, <2>2 DEF Owned
  <2>4. \A a \in Owned(s)' : NodeOf[a] = server[s].node \/ a \in left[s]
    BY <1>2, <2>2 DEF Good, InPlace
  <2> QED
    BY <1>1, <1>6, <2>1, <2>2, <2>3, <2>4 DEF Live, TypeOK
<1>9. CASE Cancel(s)
  <2>1. UNCHANGED <<server, owner>> /\ left' = [left EXCEPT ![s] = @ \cup new]
    BY <1>2, <1>9 DEF Cancel
  <2>2. /\ left' \in [Server -> SUBSET Allocation] /\ left'[s] = left[s] \cup new
        /\ \A t \in Server \ {s} : left'[t] = left[t]
    BY <2>1 DEF TypeOK
  <2>3. \A t \in Server : Owned(t)' = Owned(t)
    BY <2>1 DEF Owned
  <2>4. owner[server[s].primary] = s
    BY <1>3, <1>4
  <2>5. \A a \in Owned(s) : NodeOf[a] = server[s].node \/ a \in left'[s]
    BY <1>2, <2>2 DEF Good, InPlace
  <2> QED
    BY <1>1, <1>6, <2>1, <2>2, <2>3, <2>4, <2>5 DEF Live, TypeOK
<1> QED
  BY <1>7, <1>8, <1>9

LEMMA RefuseGood ==
  ASSUME AllocationsInv, NEW r \in Slot, Refuse(r)
  PROVE  AllocationsInv'
<1>1. End(r) /\ UNCHANGED <<server, owner, transfer, left>>
  BY DEF Refuse
<1>2. /\ request' \in [Slot -> Request \cup {Idle}] /\ Decided(r)'
      /\ \A t \in Slot \ {r} : request'[t] = request[t]
  BY <1>1, EndRequest DEF AllocationsInv
<1>3. \A t \in Slot \ {r} : Decided(t)'
  BY <1>1, <1>2 DEF AllocationsInv, Decided, Holds, Live, Free, On
<1> QED
  BY <1>1, <1>2, <1>3
     DEF AllocationsInv, TypeOK, Good, HasPrimary, InPlace, Reserved, Live, Owned, On

LEMMA AcceptGood ==
  ASSUME AllocationsInv, NEW r \in Slot, NEW s \in Server, NEW a \in Allocation,
         NEW add \in SUBSET Allocation, NEW remove \in SUBSET Allocation,
         NEW op \in {"create", "store", "delete", "primary", "build"},
         Accept(r, op, s, a, add, remove),
         op = "create" => {a} \cup add \subseteq Free /\ add \subseteq On(NodeOf[a]),
         op # "create" => Live(s) /\ ~transfer[s].pending,
         op = "store" => a \in Free /\ NodeOf[a] = server[s].node,
         op = "delete" => owner[a] = s /\ a # server[s].primary,
         op = "primary" => owner[a] = s
  PROVE  AllocationsInv'
<1> DEFINE x == [op |-> op, server |-> s, loaded |-> server[s], choice |-> a,
                 add |-> add, remove |-> remove]
<1>1. x \in Request
  BY DEF Request, AllocationsInv, TypeOK
<1>2. Holds(x)
  BY DEF Holds, Uses, Live
<1>3. request' = [request EXCEPT ![r] = x] /\ UNCHANGED <<server, owner, transfer, left>>
  BY DEF Accept
<1> HIDE DEF x
<1> QED
  BY <1>1, <1>2, <1>3, BeginGood

LEMMA BeginsGood ==
  ASSUME AllocationsInv, Forms, ~AnyTime, NEW r \in Slot, NEW s \in Server,
         NEW a \in Allocation, Begin(r, s, a)
  PROVE  AllocationsInv'
<1>1. {} \in SUBSET Allocation /\ AtMostOne \subseteq SUBSET Allocation
  BY DEF AtMostOne
<1>2. CASE BeginStore(r, s, a)
  <2>1. /\ Accept(r, "store", s, a, {}, {}) /\ Live(s) /\ ~transfer[s].pending
        /\ a \in Free /\ NodeOf[a] = server[s].node
    BY <1>2 DEF BeginStore, Accessible, On
  <2> QED
    BY <1>1, <2>1, AcceptGood
<1>3. CASE BeginDelete(r, s, a)
  <2>1. /\ Accept(r, "delete", s, a, {}, {}) /\ Live(s) /\ ~transfer[s].pending
        /\ owner[a] = s /\ a # server[s].primary
    BY <1>3 DEF BeginDelete, Accessible
  <2> QED
    BY <1>1, <2>1, AcceptGood
<1>4. CASE BeginPrimary(r, s, a)
  <2>1. /\ Accept(r, "primary", s, a, {}, {}) /\ Live(s) /\ ~transfer[s].pending
        /\ owner[a] = s
    BY <1>4 DEF BeginPrimary, Accessible
  <2> QED
    BY <1>1, <2>1, AcceptGood
<1>5. ASSUME NEW others \in SUBSET Allocation, BeginCreate(r, s, a, others)
      PROVE  AllocationsInv'
  <2>1. /\ Accept(r, "create", s, a, others, {})
        /\ {a} \cup others \subseteq Free /\ others \subseteq On(NodeOf[a])
    BY <1>5 DEF BeginCreate
  <2> QED
    BY <1>1, <2>1, AcceptGood
<1>6. ASSUME NEW others \in SUBSET Allocation, NEW remove \in SUBSET Allocation,
             BeginBuild(r, s, a, others, remove)
      PROVE  AllocationsInv'
  <2>1. Accept(r, "build", s, a, others, remove) /\ Live(s) /\ ~transfer[s].pending
    BY <1>6 DEF BeginBuild, Editable
  <2> QED
    BY <2>1, AcceptGood
<1>7. ASSUME NEW others \in SUBSET Allocation, NEW n \in Node, BeginTransfer(r, s, n, a, others)
      PROVE  AllocationsInv'
  <2> DEFINE row == [server[s] EXCEPT !.node = n]
             x == [op |-> "transfer", server |-> s, loaded |-> row, choice |-> a,
                   add |-> others, remove |-> {}]
  <2>1. /\ Live(s) /\ ~transfer[s].pending /\ {a} \cup others \subseteq Free \cap On(n)
        /\ request' = [request EXCEPT ![r] = x] /\ UNCHANGED <<server, owner, transfer, left>>
    BY <1>7 DEF BeginTransfer
  <2>2. row \in Row /\ row.node = n /\ row.primary = server[s].primary
    BY DEF AllocationsInv, TypeOK, Row
  <2> HIDE DEF row
  <2>3. x \in Request
    BY <2>2 DEF Request
  <2>4. Holds(x)
    BY <2>1, <2>2 DEF Holds, Uses, Live
  <2> HIDE DEF x
  <2> QED
    BY <2>1, <2>3, <2>4, BeginGood
<1> QED
  BY <1>1, <1>2, <1>3, <1>4, <1>5, <1>6, <1>7 DEF Begin

LEMMA AllocationsAlways ==
  ASSUME Forms, ~AnyTime
  PROVE  Spec /\ []RequestsApart => []AllocationsInv
<1>1. Init => AllocationsInv
  <2> SUFFICES ASSUME Init PROVE AllocationsInv
    OBVIOUS
  <2>1. TypeOK
    BY AbsentType DEF Init, TypeOK
  <2>2. \A s \in Server : server[s].phase = "unborn" /\ ~transfer[s].pending /\ Owned(s) = {}
    BY AbsentType, NoneAssumption DEF Init, Owned
  <2>3. \A r \in Slot : request[r].op = "idle"
    BY DEF Init, Idle
  <2> QED
    BY <2>1, <2>2, <2>3
       DEF AllocationsInv, Good, HasPrimary, Reserved, Live, Decided, Holds
<1>2. AllocationsInv /\ RequestsApart /\ [Next]_vars => AllocationsInv'
  <2> SUFFICES ASSUME AllocationsInv, RequestsApart, [Next]_vars PROVE AllocationsInv'
    OBVIOUS
  <2>1. CASE UNCHANGED vars
    BY <2>1 DEF vars, AllocationsInv, TypeOK, Good, HasPrimary, InPlace, Reserved, Live,
                Owned, On, Free, Decided, Holds
  <2>2. ASSUME NEW r \in Slot, Commit(r)
        PROVE  AllocationsInv'
    BY <2>2, CreateGood, StoreGood, DeleteGood, PrimaryGood, BuildGood, TransferGood, RefuseGood
       DEF Commit
  <2>3. ASSUME NEW s \in Server, Succeed(s) \/ Fail(s) \/ Cancel(s) \/ DeleteServer(s)
        PROVE  AllocationsInv'
    BY <2>3, EndGood, DeleteServerGood
  <2> QED
    BY <2>1, <2>2, <2>3, BeginsGood DEF Next
<1> QED
  BY <1>1, <1>2, PTL DEF Spec

-----------------------------------------------------------------------------
(* The theorems.                                                             *)

\* Allocations follow their server from node to node, and are released when it
\* is gone, but for what a cancelled transfer leaves behind.
\* (ServerTransferController, ServerDeletionService.)
THEOREM AlwaysOnNode ==
  ASSUME Forms, ~AnyTime
  PROVE  Spec /\ []RequestsApart => []OnNode
<1>1. AllocationsInv => OnNode
  BY DEF AllocationsInv, Good, InPlace, Owned, OnNode
<1> QED
  BY <1>1, AllocationsAlways, PTL
=============================================================================
