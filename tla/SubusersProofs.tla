--------------------------- MODULE SubusersProofs ---------------------------
(***************************************************************************)
(* What holds of Subusers for any users, permissions, rows, requests at    *)
(* the same time, and fate of the calls to the daemon.                     *)
(***************************************************************************)
EXTENDS Subusers, TLAPS

-----------------------------------------------------------------------------
(* Types. *)

LEMMA NoRowType == NoRow \in Row /\ NoRow.permissions = {}
BY UserAssumption DEF NoRow, Row

LEMMA WithConnect == \A P \in SUBSET Permission : P \cup {Connect} \in SUBSET All
BY DEF All

LEMMA RequestType ==
  ASSUME TypeOK, NEW c \in Slot, request[c].op # "idle" \/ request[c].open
  PROVE  request[c] \in Request
BY DEF TypeOK, Idle

\* Only request c changes.
LEMMA BecomeOne ==
  ASSUME TypeOK, NEW c \in Slot, NEW q, Become(c, q)
  PROVE  /\ request'[c] = q /\ \A d \in Slot \ {c} : request'[d] = request[d]
         /\ q \in Request \cup {Idle} => request' \in [Slot -> Request \cup {Idle}]
BY DEF Become, TypeOK

LEMMA AskedType ==
  ASSUME TypeOK, NEW op \in {"create", "update", "delete", "hook", "save"},
         NEW open \in BOOLEAN, NEW u \in User, NEW row \in Id \cup {None},
         NEW P \in SUBSET All, NEW revoke \in SUBSET User
  PROVE  Asked(op, open, u, row, P, revoke) \in Request
BY DEF Asked, Request, TypeOK

LEMMA ExcusedType ==
  ASSUME TypeOK, NEW u
  PROVE  /\ Excused(u) \subseteq Token
         /\ \A t \in Excused(u) : t.excused \/ (t \in tokens /\ t.user # u)
<1> SUFFICES ASSUME NEW t \in Excused(u)
             PROVE  t \in Token /\ (t.excused \/ (t \in tokens /\ t.user # u))
  OBVIOUS
<1>1. PICK s \in tokens : t = IF s.user = u THEN [s EXCEPT !.excused = TRUE] ELSE s
  BY DEF Excused
<1>2. s \in Token
  BY DEF TypeOK
<1>3. CASE s.user = u
  <2>1. t = [s EXCEPT !.excused = TRUE]
    BY <1>1, <1>3
  <2> QED
    BY <1>2, <2>1 DEF Token
<1>4. CASE s.user # u
  BY <1>1, <1>2, <1>4
<1> QED
  BY <1>3, <1>4

LEMMA ToDeleteType ==
  ASSUME NEW u, NEW i \in ToDelete(u)
  PROVE  IF i = None THEN RowsOf(u) = {} ELSE i \in RowsOf(u)
BY NoneAssumption DEF ToDelete, RowsOf

LEMMA InsertType ==
  ASSUME TypeOK, NEW c \in Slot, Insert(c)
  PROVE  TypeOK'
<1>1. request[c] \in Request
  BY RequestType DEF Insert
<1>2. request[c].user \in User /\ request[c].permissions \in SUBSET All
  BY <1>1 DEF Request
<1>3. rows' \in [Id -> Row]
  <2> DEFINE u == request[c].user
             twice == RowsOf(u) # {}
             new == [user |-> u, permissions |-> request[c].permissions,
                     excused |-> u = owner \/ twice]
  <2>1. PICK i \in Id :
          rows' = [j \in Id |-> IF j = i THEN new
                                ELSE [rows[j] EXCEPT !.excused = @ \/ j \in RowsOf(u)]]
    BY DEF Insert
  <2>2. new \in Row
    BY <1>2 DEF Row
  <2> HIDE DEF new
  <2>3. ASSUME NEW j \in Id
        PROVE  [rows[j] EXCEPT !.excused = @ \/ j \in RowsOf(u)] \in Row
    <3>1. rows[j] \in Row
      BY DEF TypeOK
    <3>2. (rows[j].excused \/ j \in RowsOf(u)) \in BOOLEAN
      BY <3>1 DEF Row
    <3> QED
      BY <3>1, <3>2 DEF Row
  <2> QED
    BY <2>1, <2>2, <2>3
<1> QED
  BY <1>3, BecomeOne DEF Insert, End, TypeOK

LEMMA RowChangeType ==
  ASSUME TypeOK, NEW c \in Slot, CommitRow(c) \/ Rollback(c) \/ CommitDetails(c)
  PROVE  TypeOK'
<1>1. request' \in [Slot -> Request \cup {Idle}]
  BY BecomeOne DEF CommitRow, Rollback, CommitDetails, End
<1>2. request[c] \in Request
  BY RequestType DEF CommitRow, Rollback, CommitDetails
<1>3. /\ request[c].user \in User /\ request[c].permissions \in SUBSET All
      /\ request[c].row \in Id \cup {None}
  BY <1>2 DEF Request
<1>4. \A i \in Id : rows[i] \in Row
  BY DEF TypeOK
<1>5. CASE CommitRow(c)
  <2>1. \A i \in Id : [rows[i] EXCEPT !.permissions = request[c].permissions] \in Row
    BY <1>3, <1>4 DEF Row
  <2>2. rows' \in [Id -> Row]
    BY <1>5, <2>1, NoRowType DEF CommitRow, TypeOK
  <2> QED
    BY <1>1, <1>5, <2>2 DEF CommitRow, TypeOK
<1>6. CASE Rollback(c)
  <2>1. \A i \in Id : [rows[i] EXCEPT !.excused = TRUE] \in Row
    BY <1>4 DEF Row
  <2>2. rows' \in [Id -> Row]
    BY <1>6, <2>1 DEF Rollback, TypeOK
  <2> QED
    BY <1>1, <1>6, <2>2 DEF Rollback, TypeOK
<1>7. CASE CommitDetails(c)
  <2>1. rows' \in [Id -> Row]
    BY <1>7, NoRowType DEF CommitDetails, TypeOK
  <2>2. owner' \in User /\ tokens' \subseteq Token
    BY <1>3, <1>7, ExcusedType DEF CommitDetails, TypeOK
  <2> QED
    BY <1>1, <1>7, <2>1, <2>2 DEF CommitDetails, TypeOK
<1> QED
  BY <1>5, <1>6, <1>7

LEMMA BeginType ==
  ASSUME TypeOK, NEW c \in Slot,
         \/ \E u \in User : BeginSave(c, u) \/ \E P \in SUBSET Permission : BeginCreate(c, u, P)
         \/ \E i \in Id : BeginDelete(c, i) \/ \E P \in SUBSET Permission : BeginUpdate(c, i, P)
  PROVE  TypeOK'
<1>2. \A i \in Id : rows[i].user \in User
  BY DEF TypeOK, Row
<1>3. PICK q \in Request : Become(c, q) /\ UNCHANGED <<owner, rows, asked, tokens>>
  BY WithConnect, <1>2, AskedType DEF BeginSave, BeginCreate, BeginDelete, BeginUpdate
<1> QED
  BY <1>3, BecomeOne DEF TypeOK

LEMMA StepType ==
  ASSUME TypeOK, NEW c \in Slot,
         CheckCreate(c) \/ Details(c) \/ SaveForm(c) \/ \E u \in User : Revoke(c, u)
  PROVE  TypeOK'
<1> DEFINE q == request[c]
<1>1. q \in Request
  BY RequestType DEF CheckCreate, Details, SaveForm, CanSave, Revoke
<1>2. /\ q.user \in User /\ q.loaded \in User /\ q.row \in Id \cup {None}
      /\ q.revoke \in SUBSET User
  BY <1>1 DEF Request
<1>3. CASE CheckCreate(c)
  <2>1. [q EXCEPT !.open = TRUE] \in Request
    BY <1>1 DEF Request
  <2> QED
    BY <1>3, <2>1, BecomeOne DEF CheckCreate, TypeOK
<1>4. CASE Details(c)
  <2>1. PICK i \in ToDelete(q.user) :
          Become(c, [q EXCEPT !.open = TRUE, !.row = i,
                       !.revoke = (IF Dirty(q) THEN {q.loaded} ELSE {})
                                  \cup (IF i = None THEN {} ELSE {q.user})])
    BY <1>4 DEF Details
  <2>2. i \in Id \cup {None}
    BY DEF ToDelete, RowsOf
  <2> DEFINE R == (IF Dirty(q) THEN {q.loaded} ELSE {})
                  \cup (IF i = None THEN {} ELSE {q.user})
  <2>3. R \in SUBSET User
    BY <1>2
  <2> HIDE DEF R
  <2>4. [q EXCEPT !.open = TRUE, !.row = i, !.revoke = R] \in Request
    BY <1>1, <2>2, <2>3 DEF Request
  <2> QED
    BY <1>4, <2>1, <2>4, BecomeOne DEF Details, TypeOK, R
<1>5. CASE SaveForm(c)
  <2>1. request' \in [Slot -> Request \cup {Idle}]
    <3>1. \A i \in Id : [q EXCEPT !.op = "hook", !.open = TRUE, !.row = i,
                                  !.revoke = {q.user}] \in Request
      BY <1>1, <1>2 DEF Request
    <3>2. \A i \in ToDelete(q.user) : i # None => i \in Id
      BY DEF ToDelete, RowsOf
    <3> QED
      BY <1>5, <3>1, <3>2, BecomeOne DEF SaveForm, End
  <2>2. owner' \in User /\ tokens' \subseteq Token
    BY <1>2, <1>5, ExcusedType DEF SaveForm, TypeOK
  <2> QED
    BY <1>5, <2>1, <2>2 DEF SaveForm, TypeOK
<1>6. ASSUME NEW u \in User, Revoke(c, u)
      PROVE  TypeOK'
  <2>1. [q EXCEPT !.revoke = @ \ {u}] \in Request
    BY <1>1, <1>2 DEF Request
  <2>2. tokens' \subseteq Token
    BY <1>6, ExcusedType DEF Revoke, TypeOK
  <2> QED
    BY <1>6, <2>1, <2>2, BecomeOne DEF Revoke, TypeOK
<1> QED
  BY <1>3, <1>4, <1>5, <1>6

LEMMA TokenType ==
  ASSUME TypeOK, NEW u \in User, Ask(u) \/ Issue(u)
  PROVE  TypeOK'
<1>1. CASE Ask(u)
  <2>1. Readings(u) \subseteq SUBSET All
    BY DEF Readings, RowsOf, TypeOK, Row
  <2> QED
    BY <1>1, <2>1 DEF Ask, TypeOK
<1>2. CASE Issue(u)
  <2>1. Overtaken(u) \in BOOLEAN /\ asked[u] \in SUBSET All
    BY DEF Overtaken, TypeOK
  <2>2. [user |-> u, permissions |-> asked[u], excused |-> Overtaken(u)] \in Token
    BY <2>1 DEF Token
  <2> QED
    BY <1>2, <2>2 DEF Issue, TypeOK
<1> QED
  BY <1>1, <1>2

THEOREM TypeCorrect == Spec => []TypeOK
<1>1. Init => TypeOK
  BY NoRowType DEF Init, TypeOK
<1>2. TypeOK /\ [Next]_vars => TypeOK'
  <2> SUFFICES ASSUME TypeOK, [Next]_vars PROVE TypeOK'
    OBVIOUS
  <2>1. ASSUME NEW c \in Slot, Change(c) PROVE TypeOK'
    BY <2>1, InsertType, RowChangeType, BeginType, StepType DEF Change
  <2>2. ASSUME NEW t \in tokens, Expire(t) PROVE TypeOK'
    BY <2>2 DEF Expire, TypeOK
  <2>3. CASE UNCHANGED vars
    BY <2>3 DEF vars, TypeOK
  <2> QED
    BY <2>1, <2>2, <2>3, TokenType DEF Next
<1> QED
  BY <1>1, <1>2, PTL DEF Spec

-----------------------------------------------------------------------------
(* Locks: a row that a request has written exists until it commits, and is    *)
(* written by nobody else; one request at a time gives the server away.       *)

Writes(c, i) == request[c].open /\ request[c].row = i

Held ==
  /\ \A c \in Slot :
       /\ request[c].op \in {"update", "delete", "hook"} => request[c].open /\ request[c].row \in Id
       /\ request[c].op = "create" => request[c].row = None
  /\ \A c \in Slot, i \in Id : Writes(c, i) =>
       /\ i \in RowsOf(request[c].user)
       /\ \A d \in Slot \ {c} : ~Writes(d, i)
  /\ \A c, d \in Slot :
       request[c].open /\ Dirty(request[c]) /\ request[d].open /\ Dirty(request[d]) => c = d

\* Only request c changes.
Only(c) == \A d \in Slot \ {c} : request'[d] = request[d]

\* What another request has written is kept.
Keeps(c) ==
  \A d \in Slot \ {c}, i \in Id :
    Writes(d, i) => rows'[i].user = rows[i].user /\ Exists(i)'

LEMMA HeldBy ==
  ASSUME TypeOK, Held, NEW c \in Slot, Only(c), Keeps(c),
         request'[c].op \in {"update", "delete", "hook"} =>
           request'[c].open /\ request'[c].row \in Id,
         request'[c].op = "create" => request'[c].row = None,
         \A i \in Id : Writes(c, i)' =>
           i \in RowsOf(request[c].user)' /\ \A d \in Slot \ {c} : ~Writes(d, i),
         request'[c].open /\ Dirty(request'[c]) =>
           \A d \in Slot \ {c} : ~(request[d].open /\ Dirty(request[d]))
  PROVE  Held'
<1>1. \A d \in Slot :
        /\ request'[d].op \in {"update", "delete", "hook"} =>
             request'[d].open /\ request'[d].row \in Id
        /\ request'[d].op = "create" => request'[d].row = None
  BY DEF Held, Only
<1>2. ASSUME NEW d \in Slot \ {c}, NEW i \in Id, Writes(d, i)'
      PROVE  /\ i \in RowsOf(request[d].user)'
             /\ \A e \in Slot \ {d} : ~Writes(e, i)'
  <2>1. Writes(d, i) /\ request'[d] = request[d]
    BY <1>2 DEF Writes, Only
  <2>2. i \in RowsOf(request[d].user) /\ \A e \in Slot \ {d} : ~Writes(e, i)
    BY <2>1 DEF Held
  <2>3. i \in RowsOf(request[d].user)'
    BY <2>1, <2>2 DEF Keeps, RowsOf
  <2>4. ASSUME NEW e \in Slot \ {d}
        PROVE  ~Writes(e, i)'
    BY <2>1, <2>2 DEF Only, Writes
  <2> QED
    BY <2>3, <2>4
<1>3. \A d, e \in Slot : request'[d].open /\ Dirty(request'[d])
                         /\ request'[e].open /\ Dirty(request'[e]) => d = e
  BY DEF Held, Only
<1>4. \A i \in Id : Writes(c, i)' => \A d \in Slot \ {c} : ~Writes(d, i)'
  BY DEF Only, Writes
<1> QED
  BY <1>1, <1>2, <1>3, <1>4 DEF Held

LEMMA BeginHeld ==
  ASSUME TypeOK, Held, NEW c \in Slot,
         \/ CheckCreate(c)
         \/ \E u \in User : BeginSave(c, u) \/ \E P \in SUBSET Permission : BeginCreate(c, u, P)
         \/ \E i \in Id : BeginDelete(c, i) \/ \E P \in SUBSET Permission : BeginUpdate(c, i, P)
  PROVE  Held' /\ Only(c) /\ UNCHANGED <<owner, rows, tokens>>
<1>1. Only(c) /\ UNCHANGED <<owner, rows, tokens>>
  BY BecomeOne DEF Only, CheckCreate, BeginSave, BeginCreate, BeginDelete, BeginUpdate
<1>2. Keeps(c)
  BY <1>1 DEF Keeps, Held, RowsOf, Exists
<1>3. CASE CheckCreate(c)
  <2>1. /\ request'[c] = [request[c] EXCEPT !.open = TRUE] /\ request[c] \in Request
        /\ request[c].op = "create" /\ request'[c].op = "create"
    BY <1>3, BecomeOne, RequestType DEF CheckCreate, Request
  <2>2. request[c].row = None /\ request'[c].row = None
    BY <2>1 DEF Held, Request
  <2> QED
    BY <1>1, <1>2, <2>1, <2>2, NoneAssumption, HeldBy DEF Writes, Dirty
<1>4. ASSUME NEW u \in User,
             BeginSave(c, u) \/ \E P \in SUBSET Permission : BeginCreate(c, u, P)
      PROVE  Held'
  <2>1. /\ ~request'[c].open /\ request'[c].op \in {"save", "create"}
        /\ request'[c].row = None
    <3>1. PICK op \in {"save", "create"}, P \in SUBSET All :
            Become(c, Asked(op, FALSE, u, None, P, {}))
      BY <1>4, WithConnect DEF BeginSave, BeginCreate
    <3>2. request'[c] = Asked(op, FALSE, u, None, P, {})
      BY <3>1, BecomeOne
    <3> QED
      BY <3>1, <3>2 DEF Asked
  <2> QED
    BY <1>1, <1>2, <2>1, HeldBy DEF Writes
<1>5. ASSUME NEW i \in Id,
             BeginDelete(c, i) \/ \E P \in SUBSET Permission : BeginUpdate(c, i, P)
      PROVE  Held'
  <2>1. /\ request'[c].op \in {"update", "delete"} /\ request'[c].open
        /\ request'[c].row = i /\ request'[c].user = rows[i].user
        /\ Exists(i) /\ ~Locked(i)
    <3>1. PICK op \in {"update", "delete"}, P \in SUBSET All :
            Become(c, Asked(op, TRUE, rows[i].user, i, P, {rows[i].user}))
      BY <1>5, WithConnect DEF BeginDelete, BeginUpdate
    <3>2. request'[c] = Asked(op, TRUE, rows[i].user, i, P, {rows[i].user})
      BY <3>1, BecomeOne
    <3>3. Exists(i) /\ ~Locked(i)
      BY <1>5 DEF BeginDelete, BeginUpdate
    <3> QED
      BY <3>1, <3>2, <3>3 DEF Asked
  <2>2. ~Dirty(request'[c])
    BY <2>1 DEF Dirty
  <2>3. i \in RowsOf(request[c].user)'
    BY <1>1, <2>1 DEF RowsOf, Exists
  <2> QED
    BY <1>1, <1>2, <2>1, <2>2, <2>3, HeldBy DEF Writes, Locked
<1> QED
  BY <1>1, <1>3, <1>4, <1>5

\* Nothing is inserted.
Shrinks ==
  \A i \in Id : Exists(i)' =>
    Exists(i) /\ rows'[i].user = rows[i].user /\ (rows[i].excused => rows'[i].excused)

LEMMA EndHeld ==
  ASSUME TypeOK, Held, NEW c \in Slot, CommitRow(c) \/ Rollback(c) \/ CommitDetails(c)
  PROVE  /\ Held' /\ Only(c) /\ Shrinks /\ request'[c] = Idle
         /\ \A i \in Id : request[c].row # i =>
              rows'[i].permissions = rows[i].permissions /\ rows'[i].user = rows[i].user
<1>1. Only(c) /\ request'[c] = Idle
  BY BecomeOne DEF CommitRow, Rollback, CommitDetails, End, Only
<1>2. /\ \A i \in Id : request[c].row # i => rows'[i] = rows[i] \/
           (rows'[i].permissions = rows[i].permissions /\ rows'[i].user = rows[i].user)
      /\ Shrinks
  <2>0. \A i \in Id : rows[i] \in Row
    BY DEF TypeOK
  <2>1. CASE CommitRow(c)
    <3>1. PICK k \in Id : k = request[c].row /\ k \in RowsOf(request[c].user)
      BY <2>1 DEF CommitRow, Held, Writes
    <3>2. Exists(k)
      BY <3>1 DEF RowsOf
    <3>3. \A i \in Id : i # k => rows'[i] = rows[i]
      BY <2>1, <3>1 DEF CommitRow, TypeOK
    <3>4. \/ rows'[k] = NoRow
          \/ rows'[k] =
               [rows[k] EXCEPT !.permissions = request[c].permissions]
      BY <2>1, <3>1 DEF CommitRow, TypeOK
    <3>5. Exists(k)' =>
            /\ rows'[k].user = rows[k].user
            /\ rows'[k].excused = rows[k].excused
      <4>1. CASE rows'[k] = NoRow
        BY <4>1, NoRowType DEF Exists
      <4>2. CASE rows'[k] =
                   [rows[k] EXCEPT !.permissions = request[c].permissions]
        BY <2>0, <3>1, <4>2 DEF Row
      <4> QED
        BY <3>4, <4>1, <4>2
    <3>6. Shrinks
      <4> SUFFICES ASSUME NEW i \in Id, Exists(i)'
                   PROVE  /\ Exists(i) /\ rows'[i].user = rows[i].user
                          /\ rows[i].excused => rows'[i].excused
        BY DEF Shrinks
      <4>1. CASE i = k
        BY <3>2, <3>5, <4>1
      <4>2. CASE i # k
        BY <3>3, <4>2 DEF Exists
      <4> QED
        BY <4>1, <4>2
    <3> QED
      BY <3>1, <3>3, <3>6
  <2>2. CASE Rollback(c)
    <3>1. \A i \in Id : rows'[i] = rows[i] \/ rows'[i] = [rows[i] EXCEPT !.excused = TRUE]
      BY <2>2 DEF Rollback, TypeOK
    <3>2. \A i \in Id : /\ rows'[i].permissions = rows[i].permissions
                        /\ rows'[i].user = rows[i].user
                        /\ rows[i].excused => rows'[i].excused
      BY <2>0, <3>1 DEF Row
    <3> QED
      BY <3>2 DEF Shrinks, Exists
  <2>3. CASE CommitDetails(c)
    <3>1. \A i \in Id : \/ rows'[i] = rows[i]
                        \/ i = request[c].row /\ rows'[i] = NoRow
      BY <2>3 DEF CommitDetails, TypeOK
    <3> QED
      BY <3>1, NoRowType DEF Shrinks, Exists
  <2> QED
    BY <2>1, <2>2, <2>3
<1>3. \A i \in Id : request[c].row # i =>
        rows'[i].permissions = rows[i].permissions /\ rows'[i].user = rows[i].user
  BY <1>2
<1>4. Keeps(c)
  <2> SUFFICES ASSUME NEW d \in Slot \ {c}, NEW i \in Id, Writes(d, i)
               PROVE  rows'[i].user = rows[i].user /\ Exists(i)'
    BY DEF Keeps
  <2>1. Exists(i)
    BY DEF Held, RowsOf
  <2>2. CASE request[c].row # i
    BY <1>3, <2>1, <2>2 DEF Exists
  <2>3. CASE request[c].row = i
    <3>1. ~request[c].open
      BY <2>3 DEF Held, Writes
    <3>2. Rollback(c) /\ request[c].op # "hook"
      BY <3>1 DEF Held, CommitRow, CommitDetails
    <3> QED
      BY <2>1, <3>2 DEF Rollback, Exists
  <2> QED
    BY <2>2, <2>3
<1> QED
  BY <1>1, <1>2, <1>3, <1>4, HeldBy DEF Idle, Writes

LEMMA InsertHeld ==
  ASSUME TypeOK, Held, NEW c \in Slot, Insert(c)
  PROVE  /\ Held' /\ Only(c) /\ request'[c] = Idle /\ ~ServerLocked
         /\ \E i \in Id :
              /\ ~Exists(i) /\ ~Locked(i)
              /\ rows'[i].user = request[c].user
              /\ request[c].user = owner \/ RowsOf(request[c].user) # {} => rows'[i].excused
              /\ \A j \in Id \ {i} :
                   /\ rows'[j].user = rows[j].user
                   /\ rows'[j].permissions = rows[j].permissions
                   /\ rows[j].excused \/ j \in RowsOf(request[c].user) => rows'[j].excused
<1>1. Only(c) /\ request'[c] = Idle /\ ~ServerLocked
  BY BecomeOne DEF Insert, End, Only
<1> PICK u : u = request[c].user
  OBVIOUS
<1>2. PICK i \in Id :
        /\ Unused(i)
        /\ rows' = [j \in Id |->
             IF j = i
             THEN [user |-> u, permissions |-> request[c].permissions,
                   excused |-> u = owner \/ RowsOf(u) # {}]
             ELSE [rows[j] EXCEPT !.excused = @ \/ j \in RowsOf(u)]]
  BY DEF Insert
<1>3. /\ ~Exists(i) /\ ~Locked(i)
      /\ rows'[i].user = u
      /\ u = owner \/ RowsOf(u) # {} => rows'[i].excused
  BY <1>2 DEF Unused
<1>4. ASSUME NEW j \in Id \ {i}
      PROVE  /\ rows'[j].user = rows[j].user
             /\ rows'[j].permissions = rows[j].permissions
             /\ rows[j].excused \/ j \in RowsOf(u) => rows'[j].excused
  <2>1. rows'[j] = [rows[j] EXCEPT !.excused = @ \/ j \in RowsOf(u)]
    BY <1>2
  <2>2. rows[j] \in Row
    BY DEF TypeOK
  <2> QED
    BY <2>1, <2>2 DEF Row
<1>5. Keeps(c)
  BY <1>3, <1>4 DEF Keeps, Held, Locked, Writes, RowsOf, Exists
<1>6. Held'
  BY <1>1, <1>5, HeldBy DEF Idle, Writes
<1> QED
  BY <1>1, <1>3, <1>4, <1>6

LEMMA RevokeHeld ==
  ASSUME TypeOK, Held, NEW c \in Slot, NEW u \in User, Revoke(c, u)
  PROVE  /\ Held' /\ Only(c) /\ UNCHANGED <<owner, rows>>
         /\ request'[c] = [request[c] EXCEPT !.revoke = @ \ {u}]
         /\ request[c] \in Request
<1>1. /\ Only(c) /\ UNCHANGED <<owner, rows>>
      /\ request'[c] = [request[c] EXCEPT !.revoke = @ \ {u}]
      /\ request[c] \in Request
  BY BecomeOne, RequestType DEF Revoke, Only
<1>2. /\ request'[c].op = request[c].op /\ request'[c].open = request[c].open
      /\ request'[c].row = request[c].row /\ request'[c].user = request[c].user
      /\ request'[c].loaded = request[c].loaded
  BY <1>1 DEF Request
<1>3. Keeps(c)
  BY <1>1 DEF Keeps, Held, RowsOf, Exists
<1>4. \A i \in Id : Writes(c, i)' =>
        i \in RowsOf(request[c].user)' /\ \A d \in Slot \ {c} : ~Writes(d, i)
  BY <1>1, <1>2 DEF Held, Writes, RowsOf, Exists
<1>5. request'[c].open /\ Dirty(request'[c]) =>
        \A d \in Slot \ {c} : ~(request[d].open /\ Dirty(request[d]))
  BY <1>2 DEF Held, Dirty
<1>6. request'[c].op \in {"update", "delete", "hook"} =>
        request'[c].open /\ request'[c].row \in Id
  BY <1>2 DEF Held
<1>7. request'[c].op = "create" => request'[c].row = None
  BY <1>2 DEF Held
<1> QED
  BY <1>1, <1>3, <1>4, <1>5, <1>6, <1>7, HeldBy

LEMMA DetailsHeld ==
  ASSUME TypeOK, Held, NEW c \in Slot, Details(c)
  PROVE  /\ Held' /\ Only(c) /\ UNCHANGED <<owner, rows, tokens>> /\ request[c] \in Request
         /\ \E i \in ToDelete(request[c].user) :
              request'[c] =
                [request[c] EXCEPT !.open = TRUE, !.row = i,
                   !.revoke = (IF Dirty(request[c]) THEN {request[c].loaded} ELSE {})
                              \cup (IF i = None THEN {} ELSE {request[c].user})]
<1> PICK q : q = request[c]
  OBVIOUS
<1>1. /\ Only(c) /\ UNCHANGED <<owner, rows, tokens>> /\ q \in Request
      /\ q.op = "save"
      /\ Dirty(q) => ~ServerLocked
  BY RequestType, BecomeOne DEF Details, CanSave, Only
<1>2. PICK i \in ToDelete(q.user) :
        /\ i # None => ~Locked(i)
        /\ request'[c] = [q EXCEPT !.open = TRUE, !.row = i,
                            !.revoke = (IF Dirty(q) THEN {q.loaded} ELSE {})
                                       \cup (IF i = None THEN {} ELSE {q.user})]
  BY BecomeOne DEF Details
<1>3. /\ request'[c].op = "save" /\ request'[c].row = i /\ request'[c].user = q.user
      /\ Dirty(request'[c]) => Dirty(q)
  BY <1>1, <1>2 DEF Request, Dirty
<1>4. Keeps(c)
  BY <1>1 DEF Keeps, Held, RowsOf, Exists
<1>5. \A j \in Id : Writes(c, j)' =>
        j \in RowsOf(request[c].user)' /\ \A d \in Slot \ {c} : ~Writes(d, j)
  <2> SUFFICES ASSUME NEW j \in Id, Writes(c, j)'
               PROVE  j \in RowsOf(request[c].user)' /\ \A d \in Slot \ {c} : ~Writes(d, j)
    OBVIOUS
  <2>1. j = i /\ i # None
    BY <1>3, NoneAssumption DEF Writes
  <2>2. j \in RowsOf(q.user)
    BY <2>1, ToDeleteType
  <2> QED
    BY <1>1, <1>2, <1>3, <2>1, <2>2 DEF RowsOf, Exists, Locked, Writes
<1>6. request'[c].open /\ Dirty(request'[c]) =>
        \A d \in Slot \ {c} : ~(request[d].open /\ Dirty(request[d]))
  BY <1>1, <1>3 DEF ServerLocked
<1>7. Held'
  BY <1>1, <1>3, <1>4, <1>5, <1>6, HeldBy
<1> QED
  BY <1>1, <1>2, <1>7

LEMMA FormHeld ==
  ASSUME TypeOK, Held, NEW c \in Slot, SaveForm(c)
  PROVE  /\ Held' /\ Only(c) /\ UNCHANGED rows
         /\ request[c].op = "save" /\ request[c] \in Request
         /\ Dirty(request[c]) => ~ServerLocked
         /\ \E i \in ToDelete(request[c].user) :
              request'[c] = IF i = None THEN Idle
                            ELSE [request[c] EXCEPT !.op = "hook", !.open = TRUE, !.row = i,
                                                    !.revoke = {request[c].user}]
<1> PICK q : q = request[c]
  OBVIOUS
<1>1. /\ UNCHANGED rows /\ q \in Request /\ q.op = "save"
      /\ Dirty(q) => ~ServerLocked
  BY RequestType DEF SaveForm, CanSave
<1>2. PICK i \in ToDelete(q.user) :
        IF i = None THEN Become(c, Idle)
        ELSE /\ ~Locked(i)
             /\ Become(c, [q EXCEPT !.op = "hook", !.open = TRUE, !.row = i,
                                    !.revoke = {q.user}])
  BY DEF SaveForm, End
<1>3. /\ Only(c)
      /\ request'[c] = IF i = None THEN Idle
                       ELSE [q EXCEPT !.op = "hook", !.open = TRUE, !.row = i,
                                      !.revoke = {q.user}]
  BY <1>2, BecomeOne DEF Only
<1>4. Keeps(c)
  BY <1>1 DEF Keeps, Held, RowsOf, Exists
<1>5. CASE i = None
  <2>1. request'[c].op = "idle" /\ ~request'[c].open
    BY <1>3, <1>5 DEF Idle
  <2>2. Held'
    BY <1>3, <1>4, <2>1, HeldBy DEF Writes
  <2> QED
    BY <1>1, <1>3, <2>2
<1>6. CASE i # None
  <2>1. /\ request'[c].op = "hook" /\ request'[c].row = i /\ request'[c].user = q.user
        /\ request'[c].open /\ ~Dirty(request'[c])
    BY <1>1, <1>3, <1>6 DEF Request, Dirty
  <2>2. i \in RowsOf(q.user) /\ ~Locked(i)
    BY <1>2, <1>6, ToDeleteType
  <2>3. i \in RowsOf(request[c].user)'
    BY <1>1, <2>1, <2>2 DEF RowsOf, Exists
  <2>4. Held'
    BY <1>3, <1>4, <2>1, <2>2, <2>3, HeldBy DEF Writes, Locked, RowsOf
  <2> QED
    BY <1>1, <1>3, <2>4
<1> QED
  BY <1>5, <1>6

-----------------------------------------------------------------------------
(* The owner.  OwnerIsNoSubuser is not inductive: of two rows of a user both  *)
(* must be excused, for the hook deletes one; and a request that is about to  *)
(* give the server away must have found all there is of its new owner.        *)

Twins ==
  \A i, j \in Id :
    i # j /\ Exists(i) /\ Exists(j) /\ rows[i].user = rows[j].user => rows[i].excused

Found(q) == \A i \in RowsOf(q.user) : rows[i].excused \/ q.row = i

AboutToSave == \A c \in Slot : request[c].open /\ Dirty(request[c]) => Found(request[c])

OwnerInv == Held /\ Twins /\ AboutToSave /\ OwnerIsNoSubuser

\* Nothing is inserted, and the owner stays.
LEMMA ShrinkOwner ==
  ASSUME TypeOK, OwnerInv, Held', NEW c \in Slot, Only(c), Shrinks, UNCHANGED owner,
         request[c].op = "hook" =>
           \A i \in Id : request[c].row = i /\ Exists(i)' =>
             rows'[i].excused \/ (request'[c].op = "hook" /\ request'[c].row = i),
         request'[c].open /\ Dirty(request'[c]) =>
           \A i \in RowsOf(request'[c].user) : rows[i].excused \/ request'[c].row = i
  PROVE  OwnerInv'
<1>1. Twins'
  BY DEF OwnerInv, Twins, Shrinks
<1>2. ASSUME NEW d \in Slot, request'[d].open, Dirty(request'[d]), NEW i \in RowsOf(request[d].user)'
      PROVE  rows'[i].excused \/ request'[d].row = i
  <2>1. i \in RowsOf(request'[d].user) /\ (rows[i].excused => rows'[i].excused)
    BY <1>2 DEF Shrinks, RowsOf, Exists
  <2>2. CASE d = c
    BY <1>2, <2>1, <2>2
  <2>3. CASE d # c
    BY <1>2, <2>1, <2>3 DEF OwnerInv, AboutToSave, Found, Only
  <2> QED
    BY <2>2, <2>3
<1>3. AboutToSave'
  BY <1>2 DEF AboutToSave, Found
<1>4. OwnerIsNoSubuser'
  <2> SUFFICES ASSUME NEW i \in RowsOf(owner)'
               PROVE  \/ rows'[i].excused
                      \/ \E d \in Slot : request'[d].op = "hook" /\ request'[d].row = i
    BY DEF OwnerIsNoSubuser
  <2>1. /\ i \in RowsOf(owner) /\ i \in Id /\ Exists(i)'
        /\ rows[i].excused => rows'[i].excused
    BY DEF Shrinks, RowsOf, Exists
  <2>2. CASE rows[i].excused
    BY <2>1, <2>2
  <2>3. CASE ~rows[i].excused
    <3>1. PICK d \in Slot : request[d].op = "hook" /\ request[d].row = i
      BY <2>1, <2>3 DEF OwnerInv, OwnerIsNoSubuser
    <3> QED
      BY <2>1, <3>1 DEF Only
  <2> QED
    BY <2>2, <2>3
<1> QED
  BY <1>1, <1>3, <1>4 DEF OwnerInv

LEMMA OwnerStep ==
  ASSUME TypeOK, OwnerInv, NEW c \in Slot, Change(c)
  PROVE  OwnerInv'
<1> Held /\ Twins /\ AboutToSave /\ OwnerIsNoSubuser
  BY DEF OwnerInv
<1>1. CASE \/ CheckCreate(c)
           \/ \E u \in User : BeginSave(c, u) \/ \E P \in SUBSET Permission : BeginCreate(c, u, P)
           \/ \E i \in Id : BeginDelete(c, i) \/ \E P \in SUBSET Permission : BeginUpdate(c, i, P)
  <2>1. Held' /\ Only(c) /\ UNCHANGED <<owner, rows>>
    BY <1>1, BeginHeld
  <2>2. Shrinks
    BY <2>1 DEF Shrinks, Exists
  <2>3. request[c].op # "hook"
    BY <1>1 DEF CheckCreate, BeginSave, BeginCreate, BeginDelete, BeginUpdate
  <2>4. ~(request'[c].open /\ Dirty(request'[c]))
    <3>1. CASE CheckCreate(c)
      <4>1. request'[c] = [request[c] EXCEPT !.open = TRUE] /\ request[c] \in Request
            /\ request[c].op = "create"
        BY <3>1, BecomeOne, RequestType DEF CheckCreate
      <4> QED
        BY <4>1 DEF Request, Dirty
    <3>2. ASSUME NEW u \in User,
                 BeginSave(c, u) \/ \E P \in SUBSET Permission : BeginCreate(c, u, P)
          PROVE  ~request'[c].open
      <4>1. PICK op \in {"save", "create"}, P \in SUBSET All :
              Become(c, Asked(op, FALSE, u, None, P, {}))
        BY <3>2, WithConnect DEF BeginSave, BeginCreate
      <4>2. request'[c] = Asked(op, FALSE, u, None, P, {})
        BY <4>1, BecomeOne
      <4> QED
        BY <4>2 DEF Asked
    <3>3. ASSUME NEW i \in Id,
                 BeginDelete(c, i) \/ \E P \in SUBSET Permission : BeginUpdate(c, i, P)
          PROVE  request'[c].op # "save"
      <4>1. PICK op \in {"update", "delete"}, P \in SUBSET All :
              Become(c, Asked(op, TRUE, rows[i].user, i, P, {rows[i].user}))
        BY <3>3, WithConnect DEF BeginDelete, BeginUpdate
      <4>2. request'[c] = Asked(op, TRUE, rows[i].user, i, P, {rows[i].user})
        BY <4>1, BecomeOne
      <4> QED
        BY <4>1, <4>2 DEF Asked
    <3> QED
      BY <1>1, <3>1, <3>2, <3>3 DEF Dirty
  <2> QED
    BY <2>1, <2>2, <2>3, <2>4, ShrinkOwner
<1>2. CASE Insert(c)
  <2>1. PICK i \in Id :
              /\ ~Exists(i)
              /\ rows'[i].user = request[c].user
              /\ request[c].user = owner \/ RowsOf(request[c].user) # {} => rows'[i].excused
              /\ \A j \in Id \ {i} :
                   /\ rows'[j].user = rows[j].user
                   /\ rows'[j].permissions = rows[j].permissions
                   /\ rows[j].excused \/ j \in RowsOf(request[c].user) => rows'[j].excused
    BY <1>2, InsertHeld
  <2>2. Held' /\ Only(c) /\ request'[c] = Idle /\ ~ServerLocked
    BY <1>2, InsertHeld
  <2>3. UNCHANGED owner /\ request[c].op = "create"
    BY <1>2 DEF Insert
  <2>4. Twins'
    BY <2>1 DEF Twins, RowsOf, Exists
  <2>5. AboutToSave'
    BY <2>2 DEF AboutToSave, ServerLocked, Only, Idle
  <2>6. OwnerIsNoSubuser'
    <3> SUFFICES ASSUME NEW j \in RowsOf(owner)', ~rows'[j].excused
                 PROVE  \E d \in Slot : request'[d].op = "hook" /\ request'[d].row = j
      BY DEF OwnerIsNoSubuser
    <3>1. j \in Id /\ Exists(j)' /\ rows'[j].user = owner
      BY <2>3 DEF RowsOf
    <3>2. j # i
      BY <2>1, <3>1
    <3>3. j \in RowsOf(owner) /\ ~rows[j].excused
      BY <2>1, <3>1, <3>2 DEF RowsOf, Exists
    <3>4. PICK d \in Slot : request[d].op = "hook" /\ request[d].row = j
      BY <3>3 DEF OwnerIsNoSubuser
    <3> QED
      BY <2>2, <2>3, <3>4 DEF Only
  <2> QED
    BY <2>2, <2>4, <2>5, <2>6 DEF OwnerInv
<1>3. CASE CommitRow(c) \/ Rollback(c)
  <2>1. Held' /\ Only(c) /\ Shrinks /\ request'[c] = Idle /\ UNCHANGED owner
    BY <1>3, EndHeld DEF CommitRow, Rollback
  <2>2. request[c].op = "hook" =>
          \A i \in Id : request[c].row = i /\ Exists(i)' => rows'[i].excused
    <3> SUFFICES ASSUME request[c].op = "hook", NEW i \in Id, request[c].row = i, Exists(i)'
                 PROVE  rows'[i].excused
      OBVIOUS
    <3>1. CASE CommitRow(c)
      BY <3>1, NoRowType DEF CommitRow, TypeOK, Exists
    <3>2. CASE Rollback(c)
      <4>1. rows'[i] = [rows[i] EXCEPT !.excused = TRUE] /\ rows[i] \in Row
        BY <3>2 DEF Rollback, TypeOK
      <4> QED
        BY <4>1 DEF Row
    <3> QED
      BY <1>3, <3>1, <3>2
  <2>3. ~request'[c].open
    BY <2>1 DEF Idle
  <2> QED
    BY <2>1, <2>2, <2>3, ShrinkOwner
<1>4. CASE Details(c)
  <2>1. Held' /\ Only(c) /\ UNCHANGED <<owner, rows>> /\ request[c] \in Request
    BY <1>4, DetailsHeld
  <2>2. Shrinks /\ request[c].op = "save"
    BY <1>4, <2>1 DEF Shrinks, Exists, Details, CanSave
  <2>3. \A i \in RowsOf(request'[c].user) : rows[i].excused \/ request'[c].row = i
    <3>1. PICK k \in ToDelete(request[c].user) :
              request'[c] =
                [request[c] EXCEPT !.open = TRUE, !.row = k,
                   !.revoke = (IF Dirty(request[c]) THEN {request[c].loaded} ELSE {})
                              \cup (IF k = None THEN {} ELSE {request[c].user})]
      BY <1>4, DetailsHeld
    <3>2. request'[c].user = request[c].user /\ request'[c].row = k
      BY <2>1, <3>1 DEF Request
    <3>3. IF k = None THEN RowsOf(request[c].user) = {} ELSE k \in RowsOf(request[c].user)
      BY ToDeleteType
    <3> QED
      BY <3>2, <3>3 DEF Twins, RowsOf
  <2> QED
    BY <2>1, <2>2, <2>3, ShrinkOwner
<1>5. ASSUME NEW u \in User, Revoke(c, u)
      PROVE  OwnerInv'
  <2>1. /\ Held' /\ Only(c) /\ UNCHANGED <<owner, rows>>
        /\ request'[c] = [request[c] EXCEPT !.revoke = @ \ {u}]
        /\ request[c] \in Request
    BY <1>5, RevokeHeld
  <2>2. /\ request'[c].op = request[c].op /\ request'[c].open = request[c].open
        /\ request'[c].row = request[c].row /\ request'[c].user = request[c].user
        /\ request'[c].loaded = request[c].loaded
    BY <2>1 DEF Request
  <2>3. Shrinks
    BY <2>1 DEF Shrinks, Exists
  <2>4. request'[c].open /\ Dirty(request'[c]) =>
           \A i \in RowsOf(request'[c].user) : rows[i].excused \/ request'[c].row = i
    BY <2>2 DEF AboutToSave, Found, Dirty
  <2> QED
    BY <2>1, <2>2, <2>3, <2>4, ShrinkOwner
<1>6. CASE CommitDetails(c)
  <2>1. Held' /\ Only(c) /\ Shrinks /\ request'[c] = Idle
    BY <1>6, EndHeld
  <2>2. request[c].op = "save" /\ request[c].open
    BY <1>6 DEF CommitDetails
  <2>3. ~request'[c].open
    BY <2>1 DEF Idle
  <2>4. CASE ~Dirty(request[c])
    BY <1>6, <2>1, <2>2, <2>3, <2>4, ShrinkOwner DEF CommitDetails
  <2>5. CASE Dirty(request[c])
    <3>1. owner' = request[c].user
      BY <1>6, <2>5 DEF CommitDetails
    <3>2. Twins'
      BY <2>1 DEF Twins, Shrinks
    <3>3. AboutToSave'
      BY <2>1, <2>2, <2>3, <2>5 DEF AboutToSave, Held, Only
    <3>4. \A i \in RowsOf(owner)' : rows'[i].excused
      <4> SUFFICES ASSUME NEW i \in Id, Exists(i)', rows'[i].user = request[c].user
                   PROVE  rows'[i].excused
        BY <3>1 DEF RowsOf
      <4>1. i \in RowsOf(request[c].user) /\ (rows[i].excused => rows'[i].excused)
        BY <2>1 DEF Shrinks, RowsOf
      <4>2. request[c].row # i
        BY <1>6, NoRowType, NoneAssumption DEF CommitDetails, TypeOK, Exists
      <4> QED
        BY <2>2, <2>5, <4>1, <4>2 DEF AboutToSave, Found
    <3> QED
      BY <2>1, <3>2, <3>3, <3>4 DEF OwnerInv, OwnerIsNoSubuser
  <2> QED
    BY <2>4, <2>5
<1>7. CASE SaveForm(c)
  <2>1. /\ Held' /\ Only(c) /\ UNCHANGED rows /\ request[c].op = "save"
        /\ request[c] \in Request
        /\ (Dirty(request[c]) => ~ServerLocked)
    BY <1>7, FormHeld
  <2>2. PICK k \in ToDelete(request[c].user) :
              request'[c] = IF k = None THEN Idle
                            ELSE [request[c] EXCEPT !.op = "hook", !.open = TRUE, !.row = k,
                                                    !.revoke = {request[c].user}]
    BY <1>7, FormHeld
  <2>3. /\ k = None => request'[c].op = "idle"
        /\ k # None => request'[c].op = "hook" /\ request'[c].row = k
    BY <2>1, <2>2 DEF Request, Idle
  <2>4. ~Dirty(request'[c])
    BY <2>3 DEF Dirty
  <2>5. Shrinks
    BY <2>1 DEF Shrinks, Exists
  <2>6. CASE ~Dirty(request[c])
    BY <1>7, <2>1, <2>4, <2>5, <2>6, ShrinkOwner DEF SaveForm
  <2>7. CASE Dirty(request[c])
    <3>1. owner' = request[c].user
      BY <1>7, <2>7 DEF SaveForm
    <3>2. Twins'
      BY <2>5 DEF Twins, Shrinks
    <3>3. AboutToSave'
      BY <2>1, <2>4, <2>7 DEF AboutToSave, ServerLocked, Only
    <3>4. ASSUME NEW i \in RowsOf(owner)'
          PROVE  rows'[i].excused \/ (request'[c].op = "hook" /\ request'[c].row = i)
      <4>1. i \in RowsOf(request[c].user)
        BY <2>1, <3>1 DEF RowsOf, Exists
      <4>2. k \in RowsOf(request[c].user) /\ k # None
        BY <4>1, ToDeleteType
      <4> QED
        BY <2>1, <2>3, <4>1, <4>2 DEF Twins, RowsOf
    <3>5. OwnerIsNoSubuser'
      BY <3>4 DEF OwnerIsNoSubuser
    <3> QED
      BY <2>1, <3>2, <3>3, <3>5 DEF OwnerInv
  <2> QED
    BY <2>6, <2>7
<1> QED
  BY <1>1, <1>2, <1>3, <1>4, <1>5, <1>6, <1>7 DEF Change

LEMMA OwnerAlways == Spec => []OwnerInv
<1>1. Init => OwnerInv
  <2> SUFFICES ASSUME Init PROVE OwnerInv
    OBVIOUS
  <2>1. \A c \in Slot : request[c].op = "idle" /\ ~request[c].open
    BY DEF Init, Idle
  <2>2. \A i \in Id : ~Exists(i)
    BY NoRowType DEF Init, Exists
  <2> QED
    BY <2>1, <2>2
       DEF OwnerInv, Held, Writes, Twins, AboutToSave, OwnerIsNoSubuser, RowsOf
<1>2. TypeOK /\ OwnerInv /\ [Next]_vars => OwnerInv'
  <2> SUFFICES ASSUME TypeOK, OwnerInv, [Next]_vars PROVE OwnerInv'
    OBVIOUS
  <2>1. CASE UNCHANGED <<owner, rows, request>>
    BY <2>1 DEF OwnerInv, Held, Writes, Twins, AboutToSave, Found, OwnerIsNoSubuser, RowsOf, Exists
  <2> QED
    BY <2>1, OwnerStep DEF Next, Ask, Issue, Expire, vars
<1> QED
  BY TypeCorrect, <1>1, <1>2, PTL DEF Spec

\* The owner of a server is a subuser of it only through a creation that had
\* loaded another owner, a second row, or a form whose hook is late or failed.
\* (Server::booted, SubuserCreationService, EditServer.)
THEOREM OwnersRowsExcused == Spec => []OwnerIsNoSubuser
<1>1. OwnerInv => OwnerIsNoSubuser
  BY DEF OwnerInv
<1> QED
  BY <1>1, OwnerAlways, PTL

-----------------------------------------------------------------------------
(* Tokens.  TokensCurrent is not inductive: a token that is current must stay *)
(* so when what is in flight commits, or be one that is still revoked, or     *)
(* belong to an owner nobody revokes, whose tokens are excused at the commit. *)

Replaces(q) == Dirty(q) /\ q.loaded # owner

Covered(t) ==
  \A c \in Slot : Concerns(request[c], t.user) =>
    \/ t.excused
    \/ t.user \in request[c].revoke
    \/ Replaces(request[c]) /\ t.user = owner

TokensInv == TokensCurrent /\ \A t \in tokens : Covered(t)

\* Other requests go on as they were.
LEMMA CoveredBy ==
  ASSUME TypeOK, TokensInv, NEW c \in Slot, Only(c), NEW t \in tokens,
         \A i \in Id : i \in RowsOf(t.user)' /\ (\E d \in Slot \ {c} : Writes(d, i)) =>
           i \in RowsOf(t.user),
         UNCHANGED owner \/ \A d \in Slot \ {c} : ~(request[d].open /\ Dirty(request[d])),
         Concerns(request[c], t.user)' =>
           \/ t.excused
           \/ t.user \in request'[c].revoke
           \/ Replaces(request[c])' /\ t.user = owner'
  PROVE  Covered(t)'
<1> SUFFICES ASSUME NEW d \in Slot \ {c}, Concerns(request[d], t.user)'
             PROVE  \/ t.excused
                    \/ t.user \in request'[d].revoke
                    \/ Replaces(request[d])' /\ t.user = owner'
  BY DEF Covered
<1>1. request'[d] = request[d]
  BY DEF Only
<1>2. Concerns(request[d], t.user)
  BY <1>1 DEF Concerns, Writes, RowsOf
<1>3. \/ t.excused
      \/ t.user \in request[d].revoke
      \/ Replaces(request[d]) /\ t.user = owner
  BY <1>2 DEF TokensInv, Covered
<1> QED
  BY <1>1, <1>2, <1>3 DEF Replaces, Concerns

\* The rights of a user, by rows.
LEMMA RightsFrame ==
  ASSUME TypeOK, NEW u, u = owner => owner' = owner,
         \A i \in RowsOf(u) : i \in RowsOf(u)' /\ rows'[i].permissions = rows[i].permissions
  PROVE  Rights(u) \subseteq Rights(u)'
<1>1. CASE u = owner
  BY <1>1 DEF Rights
<1>2. CASE u # owner /\ u # owner'
  BY <1>2 DEF Rights
<1>3. CASE u # owner /\ u = owner'
  BY <1>3 DEF Rights, RowsOf, TypeOK, Row
<1> QED
  BY <1>1, <1>2, <1>3

LEMMA BeginTokens ==
  ASSUME TypeOK, Held, TokensInv, NEW c \in Slot,
         \/ CheckCreate(c)
         \/ \E u \in User : BeginSave(c, u) \/ \E P \in SUBSET Permission : BeginCreate(c, u, P)
         \/ \E i \in Id : BeginDelete(c, i) \/ \E P \in SUBSET Permission : BeginUpdate(c, i, P)
  PROVE  TokensInv'
<1>1. Held' /\ Only(c) /\ UNCHANGED <<owner, rows, tokens>>
  BY BeginHeld
<1>2. TokensCurrent'
  BY <1>1 DEF TokensInv, TokensCurrent, Rights, RowsOf, Exists
<1>3. ASSUME NEW u, Concerns(request[c], u)'
      PROVE  u \in request'[c].revoke
  <2>1. CASE CheckCreate(c)
    <3>1. request'[c] = [request[c] EXCEPT !.open = TRUE] /\ request[c] \in Request
          /\ request[c].op = "create"
      BY <2>1, BecomeOne, RequestType DEF CheckCreate
    <3>2. request'[c].op = "create" /\ request'[c].row = None
      BY <3>1 DEF Held, Request
    <3> QED
      BY <1>3, <3>2, NoneAssumption DEF Concerns, Dirty, RowsOf
  <2>2. ASSUME NEW v \in User,
               BeginSave(c, v) \/ \E P \in SUBSET Permission : BeginCreate(c, v, P)
        PROVE  FALSE
    <3>1. PICK op \in {"save", "create"}, P \in SUBSET All :
            Become(c, Asked(op, FALSE, v, None, P, {}))
      BY <2>2, WithConnect DEF BeginSave, BeginCreate
    <3>2. request'[c] = Asked(op, FALSE, v, None, P, {})
      BY <3>1, BecomeOne
    <3>3. ~request'[c].open
      BY <3>2 DEF Asked
    <3> QED
      BY <1>3, <3>3 DEF Concerns
  <2>3. ASSUME NEW i \in Id
        PROVE  BeginDelete(c, i) => u \in request'[c].revoke
    <3> SUFFICES ASSUME BeginDelete(c, i) PROVE u \in request'[c].revoke
      OBVIOUS
    <3>1. Become(c, Asked("delete", TRUE, rows[i].user, i, {}, {rows[i].user}))
      BY DEF BeginDelete
    <3>2. request'[c] = Asked("delete", TRUE, rows[i].user, i, {}, {rows[i].user})
      BY <3>1, BecomeOne
    <3>3. request'[c].op = "delete" /\ request'[c].row = i /\ request'[c].revoke = {rows[i].user}
      BY <3>2 DEF Asked
    <3> QED
      BY <1>1, <1>3, <3>3 DEF Concerns, Dirty, RowsOf
  <2>4. ASSUME NEW i \in Id, NEW P \in SUBSET Permission, BeginUpdate(c, i, P)
        PROVE  u \in request'[c].revoke
    <3>1. Become(c, Asked("update", TRUE, rows[i].user, i, P \cup {Connect}, {rows[i].user}))
      BY <2>4 DEF BeginUpdate
    <3>2. request'[c] =
            Asked("update", TRUE, rows[i].user, i, P \cup {Connect}, {rows[i].user})
      BY <3>1, BecomeOne
    <3>3. request'[c].op = "update" /\ request'[c].row = i /\ request'[c].revoke = {rows[i].user}
      BY <3>2 DEF Asked
    <3> QED
      BY <1>1, <1>3, <3>3 DEF Concerns, Dirty, RowsOf
  <2> QED
    BY <2>1, <2>2, <2>3, <2>4
<1>4. ASSUME NEW t \in tokens
      PROVE  Covered(t)'
  BY <1>1, <1>3, CoveredBy DEF RowsOf, Exists
<1> QED
  BY <1>1, <1>2, <1>4 DEF TokensInv

LEMMA InsertTokens ==
  ASSUME TypeOK, Held, TokensInv, NEW c \in Slot, Insert(c)
  PROVE  TokensInv'
<1>1. PICK i \in Id :
        /\ ~Exists(i) /\ ~Locked(i)
        /\ \A j \in Id \ {i} :
             rows'[j].user = rows[j].user /\ rows'[j].permissions = rows[j].permissions
  BY InsertHeld
<1>2. Only(c) /\ request'[c] = Idle /\ UNCHANGED <<owner, tokens>>
  BY InsertHeld DEF Insert
<1>3. ASSUME NEW u
      PROVE  Rights(u) \subseteq Rights(u)'
  BY <1>1, <1>2, RightsFrame DEF RowsOf, Exists
<1>4. TokensCurrent'
  BY <1>2, <1>3 DEF TokensInv, TokensCurrent
<1>5. ASSUME NEW t \in tokens
      PROVE  Covered(t)'
  <2>1. \A j \in Id : j \in RowsOf(t.user)' /\ (\E d \in Slot \ {c} : Writes(d, j)) =>
          j \in RowsOf(t.user)
    BY <1>1 DEF RowsOf, Exists, Writes, Locked
  <2>2. ~Concerns(request[c], t.user)'
    BY <1>2 DEF Concerns, Idle
  <2> QED
    BY <1>2, <2>1, <2>2, CoveredBy
<1> QED
  BY <1>2, <1>4, <1>5 DEF TokensInv

LEMMA EndTokens ==
  ASSUME TypeOK, Held, TokensInv, NEW c \in Slot,
         CommitRow(c) \/ Rollback(c) \/ CommitDetails(c)
  PROVE  TokensInv'
<1>1. /\ Only(c) /\ Shrinks /\ request'[c] = Idle
      /\ \A i \in Id : request[c].row # i =>
           rows'[i].permissions = rows[i].permissions /\ rows'[i].user = rows[i].user
  BY EndHeld
<1>2. \A u : RowsOf(u)' \subseteq RowsOf(u)
  BY <1>1 DEF Shrinks, RowsOf
<1>3. \A u : ~Concerns(request[c], u)'
  BY <1>1 DEF Concerns, Idle
<1>4. ASSUME NEW u, request[c].row \notin RowsOf(u), u = owner => owner' = owner
      PROVE  Rights(u) \subseteq Rights(u)'
  <2>1. \A i \in RowsOf(u) : i \in RowsOf(u)' /\ rows'[i].permissions = rows[i].permissions
    BY <1>1, <1>4 DEF RowsOf, Exists
  <2> QED
    BY <1>4, <2>1, RightsFrame
<1>5. ASSUME NEW t \in tokens, UNCHANGED owner \/ (request[c].open /\ Dirty(request[c]))
      PROVE  Covered(t)'
  <2>1. UNCHANGED owner \/ \A d \in Slot \ {c} : ~(request[d].open /\ Dirty(request[d]))
    BY <1>5 DEF Held
  <2> QED
    BY <1>1, <1>2, <1>3, <2>1, CoveredBy
<1>6. CASE CommitRow(c)
  <2>1. UNCHANGED <<owner, tokens>> /\ request[c].revoke = {} /\ ~Dirty(request[c])
        /\ request[c].open
    BY <1>6 DEF CommitRow, Held, Dirty
  <2>2. \A t \in tokens : t.excused \/ request[c].row \notin RowsOf(t.user)
    BY <2>1 DEF TokensInv, Covered, Concerns, Replaces
  <2>3. TokensCurrent'
    BY <1>4, <2>1, <2>2 DEF TokensInv, TokensCurrent
  <2> QED
    BY <1>5, <2>1, <2>3 DEF TokensInv
<1>7. CASE Rollback(c)
  <2>1. UNCHANGED <<owner, tokens>>
    BY <1>7 DEF Rollback
  <2>2. ASSUME NEW u
        PROVE  Rights(u) \subseteq Rights(u)'
    <3>1. \A i \in Id : rows'[i] = rows[i] \/ rows'[i] = [rows[i] EXCEPT !.excused = TRUE]
      BY <1>7 DEF Rollback, TypeOK
    <3>2. \A i \in Id : rows'[i].permissions = rows[i].permissions
                        /\ rows'[i].user = rows[i].user
      BY <3>1 DEF TypeOK, Row
    <3> QED
      BY <2>1, <3>2, RightsFrame DEF RowsOf, Exists
  <2>3. TokensCurrent'
    BY <2>1, <2>2 DEF TokensInv, TokensCurrent
  <2> QED
    BY <1>5, <2>1, <2>3 DEF TokensInv
<1>8. CASE CommitDetails(c)
  <2>1. request[c].op = "save" /\ request[c].open /\ request[c].revoke = {}
    BY <1>8 DEF CommitDetails
  <2>2. UNCHANGED owner \/ Dirty(request[c])
    BY <1>8 DEF CommitDetails
  <2>3. ASSUME NEW t \in tokens'
        PROVE  \/ t.excused
               \/ /\ t \in tokens
                  /\ Dirty(request[c]) /\ owner # request[c].loaded => t.user # owner
    BY <1>8, ExcusedType DEF CommitDetails
  <2>4. ASSUME NEW t \in tokens', ~t.excused
        PROVE  t \in tokens /\ ~Concerns(request[c], t.user)
    BY <2>1, <2>3, <2>4 DEF TokensInv, Covered, Replaces
  <2>5. TokensCurrent'
    <3> SUFFICES ASSUME NEW t \in tokens', ~t.excused
                 PROVE  t.permissions \subseteq Rights(t.user)'
      BY DEF TokensCurrent
    <3>1. t \in tokens /\ request[c].row \notin RowsOf(t.user)
          /\ (Dirty(request[c]) => t.user # owner)
      BY <2>1, <2>4 DEF Concerns
    <3>2. Rights(t.user) \subseteq Rights(t.user)'
      BY <1>4, <2>2, <3>1
    <3> QED
      BY <3>1, <3>2 DEF TokensInv, TokensCurrent
  <2>6. ASSUME NEW t \in tokens'
        PROVE  Covered(t)'
    <3>1. CASE t.excused
      BY <3>1 DEF Covered
    <3>2. CASE ~t.excused
      BY <1>5, <2>1, <2>2, <2>3, <3>2
    <3> QED
      BY <3>1, <3>2
  <2> QED
    BY <2>5, <2>6 DEF TokensInv
<1> QED
  BY <1>6, <1>7, <1>8

LEMMA RevokeTokens ==
  ASSUME TypeOK, Held, TokensInv, NEW c \in Slot, NEW u \in User, Revoke(c, u)
  PROVE  TokensInv'
<1>1. /\ Only(c) /\ UNCHANGED <<owner, rows>>
      /\ request'[c] = [request[c] EXCEPT !.revoke = @ \ {u}]
      /\ request[c] \in Request
  BY RevokeHeld
<1>2. /\ request'[c].op = request[c].op /\ request'[c].open = request[c].open
      /\ request'[c].row = request[c].row /\ request'[c].user = request[c].user
      /\ request'[c].loaded = request[c].loaded
      /\ request'[c].revoke = request[c].revoke \ {u}
  BY <1>1 DEF Request
<1>3. ASSUME NEW t \in tokens'
      PROVE  t.excused \/ (t \in tokens /\ t.user # u)
  BY ExcusedType DEF Revoke
<1>4. TokensCurrent'
  BY <1>1, <1>3 DEF TokensInv, TokensCurrent, Rights, RowsOf, Exists
<1>5. ASSUME NEW t \in tokens'
      PROVE  Covered(t)'
  <2>1. CASE t.excused
    BY <2>1 DEF Covered
  <2>2. CASE t \in tokens /\ t.user # u
    <3>1. Concerns(request[c], t.user)' =>
            \/ t.excused
            \/ t.user \in request'[c].revoke
            \/ Replaces(request[c])' /\ t.user = owner'
      BY <1>1, <1>2, <2>2
         DEF TokensInv, Covered, Concerns, Replaces, Dirty, RowsOf, Exists
    <3> QED
      BY <1>1, <2>2, <3>1, CoveredBy DEF RowsOf, Exists
  <2> QED
    BY <1>3, <2>1, <2>2
<1> QED
  BY <1>4, <1>5 DEF TokensInv

LEMMA DetailsTokens ==
  ASSUME TypeOK, Held, TokensInv, NEW c \in Slot, Details(c)
  PROVE  TokensInv'
<1> PICK q : q = request[c]
  OBVIOUS
<1>1. Only(c) /\ UNCHANGED <<owner, rows, tokens>> /\ q \in Request /\ q.op = "save"
  BY DetailsHeld DEF Details, CanSave
<1>2. PICK i \in ToDelete(q.user) :
        request'[c] = [q EXCEPT !.open = TRUE, !.row = i,
                         !.revoke = (IF Dirty(q) THEN {q.loaded} ELSE {})
                                    \cup (IF i = None THEN {} ELSE {q.user})]
  BY DetailsHeld
<1>3. /\ request'[c].row = i /\ request'[c].loaded = q.loaded
      /\ Dirty(request'[c]) <=> Dirty(q)
      /\ i # None => q.user \in request'[c].revoke
      /\ Dirty(q) => q.loaded \in request'[c].revoke
  BY <1>1, <1>2 DEF Request, Dirty
<1>4. ASSUME NEW u, Concerns(request[c], u)'
      PROVE  u \in request'[c].revoke \/ (Replaces(request[c])' /\ u = owner')
  <2>1. CASE i \in RowsOf(u)
    <3>1. i # None /\ i \in RowsOf(q.user)
      BY <2>1, NoneAssumption, ToDeleteType DEF RowsOf
    <3> QED
      BY <1>3, <2>1, <3>1 DEF RowsOf
  <2>2. CASE Dirty(q) /\ u = owner
    BY <1>1, <1>3, <2>2 DEF Replaces
  <2> QED
    BY <1>1, <1>3, <1>4, <2>1, <2>2 DEF Concerns, RowsOf, Exists
<1>5. TokensCurrent'
  BY <1>1 DEF TokensInv, TokensCurrent, Rights, RowsOf, Exists
<1>6. ASSUME NEW t \in tokens
      PROVE  Covered(t)'
  BY <1>1, <1>4, CoveredBy DEF RowsOf, Exists
<1> QED
  BY <1>1, <1>5, <1>6 DEF TokensInv

LEMMA FormTokens ==
  ASSUME TypeOK, Held, TokensInv, NEW c \in Slot, SaveForm(c)
  PROVE  TokensInv'
<1> PICK q : q = request[c]
  OBVIOUS
<1>1. /\ Only(c) /\ UNCHANGED rows /\ q \in Request
      /\ (Dirty(q) => ~ServerLocked)
  BY FormHeld
<1>2. PICK i \in ToDelete(q.user) :
        request'[c] = IF i = None THEN Idle
                      ELSE [q EXCEPT !.op = "hook", !.open = TRUE, !.row = i,
                                     !.revoke = {q.user}]
  BY FormHeld
<1>3. ASSUME NEW u, Concerns(request[c], u)'
      PROVE  u \in request'[c].revoke
  <2>1. i # None
    BY <1>2, <1>3 DEF Concerns, Idle
  <2>2. request'[c].op = "hook" /\ request'[c].row = i /\ request'[c].revoke = {q.user}
    BY <1>1, <1>2, <2>1 DEF Request
  <2>3. i \in RowsOf(u) /\ i \in RowsOf(q.user)
    BY <1>1, <1>3, <2>1, <2>2, ToDeleteType DEF Concerns, Dirty, RowsOf, Exists
  <2> QED
    BY <2>2, <2>3 DEF RowsOf
<1>4. UNCHANGED owner \/ \A d \in Slot \ {c} : ~(request[d].open /\ Dirty(request[d]))
  BY <1>1 DEF SaveForm, ServerLocked
<1>5. ASSUME NEW t \in tokens'
      PROVE  t.excused \/ (t \in tokens /\ (owner' # owner => t.user # owner))
  BY <1>5, ExcusedType DEF SaveForm
<1>6. TokensCurrent'
  <2> SUFFICES ASSUME NEW t \in tokens', ~t.excused
               PROVE  t.permissions \subseteq Rights(t.user)'
    BY DEF TokensCurrent
  <2>1. t \in tokens /\ (t.user = owner => owner' = owner)
    BY <1>5
  <2>2. Rights(t.user) \subseteq Rights(t.user)'
    BY <1>1, <2>1, RightsFrame DEF RowsOf, Exists
  <2> QED
    BY <2>1, <2>2 DEF TokensInv, TokensCurrent
<1>7. ASSUME NEW t \in tokens'
      PROVE  Covered(t)'
  <2>1. CASE t.excused
    BY <2>1 DEF Covered
  <2>2. CASE ~t.excused
    BY <1>1, <1>3, <1>4, <1>5, <2>2, CoveredBy DEF RowsOf, Exists
  <2> QED
    BY <2>1, <2>2
<1> QED
  BY <1>6, <1>7 DEF TokensInv

LEMMA IssueTokens ==
  ASSUME TypeOK, TokensInv, NEW u \in User, Issue(u)
  PROVE  TokensInv'
<1> DEFINE new == [user |-> u, permissions |-> asked[u], excused |-> Overtaken(u)]
<1>1. tokens' = tokens \cup {new} /\ UNCHANGED <<owner, rows, request>>
  BY DEF Issue
<1>2. /\ new.user = u
      /\ new.excused \/ new.permissions \subseteq Rights(u)
      /\ new.excused \/ \A c \in Slot : Concerns(request[c], u) => u \in request[c].revoke
  BY DEF Overtaken
<1> HIDE DEF new
<1>3. \A t \in tokens' : t.excused \/ t.permissions \subseteq Rights(t.user)
  BY <1>1, <1>2 DEF TokensInv, TokensCurrent
<1>4. \A t \in tokens' : Covered(t)
  BY <1>1, <1>2 DEF TokensInv, Covered
<1> QED
  BY <1>1, <1>3, <1>4
     DEF TokensInv, TokensCurrent, Covered, Concerns, Replaces, Rights, RowsOf, Exists

\* A valid token permits what its user may do, unless the daemon missed that it
\* was revoked, it was issued while the change was on its way, or the panel did
\* not revoke it when its user was replaced as the owner.
\* (SubuserUpdateService, SubuserDeletionService, DetailsModificationService.)
THEOREM TokensStayCurrent == Spec => []TokensCurrent
<1>1. Init => TokensInv
  BY DEF Init, TokensInv, TokensCurrent
<1>2. TypeOK /\ OwnerInv /\ TokensInv /\ [Next]_vars => TokensInv'
  <2> SUFFICES ASSUME TypeOK, OwnerInv, TokensInv, [Next]_vars PROVE TokensInv'
    OBVIOUS
  <2>0. Held
    BY DEF OwnerInv
  <2>1. ASSUME NEW c \in Slot, Change(c)
        PROVE  TokensInv'
    BY <2>0, <2>1, BeginTokens, InsertTokens, EndTokens, RevokeTokens, DetailsTokens, FormTokens
       DEF Change
  <2>2. CASE UNCHANGED <<owner, rows, request>> /\ tokens' \subseteq tokens
    BY <2>2
       DEF TokensInv, TokensCurrent, Covered, Concerns, Replaces, Rights, RowsOf, Exists
  <2> QED
    BY <2>1, <2>2, IssueTokens DEF Next, Ask, Expire, vars
<1> QED
  BY TypeCorrect, OwnerAlways, <1>1, <1>2, PTL DEF Spec, TokensInv
=============================================================================
