-------------------------- MODULE DatabasesProofs --------------------------
(***************************************************************************)
(* What holds of Databases for any databases, any number of requests and   *)
(* any failures of the host.                                               *)
(***************************************************************************)
EXTENDS Databases, FiniteSetTheorems, TLAPS

-----------------------------------------------------------------------------
(* The statements of an operation. *)

LEMMA Lengths ==
  /\ Len(Statements["create"]) = 3
  /\ Len(Statements["rotate"]) = 3
  /\ Len(Statements["delete"]) = 2
BY DEF Statements

LEMMA IdleType == Idle \in Request /\ Idle.op = "none"
BY IdAssumption DEF Idle, Request

\* What is left to do decides which statement is next.
LEMMA NextStatement ==
  ASSUME TypeOK, NEW s \in Active, request[s].todo > 0
  PROVE  /\ request[s].op = "create" =>
              /\ request[s].todo = 3 => Statement(s) = "createDatabase"
              /\ request[s].todo = 2 => Statement(s) = "createUser"
              /\ request[s].todo = 1 => Statement(s) = "grant"
         /\ request[s].op = "rotate" =>
              /\ request[s].todo = 3 => Statement(s) = "dropUser"
              /\ request[s].todo = 2 => Statement(s) = "createUser"
              /\ request[s].todo = 1 => Statement(s) = "grant"
         /\ request[s].op = "delete" =>
              /\ request[s].todo = 2 => Statement(s) = "dropDatabase"
              /\ request[s].todo = 1 => Statement(s) = "dropUser"
         /\ request[s].op \in Op
         /\ request[s].todo \in 1 .. 3
         /\ request[s].op = "delete" => request[s].todo # 3
<1>1. request[s] \in Request /\ request[s].op # "none"
  BY DEF TypeOK, Active
<1>2. request[s].op \in Op /\ request[s].todo \in 1 .. 3
  BY <1>1 DEF Request
<1>3. request[s].op = "delete" => request[s].todo <= 2
  BY Lengths DEF TypeOK
<1> DEFINE all == Statements[request[s].op]
<1>4. Statement(s) = all[Len(all) + 1 - request[s].todo]
  BY DEF Statement
<1>5. ASSUME request[s].op = "create"
      PROVE  Statement(s) = <<"createDatabase", "createUser", "grant">>[4 - request[s].todo]
  <2>1. all = <<"createDatabase", "createUser", "grant">>
    BY <1>5 DEF Statements
  <2>2. Len(all) = 3
    BY <1>5, Lengths
  <2> QED
    BY <1>2, <1>4, <2>1, <2>2
<1>6. ASSUME request[s].op = "rotate"
      PROVE  Statement(s) = <<"dropUser", "createUser", "grant">>[4 - request[s].todo]
  <2>1. all = <<"dropUser", "createUser", "grant">>
    BY <1>6 DEF Statements
  <2>2. Len(all) = 3
    BY <1>6, Lengths
  <2> QED
    BY <1>2, <1>4, <2>1, <2>2
<1>7. ASSUME request[s].op = "delete"
      PROVE  Statement(s) = <<"dropDatabase", "dropUser">>[3 - request[s].todo]
  <2>1. all = <<"dropDatabase", "dropUser">>
    BY <1>7 DEF Statements
  <2>2. Len(all) = 2
    BY <1>7, Lengths
  <2> QED
    BY <1>2, <1>4, <2>1, <2>2
<1> QED
  BY <1>2, <1>3, <1>5, <1>6, <1>7

\* What it makes of the host.
LEMMA EffectOf ==
  ASSUME TypeOK, NEW s \in Active, request[s].todo > 0, Effect(s)
  PROVE  /\ request[s].op = "create" /\ request[s].todo = 3 =>
              schemas' = schemas \cup {NameOf[request[s].id]} /\ users' = users
         /\ request[s].op # "delete" /\ request[s].todo = 2 =>
              /\ schemas' = schemas
              /\ users' = [users EXCEPT ![request[s].id] =
                             [password |-> request[s].password, granted |-> FALSE]]
         /\ request[s].op # "delete" /\ request[s].todo = 1 =>
              /\ schemas' = schemas
              /\ users' = [users EXCEPT ![request[s].id] =
                             [password |-> @.password, granted |-> TRUE]]
         /\ request[s].op = "rotate" /\ request[s].todo = 3 =>
              schemas' = schemas /\ users' = [users EXCEPT ![request[s].id] = NoUser]
         /\ request[s].op = "delete" /\ request[s].todo = 2 =>
              schemas' = schemas \ {NameOf[request[s].id]} /\ users' = users
         /\ request[s].op = "delete" /\ request[s].todo = 1 =>
              schemas' = schemas /\ users' = [users EXCEPT ![request[s].id] = NoUser]
<1>1. request[s].op \in Op /\ request[s].todo \in 1 .. 3
  BY NextStatement
<1>2. CASE Statement(s) = "createDatabase"
  BY <1>1, <1>2, NextStatement DEF Effect, Op
<1>3. CASE Statement(s) = "createUser"
  BY <1>1, <1>3, NextStatement DEF Effect, Op
<1>4. CASE Statement(s) = "grant"
  BY <1>1, <1>4, NextStatement DEF Effect, Op
<1>5. CASE Statement(s) = "dropUser"
  BY <1>1, <1>5, NextStatement DEF Effect, Op
<1>6. CASE Statement(s) = "dropDatabase"
  BY <1>1, <1>6, NextStatement DEF Effect, Op
<1> QED
  BY <1>1, <1>2, <1>3, <1>4, <1>5, <1>6, NextStatement DEF Op

-----------------------------------------------------------------------------
(* Types. *)

LEMMA EndType ==
  ASSUME TypeOK, NEW s \in Slot, End(s)
  PROVE  /\ request' \in [Slot -> Request]
         /\ Active' = Active \ {s}
         /\ \A r \in Slot \ {s} : request'[r] = request[r]
BY IdleType DEF End, TypeOK, Active

LEMMA BeginType ==
  ASSUME TypeOK, NEW s \in Slot, NEW op \in Op, NEW d \in Id, Begin(s, op, d)
  PROVE  /\ request' \in [Slot -> Request]
         /\ s \notin Active
         /\ Active' = Active \cup {s}
         /\ \A r \in Slot \ {s} : request'[r] = request[r]
         /\ request'[s].op = op
         /\ request'[s].id = d
         /\ ~request'[s].locked
         /\ request'[s].todo = Len(Statements[op])
<1>1. Len(Statements[op]) \in 0 .. 3
  BY Lengths DEF Op
<1> DEFINE q == [Idle EXCEPT !.op = op, !.id = d, !.todo = Len(Statements[op])]
<1>2. /\ q \in Request
      /\ q.op = op /\ q.id = d /\ ~q.locked /\ q.todo = Len(Statements[op])
  BY <1>1, IdleType DEF Request, Idle
<1>3. s \notin Active /\ request' = [request EXCEPT ![s] = q]
  BY DEF Begin
<1> HIDE DEF q
<1>4. op # "none"
  BY DEF Op
<1> QED
  BY <1>2, <1>3, <1>4 DEF TypeOK, Active

LEMMA LockType ==
  ASSUME TypeOK, NEW s \in Active, NEW p \in Password, Lock(s, p)
  PROVE  /\ request' \in [Slot -> Request]
         /\ Active' = Active
         /\ \A r \in Slot \ {s} : request'[r] = request[r]
         /\ request'[s].op = request[s].op
         /\ request'[s].id = request[s].id
         /\ request'[s].todo = request[s].todo
         /\ request'[s].password = p
         /\ request'[s].locked
BY DEF Lock, TypeOK, Request, Active

\* Whatever ends or begins, the rest of TypeOK is about single requests.
LEMMA ActiveType ==
  ASSUME TypeOK, NEW s \in Active
  PROVE  /\ s \in Slot
         /\ request[s] \in Request
         /\ request[s].op \in Op
         /\ request[s].id \in spent
         /\ request[s].todo <= Len(Statements[request[s].op])
BY DEF TypeOK, Active, Request

\* A step that changes one request and keeps the types of the rest.
LEMMA OneRequestType ==
  ASSUME TypeOK, NEW s \in Slot,
         request' \in [Slot -> Request],
         Active' \subseteq Active \cup {s},
         \A r \in Slot \ {s} : request'[r] = request[r],
         s \in Active' => /\ request'[s].id \in spent'
                         /\ request'[s].todo <= Len(Statements[request'[s].op]),
         rows' \in [Id -> Password \cup {NoPassword}],
         spent' \in SUBSET Id, spent \subseteq spent', Live' \subseteq spent',
         waived' \in SUBSET spent',
         schemas' \in SUBSET Name, users' \in [Id -> User],
         doubt' \in [Id -> SUBSET {"schema", "user"}]
  PROVE  TypeOK'
<1>1. ASSUME NEW r \in Active'
      PROVE  /\ request'[r].id \in spent'
             /\ request'[r].todo <= Len(Statements[request'[r].op])
  <2>1. CASE r = s
    BY <2>1
  <2>2. CASE r # s
    <3>1. r \in Active /\ request'[r] = request[r]
      BY <2>2 DEF Active
    <3> QED
      BY <3>1, ActiveType
  <2> QED
    BY <2>1, <2>2
<1> QED
  BY <1>1 DEF TypeOK

LEMMA UnsettleType ==
  ASSUME TypeOK, NEW s \in Active, Unsettle(s)
  PROVE  doubt' \in [Id -> SUBSET {"schema", "user"}]
<1>1. Touches[request[s].op] \subseteq {"schema", "user"}
  BY ActiveType DEF Touches, Op
<1> QED
  BY <1>1 DEF Unsettle, TypeOK

LEMMA EffectType ==
  ASSUME TypeOK, NEW s \in Active, Running(s), Effect(s)
  PROVE  schemas' \in SUBSET Name /\ users' \in [Id -> User]
<1>1. request[s].todo > 0 /\ request[s].op \in Op /\ request[s].todo \in 1 .. 3
      /\ (request[s].op = "delete" => request[s].todo # 3)
  BY NextStatement DEF Running
<1>2. request[s].id \in Id /\ NameOf[request[s].id] \in Name
      /\ request[s].password \in Password \cup {NoPassword}
  BY ActiveType, IdAssumption DEF Request
<1>3. NoUser \in User
  BY DEF NoUser, User
<1>4. [password |-> request[s].password, granted |-> FALSE] \in User
  BY <1>2 DEF User
<1>5. [users EXCEPT ![request[s].id] = [password |-> @.password, granted |-> TRUE]]
        \in [Id -> User]
  BY <1>2 DEF TypeOK, User
<1> QED
  BY <1>1, <1>2, <1>3, <1>4, <1>5, EffectOf DEF TypeOK, Op

LEMMA StepType ==
  ASSUME TypeOK, NEW s \in Slot,
         \/ \E d \in Id : BeginCreate(s, d) \/ BeginRotate(s, d) \/ BeginDelete(s, d)
         \/ Insert(s) \/ Update(s)
         \/ Execute(s) \/ Refused(s) \/ Unanswered(s)
         \/ Commit(s) \/ Die(s)
  PROVE  TypeOK'
<1> Live \subseteq spent
  BY DEF TypeOK
<1>1. ASSUME NEW d \in Id, BeginCreate(s, d)
      PROVE  TypeOK'
  <2>1. Begin(s, "create", d) /\ "create" \in Op
    BY <1>1 DEF BeginCreate, Op
  <2>2. /\ spent' = spent \cup {d} /\ UNCHANGED <<rows, schemas, users, doubt>>
        /\ waived' \in SUBSET spent'
    BY <1>1 DEF BeginCreate, Validate, TypeOK
  <2>3. request'[s].todo <= Len(Statements[request'[s].op])
    BY <2>1, BeginType, Lengths
  <2> QED
    BY <2>1, <2>2, <2>3, BeginType, OneRequestType DEF TypeOK, Live
<1>2. ASSUME NEW d \in Id, NEW op \in Op, d \in Live, Begin(s, op, d),
             UNCHANGED <<rows, spent, waived, schemas, users, doubt>>
      PROVE  TypeOK'
  <2>1. request'[s].todo <= Len(Statements[request'[s].op])
    BY <1>2, BeginType, Lengths DEF Op
  <2> QED
    BY <1>2, <2>1, BeginType, OneRequestType DEF TypeOK, Live
<1>3. ASSUME NEW d \in Id, BeginRotate(s, d) \/ BeginDelete(s, d)
      PROVE  TypeOK'
  BY <1>2, <1>3 DEF BeginRotate, BeginDelete, Op
<1>4. ASSUME NEW p \in Password, s \in Active, Lock(s, p),
             UNCHANGED <<rows, spent, waived, schemas, users, doubt>>
      PROVE  TypeOK'
  BY <1>4, LockType, ActiveType, OneRequestType DEF TypeOK, Live
<1>5. ASSUME End(s), UNCHANGED <<rows, spent, waived>>, schemas' \in SUBSET Name,
             users' \in [Id -> User], doubt' \in [Id -> SUBSET {"schema", "user"}]
      PROVE  TypeOK'
  BY <1>5, EndType, OneRequestType DEF TypeOK, Live
<1>6. CASE Insert(s) \/ Update(s)
  <2>1. s \in Active
    BY <1>6 DEF Insert, Update, Active
  <2> QED
    BY <1>4, <1>5, <1>6, <2>1 DEF Insert, Update, TypeOK
<1>7. ASSUME Running(s) PROVE s \in Active
  BY <1>7 DEF Running, Active, TypeOK, Request
<1>8. CASE Execute(s)
  <2>1. s \in Active /\ Running(s) /\ Effect(s)
    BY <1>7, <1>8 DEF Execute
  <2>2. request[s].todo - 1 \in 0 .. 3
    BY <2>1, ActiveType DEF Running, Request
  <2> DEFINE q == [request[s] EXCEPT !.todo = @ - 1]
  <2>3. /\ q \in Request
        /\ q.op = request[s].op /\ q.id = request[s].id
        /\ q.todo <= request[s].todo
    BY <2>1, <2>2, ActiveType DEF Request
  <2>4. request' = [request EXCEPT ![s] = q]
    BY <1>8 DEF Execute
  <2> HIDE DEF q
  <2>5. /\ request' \in [Slot -> Request]
        /\ Active' = Active
        /\ \A r \in Slot \ {s} : request'[r] = request[r]
        /\ request'[s] = q
    BY <2>1, <2>3, <2>4 DEF TypeOK, Active
  <2>6. request'[s].todo <= Len(Statements[request'[s].op])
    BY <2>1, <2>3, <2>5, ActiveType, Lengths DEF Op, Request
  <2> QED
    BY <1>8, <2>1, <2>3, <2>5, <2>6, ActiveType, EffectType, OneRequestType
       DEF Execute, TypeOK, Live
<1>9. CASE Refused(s)
  BY <1>5, <1>7, <1>9, UnsettleType DEF Refused, TypeOK
<1>10. CASE Unanswered(s)
  BY <1>5, <1>7, <1>10, UnsettleType, EffectType DEF Unanswered, TypeOK
<1>11. CASE Commit(s)
  <2>1. s \in Active /\ End(s)
    BY <1>11 DEF Commit
  <2>2. request[s].password \in Password \cup {NoPassword} /\ request[s].id \in Id
    BY <2>1, ActiveType DEF Request
  <2>3. rows' \in [Id -> Password \cup {NoPassword}]
    BY <1>11, <2>2 DEF Commit, TypeOK
  <2>4. Live' \subseteq Live \cup {request[s].id}
    BY <1>11, <2>2 DEF Commit, TypeOK, Live
  <2>5. doubt' \in [Id -> SUBSET {"schema", "user"}]
    BY <1>11 DEF Commit, TypeOK
  <2> QED
    BY <1>11, <2>1, <2>3, <2>4, <2>5, EndType, ActiveType, OneRequestType
       DEF Commit, TypeOK
<1>12. CASE Die(s)
  BY <1>5, <1>12, UnsettleType DEF Die, TypeOK
<1> QED
  BY <1>1, <1>3, <1>6, <1>8, <1>9, <1>10, <1>11, <1>12

\* Every variable keeps its type; a user name in a row or a request was spent.
THEOREM TypeCorrect == Spec => []TypeOK
<1>1. Init => TypeOK
  BY IdleType DEF Init, TypeOK, NoUser, User, Live, Active
<1>2. TypeOK /\ [Next]_vars => TypeOK'
  <2> SUFFICES ASSUME TypeOK, [Next]_vars PROVE TypeOK'
    OBVIOUS
  <2>1. CASE UNCHANGED vars
    BY <2>1 DEF vars, TypeOK, Live, Active
  <2>2. ASSUME NEW d \in Id, DeleteRow(d)
        PROVE  TypeOK'
    BY <2>2 DEF DeleteRow, TypeOK, Live, Active
  <2> QED
    BY <2>1, <2>2, StepType DEF Next
<1> QED
  BY <1>1, <1>2, PTL DEF Spec
-----------------------------------------------------------------------------
(* Credentials, as long as no request for a database overlaps with its        *)
(* deletion.  CredentialsWork is not inductive: it has to say what the host   *)
(* looks like while a request is at work, and that no two requests are at     *)
(* work for one database, or for one name.                                    *)

Untouched(s) == request[s].todo = Len(Statements[request[s].op])

\* Of the requests one by one.
Protocol ==
  \A s \in Active :
    /\ ~request[s].locked => request[s].op = "delete" \/ request[s].todo = 3
    /\ request[s].locked => request[s].op # "delete" /\ request[s].password \in Password
    /\ request[s].op = "create" <=> request[s].id \notin Live

\* Two requests for one database are rotations, and one of them waits.
Exclusive ==
  \A s, r \in Active :
    s # r /\ request[s].id = request[r].id =>
      /\ request[s].op = "rotate" /\ request[r].op = "rotate"
      /\ ~(request[s].locked /\ request[r].locked)

\* The unique key, of the rows that are committed and those that are not.
Creating(s) == s \in Active /\ request[s].op = "create" /\ request[s].locked

OneName ==
  /\ \A d, e \in Live : NameOf[d] = NameOf[e] => d = e
  /\ \A s \in Slot, d \in Live : Creating(s) => NameOf[request[s].id] # NameOf[d]
  /\ \A s, r \in Slot :
       Creating(s) /\ Creating(r) /\ NameOf[request[s].id] = NameOf[request[r].id] => s = r

\* What a request has made of the host so far.
Progress ==
  \A s \in Active :
    /\ request[s].op # "delete" /\ request[s].todo = 1 =>
         users[request[s].id] = [password |-> request[s].password, granted |-> FALSE]
    /\ request[s].op # "delete" /\ request[s].todo = 0 =>
         users[request[s].id] = [password |-> request[s].password, granted |-> TRUE]
    /\ request[s].op = "create" /\ request[s].todo # 3 =>
         NameOf[request[s].id] \in schemas

UserWorks ==
  \A d \in Live :
    (\A s \in Of(d) : Untouched(s)) =>
      "user" \in doubt[d] \/ users[d] = [password |-> rows[d], granted |-> TRUE]

SchemaWorks ==
  \A d \in Live :
    (\A s \in Of(d) : request[s].op = "delete" => Untouched(s)) =>
      "schema" \in doubt[d] \/ NameOf[d] \in schemas

HostInv == Protocol /\ Exclusive /\ OneName /\ Progress /\ UserWorks /\ SchemaWorks

LEMMA HostInvSuffices == TypeOK /\ HostInv => CredentialsWork
<1> SUFFICES ASSUME TypeOK, HostInv, NEW d \in Live, Settled(d)
             PROVE  /\ "user" \in doubt[d] \/ users[d] = [password |-> rows[d], granted |-> TRUE]
                    /\ "schema" \in doubt[d] \/ NameOf[d] \in schemas
  BY DEF CredentialsWork
<1>1. ASSUME NEW s \in Of(d)
      PROVE  request[s].op # "delete" /\ Untouched(s)
  <2>1. s \in Active /\ request[s].op = "rotate" /\ ~request[s].locked
    BY <1>1 DEF Settled, Of
  <2> QED
    BY <2>1, Lengths DEF HostInv, Protocol, Untouched
<1> QED
  BY <1>1 DEF HostInv, UserWorks, SchemaWorks

LEMMA TouchesOf ==
  /\ Touches["create"] = {"schema", "user"}
  /\ Touches["rotate"] = {"user"}
  /\ Touches["delete"] = {"schema", "user"}
BY DEF Touches

\* A new request finds no other of its database, or only rotations.
LEMMA BeginHost ==
  ASSUME TypeOK, HostInv, ~Overlap, NEW s \in Slot, NEW d \in Id, NEW op \in Op,
         Begin(s, op, d), UNCHANGED <<rows, schemas, users, doubt>>,
         IF op = "create" THEN d \notin spent ELSE d \in Live
  PROVE  HostInv'
<1> USE DEF HostInv
<1>1. /\ s \notin Active /\ Active' = Active \cup {s}
      /\ \A r \in Slot \ {s} : request'[r] = request[r]
      /\ request'[s].op = op /\ request'[s].id = d
      /\ ~request'[s].locked
      /\ request'[s].todo = Len(Statements[op])
  BY BeginType
<1>2. \A r \in Active : r \in Slot \ {s} /\ request'[r] = request[r]
  BY <1>1 DEF Active
<1>3. Live' = Live /\ Live \subseteq spent
  BY DEF Live, TypeOK
<1>4. Protocol'
  BY <1>1, <1>2, <1>3, Lengths DEF Protocol, Op
<1>5. \A r \in Active : request[r].id = d => op = "rotate" /\ request[r].op = "rotate"
  <2> SUFFICES ASSUME NEW r \in Active, request[r].id = d
               PROVE  op = "rotate" /\ request[r].op = "rotate"
    OBVIOUS
  <2>1. d \in spent /\ d \in Live /\ request[r].op \in Op
    BY ActiveType
  <2>2. request[r].op # "delete" /\ op # "delete"
    BY DEF Begin, Of
  <2> QED
    BY <2>1, <2>2 DEF Protocol, Op
<1>6. Exclusive'
  BY <1>1, <1>2, <1>5 DEF Exclusive
<1>7. OneName'
  BY <1>1, <1>3 DEF OneName, Creating, Active
<1>8. Progress'
  <2>1. request'[s].todo \in {2, 3} /\ (op = "create" => request'[s].todo = 3)
    BY <1>1, Lengths DEF Op
  <2>2. request'[s].op = "delete" \/ request'[s].todo = 3
    BY <1>1, Lengths DEF Op
  <2> SUFFICES ASSUME NEW r \in Active'
               PROVE  /\ request'[r].op # "delete" /\ request'[r].todo = 1 =>
                           users[request'[r].id] = [password |-> request'[r].password, granted |-> FALSE]
                      /\ request'[r].op # "delete" /\ request'[r].todo = 0 =>
                           users[request'[r].id] = [password |-> request'[r].password, granted |-> TRUE]
                      /\ request'[r].op = "create" /\ request'[r].todo # 3 =>
                           NameOf[request'[r].id] \in schemas
    BY DEF Progress
  <2>3. CASE r = s
    BY <2>1, <2>2, <2>3
  <2>4. CASE r \in Active
    BY <1>2, <2>4 DEF Progress
  <2> QED
    BY <1>1, <2>3, <2>4
<1>9. ASSUME NEW e \in Live, NEW r \in Of(e)
      PROVE  /\ r \in Of(e)'
             /\ request'[r] = request[r]
             /\ Untouched(r) <=> Untouched(r)'
  BY <1>1, <1>2, <1>9 DEF Of, Untouched
<1>10. UserWorks'
  BY <1>3, <1>9 DEF UserWorks
<1>11. SchemaWorks'
  BY <1>3, <1>9 DEF SchemaWorks
<1> QED
  BY <1>4, <1>6, <1>7, <1>8, <1>10, <1>11
\* The row of a request is written and locked.
LEMMA LockHost ==
  ASSUME TypeOK, HostInv, NEW s \in Active, NEW p \in Password, Lock(s, p),
         UNCHANGED <<rows, schemas, users, doubt>>,
         request[s].op \in {"create", "rotate"}, ~request[s].locked,
         request[s].op = "create" =>
           /\ \A d \in Live : NameOf[d] # NameOf[request[s].id]
           /\ \A r \in Slot : Creating(r) => NameOf[request[r].id] # NameOf[request[s].id],
         request[s].op = "rotate" => \A r \in Of(request[s].id) : ~request[r].locked
  PROVE  HostInv'
<1> USE DEF HostInv
<1>1. /\ Active' = Active /\ s \in Slot
      /\ \A r \in Slot \ {s} : request'[r] = request[r]
      /\ request'[s].op = request[s].op
      /\ request'[s].id = request[s].id
      /\ request'[s].todo = request[s].todo
      /\ request'[s].password = p
      /\ request'[s].locked
  BY LockType DEF Active
<1>2. Live' = Live
  BY DEF Live
<1>3. request[s].todo = 3
  BY DEF Protocol
<1>4. Protocol'
  BY <1>1, <1>2, <1>3 DEF Protocol, Active
<1>5. Exclusive'
  BY <1>1 DEF Exclusive, Active, Of
<1>6. OneName'
  BY <1>1, <1>2 DEF OneName, Creating, Active
<1>7. Progress'
  BY <1>1, <1>3 DEF Progress, Active
<1>8. ASSUME NEW e \in Live, NEW r \in Of(e)
      PROVE  /\ r \in Of(e)'
             /\ request'[r].op = request[r].op
             /\ Untouched(r) <=> Untouched(r)'
  BY <1>1, <1>8 DEF Of, Untouched, Active
<1>9. UserWorks'
  BY <1>2, <1>8 DEF UserWorks
<1>10. SchemaWorks'
  BY <1>2, <1>8 DEF SchemaWorks
<1> QED
  BY <1>4, <1>5, <1>6, <1>7, <1>9, <1>10

\* A statement changes nothing that another request or row relies on.
LEMMA EffectOthers ==
  ASSUME TypeOK, HostInv, NEW s \in Active, Running(s), Effect(s)
  PROVE  /\ \A d \in Id \ {request[s].id} : users'[d] = users[d]
         /\ request[s].op # "delete" => schemas \subseteq schemas'
         /\ \A d \in Live \ {request[s].id} : NameOf[d] \in schemas => NameOf[d] \in schemas'
         /\ \A r \in Slot : Creating(r) /\ NameOf[request[r].id] \in schemas =>
                            NameOf[request[r].id] \in schemas'
<1> USE DEF HostInv
<1>1. /\ request[s].todo \in 1 .. 3 /\ request[s].op \in Op /\ request[s].todo > 0
      /\ (request[s].op = "delete" => request[s].todo # 3)
  BY NextStatement DEF Running
<1>2. request[s].id \in Id
  BY ActiveType DEF Request
<1>3. \A d \in Id \ {request[s].id} : users'[d] = users[d]
  <2>1. users \in [Id -> User]
    BY DEF TypeOK
  <2>2. CASE request[s].todo = 3
    BY <1>1, <1>2, <2>1, <2>2, EffectOf DEF Op
  <2>3. CASE request[s].todo = 2
    BY <1>1, <1>2, <2>1, <2>3, EffectOf
  <2>4. CASE request[s].todo = 1
    BY <1>1, <1>2, <2>1, <2>4, EffectOf
  <2> QED
    BY <1>1, <2>2, <2>3, <2>4
<1>4. request[s].op # "delete" => schemas \subseteq schemas'
  <2>1. CASE request[s].todo = 3
    BY <1>1, <2>1, EffectOf DEF Op
  <2>2. CASE request[s].todo = 2
    BY <1>1, <2>2, EffectOf
  <2>3. CASE request[s].todo = 1
    BY <1>1, <2>3, EffectOf
  <2> QED
    BY <1>1, <2>1, <2>2, <2>3
<1>5. ASSUME request[s].op = "delete"
      PROVE  schemas \ {NameOf[request[s].id]} \subseteq schemas'
  <2>1. CASE request[s].todo = 2
    BY <1>1, <1>5, <2>1, EffectOf
  <2>2. CASE request[s].todo = 1
    BY <1>1, <1>5, <2>2, EffectOf
  <2> QED
    BY <1>1, <1>5, <2>1, <2>2
<1>6. request[s].op = "delete" => request[s].id \in Live
  BY DEF Protocol
<1> QED
  BY <1>3, <1>4, <1>5, <1>6 DEF OneName, Live

LEMMA ExecuteHost ==
  ASSUME TypeOK, HostInv, NEW s \in Slot, Execute(s)
  PROVE  HostInv'
<1> USE DEF HostInv
<1>1. s \in Active /\ Running(s) /\ Effect(s) /\ request[s].todo > 0
  BY DEF Execute, Running
<1>2. /\ request[s].op \in Op /\ request[s].todo \in 1 .. 3
      /\ request[s].id \in Id /\ request[s] \in Request
      /\ request[s].todo <= Len(Statements[request[s].op])
  BY <1>1, NextStatement, ActiveType DEF Request
<1>3. /\ Active' = Active
      /\ \A r \in Slot \ {s} : request'[r] = request[r]
      /\ request'[s].op = request[s].op
      /\ request'[s].id = request[s].id
      /\ request'[s].locked = request[s].locked
      /\ request'[s].password = request[s].password
      /\ request'[s].todo = request[s].todo - 1
  BY <1>2 DEF Execute, TypeOK, Request, Active
<1>4. UNCHANGED <<rows, doubt>> /\ Live' = Live
  BY DEF Execute, Live
<1>5. request[s].op # "delete" => request[s].locked
  BY <1>1 DEF Running
<1>6. Protocol'
  BY <1>3, <1>4, <1>5 DEF Protocol, Active
<1>7. Exclusive'
  BY <1>3 DEF Exclusive, Active
<1>8. OneName'
  BY <1>3, <1>4 DEF OneName, Creating, Active
<1>9. ASSUME NEW r \in Active, r # s, request[r].id = request[s].id
      PROVE  request[r].op = "rotate" /\ request[r].todo = 3
  BY <1>1, <1>5, <1>9 DEF Exclusive, Protocol
<1>10. Progress'
  <2> SUFFICES ASSUME NEW r \in Active
               PROVE  /\ request'[r].op # "delete" /\ request'[r].todo = 1 =>
                           users'[request'[r].id] = [password |-> request'[r].password, granted |-> FALSE]
                      /\ request'[r].op # "delete" /\ request'[r].todo = 0 =>
                           users'[request'[r].id] = [password |-> request'[r].password, granted |-> TRUE]
                      /\ request'[r].op = "create" /\ request'[r].todo # 3 =>
                           NameOf[request'[r].id] \in schemas'
    BY <1>3 DEF Progress
  <2>1. /\ request[s].op # "delete" /\ request[s].todo = 2 =>
             users'[request[s].id] = [password |-> request[s].password, granted |-> FALSE]
        /\ request[s].op # "delete" /\ request[s].todo = 1 =>
             users'[request[s].id] = [password |-> request[s].password, granted |-> TRUE]
        /\ request[s].op = "create" => NameOf[request[s].id] \in schemas'
    <3> users \in [Id -> User]
      BY DEF TypeOK
    <3>1. ASSUME request[s].op # "delete", request[s].todo = 2
          PROVE  users'[request[s].id] = [password |-> request[s].password, granted |-> FALSE]
      BY <1>1, <1>2, <3>1, EffectOf
    <3>2. ASSUME request[s].op # "delete", request[s].todo = 1
          PROVE  users'[request[s].id] = [password |-> request[s].password, granted |-> TRUE]
      <4>1. users[request[s].id] = [password |-> request[s].password, granted |-> FALSE]
        BY <1>1, <3>2, Zenon DEF Progress
      <4>2. users[request[s].id].password = request[s].password
        BY <4>1
      <4>3. users' = [users EXCEPT ![request[s].id] =
                        [password |-> @.password, granted |-> TRUE]]
        BY <1>1, <3>2, EffectOf
      <4> QED
        BY <1>2, <4>2, <4>3
    <3>3. ASSUME request[s].op = "create"
          PROVE  NameOf[request[s].id] \in schemas'
      <4>1. CASE request[s].todo = 3
        BY <1>1, <3>3, <4>1, EffectOf
      <4>2. CASE request[s].todo # 3
        <5>1. NameOf[request[s].id] \in schemas
          BY <1>1, <3>3, <4>2, Zenon DEF Progress
        <5>2. request[s].op # "delete"
          BY <3>3
        <5> QED
          BY <1>1, <5>1, <5>2, EffectOthers
      <4> QED
        BY <4>1, <4>2
    <3> QED
      BY <3>1, <3>2, <3>3
  <2>4. CASE r = s
    <3>1. request'[s].todo = 1 <=> request[s].todo = 2
      BY <1>2, <1>3
    <3>2. request'[s].todo = 0 <=> request[s].todo = 1
      BY <1>2, <1>3
    <3>3. /\ request'[s].op = request[s].op /\ request'[s].id = request[s].id
          /\ request'[s].password = request[s].password
      BY <1>3
    <3> QED
      BY <2>1, <2>4, <3>1, <3>2, <3>3, Zenon
  <2>2. CASE r # s /\ request[r].id = request[s].id
    BY <1>3, <1>9, <2>2 DEF Active
  <2>3. CASE r # s /\ request[r].id # request[s].id
    <3>1. request'[r] = request[r] /\ request[r].id \in Id /\ r \in Slot
      BY <1>3, <2>3, ActiveType DEF Request
    <3>2. request[r].op = "create" /\ request[r].todo # 3 => Creating(r)
      BY DEF Creating, Protocol
    <3> QED
      BY <1>1, <2>3, <3>1, <3>2, EffectOthers DEF Progress
  <2> QED
    BY <2>2, <2>3, <2>4
<1>11. ASSUME NEW e \in Live \ {request[s].id}, NEW r \in Of(e)
       PROVE  r \in Of(e)' /\ request'[r] = request[r] /\ (Untouched(r) <=> Untouched(r)')
  BY <1>3, <1>11 DEF Of, Untouched, Active
<1>12. s \in Of(request[s].id)' /\ ~Untouched(s)'
  <2>1. Len(Statements[request[s].op]) \in Nat
    BY <1>2, Lengths DEF Op
  <2> QED
    BY <1>1, <1>2, <1>3, <2>1 DEF Of, Untouched
<1>13. UserWorks'
  <2> SUFFICES ASSUME NEW e \in Live, \A r \in Of(e)' : Untouched(r)'
               PROVE  "user" \in doubt[e] \/ users'[e] = [password |-> rows[e], granted |-> TRUE]
    BY <1>4 DEF UserWorks
  <2>1. e # request[s].id
    BY <1>3, <1>12
  <2>2. \A r \in Of(e) : Untouched(r)
    BY <1>11, <2>1
  <2>3. users'[e] = users[e]
    BY <1>1, <2>1, EffectOthers DEF Live
  <2> QED
    BY <2>2, <2>3 DEF UserWorks
<1>14. SchemaWorks'
  <2>1. CASE request[s].op = "delete"
    BY <1>1, <1>3, <1>4, <1>11, <1>12, <2>1, EffectOthers DEF SchemaWorks
  <2>2. CASE request[s].op # "delete"
    <3>1. \A e \in Live : \A r \in Of(e) :
            request[r].op = "delete" =>
              r \in Of(e)' /\ request'[r] = request[r] /\ (Untouched(r) <=> Untouched(r)')
      BY <1>3, <2>2 DEF Of, Untouched, Active
    <3> QED
      BY <1>1, <1>4, <2>2, <3>1, EffectOthers DEF SchemaWorks
  <2> QED
    BY <2>1, <2>2
<1> QED
  BY <1>6, <1>7, <1>8, <1>10, <1>13, <1>14

\* A request is over.  What it changed on the host is left in doubt.
LEMMA EndHost ==
  ASSUME TypeOK, HostInv, NEW s \in Active, End(s), rows' = rows,
         UNCHANGED <<users, schemas>> \/ (Running(s) /\ Effect(s)),
         Unsettle(s) \/ (Untouched(s) /\ UNCHANGED <<users, schemas, doubt>>)
  PROVE  HostInv'
<1> USE DEF HostInv
<1>1. /\ Active' = Active \ {s} /\ s \in Slot
      /\ \A r \in Slot \ {s} : request'[r] = request[r]
  BY EndType DEF Active
<1>2. \A r \in Active' : r \in Active /\ r # s /\ r \in Slot /\ request'[r] = request[r]
  BY <1>1 DEF Active
<1>3. Live' = Live
  BY DEF Live
<1>4. Protocol'
  BY <1>2, <1>3 DEF Protocol
<1>5. Exclusive'
  BY <1>2 DEF Exclusive
<1>6. OneName'
  <2>1. \A r \in Slot : Creating(r)' => Creating(r) /\ request'[r] = request[r]
    BY <1>2 DEF Creating
  <2> QED
    BY <1>3, <2>1 DEF OneName
<1>7. request[s].id \in Id /\ request[s].op \in Op
  BY ActiveType DEF Request
<1>8. /\ \A d \in Id \ {request[s].id} : users'[d] = users[d]
      /\ request[s].op # "delete" => schemas \subseteq schemas'
      /\ \A d \in Live \ {request[s].id} : NameOf[d] \in schemas => NameOf[d] \in schemas'
      /\ \A r \in Slot : Creating(r) /\ NameOf[request[r].id] \in schemas =>
                         NameOf[request[r].id] \in schemas'
  <2>1. CASE UNCHANGED <<users, schemas>>
    BY <2>1
  <2>2. CASE Running(s) /\ Effect(s)
    BY <2>2, EffectOthers
  <2> QED
    BY <2>1, <2>2
<1>9. Progress'
  <2> SUFFICES ASSUME NEW r \in Active, r # s
               PROVE  /\ request[r].op # "delete" /\ request[r].todo = 1 =>
                           users'[request[r].id] = [password |-> request[r].password, granted |-> FALSE]
                      /\ request[r].op # "delete" /\ request[r].todo = 0 =>
                           users'[request[r].id] = [password |-> request[r].password, granted |-> TRUE]
                      /\ request[r].op = "create" /\ request[r].todo # 3 =>
                           NameOf[request[r].id] \in schemas'
    BY <1>2 DEF Progress
  <2>1. CASE UNCHANGED <<users, schemas>>
    BY <2>1 DEF Progress
  <2>2. CASE Running(s) /\ request[r].id = request[s].id
    <3>1. request[r].op = "rotate" /\ request[r].todo = 3
      BY <2>2 DEF Exclusive, Protocol, Running
    <3> QED
      BY <3>1
  <2>3. CASE request[r].id # request[s].id
    <3>1. request[r].id \in Id /\ r \in Slot
      BY ActiveType DEF Request
    <3>2. request[r].op = "create" /\ request[r].todo # 3 => Creating(r)
      BY DEF Creating, Protocol
    <3> QED
      BY <1>8, <2>3, <3>1, <3>2 DEF Progress
  <2> QED
    BY <2>1, <2>2, <2>3
<1>10. ASSUME NEW e \in Live, NEW r \in Of(e), r # s
       PROVE  r \in Of(e)' /\ request'[r] = request[r] /\ (Untouched(r) <=> Untouched(r)')
  BY <1>1, <1>10 DEF Of, Untouched, Active
<1>11. ASSUME Unsettle(s)
       PROVE  /\ doubt'[request[s].id] = doubt[request[s].id] \cup Touches[request[s].op]
              /\ \A e \in Id \ {request[s].id} : doubt'[e] = doubt[e]
  BY <1>7, <1>11 DEF Unsettle, TypeOK
<1>12. s \in Of(request[s].id)
  BY DEF Of
<1>13. UserWorks'
  <2> SUFFICES ASSUME NEW e \in Live, \A r \in Of(e)' : Untouched(r)'
               PROVE  "user" \in doubt'[e] \/ users'[e] = [password |-> rows[e], granted |-> TRUE]
    BY <1>3 DEF UserWorks
  <2> e \in Id
    BY DEF Live
  <2>1. CASE e # request[s].id
    <3>1. \A r \in Of(e) : Untouched(r)
      BY <1>10, <2>1 DEF Of
    <3> QED
      BY <1>8, <1>11, <2>1, <3>1 DEF UserWorks
  <2>2. CASE e = request[s].id /\ Unsettle(s)
    BY <1>7, <1>11, <2>2, TouchesOf DEF Op
  <2>3. CASE e = request[s].id /\ Untouched(s) /\ UNCHANGED <<users, schemas, doubt>>
    <3>1. \A r \in Of(e) : Untouched(r)
      BY <1>10, <2>3
    <3> QED
      BY <2>3, <3>1 DEF UserWorks
  <2> QED
    BY <2>1, <2>2, <2>3
<1>14. SchemaWorks'
  <2> SUFFICES ASSUME NEW e \in Live, \A r \in Of(e)' : request'[r].op = "delete" => Untouched(r)'
               PROVE  "schema" \in doubt'[e] \/ NameOf[e] \in schemas'
    BY <1>3 DEF SchemaWorks
  <2> e \in Id
    BY DEF Live
  <2>1. CASE e # request[s].id
    <3>1. \A r \in Of(e) : request[r].op = "delete" => Untouched(r)
      BY <1>10, <2>1 DEF Of
    <3> QED
      BY <1>8, <1>11, <2>1, <3>1 DEF SchemaWorks
  <2>2. CASE e = request[s].id /\ Unsettle(s) /\ request[s].op # "rotate"
    BY <1>7, <1>11, <2>2, TouchesOf DEF Op
  <2>3. CASE e = request[s].id /\ Unsettle(s) /\ request[s].op = "rotate"
    <3>1. \A r \in Of(e) : request[r].op = "delete" => Untouched(r)
      BY <1>10, <2>3
    <3>2. doubt[e] \subseteq doubt'[e] /\ schemas \subseteq schemas'
      BY <1>8, <1>11, <2>3
    <3> QED
      BY <3>1, <3>2 DEF SchemaWorks
  <2>4. CASE e = request[s].id /\ Untouched(s) /\ UNCHANGED <<users, schemas, doubt>>
    <3>1. \A r \in Of(e) : request[r].op = "delete" => Untouched(r)
      BY <1>10, <2>4
    <3> QED
      BY <2>4, <3>1 DEF SchemaWorks
  <2> QED
    BY <2>1, <2>2, <2>3, <2>4
<1> QED
  BY <1>4, <1>5, <1>6, <1>9, <1>13, <1>14

\* The row follows the host.
LEMMA CommitHost ==
  ASSUME TypeOK, HostInv, NEW s \in Slot, Commit(s)
  PROVE  HostInv'
<1> USE DEF HostInv
<1> DEFINE d == request[s].id
<1>1. s \in Active /\ request[s].todo = 0 /\ End(s) /\ UNCHANGED <<users, schemas>>
  BY DEF Commit
<1>2. d \in Id /\ request[s].op \in Op
  BY <1>1, ActiveType DEF Request
<1>3. /\ Active' = Active \ {s}
      /\ \A r \in Slot \ {s} : request'[r] = request[r]
  BY <1>1, EndType
<1>4. \A r \in Active' : r \in Active /\ r # s /\ r \in Slot /\ request'[r] = request[r]
  BY <1>3 DEF Active
<1>5. /\ doubt'[d] = doubt[d] \ Touches[request[s].op]
      /\ \A e \in Id \ {d} : doubt'[e] = doubt[e]
  BY <1>2 DEF Commit, TypeOK
<1>6. request[s].op # "delete" => request[s].locked /\ request[s].password \in Password
  BY <1>1 DEF Protocol
<1>7. /\ \A e \in Id \ {d} : rows'[e] = rows[e]
      /\ request[s].op = "create" => rows'[d] = request[s].password
      /\ request[s].op = "rotate" => rows'[d] = request[s].password
      /\ request[s].op = "delete" => rows'[d] = NoPassword
  <2> rows \in [Id -> Password \cup {NoPassword}]
    BY DEF TypeOK
  <2>1. CASE request[s].op = "create"
    BY <1>2, <2>1 DEF Commit
  <2>2. CASE request[s].op = "rotate"
    <3>1. d \in Live
      BY <1>1, <2>2 DEF Protocol
    <3> QED
      BY <1>2, <2>2, <3>1 DEF Commit
  <2>3. CASE request[s].op = "delete"
    BY <1>2, <2>3 DEF Commit
  <2> QED
    BY <1>2, <2>1, <2>2, <2>3 DEF Op
<1>8. /\ request[s].op = "create" => Live' = Live \cup {d} /\ d \notin Live
      /\ request[s].op = "rotate" => Live' = Live /\ d \in Live
      /\ request[s].op = "delete" => Live' = Live \ {d}
  BY <1>1, <1>2, <1>6, <1>7, PasswordAssumption DEF Protocol, Live
<1>9. \A r \in Active : r # s /\ request[r].id = d => request[s].op = "rotate" /\ request[r].op = "rotate"
  BY <1>1 DEF Exclusive
<1>10. Protocol'
  <2> SUFFICES ASSUME NEW r \in Active, r # s
               PROVE  /\ ~request[r].locked => request[r].op = "delete" \/ request[r].todo = 3
                      /\ request[r].locked => request[r].op # "delete" /\ request[r].password \in Password
                      /\ request[r].op = "create" <=> request[r].id \notin Live'
    BY <1>4 DEF Protocol
  <2>1. request[r].op = "create" <=> request[r].id \notin Live
    BY DEF Protocol
  <2>2. request[r].id \in Live <=> request[r].id \in Live'
    BY <1>2, <1>8, <1>9 DEF Op
  <2> QED
    BY <2>1, <2>2 DEF Protocol
<1>11. Exclusive'
  BY <1>4 DEF Exclusive
<1>12. OneName'
  <2>1. \A r \in Slot : Creating(r)' => Creating(r) /\ r # s /\ request'[r] = request[r]
    BY <1>4 DEF Creating
  <2>2. request[s].op = "create" => Creating(s)
    BY <1>1, <1>6 DEF Creating
  <2>3. Live' \subseteq Live \/ (Live' = Live \cup {d} /\ Creating(s))
    BY <1>2, <1>8, <2>2 DEF Op
  <2>4. CASE Live' \subseteq Live
    BY <2>1, <2>4 DEF OneName
  <2>5. CASE Live' = Live \cup {d} /\ Creating(s)
    <3>1. \A e \in Live : NameOf[e] # NameOf[d]
      BY <2>5 DEF OneName
    <3>2. \A r \in Slot : Creating(r) /\ r # s => NameOf[request[r].id] # NameOf[d]
      BY <2>5 DEF OneName
    <3> QED
      BY <2>1, <2>5, <3>1, <3>2 DEF OneName
  <2> QED
    BY <2>3, <2>4, <2>5
<1>13. Progress'
  BY <1>1, <1>4 DEF Progress
<1>14. ASSUME NEW e \in Id, NEW r \in Of(e), r # s
       PROVE  r \in Of(e)' /\ request'[r] = request[r] /\ (Untouched(r) <=> Untouched(r)')
  BY <1>3, <1>14 DEF Of, Untouched, Active
<1>15. \A e \in Live' : e # d => e \in Live
  BY <1>2, <1>8 DEF Op
<1>16. UserWorks'
  <2> SUFFICES ASSUME NEW e \in Live', \A r \in Of(e)' : Untouched(r)'
               PROVE  "user" \in doubt'[e] \/ users[e] = [password |-> rows'[e], granted |-> TRUE]
    BY <1>1 DEF UserWorks
  <2> e \in Id
    BY DEF Live
  <2>1. CASE e = d
    <3>1. request[s].op # "delete"
      BY <1>8, <2>1
    <3>2. users[d] = [password |-> request[s].password, granted |-> TRUE]
      BY <1>1, <3>1, Zenon DEF Progress
    <3>3. rows'[d] = request[s].password
      BY <1>2, <1>7, <3>1 DEF Op
    <3> QED
      BY <2>1, <3>2, <3>3
  <2>2. CASE e # d
    <3>1. \A r \in Of(e) : Untouched(r)
      BY <1>14, <2>2 DEF Of
    <3> QED
      BY <1>5, <1>7, <1>15, <2>2, <3>1 DEF UserWorks
  <2> QED
    BY <2>1, <2>2
<1>17. SchemaWorks'
  <2> SUFFICES ASSUME NEW e \in Live', \A r \in Of(e)' : request'[r].op = "delete" => Untouched(r)'
               PROVE  "schema" \in doubt'[e] \/ NameOf[e] \in schemas
    BY <1>1 DEF SchemaWorks
  <2> e \in Id
    BY DEF Live
  <2>1. CASE e = d /\ request[s].op = "create"
    <3>1. NameOf[d] \in schemas
      <4>1. request[s].todo # 3
        BY <1>1
      <4> QED
        BY <1>1, <2>1, <4>1, Zenon DEF Progress
    <3> QED
      BY <2>1, <3>1
  <2>2. CASE e = d /\ request[s].op = "rotate"
    <3>1. \A r \in Of(e) : request[r].op = "delete" => Untouched(r)
      BY <1>14, <2>2
    <3>2. e \in Live /\ ("schema" \in doubt[e] => "schema" \in doubt'[e])
      BY <1>5, <1>8, <2>2, TouchesOf
    <3> QED
      BY <3>1, <3>2 DEF SchemaWorks
  <2>3. CASE e # d
    <3>1. \A r \in Of(e) : request[r].op = "delete" => Untouched(r)
      BY <1>14, <2>3 DEF Of
    <3> QED
      BY <1>5, <1>15, <2>3, <3>1 DEF SchemaWorks
  <2>4. e = d => request[s].op # "delete"
    BY <1>8
  <2> QED
    BY <1>2, <2>1, <2>2, <2>3, <2>4 DEF Op
<1> QED
  BY <1>10, <1>11, <1>12, <1>13, <1>16, <1>17

LEMMA StepHost ==
  ASSUME TypeOK, HostInv, ~Overlap, NEW s \in Slot,
         \/ \E d \in Id : BeginCreate(s, d) \/ BeginRotate(s, d) \/ BeginDelete(s, d)
         \/ Insert(s) \/ Update(s)
         \/ Execute(s) \/ Refused(s) \/ Unanswered(s)
         \/ Commit(s) \/ Die(s)
  PROVE  HostInv'
<1>1. ASSUME NEW d \in Id, BeginCreate(s, d)
      PROVE  HostInv'
  <2>1. Begin(s, "create", d) /\ "create" \in Op /\ d \notin spent
        /\ UNCHANGED <<rows, schemas, users, doubt>>
    BY <1>1 DEF BeginCreate, Op
  <2> QED
    BY <2>1, BeginHost
<1>2. ASSUME NEW d \in Id, BeginRotate(s, d)
      PROVE  HostInv'
  <2>1. Begin(s, "rotate", d) /\ "rotate" \in Op /\ d \in Live
        /\ UNCHANGED <<rows, schemas, users, doubt>>
    BY <1>2 DEF BeginRotate, Op
  <2> QED
    BY <2>1, BeginHost
<1>3. ASSUME NEW d \in Id, BeginDelete(s, d)
      PROVE  HostInv'
  <2>1. Begin(s, "delete", d) /\ "delete" \in Op /\ d \in Live
        /\ UNCHANGED <<rows, schemas, users, doubt>>
    BY <1>3 DEF BeginDelete, Op
  <2> QED
    BY <2>1, BeginHost
<1>4. ASSUME s \in Active, request[s].op # "delete", ~request[s].locked
      PROVE  Untouched(s)
  BY <1>4, ActiveType, Lengths DEF HostInv, Protocol, Untouched, Op
<1>5. CASE Insert(s)
  <2>1. /\ s \in Active /\ request[s].op = "create" /\ ~request[s].locked
        /\ UNCHANGED <<rows, schemas, users, doubt>>
    BY <1>5 DEF Insert, Active
  <2>2. CASE \E d \in Live : NameOf[d] = NameOf[request[s].id]
    <3>1. End(s)
      BY <1>5, <2>2 DEF Insert
    <3>2. Untouched(s)
      BY <1>4, <2>1
    <3> QED
      BY <2>1, <3>1, <3>2, EndHost
  <2>3. CASE ~\E d \in Live : NameOf[d] = NameOf[request[s].id]
    <3>1. PICK p \in Password : Lock(s, p)
      BY <1>5, <2>3 DEF Insert
    <3>2. \A r \in Slot : Creating(r) => NameOf[request[r].id] # NameOf[request[s].id]
      BY <1>5 DEF Insert, Creating
    <3> QED
      BY <2>1, <2>3, <3>1, <3>2, LockHost
  <2> QED
    BY <2>2, <2>3
<1>6. CASE Update(s)
  <2>1. /\ s \in Active /\ request[s].op = "rotate" /\ ~request[s].locked
        /\ UNCHANGED <<rows, schemas, users, doubt>>
        /\ \A r \in Of(request[s].id) : ~request[r].locked
    BY <1>6 DEF Update, Active
  <2>2. PICK p \in Password : Lock(s, p)
    BY <1>6 DEF Update
  <2> QED
    BY <2>1, <2>2, LockHost
<1>7. ASSUME s \in Active, ~(request[s].todo < Len(Statements[request[s].op]))
      PROVE  Untouched(s)
  BY <1>7, ActiveType, Lengths DEF Untouched, Request, Op
<1>8. CASE Refused(s)
  <2>1. s \in Active /\ End(s) /\ UNCHANGED <<rows, schemas, users>>
    BY <1>8 DEF Refused, Running
  <2>2. Unsettle(s) \/ (Untouched(s) /\ UNCHANGED doubt)
    BY <1>7, <1>8, <2>1 DEF Refused
  <2> QED
    BY <2>1, <2>2, EndHost
<1>9. CASE Unanswered(s)
  BY <1>9, EndHost DEF Unanswered, Running
<1>10. CASE Die(s)
  <2>1. s \in Active /\ End(s) /\ UNCHANGED <<rows, schemas, users>>
    BY <1>10 DEF Die
  <2>2. Unsettle(s) \/ (Untouched(s) /\ UNCHANGED doubt)
    BY <1>7, <1>10, <2>1 DEF Die
  <2> QED
    BY <2>1, <2>2, EndHost
<1> QED
  BY <1>1, <1>2, <1>3, <1>5, <1>6, <1>8, <1>9, <1>10, ExecuteHost, CommitHost

\* Nobody is at work on the database, and one row less keeps the others apart.
LEMMA DeleteRowHost ==
  ASSUME TypeOK, HostInv, ~Overlap, NEW d \in Id, DeleteRow(d)
  PROVE  HostInv'
<1>1. /\ rows' = [rows EXCEPT ![d] = NoPassword]
      /\ \A e \in Id : e # d => doubt'[e] = doubt[e]
      /\ UNCHANGED <<schemas, users, request>>
      /\ Active' = Active /\ \A e \in Id : Of(e)' = Of(e)
      /\ Of(d) = {}
  BY DEF DeleteRow, TypeOK, Active, Of
<1>2. Live' = Live \ {d} /\ \A e \in Live' : rows'[e] = rows[e]
  BY <1>1 DEF Live, TypeOK
<1>3. Protocol'
  <2>1. \A s \in Active : request[s].id \in Live <=> request[s].id \in Live'
    BY <1>1, <1>2 DEF Of
  <2> QED
    BY <1>1, <2>1 DEF HostInv, Protocol
<1>4. Exclusive' /\ Progress'
  BY <1>1 DEF HostInv, Exclusive, Progress
<1>5. OneName'
  BY <1>1, <1>2 DEF HostInv, OneName, Creating
<1>6. ASSUME NEW e \in Live'
      PROVE  /\ e \in Live /\ e \in Id /\ rows'[e] = rows[e] /\ doubt'[e] = doubt[e]
             /\ Of(e)' = Of(e)
             /\ \A s \in Of(e) : Untouched(s)' <=> Untouched(s)
  BY <1>1, <1>2, <1>6 DEF Live, Untouched
<1>7. UserWorks'
  BY <1>1, <1>6 DEF HostInv, UserWorks
<1>8. SchemaWorks'
  BY <1>1, <1>6 DEF HostInv, SchemaWorks
<1> QED
  BY <1>3, <1>4, <1>5, <1>7, <1>8 DEF HostInv

LEMMA HostInvariant == ASSUME ~Overlap PROVE Spec => []HostInv
<1>1. Init => HostInv
  BY PasswordAssumption, IdleType
     DEF Init, HostInv, Protocol, Exclusive, OneName, Creating, Progress, UserWorks,
         SchemaWorks, Active, Live
<1>2. TypeOK /\ HostInv /\ [Next]_vars => HostInv'
  <2> SUFFICES ASSUME TypeOK, HostInv, [Next]_vars PROVE HostInv'
    OBVIOUS
  <2>1. CASE UNCHANGED vars
    BY <2>1 DEF vars, HostInv, Protocol, Exclusive, OneName, Creating, Progress, UserWorks,
                SchemaWorks, Active, Live, Of, Untouched
  <2>2. CASE Next
    BY <2>2, StepHost, DeleteRowHost DEF Next
  <2> QED
    BY <2>1, <2>2
<1> QED
  BY <1>1, <1>2, TypeCorrect, PTL DEF Spec

\* As long as requests for a database do not overlap with its deletion, the
\* credentials the panel shows open the database, or a request that failed half
\* way is to blame.  (DatabasePasswordService::handle, DatabaseManagementService.)
THEOREM CredentialsAlwaysWork == ASSUME ~Overlap PROVE Spec => []CredentialsWork
BY HostInvariant, TypeCorrect, HostInvSuffices, PTL

-----------------------------------------------------------------------------
(* The limit, for any requests. *)

\* Only what was asked for with the check of the limit on.
Counted == Live \ waived

Creators == {s \in Active : request[s].op = "create" /\ request[s].id \notin waived}

LEMMA OneLess ==
  ASSUME NEW S, IsFiniteSet(S), NEW x \in S, NEW T, T \subseteq S \ {x}
  PROVE  Cardinality(T) <= Cardinality(S) - 1
<1>1. IsFiniteSet(S \ {x}) /\ Cardinality(S \ {x}) = Cardinality(S) - 1
  BY FS_RemoveElement
<1> QED
  BY <1>1, FS_Subset

LEMMA OneMore ==
  ASSUME NEW S, IsFiniteSet(S), NEW x, NEW T, T \subseteq S \cup {x}
  PROVE  Cardinality(T) <= Cardinality(S) + 1
<1>1. IsFiniteSet(S \cup {x}) /\ Cardinality(S \cup {x}) \in {Cardinality(S), Cardinality(S) + 1}
  BY FS_AddElement
<1>2. Cardinality(S) \in Nat
  BY FS_CardinalityType
<1>3. Cardinality(T) <= Cardinality(S \cup {x}) /\ IsFiniteSet(T)
  BY <1>1, FS_Subset
<1> QED
  BY <1>1, <1>2, <1>3, FS_CardinalityType

LEMMA CountsType ==
  ASSUME TypeOK
  PROVE  /\ IsFiniteSet(Counted) /\ Cardinality(Counted) \in Nat
         /\ IsFiniteSet(Creators) /\ Cardinality(Creators) \in Nat
         /\ Cardinality(Slot) \in Nat \ {0}
         /\ Creators \subseteq Slot /\ Cardinality(Creators) <= Cardinality(Slot)
<1>1. Live \subseteq Id /\ Counted \subseteq Live /\ Creators \subseteq Slot
  BY DEF Live, Counted, Creators, Active
<1>2. IsFiniteSet(Live) /\ IsFiniteSet(Counted) /\ IsFiniteSet(Creators) /\ Cardinality(Creators) <= Cardinality(Slot)
  BY <1>1, FS_Subset, IdAssumption, SlotAssumption
<1>3. Cardinality(Slot) # 0
  BY FS_EmptySet, SlotAssumption
<1> QED
  BY <1>1, <1>2, <1>3, FS_CardinalityType, SlotAssumption

\* What is counted can only become less, except by a step that counts below the
\* limit, or by a creation that becomes a database.
LEMMA CountStep ==
  ASSUME TypeOK, Limit # NoLimit, NEW s \in Slot,
         \/ \E d \in Id : BeginCreate(s, d) \/ BeginRotate(s, d) \/ BeginDelete(s, d)
         \/ Insert(s) \/ Update(s)
         \/ Execute(s) \/ Refused(s) \/ Unanswered(s)
         \/ Commit(s) \/ Die(s)
  PROVE  \/ Counted' \subseteq Counted /\ Creators' \subseteq Creators
         \/ Counted' = Counted /\ Cardinality(Live) < Limit
         \/ /\ s \in Creators /\ Creators' \subseteq Creators \ {s}
            /\ \E d \in Id : Counted' \subseteq Counted \cup {d}
<1>1. ASSUME NEW d \in Id, BeginCreate(s, d)
      PROVE  \/ Counted' \subseteq Counted /\ Creators' \subseteq Creators
             \/ Counted' = Counted /\ Cardinality(Live) < Limit
  <2>1. Live' = Live
    BY <1>1 DEF BeginCreate, Live
  <2>2. CASE UNCHANGED waived /\ Cardinality(Live) < Limit
    BY <2>1, <2>2 DEF Counted
  <2>3. CASE waived' = waived \cup {d}
    <3>1. /\ Active' = Active \cup {s} /\ request'[s].id = d
          /\ \A r \in Slot \ {s} : request'[r] = request[r]
      <4>1. Begin(s, "create", d) /\ "create" \in Op
        BY <1>1 DEF BeginCreate, Op
      <4> QED
        BY <4>1, BeginType
    <3>2. Creators' \subseteq Creators
      BY <2>3, <3>1 DEF Creators, Active
    <3> QED
      BY <2>1, <2>3, <3>2 DEF Counted
  <2> QED
    BY <1>1, <2>2, <2>3 DEF BeginCreate, Validate
<1>2. ASSUME NEW d \in Id, BeginRotate(s, d) \/ BeginDelete(s, d)
      PROVE  Counted' = Counted /\ Creators' \subseteq Creators
  <2>1. PICK op \in {"rotate", "delete"} : Begin(s, op, d)
    BY <1>2 DEF BeginRotate, BeginDelete
  <2>2. op \in Op
    BY DEF Op
  <2>3. /\ Active' = Active \cup {s} /\ request'[s].op # "create"
        /\ \A r \in Slot \ {s} : request'[r] = request[r]
    BY <2>1, <2>2, BeginType
  <2>4. UNCHANGED <<rows, waived>>
    BY <1>2 DEF BeginRotate, BeginDelete
  <2>5. Creators' \subseteq Creators
    BY <2>3, <2>4 DEF Creators, Active
  <2> QED
    BY <2>4, <2>5 DEF Counted, Live
<1>3. ASSUME End(s), UNCHANGED waived
      PROVE  Creators' \subseteq Creators \ {s}
  BY <1>3, EndType DEF Creators, Active
<1>4. ASSUME s \in Active, NEW p \in Password, Lock(s, p), UNCHANGED waived
      PROVE  Creators' \subseteq Creators
  BY <1>4, LockType DEF Creators, Active
<1>5. CASE Insert(s) \/ Update(s)
  <2>1. s \in Active
    BY <1>5 DEF Insert, Update, Active
  <2> QED
    BY <1>3, <1>4, <1>5, <2>1 DEF Insert, Update, Counted, Live
<1>6. CASE Execute(s)
  <2>1. \A r \in Slot : request'[r].op = request[r].op /\ request'[r].id = request[r].id
    BY <1>6 DEF Execute, TypeOK, Request
  <2> QED
    BY <1>6, <2>1 DEF Execute, Counted, Live, Creators, Active
<1>7. CASE Refused(s) \/ Unanswered(s) \/ Die(s)
  BY <1>3, <1>7 DEF Refused, Unanswered, Die, Counted, Live
<1>8. CASE Commit(s)
  <2>1. s \in Active /\ request[s].id \in Id /\ request[s].op \in Op
    BY <1>8, ActiveType DEF Commit, Request
  <2>2. Creators' \subseteq Creators \ {s} /\ UNCHANGED waived
    BY <1>3, <1>8 DEF Commit
  <2>3. CASE request[s].op = "create"
    <3>1. Live' \subseteq Live \cup {request[s].id}
      BY <1>8, <2>1, <2>3 DEF Commit, Live, TypeOK
    <3>2. CASE request[s].id \in waived
      BY <2>2, <3>1, <3>2 DEF Counted
    <3>3. CASE request[s].id \notin waived
      BY <2>1, <2>2, <2>3, <3>1, <3>3 DEF Creators, Counted
    <3> QED
      BY <3>2, <3>3
  <2>4. CASE request[s].op # "create"
    <3>1. Live' \subseteq Live
      BY <1>8, <2>1, <2>4 DEF Commit, Live, TypeOK, Op
    <3> QED
      BY <2>2, <3>1 DEF Counted
  <2> QED
    BY <2>3, <2>4
<1> QED
  BY <1>1, <1>2, <1>5, <1>6, <1>7, <1>8

\* Databases made with the check of the limit on exceed it by less than the
\* number of requests at a time, whatever fails, whatever overlaps and however
\* many were made with the check off.  (DatabaseManagementService::create.)
THEOREM LimitOnlyExceededByOthers == Spec => []LimitExceededByOthersOnly
<1> DEFINE Within == Limit # NoLimit =>
                       Cardinality(Counted) + Cardinality(Creators) < Limit + Cardinality(Slot)
<1>1. Within <=> LimitExceededByOthersOnly
  BY DEF LimitExceededByOthersOnly, Counted, Creators
<1>2. Init => Within
  <2> SUFFICES ASSUME Init, Limit # NoLimit
               PROVE  Cardinality(Counted) + Cardinality(Creators) < Limit + Cardinality(Slot)
    OBVIOUS
  <2>1. Counted = {} /\ Creators = {}
    BY IdleType DEF Init, Counted, Live, Creators, Active
  <2>2. Cardinality(Slot) \in Nat \ {0}
    BY FS_EmptySet, FS_CardinalityType, SlotAssumption
  <2> QED
    BY <2>1, <2>2, FS_EmptySet, LimitAssumption
<1>3. TypeOK /\ TypeOK' /\ Within /\ [Next]_vars => Within'
  <2> SUFFICES ASSUME TypeOK, TypeOK', Limit # NoLimit, [Next]_vars,
                      Cardinality(Counted) + Cardinality(Creators) < Limit + Cardinality(Slot)
               PROVE  Cardinality(Counted') + Cardinality(Creators') < Limit + Cardinality(Slot)
    OBVIOUS
  <2>1. /\ Cardinality(Counted) \in Nat /\ Cardinality(Creators) \in Nat
        /\ Cardinality(Slot) \in Nat /\ Limit \in Nat
        /\ IsFiniteSet(Counted) /\ IsFiniteSet(Creators)
    BY CountsType, LimitAssumption
  <2>2. /\ Cardinality(Counted') \in Nat /\ Cardinality(Creators') \in Nat
        /\ Cardinality(Creators') <= Cardinality(Slot)
    <3>1. IsFiniteSet(Counted') /\ Creators' \subseteq Slot
      <4>1. Counted' \subseteq Id /\ Creators' \subseteq Slot
        BY DEF Counted, Live, Creators, Active
      <4> QED
        BY <4>1, FS_Subset, IdAssumption
    <3> QED
      BY <3>1, FS_Subset, FS_CardinalityType, SlotAssumption
  <2>3. ASSUME Counted' \subseteq Counted, Creators' \subseteq Creators
        PROVE  Cardinality(Counted') + Cardinality(Creators') < Limit + Cardinality(Slot)
    <3>1. /\ Cardinality(Counted') <= Cardinality(Counted)
          /\ Cardinality(Creators') <= Cardinality(Creators)
      BY <2>1, <2>3, FS_Subset
    <3> QED
      BY <2>1, <2>2, <3>1
  <2>4. ASSUME Counted' = Counted, Cardinality(Live) < Limit
        PROVE  Cardinality(Counted') + Cardinality(Creators') < Limit + Cardinality(Slot)
    <3>1. Cardinality(Counted) <= Cardinality(Live) /\ Cardinality(Live) \in Nat
      <4>1. Counted \subseteq Live /\ IsFiniteSet(Live)
        BY IdAssumption, FS_Subset DEF Counted, Live
      <4> QED
        BY <4>1, FS_Subset, FS_CardinalityType
    <3> QED
      BY <2>1, <2>2, <2>4, <3>1
  <2>5. ASSUME NEW s \in Creators, Creators' \subseteq Creators \ {s},
               NEW d \in Id, Counted' \subseteq Counted \cup {d}
        PROVE  Cardinality(Counted') + Cardinality(Creators') < Limit + Cardinality(Slot)
    <3>1. Cardinality(Creators') <= Cardinality(Creators) - 1
      BY <2>1, <2>5, OneLess
    <3>2. Cardinality(Counted') <= Cardinality(Counted) + 1
      BY <2>1, <2>5, OneMore
    <3> QED
      BY <2>1, <2>2, <3>1, <3>2
  <2>6. CASE UNCHANGED vars
    BY <2>3, <2>6 DEF vars, Counted, Live, Creators, Active
  <2>7. ASSUME NEW d \in Id, DeleteRow(d)
        PROVE  Cardinality(Counted') + Cardinality(Creators') < Limit + Cardinality(Slot)
    <3>1. Counted' \subseteq Counted /\ Creators' = Creators
      BY <2>7 DEF DeleteRow, Counted, Live, Creators, Active, TypeOK
    <3> QED
      BY <2>3, <3>1
  <2>8. CASE Next /\ ~\E d \in Id : DeleteRow(d)
    <3>1. PICK s \in Slot :
            \/ Counted' \subseteq Counted /\ Creators' \subseteq Creators
            \/ Counted' = Counted /\ Cardinality(Live) < Limit
            \/ /\ s \in Creators /\ Creators' \subseteq Creators \ {s}
               /\ \E d \in Id : Counted' \subseteq Counted \cup {d}
      BY <2>8, CountStep DEF Next
    <3> QED
      BY <2>3, <2>4, <2>5, <3>1
  <2> QED
    BY <2>6, <2>7, <2>8
<1> HIDE DEF Within
<1>4. Spec => []Within
  BY <1>2, <1>3, TypeCorrect, PTL DEF Spec
<1> QED
  BY <1>1, <1>4, PTL
-----------------------------------------------------------------------------
(* What is left on the host, as long as no request for a database overlaps    *)
(* with its deletion.  Of(d) # {} is no reason to have anything on the host   *)
(* until a creation has sent a statement: a request that has sent none may    *)
(* end without a doubt.                                                       *)

\* A creation of d has sent a statement.
Begun(d) == \E s \in Of(d) : request[s].op = "create" /\ request[s].todo # 3

UsersKnown == \A d \in Id : users[d] # NoUser => d \in Live \/ "user" \in doubt[d] \/ Begun(d)

SchemasKnown ==
  \A n \in schemas :
    \E d \in Id : NameOf[d] = n /\ (d \in Live \/ "schema" \in doubt[d] \/ Begun(d))

\* What a deletion has removed stays away until it commits.
Dropped ==
  \A s \in Active :
    request[s].op = "delete" =>
      /\ request[s].todo # 2 => NameOf[request[s].id] \notin schemas
      /\ request[s].todo = 0 => users[request[s].id] = NoUser

LeftInv == UsersKnown /\ SchemasKnown /\ Dropped

LEMMA LeftInvSuffices == TypeOK /\ LeftInv => NothingLeftOnHost
<1> SUFFICES ASSUME TypeOK, LeftInv PROVE NothingLeftOnHost
  OBVIOUS
<1>1. \A d \in Id : Begun(d) => Of(d) # {}
  BY DEF Begun
<1>2. ASSUME NEW d \in Id \ Live, Of(d) = {}
      PROVE  users[d] = NoUser \/ "user" \in doubt[d]
  BY <1>1, <1>2 DEF LeftInv, UsersKnown
<1>3. ASSUME NEW n \in schemas
      PROVE  \E d \in Id : NameOf[d] = n /\ (d \in Live \/ Of(d) # {} \/ "schema" \in doubt[d])
  BY <1>1 DEF LeftInv, SchemasKnown
<1> QED
  BY <1>2, <1>3 DEF NothingLeftOnHost

\* A step that leaves the host and the rows alone, and sends nothing.
LEMMA QuietLeft ==
  ASSUME TypeOK, LeftInv, NEW s \in Slot, UNCHANGED <<rows, schemas, users, doubt>>,
         \A r \in Slot \ {s} : request'[r] = request[r],
         s \in Active /\ request[s].op = "create" /\ request[s].todo # 3 =>
           /\ s \in Active' /\ request'[s].op = "create" /\ request'[s].todo # 3
           /\ request'[s].id = request[s].id,
         s \in Active' /\ request'[s].op = "delete" => request'[s].todo = 2
  PROVE  LeftInv'
<1> USE DEF LeftInv
<1>1. Live' = Live
  BY DEF Live
<1>2. \A d \in Id : Begun(d) => Begun(d)'
  BY DEF Begun, Of, Active
<1>3. UsersKnown'
  BY <1>1, <1>2 DEF UsersKnown
<1>4. SchemasKnown'
  BY <1>1, <1>2 DEF SchemasKnown
<1>5. Dropped'
  <2> SUFFICES ASSUME NEW r \in Active', request'[r].op = "delete"
               PROVE  /\ request'[r].todo # 2 => NameOf[request'[r].id] \notin schemas
                      /\ request'[r].todo = 0 => users[request'[r].id] = NoUser
    BY DEF Dropped
  <2>1. CASE r = s
    BY <2>1
  <2>2. CASE r # s
    <3>1. r \in Active /\ request'[r] = request[r]
      BY <2>2 DEF Active
    <3> QED
      BY <3>1 DEF Dropped
  <2> QED
    BY <2>1, <2>2
<1> QED
  BY <1>3, <1>4, <1>5

\* What a statement adds to the host is the request's own, and a deletion that
\* goes on has removed what it should.
LEMMA EffectLeft ==
  ASSUME TypeOK, HostInv, LeftInv, NEW s \in Active, Running(s), Effect(s)
  PROVE  /\ schemas' \subseteq schemas \cup {NameOf[request[s].id]}
         /\ request[s].op # "create" => schemas' \subseteq schemas
         /\ \A d \in Id \ {request[s].id} : users'[d] = users[d]
         /\ request[s].op = "delete" => NameOf[request[s].id] \notin schemas'
         /\ request[s].op = "delete" /\ request[s].todo = 1 => users'[request[s].id] = NoUser
<1>1. /\ request[s].todo \in 1 .. 3 /\ request[s].op \in Op /\ request[s].todo > 0
      /\ request[s].id \in Id
      /\ (request[s].op = "delete" => request[s].todo # 3)
  BY NextStatement, ActiveType DEF Running, Request
<1>2. /\ schemas' \subseteq schemas \cup {NameOf[request[s].id]}
      /\ request[s].op # "create" => schemas' \subseteq schemas
  <2>1. CASE request[s].todo = 3
    BY <1>1, <2>1, EffectOf DEF Op
  <2>2. CASE request[s].todo = 2
    BY <1>1, <2>2, EffectOf
  <2>3. CASE request[s].todo = 1
    BY <1>1, <2>3, EffectOf
  <2> QED
    BY <1>1, <2>1, <2>2, <2>3
<1>3. ASSUME request[s].op = "delete"
      PROVE  NameOf[request[s].id] \notin schemas'
  <2>1. CASE request[s].todo = 2
    BY <1>1, <1>3, <2>1, EffectOf
  <2>2. CASE request[s].todo = 1
    <3>1. NameOf[request[s].id] \notin schemas
      BY <1>3, <2>2 DEF LeftInv, Dropped
    <3> QED
      BY <1>1, <1>3, <2>2, <3>1, EffectOf
  <2> QED
    BY <1>1, <1>3, <2>1, <2>2
<1>4. ASSUME request[s].op = "delete", request[s].todo = 1
      PROVE  users'[request[s].id] = NoUser
  <2>1. users' = [users EXCEPT ![request[s].id] = NoUser]
    BY <1>1, <1>4, EffectOf
  <2> QED
    BY <1>1, <2>1 DEF TypeOK
<1> QED
  BY <1>2, <1>3, <1>4, EffectOthers

\* The deletions of others find the host as they left it.
LEMMA OthersDropped ==
  ASSUME TypeOK, HostInv, LeftInv, NEW s \in Active, Running(s), Effect(s),
         NEW r \in Active, r # s, request[r].op = "delete"
  PROVE  /\ request[r].todo # 2 => NameOf[request[r].id] \notin schemas'
         /\ request[r].todo = 0 => users'[request[r].id] = NoUser
<1>1. request[r].id \in Id /\ request[r].id # request[s].id
  BY ActiveType DEF HostInv, Exclusive, Request
<1>2. request[r].id \in Live
  BY DEF HostInv, Protocol
<1>3. request[s].op = "create" => NameOf[request[s].id] # NameOf[request[r].id]
  <2>1. request[s].op = "create" => Creating(s) /\ s \in Slot
    BY DEF Creating, Running, Active
  <2> QED
    BY <1>2, <2>1 DEF HostInv, OneName
<1> QED
  BY <1>1, <1>3, EffectLeft DEF LeftInv, Dropped

LEMMA ExecuteLeft ==
  ASSUME TypeOK, HostInv, LeftInv, NEW s \in Slot, Execute(s)
  PROVE  LeftInv'
<1> USE DEF LeftInv
<1>1. s \in Active /\ Running(s) /\ Effect(s) /\ request[s].todo > 0
  BY DEF Execute, Running
<1>2. /\ request[s].op \in Op /\ request[s].todo \in 1 .. 3
      /\ request[s].id \in Id /\ request[s] \in Request
      /\ (request[s].op = "delete" => request[s].todo # 3)
  BY <1>1, NextStatement, ActiveType DEF Request
<1>3. /\ Active' = Active
      /\ \A r \in Slot \ {s} : request'[r] = request[r]
      /\ request'[s].op = request[s].op
      /\ request'[s].id = request[s].id
      /\ request'[s].todo = request[s].todo - 1
  BY <1>2 DEF Execute, TypeOK, Request, Active
<1>4. UNCHANGED <<rows, doubt>> /\ Live' = Live
  BY DEF Execute, Live
<1>5. \A d \in Id : Begun(d) => Begun(d)'
  BY <1>2, <1>3 DEF Begun, Of, Active
<1>6. \A d \in Id : d = request[s].id /\ request[s].op = "create" => Begun(d)'
  BY <1>1, <1>2, <1>3 DEF Begun, Of
<1>7. request[s].op # "create" => request[s].id \in Live
  BY <1>1 DEF HostInv, Protocol
<1>8. UsersKnown'
  BY <1>1, <1>4, <1>5, <1>6, <1>7, EffectLeft DEF UsersKnown
<1>9. SchemasKnown'
  <2> SUFFICES ASSUME NEW n \in schemas'
               PROVE  \E d \in Id : NameOf[d] = n /\ (d \in Live \/ "schema" \in doubt[d] \/ Begun(d)')
    BY <1>4 DEF SchemasKnown
  <2>1. CASE n \in schemas
    BY <1>5, <2>1 DEF SchemasKnown
  <2>2. CASE n \notin schemas
    <3>1. n = NameOf[request[s].id] /\ request[s].op = "create"
      BY <1>1, <2>2, EffectLeft
    <3> QED
      BY <1>2, <1>6, <3>1
  <2> QED
    BY <2>1, <2>2
<1>10. Dropped'
  <2> SUFFICES ASSUME NEW r \in Active, request'[r].op = "delete"
               PROVE  /\ request'[r].todo # 2 => NameOf[request'[r].id] \notin schemas'
                      /\ request'[r].todo = 0 => users'[request'[r].id] = NoUser
    BY <1>3 DEF Dropped
  <2>1. CASE r = s
    <3>1. request'[s].todo = 0 => request[s].todo = 1
      BY <1>2, <1>3
    <3> QED
      BY <1>1, <1>3, <2>1, <3>1, EffectLeft
  <2>2. CASE r # s
    <3>1. request'[r] = request[r]
      BY <1>3, <2>2 DEF Active
    <3> QED
      BY <1>1, <2>2, <3>1, OthersDropped
  <2> QED
    BY <2>1, <2>2
<1> QED
  BY <1>8, <1>9, <1>10

LEMMA EndLeft ==
  ASSUME TypeOK, HostInv, LeftInv, NEW s \in Active, End(s), rows' = rows,
         UNCHANGED <<users, schemas>> \/ (Running(s) /\ Effect(s)),
         Unsettle(s) \/ (Untouched(s) /\ UNCHANGED <<users, schemas, doubt>>)
  PROVE  LeftInv'
<1> USE DEF LeftInv
<1> DEFINE d == request[s].id
<1>1. /\ Active' = Active \ {s} /\ s \in Slot
      /\ \A r \in Slot \ {s} : request'[r] = request[r]
  BY EndType DEF Active
<1>2. \A r \in Active' : r \in Active /\ r # s /\ request'[r] = request[r]
  BY <1>1 DEF Active
<1>3. Live' = Live /\ d \in Id /\ request[s].op \in Op
  BY ActiveType DEF Live, Request
<1>4. \A e \in Id : e # d /\ Begun(e) => Begun(e)'
  BY <1>1 DEF Begun, Of, Active
<1>5. request[s].op # "create" => d \in Live
  BY DEF HostInv, Protocol
<1>6. Dropped'
  <2> SUFFICES ASSUME NEW r \in Active, r # s, request[r].op = "delete"
               PROVE  /\ request[r].todo # 2 => NameOf[request[r].id] \notin schemas'
                      /\ request[r].todo = 0 => users'[request[r].id] = NoUser
    BY <1>2 DEF Dropped
  <2>1. CASE UNCHANGED <<users, schemas>>
    BY <2>1 DEF Dropped
  <2>2. CASE Running(s) /\ Effect(s)
    BY <2>2, OthersDropped
  <2> QED
    BY <2>1, <2>2
<1>7. CASE Unsettle(s)
  <2>1. /\ doubt'[d] = doubt[d] \cup Touches[request[s].op]
        /\ \A e \in Id \ {d} : doubt'[e] = doubt[e]
    BY <1>3, <1>7 DEF Unsettle, TypeOK
  <2>2. d \in Live \/ (request[s].op = "create" /\ {"user", "schema"} \subseteq doubt'[d])
    BY <1>5, <2>1, TouchesOf
  <2>3. \A e \in Id \ {d} : users'[e] = users[e]
    BY EffectLeft
  <2>4. schemas' \subseteq schemas \cup {NameOf[d]}
    BY EffectLeft
  <2>5. UsersKnown'
    BY <1>3, <1>4, <2>1, <2>2, <2>3 DEF UsersKnown
  <2>6. SchemasKnown'
    <3> SUFFICES ASSUME NEW n \in schemas'
                 PROVE  \E e \in Id : NameOf[e] = n /\ (e \in Live \/ "schema" \in doubt'[e] \/ Begun(e)')
      BY <1>3 DEF SchemasKnown
    <3>1. CASE n = NameOf[d]
      BY <1>3, <2>2, <3>1
    <3>2. CASE n # NameOf[d]
      <4>1. PICK e \in Id : NameOf[e] = n /\ (e \in Live \/ "schema" \in doubt[e] \/ Begun(e))
        BY <2>4, <3>2 DEF SchemasKnown
      <4> QED
        BY <1>4, <2>1, <3>2, <4>1
    <3> QED
      BY <3>1, <3>2
  <2> QED
    BY <1>6, <2>5, <2>6
<1>8. CASE Untouched(s) /\ UNCHANGED <<users, schemas, doubt>>
  <2>1. request[s].op = "create" => request[s].todo = 3
    BY <1>8, Lengths DEF Untouched
  <2>2. \A e \in Id : Begun(e) => Begun(e)'
    BY <1>1, <2>1 DEF Begun, Of, Active
  <2>3. UsersKnown'
    BY <1>3, <1>8, <2>2 DEF UsersKnown
  <2>4. SchemasKnown'
    BY <1>3, <1>8, <2>2 DEF SchemasKnown
  <2> QED
    BY <1>6, <2>3, <2>4
<1> QED
  BY <1>7, <1>8

LEMMA CommitLeft ==
  ASSUME TypeOK, HostInv, LeftInv, NEW s \in Slot, Commit(s)
  PROVE  LeftInv'
<1> USE DEF LeftInv
<1> DEFINE d == request[s].id
<1>1. s \in Active /\ request[s].todo = 0 /\ End(s) /\ UNCHANGED <<users, schemas>>
  BY DEF Commit
<1>2. d \in Id /\ request[s].op \in Op
  BY <1>1, ActiveType DEF Request
<1>3. /\ Active' = Active \ {s}
      /\ \A r \in Slot \ {s} : request'[r] = request[r]
  BY <1>1, EndType
<1>4. /\ doubt'[d] = doubt[d] \ Touches[request[s].op]
      /\ \A e \in Id \ {d} : doubt'[e] = doubt[e]
  BY <1>2 DEF Commit, TypeOK
<1>5. \A e \in Id : e # d => (e \in Live <=> e \in Live')
  BY <1>2 DEF Commit, TypeOK, Live, Op
<1>6. request[s].op # "delete" => d \in Live'
  <2>1. request[s].op # "delete" => request[s].password \in Password
    BY <1>1 DEF HostInv, Protocol
  <2>2. request[s].op = "rotate" => d \in Live
    BY <1>1 DEF HostInv, Protocol
  <2> QED
    BY <1>2, <2>1, <2>2, PasswordAssumption DEF Commit, TypeOK, Live, Op
<1>7. request[s].op = "delete" => users[d] = NoUser /\ NameOf[d] \notin schemas
  BY <1>1 DEF Dropped
<1>8. \A e \in Id : e # d /\ Begun(e) => Begun(e)'
  BY <1>3 DEF Begun, Of, Active
<1>9. UsersKnown'
  BY <1>1, <1>2, <1>4, <1>5, <1>6, <1>7, <1>8 DEF UsersKnown
<1>10. SchemasKnown'
  <2> SUFFICES ASSUME NEW n \in schemas
               PROVE  \E e \in Id : NameOf[e] = n /\ (e \in Live' \/ "schema" \in doubt'[e] \/ Begun(e)')
    BY <1>1 DEF SchemasKnown
  <2>1. PICK e \in Id : NameOf[e] = n /\ (e \in Live \/ "schema" \in doubt[e] \/ Begun(e))
    BY DEF SchemasKnown
  <2>2. CASE e = d
    BY <1>2, <1>6, <1>7, <2>1, <2>2
  <2>3. CASE e # d
    BY <1>4, <1>5, <1>8, <2>1, <2>3
  <2> QED
    BY <2>2, <2>3
<1>11. Dropped'
  <2>1. \A r \in Active' : r \in Active /\ request'[r] = request[r]
    BY <1>3 DEF Active
  <2> QED
    BY <1>1, <2>1 DEF Dropped
<1> QED
  BY <1>9, <1>10, <1>11

LEMMA StepLeft ==
  ASSUME TypeOK, HostInv, LeftInv, NEW s \in Slot,
         \/ \E d \in Id : BeginCreate(s, d) \/ BeginRotate(s, d) \/ BeginDelete(s, d)
         \/ Insert(s) \/ Update(s)
         \/ Execute(s) \/ Refused(s) \/ Unanswered(s)
         \/ Commit(s) \/ Die(s)
  PROVE  LeftInv'
<1>1. ASSUME NEW d \in Id, NEW op \in Op, Begin(s, op, d), UNCHANGED <<rows, schemas, users, doubt>>
      PROVE  LeftInv'
  <2>1. request'[s].op = "delete" => request'[s].todo = 2
    <3>1. request'[s].op = op /\ request'[s].todo = Len(Statements[op])
      BY <1>1, BeginType
    <3> QED
      BY <3>1, Lengths
  <2> QED
    BY <1>1, <2>1, BeginType, QuietLeft
<1>2. ASSUME NEW d \in Id, BeginCreate(s, d) \/ BeginRotate(s, d) \/ BeginDelete(s, d)
      PROVE  LeftInv'
  BY <1>1, <1>2 DEF BeginCreate, BeginRotate, BeginDelete, Op
<1>3. ASSUME s \in Active, request[s].op # "delete", ~request[s].locked
      PROVE  Untouched(s)
  BY <1>3, ActiveType, Lengths DEF HostInv, Protocol, Untouched, Op
<1>4. ASSUME s \in Active, request[s].op # "delete", ~request[s].locked,
             UNCHANGED <<rows, schemas, users, doubt>>,
             End(s) \/ \E p \in Password : Lock(s, p)
      PROVE  LeftInv'
  <2>1. CASE End(s)
    BY <1>3, <1>4, <2>1, EndLeft
  <2>2. ASSUME NEW p \in Password, Lock(s, p)
        PROVE  LeftInv'
    BY <1>4, <2>2, LockType, QuietLeft
  <2> QED
    BY <1>4, <2>1, <2>2
<1>5. CASE Insert(s) \/ Update(s)
  <2>1. s \in Active /\ request[s].op # "delete" /\ ~request[s].locked
        /\ UNCHANGED <<rows, schemas, users, doubt>>
    BY <1>5 DEF Insert, Update, Active
  <2>2. End(s) \/ \E p \in Password : Lock(s, p)
    BY <1>5 DEF Insert, Update
  <2> QED
    BY <1>4, <2>1, <2>2
<1>6. ASSUME s \in Active, ~(request[s].todo < Len(Statements[request[s].op]))
      PROVE  Untouched(s)
  BY <1>6, ActiveType, Lengths DEF Untouched, Request, Op
<1>7. CASE Refused(s) \/ Die(s)
  <2>1. s \in Active /\ End(s) /\ UNCHANGED <<rows, schemas, users>>
    BY <1>7 DEF Refused, Die, Running
  <2>2. Unsettle(s) \/ (Untouched(s) /\ UNCHANGED doubt)
    BY <1>6, <1>7, <2>1 DEF Refused, Die
  <2> QED
    BY <2>1, <2>2, EndLeft
<1>8. CASE Unanswered(s)
  BY <1>8, EndLeft DEF Unanswered, Running
<1> QED
  BY <1>2, <1>5, <1>7, <1>8, ExecuteLeft, CommitLeft

\* What was of the row is in doubt from now on.
LEMMA DeleteRowLeft ==
  ASSUME TypeOK, LeftInv, NEW d \in Id, DeleteRow(d)
  PROVE  LeftInv'
<1>1. /\ rows' = [rows EXCEPT ![d] = NoPassword]
      /\ doubt'[d] = {"schema", "user"}
      /\ \A e \in Id : e # d => doubt'[e] = doubt[e]
      /\ UNCHANGED <<schemas, users, request>>
  BY DEF DeleteRow, TypeOK
<1>2. \A e \in Live : e # d => e \in Live'
  BY <1>1 DEF Live, TypeOK
<1>3. Active' = Active /\ \A e \in Id : Begun(e)' <=> Begun(e)
  BY <1>1 DEF Active, Begun, Of
<1>4. UsersKnown'
  BY <1>1, <1>2, <1>3 DEF LeftInv, UsersKnown
<1>5. SchemasKnown'
  BY <1>1, <1>2, <1>3 DEF LeftInv, SchemasKnown
<1>6. Dropped'
  BY <1>1, <1>3 DEF LeftInv, Dropped
<1> QED
  BY <1>4, <1>5, <1>6 DEF LeftInv

\* As long as requests for a database do not overlap with its deletion, nothing
\* is on the host that the panel does not know of, unless a request that failed
\* half way, or deleted the row only, left it there.  (DatabaseManagementService::create and ::delete.)
THEOREM NothingUnknownOnHost == ASSUME ~Overlap PROVE Spec => []NothingLeftOnHost
<1>1. Init => LeftInv
  <2> SUFFICES ASSUME Init PROVE LeftInv
    OBVIOUS
  <2>1. Active = {}
    BY IdleType DEF Init, Active
  <2> QED
    BY <2>1 DEF Init, LeftInv, UsersKnown, SchemasKnown, Dropped
<1>2. TypeOK /\ HostInv /\ LeftInv /\ [Next]_vars => LeftInv'
  <2> SUFFICES ASSUME TypeOK, HostInv, LeftInv, [Next]_vars PROVE LeftInv'
    OBVIOUS
  <2>1. CASE UNCHANGED vars
    BY <2>1 DEF vars, LeftInv, UsersKnown, SchemasKnown, Dropped, Begun, Of, Active, Live
  <2>2. CASE Next
    BY <2>2, StepLeft, DeleteRowLeft DEF Next
  <2> QED
    BY <2>1, <2>2
<1> QED
  BY <1>1, <1>2, TypeCorrect, HostInvariant, LeftInvSuffices, PTL DEF Spec
=============================================================================
