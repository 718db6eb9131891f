----------------------------- MODULE Databases -----------------------------
(***************************************************************************)
(* The databases of one server on one database host: the rows the panel    *)
(* keeps, and the schemas and users that are really on the host.  A        *)
(* request changes both.  Its transaction covers the rows; the statements  *)
(* on the host go through another connection, one by one, and are not      *)
(* undone when a later one fails or the process dies.                      *)
(*                                                                         *)
(* A user name is made up for every new database and never used again, so  *)
(* it stands for its row here, together with the name of the schema the    *)
(* row is for.  FLUSH PRIVILEGES changes nothing and is left out.          *)
(***************************************************************************)
EXTENDS Naturals, FiniteSets, Sequences

CONSTANTS
  Id,         \* user names
  Name,       \* schema names
  NameOf,     \* the schema of each
  Password,
  NoPassword,
  Slot,       \* requests at the same time
  Limit,      \* database_limit
  NoLimit,    \* null: there is none
  Outcomes,   \* how a statement on the host may end
  Overlap     \* requests for a database overlap with its deletion

ASSUME IdAssumption == IsFiniteSet(Id) /\ Id # {} /\ NameOf \in [Id -> Name]
ASSUME PasswordAssumption == NoPassword \notin Password
ASSUME SlotAssumption == IsFiniteSet(Slot) /\ Slot # {}
ASSUME LimitAssumption == Limit \in Nat \cup {NoLimit} /\ NoLimit \notin Nat
ASSUME OutcomesAssumption == Outcomes \subseteq {"done", "refused", "unanswered"}
ASSUME OverlapAssumption == Overlap \in BOOLEAN

VARIABLES
  rows,      \* the committed row of each database: its password
  spent,     \* the user names that were used
  waived,    \* those asked for with the check of the limit switched off (history)
  schemas,   \* on the host
  users,     \* on the host: password and grant
  request,   \* what each request is doing
  doubt      \* what a request has left unsettled on the host (history)

vars == <<rows, spent, waived, schemas, users, request, doubt>>

Op == {"create", "rotate", "delete"}

Statements ==
  [create |-> <<"createDatabase", "createUser", "grant">>,
   rotate |-> <<"dropUser", "createUser", "grant">>,
   delete |-> <<"dropDatabase", "dropUser">>]

Touches ==
  [create |-> {"schema", "user"}, rotate |-> {"user"}, delete |-> {"schema", "user"}]

User == [password : Password \cup {NoPassword}, granted : BOOLEAN]

NoUser == [password |-> NoPassword, granted |-> FALSE]

\* The row it locks is that of `id`, or the key of one that is not committed.
Request ==
  [op : Op \cup {"none"}, id : Id, password : Password \cup {NoPassword},
   locked : BOOLEAN, todo : 0 .. 3]

Live == {d \in Id : rows[d] # NoPassword}

Active == {s \in Slot : request[s].op # "none"}

TypeOK ==
  /\ rows \in [Id -> Password \cup {NoPassword}]
  /\ spent \in SUBSET Id
  /\ waived \in SUBSET spent
  /\ schemas \in SUBSET Name
  /\ users \in [Id -> User]
  /\ request \in [Slot -> Request]
  /\ doubt \in [Id -> SUBSET {"schema", "user"}]
  /\ Live \cup {request[s].id : s \in Active} \subseteq spent
  /\ \A s \in Active : request[s].todo <= Len(Statements[request[s].op])

-----------------------------------------------------------------------------

Idle ==
  [op |-> "none", id |-> CHOOSE d \in Id : TRUE, password |-> NoPassword,
   locked |-> FALSE, todo |-> 0]

Of(d) == {s \in Active : request[s].id = d}

End(s) == request' = [request EXCEPT ![s] = Idle]

Begin(s, op, d) ==
  /\ s \notin Active
  /\ Overlap \/ \A r \in Of(d) : op # "delete" /\ request[r].op # "delete"
  /\ request' = [request EXCEPT ![s] =
       [Idle EXCEPT !.op = op, !.id = d, !.todo = Len(Statements[op])]]

\* Mutant: the check of the limit lets one more through.
ValidateOneMore(d) ==
  \/ (Limit # NoLimit => Cardinality(Live) <= Limit) /\ UNCHANGED waived
  \/ waived' = waived \cup {d}

\* The limit is checked, unless there is none or an administrator creates the
\* database in the panel: validateDatabaseLimit is off then.
Validate(d) ==
  \/ (Limit # NoLimit => Cardinality(Live) < Limit) /\ UNCHANGED waived
  \/ waived' = waived \cup {d}

\* Mutant: a user name is not remembered as used.
BeginCreateUnspent(s, d) ==
  /\ d \notin spent
  /\ Validate(d)
  /\ Begin(s, "create", d)
  /\ UNCHANGED <<rows, spent, schemas, users, doubt>>

\* DatabaseManagementService::create, up to the transaction.
BeginCreate(s, d) ==
  /\ d \notin spent
  /\ Validate(d)
  /\ Begin(s, "create", d)
  /\ spent' = spent \cup {d}
  /\ UNCHANGED <<rows, schemas, users, doubt>>

\* The row is loaded.
BeginRotate(s, d) ==
  /\ d \in Live
  /\ Begin(s, "rotate", d)
  /\ UNCHANGED <<rows, spent, waived, schemas, users, doubt>>

BeginDelete(s, d) ==
  /\ d \in Live
  /\ Begin(s, "delete", d)
  /\ UNCHANGED <<rows, spent, waived, schemas, users, doubt>>

\* Random, hence none that was in use for d.
Fresh(d, p) ==
  /\ p \notin {rows[d], users[d].password}
  /\ \A s \in Of(d) : p # request[s].password

Lock(s, p) == request' = [request EXCEPT ![s].password = p, ![s].locked = TRUE]

\* createModel: the name is asked for, then the unique key waits for others
\* that have inserted it and not committed.
Insert(s) ==
  LET name == NameOf[request[s].id]
  IN /\ request[s].op = "create" /\ ~request[s].locked
     /\ \A r \in Slot : request[r].op = "create" /\ request[r].locked
                          => NameOf[request[r].id] # name
     /\ IF \E d \in Live : NameOf[d] = name
        THEN End(s)
        ELSE \E p \in Password : Fresh(request[s].id, p) /\ Lock(s, p)
     /\ UNCHANGED <<rows, spent, waived, schemas, users, doubt>>

\* Mutant: the row is not written, and locked, before the host is changed.
UpdateUnlocked(s) ==
  /\ request[s].op = "rotate" /\ ~request[s].locked
  /\ \E p \in Password : Fresh(request[s].id, p) /\ Lock(s, p)
  /\ UNCHANGED <<rows, spent, waived, schemas, users, doubt>>

\* DatabasePasswordService: the update waits for the lock of the row.
Update(s) ==
  /\ request[s].op = "rotate" /\ ~request[s].locked
  /\ \A r \in Of(request[s].id) : ~request[r].locked
  /\ \E p \in Password : Fresh(request[s].id, p) /\ Lock(s, p)
  /\ UNCHANGED <<rows, spent, waived, schemas, users, doubt>>

-----------------------------------------------------------------------------
(* Statements on the host. *)

Statement(s) ==
  LET all == Statements[request[s].op]
  IN all[Len(all) + 1 - request[s].todo]

\* What the statement makes of the host.
Effect(s) ==
  LET d == request[s].id
      statement == Statement(s)
  IN /\ schemas' = CASE statement = "createDatabase" -> schemas \cup {NameOf[d]}
                     [] statement = "dropDatabase" -> schemas \ {NameOf[d]}
                     [] OTHER -> schemas
     /\ users' = CASE statement = "createUser" ->
                        [users EXCEPT ![d] = [password |-> request[s].password,
                                              granted |-> FALSE]]
                   [] statement = "grant" ->
                        [users EXCEPT ![d] = [password |-> @.password, granted |-> TRUE]]
                   [] statement = "dropUser" -> [users EXCEPT ![d] = NoUser]
                   [] OTHER -> users

\* There is no IF NOT EXISTS in createUser, and no user to give a grant to.
Possible(s) ==
  LET user == users[request[s].id]
  IN /\ Statement(s) = "createUser" => user = NoUser
     /\ Statement(s) = "grant" => user # NoUser

\* A deletion holds no lock yet.
Running(s) ==
  /\ s \in Active /\ request[s].todo > 0
  /\ request[s].op = "delete" \/ request[s].locked

Execute(s) ==
  /\ Running(s)
  /\ Possible(s) /\ "done" \in Outcomes
  /\ Effect(s)
  /\ request' = [request EXCEPT ![s].todo = @ - 1]
  /\ UNCHANGED <<rows, spent, waived, doubt>>

\* The exception leaves the transaction, which is rolled back: no row changes.
Unsettle(s) ==
  doubt' = [doubt EXCEPT ![request[s].id] = @ \cup Touches[request[s].op]]

\* The host refuses, or cannot be reached.
Refused(s) ==
  /\ Running(s)
  /\ ~Possible(s) \/ "refused" \in Outcomes
  /\ IF request[s].todo < Len(Statements[request[s].op]) THEN Unsettle(s) ELSE UNCHANGED doubt
  /\ End(s)
  /\ UNCHANGED <<rows, spent, waived, schemas, users>>

\* The statement took effect, but the connection broke or the process died.
Unanswered(s) ==
  /\ Running(s)
  /\ Possible(s) /\ "unanswered" \in Outcomes
  /\ Effect(s)
  /\ Unsettle(s)
  /\ End(s)
  /\ UNCHANGED <<rows, spent, waived>>

-----------------------------------------------------------------------------

\* Mutant: the row is deleted before the statements, in a transaction that is
\* committed whatever becomes of them.
CommitAnyway(s) ==
  LET d == request[s].id
  IN /\ s \in Active
     /\ request[s].todo = 0 \/ request[s].op = "delete"
     /\ rows' = [rows EXCEPT ![d] = IF request[s].op = "delete" THEN NoPassword
                                    ELSE request[s].password]
     /\ doubt' = [doubt EXCEPT ![d] = @ \ Touches[request[s].op]]
     /\ End(s)
     /\ UNCHANGED <<spent, waived, schemas, users>>

\* The end of the transaction; that of a deletion writes the row only now.
Commit(s) ==
  LET d == request[s].id
  IN /\ s \in Active /\ request[s].todo = 0
     /\ request[s].op = "delete" => \A r \in Of(d) : ~request[r].locked
     /\ rows' = CASE request[s].op = "create" -> [rows EXCEPT ![d] = request[s].password]
                  [] request[s].op = "delete" -> [rows EXCEPT ![d] = NoPassword]
                  [] OTHER -> [rows EXCEPT ![d] = IF d \in Live THEN request[s].password ELSE @]
     /\ doubt' = [doubt EXCEPT ![d] = @ \ Touches[request[s].op]]
     /\ End(s)
     /\ UNCHANGED <<spent, waived, schemas, users>>

\* The page of a database host, where administrators delete the row and nothing
\* is sent to the host.  It waits for the lock of the row.
DeleteRow(d) ==
  /\ d \in Live
  /\ \A r \in Of(d) : Overlap /\ ~request[r].locked
  /\ rows' = [rows EXCEPT ![d] = NoPassword]
  /\ doubt' = [doubt EXCEPT ![d] = {"schema", "user"}]
  /\ UNCHANGED <<spent, waived, schemas, users, request>>

\* The process dies between two statements, or the commit fails.
Die(s) ==
  /\ s \in Active
  /\ IF request[s].todo < Len(Statements[request[s].op]) THEN Unsettle(s) ELSE UNCHANGED doubt
  /\ End(s)
  /\ UNCHANGED <<rows, spent, waived, schemas, users>>

-----------------------------------------------------------------------------

Init ==
  /\ rows = [d \in Id |-> NoPassword]
  /\ spent = {}
  /\ waived = {}
  /\ schemas = {}
  /\ users = [d \in Id |-> NoUser]
  /\ request = [s \in Slot |-> Idle]
  /\ doubt = [d \in Id |-> {}]

Next ==
  \/ \E s \in Slot :
       \/ \E d \in Id : BeginCreate(s, d) \/ BeginRotate(s, d) \/ BeginDelete(s, d)
       \/ Insert(s) \/ Update(s)
       \/ Execute(s) \/ Refused(s) \/ Unanswered(s)
       \/ Commit(s) \/ Die(s)
  \/ \E d \in Id : DeleteRow(d)

Spec == Init /\ [][Next]_vars

-----------------------------------------------------------------------------
(* Properties.                                                               *)

\* The host's side of database d is not being changed, or only by a rotation
\* that still waits for the lock.
Settled(d) == \A s \in Of(d) : request[s].op = "rotate" /\ ~request[s].locked

\* The credentials the panel shows open the database, however rotations of the
\* same password interleave, unless the last request that ended half way was
\* never made good.  (DatabasePasswordService::handle updates the row first
\* and so holds its lock while it replaces the user.)
CredentialsWork ==
  \A d \in Live :
    Settled(d) =>
      /\ "user" \in doubt[d] \/ users[d] = [password |-> rows[d], granted |-> TRUE]
      /\ "schema" \in doubt[d] \/ NameOf[d] \in schemas

\* What is on the host without a row in the panel, or on its way to one, was
\* left there by a request that failed half way and was not repeated with
\* success, or by the deletion of a row only.  (DatabaseManagementService::create
\* and ::delete.)
NothingLeftOnHost ==
  /\ \A d \in Id \ Live : Of(d) = {} => users[d] = NoUser \/ "user" \in doubt[d]
  /\ \A n \in schemas :
       \E d \in Id : NameOf[d] = n /\ (d \in Live \/ Of(d) # {} \/ "schema" \in doubt[d])

\* Where there is a limit, the databases made with the check on exceed it by
\* less than the number of requests at a time, even counting the creations that
\* have not ended: only requests that overlap exceed it.  Those made with the
\* check off may exceed it, and take the place of others while they exist.
\* (DatabaseManagementService::create counts before it inserts.)
LimitExceededByOthersOnly ==
  LET creating == {s \in Active : request[s].op = "create" /\ request[s].id \notin waived}
  IN Limit # NoLimit =>
       Cardinality(Live \ waived) + Cardinality(creating) < Limit + Cardinality(Slot)
=============================================================================
