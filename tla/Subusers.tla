------------------------------ MODULE Subusers ------------------------------
(***************************************************************************)
(* Who may do what with one server, and the tokens with which the daemon   *)
(* lets users into its console.  A token carries the permissions its user  *)
(* had when it was asked for, and is valid for ten minutes; when they      *)
(* change the panel tells the daemon to deny the tokens issued so far.  It *)
(* does so inside the transaction that changes them: until the commit      *)
(* every other request reads the old ones, and a token issued then is one  *)
(* the daemon does not deny.                                               *)
(*                                                                         *)
(* Changes overlap; Slot is the requests at the same time.  What keeps     *)
(* them apart is a row locked by the transaction that wrote it: a subuser  *)
(* row while it is updated or deleted, the row of the server while it gets *)
(* another owner (a subuser row that is inserted refers to it, and waits). *)
(* Permissions that administrators have on every server are left out.      *)
(***************************************************************************)
EXTENDS FiniteSets, Naturals

CONSTANTS
  User,
  Permission,   \* what a subuser may be given besides websocket.connect
  Connect,      \* websocket.connect
  Answers,      \* how the call to the daemon may end
  Id,           \* subuser rows at the same time
  None,         \* no row
  Slot,         \* requests at the same time
  MaxTokens     \* tokens asked for or valid at the same time

ASSUME UserAssumption == User # {}
ASSUME ConnectAssumption == Connect \notin Permission
ASSUME AnswersAssumption == Answers \subseteq {"accepted", "lost"}
ASSUME NoneAssumption == None \notin Id
ASSUME MaxTokensAssumption == MaxTokens \in Nat

VARIABLES
  owner,        \* owner_id
  rows,         \* the subuser rows; one that does not exist permits nothing
  request,      \* what each request is doing
  asked,        \* what each token request read, or {}
  tokens        \* the tokens that are valid

vars == <<owner, rows, request, asked, tokens>>

All == Permission \cup {Connect}

\* Two creations at once give a user two rows, and one that overlaps a change
\* of owner gives the new owner one: these are excused (see OwnerIsNoSubuser).
Row == [user : User, permissions : SUBSET All, excused : BOOLEAN]

\* `loaded` is the owner of the server as the request loaded it, `open` whether
\* its transaction has written, `revoke` whose tokens it has still to deny.
Request ==
  [op : {"create", "update", "delete", "hook", "save"}, open : BOOLEAN,
   user : User, loaded : User, row : Id \cup {None},
   permissions : SUBSET All, revoke : SUBSET User]

Idle == [op |-> "idle", open |-> FALSE]

\* A token is excused if nothing in the panel denied it: it was issued on a
\* reading that a change overtook, the call was lost, or its user was the owner
\* until a request that does not revoke it replaced him.
Token == [user : User, permissions : SUBSET All, excused : BOOLEAN]

TypeOK ==
  /\ owner \in User
  /\ rows \in [Id -> Row]
  /\ request \in [Slot -> Request \cup {Idle}]
  /\ asked \in [User -> SUBSET All]
  /\ tokens \subseteq Token

-----------------------------------------------------------------------------

NoRow == [user |-> CHOOSE u \in User : TRUE, permissions |-> {}, excused |-> FALSE]

Exists(i) == rows[i].permissions # {}
RowsOf(u) == {i \in Id : Exists(i) /\ rows[i].user = u}

\* What a user may do.  (GetUserPermissionsService; which of two rows of a user
\* it finds is up to the database.)
Rights(u) == IF u = owner THEN All ELSE UNION {rows[i].permissions : i \in RowsOf(u)}

Locked(i) == \E c \in Slot : request[c].open /\ request[c].row = i

Dirty(q) == q.op = "save" /\ q.user # q.loaded
ServerLocked == \E c \in Slot : request[c].open /\ Dirty(request[c])

\* Row ids are not used again.
Unused(i) == ~Exists(i) /\ ~Locked(i)

Become(c, q) == request' = [request EXCEPT ![c] = q]
End(c) == Become(c, Idle)

Asked(op, open, u, row, P, revoke) ==
  [op |-> op, open |-> open, user |-> u, loaded |-> owner, row |-> row,
   permissions |-> P, revoke |-> revoke]

Excused(u) == {IF t.user = u THEN [t EXCEPT !.excused = TRUE] ELSE t : t \in tokens}

-----------------------------------------------------------------------------
(* Subusers.                                                                 *)

\* Mutant: a permission the panel does not know is not filtered out.
BeginCreateUnfiltered(c, u, P) ==
  /\ request[c].op = "idle"
  /\ u # owner
  /\ Become(c, Asked("create", FALSE, u, None, P \cup {Connect, "unknown"}, {}))
  /\ UNCHANGED <<owner, rows, asked, tokens>>

\* SubuserController::getDefaultPermissions, and SubuserCreationService, which
\* compares with the owner of the server that was loaded.
BeginCreate(c, u, P) ==
  /\ request[c].op = "idle"
  /\ u # owner
  /\ Become(c, Asked("create", FALSE, u, None, P \cup {Connect}, {}))
  /\ UNCHANGED <<owner, rows, asked, tokens>>

\* The user has no row yet.
CheckCreate(c) ==
  /\ request[c].op = "create" /\ ~request[c].open
  /\ RowsOf(request[c].user) = {}
  /\ Become(c, [request[c] EXCEPT !.open = TRUE])
  /\ UNCHANGED <<owner, rows, asked, tokens>>

Insert(c) ==
  LET u == request[c].user
      twice == RowsOf(u) # {}
  IN /\ request[c].op = "create" /\ request[c].open
     /\ ~ServerLocked
     /\ \E i \in Id :
          /\ Unused(i)
          /\ rows' = [j \in Id |->
               IF j = i
               THEN [user |-> u, permissions |-> request[c].permissions,
                     excused |-> u = owner \/ twice]
               ELSE [rows[j] EXCEPT !.excused = @ \/ j \in RowsOf(u)]]
     /\ End(c)
     /\ UNCHANGED <<owner, asked, tokens>>

\* Mutant: the daemon is not told.
BeginUpdateSilent(c, i, P) ==
  /\ request[c].op = "idle"
  /\ Exists(i) /\ ~Locked(i)
  /\ rows[i].permissions # P \cup {Connect}
  /\ Become(c, Asked("update", TRUE, rows[i].user, i, P \cup {Connect}, {}))
  /\ UNCHANGED <<owner, rows, asked, tokens>>

\* SubuserUpdateService: nothing happens if they are the same.
BeginUpdate(c, i, P) ==
  /\ request[c].op = "idle"
  /\ Exists(i) /\ ~Locked(i)
  /\ rows[i].permissions # P \cup {Connect}
  /\ Become(c, Asked("update", TRUE, rows[i].user, i, P \cup {Connect}, {rows[i].user}))
  /\ UNCHANGED <<owner, rows, asked, tokens>>

\* SubuserDeletionService.
BeginDelete(c, i) ==
  /\ request[c].op = "idle"
  /\ Exists(i) /\ ~Locked(i)
  /\ Become(c, Asked("delete", TRUE, rows[i].user, i, {}, {rows[i].user}))
  /\ UNCHANGED <<owner, rows, asked, tokens>>

\* Every call was made.
CommitRow(c) ==
  LET q == request[c]
  IN /\ q.op \in {"update", "delete", "hook"} /\ q.revoke = {}
     /\ rows' = [rows EXCEPT ![q.row] =
                   IF q.op = "update" THEN [@ EXCEPT !.permissions = q.permissions] ELSE NoRow]
     /\ End(c)
     /\ UNCHANGED <<owner, asked, tokens>>

-----------------------------------------------------------------------------
(* Owners.                                                                   *)

\* A request saves a server it has loaded: with another owner, or (as almost
\* everything that is done with a server does) with the one it has loaded.
BeginSave(c, u) ==
  /\ request[c].op = "idle"
  /\ Become(c, Asked("save", FALSE, u, None, {}, {}))
  /\ UNCHANGED <<owner, rows, asked, tokens>>

\* The hook of Server: the row, or one of them, of a user who is a subuser of
\* the server that was saved with him as its owner.
ToDelete(u) == IF RowsOf(u) = {} THEN {None} ELSE RowsOf(u)

CanSave(c) ==
  /\ request[c].op = "save" /\ ~request[c].open
  /\ Dirty(request[c]) => ~ServerLocked

\* Mutant: the new owner stays a subuser.
DetailsKept(c) ==
  /\ CanSave(c)
  /\ Become(c, [request[c] EXCEPT !.open = TRUE,
                   !.revoke = IF Dirty(request[c]) THEN {request[c].loaded} ELSE {}])
  /\ UNCHANGED <<owner, rows, asked, tokens>>

\* DetailsModificationService, up to its calls: it revokes the tokens of the
\* owner it has loaded, and its hook those of the user whose row it deletes.
Details(c) ==
  LET q == request[c]
  IN /\ CanSave(c)
     /\ \E i \in ToDelete(q.user) :
          /\ i # None => ~Locked(i)
          /\ Become(c, [q EXCEPT !.open = TRUE, !.row = i,
                           !.revoke = (IF Dirty(q) THEN {q.loaded} ELSE {})
                                      \cup (IF i = None THEN {} ELSE {q.user})])
     /\ UNCHANGED <<owner, rows, asked, tokens>>

CommitDetails(c) ==
  LET q == request[c]
  IN /\ q.op = "save" /\ q.open /\ q.revoke = {}
     /\ rows' = IF q.row = None THEN rows ELSE [rows EXCEPT ![q.row] = NoRow]
     /\ IF Dirty(q)
        THEN /\ owner' = q.user
             /\ tokens' = IF owner = q.loaded THEN tokens ELSE Excused(owner)
        ELSE UNCHANGED <<owner, tokens>>
     /\ End(c)
     /\ UNCHANGED asked

\* The form of the administrators (and whatever else saves the server): no
\* transaction, so that the owner is changed before the hook; no call for the
\* one who was replaced.
SaveForm(c) ==
  LET q == request[c]
  IN /\ CanSave(c)
     /\ IF Dirty(q)
        THEN /\ owner' = q.user
             /\ tokens' = IF owner = q.user THEN tokens ELSE Excused(owner)
        ELSE UNCHANGED <<owner, tokens>>
     /\ \E i \in ToDelete(q.user) :
          IF i = None THEN End(c)
          ELSE /\ ~Locked(i)
               /\ Become(c, [q EXCEPT !.op = "hook", !.open = TRUE, !.row = i,
                                      !.revoke = {q.user}])
     /\ UNCHANGED <<rows, asked>>

-----------------------------------------------------------------------------

\* revokeUserJTI: the daemon denies every token of the user issued so far.
Revoke(c, u) ==
  /\ request[c].open /\ u \in request[c].revoke
  /\ \E answer \in Answers :
       tokens' = IF answer = "accepted" THEN {t \in tokens : t.user # u} ELSE Excused(u)
  /\ Become(c, [request[c] EXCEPT !.revoke = @ \ {u}])
  /\ UNCHANGED <<owner, rows, asked>>

\* Any step may throw.  What the form has saved stays.
Rollback(c) ==
  /\ request[c].op # "idle"
  /\ rows' = IF request[c].op = "hook" THEN [rows EXCEPT ![request[c].row].excused = TRUE]
             ELSE rows
  /\ End(c)
  /\ UNCHANGED <<owner, asked, tokens>>

-----------------------------------------------------------------------------
(* WebsocketController, and the daemon.                                      *)

Room == Cardinality(tokens) + Cardinality({u \in User : asked[u] # {}}) < MaxTokens

\* What the permissions of a user are read as.
Readings(u) == IF u = owner THEN {All} ELSE {rows[i].permissions : i \in RowsOf(u)}

Ask(u) ==
  /\ asked[u] = {} /\ Room
  /\ \E P \in Readings(u) : Connect \in P /\ asked' = [asked EXCEPT ![u] = P]
  /\ UNCHANGED <<owner, rows, request, tokens>>

\* Will q, when it commits, change what u may do?
Concerns(q, u) ==
  /\ q.open
  /\ \/ q.row \in RowsOf(u)
     \/ Dirty(q) /\ u = owner

\* Could a change have overtaken what u has asked for?
Overtaken(u) ==
  \/ ~(asked[u] \subseteq Rights(u))
  \/ \E c \in Slot : Concerns(request[c], u) /\ u \notin request[c].revoke

Issue(u) ==
  /\ asked[u] # {}
  /\ tokens' = tokens \cup
       {[user |-> u, permissions |-> asked[u], excused |-> Overtaken(u)]}
  /\ asked' = [asked EXCEPT ![u] = {}]
  /\ UNCHANGED <<owner, rows, request>>

\* Mutant: a token is valid until the daemon denies it.
ExpireNever(t) == t \in tokens /\ UNCHANGED vars

\* A token expires, or the daemon has started since it was issued.
Expire(t) ==
  /\ t \in tokens
  /\ tokens' = tokens \ {t}
  /\ UNCHANGED <<owner, rows, request, asked>>

-----------------------------------------------------------------------------

Init ==
  /\ owner \in User
  /\ rows = [i \in Id |-> NoRow]
  /\ request = [c \in Slot |-> Idle]
  /\ asked = [u \in User |-> {}]
  /\ tokens = {}

Change(c) ==
  \/ \E u \in User :
       \/ \E P \in SUBSET Permission : BeginCreate(c, u, P)
       \/ BeginSave(c, u) \/ Revoke(c, u)
  \/ \E i \in Id :
       \/ \E P \in SUBSET Permission : BeginUpdate(c, i, P)
       \/ BeginDelete(c, i)
  \/ CheckCreate(c) \/ Insert(c) \/ CommitRow(c)
  \/ Details(c) \/ CommitDetails(c) \/ SaveForm(c)
  \/ Rollback(c)

Next ==
  \/ \E c \in Slot : Change(c)
  \/ \E u \in User : Ask(u) \/ Issue(u)
  \/ \E t \in tokens : Expire(t)

Spec == Init /\ [][Next]_vars

\* A token that was asked for is issued, and every token expires.
FairSpec ==
  /\ Spec
  /\ \A u \in User : WF_vars(Issue(u))
  /\ \A t \in Token : WF_vars(Expire(t))

-----------------------------------------------------------------------------
(* Properties.                                                               *)

\* The owner of a server is not a subuser of it as well, so that the row does
\* not come back to life when the server changes hands.  What is excused is a
\* creation that had loaded the server before it was given to that user, a user
\* with two rows, and the form, whose hook comes later and may fail.
\* (Server::booted, SubuserCreationService, EditServer.)
OwnerIsNoSubuser ==
  \A i \in RowsOf(owner) :
    rows[i].excused \/ \E c \in Slot : request[c].op = "hook" /\ request[c].row = i

\* A valid token permits what its user may do now, or one of three things has
\* happened: the daemon missed that it was revoked, it was issued while the
\* change was on its way, or nobody revoked it when its user stopped being the
\* owner, by the form or by a change that had loaded the owner before him.
\* (SubuserUpdateService, SubuserDeletionService, DetailsModificationService.)
TokensCurrent ==
  \A t \in tokens : t.excused \/ t.permissions \subseteq Rights(t.user)

\* Whatever is lost or overtaken, a user who may not connect any more is some
\* day left without a token for good.  (WebsocketController asks for the
\* permissions each time a token is renewed, and limits how long it is valid.)
AccessEnds ==
  \A u \in User :
    <>[](Connect \notin Rights(u)) => <>[](\A t \in tokens : t.user # u)
=============================================================================
