------------------------------- MODULE Accounts -------------------------------
(***************************************************************************)
(* How accounts come to be and what becomes of them                        *)
(* (src/backend/src/modules/identity/{service,invitations,registration,    *)
(* repo}.rs, bootstrap/service.rs, settings/service.rs): the owner's       *)
(* bootstrap, invitations and their acceptance, self-registration, and an  *)
(* administrator's changes of profile and status.                          *)
(*                                                                         *)
(* A transaction runs at READ COMMITTED, one step per statement that can   *)
(* wait or whose result is used later; the last step of a handler is its   *)
(* writes and its commit.  Two rules of the schema take part: an address   *)
(* belongs to one account, and has at most one invitation PENDING.         *)
(*                                                                         *)
(* Roles is the place for what authority is.  Here it is the set `able` of *)
(* those who could delegate what the invitations confer, and moves on its  *)
(* own.  Abstracted: names, passwords, rate limits, second factors, audit, *)
(* sessions (Sessions has what suspension does to them), memberships.      *)
(***************************************************************************)
EXTENDS Naturals, FiniteSets

CONSTANTS
    Worker, NoWorker,
    Account, NoAccount,
    Invitation, NoInvitation,
    Email,
    Staff,              \* the accounts of an installation in use, and
    MailOf,             \* their addresses
    MaxRequests,        \* bounds for TLC: on the requests
    MaxMoves            \* and on the changes of authority

Mode == {"DISABLED", "INVITE_ONLY", "CLIENT_SELF_REGISTRATION"}

OnUser    == {"edit", "suspend", "reactivate", "archive"}
Operation == {"bootstrap", "invite", "revoke", "accept", "register"} \cup OnUser

ASSUME AccountsAssumption ==
    /\ NoWorker \notin Worker
    /\ NoAccount \notin Account
    /\ NoInvitation \notin Invitation
    /\ Email # {} /\ Invitation # {}
    /\ Staff \subseteq Account /\ Staff # {}
    /\ MailOf \in [Staff -> Email]
    /\ \A a, b \in Staff : MailOf[a] = MailOf[b] => a = b
    /\ MaxRequests \in Nat /\ MaxMoves \in Nat

VARIABLES
    account,        \* users
    invitation,     \* invitations
    owner,          \* system_ownership, with system_state.initialized_at
    mode,           \* the setting registration.mode
    able,           \* who could delegate what invitations confer
    userLock, invitationLock, bootstrapLock,
    tx,             \* what each handler is doing
    requests, moves

tables == <<account, invitation, owner, mode, able>>
locks  == <<userLock, invitationLock, bootstrapLock>>
vars   == <<tables, locks, tx, requests, moves>>

Status == {"none", "PENDING", "ACTIVE", "SUSPENDED", "ARCHIVED"}

AccountRow ==
    [status : Status, email : Email, version : Nat,
     origin : Invitation \cup {NoInvitation}]   \* history: what it came from

InvitationRow ==
    [status : {"none", "PENDING", "ACCEPTED", "REVOKED", "EXPIRED"},
     email : Email, by : Account, late : BOOLEAN,
     account : Account \cup {NoAccount}]        \* accepted_user_id

Transaction ==
    [op : Operation \cup {"idle"},
     pc : {"idle", "mode", "email", "authority", "lock", "inviter", "write"},
     a : Account, i : Invitation, email : Email, ver : Nat,
     mays : SUBSET Account,    \* the inviter, if able when that was read
     was : Status,      \* and his status then
     could : SUBSET Account,   \* history: he, if able at times since the request came,
     active : SUBSET Account,  \* and if ACTIVE since the invitation was locked
     seen : Status]     \* history: the status the client has seen

TypeOK ==
    /\ account \in [Account -> AccountRow]
    /\ invitation \in [Invitation -> InvitationRow]
    /\ owner \in Account \cup {NoAccount}
    /\ mode \in Mode
    /\ able \subseteq Account
    /\ userLock \in [Account -> Worker \cup {NoWorker}]
    /\ invitationLock \in [Invitation -> Worker \cup {NoWorker}]
    /\ bootstrapLock \in Worker \cup {NoWorker}
    /\ tx \in [Worker -> Transaction]
    /\ requests \in Nat /\ moves \in Nat

-----------------------------------------------------------------------------
AnyAccount    == CHOOSE a \in Account : TRUE
AnyInvitation == CHOOSE i \in Invitation : TRUE
AnyEmail      == CHOOSE e \in Email : TRUE

Idle == [op |-> "idle", pc |-> "idle", a |-> AnyAccount, i |-> AnyInvitation,
         email |-> AnyEmail, ver |-> 0, mays |-> {}, was |-> "none",
         could |-> {}, active |-> {}, seen |-> "none"]

NoRow == [status |-> "none", email |-> AnyEmail, version |-> 1, origin |-> NoInvitation]

\* A new installation, or one in use with some accounts.
Init ==
    /\ \/ account = [a \in Account |-> NoRow] /\ owner = NoAccount
       \/ /\ account = [a \in Account |->
                IF a \in Staff THEN [NoRow EXCEPT !.status = "ACTIVE", !.email = MailOf[a]]
                               ELSE NoRow]
          /\ owner \in Staff
    /\ invitation = [i \in Invitation |->
          [status |-> "none", email |-> AnyEmail, by |-> AnyAccount, late |-> FALSE,
           account |-> NoAccount]]
    /\ mode \in Mode
    /\ able = {a \in Staff : account[a].status = "ACTIVE"}
    /\ userLock = [a \in Account |-> NoWorker]
    /\ invitationLock = [i \in Invitation |-> NoWorker]
    /\ bootstrapLock = NoWorker
    /\ tx = [w \in Worker |-> Idle]
    /\ requests = 0 /\ moves = 0

Free(holder, w) == holder \in {NoWorker, w}
At(w, ops, pc)  == tx[w].op \in ops /\ tx[w].pc = pc
Goto(w, pc)     == tx' = [tx EXCEPT ![w].pc = pc]

\* Commit and rollback both end the transaction and release its locks.
Release(w) ==
    /\ userLock' = [a \in Account |-> IF userLock[a] = w THEN NoWorker ELSE userLock[a]]
    /\ invitationLock' = [i \in Invitation |->
                            IF invitationLock[i] = w THEN NoWorker ELSE invitationLock[i]]
    /\ bootstrapLock' = IF bootstrapLock = w THEN NoWorker ELSE bootstrapLock

End(w)  == Release(w) /\ tx' = [tx EXCEPT ![w] = Idle]
Fail(w) == End(w) /\ UNCHANGED <<tables, requests, moves>>

Exists(a) == account[a].status # "none"

\* Slip: an archived account frees its address.
TakenByLive(e) == \E a \in Account : Exists(a) /\ account[a].status # "ARCHIVED"
                                     /\ account[a].email = e

\* find_user_by_email, and the unique index on users.email_normalized.
Taken(e) == \E a \in Account : Exists(a) /\ account[a].email = e

Invited(e) == \E i \in Invitation : invitation[i].status = "PENDING"
                                    /\ invitation[i].email = e

-----------------------------------------------------------------------------
(* Requests.                                                               *)

Entry(op) == CASE op = "accept"   -> "authority"
               [] op = "register" -> "mode"
               [] op = "invite"   -> "email"
               [] OTHER           -> "lock"

CouldAlready(op, i) == IF op = "accept" THEN able \cap {invitation[i].by} ELSE {}

\* Who asks is ACTIVE, or anonymous; who accepts holds the token of an
\* invitation; a change of an account names the version its client has seen.
Arrive(w, op) ==
    /\ tx[w].op = "idle" /\ requests < MaxRequests
    /\ \E a \in Account, i \in Invitation, e \in Email :
       /\ op \in {"revoke", "accept"} => invitation[i].status # "none"
       /\ op \notin {"revoke", "accept"} => i = AnyInvitation
       /\ op \in OnUser => Exists(a)
       /\ op = "invite" => a \in able /\ account[a].status = "ACTIVE"
       /\ op \in OnUser \cup {"invite"} \/ a = AnyAccount
       /\ op \in {"invite", "register", "bootstrap", "edit"} \/ e = AnyEmail
       /\ tx' = [tx EXCEPT ![w] =
            [Idle EXCEPT !.op = op, !.a = a, !.i = i, !.email = e,
                         !.ver = account[a].version, !.seen = account[a].status,
                         !.could = CouldAlready(op, i), !.pc = Entry(op)]]
    /\ requests' = requests + 1
    /\ UNCHANGED <<tables, locks, moves>>

\* The next identifier of each kind.
Fresh        == {a \in Account : ~Exists(a)}
NewAccount   == CHOOSE a \in Fresh : TRUE
Unsent       == {i \in Invitation : invitation[i].status = "none"}
NewInvitation == CHOOSE i \in Unsent : TRUE

\* insert_user: the row, unless its address is taken.
InsertUser(status, e, i) ==
    account' = [account EXCEPT ![NewAccount] =
                  [status |-> status, email |-> e, version |-> 1, origin |-> i]]

-----------------------------------------------------------------------------
(* Bootstrap.                                                              *)

\* pg_advisory_xact_lock.
LockBootstrap(w) ==
    /\ At(w, {"bootstrap"}, "lock")
    /\ Free(bootstrapLock, w)
    /\ bootstrapLock' = w
    /\ Goto(w, "write")
    /\ UNCHANGED <<tables, userLock, invitationLock, requests, moves>>

\* create_root, after the lock.
CreateRoot(w) ==
    /\ At(w, {"bootstrap"}, "write")
    /\ owner = NoAccount /\ ~Taken(tx[w].email) /\ Fresh # {}
    /\ InsertUser("ACTIVE", tx[w].email, NoInvitation)
    /\ owner' = NewAccount
    /\ able' = able \cup {NewAccount}
    /\ End(w)
    /\ UNCHANGED <<invitation, mode, requests, moves>>

RefuseRoot(w) ==
    /\ At(w, {"bootstrap"}, "write")
    /\ owner # NoAccount \/ Taken(tx[w].email)
    /\ Fail(w)

-----------------------------------------------------------------------------
(* Invitations.                                                            *)

\* The address is looked up, and later the row inserted: create_invitation.
FindEmail(w) ==
    /\ At(w, {"invite", "register"}, "email")
    /\ IF Taken(tx[w].email) THEN Fail(w)
       ELSE Goto(w, "write") /\ UNCHANGED <<tables, locks, requests, moves>>

CreateInvitation(w) ==
    /\ At(w, {"invite"}, "write")
    /\ Unsent # {}
    /\ invitation' = IF Invited(tx[w].email) THEN invitation
                     ELSE [invitation EXCEPT ![NewInvitation] =
                             [status |-> "PENDING", email |-> tx[w].email, by |-> tx[w].a,
                              late |-> FALSE, account |-> NoAccount]]
    /\ End(w)
    /\ UNCHANGED <<account, owner, mode, able, requests, moves>>

Row(w)     == invitation[tx[w].i]
Inviter(w) == Row(w).by

LockInvitation(w) ==
    /\ At(w, {"revoke"}, "lock")
    /\ Free(invitationLock[tx[w].i], w)
    /\ invitationLock' = [invitationLock EXCEPT ![tx[w].i] = w]
    /\ Goto(w, "write")
    /\ UNCHANGED <<tables, userLock, bootstrapLock, requests, moves>>

\* Slip: whatever the status.
MarkAnyRevoked(w) ==
    invitation' = [invitation EXCEPT ![tx[w].i].status = "REVOKED"]

\* mark_invitation_revoked: WHERE status = 'PENDING'.
MarkRevoked(w) ==
    invitation' = IF Row(w).status = "PENDING"
                  THEN [invitation EXCEPT ![tx[w].i].status = "REVOKED"] ELSE invitation

RevokeInvitation(w) ==
    /\ At(w, {"revoke"}, "write")
    /\ MarkRevoked(w)
    /\ End(w)
    /\ UNCHANGED <<account, owner, mode, able, requests, moves>>

\* accept_invitation, on the pool: the inviter's row, and his authority.
ReadAuthority(w) ==
    /\ At(w, {"accept"}, "authority")
    /\ tx' = [tx EXCEPT ![w].mays = able \cap {Inviter(w)},
                        ![w].was = account[Inviter(w)].status, ![w].pc = "lock"]
    /\ UNCHANGED <<tables, locks, requests, moves>>

\* find_invitation_by_token_for_update.
LockForAcceptance(w) ==
    /\ At(w, {"accept"}, "lock")
    /\ Free(invitationLock[tx[w].i], w)
    /\ Row(w).status = "PENDING" /\ ~Row(w).late
    /\ invitationLock' = [invitationLock EXCEPT ![tx[w].i] = w]
    /\ tx' = [tx EXCEPT ![w].pc = "inviter",
                        ![w].active = {a \in {Inviter(w)} : account[a].status = "ACTIVE"}]
    /\ UNCHANGED <<tables, userLock, bootstrapLock, requests, moves>>

RefuseToken(w) ==
    /\ At(w, {"accept"}, "lock")
    /\ Free(invitationLock[tx[w].i], w)
    /\ Row(w).status # "PENDING"
    /\ Fail(w)

\* mark_invitation_expired, and a commit.
RetireInvitation(w) ==
    /\ At(w, {"accept"}, "lock")
    /\ Free(invitationLock[tx[w].i], w)
    /\ Row(w).status = "PENDING" /\ Row(w).late
    /\ invitation' = [invitation EXCEPT ![tx[w].i].status = "EXPIRED"]
    /\ End(w)
    /\ UNCHANGED <<account, owner, mode, able, requests, moves>>

\* Slip: the status read before the lock.
InviterWasFit(w) == Inviter(w) \in tx[w].mays /\ tx[w].was = "ACTIVE"

\* The status read under the lock, the authority before it.
InviterIsFit(w) == Inviter(w) \in tx[w].mays /\ account[Inviter(w)].status = "ACTIVE"

CheckInviter(w) ==
    /\ At(w, {"accept"}, "inviter")
    /\ IF InviterIsFit(w) THEN Goto(w, "write") /\ UNCHANGED <<tables, locks, requests, moves>>
                          ELSE Fail(w)

\* The account, its roles and memberships, mark_invitation_accepted.
AcceptInvitation(w) ==
    /\ At(w, {"accept"}, "write")
    /\ ~Taken(Row(w).email) /\ Row(w).status = "PENDING" /\ Fresh # {}
    /\ InsertUser("ACTIVE", Row(w).email, tx[w].i)
    /\ invitation' = [invitation EXCEPT ![tx[w].i].status = "ACCEPTED",
                                        ![tx[w].i].account = NewAccount]
    /\ End(w)
    /\ UNCHANGED <<owner, mode, able, requests, moves>>

RefuseAcceptance(w) ==
    /\ At(w, {"accept"}, "write")
    /\ Taken(Row(w).email) \/ Row(w).status # "PENDING"
    /\ Fail(w)

-----------------------------------------------------------------------------
(* Self-registration.                                                      *)

\* current_mode, before the password is hashed.
ReadMode(w) ==
    /\ At(w, {"register"}, "mode")
    /\ IF mode = "CLIENT_SELF_REGISTRATION"
       THEN Goto(w, "email") /\ UNCHANGED <<tables, locks, requests, moves>>
       ELSE Fail(w)

Register(w) ==
    /\ At(w, {"register"}, "write")
    /\ ~Taken(tx[w].email) /\ Fresh # {}
    /\ InsertUser("PENDING", tx[w].email, NoInvitation)
    /\ End(w)
    /\ UNCHANGED <<invitation, owner, mode, able, requests, moves>>

RefuseRegistration(w) ==
    /\ At(w, {"register"}, "write")
    /\ Taken(tx[w].email)
    /\ Fail(w)

-----------------------------------------------------------------------------
(* Administration.                                                         *)

Becomes(op) == CASE op = "suspend" -> "SUSPENDED" [] op = "archive" -> "ARCHIVED"
                 [] OTHER -> "ACTIVE"

TransitionAllowed(from, to) ==
    <<from, to>> \in {"PENDING"} \X {"ACTIVE", "SUSPENDED", "ARCHIVED"}
               \cup {"ACTIVE"} \X {"SUSPENDED", "ARCHIVED"}
               \cup {"SUSPENDED"} \X {"ACTIVE", "ARCHIVED"}

\* find_user_for_update, is_root, the transition.
LockUser(w) ==
    /\ At(w, OnUser, "lock")
    /\ Free(userLock[tx[w].a], w)
    /\ IF tx[w].a = owner \/
          (tx[w].op # "edit" /\ ~TransitionAllowed(account[tx[w].a].status, Becomes(tx[w].op)))
       THEN Fail(w)
       ELSE /\ userLock' = [userLock EXCEPT ![tx[w].a] = w]
            /\ Goto(w, "write")
            /\ UNCHANGED <<tables, invitationLock, bootstrapLock, requests, moves>>

SameVersion(w) == account[tx[w].a].version = tx[w].ver

\* update_profile: WHERE id = $1 AND version = $2.
WriteProfile(w, a, email) ==
    account' = IF SameVersion(w)
               THEN [account EXCEPT ![a].email = email, ![a].version = @ + 1] ELSE account

\* With one more look at the address.
UpdateProfile(w) ==
    /\ At(w, {"edit"}, "write")
    /\ IF account[tx[w].a].email = tx[w].email \/ ~Taken(tx[w].email)
       THEN WriteProfile(w, tx[w].a, tx[w].email) ELSE UNCHANGED account
    /\ End(w)
    /\ UNCHANGED <<invitation, owner, mode, able, requests, moves>>

\* Whoever is active again has been so since every lock that is held.
Since(w, a) == [v \in Worker |->
    IF v # w /\ tx[v].op = "accept" /\ tx[v].pc \in {"inviter", "write"} /\ Inviter(v) = a
    THEN [tx[v] EXCEPT !.active = {a}] ELSE tx[v]]

\* Slip: WHERE id = $1 alone.
SetStatusOfAny(w, a, status) ==
    account' = [account EXCEPT ![a].status = status, ![a].version = @ + 1]

\* set_status: WHERE id = $1 AND version = $2.
SetStatus(w, a, status) ==
    account' = IF SameVersion(w)
               THEN [account EXCEPT ![a].status = status, ![a].version = @ + 1] ELSE account

ChangeStatus(w) ==
    /\ At(w, OnUser \ {"edit"}, "write")
    /\ SetStatus(w, tx[w].a, Becomes(tx[w].op))
    /\ Release(w)
    /\ tx' = [(IF account'[tx[w].a].status = "ACTIVE" THEN Since(w, tx[w].a) ELSE tx)
                EXCEPT ![w] = Idle]
    /\ UNCHANGED <<invitation, owner, mode, able, requests, moves>>

-----------------------------------------------------------------------------
(* Beside the handlers.                                                    *)

\* update_setting, under the row's lock throughout.
UpdateSetting(m) ==
    /\ m # mode /\ moves < MaxMoves
    /\ mode' = m
    /\ moves' = moves + 1
    /\ UNCHANGED <<account, invitation, owner, able, locks, tx, requests>>

\* Roles are taken and given; the owner keeps all authority.
MoveAuthority(a) ==
    /\ Exists(a) /\ a # owner /\ moves < MaxMoves
    /\ able' = IF a \in able THEN able \ {a} ELSE able \cup {a}
    /\ tx' = [v \in Worker |->
                IF tx[v].op = "accept" /\ Inviter(v) = a /\ a \notin able
                THEN [tx[v] EXCEPT !.could = {a}] ELSE tx[v]]
    /\ moves' = moves + 1
    /\ UNCHANGED <<account, invitation, owner, mode, locks, requests>>

\* Time passes.
Lapse(i) ==
    /\ invitation[i].status = "PENDING" /\ ~invitation[i].late
    /\ invitation' = [invitation EXCEPT ![i].late = TRUE]
    /\ UNCHANGED <<account, owner, mode, able, locks, tx, requests, moves>>

Handler(w) ==
    \/ LockBootstrap(w) \/ CreateRoot(w) \/ RefuseRoot(w)
    \/ FindEmail(w) \/ CreateInvitation(w) \/ LockInvitation(w) \/ RevokeInvitation(w)
    \/ ReadAuthority(w) \/ LockForAcceptance(w) \/ RefuseToken(w) \/ RetireInvitation(w)
    \/ CheckInviter(w) \/ AcceptInvitation(w) \/ RefuseAcceptance(w)
    \/ ReadMode(w) \/ Register(w) \/ RefuseRegistration(w)
    \/ LockUser(w) \/ UpdateProfile(w) \/ ChangeStatus(w)

Next ==
    \/ \E w \in Worker : Handler(w) \/ \E op \in Operation : Arrive(w, op)
    \/ \E m \in Mode : UpdateSetting(m)
    \/ \E a \in Account : MoveAuthority(a)
    \/ \E i \in Invitation : Lapse(i)

Spec == Init /\ [][Next]_vars

-----------------------------------------------------------------------------
(* Properties.                                                             *)

\* One account for an invitation that was accepted, the one it names, and none
\* for any other, however acceptances, revocations and the clock cross
\* (accept_invitation, revoke_invitation, mark_invitation_accepted).
OneAccountPerInvitation ==
    \A i \in Invitation :
       {a \in Account : account[a].origin = i} =
          IF invitation[i].status = "ACCEPTED" THEN {invitation[i].account} ELSE {}

\* The inviter was ACTIVE at some moment while the invitation was locked for
\* its acceptance, and able to confer what it confers at some moment since the
\* acceptance was asked for (accept_invitation: the authority is read before the
\* transaction, the status is read again inside it).
AcceptedOnRecentAuthority ==
    [][\A i \in Invitation :
          invitation[i].status # "ACCEPTED" /\ invitation'[i].status = "ACCEPTED" =>
             \E w \in Worker : /\ tx[w].op = "accept" /\ tx[w].i = i /\ tx'[w].op = "idle"
                               /\ invitation[i].by \in tx[w].active \cap tx[w].could]_vars

\* An administrator changes the account he saw: nobody is reactivated, suspended
\* or archived on the strength of a state that another has changed since
\* (change_status, set_status).
StatusOfWhatWasSeen ==
    [][\A a \in Account :
          Exists(a) /\ account'[a].status # account[a].status =>
             \E w \in Worker : /\ tx[w].op \in OnUser /\ tx[w].a = a /\ tx'[w].op = "idle"
                               /\ tx[w].seen = account[a].status]_vars

\* What the comment on accept_invitation promises: the authority of the inviter
\* "as it stands then", when the account is made.  It is read before the wait
\* for the invitation's row.
AcceptedOnAuthorityOfThen ==
    [][\A i \in Invitation :
          invitation[i].status # "ACCEPTED" /\ invitation'[i].status = "ACCEPTED" =>
             invitation[i].by \in able]_vars

(***************************************************************************)
(* Why they hold: the invariant that the steps preserve.                   *)
(***************************************************************************)

\* An address belongs to one account, archived ones included, and waits for at
\* most one invitation; who invites exists, what does not exist came from
\* nowhere; the owner stays.
RowsOK ==
    /\ \A a, b \in Account : Exists(a) /\ Exists(b) /\ account[a].email = account[b].email
                             => a = b
    /\ \A i, j \in Invitation :
          invitation[i].status = "PENDING" /\ invitation[j].status = "PENDING"
          /\ invitation[i].email = invitation[j].email => i = j
    /\ \A i \in Invitation : invitation[i].status # "none" => Exists(invitation[i].by)
    /\ \A a \in Account : ~Exists(a) => account[a].origin = NoInvitation
    /\ owner # NoAccount => account[owner].status = "ACTIVE"

Accepting(w) == tx[w].op = "accept" /\ tx[w].pc \in {"inviter", "write"}

\* An acceptance past its lock holds an invitation that is still PENDING, and
\* remembers when its inviter could and was ACTIVE.
AcceptOK(w) ==
    /\ tx[w].op = "accept" => Row(w).status # "none"
    /\ Accepting(w) => invitationLock[tx[w].i] = w /\ Row(w).status = "PENDING"
    /\ tx[w].op = "accept" /\ Inviter(w) \in tx[w].mays \cup able => Inviter(w) \in tx[w].could
    /\ Accepting(w) /\ account[Inviter(w)].status = "ACTIVE" => Inviter(w) \in tx[w].active
    /\ tx[w].op = "accept" /\ tx[w].pc = "write" =>
          Inviter(w) \in tx[w].active \cap tx[w].mays

\* A revocation past its lock holds the invitation, a change the account; an
\* account of the version that the client saw has the status it saw.
HeldOK(w) ==
    /\ tx[w].op = "revoke" /\ tx[w].pc = "write" => invitationLock[tx[w].i] = w
    /\ tx[w].op \in OnUser \cup {"invite"} => Exists(tx[w].a)
    /\ tx[w].op \in OnUser /\ tx[w].pc = "write" =>
          userLock[tx[w].a] = w /\ tx[w].a # owner
    /\ tx[w].op \in OnUser => tx[w].ver <= account[tx[w].a].version
    /\ tx[w].op \in OnUser /\ SameVersion(w) => account[tx[w].a].status = tx[w].seen

IndInv ==
    /\ TypeOK
    /\ OneAccountPerInvitation
    /\ RowsOK
    /\ \A w \in Worker : AcceptOK(w) /\ HeldOK(w)
=============================================================================
