----------------------------- MODULE Organisation -----------------------------
(***************************************************************************)
(* The units of the organisation: departments, whose members work in them, *)
(* and client accounts, whose members see what is shared with them         *)
(* (src/backend/src/modules/departments/{service,repo}.rs and              *)
(* modules/clients/{service,repo}.rs), with the projects that departments  *)
(* are responsible for (modules/projects/service.rs), as far as a project  *)
(* meets its department's row, and the invitations that name a unit        *)
(* (modules/identity/invitations.rs), whose acceptance makes a member of   *)
(* it.                                                                     *)
(*                                                                         *)
(* A transaction runs at READ COMMITTED, one blocking statement per step,  *)
(* as in Projects: the unit's row FOR UPDATE and everything decided under  *)
(* it, the subject's row, the commit.  Inserting a project, or moving one, *)
(* takes a KEY SHARE lock on the department (the foreign key), which       *)
(* excludes FOR UPDATE but says nothing about the department's status.     *)
(*                                                                         *)
(* Abstracted: names, leads and account managers; authorisation and the    *)
(* second factor, which only refuse; the row lock on a client membership,  *)
(* taken under its account's; the audit entry and its locks (AuditChain);  *)
(* of an invitation everything but the unit it names (Accounts has its     *)
(* inviter, its expiry and its address, Roles what its roles confer).      *)
(***************************************************************************)
EXTENDS Naturals, FiniteSets

CONSTANTS
    Worker, NoWorker,
    User,
    Client,             \* the external users among them
    Invitee,            \* those who are not there before they accept an invitation
    Department, Account,
    Project, Nowhere,   \* Nowhere: a project of no department
    MaxRequests,        \* bound on the requests, for TLC
    Sent                \* the operations that are asked for

Unit == Department \cup Account

OnDepartment == {"updateDepartment", "archiveDepartment", "join", "leave", "inviteStaff"}
OnAccount    == {"updateClient", "archiveClient", "add", "activate", "drop", "inviteClient"}
OnProject    == {"begin", "move", "finish"}
Operation    == {"found", "sign", "accept"} \cup OnDepartment \cup OnAccount \cup OnProject

ASSUME OrganisationAssumption ==
    /\ NoWorker \notin Worker
    /\ User # {} /\ Client \subseteq User /\ Invitee \subseteq User
    /\ Department # {} /\ Account # {} /\ Project # {}
    /\ Department \cap Account = {}
    /\ Nowhere \notin Department
    /\ MaxRequests \in Nat
    /\ Sent \subseteq Operation

VARIABLES
    unit,       \* departments and client_accounts: their status and version
    staff,      \* department_memberships that are live
    tie,        \* client_memberships: their status
    site,       \* the department each live project is in
    live,       \* the projects that exist and are not archived
    version,    \* users.security_version
    known,      \* the users that exist
    invitation, \* invitations that name a unit: the latest to each invitee
    unitLock,   \* holder of a unit's row, FOR UPDATE
    unitShare,  \* holders of its KEY SHARE lock
    projectLock,
    userLock,
    invitationLock,
    tx,         \* what each handler is doing
    requests    \* how many there have been

people == <<known, invitation>>
tables == <<unit, staff, tie, site, live, version, people>>
locks  == <<unitLock, unitShare, projectLock, userLock, invitationLock>>
vars   == <<tables, locks, tx, requests>>

UnitRow   == [status : {"none", "ACTIVE", "ARCHIVED"}, version : Nat]
TieStatus == {"none", "PENDING", "ACTIVE", "REMOVED"}

\* WITHDRAWN stands for REVOKED and EXPIRED.
InvitationRow == [status : {"none", "PENDING", "ACCEPTED", "WITHDRAWN"}, place : Unit]

Transaction ==
    [op  : Operation \cup {"idle"},
     pc  : {"idle", "lock", "unit", "refer", "bump", "write"},
     x   : Unit,
     p   : Project,
     u   : User,                        \* the subject
     to  : Department \cup {Nowhere},   \* where a project is placed
     ver : Nat]                         \* the version the client saw

TypeOK ==
    /\ unit \in [Unit -> UnitRow]
    /\ staff \in [Department -> SUBSET User]
    /\ tie \in [Account -> [User -> TieStatus]]
    /\ site \in [Project -> Department \cup {Nowhere}]
    /\ live \subseteq Project
    /\ version \in [User -> Nat]
    /\ known \subseteq User
    /\ invitation \in [Invitee -> InvitationRow]
    /\ unitLock \in [Unit -> Worker \cup {NoWorker}]
    /\ unitShare \in [Unit -> SUBSET Worker]
    /\ projectLock \in [Project -> Worker \cup {NoWorker}]
    /\ userLock \in [User -> Worker \cup {NoWorker}]
    /\ invitationLock \in [Invitee -> Worker \cup {NoWorker}]
    /\ tx \in [Worker -> Transaction]
    /\ requests \in Nat

-----------------------------------------------------------------------------
(* The transaction mechanics.                                              *)

Free(holder, w) == holder \in {NoWorker, w}
At(w, ops, pc)  == tx[w].op \in ops /\ tx[w].pc = pc
Goto(w, pc)     == tx' = [tx EXCEPT ![w].pc = pc]

AnyUnit    == CHOOSE x \in Unit : TRUE
AnyProject == CHOOSE p \in Project : TRUE
AnyUser    == CHOOSE u \in User : TRUE

Idle == [op |-> "idle", pc |-> "idle", x |-> AnyUnit, p |-> AnyProject,
         u |-> AnyUser, to |-> Nowhere, ver |-> 0]

\* Commit and rollback both end the transaction and release its locks.
End(w) ==
    /\ tx' = [tx EXCEPT ![w] = Idle]
    /\ unitLock' = [x \in Unit |-> IF unitLock[x] = w THEN NoWorker ELSE unitLock[x]]
    /\ unitShare' = [x \in Unit |-> unitShare[x] \ {w}]
    /\ projectLock' = [p \in Project |->
                         IF projectLock[p] = w THEN NoWorker ELSE projectLock[p]]
    /\ userLock' = [u \in User |-> IF userLock[u] = w THEN NoWorker ELSE userLock[u]]
    /\ invitationLock' = [u \in Invitee |->
                            IF invitationLock[u] = w THEN NoWorker ELSE invitationLock[u]]

Init ==
    /\ unit = [x \in Unit |-> [status |-> "none", version |-> 1]]
    /\ staff = [d \in Department |-> {}]
    /\ tie = [a \in Account |-> [u \in User |-> "none"]]
    /\ site = [p \in Project |-> Nowhere]
    /\ live = {}
    /\ version = [u \in User |-> 1]
    /\ known = User \ Invitee
    /\ invitation = [u \in Invitee |-> [status |-> "none", place |-> AnyUnit]]
    /\ unitLock = [x \in Unit |-> NoWorker]
    /\ unitShare = [x \in Unit |-> {}]
    /\ projectLock = [p \in Project |-> NoWorker]
    /\ userLock = [u \in User |-> NoWorker]
    /\ invitationLock = [u \in Invitee |-> NoWorker]
    /\ tx = [w \in Worker |-> Idle]
    /\ requests = 0

-----------------------------------------------------------------------------
(* Requests.                                                               *)

Kind(op) == IF op \in OnDepartment \cup {"found"} THEN Department ELSE Account

OnMember == {"join", "leave", "add", "activate", "drop"}
Inviting == {"inviteStaff", "inviteClient"}

\* Who a request may be about: for a membership somebody who exists, for an
\* invitation somebody who does not, of the kind that the unit takes (the CHECK of
\* invitations), and an acceptance has the link of an invitation.
Subject(op) ==
    IF op \in OnMember THEN known
    ELSE IF op = "inviteStaff" THEN (Invitee \ known) \ Client
    ELSE IF op = "inviteClient" THEN (Invitee \ known) \cap Client
    ELSE IF op = "accept" THEN {u \in Invitee : invitation[u].status # "none"}
    ELSE {AnyUser}

\* A request names a unit its client has seen, with its version, or is about
\* a project or an invitation; a new unit or project gets an identifier of its own.
Arrive(w, op) ==
    /\ tx[w].op = "idle" /\ op \in Sent /\ requests < MaxRequests
    /\ \E x \in Unit, p \in Project, u \in Subject(op), to \in Department \cup {Nowhere} :
       /\ op \in OnProject \/ p = AnyProject
       /\ IF op \in OnProject \cup {"accept"} THEN x = AnyUnit ELSE x \in Kind(op)
       /\ op \in OnDepartment \cup OnAccount => unit[x].status # "none"
       /\ op \in {"found", "sign"} => unit[x].status = "none"
       /\ IF op \in {"begin", "move"} THEN to \in Department => unit[to].status # "none"
                                     ELSE to = Nowhere
       /\ op \in {"move", "finish"} => p \in live
       /\ op = "begin" => p \notin live /\ \A v \in Worker : tx[v].p # p \/ tx[v].op \notin OnProject
       /\ tx' = [tx EXCEPT ![w] =
                  [op |-> op, pc |-> IF op = "begin" THEN "refer" ELSE "lock",
                   x |-> x, p |-> p, u |-> u, to |-> to, ver |-> unit[x].version]]
    /\ requests' = requests + 1
    /\ UNCHANGED <<tables, locks>>

\* A new row.
NewUnit(w) ==
    unit' = IF unit[tx[w].x].status = "none"
            THEN [unit EXCEPT ![tx[w].x].status = "ACTIVE"] ELSE unit

CreateDepartment(w) ==
    /\ At(w, {"found"}, "lock")
    /\ NewUnit(w)
    /\ End(w)
    /\ UNCHANGED <<staff, tie, site, live, version, people, requests>>

NewAccount(w) == NewUnit(w)

CreateClient(w) ==
    /\ At(w, {"sign"}, "lock")
    /\ NewAccount(w)
    /\ End(w)
    /\ UNCHANGED <<staff, tie, site, live, version, people, requests>>

Status(w)      == unit[tx[w].x].status
SameVersion(w) == unit[tx[w].x].version = tx[w].ver

\* count_live_projects.
LiveProjects(d) == {p \in live : site[p] = d}

\* check_activatable: whoever was removed goes through PENDING again.
Activatable(s) == s = "PENDING"

Tie(w) == tie[tx[w].x][tx[w].u]

\* check_mutable, check_archivable and check_account_mutable.
Mutable(w) == Status(w) = "ACTIVE"

UpdateAllowed(w) == Mutable(w) /\ SameVersion(w)

ArchiveDepartmentAllowed(w) ==
    Mutable(w) /\ SameVersion(w) /\ LiveProjects(tx[w].x) = {}

ArchiveClientAllowed(w) == Mutable(w) /\ SameVersion(w)

\* check_internal_principal and check_client_principal: departments are for
\* staff, client accounts for external users.
StaffOnly(u)  == u \notin Client
ClientOnly(u) == u \in Client

JoinAllowed(w)     == Mutable(w) /\ StaffOnly(tx[w].u) /\ tx[w].u \notin staff[tx[w].x]
AddAllowed(w)      == Mutable(w) /\ ClientOnly(tx[w].u) /\ Tie(w) \in {"none", "REMOVED"}
ActivateAllowed(w) == Mutable(w) /\ Activatable(Tie(w))

\* Taking somebody out is always possible.
LeaveAllowed(w) == tx[w].u \in staff[tx[w].x]
DropAllowed(w)  == Tie(w) \in {"PENDING", "ACTIVE"}

Allowed(w) ==
    /\ tx[w].op \in {"updateDepartment", "updateClient"} => UpdateAllowed(w)
    /\ tx[w].op = "archiveDepartment" => ArchiveDepartmentAllowed(w)
    /\ tx[w].op = "archiveClient"     => ArchiveClientAllowed(w)
    /\ tx[w].op = "join"     => JoinAllowed(w)
    /\ tx[w].op = "leave"    => LeaveAllowed(w)
    /\ tx[w].op = "add"      => AddAllowed(w)
    /\ tx[w].op = "activate" => ActivateAllowed(w)
    /\ tx[w].op = "drop"     => DropAllowed(w)
    /\ tx[w].op \in Inviting => Mutable(w)

\* Slip: FOR NO KEY UPDATE, which lets references in.
UnitFreeOfWriters(w) == Free(unitLock[tx[w].x], w)

\* find_for_update: FOR UPDATE waits for the KEY SHARE locks as well.
UnitFree(w) == Free(unitLock[tx[w].x], w) /\ unitShare[tx[w].x] \subseteq {w}

\* Slip: FOR UPDATE only where the unit itself is written.
LockUnitToWrite(w) ==
    /\ At(w, OnDepartment \cup OnAccount, "lock")
    /\ IF tx[w].op \in {"join", "add", "activate"} THEN UNCHANGED unitLock
       ELSE UnitFree(w) /\ unitLock' = [unitLock EXCEPT ![tx[w].x] = w]
    /\ Goto(w, "unit")
    /\ UNCHANGED <<tables, unitShare, projectLock, userLock, invitationLock, requests>>

LockUnit(w) ==
    /\ At(w, OnDepartment \cup OnAccount, "lock")
    /\ UnitFree(w)
    /\ unitLock' = [unitLock EXCEPT ![tx[w].x] = w]
    /\ Goto(w, "unit")
    /\ UNCHANGED <<tables, unitShare, projectLock, userLock, invitationLock, requests>>

\* Who is added to an account holds nothing yet: his version stays.
Raises == {"join", "leave", "activate", "drop"}

Decide(w) ==
    /\ tx[w].pc = "unit"
    /\ Allowed(w)
    /\ Goto(w, IF tx[w].op \in Raises THEN "bump" ELSE "write")
    /\ UNCHANGED <<tables, locks, requests>>

Refuse(w) ==
    /\ tx[w].pc = "unit"
    /\ ~Allowed(w)
    /\ End(w)
    /\ UNCHANGED <<tables, requests>>

\* bump_security_version.
LockUser(w) ==
    /\ tx[w].pc = "bump"
    /\ Free(userLock[tx[w].u], w)
    /\ userLock' = [userLock EXCEPT ![tx[w].u] = w]
    /\ Goto(w, "write")
    /\ UNCHANGED <<tables, unitLock, unitShare, projectLock, invitationLock, requests>>

-----------------------------------------------------------------------------
(* The writes.                                                             *)

\* WHERE id = $1 AND version = $2.
WriteUnit(w, status) ==
    unit' = IF SameVersion(w)
            THEN [unit EXCEPT ![tx[w].x] = [status |-> status, version |-> @.version + 1]]
            ELSE unit

UpdateDepartment(w) ==
    /\ At(w, {"updateDepartment"}, "write")
    /\ WriteUnit(w, Status(w))
    /\ End(w)
    /\ UNCHANGED <<staff, tie, site, live, version, people, requests>>

\* The same of an account.
WriteAccount(w, status) == WriteUnit(w, status)

UpdateClient(w) ==
    /\ At(w, {"updateClient"}, "write")
    /\ WriteAccount(w, Status(w))
    /\ End(w)
    /\ UNCHANGED <<staff, tie, site, live, version, people, requests>>

\* Nobody's membership is touched, nor any security version.
ArchiveDepartment(w) ==
    /\ At(w, {"archiveDepartment"}, "write")
    /\ WriteUnit(w, "ARCHIVED")
    /\ End(w)
    /\ UNCHANGED <<staff, tie, site, live, version, people, requests>>

ArchiveClient(w) ==
    /\ At(w, {"archiveClient"}, "write")
    /\ WriteAccount(w, "ARCHIVED")
    /\ End(w)
    /\ UNCHANGED <<staff, tie, site, live, version, people, requests>>

Raised(w) == [version EXCEPT ![tx[w].u] = @ + 1]

\* The statements on memberships.  A removal closes the row and keeps it.
InsertStaff(d, u) == staff' = [staff EXCEPT ![d] = @ \cup {u}]
CloseStaff(d, u)  == staff' = [staff EXCEPT ![d] = @ \ {u}]

\* insert_pending_membership and revive_membership_as_pending.
PutPending(a, u) == tie' = [tie EXCEPT ![a][u] = "PENDING"]
Activate(a, u) ==
    tie' = IF Activatable(tie[a][u]) THEN [tie EXCEPT ![a][u] = "ACTIVE"] ELSE tie
CloseTie(a, u) == tie' = [tie EXCEPT ![a][u] = "REMOVED"]

Join(w) ==
    /\ At(w, {"join"}, "write")
    /\ InsertStaff(tx[w].x, tx[w].u)
    /\ version' = Raised(w)
    /\ End(w)
    /\ UNCHANGED <<unit, tie, site, live, people, requests>>

Leave(w) ==
    /\ At(w, {"leave"}, "write")
    /\ CloseStaff(tx[w].x, tx[w].u)
    /\ version' = Raised(w)
    /\ End(w)
    /\ UNCHANGED <<unit, tie, site, live, people, requests>>

AddMember(w) ==
    /\ At(w, {"add"}, "write")
    /\ PutPending(tx[w].x, tx[w].u)
    /\ End(w)
    /\ UNCHANGED <<unit, staff, site, live, version, people, requests>>

ActivateMember(w) ==
    /\ At(w, {"activate"}, "write")
    /\ Activate(tx[w].x, tx[w].u)
    /\ version' = Raised(w)
    /\ End(w)
    /\ UNCHANGED <<unit, staff, site, live, people, requests>>

RemoveMember(w) ==
    /\ At(w, {"drop"}, "write")
    /\ CloseTie(tx[w].x, tx[w].u)
    /\ version' = Raised(w)
    /\ End(w)
    /\ UNCHANGED <<unit, staff, site, live, people, requests>>

-----------------------------------------------------------------------------
(* The projects of a department.                                           *)

LockProject(w) ==
    /\ At(w, {"move", "finish"}, "lock")
    /\ Free(projectLock[tx[w].p], w)
    /\ tx[w].p \in live
    /\ projectLock' = [projectLock EXCEPT ![tx[w].p] = w]
    /\ Goto(w, IF tx[w].op = "move" THEN "refer" ELSE "write")
    /\ UNCHANGED <<tables, unitLock, unitShare, userLock, invitationLock, requests>>

RefuseProject(w) ==
    /\ At(w, {"move", "finish"}, "lock")
    /\ Free(projectLock[tx[w].p], w)
    /\ tx[w].p \notin live
    /\ End(w)
    /\ UNCHANGED <<tables, requests>>

\* The foreign key locks the department that a project begins in or moves to,
\* if there is one and it is another; its status is not asked.
ReferToUnit(w) ==
    /\ At(w, {"begin", "move"}, "refer")
    /\ IF tx[w].to = Nowhere \/ (tx[w].op = "move" /\ site[tx[w].p] = tx[w].to)
       THEN UNCHANGED unitShare
       ELSE /\ unitLock[tx[w].to] = NoWorker
            /\ unitShare' = [unitShare EXCEPT ![tx[w].to] = @ \cup {w}]
    /\ Goto(w, "write")
    /\ UNCHANGED <<tables, unitLock, projectLock, userLock, invitationLock, requests>>

PlaceProject(w) ==
    /\ At(w, {"begin", "move"}, "write")
    /\ site' = [site EXCEPT ![tx[w].p] = tx[w].to]
    /\ live' = live \cup {tx[w].p}
    /\ End(w)
    /\ UNCHANGED <<unit, staff, tie, version, people, requests>>

FinishProject(w) ==
    /\ At(w, {"finish"}, "write")
    /\ live' = live \ {tx[w].p}
    /\ End(w)
    /\ UNCHANGED <<unit, staff, tie, site, version, people, requests>>

-----------------------------------------------------------------------------
(* Invitations.                                                            *)

\* insert_invitation, under the lock on the unit that authorize_placement takes: a
\* unique index refuses a second PENDING one to the same address.
Invite(w) ==
    /\ At(w, Inviting, "write")
    /\ invitation' = IF invitation[tx[w].u].status = "PENDING" THEN invitation
                     ELSE [invitation EXCEPT ![tx[w].u] =
                             [status |-> "PENDING", place |-> tx[w].x]]
    /\ End(w)
    /\ UNCHANGED <<unit, staff, tie, site, live, version, known, requests>>

\* find_invitation_by_token_for_update.
LockInvitation(w) ==
    /\ At(w, {"accept"}, "lock")
    /\ Free(invitationLock[tx[w].u], w)
    /\ invitation[tx[w].u].status = "PENDING"
    /\ invitationLock' = [invitationLock EXCEPT ![tx[w].u] = w]
    /\ Goto(w, "refer")
    /\ UNCHANGED <<tables, unitLock, unitShare, projectLock, userLock, requests>>

\* Somebody accepted it before, or it was withdrawn; or its address has an account.
RefuseInvitation(w) ==
    /\ \/ /\ At(w, {"accept"}, "lock")
          /\ Free(invitationLock[tx[w].u], w)
          /\ invitation[tx[w].u].status # "PENDING"
       \/ At(w, {"accept"}, "refer") /\ tx[w].u \in known
    /\ End(w)
    /\ UNCHANGED <<tables, requests>>

Placement(w) == invitation[tx[w].u].place

\* insert_user, and the membership: its foreign key locks the unit, whose status
\* is not asked again.
InsertInvitee(w) ==
    /\ At(w, {"accept"}, "refer")
    /\ tx[w].u \notin known
    /\ unitLock[Placement(w)] = NoWorker
    /\ unitShare' = [unitShare EXCEPT ![Placement(w)] = @ \cup {w}]
    /\ Goto(w, "write")
    /\ UNCHANGED <<tables, unitLock, projectLock, userLock, invitationLock, requests>>

\* insert_client_membership and insert_department_membership.
PutActive(a, u) ==
    tie' = IF tie[a][u] = "none" THEN [tie EXCEPT ![a][u] = "ACTIVE"] ELSE tie

AcceptInvitation(w) ==
    /\ At(w, {"accept"}, "write")
    /\ known' = known \cup {tx[w].u}
    /\ invitation' = [invitation EXCEPT ![tx[w].u].status = "ACCEPTED"]
    /\ IF Placement(w) \in Department
       THEN InsertStaff(Placement(w), tx[w].u) /\ UNCHANGED tie
       ELSE PutActive(Placement(w), tx[w].u) /\ UNCHANGED staff
    /\ End(w)
    /\ UNCHANGED <<unit, site, live, version, requests>>

\* It is revoked, or found to have expired.
WithdrawInvitation(u) ==
    /\ invitationLock[u] = NoWorker /\ invitation[u].status = "PENDING"
    /\ invitation' = [invitation EXCEPT ![u].status = "WITHDRAWN"]
    /\ UNCHANGED <<unit, staff, tie, site, live, version, known, locks, tx, requests>>

Handler(w) ==
    \/ CreateDepartment(w) \/ CreateClient(w)
    \/ LockUnit(w) \/ Decide(w) \/ Refuse(w) \/ LockUser(w)
    \/ UpdateDepartment(w) \/ UpdateClient(w) \/ ArchiveDepartment(w) \/ ArchiveClient(w)
    \/ Join(w) \/ Leave(w) \/ AddMember(w) \/ ActivateMember(w) \/ RemoveMember(w)
    \/ LockProject(w) \/ RefuseProject(w) \/ ReferToUnit(w)
    \/ PlaceProject(w) \/ FinishProject(w)
    \/ Invite(w) \/ LockInvitation(w) \/ RefuseInvitation(w)
    \/ InsertInvitee(w) \/ AcceptInvitation(w)

Next ==
    \/ \E w \in Worker : Handler(w) \/ \E op \in Operation : Arrive(w, op)
    \/ \E u \in Invitee : WithdrawInvitation(u)

Spec == Init /\ [][Next]_vars

-----------------------------------------------------------------------------
(* Properties.                                                             *)

\* At the moment a department is archived no live project is in it, whatever
\* was begun or moved while its projects were counted: the reference that an
\* insert or a move takes excludes the FOR UPDATE lock (departments::archive,
\* check_no_live_projects, "Archiving must not orphan work").
ArchivedWhenEmpty ==
    [][\A d \in Department :
          unit[d].status # "ARCHIVED" /\ unit'[d].status = "ARCHIVED" =>
              LiveProjects(d) = {} /\ LiveProjects(d)' = {}]_vars

Reached(a) == {u \in User : tie[a][u] = "ACTIVE"}
Tied(a)    == {u \in User : tie[a][u] \in {"PENDING", "ACTIVE"}}

\* Who is still to come, with an invitation into the unit.
Awaited(x) == {u \in Invitee : invitation[u].status = "PENDING" /\ invitation[u].place = x}
Newcomers(x) == Awaited(x) \ known

\* A unit that is archived gains nobody but those who were invited while it was
\* ACTIVE, although who joins it was let in before it was archived, and nobody
\* more is invited; and it never comes back (departments::add_member,
\* clients::add_member and activate_member, authorize_placement: their checks
\* under the row lock).
ArchivedGainsNobody ==
    [][\A x \in Unit :
          unit[x].status = "ARCHIVED" =>
             /\ unit'[x] = unit[x]
             /\ x \in Department => staff'[x] \subseteq staff[x] \cup Newcomers(x)
             /\ x \in Account => Reached(x)' \subseteq Reached(x) \cup Newcomers(x)
                                 /\ Tied(x)' \subseteq Tied(x) \cup Newcomers(x)
             /\ Awaited(x)' \subseteq Awaited(x)]_vars

\* What the comments say: an archived unit is read-only, so that membership does
\* not "drift on a row that no longer resolves any scope" (departments/service.rs,
\* check_mutable), and what is asked of a placement "cannot go stale between the
\* decision and the write" (invitations.rs).  An acceptance comes later than both.
ArchivedIsReadOnly ==
    [][\A x \in Unit :
          unit[x].status = "ARCHIVED" =>
             /\ x \in Department => staff'[x] \subseteq staff[x]
             /\ x \in Account => Reached(x)' \subseteq Reached(x)]_vars

\* What a user sees through his memberships (principal.rs: only units that are
\* ACTIVE count).
Reach(u) ==
    {d \in Department : u \in staff[d] /\ unit[d].status = "ACTIVE"} \cup
    {a \in Account : tie[a][u] = "ACTIVE" /\ unit[a].status = "ACTIVE"}

\* What the contract says of security_version: it is bumped in the same
\* transaction as any change to what the user may see.  Archiving a department
\* or a client account does not.
VersionTellsReach ==
    [][\A u \in known : Reach(u)' # Reach(u) => version'[u] # version[u]]_vars

(***************************************************************************)
(* Why they hold: the invariant that the steps preserve.                   *)
(***************************************************************************)

OnUnit == OnDepartment \cup OnAccount

\* A unit that is locked has no reference in the making.
SharesOK ==
    \A x \in Unit : unitLock[x] # NoWorker => unitShare[x] \subseteq {unitLock[x]}

\* A handler past its lock holds the unit; a project that is being moved or
\* finished is held, and lives.
HeldOK(w) ==
    /\ tx[w].op \in OnUnit \cup {"found", "sign"} => tx[w].x \in Kind(tx[w].op)
    /\ tx[w].op \in OnUnit /\ tx[w].pc # "lock" => unitLock[tx[w].x] = w
    /\ tx[w].op \in OnUnit => /\ unit[tx[w].x].status # "none"
                              /\ tx[w].pc \in {"lock", "unit", "bump", "write"}
    /\ tx[w].pc = "bump" => tx[w].op \in Raises
    /\ tx[w].op \in {"found", "sign"} => tx[w].pc = "lock"
    /\ tx[w].op \in OnProject => tx[w].pc \in {"lock", "refer", "write"}
    /\ tx[w].op \in {"move", "finish"} /\ tx[w].pc # "lock" =>
          projectLock[tx[w].p] = w /\ tx[w].p \in live
    /\ tx[w].op \in Inviting \cup {"accept"} => tx[w].u \in Invitee
    /\ tx[w].op = "accept" =>
          /\ tx[w].pc \in {"lock", "refer", "write"}
          /\ tx[w].pc # "lock" => /\ invitationLock[tx[w].u] = w
                                 /\ invitation[tx[w].u].status = "PENDING"

\* What was decided on the unit is still so, and the department a project is
\* about to enter cannot be archived meanwhile.
DecidedOK(w) ==
    /\ tx[w].op \in OnUnit \ {"leave", "drop"} /\ tx[w].pc \in {"bump", "write"} =>
          Status(w) = "ACTIVE"
    /\ tx[w].op = "archiveDepartment" /\ tx[w].pc = "write" =>
          LiveProjects(tx[w].x) = {}
    /\ tx[w].op = "drop" /\ tx[w].pc \in {"bump", "write"} =>
          Tie(w) \in {"PENDING", "ACTIVE"}
    /\ tx[w].op \in {"begin", "move"} /\ tx[w].pc = "write" /\ tx[w].to # Nowhere =>
          \/ w \in unitShare[tx[w].to]
          \/ tx[w].op = "move" /\ site[tx[w].p] = tx[w].to
    /\ tx[w].op = "accept" /\ tx[w].pc = "write" =>
          w \in unitShare[Placement(w)] /\ tx[w].u \notin known

\* Nobody else knows a project that is only beginning.
FreshOK(w) ==
    tx[w].op = "begin" =>
       /\ tx[w].p \notin live
       /\ \A v \in Worker \ {w} : tx[v].op \in OnProject => tx[v].p # tx[w].p

IndInv ==
    /\ TypeOK
    /\ SharesOK
    /\ \A w \in Worker : /\ tx[w].pc = "idle" <=> tx[w].op = "idle"
                         /\ HeldOK(w) /\ DecidedOK(w) /\ FreshOK(w)
=============================================================================
