------------------------------- MODULE Projects -------------------------------
(***************************************************************************)
(* The work of the company: projects, their members, the client accounts   *)
(* they are shared with, their tasks and the tasks' assignees              *)
(* (src/backend/src/modules/projects/{service,repo,dto}.rs and             *)
(* modules/tasks/{service,repo,dto}.rs).                                   *)
(*                                                                         *)
(* Every mutation locks its rows FOR UPDATE, decides on what they then     *)
(* say, writes, raises the security version of the user whose membership   *)
(* it changes, and commits.  A statement that can block is a step of its   *)
(* own; what is decided under a lock is one step with the statements that  *)
(* read it.  The transactions run at READ COMMITTED, so a row that is not  *)
(* locked may change between the decision and the write.                   *)
(*                                                                         *)
(* Abstracted: names, texts, dates, priorities, managers; the audit entry  *)
(* and its locks, taken last (AuditChain); denials of a permission         *)
(* (Reading); the second factor that sharing asks for, and the entry that  *)
(* a refused sharing leaves; foreign-key locks on rows no request of this  *)
(* module locks.  The grants of the actors do not change here (Roles).     *)
(***************************************************************************)
EXTENDS Naturals, Sequences, FiniteSets

CONSTANTS
    Worker, NoWorker,
    User,
    Department, NoDepartment,
    Project, Task,
    Account,          \* client accounts
    ProjectOf,        \* the project each task is created in
    Grants,           \* what the roles of each user allow: pairs of a permission
                      \* and a scope
    WorksIn,          \* the departments of each user
    Begun,            \* what exists at the start: the projects,
    Home,             \* the departments they are in,
    Staff,            \* their members,
    Opened, Assigned, \* the tasks, and their assignees
    Asked, Places,    \* the statuses and the departments that requests ask for,
    Joining,          \* and the users whose membership they are about
    MaxRequests,      \* bound on the requests, for TLC
    Sent              \* who sends what: pairs of a user and an operation

ProjectStatus == {"ACTIVE", "PAUSED", "COMPLETED", "ARCHIVED"}
TaskStatus    == {"TODO", "IN_PROGRESS", "BLOCKED", "DONE", "CANCELLED"}

\* The status in a request that asks for none.
Unsaid == "unsaid"

OnProject == {"update", "archive", "add", "remove", "share", "unshare"}
OnTask    == {"edit", "cancel", "assign", "unassign"}
Operation == {"create", "open"} \cup OnProject \cup OnTask

\* The permission that each operation asks for (the PERM_ constants).
Needs ==
    [create |-> "projects.create", update |-> "projects.update",
     archive |-> "projects.archive", add |-> "projects.members.manage",
     remove |-> "projects.members.manage", share |-> "projects.clients.share",
     unshare |-> "projects.clients.share", open |-> "tasks.create",
     edit |-> "tasks.update", cancel |-> "tasks.delete",
     assign |-> "tasks.assign", unassign |-> "tasks.assign"]

Permission == {Needs[op] : op \in Operation}
Scope == {"GLOBAL", "DEPARTMENT", "ASSIGNED"}
Place == Department \cup {NoDepartment}

ASSUME ProjectsAssumption ==
    /\ NoWorker \notin Worker
    /\ NoDepartment \notin Department
    /\ User # {} /\ Account # {} /\ Project # {} /\ Task # {}
    /\ ProjectOf \in [Task -> Project]
    /\ Grants \in [User -> SUBSET (Permission \X Scope)]
    /\ WorksIn \in [User -> SUBSET Department]
    /\ Begun \subseteq Project /\ Home \in [Project -> Place]
    /\ Staff \in [Project -> SUBSET User]
    /\ Opened \subseteq {t \in Task : ProjectOf[t] \in Begun}
    /\ Assigned \in [Task -> SUBSET User]
    /\ Asked \subseteq ProjectStatus \cup TaskStatus
    /\ Places \subseteq Place /\ Joining \subseteq User
    /\ MaxRequests \in Nat
    /\ Sent \subseteq User \X Operation

VARIABLES
    project,     \* projects
    member,      \* project_memberships that are live
    shared,      \* project_client_links that are live
    account,     \* the client accounts that are ACTIVE
    task,        \* tasks
    assignee,    \* task_assignees that are live
    version,     \* users.security_version
    projectLock, taskLock, userLock,
    tx,          \* what each handler is doing
    requests     \* how many there have been

tables == <<project, member, shared, account, task, assignee, version>>
locks  == <<projectLock, taskLock, userLock>>
vars   == <<tables, locks, tx, requests>>

\* finished and archived stand for completed_at and archived_at: whether they
\* are set.
ProjectRow ==
    [status : {"none"} \cup ProjectStatus, dept : Place, version : Nat,
     finished : BOOLEAN, archived : BOOLEAN]

TaskRow ==
    [status : {"none"} \cup TaskStatus, version : Nat, visible : BOOLEAN,
     finished : BOOLEAN]

Transaction ==
    [op    : Operation \cup {"idle"},
     pc    : {"idle", "lock", "bump", "write"},
     todo  : Seq({"task", "project"}),     \* the rows it has yet to lock
     actor : User,
     p     : Project,
     t     : Task,
     u     : User,                          \* the member or assignee
     c     : Account,
     ask   : ProjectStatus \cup TaskStatus \cup {Unsaid}, \* the status asked for,
     dept  : Place,                         \* the department,
     show  : BOOLEAN,                       \* and client_visible
     ver   : Nat,                           \* the version the client saw
     saw   : ProjectRow \cup TaskRow]       \* history: that row

TypeOK ==
    /\ project \in [Project -> ProjectRow]
    /\ member \in [Project -> SUBSET User]
    /\ shared \in [Project -> SUBSET Account]
    /\ account \subseteq Account
    /\ task \in [Task -> TaskRow]
    /\ assignee \in [Task -> SUBSET User]
    /\ version \in [User -> Nat]
    /\ projectLock \in [Project -> Worker \cup {NoWorker}]
    /\ taskLock \in [Task -> Worker \cup {NoWorker}]
    /\ userLock \in [User -> Worker \cup {NoWorker}]
    /\ tx \in [Worker -> Transaction]
    /\ requests \in Nat

-----------------------------------------------------------------------------
(* dto.rs: the state machines.                                             *)

\* can_transition_to.  Archiving has its own endpoint.
ProjectMayBecome(s, n) == s = n \/ s # "ARCHIVED"

\* Cancelled is for ever, and what was done cannot be cancelled.
TaskMayBecome(s, n) ==
    \/ s = n
    \/ s \in {"TODO", "IN_PROGRESS", "BLOCKED"}
    \/ s = "DONE" /\ n \in {"TODO", "IN_PROGRESS"}

\* Slip: the version stays as it is.
ProjectBecomesUncounted(row, s) ==
    [row EXCEPT !.status = s, !.finished = (s = "COMPLETED"), !.archived = (s = "ARCHIVED")]

\* completed_at_for and archived_at_for, and the version.
ProjectBecomes(row, s) ==
    [row EXCEPT !.status = s, !.version = @ + 1,
                !.finished = (s = "COMPLETED"), !.archived = (s = "ARCHIVED")]

TaskBecomes(row, s) ==
    [row EXCEPT !.status = s, !.version = @ + 1, !.finished = (s = "DONE")]

-----------------------------------------------------------------------------
(* Authorisation: evaluate() on the project or the task that is locked.    *)

\* scope_covers, for a target in department d that the actor is a member or
\* an assignee of, or not.
Covered(a, perm, d, isMember) ==
    \/ <<perm, "GLOBAL">> \in Grants[a]
    \/ <<perm, "DEPARTMENT">> \in Grants[a] /\ d \in WorksIn[a]
    \/ <<perm, "ASSIGNED">> \in Grants[a] /\ isMember

Target(w) == IF tx[w].op \in OnTask \cup {"open"} THEN ProjectOf[tx[w].t] ELSE tx[w].p

\* A member of the project is not thereby assigned to its tasks.
IsAssignee(t, a) == a \in assignee[t]

\* with_membership: of the project, or for a task that exists, of the task.
IsMember(w) ==
    IF tx[w].op \in OnTask THEN IsAssignee(tx[w].t, tx[w].actor)
                           ELSE tx[w].actor \in member[Target(w)]

\* require.  An update that moves the project is asked of both departments.
May(w) ==
    LET a == tx[w].actor
        perm == Needs[tx[w].op]
    IN  IF tx[w].op = "create" THEN Covered(a, perm, tx[w].dept, FALSE)
        ELSE /\ Covered(a, perm, project[Target(w)].dept, IsMember(w))
             /\ tx[w].op = "update" => Covered(a, perm, tx[w].dept, IsMember(w))

-----------------------------------------------------------------------------
(* The transaction mechanics.                                              *)

Free(holder, w) == holder \in {NoWorker, w}
Goto(w, pc)     == tx' = [tx EXCEPT ![w].pc = pc]

AnyProject == CHOOSE p \in Project : TRUE
AnyTask    == CHOOSE t \in Task : TRUE
AnyUser    == CHOOSE u \in User : TRUE
AnyAccount == CHOOSE c \in Account : TRUE

NoProjectRow == [status |-> "none", dept |-> NoDepartment, version |-> 1,
                 finished |-> FALSE, archived |-> FALSE]
NoTaskRow    == [status |-> "none", version |-> 1, visible |-> FALSE,
                 finished |-> FALSE]

Idle == [op |-> "idle", pc |-> "idle", todo |-> <<>>, actor |-> AnyUser,
         p |-> AnyProject, t |-> AnyTask, u |-> AnyUser, c |-> AnyAccount,
         ask |-> Unsaid, dept |-> NoDepartment, show |-> FALSE,
         ver |-> 0, saw |-> NoProjectRow]

\* Commit and rollback both end the transaction and release its locks.
End(w) ==
    /\ tx' = [tx EXCEPT ![w] = Idle]
    /\ projectLock' = [p \in Project |->
                         IF projectLock[p] = w THEN NoWorker ELSE projectLock[p]]
    /\ taskLock' = [t \in Task |-> IF taskLock[t] = w THEN NoWorker ELSE taskLock[t]]
    /\ userLock' = [u \in User |-> IF userLock[u] = w THEN NoWorker ELSE userLock[u]]

Init ==
    /\ project = [p \in Project |->
                    IF p \in Begun
                    THEN [NoProjectRow EXCEPT !.status = "ACTIVE", !.dept = Home[p]]
                    ELSE NoProjectRow]
    /\ member = [p \in Project |-> IF p \in Begun THEN Staff[p] ELSE {}]
    /\ shared = [p \in Project |-> {}]
    /\ account = Account
    /\ task = [t \in Task |->
                 IF t \in Opened THEN [NoTaskRow EXCEPT !.status = "TODO"]
                 ELSE NoTaskRow]
    /\ assignee = [t \in Task |-> IF t \in Opened THEN Assigned[t] ELSE {}]
    /\ version = [u \in User |-> 1]
    /\ projectLock = [p \in Project |-> NoWorker]
    /\ taskLock = [t \in Task |-> NoWorker]
    /\ userLock = [u \in User |-> NoWorker]
    /\ tx = [w \in Worker |-> Idle]
    /\ requests = 0

-----------------------------------------------------------------------------
(* A request arrives.                                                      *)

\* Slip: a cancellation locks the project first.
LocksFirstTheProject(op) ==
    IF op = "create" THEN <<>>
    ELSE IF op \in OnProject \cup {"open"} THEN <<"project">>
    ELSE IF op = "cancel" THEN <<"project", "task">> ELSE <<"task", "project">>

\* The rows an operation locks, in their order: a task before its project.
Locks(op) ==
    IF op = "create" THEN <<>>
    ELSE IF op \in OnProject \cup {"open"} THEN <<"project">>
    ELSE <<"task", "project">>

\* What the requests of an operation may say, beside the row they name.  Every
\* field of a PATCH may be left out; to leave out any but the status is to name
\* what the row has, which is what its client saw or the version refuses it.
Body(op) ==
    [u    : IF op \in {"add", "remove", "assign", "unassign"} THEN Joining ELSE {AnyUser},
     c    : IF op \in {"share", "unshare"} THEN Account ELSE {AnyAccount},
     ask  : {Unsaid} \cup (IF op = "update" THEN Asked \cap ProjectStatus
                          ELSE IF op = "edit" THEN Asked \cap TaskStatus ELSE {}),
     dept : IF op \in {"create", "update"} THEN Places ELSE {NoDepartment},
     show : IF op = "edit" THEN BOOLEAN ELSE {FALSE}]

\* The rows a request can be about: a new one's identifier is made up by the
\* server, any other is one that its client has seen.
New(op) == {w \in Worker : tx[w].op = op}

About(op) ==
    IF op = "create"
    THEN {p \in Project : /\ project[p].status = "none"
                          /\ \A w \in New(op) : tx[w].p # p} \X {AnyTask}
    ELSE IF op \in OnProject
         THEN {p \in Project : project[p].status # "none"} \X {AnyTask}
    ELSE IF op = "open"
         THEN {AnyProject} \X {t \in Task : /\ task[t].status = "none"
                                            /\ \A w \in New(op) : tx[w].t # t
                                            /\ project[ProjectOf[t]].status # "none"}
    ELSE {AnyProject} \X {t \in Task : task[t].status # "none"}

\* A request carries the version that its client saw; for a cancellation, it
\* may carry none.
Versions(op, row) == {row.version} \cup (IF op = "cancel" THEN {0} ELSE {})

Arrive(w, a, op) ==
    /\ tx[w].op = "idle" /\ <<a, op>> \in Sent /\ requests < MaxRequests
    /\ \E x \in About(op), b \in Body(op) :
       LET row == IF op \in OnTask THEN task[x[2]] ELSE project[x[1]]
       IN  \E v \in Versions(op, row) :
           tx' = [tx EXCEPT ![w] =
                    [op |-> op, pc |-> "lock", todo |-> Locks(op), actor |-> a,
                     p |-> x[1], t |-> x[2], u |-> b.u, c |-> b.c, ask |-> b.ask,
                     dept |-> b.dept, show |-> b.show, ver |-> v, saw |-> row]]
    /\ requests' = requests + 1
    /\ UNCHANGED <<tables, locks>>

\* Slip: FOR UPDATE only where the project itself is written.
LockProjectToWrite(w) ==
    /\ tx[w].pc = "lock" /\ tx[w].todo # <<>> /\ Head(tx[w].todo) = "project"
    /\ tx[w].op \in {"update", "archive"} =>
          /\ Free(projectLock[Target(w)], w)
          /\ projectLock' = [projectLock EXCEPT ![Target(w)] = w]
    /\ tx[w].op \notin {"update", "archive"} => UNCHANGED projectLock
    /\ tx' = [tx EXCEPT ![w].todo = Tail(@)]
    /\ UNCHANGED <<tables, taskLock, userLock, requests>>

\* repo::find_for_update, for a task through load_context_for_update.
LockProject(w) ==
    /\ tx[w].pc = "lock" /\ tx[w].todo # <<>> /\ Head(tx[w].todo) = "project"
    /\ Free(projectLock[Target(w)], w)
    /\ projectLock' = [projectLock EXCEPT ![Target(w)] = w]
    /\ tx' = [tx EXCEPT ![w].todo = Tail(@)]
    /\ UNCHANGED <<tables, taskLock, userLock, requests>>

LockTask(w) ==
    /\ tx[w].pc = "lock" /\ tx[w].todo # <<>> /\ Head(tx[w].todo) = "task"
    /\ Free(taskLock[tx[w].t], w)
    /\ taskLock' = [taskLock EXCEPT ![tx[w].t] = w]
    /\ tx' = [tx EXCEPT ![w].todo = Tail(@)]
    /\ UNCHANGED <<tables, projectLock, userLock, requests>>

-----------------------------------------------------------------------------
(* What each operation checks once its rows are locked.                    *)

Row(w) == project[Target(w)]

\* next_status: the one asked for, or else the current one.
NextStatus(w, current) == IF tx[w].ask = Unsaid THEN current ELSE tx[w].ask

\* A request that names no status is not asked about the status at all: what is
\* archived can still be renamed, moved and handed to another manager.
UpdateAllowed(w) ==
    /\ Row(w).version = tx[w].ver
    /\ \/ tx[w].ask = Unsaid
       \/ tx[w].ask # "ARCHIVED" /\ ProjectMayBecome(Row(w).status, tx[w].ask)

ArchiveAllowed(w) == Row(w).version = tx[w].ver /\ Row(w).status # "ARCHIVED"

\* Everybody here is an internal user that is ACTIVE (require_internal_user).
AddAllowed(w) == Row(w).status # "ARCHIVED" /\ tx[w].u \notin member[tx[w].p]

RemoveAllowed(w) == tx[w].u \in member[tx[w].p]

\* client_account_status: read without a lock on the account.
AccountIsActive(c) == c \in account

ShareAllowed(w) == Row(w).status # "ARCHIVED" /\ AccountIsActive(tx[w].c)

OpenAllowed(w) == Row(w).status # "ARCHIVED"

\* The status of the project is not asked.
EditAllowed(w) ==
    /\ task[tx[w].t].version = tx[w].ver
    /\ tx[w].ask # Unsaid => TaskMayBecome(task[tx[w].t].status, tx[w].ask)

CancelAllowed(w) ==
    /\ tx[w].ver \in {0, task[tx[w].t].version}
    /\ task[tx[w].t].status # "CANCELLED"
    /\ TaskMayBecome(task[tx[w].t].status, "CANCELLED")

AssignAllowed(w) ==
    task[tx[w].t].status # "CANCELLED" /\ tx[w].u \notin assignee[tx[w].t]

Allowed(w) ==
    /\ May(w)
    /\ tx[w].op = "update"   => UpdateAllowed(w)
    /\ tx[w].op = "archive"  => ArchiveAllowed(w)
    /\ tx[w].op = "add"      => AddAllowed(w)
    /\ tx[w].op = "remove"   => RemoveAllowed(w)
    /\ tx[w].op = "share"    => ShareAllowed(w)
    /\ tx[w].op = "open"     => OpenAllowed(w)
    /\ tx[w].op = "edit"     => EditAllowed(w)
    /\ tx[w].op = "cancel"   => CancelAllowed(w)
    /\ tx[w].op = "assign"   => AssignAllowed(w)
    /\ tx[w].op = "unassign" => IsAssignee(tx[w].t, tx[w].u)

OnMembers == {"add", "remove", "assign", "unassign"}

Decide(w) ==
    /\ tx[w].pc = "lock" /\ tx[w].todo = <<>>
    /\ Allowed(w)
    /\ Goto(w, IF tx[w].op \in OnMembers THEN "bump" ELSE "write")
    /\ UNCHANGED <<tables, locks, requests>>

Refuse(w) ==
    /\ tx[w].pc = "lock" /\ tx[w].todo = <<>>
    /\ ~Allowed(w)
    /\ End(w)
    /\ UNCHANGED <<tables, requests>>

\* bump_security_version, after the row of the membership is written.
LockUser(w) ==
    /\ tx[w].pc = "bump"
    /\ Free(userLock[tx[w].u], w)
    /\ userLock' = [userLock EXCEPT ![tx[w].u] = w]
    /\ Goto(w, "write")
    /\ UNCHANGED <<tables, projectLock, taskLock, requests>>

-----------------------------------------------------------------------------
(* The writes, visible to others when the transaction commits.             *)

Writing(w, op) == tx[w].pc = "write" /\ tx[w].op = op

\* A new project is ACTIVE; a new task is TODO and not shown to clients.
InsertProject(p, d) ==
    /\ project[p].status = "none"
    /\ project' = [project EXCEPT ![p] =
                     [NoProjectRow EXCEPT !.status = "ACTIVE", !.dept = d]]

InsertTask(t) ==
    /\ task[t].status = "none"
    /\ task' = [task EXCEPT ![t] = [NoTaskRow EXCEPT !.status = "TODO"]]

Create(w) ==
    /\ Writing(w, "create")
    /\ InsertProject(tx[w].p, tx[w].dept)
    /\ End(w)
    /\ UNCHANGED <<member, shared, account, task, assignee, version, requests>>

\* repo::update: nothing is written unless the version is still the expected one.
WriteProject(w, row) ==
    project' = IF Row(w).version = tx[w].ver
               THEN [project EXCEPT ![tx[w].p] = row] ELSE project

Update(w) ==
    /\ Writing(w, "update")
    /\ WriteProject(w, [ProjectBecomes(Row(w), NextStatus(w, Row(w).status))
                          EXCEPT !.dept = tx[w].dept])
    /\ End(w)
    /\ UNCHANGED <<member, shared, account, task, assignee, version, requests>>

Archive(w) ==
    /\ Writing(w, "archive")
    /\ WriteProject(w, ProjectBecomes(Row(w), "ARCHIVED"))
    /\ End(w)
    /\ UNCHANGED <<member, shared, account, task, assignee, version, requests>>

\* The statements on the rows that relate others to a project or a task.  A removal
\* closes the row and keeps it; a unique index refuses a second live one.
InsertMember(p, u)   == member' = [member EXCEPT ![p] = @ \cup {u}]
CloseMember(p, u)    == member' = [member EXCEPT ![p] = @ \ {u}]
InsertLink(p, c)     == shared' = [shared EXCEPT ![p] = @ \cup {c}]
CloseLink(p, c)      == shared' = [shared EXCEPT ![p] = @ \ {c}]
InsertAssignee(t, u) == assignee' = [assignee EXCEPT ![t] = @ \cup {u}]
CloseAssignee(t, u)  == assignee' = [assignee EXCEPT ![t] = @ \ {u}]

\* repo::update of a task, as that of a project.
WriteTask(w, row) ==
    task' = IF task[tx[w].t].version = tx[w].ver
            THEN [task EXCEPT ![tx[w].t] = row] ELSE task

Raised(w) == [version EXCEPT ![tx[w].u] = @ + 1]

AddMember(w) ==
    /\ Writing(w, "add")
    /\ InsertMember(tx[w].p, tx[w].u)
    /\ version' = Raised(w)
    /\ End(w)
    /\ UNCHANGED <<project, shared, account, task, assignee, requests>>

RemoveMember(w) ==
    /\ Writing(w, "remove")
    /\ CloseMember(tx[w].p, tx[w].u)
    /\ version' = Raised(w)
    /\ End(w)
    /\ UNCHANGED <<project, shared, account, task, assignee, requests>>

ShareWithClient(w) ==
    /\ Writing(w, "share")
    /\ InsertLink(tx[w].p, tx[w].c)
    /\ End(w)
    /\ UNCHANGED <<project, member, account, task, assignee, version, requests>>

UnshareFromClient(w) ==
    /\ Writing(w, "unshare")
    /\ CloseLink(tx[w].p, tx[w].c)
    /\ End(w)
    /\ UNCHANGED <<project, member, account, task, assignee, version, requests>>

OpenTask(w) ==
    /\ Writing(w, "open")
    /\ InsertTask(tx[w].t)
    /\ End(w)
    /\ UNCHANGED <<project, member, shared, account, assignee, version, requests>>

EditTask(w) ==
    /\ Writing(w, "edit")
    /\ LET row == task[tx[w].t]
       IN  WriteTask(w, [TaskBecomes(row, NextStatus(w, row.status))
                          EXCEPT !.visible = tx[w].show])
    /\ End(w)
    /\ UNCHANGED <<project, member, shared, account, assignee, version, requests>>

CancelTask(w) ==
    /\ Writing(w, "cancel")
    /\ task' = [task EXCEPT ![tx[w].t] = TaskBecomes(task[tx[w].t], "CANCELLED")]
    /\ End(w)
    /\ UNCHANGED <<project, member, shared, account, assignee, version, requests>>

AssignTask(w) ==
    /\ Writing(w, "assign")
    /\ InsertAssignee(tx[w].t, tx[w].u)
    /\ version' = Raised(w)
    /\ End(w)
    /\ UNCHANGED <<project, member, shared, account, task, requests>>

UnassignTask(w) ==
    /\ Writing(w, "unassign")
    /\ CloseAssignee(tx[w].t, tx[w].u)
    /\ version' = Raised(w)
    /\ End(w)
    /\ UNCHANGED <<project, member, shared, account, task, requests>>

\* A client account is archived, whoever is about to share with it.
AccountArchived(c) ==
    /\ c \in account
    /\ account' = account \ {c}
    /\ UNCHANGED <<project, member, shared, task, assignee, version, locks, tx,
                   requests>>

Handler(w) ==
    \/ LockTask(w) \/ LockProject(w) \/ Decide(w) \/ Refuse(w) \/ LockUser(w)
    \/ Create(w) \/ Update(w) \/ Archive(w) \/ AddMember(w) \/ RemoveMember(w)
    \/ ShareWithClient(w) \/ UnshareFromClient(w)
    \/ OpenTask(w) \/ EditTask(w) \/ CancelTask(w) \/ AssignTask(w) \/ UnassignTask(w)

Next ==
    \/ \E w \in Worker : \/ \E a \in User, op \in Operation : Arrive(w, a, op)
                         \/ Handler(w)
    \/ \E c \in Account : AccountArchived(c)

Spec == Init /\ [][Next]_vars

\* PostgreSQL lets a waiter in when the lock is free, and a handler that has
\* begun is driven to its end.
FairSpec == Spec /\ \A w \in Worker : WF_vars(Handler(w))

-----------------------------------------------------------------------------
(* Properties.                                                             *)

\* An archived project gains nothing: no member, no task, no client, whatever
\* was decided before it was archived (projects::add_member, share_with_client,
\* tasks::create; their status checks under the row lock).  An update that names
\* no status may still move it; it stays archived, and its time with it.
Outcome(row) == <<row.status, row.finished, row.archived>>

TasksOf(p) == {t \in Task : ProjectOf[t] = p /\ task[t].status # "none"}

ArchivedGainsNothing ==
    [][\A p \in Project :
          project[p].status = "ARCHIVED" =>
             /\ Outcome(project'[p]) = Outcome(project[p])
             /\ member'[p] \subseteq member[p]
             /\ shared'[p] \subseteq shared[p]
             /\ TasksOf(p)' \subseteq TasksOf(p)]_vars

Wrote(w) == tx[w].pc = "write" /\ tx'[w].pc = "idle" /\ tables' # tables

\* What is written was authorised as things were at the moment of the write:
\* the membership, the assignment and the department that the decision rested
\* on have not changed since (load_context_for_update, "so the department
\* cannot move between the decision and the write").
WritersHaveAuthority == [][\A w \in Worker : Wrote(w) => May(w)]_vars

\* Two people who edit from the same version cannot both succeed, and nobody
\* undoes what he has not seen: an edit or an archiving replaces the row that
\* its client saw (the version checks; a cancellation may go without).
WritesOverWhatWasSeen ==
    [][\A w \in Worker :
          Wrote(w) =>
             /\ tx[w].op \in {"update", "archive"} => tx[w].saw = project[tx[w].p]
             /\ tx[w].op = "edit" => tx[w].saw = task[tx[w].t]]_vars

\* Every request comes to its end: no two wait for each other, because a task
\* is locked before its project and a user after both.
EveryRequestEnds == \A w \in Worker : (tx[w].op # "idle") ~> (tx[w].op = "idle")

(***************************************************************************)
(* Why they hold: the invariant that the steps preserve.                   *)
(***************************************************************************)

\* A handler holds the rows it has locked so far, and they exist.
LocksOK(w) ==
    /\ tx[w].op \in OnProject \cup {"open"} =>
          /\ project[Target(w)].status # "none"
          /\ \/ tx[w].todo = <<"project">>
             \/ tx[w].todo = <<>> /\ projectLock[Target(w)] = w
    /\ tx[w].op \in OnTask =>
          /\ task[tx[w].t].status # "none"
          /\ \/ tx[w].todo = <<"task", "project">>
             \/ tx[w].todo = <<"project">> /\ taskLock[tx[w].t] = w
             \/ /\ tx[w].todo = <<>>
                /\ taskLock[tx[w].t] = w /\ projectLock[Target(w)] = w

\* What it has decided on is still so; only the client account may have gone.
DecidedOK(w) ==
    tx[w].pc \in {"bump", "write"} =>
        /\ tx[w].todo = <<>>
        /\ May(w)
        /\ tx[w].op = "update"  => UpdateAllowed(w)
        /\ tx[w].op = "archive" => ArchiveAllowed(w)
        /\ tx[w].op \in {"add", "share", "open"} => Row(w).status # "ARCHIVED"
        /\ tx[w].op = "edit"    => EditAllowed(w)
        /\ tx[w].op = "cancel"  => CancelAllowed(w)

\* A request asks for a status of what it is about, if for any
\* (UpdateProjectRequest, UpdateTaskRequest).
AskedOK(w) ==
    /\ tx[w].op = "update" => tx[w].ask \in ProjectStatus \cup {Unsaid}
    /\ tx[w].op = "edit"   => tx[w].ask \in TaskStatus \cup {Unsaid}

\* A row that still has the version its client saw is the row he saw.
SeenOK(w) ==
    /\ tx[w].op \in {"update", "archive"} =>
          /\ tx[w].ver = tx[w].saw.version /\ tx[w].ver <= project[tx[w].p].version
          /\ tx[w].ver = project[tx[w].p].version => tx[w].saw = project[tx[w].p]
    /\ tx[w].op = "edit" =>
          /\ tx[w].ver = tx[w].saw.version /\ tx[w].ver <= task[tx[w].t].version
          /\ tx[w].ver = task[tx[w].t].version => tx[w].saw = task[tx[w].t]

\* The times of a project are there when its status says so.
Dated(row) ==
    row.finished = (row.status = "COMPLETED") /\ row.archived = (row.status = "ARCHIVED")

\* The CHECK constraints projects_archive_consistent and
\* tasks_completion_consistent would never refuse a row, nor the foreign key of
\* a task on its project.
RowsOK ==
    /\ \A p \in Project : Dated(project[p])
    /\ \A t \in Task :
          /\ task[t].finished = (task[t].status = "DONE")
          /\ task[t].status # "none" => project[ProjectOf[t]].status # "none"

IndInv ==
    /\ TypeOK
    /\ RowsOK
    /\ \A w \in Worker :
          /\ tx[w].pc = "idle" <=> tx[w].op = "idle"
          /\ LocksOK(w) /\ DecidedOK(w) /\ AskedOK(w) /\ SeenOK(w)
=============================================================================
