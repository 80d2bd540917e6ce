---------------------------- MODULE Projects_proofs ----------------------------
(***************************************************************************)
(* Proofs about Projects, for any number of handlers, users, projects,     *)
(* tasks and client accounts, and whatever is asked for.  A project or a   *)
(* task that a handler has locked is written by nobody else, so what it    *)
(* decided on stays so until it writes (Keeps, KeptForV); and a row that   *)
(* is written gets a version that nobody has seen yet, so an equal version *)
(* means an equal row (Moves).                                             *)
(***************************************************************************)
EXTENDS Projects, TLAPS

USE ProjectsAssumption

-----------------------------------------------------------------------------
(* Ending a transaction.                                                     *)

LEMMA IdleTyped ==
    /\ Idle \in Transaction
    /\ Idle.op = "idle" /\ Idle.pc = "idle" /\ Idle.todo = <<>>
  <1>1. AnyProject \in Project /\ AnyTask \in Task /\ AnyUser \in User /\ AnyAccount \in Account
    BY DEF AnyProject, AnyTask, AnyUser, AnyAccount
  <1>2. NoProjectRow \in ProjectRow
    BY DEF NoProjectRow, ProjectRow, Place
  <1>3. <<>> \in Seq({"task", "project"})
    OBVIOUS
  <1>. QED
    BY <1>1, <1>2, <1>3 DEF Idle, Transaction, ProjectStatus, Place

\* What Target says of a handler.
LEMMA TargetTyped ==
    ASSUME TypeOK, NEW w \in Worker
    PROVE  /\ Target(w) \in Project /\ tx[w] \in Transaction
           /\ tx[w].p \in Project /\ tx[w].t \in Task /\ tx[w].u \in User /\ tx[w].c \in Account
           /\ tx[w].op \in OnProject => Target(w) = tx[w].p
           /\ tx[w].op \in OnTask \cup {"open"} => Target(w) = ProjectOf[tx[w].t]
  <1>1. tx[w] \in Transaction
    BY DEF TypeOK
  <1>2. tx[w].p \in Project /\ tx[w].t \in Task /\ tx[w].u \in User /\ tx[w].c \in Account
    BY <1>1 DEF Transaction
  <1>. QED
    BY <1>1, <1>2 DEF Target, OnProject, OnTask

\* The state of the locks and of the handlers after a commit or a rollback.
LEMMA Ended ==
    ASSUME TypeOK, NEW w \in Worker, End(w)
    PROVE  /\ tx' \in [Worker -> Transaction] /\ tx'[w] = Idle
           /\ projectLock' \in [Project -> Worker \cup {NoWorker}]
           /\ taskLock' \in [Task -> Worker \cup {NoWorker}]
           /\ userLock' \in [User -> Worker \cup {NoWorker}]
           /\ \A v \in Worker \ {w} :
                 /\ tx'[v] = tx[v]
                 /\ \A p \in Project : projectLock[p] = v => projectLock'[p] = v
                 /\ \A t \in Task : taskLock[t] = v => taskLock'[t] = v
  <1>1. tx' \in [Worker -> Transaction] /\ tx'[w] = Idle
    BY IdleTyped DEF TypeOK, End
  <1>2. /\ projectLock' \in [Project -> Worker \cup {NoWorker}]
        /\ taskLock' \in [Task -> Worker \cup {NoWorker}]
        /\ userLock' \in [User -> Worker \cup {NoWorker}]
    BY DEF TypeOK, End
  <1>3. ASSUME NEW v \in Worker \ {w}
        PROVE  /\ tx'[v] = tx[v]
               /\ \A p \in Project : projectLock[p] = v => projectLock'[p] = v
               /\ \A t \in Task : taskLock[t] = v => taskLock'[t] = v
    BY DEF TypeOK, End
  <1>. QED
    BY <1>1, <1>2, <1>3

-----------------------------------------------------------------------------
(* What the step of one handler leaves of what another one relies on.        *)

\* A row that is there stays, and its version tells whether it has changed.
RowKeeps(old, new) ==
    old.status # "none" =>
        /\ new.status # "none"
        /\ old.version <= new.version
        /\ new.version = old.version => new = old

Keeps(v) ==
    /\ tx'[v] = tx[v]
    /\ \A p \in Project :
          /\ RowKeeps(project[p], project'[p])
          /\ projectLock[p] = v => projectLock'[p] = v
          /\ projectLock[p] = v /\ project[p].status # "none" =>
                project'[p] = project[p] /\ member'[p] = member[p]
    /\ \A t \in Task :
          /\ RowKeeps(task[t], task'[t])
          /\ taskLock[t] = v => taskLock'[t] = v
          /\ taskLock[t] = v /\ task[t].status # "none" =>
                task'[t] = task[t] /\ assignee'[t] = assignee[t]

\* What a handler tells of itself.
Told(w) ==
    /\ tx[w].pc = "idle" <=> tx[w].op = "idle"
    /\ LocksOK(w) /\ DecidedOK(w) /\ AskedOK(w) /\ SeenOK(w)

\* The handlers that hold what they are about, all but the new project.
LEMMA HoldsTarget ==
    ASSUME IndInv, NEW w \in Worker, tx[w].todo = <<>>
    PROVE  /\ tx[w].op \in OnProject \cup OnTask \cup {"open"} =>
                 projectLock[Target(w)] = w
           /\ tx[w].op \in OnProject \cup {"open"} => project[Target(w)].status # "none"
           /\ tx[w].op \in OnTask => taskLock[tx[w].t] = w /\ task[tx[w].t].status # "none"
  <1>1. LocksOK(w)
    BY DEF IndInv
  <1>2. <<>> # <<"project">> /\ <<>> # <<"task", "project">>
    OBVIOUS
  <1>. QED
    BY <1>1, <1>2 DEF LocksOK

LEMMA KeptForV ==
    ASSUME IndInv, TypeOK', NEW v \in Worker, Keeps(v)
    PROVE  Told(v)'
  <1> DEFINE q == Target(v)
             t == tx[v].t
  <1>1. /\ q \in Project /\ tx[v].p \in Project /\ t \in Task
        /\ tx[v].op \in OnProject => q = tx[v].p
    BY TargetTyped DEF IndInv
  <1>2. tx'[v] = tx[v] /\ Target(v)' = q
    BY DEF Keeps, Target
  <1>3. Told(v)
    BY DEF IndInv, Told
  <1>4. LocksOK(v)'
    <2>1. RowKeeps(project[q], project'[q]) /\ RowKeeps(task[t], task'[t])
      BY <1>1 DEF Keeps
    <2>2. projectLock[q] = v => projectLock'[q] = v
      BY <1>1 DEF Keeps
    <2>3. taskLock[t] = v => taskLock'[t] = v
      BY <1>1 DEF Keeps
    <2>. QED
      BY <1>2, <1>3, <2>1, <2>2, <2>3 DEF Told, LocksOK, RowKeeps
  <1>5. DecidedOK(v)'
    <2> SUFFICES ASSUME tx[v].pc \in {"bump", "write"} PROVE DecidedOK(v)'
      BY <1>2 DEF DecidedOK
    <2>1. tx[v].todo = <<>> /\ DecidedOK(v)
      BY <1>3 DEF Told, DecidedOK
    <2>2. tx[v].op \in OnProject \cup OnTask \cup {"open"} => projectLock[q] = v
      BY <2>1, HoldsTarget
    <2>3. CASE tx[v].op \in OnProject \cup {"open"}
      <3>1. project'[q] = project[q] /\ member'[q] = member[q]
        BY <1>1, <2>1, <2>2, <2>3, HoldsTarget DEF Keeps
      <3>2. May(v)'
        BY <1>2, <2>1, <2>3, <3>1 DEF DecidedOK, May, IsMember, OnTask, OnProject
      <3>. QED
        BY <1>2, <2>1, <2>3, <3>1, <3>2
        DEF DecidedOK, UpdateAllowed, ArchiveAllowed, Row, OnProject
    <2>4. CASE tx[v].op \in OnTask
      <3>1. q = ProjectOf[t] /\ task[t].status # "none" /\ taskLock[t] = v
        BY <2>1, <2>4, HoldsTarget, TargetTyped DEF IndInv
      <3>2. project[q].status # "none"
        BY <1>1, <3>1 DEF IndInv, RowsOK
      <3>3. project'[q] = project[q] /\ task'[t] = task[t] /\ assignee'[t] = assignee[t]
        BY <1>1, <2>2, <2>4, <3>1, <3>2 DEF Keeps
      <3>4. May(v)'
        BY <1>2, <2>1, <2>4, <3>3 DEF DecidedOK, May, IsMember, IsAssignee, OnTask
      <3>. QED
        BY <1>2, <2>1, <2>4, <3>3, <3>4
        DEF DecidedOK, EditAllowed, CancelAllowed, OnTask
    <2>5. CASE tx[v].op \notin OnProject \cup OnTask \cup {"open"}
      <3>1. tx[v].op = "create" \/ tx[v].op = "idle"
        BY <2>5 DEF IndInv, TypeOK, Transaction, Operation
      <3>. QED
        BY <1>2, <1>3, <2>1, <3>1 DEF DecidedOK, May, Told
    <2>. QED
      BY <2>3, <2>4, <2>5
  <1>6. SeenOK(v)'
    <2>1. CASE tx[v].op \in {"update", "archive"}
      <3> DEFINE old == project[tx[v].p]
                 new == project'[tx[v].p]
      <3>1. /\ old \in ProjectRow /\ tx[v].p \in Project
            /\ old.version \in Nat /\ new.version \in Nat /\ tx[v].ver \in Nat
        BY <1>1 DEF IndInv, TypeOK, ProjectRow, Transaction
      <3>2. old.status # "none"
        BY <1>1, <1>3, <2>1 DEF Told, LocksOK, OnProject
      <3>3. old.version <= new.version /\ (new.version = old.version => new = old)
        BY <3>1, <3>2 DEF Keeps, RowKeeps
      <3>4. tx[v].ver <= old.version /\ (tx[v].ver = old.version => tx[v].saw = old)
            /\ tx[v].ver = tx[v].saw.version
        BY <1>3, <2>1 DEF Told, SeenOK
      <3>5. tx[v].ver <= new.version /\ (tx[v].ver = new.version => tx[v].saw = new)
        BY <3>1, <3>3, <3>4
      <3>. QED
        BY <1>2, <2>1, <3>4, <3>5 DEF SeenOK
    <2>2. CASE tx[v].op = "edit"
      <3> DEFINE old == task[t]
                 new == task'[t]
      <3>1. old.version \in Nat /\ new.version \in Nat /\ tx[v].ver \in Nat
        BY <1>1 DEF IndInv, TypeOK, TaskRow, Transaction
      <3>2. old.status # "none"
        BY <1>1, <1>3, <2>2 DEF Told, LocksOK, OnTask
      <3>3. old.version <= new.version /\ (new.version = old.version => new = old)
        BY <1>1, <3>2 DEF Keeps, RowKeeps
      <3>4. tx[v].ver <= old.version /\ (tx[v].ver = old.version => tx[v].saw = old)
            /\ tx[v].ver = tx[v].saw.version
        BY <1>3, <2>2 DEF Told, SeenOK
      <3>5. tx[v].ver <= new.version /\ (tx[v].ver = new.version => tx[v].saw = new)
        BY <3>1, <3>3, <3>4
      <3>. QED
        BY <1>2, <2>2, <3>4, <3>5 DEF SeenOK
    <2>. QED
      BY <1>2, <2>1, <2>2 DEF SeenOK
  <1>. QED
    BY <1>2, <1>3, <1>4, <1>5, <1>6 DEF Told, AskedOK

-----------------------------------------------------------------------------
(* Each action: what it leaves typed, what it keeps for the others, and what *)
(* it says of its own handler.                                               *)

Good(w) ==
    /\ TypeOK' /\ RowsOK' /\ Told(w)'
    /\ \A v \in Worker \ {w} : Keeps(v)

\* A handler writes what it has locked, and makes what was not there.
Writes(w) ==
    /\ \A p \in Project :
          /\ RowKeeps(project[p], project'[p])
          /\ project[p].status # "none" /\ projectLock[p] # w =>
                project'[p] = project[p] /\ member'[p] = member[p]
    /\ \A t \in Task :
          /\ RowKeeps(task[t], task'[t])
          /\ task[t].status # "none" /\ taskLock[t] # w =>
                task'[t] = task[t] /\ assignee'[t] = assignee[t]

\* An idle handler has nothing to tell.
LEMMA ToldWhenIdle ==
    ASSUME NEW w \in Worker, tx'[w] = Idle
    PROVE  Told(w)'
  BY IdleTyped DEF Told, LocksOK, DecidedOK, AskedOK, SeenOK, OnProject, OnTask

LEMMA EndedGood ==
    ASSUME IndInv, NEW w \in Worker, End(w), TypeOK', RowsOK', Writes(w)
    PROVE  Good(w)
  <1>1. Told(w)'
    BY Ended, ToldWhenIdle DEF IndInv
  <1>2. ASSUME NEW v \in Worker \ {w} PROVE Keeps(v)
    <2>1. /\ tx'[v] = tx[v]
          /\ \A p \in Project : projectLock[p] = v => projectLock'[p] = v
          /\ \A t \in Task : taskLock[t] = v => taskLock'[t] = v
      BY Ended DEF IndInv
    <2>. QED
      BY <2>1 DEF Keeps, Writes
  <1>. QED
    BY <1>1, <1>2 DEF Good

LEMMA EndTypes ==
    ASSUME TypeOK, NEW w \in Worker, End(w),
           project' \in [Project -> ProjectRow], member' \in [Project -> SUBSET User],
           shared' \in [Project -> SUBSET Account], account' = account,
           task' \in [Task -> TaskRow], assignee' \in [Task -> SUBSET User],
           version' \in [User -> Nat], requests' = requests
    PROVE  TypeOK'
  BY Ended DEF TypeOK

\* Tables that stay are kept for everybody.
LEMMA SameKeeps ==
    ASSUME TypeOK
    PROVE  /\ \A p \in Project : RowKeeps(project[p], project[p])
           /\ \A t \in Task : RowKeeps(task[t], task[t])
  <1>1. \A p \in Project : project[p].version \in Nat
    BY DEF TypeOK, ProjectRow
  <1>2. \A t \in Task : task[t].version \in Nat
    BY DEF TypeOK, TaskRow
  <1>. QED
    BY <1>1, <1>2 DEF RowKeeps

\* A refusal only ends.
LEMMA RefuseGood ==
    ASSUME IndInv, NEW w \in Worker, Refuse(w)
    PROVE  Good(w)
  <1>1. End(w) /\ UNCHANGED <<tables, requests>> /\ TypeOK /\ RowsOK
    BY DEF Refuse, IndInv
  <1>2. TypeOK'
    BY <1>1, EndTypes DEF TypeOK, tables
  <1>3. RowsOK'
    BY <1>1 DEF RowsOK, tables
  <1>4. Writes(w)
    BY <1>1, SameKeeps DEF Writes, tables
  <1>. QED
    BY <1>1, <1>2, <1>3, <1>4, EndedGood

\* What a handler that is about to write has locked.
LEMMA Writer ==
    ASSUME IndInv, NEW w \in Worker, tx[w].pc = "write"
    PROVE  /\ tx[w].todo = <<>> /\ DecidedOK(w) /\ May(w)
           /\ tx[w].op \in OnProject =>
                 projectLock[tx[w].p] = w /\ project[tx[w].p].status # "none"
           /\ tx[w].op = "open" => /\ projectLock[ProjectOf[tx[w].t]] = w
                                   /\ project[ProjectOf[tx[w].t]].status # "none"
           /\ tx[w].op \in OnTask =>
                 taskLock[tx[w].t] = w /\ task[tx[w].t].status # "none"
  <1>1. tx[w].todo = <<>> /\ DecidedOK(w) /\ May(w)
    BY DEF IndInv, DecidedOK
  <1>. QED
    BY <1>1, HoldsTarget, TargetTyped DEF IndInv

\* Where the rows of the projects and of the tasks stay, only what relates
\* others to them is written, by who holds them.
LEMMA RelationGood ==
    ASSUME IndInv, NEW w \in Worker, End(w),
           UNCHANGED <<project, task, account, requests>>,
           member' \in [Project -> SUBSET User], shared' \in [Project -> SUBSET Account],
           assignee' \in [Task -> SUBSET User], version' \in [User -> Nat],
           \A p \in Project : projectLock[p] # w => member'[p] = member[p],
           \A t \in Task : taskLock[t] # w => assignee'[t] = assignee[t]
    PROVE  Good(w)
  <1>1. TypeOK'
    BY EndTypes DEF IndInv, TypeOK
  <1>2. RowsOK'
    BY DEF IndInv, RowsOK
  <1>3. Writes(w)
    BY SameKeeps DEF IndInv, Writes
  <1>. QED
    BY <1>1, <1>2, <1>3, EndedGood

LEMMA RaisedTyped ==
    ASSUME TypeOK, NEW w \in Worker
    PROVE  Raised(w) \in [User -> Nat]
  BY TargetTyped DEF TypeOK, Raised

LEMMA MembersGood ==
    ASSUME IndInv, NEW w \in Worker, AddMember(w) \/ RemoveMember(w)
    PROVE  Good(w)
  <1>1. /\ tx[w].pc = "write" /\ tx[w].op \in OnProject /\ End(w) /\ version' = Raised(w)
        /\ UNCHANGED <<project, shared, account, task, assignee, requests>>
    BY DEF AddMember, RemoveMember, Writing, OnProject
  <1>2. tx[w].p \in Project /\ tx[w].u \in User /\ TypeOK
    BY TargetTyped DEF IndInv
  <1>3. projectLock[tx[w].p] = w
    BY <1>1, Writer
  <1>4. PICK S \in SUBSET User : member' = [member EXCEPT ![tx[w].p] = S]
    <2>1. member[tx[w].p] \in SUBSET User
      BY <1>2 DEF TypeOK
    <2>. QED
      BY <1>2, <2>1 DEF AddMember, RemoveMember, InsertMember, CloseMember
  <1>5. /\ member' \in [Project -> SUBSET User]
        /\ \A p \in Project : projectLock[p] # w => member'[p] = member[p]
    BY <1>2, <1>3, <1>4 DEF TypeOK
  <1>6. version' \in [User -> Nat]
    BY <1>1, <1>2, RaisedTyped
  <1>. QED
    BY <1>1, <1>2, <1>5, <1>6, RelationGood DEF TypeOK

LEMMA AssigneesGood ==
    ASSUME IndInv, NEW w \in Worker, AssignTask(w) \/ UnassignTask(w)
    PROVE  Good(w)
  <1>1. /\ tx[w].pc = "write" /\ tx[w].op \in OnTask /\ End(w) /\ version' = Raised(w)
        /\ UNCHANGED <<project, member, shared, account, task, requests>>
    BY DEF AssignTask, UnassignTask, Writing, OnTask
  <1>2. tx[w].t \in Task /\ tx[w].u \in User /\ TypeOK
    BY TargetTyped DEF IndInv
  <1>3. taskLock[tx[w].t] = w
    BY <1>1, Writer
  <1>4. PICK S \in SUBSET User : assignee' = [assignee EXCEPT ![tx[w].t] = S]
    <2>1. assignee[tx[w].t] \in SUBSET User
      BY <1>2 DEF TypeOK
    <2>. QED
      BY <1>2, <2>1 DEF AssignTask, UnassignTask, InsertAssignee, CloseAssignee
  <1>5. /\ assignee' \in [Task -> SUBSET User]
        /\ \A t \in Task : taskLock[t] # w => assignee'[t] = assignee[t]
    BY <1>2, <1>3, <1>4 DEF TypeOK
  <1>6. version' \in [User -> Nat]
    BY <1>1, <1>2, RaisedTyped
  <1>. QED
    BY <1>1, <1>2, <1>5, <1>6, RelationGood DEF TypeOK

LEMMA LinksGood ==
    ASSUME IndInv, NEW w \in Worker, ShareWithClient(w) \/ UnshareFromClient(w)
    PROVE  Good(w)
  <1>1. /\ End(w)
        /\ UNCHANGED <<project, member, account, task, assignee, version, requests>>
    BY DEF ShareWithClient, UnshareFromClient
  <1>2. tx[w].p \in Project /\ tx[w].c \in Account /\ TypeOK
    BY TargetTyped DEF IndInv
  <1>3. shared' \in [Project -> SUBSET Account]
    BY <1>2 DEF TypeOK, ShareWithClient, UnshareFromClient, InsertLink, CloseLink
  <1>. QED
    BY <1>1, <1>2, <1>3, RelationGood DEF TypeOK

\* A project that is written anew has a version that nobody has seen.
LEMMA ProjectWritten ==
    ASSUME IndInv, NEW w \in Worker, End(w),
           tx[w].pc = "write", tx[w].op \in OnProject,
           NEW row \in ProjectRow, row.version = project[tx[w].p].version + 1,
           row.status # "none", Dated(row),
           project' = project \/ project' = [project EXCEPT ![tx[w].p] = row],
           UNCHANGED <<member, shared, account, task, assignee, version, requests>>
    PROVE  Good(w)
  <1> DEFINE q == tx[w].p
  <1>1. q \in Project /\ TypeOK /\ RowsOK /\ project[q].version \in Nat
    <2>1. q \in Project /\ TypeOK /\ RowsOK
      BY TargetTyped DEF IndInv
    <2>. QED
      BY <2>1 DEF TypeOK, ProjectRow
  <1>2. projectLock[q] = w /\ project[q].status # "none"
    BY Writer
  <1>3. TypeOK'
    <2>1. project' \in [Project -> ProjectRow]
      BY <1>1 DEF TypeOK
    <2>. QED
      BY <1>1, <2>1, EndTypes DEF TypeOK
  <1>4. \A p \in Project : project'[p] = project[p] \/ (p = q /\ project'[p] = row)
    BY <1>1 DEF TypeOK
  <1>5. RowsOK'
    BY <1>1, <1>4 DEF RowsOK
  <1>6. Writes(w)
    <2>1. RowKeeps(project[q], row)
      BY <1>1 DEF RowKeeps
    <2>. QED
      BY <1>1, <1>2, <1>4, <2>1, SameKeeps DEF Writes
  <1>. QED
    BY <1>3, <1>5, <1>6, EndedGood

LEMMA BecomesTyped ==
    ASSUME NEW row \in ProjectRow, NEW s \in ProjectStatus
    PROVE  /\ ProjectBecomes(row, s) \in ProjectRow
           /\ ProjectBecomes(row, s).version = row.version + 1
           /\ ProjectBecomes(row, s).status = s
           /\ ProjectBecomes(row, s).dept = row.dept
           /\ Dated(ProjectBecomes(row, s))
  <1> DEFINE r1 == [row EXCEPT !.status = s]
             r2 == [r1 EXCEPT !.version = @ + 1]
             r3 == [r2 EXCEPT !.finished = (s = "COMPLETED")]
             r4 == [r3 EXCEPT !.archived = (s = "ARCHIVED")]
  <1>1. ProjectBecomes(row, s) = r4
    BY DEF ProjectBecomes
  <1>2. r1 \in ProjectRow /\ r1.status = s /\ r1.version = row.version /\ r1.dept = row.dept
    BY DEF ProjectRow
  <1>3. /\ r2 \in ProjectRow /\ r2.status = s /\ r2.version = row.version + 1
        /\ r2.dept = row.dept
    <2> HIDE DEF r1
    <2>. QED
      BY <1>2 DEF ProjectRow
  <1>4. /\ r3 \in ProjectRow /\ r3.status = s /\ r3.version = row.version + 1
        /\ r3.dept = row.dept /\ r3.finished = (s = "COMPLETED")
    <2> HIDE DEF r2
    <2>. QED
      BY <1>3 DEF ProjectRow
  <1>5. /\ r4 \in ProjectRow /\ r4.status = s /\ r4.version = row.version + 1
        /\ r4.dept = row.dept /\ r4.finished = (s = "COMPLETED")
        /\ r4.archived = (s = "ARCHIVED")
    <2> HIDE DEF r3
    <2>. QED
      BY <1>4 DEF ProjectRow
  <1> HIDE DEF r4
  <1>. QED
    BY <1>1, <1>5 DEF Dated

\* The same, with the department that the update names.
LEMMA MovesTyped ==
    ASSUME NEW row \in ProjectRow, NEW s \in ProjectStatus, NEW d \in Place
    PROVE  LET new == [ProjectBecomes(row, s) EXCEPT !.dept = d]
           IN  /\ new \in ProjectRow /\ new.version = row.version + 1
               /\ new.status = s /\ new.dept = d /\ Dated(new)
  <1> DEFINE r == ProjectBecomes(row, s)
  <1>1. /\ r \in ProjectRow /\ r.version = row.version + 1
        /\ r.status = s /\ Dated(r)
    BY BecomesTyped
  <1> HIDE DEF r
  <1>2. /\ [r EXCEPT !.dept = d] \in ProjectRow
        /\ [r EXCEPT !.dept = d].version = r.version
        /\ [r EXCEPT !.dept = d].status = r.status
        /\ [r EXCEPT !.dept = d].archived = r.archived
        /\ [r EXCEPT !.dept = d].finished = r.finished
        /\ [r EXCEPT !.dept = d].dept = d
    BY <1>1 DEF ProjectRow
  <1>. QED
    BY <1>1, <1>2 DEF r, Dated

LEMMA ProjectWritesGood ==
    ASSUME IndInv, NEW w \in Worker, Update(w) \/ Archive(w)
    PROVE  Good(w)
  <1>1. /\ tx[w].pc = "write" /\ tx[w].op \in OnProject /\ End(w)
        /\ UNCHANGED <<member, shared, account, task, assignee, version, requests>>
    BY DEF Update, Archive, Writing, OnProject
  <1>2. /\ tx[w].p \in Project /\ tx[w].dept \in Place /\ Target(w) = tx[w].p
        /\ project[tx[w].p] \in ProjectRow
    BY <1>1, TargetTyped DEF IndInv, TypeOK, Transaction
  <1>3. CASE Update(w)
    <2> DEFINE next == NextStatus(w, project[tx[w].p].status)
               row  == [ProjectBecomes(project[tx[w].p], next) EXCEPT !.dept = tx[w].dept]
    <2>1. tx[w].op = "update"
      BY <1>3 DEF Update, Writing
    <2>2. next \in ProjectStatus /\ next # "none"
      BY <1>1, <1>2, <2>1, Writer DEF IndInv, AskedOK, NextStatus, ProjectRow, ProjectStatus
    <2>4. project' = project \/ project' = [project EXCEPT ![tx[w].p] = row]
      BY <1>2, <1>3 DEF Update, WriteProject, Row
    <2> HIDE DEF next
    <2>3. /\ row \in ProjectRow /\ row.version = project[tx[w].p].version + 1
          /\ row.status = next /\ Dated(row)
      BY <1>2, <2>2, MovesTyped
    <2> HIDE DEF row
    <2>. QED
      BY <1>1, <2>2, <2>3, <2>4, ProjectWritten
  <1>4. CASE Archive(w)
    <2> DEFINE row == ProjectBecomes(project[tx[w].p], "ARCHIVED")
    <2>1. "ARCHIVED" \in ProjectStatus
      BY DEF ProjectStatus
    <2>2. /\ row \in ProjectRow /\ row.version = project[tx[w].p].version + 1
          /\ row.status = "ARCHIVED" /\ Dated(row)
      BY <1>2, <2>1, BecomesTyped
    <2>3. project' = project \/ project' = [project EXCEPT ![tx[w].p] = row]
      BY <1>2, <1>4 DEF Archive, WriteProject, Row
    <2> HIDE DEF row
    <2>. QED
      BY <1>1, <2>2, <2>3, ProjectWritten
  <1>. QED
    BY <1>3, <1>4

\* What is made was not there, so nobody has seen it.
LEMMA CreateGood ==
    ASSUME IndInv, NEW w \in Worker, Create(w)
    PROVE  Good(w)
  <1> DEFINE q   == tx[w].p
             row == [NoProjectRow EXCEPT !.status = "ACTIVE", !.dept = tx[w].dept]
  <1>1. /\ End(w) /\ project[q].status = "none" /\ project' = [project EXCEPT ![q] = row]
        /\ UNCHANGED <<member, shared, account, task, assignee, version, requests>>
    BY DEF Create, InsertProject
  <1>2. q \in Project /\ tx[w].dept \in Place /\ TypeOK /\ RowsOK
    BY TargetTyped DEF IndInv, Transaction
  <1>3. row \in ProjectRow /\ row.status = "ACTIVE" /\ Dated(row)
    <2>1. /\ NoProjectRow \in ProjectRow
          /\ NoProjectRow.archived = FALSE /\ NoProjectRow.finished = FALSE
      BY DEF NoProjectRow, ProjectRow, Place
    <2> DEFINE r1 == [NoProjectRow EXCEPT !.status = "ACTIVE"]
    <2>2. /\ r1 \in ProjectRow /\ r1.status = "ACTIVE"
          /\ r1.archived = FALSE /\ r1.finished = FALSE
      BY <2>1 DEF ProjectRow, ProjectStatus
    <2>3. /\ [r1 EXCEPT !.dept = tx[w].dept] \in ProjectRow
          /\ [r1 EXCEPT !.dept = tx[w].dept].status = r1.status
          /\ [r1 EXCEPT !.dept = tx[w].dept].archived = r1.archived
          /\ [r1 EXCEPT !.dept = tx[w].dept].finished = r1.finished
      <3> HIDE DEF r1
      <3>. QED
        BY <1>2, <2>2 DEF ProjectRow
    <2>4. row = [r1 EXCEPT !.dept = tx[w].dept]
      BY Zenon
    <2>. QED
      <3> HIDE DEF row, r1
      <3>. QED
        BY <2>2, <2>3, <2>4 DEF Dated
  <1> HIDE DEF row
  <1>4. \A p \in Project : project'[p] = IF p = q THEN row ELSE project[p]
    BY <1>1, <1>2 DEF TypeOK
  <1>5. TypeOK'
    <2>1. project' \in [Project -> ProjectRow]
      BY <1>1, <1>2, <1>3 DEF TypeOK
    <2>. QED
      BY <1>1, <1>2, <2>1, EndTypes DEF TypeOK
  <1>6. RowsOK'
    <2>1. ASSUME NEW p \in Project
          PROVE  /\ Dated(project'[p])
                 /\ project[p].status # "none" => project'[p].status # "none"
      <3>1. CASE p = q
        BY <1>3, <1>4, <3>1
      <3>2. CASE p # q
        BY <1>2, <1>4, <3>2 DEF RowsOK
      <3>. QED
        BY <3>1, <3>2
    <2>. QED
      BY <1>1, <1>2, <2>1 DEF RowsOK
  <1>7. Writes(w)
    BY <1>1, <1>2, <1>4, SameKeeps DEF Writes, RowKeeps
  <1>. QED
    BY <1>1, <1>5, <1>6, <1>7, EndedGood

LEMMA OpenGood ==
    ASSUME IndInv, NEW w \in Worker, OpenTask(w)
    PROVE  Good(w)
  <1> DEFINE q   == tx[w].t
             row == [NoTaskRow EXCEPT !.status = "TODO"]
  <1>1. /\ End(w) /\ task[q].status = "none" /\ task' = [task EXCEPT ![q] = row]
        /\ UNCHANGED <<project, member, shared, account, assignee, version, requests>>
        /\ tx[w].op = "open" /\ tx[w].pc = "write"
    BY DEF OpenTask, InsertTask, Writing
  <1>2. q \in Task /\ ProjectOf[q] \in Project /\ TypeOK /\ RowsOK
    BY TargetTyped DEF IndInv
  <1>3. row \in TaskRow /\ row.status = "TODO" /\ row.finished = FALSE
    BY DEF NoTaskRow, TaskRow, TaskStatus
  <1>4. project[ProjectOf[q]].status # "none"
    BY <1>1, Writer
  <1> HIDE DEF row
  <1>5. \A t \in Task : task'[t] = IF t = q THEN row ELSE task[t]
    BY <1>1, <1>2 DEF TypeOK
  <1>6. TypeOK'
    <2>1. task' \in [Task -> TaskRow]
      BY <1>1, <1>2, <1>3 DEF TypeOK
    <2>. QED
      BY <1>1, <1>2, <2>1, EndTypes DEF TypeOK
  <1>7. RowsOK'
    <2>1. ASSUME NEW t \in Task
          PROVE  /\ task'[t].finished = (task'[t].status = "DONE")
                 /\ task'[t].status # "none" => project[ProjectOf[t]].status # "none"
      <3>1. CASE t = q
        BY <1>3, <1>4, <1>5, <3>1
      <3>2. CASE t # q
        BY <1>2, <1>5, <3>2 DEF RowsOK
      <3>. QED
        BY <3>1, <3>2
    <2>. QED
      BY <1>1, <1>2, <2>1 DEF RowsOK
  <1>8. Writes(w)
    <2>1. ASSUME NEW t \in Task
          PROVE  /\ RowKeeps(task[t], task'[t])
                 /\ task[t].status # "none" => task'[t] = task[t]
      <3>1. CASE t = q
        BY <1>1, <3>1 DEF RowKeeps
      <3>2. CASE t # q
        BY <1>2, <1>5, <3>2, SameKeeps
      <3>. QED
        BY <3>1, <3>2
    <2>. QED
      BY <1>1, <1>2, <2>1, SameKeeps DEF Writes
  <1>. QED
    BY <1>1, <1>6, <1>7, <1>8, EndedGood

LEMMA TaskWritten ==
    ASSUME IndInv, NEW w \in Worker, End(w),
           tx[w].pc = "write", tx[w].op \in OnTask,
           NEW row \in TaskRow, row.version = task[tx[w].t].version + 1,
           row.status # "none", row.finished = (row.status = "DONE"),
           task' = task \/ task' = [task EXCEPT ![tx[w].t] = row],
           UNCHANGED <<project, member, shared, account, assignee, version, requests>>
    PROVE  Good(w)
  <1> DEFINE q == tx[w].t
  <1>1. q \in Task /\ TypeOK /\ RowsOK /\ task[q].version \in Nat
    <2>1. q \in Task /\ TypeOK /\ RowsOK
      BY TargetTyped DEF IndInv
    <2>. QED
      BY <2>1 DEF TypeOK, TaskRow
  <1>2. taskLock[q] = w /\ task[q].status # "none"
    BY Writer
  <1>3. TypeOK'
    <2>1. task' \in [Task -> TaskRow]
      BY <1>1 DEF TypeOK
    <2>. QED
      BY <1>1, <2>1, EndTypes DEF TypeOK
  <1>4. \A t \in Task : task'[t] = task[t] \/ (t = q /\ task'[t] = row)
    BY <1>1 DEF TypeOK
  <1>5. RowsOK'
    BY <1>1, <1>2, <1>4 DEF RowsOK
  <1>6. Writes(w)
    <2>1. RowKeeps(task[q], row)
      BY <1>1 DEF RowKeeps
    <2>. QED
      BY <1>1, <1>2, <1>4, <2>1, SameKeeps DEF Writes
  <1>. QED
    BY <1>3, <1>5, <1>6, EndedGood

LEMMA TaskBecomesTyped ==
    ASSUME NEW row \in TaskRow, NEW s \in TaskStatus
    PROVE  /\ TaskBecomes(row, s) \in TaskRow
           /\ TaskBecomes(row, s).version = row.version + 1
           /\ TaskBecomes(row, s).status = s
           /\ TaskBecomes(row, s).finished = (s = "DONE")
  <1> DEFINE r1 == [row EXCEPT !.status = s]
             r2 == [r1 EXCEPT !.version = @ + 1]
             r3 == [r2 EXCEPT !.finished = (s = "DONE")]
  <1>1. TaskBecomes(row, s) = r3
    BY DEF TaskBecomes
  <1>2. r1 \in TaskRow /\ r1.status = s /\ r1.version = row.version
    BY DEF TaskRow
  <1>3. r2 \in TaskRow /\ r2.status = s /\ r2.version = row.version + 1
    <2> HIDE DEF r1
    <2>. QED
      BY <1>2 DEF TaskRow
  <1>4. /\ r3 \in TaskRow /\ r3.status = s /\ r3.version = row.version + 1
        /\ r3.finished = (s = "DONE")
    <2> HIDE DEF r2
    <2>. QED
      BY <1>3 DEF TaskRow
  <1> HIDE DEF r3
  <1>. QED
    BY <1>1, <1>4

\* The same, with what the edit lets clients see.
LEMMA ShownTyped ==
    ASSUME NEW row \in TaskRow, NEW s \in TaskStatus, NEW b \in BOOLEAN
    PROVE  LET new == [TaskBecomes(row, s) EXCEPT !.visible = b]
           IN  /\ new \in TaskRow /\ new.version = row.version + 1
               /\ new.status = s /\ new.finished = (s = "DONE")
  <1> DEFINE r == TaskBecomes(row, s)
  <1>1. /\ r \in TaskRow /\ r.version = row.version + 1
        /\ r.status = s /\ r.finished = (s = "DONE")
    BY TaskBecomesTyped
  <1> HIDE DEF r
  <1>2. /\ [r EXCEPT !.visible = b] \in TaskRow
        /\ [r EXCEPT !.visible = b].version = r.version
        /\ [r EXCEPT !.visible = b].status = r.status
        /\ [r EXCEPT !.visible = b].finished = r.finished
    BY <1>1 DEF TaskRow
  <1>. QED
    BY <1>1, <1>2 DEF r

LEMMA TaskWritesGood ==
    ASSUME IndInv, NEW w \in Worker, EditTask(w) \/ CancelTask(w)
    PROVE  Good(w)
  <1>1. /\ tx[w].pc = "write" /\ tx[w].op \in OnTask /\ End(w)
        /\ UNCHANGED <<project, member, shared, account, assignee, version, requests>>
    BY DEF EditTask, CancelTask, Writing, OnTask
  <1>2. tx[w].t \in Task /\ tx[w].show \in BOOLEAN /\ task[tx[w].t] \in TaskRow
    BY <1>1, TargetTyped DEF IndInv, TypeOK, Transaction
  <1>3. CASE EditTask(w)
    <2> DEFINE next == NextStatus(w, task[tx[w].t].status)
               row  == [TaskBecomes(task[tx[w].t], next) EXCEPT !.visible = tx[w].show]
    <2>1. tx[w].op = "edit"
      BY <1>3 DEF EditTask, Writing
    <2>2. next \in TaskStatus /\ next # "none"
      BY <1>1, <1>2, <2>1, Writer DEF IndInv, AskedOK, NextStatus, TaskRow, TaskStatus
    <2>4. task' = task \/ task' = [task EXCEPT ![tx[w].t] = row]
      BY <1>3 DEF EditTask, WriteTask
    <2> HIDE DEF next
    <2>3. /\ row \in TaskRow /\ row.version = task[tx[w].t].version + 1
          /\ row.status = next /\ row.finished = (next = "DONE")
      BY <1>2, <2>2, ShownTyped
    <2> HIDE DEF row
    <2>. QED
      BY <1>1, <2>2, <2>3, <2>4, TaskWritten
  <1>4. CASE CancelTask(w)
    <2> DEFINE row == TaskBecomes(task[tx[w].t], "CANCELLED")
    <2>1. "CANCELLED" \in TaskStatus
      BY DEF TaskStatus
    <2>2. /\ row \in TaskRow /\ row.version = task[tx[w].t].version + 1
          /\ row.status = "CANCELLED" /\ row.finished = ("CANCELLED" = "DONE")
      BY <1>2, <2>1, TaskBecomesTyped
    <2>3. task' = task \/ task' = [task EXCEPT ![tx[w].t] = row]
      BY <1>4 DEF CancelTask
    <2> HIDE DEF row
    <2>. QED
      BY <1>1, <2>2, <2>3, TaskWritten
  <1>. QED
    BY <1>3, <1>4

-----------------------------------------------------------------------------
(* The steps that write no table.                                            *)

\* A handler that moves on its own, or locks a row that is free.
LEMMA QuietGood ==
    ASSUME IndInv, NEW w \in Worker, UNCHANGED <<tables>>,
           tx' \in [Worker -> Transaction], requests' \in Nat, Told(w)',
           \A v \in Worker \ {w} : tx'[v] = tx[v],
           projectLock' \in [Project -> Worker \cup {NoWorker}],
           taskLock' \in [Task -> Worker \cup {NoWorker}],
           userLock' \in [User -> Worker \cup {NoWorker}],
           \A p \in Project : projectLock[p] \notin {w, NoWorker} =>
              projectLock'[p] = projectLock[p],
           \A t \in Task : taskLock[t] \notin {w, NoWorker} => taskLock'[t] = taskLock[t]
    PROVE  Good(w)
  <1>1. TypeOK' /\ RowsOK'
    BY DEF IndInv, TypeOK, RowsOK, tables
  <1>2. ASSUME NEW v \in Worker \ {w} PROVE Keeps(v)
    BY SameKeeps DEF IndInv, Keeps, tables
  <1>. QED
    BY <1>1, <1>2 DEF Good

\* A handler goes on with the request it has.
SameRequest(w) ==
    /\ tx'[w].op = tx[w].op /\ tx'[w].actor = tx[w].actor
    /\ tx'[w].p = tx[w].p /\ tx'[w].t = tx[w].t /\ tx'[w].u = tx[w].u /\ tx'[w].c = tx[w].c
    /\ tx'[w].ask = tx[w].ask /\ tx'[w].dept = tx[w].dept
    /\ tx'[w].ver = tx[w].ver /\ tx'[w].saw = tx[w].saw

LEMMA PcMoves ==
    ASSUME TypeOK, NEW w \in Worker, NEW pc \in {"idle", "lock", "bump", "write"},
           Goto(w, pc)
    PROVE  /\ tx' \in [Worker -> Transaction] /\ \A v \in Worker \ {w} : tx'[v] = tx[v]
           /\ SameRequest(w) /\ tx'[w].pc = pc /\ tx'[w].todo = tx[w].todo
  <1> DEFINE new == [tx[w] EXCEPT !.pc = pc]
  <1>1. tx[w] \in Transaction /\ tx \in [Worker -> Transaction]
    BY DEF TypeOK
  <1>2. new \in Transaction
    BY <1>1 DEF Transaction
  <1>3. tx' = [tx EXCEPT ![w] = new]
    BY DEF Goto
  <1>4. tx'[w] = new
    BY <1>1, <1>3
  <1>5. SameRequest(w) /\ tx'[w].pc = pc /\ tx'[w].todo = tx[w].todo
    BY <1>1, <1>4 DEF SameRequest, Transaction
  <1> HIDE DEF new
  <1>. QED
    BY <1>1, <1>2, <1>3, <1>5

LEMMA TodoMoves ==
    ASSUME TypeOK, NEW w \in Worker, NEW todo \in Seq({"task", "project"}),
           tx' = [tx EXCEPT ![w].todo = todo]
    PROVE  /\ tx' \in [Worker -> Transaction] /\ \A v \in Worker \ {w} : tx'[v] = tx[v]
           /\ SameRequest(w) /\ tx'[w].pc = tx[w].pc /\ tx'[w].todo = todo
  <1> DEFINE new == [tx[w] EXCEPT !.todo = todo]
  <1>1. tx[w] \in Transaction /\ tx \in [Worker -> Transaction]
    BY DEF TypeOK
  <1>2. new \in Transaction
    BY <1>1 DEF Transaction
  <1>3. tx' = [tx EXCEPT ![w] = new]
    OBVIOUS
  <1>4. tx'[w] = new
    BY <1>1, <1>3
  <1>5. SameRequest(w) /\ tx'[w].pc = tx[w].pc /\ tx'[w].todo = todo
    BY <1>1, <1>4 DEF SameRequest, Transaction
  <1> HIDE DEF new
  <1>. QED
    BY <1>1, <1>2, <1>3, <1>5

LEMMA SameTold ==
    ASSUME NEW w \in Worker, SameRequest(w), UNCHANGED tables
    PROVE  /\ Target(w)' = Target(w) /\ May(w)' = May(w) /\ Row(w)' = Row(w)
           /\ UpdateAllowed(w)' = UpdateAllowed(w) /\ ArchiveAllowed(w)' = ArchiveAllowed(w)
           /\ EditAllowed(w)' = EditAllowed(w) /\ CancelAllowed(w)' = CancelAllowed(w)
           /\ AskedOK(w)' = AskedOK(w) /\ SeenOK(w)' = SeenOK(w)
  <1>1. Target(w)' = Target(w)
    BY DEF SameRequest, Target
  <1>2. May(w)' = May(w) /\ Row(w)' = Row(w)
    BY <1>1 DEF SameRequest, May, IsMember, IsAssignee, Row, tables
  <1>3. /\ UpdateAllowed(w)' = UpdateAllowed(w) /\ ArchiveAllowed(w)' = ArchiveAllowed(w)
        /\ EditAllowed(w)' = EditAllowed(w) /\ CancelAllowed(w)' = CancelAllowed(w)
    BY <1>2 DEF SameRequest, UpdateAllowed, ArchiveAllowed, EditAllowed, CancelAllowed, tables
  <1>4. AskedOK(w)' = AskedOK(w) /\ SeenOK(w)' = SeenOK(w)
    BY DEF SameRequest, AskedOK, SeenOK, tables
  <1>. QED
    BY <1>1, <1>2, <1>3, <1>4

\* What Decide asks is what a handler later relies on.
LEMMA DecideGood ==
    ASSUME IndInv, NEW w \in Worker, Decide(w)
    PROVE  Good(w)
  <1> DEFINE pc == IF tx[w].op \in OnMembers THEN "bump" ELSE "write"
  <1>1. /\ tx[w].pc = "lock" /\ tx[w].todo = <<>> /\ Allowed(w)
        /\ Goto(w, pc) /\ UNCHANGED <<tables, locks, requests>>
    BY DEF Decide
  <1>2. pc \in {"bump", "write"} /\ Told(w) /\ TypeOK
    BY DEF IndInv, Told
  <1> HIDE DEF pc
  <1>3. /\ tx' \in [Worker -> Transaction] /\ \A v \in Worker \ {w} : tx'[v] = tx[v]
        /\ SameRequest(w) /\ tx'[w].pc = pc /\ tx'[w].todo = tx[w].todo
    BY <1>1, <1>2, PcMoves
  <1>4. Told(w)'
    <2>1. /\ May(w)
          /\ tx[w].op = "update"  => UpdateAllowed(w)
          /\ tx[w].op = "archive" => ArchiveAllowed(w)
          /\ tx[w].op \in {"add", "share", "open"} => Row(w).status # "ARCHIVED"
          /\ tx[w].op = "edit"    => EditAllowed(w)
          /\ tx[w].op = "cancel"  => CancelAllowed(w)
      BY <1>1 DEF Allowed, AddAllowed, ShareAllowed, OpenAllowed
    <2>2. DecidedOK(w)'
      BY <1>1, <1>3, <2>1, SameTold DEF DecidedOK, SameRequest
    <2>3. LocksOK(w)'
      BY <1>1, <1>2, <1>3, SameTold DEF Told, LocksOK, SameRequest, tables, locks
    <2>. QED
      BY <1>1, <1>2, <1>3, <2>2, <2>3, SameTold DEF Told, SameRequest
  <1>. QED
    BY <1>1, <1>3, <1>4, QuietGood DEF IndInv, TypeOK, tables, locks

LEMMA LockUserGood ==
    ASSUME IndInv, NEW w \in Worker, LockUser(w)
    PROVE  Good(w)
  <1>1. /\ tx[w].pc = "bump" /\ userLock' = [userLock EXCEPT ![tx[w].u] = w]
        /\ Goto(w, "write") /\ UNCHANGED <<tables, projectLock, taskLock, requests>>
    BY DEF LockUser
  <1>2. Told(w) /\ TypeOK
    BY DEF IndInv, Told
  <1>3. /\ tx' \in [Worker -> Transaction] /\ \A v \in Worker \ {w} : tx'[v] = tx[v]
        /\ SameRequest(w) /\ tx'[w].pc = "write" /\ tx'[w].todo = tx[w].todo
    BY <1>1, <1>2, PcMoves
  <1>4. Told(w)'
    <2>2. DecidedOK(w)'
      BY <1>1, <1>2, <1>3, SameTold DEF Told, DecidedOK, SameRequest
    <2>3. LocksOK(w)'
      BY <1>1, <1>2, <1>3, SameTold DEF Told, LocksOK, SameRequest, tables
    <2>. QED
      BY <1>1, <1>2, <1>3, <2>2, <2>3, SameTold DEF Told, SameRequest
  <1>5. userLock' \in [User -> Worker \cup {NoWorker}]
    BY <1>1, <1>2 DEF TypeOK
  <1>. QED
    BY <1>1, <1>3, <1>4, <1>5, QuietGood DEF IndInv, TypeOK

\* The locks are taken in their order, a task before its project.
LEMMA LockProjectGood ==
    ASSUME IndInv, NEW w \in Worker, LockProject(w)
    PROVE  Good(w)
  <1> DEFINE q == Target(w)
  <1>1. /\ tx[w].pc = "lock" /\ tx[w].todo # <<>> /\ Head(tx[w].todo) = "project"
        /\ Free(projectLock[q], w) /\ projectLock' = [projectLock EXCEPT ![q] = w]
        /\ tx' = [tx EXCEPT ![w].todo = Tail(tx[w].todo)]
        /\ UNCHANGED <<tables, taskLock, userLock, requests>>
    BY DEF LockProject
  <1>2. Told(w) /\ TypeOK /\ q \in Project /\ tx[w].todo \in Seq({"task", "project"})
    BY TargetTyped DEF IndInv, Told, Transaction
  <1>3. Tail(tx[w].todo) \in Seq({"task", "project"})
    BY <1>1, <1>2
  <1> DEFINE rest == Tail(tx[w].todo)
  <1>4. /\ tx' \in [Worker -> Transaction] /\ \A v \in Worker \ {w} : tx'[v] = tx[v]
        /\ SameRequest(w) /\ tx'[w].pc = tx[w].pc /\ tx'[w].todo = rest
    BY <1>1, <1>2, <1>3, TodoMoves
  <1>5. projectLock' \in [Project -> Worker \cup {NoWorker}] /\ projectLock'[q] = w
        /\ \A p \in Project : p # q => projectLock'[p] = projectLock[p]
    BY <1>1, <1>2 DEF TypeOK
  <1>6. Told(w)'
    <2>1. DecidedOK(w)'
      BY <1>1, <1>4 DEF DecidedOK
    <2>2. tx[w].op \in OnProject \cup {"open"} => tx[w].todo = <<"project">>
      BY <1>1, <1>2 DEF Told, LocksOK
    <2>3. tx[w].op \in OnTask => tx[w].todo = <<"project">> /\ taskLock[tx[w].t] = w
      <3>1. Head(<<"task", "project">>) = "task"
        OBVIOUS
      <3>. QED
        BY <1>1, <1>2, <3>1 DEF Told, LocksOK
    <2>4. Tail(<<"project">>) = <<>>
      OBVIOUS
    <2>5. LocksOK(w)'
      <3> HIDE DEF q, rest
      <3>1. Target(w)' = q /\ tx'[w].op = tx[w].op /\ tx'[w].t = tx[w].t
        BY <1>1, <1>4, SameTold DEF SameRequest, q
      <3>2. tx[w].op \in OnProject \cup OnTask \cup {"open"} => rest = <<>>
        BY <2>2, <2>3, <2>4 DEF rest
      <3>3. /\ tx[w].op \in OnProject \cup {"open"} => project[q].status # "none"
            /\ tx[w].op \in OnTask => task[tx[w].t].status # "none"
        BY <1>2 DEF Told, LocksOK, q
      <3>4. project' = project /\ task' = task /\ taskLock' = taskLock
        BY <1>1 DEF tables
      <3>. QED
        BY <1>4, <1>5, <2>3, <3>1, <3>2, <3>3, <3>4 DEF LocksOK
    <2>. QED
      BY <1>1, <1>2, <1>4, <2>1, <2>5, SameTold DEF Told, SameRequest
  <1>7. \A p \in Project : projectLock[p] \notin {w, NoWorker} => projectLock'[p] = projectLock[p]
    BY <1>1, <1>5 DEF Free
  <1>. QED
    BY <1>1, <1>4, <1>5, <1>6, <1>7, QuietGood DEF IndInv, TypeOK

LEMMA LockTaskGood ==
    ASSUME IndInv, NEW w \in Worker, LockTask(w)
    PROVE  Good(w)
  <1> DEFINE t == tx[w].t
  <1>1. /\ tx[w].pc = "lock" /\ tx[w].todo # <<>> /\ Head(tx[w].todo) = "task"
        /\ Free(taskLock[t], w) /\ taskLock' = [taskLock EXCEPT ![t] = w]
        /\ tx' = [tx EXCEPT ![w].todo = Tail(tx[w].todo)]
        /\ UNCHANGED <<tables, projectLock, userLock, requests>>
    BY DEF LockTask
  <1>2. Told(w) /\ TypeOK /\ t \in Task /\ tx[w].todo \in Seq({"task", "project"})
    BY TargetTyped DEF IndInv, Told, Transaction
  <1>3. Tail(tx[w].todo) \in Seq({"task", "project"})
    BY <1>1, <1>2
  <1> DEFINE rest == Tail(tx[w].todo)
  <1>4. /\ tx' \in [Worker -> Transaction] /\ \A v \in Worker \ {w} : tx'[v] = tx[v]
        /\ SameRequest(w) /\ tx'[w].pc = tx[w].pc /\ tx'[w].todo = rest
    BY <1>1, <1>2, <1>3, TodoMoves
  <1>5. taskLock' \in [Task -> Worker \cup {NoWorker}] /\ taskLock'[t] = w
        /\ \A x \in Task : x # t => taskLock'[x] = taskLock[x]
    BY <1>1, <1>2 DEF TypeOK
  <1>6. Told(w)'
    <2>1. DecidedOK(w)'
      BY <1>1, <1>4 DEF DecidedOK
    <2>2. Head(<<"project">>) = "project"
      OBVIOUS
    <2>3. tx[w].op \notin OnProject \cup {"open"}
      BY <1>1, <1>2, <2>2 DEF Told, LocksOK
    <2>4. tx[w].op \in OnTask => rest = <<"project">> /\ task[t].status # "none"
      <3>1. Tail(<<"task", "project">>) = <<"project">>
        OBVIOUS
      <3>. QED
        BY <1>1, <1>2, <2>2, <3>1 DEF Told, LocksOK
    <2>5. LocksOK(w)'
      <3> HIDE DEF t, rest
      <3>1. tx'[w].op = tx[w].op /\ tx'[w].t = t
        BY <1>4 DEF SameRequest, t
      <3>2. task' = task
        BY <1>1 DEF tables
      <3>. QED
        BY <1>4, <1>5, <2>3, <2>4, <3>1, <3>2 DEF LocksOK
    <2>. QED
      BY <1>1, <1>2, <1>4, <2>1, <2>5, SameTold DEF Told, SameRequest
  <1>7. \A x \in Task : taskLock[x] \notin {w, NoWorker} => taskLock'[x] = taskLock[x]
    BY <1>1, <1>5 DEF Free
  <1>. QED
    BY <1>1, <1>4, <1>5, <1>6, <1>7, QuietGood DEF IndInv, TypeOK

\* A request names rows that are there, in the state its client saw.
LEMMA ArriveGood ==
    ASSUME IndInv, NEW w \in Worker, NEW a \in User, NEW op \in Operation, Arrive(w, a, op)
    PROVE  Good(w)
  <1>1. TypeOK
    BY DEF IndInv
  <1>2. PICK x \in About(op), b \in Body(op) :
           LET row == IF op \in OnTask THEN task[x[2]] ELSE project[x[1]]
           IN  \E v \in Versions(op, row) :
               tx' = [tx EXCEPT ![w] =
                        [op |-> op, pc |-> "lock", todo |-> Locks(op), actor |-> a,
                         p |-> x[1], t |-> x[2], u |-> b.u, c |-> b.c, ask |-> b.ask,
                         dept |-> b.dept, show |-> b.show, ver |-> v, saw |-> row]]
    BY DEF Arrive
  <1> DEFINE row == IF op \in OnTask THEN task[x[2]] ELSE project[x[1]]
  <1>3. PICK v \in Versions(op, row) :
           tx' = [tx EXCEPT ![w] =
                    [op |-> op, pc |-> "lock", todo |-> Locks(op), actor |-> a,
                     p |-> x[1], t |-> x[2], u |-> b.u, c |-> b.c, ask |-> b.ask,
                     dept |-> b.dept, show |-> b.show, ver |-> v, saw |-> row]]
    BY <1>2
  <1> DEFINE new == [op |-> op, pc |-> "lock", todo |-> Locks(op), actor |-> a,
                     p |-> x[1], t |-> x[2], u |-> b.u, c |-> b.c, ask |-> b.ask,
                     dept |-> b.dept, show |-> b.show, ver |-> v, saw |-> row]
  <1>4. x[1] \in Project /\ x[2] \in Task
    BY IdleTyped DEF About, Idle, Transaction
  <1>5. /\ op \in OnProject => project[x[1]].status # "none"
        /\ op = "open" => project[ProjectOf[x[2]]].status # "none"
        /\ op \in OnTask => task[x[2]].status # "none"
    <2>1. CASE op \in OnProject
      BY <2>1 DEF About, OnProject, OnTask
    <2>2. CASE op = "open"
      BY <2>2 DEF About, OnProject, OnTask
    <2>3. CASE op \in OnTask
      BY <2>3 DEF About, OnProject, OnTask
    <2>. QED
      BY <2>1, <2>2, <2>3
  <1>6. row \in ProjectRow \cup TaskRow /\ row.version \in Nat
    <2>1. CASE op \in OnTask
      BY <1>1, <1>4, <2>1 DEF TypeOK, TaskRow
    <2>2. CASE op \notin OnTask
      BY <1>1, <1>4, <2>2 DEF TypeOK, ProjectRow
    <2>. QED
      BY <2>1, <2>2
  <1>7. v \in Nat /\ (op \in {"update", "archive", "edit"} => v = row.version)
    <2> HIDE DEF row
    <2>. QED
      BY <1>6 DEF Versions
  <1>8. /\ b.u \in User /\ b.c \in Account
        /\ b.ask \in ProjectStatus \cup TaskStatus \cup {Unsaid}
        /\ b.dept \in Place /\ b.show \in BOOLEAN
        /\ op = "update" => b.ask \in ProjectStatus \cup {Unsaid}
        /\ op = "edit" => b.ask \in TaskStatus \cup {Unsaid}
    <2>1. b.u \in User /\ b.c \in Account
      BY DEF Body, AnyUser, AnyAccount
    <2>2. /\ b.ask \in ProjectStatus \cup TaskStatus \cup {Unsaid}
          /\ op = "update" => b.ask \in ProjectStatus \cup {Unsaid}
          /\ op = "edit" => b.ask \in TaskStatus \cup {Unsaid}
      BY DEF Body
    <2>3. b.dept \in Place /\ b.show \in BOOLEAN
      BY DEF Body, Place
    <2>. QED
      BY <2>1, <2>2, <2>3
  <1>9. /\ Locks(op) \in Seq({"task", "project"})
        /\ op \in OnProject \cup {"open"} => Locks(op) = <<"project">>
        /\ op \in OnTask => Locks(op) = <<"task", "project">>
    <2>1. /\ <<>> \in Seq({"task", "project"}) /\ <<"project">> \in Seq({"task", "project"})
          /\ <<"task", "project">> \in Seq({"task", "project"})
      OBVIOUS
    <2>2. Locks(op) \in {<<>>, <<"project">>, <<"task", "project">>}
      BY Zenon DEF Locks
    <2>3. op \in OnProject \cup {"open"} => Locks(op) = <<"project">>
      BY DEF Locks, OnProject
    <2>4. op \in OnTask => Locks(op) = <<"task", "project">>
      BY DEF Locks, OnProject, OnTask
    <2>. QED
      BY <2>1, <2>2, <2>3, <2>4
  <1>10. new \in Transaction
    <2>1. op \in Operation \cup {"idle"}
      OBVIOUS
    <2> HIDE DEF row
    <2>. QED
      BY <1>4, <1>6, <1>7, <1>8, <1>9, <2>1 DEF Transaction
  <1>11. /\ tx' \in [Worker -> Transaction] /\ tx'[w] = new
         /\ \A u \in Worker \ {w} : tx'[u] = tx[u]
    <2>1. tx' = [tx EXCEPT ![w] = new]
      BY <1>3
    <2> HIDE DEF new
    <2>. QED
      BY <1>1, <1>10, <2>1 DEF TypeOK
  <1>12. /\ tx'[w].op = op /\ tx'[w].pc = "lock" /\ tx'[w].todo = Locks(op)
         /\ tx'[w].p = x[1] /\ tx'[w].t = x[2] /\ tx'[w].ask = b.ask
         /\ tx'[w].ver = v /\ tx'[w].saw = row
    BY <1>11
  <1>13. UNCHANGED <<tables, locks>> /\ requests' = requests + 1
    BY DEF Arrive
  <1>14. Told(w)'
    <2> HIDE DEF row, new
    <2>1. op # "idle"
      BY DEF Operation, OnProject, OnTask
    <2>2. LocksOK(w)'
      <3>1. /\ op \in OnProject => Target(w)' = x[1]
            /\ op = "open" => Target(w)' = ProjectOf[x[2]]
        BY <1>12 DEF Target, OnProject, OnTask
      <3>2. project' = project /\ task' = task
        BY <1>13 DEF tables
      <3>. QED
        BY <1>5, <1>9, <1>12, <3>1, <3>2 DEF LocksOK, OnTask, OnProject
    <2>3. AskedOK(w)' /\ DecidedOK(w)'
      BY <1>8, <1>12 DEF AskedOK, DecidedOK
    <2>4. SeenOK(w)'
      <3>1. /\ op \in {"update", "archive"} => row = project[x[1]]
            /\ op = "edit" => row = task[x[2]]
        BY DEF row, OnTask
      <3>2. project' = project /\ task' = task
        BY <1>13 DEF tables
      <3>. QED
        BY <1>6, <1>7, <1>12, <3>1, <3>2 DEF SeenOK
    <2>. QED
      BY <1>12, <2>1, <2>2, <2>3, <2>4 DEF Told
  <1>15. requests' \in Nat
    BY <1>1, <1>13 DEF TypeOK
  <1>. QED
    BY <1>1, <1>11, <1>13, <1>14, <1>15, QuietGood DEF TypeOK, locks

\* A client account that goes takes nothing of what was decided with it, except
\* that it was active.
LEMMA AccountGone ==
    ASSUME IndInv, NEW c \in Account, AccountArchived(c)
    PROVE  IndInv'
  <1>1. /\ UNCHANGED <<project, member, shared, task, assignee, version, tx, requests>>
        /\ UNCHANGED <<projectLock, taskLock, userLock>> /\ account' = account \ {c}
    BY DEF AccountArchived, locks
  <1>2. TypeOK' /\ RowsOK'
    BY <1>1 DEF IndInv, TypeOK, RowsOK
  <1>3. ASSUME NEW v \in Worker PROVE Told(v)'
    <2>1. Keeps(v)
      BY <1>1, SameKeeps DEF IndInv, Keeps
    <2>. QED
      BY <1>2, <2>1, KeptForV
  <1>. QED
    BY <1>2, <1>3 DEF IndInv, Told

-----------------------------------------------------------------------------
(* The invariant.                                                            *)

LEMMA GoodIsEnough ==
    ASSUME IndInv, NEW w \in Worker, Good(w)
    PROVE  IndInv'
  <1>1. ASSUME NEW v \in Worker PROVE Told(v)'
    <2>1. CASE v = w
      BY <2>1 DEF Good
    <2>2. CASE v # w
      BY <2>2, KeptForV DEF Good
    <2>. QED
      BY <2>1, <2>2
  <1>. QED
    BY <1>1 DEF Good, IndInv, Told

LEMMA InitInv == Init => IndInv
  <1> SUFFICES ASSUME Init PROVE IndInv
    OBVIOUS
  <1> USE DEF Init
  <1>1. /\ NoProjectRow \in ProjectRow /\ NoProjectRow.status = "none"
        /\ NoProjectRow.archived = FALSE /\ NoProjectRow.finished = FALSE
    BY DEF NoProjectRow, ProjectRow, Place
  <1>2. NoTaskRow \in TaskRow /\ NoTaskRow.finished = FALSE /\ NoTaskRow.status = "none"
    BY DEF NoTaskRow, TaskRow
  <1>3. ASSUME NEW p \in Project
        PROVE  LET row == [NoProjectRow EXCEPT !.status = "ACTIVE", !.dept = Home[p]]
               IN  row \in ProjectRow /\ Dated(row) /\ row.status = "ACTIVE"
    <2> DEFINE r1 == [NoProjectRow EXCEPT !.status = "ACTIVE"]
               r2 == [r1 EXCEPT !.dept = Home[p]]
    <2>1. /\ r1 \in ProjectRow /\ r1.status = "ACTIVE"
          /\ r1.archived = FALSE /\ r1.finished = FALSE
      BY <1>1 DEF ProjectRow, ProjectStatus
    <2>2. /\ r2 \in ProjectRow /\ r2.status = r1.status
          /\ r2.archived = r1.archived /\ r2.finished = r1.finished
      <3> HIDE DEF r1
      <3>. QED
        BY <2>1 DEF ProjectRow
    <2>3. Dated(r2) /\ r2.status = "ACTIVE"
      <3> HIDE DEF r1, r2
      <3>. QED
        BY <2>1, <2>2 DEF Dated
    <2>. QED
      BY <2>2, <2>3, Zenon
  <1>4. LET row == [NoTaskRow EXCEPT !.status = "TODO"]
        IN  row \in TaskRow /\ row.finished = FALSE /\ row.status = "TODO"
    BY <1>2 DEF TaskRow, TaskStatus
  <1>5. /\ project \in [Project -> ProjectRow]
        /\ \A p \in Project : /\ Dated(project[p])
                              /\ p \in Begun => project[p].status # "none"
    <2>1. ASSUME NEW p \in Project
          PROVE  /\ project[p] \in ProjectRow
                 /\ Dated(project[p])
                 /\ p \in Begun => project[p].status # "none"
      <3>1. CASE p \in Begun
        <4> DEFINE row == [NoProjectRow EXCEPT !.status = "ACTIVE", !.dept = Home[p]]
        <4>1. project[p] = row
          BY <3>1
        <4>2. row \in ProjectRow /\ Dated(row) /\ row.status = "ACTIVE"
          BY <1>3
        <4> HIDE DEF row
        <4>. QED
          BY <4>1, <4>2
      <3>2. CASE p \notin Begun
        <4>1. project[p] = NoProjectRow
          BY <3>2
        <4>. QED
          BY <3>2, <4>1, <1>1 DEF Dated
      <3>. QED
        BY <3>1, <3>2
    <2>2. project = [p \in Project |-> project[p]]
      OBVIOUS
    <2>. QED
      <3> HIDE DEF Init
      <3>. QED
        BY <2>1, <2>2
  <1>6. /\ task \in [Task -> TaskRow]
        /\ \A t \in Task : /\ task[t].finished = (task[t].status = "DONE")
                           /\ task[t].status # "none" => t \in Opened
    <2>1. ASSUME NEW t \in Task
          PROVE  /\ task[t] \in TaskRow
                 /\ task[t].finished = (task[t].status = "DONE")
                 /\ task[t].status # "none" => t \in Opened
      <3>1. CASE t \in Opened
        <4> DEFINE row == [NoTaskRow EXCEPT !.status = "TODO"]
        <4>1. task[t] = row
          BY <3>1
        <4>2. row \in TaskRow /\ row.finished = FALSE /\ row.status = "TODO"
          BY <1>4
        <4> HIDE DEF row
        <4>. QED
          BY <3>1, <4>1, <4>2
      <3>2. CASE t \notin Opened
        <4>1. task[t] = NoTaskRow
          BY <3>2
        <4>. QED
          BY <3>2, <4>1, <1>2
      <3>. QED
        BY <3>1, <3>2
    <2>2. task = [t \in Task |-> task[t]]
      OBVIOUS
    <2>. QED
      <3> HIDE DEF Init
      <3>. QED
        BY <2>1, <2>2
  <1>7. TypeOK
    BY <1>5, <1>6, IdleTyped DEF TypeOK
  <1>8. RowsOK
    BY <1>5, <1>6 DEF RowsOK
  <1>9. ASSUME NEW w \in Worker
        PROVE  /\ tx[w].pc = "idle" <=> tx[w].op = "idle"
               /\ LocksOK(w) /\ DecidedOK(w) /\ AskedOK(w) /\ SeenOK(w)
    BY IdleTyped DEF LocksOK, DecidedOK, AskedOK, SeenOK, OnProject, OnTask
  <1>. QED
    BY <1>7, <1>8, <1>9 DEF IndInv

LEMMA HandlerGood ==
    ASSUME IndInv, NEW w \in Worker, Handler(w)
    PROVE  Good(w)
  <1>1. CASE LockTask(w)
    BY <1>1, LockTaskGood
  <1>2. CASE LockProject(w)
    BY <1>2, LockProjectGood
  <1>3. CASE Decide(w)
    BY <1>3, DecideGood
  <1>4. CASE Refuse(w)
    BY <1>4, RefuseGood
  <1>5. CASE LockUser(w)
    BY <1>5, LockUserGood
  <1>6. CASE Create(w)
    BY <1>6, CreateGood
  <1>7. CASE Update(w) \/ Archive(w)
    BY <1>7, ProjectWritesGood
  <1>8. CASE AddMember(w) \/ RemoveMember(w)
    BY <1>8, MembersGood
  <1>9. CASE ShareWithClient(w) \/ UnshareFromClient(w)
    BY <1>9, LinksGood
  <1>10. CASE OpenTask(w)
    BY <1>10, OpenGood
  <1>11. CASE EditTask(w) \/ CancelTask(w)
    BY <1>11, TaskWritesGood
  <1>12. CASE AssignTask(w) \/ UnassignTask(w)
    BY <1>12, AssigneesGood
  <1>. QED
    BY <1>1, <1>2, <1>3, <1>4, <1>5, <1>6, <1>7, <1>8, <1>9, <1>10, <1>11, <1>12 DEF Handler

LEMMA NextInv == IndInv /\ [Next]_vars => IndInv'
  <1> SUFFICES ASSUME IndInv, [Next]_vars PROVE IndInv'
    OBVIOUS
  <1>1. CASE \E w \in Worker, a \in User, op \in Operation : Arrive(w, a, op)
    BY <1>1, ArriveGood, GoodIsEnough
  <1>2. CASE \E w \in Worker : Handler(w)
    BY <1>2, HandlerGood, GoodIsEnough
  <1>3. CASE \E c \in Account : AccountArchived(c)
    BY <1>3, AccountGone
  <1>4. CASE UNCHANGED vars
    <2>1. TypeOK' /\ RowsOK'
      BY <1>4 DEF IndInv, TypeOK, RowsOK, vars, tables, locks
    <2>2. \A v \in Worker : Keeps(v)
      BY <1>4, SameKeeps DEF IndInv, Keeps, vars, tables, locks
    <2>3. \A v \in Worker : Told(v)'
      BY <2>1, <2>2, KeptForV
    <2>. QED
      BY <2>1, <2>3 DEF IndInv, Told
  <1>. QED
    BY <1>1, <1>2, <1>3, <1>4 DEF Next

\* The types, the rows that the CHECK constraints and the foreign key allow, the
\* locks that each handler has and what it may rely on under them
\* (find_for_update, load_context_for_update).
THEOREM WorkInvariant == Spec => []IndInv
  <1>1. Init => IndInv
    BY InitInv
  <1>2. IndInv /\ [Next]_vars => IndInv'
    BY NextInv
  <1>. QED
    BY <1>1, <1>2, PTL DEF Spec

-----------------------------------------------------------------------------
(* What the writes may do.                                                   *)

\* A step of a handler that writes nothing.
LEMMA WritesNothing ==
    ASSUME NEW w \in Worker,
           \/ LockTask(w) \/ LockProject(w) \/ Decide(w) \/ Refuse(w) \/ LockUser(w)
    PROVE  UNCHANGED tables
  BY DEF LockTask, LockProject, Decide, Refuse, LockUser

\* What an archived project does not gain.
Gains(p) ==
    \/ Outcome(project'[p]) # Outcome(project[p])
    \/ ~(member'[p] \subseteq member[p])
    \/ ~(shared'[p] \subseteq shared[p])
    \/ ~(TasksOf(p)' \subseteq TasksOf(p))

LEMMA NothingGained ==
    ASSUME IndInv, [Next]_vars, NEW p \in Project, project[p].status = "ARCHIVED"
    PROVE  ~Gains(p)
  <1>5. project[p] \in ProjectRow /\ Dated(project[p])
    BY DEF IndInv, TypeOK, RowsOK
  <1>1. CASE UNCHANGED tables
    BY <1>1 DEF Gains, tables, TasksOf
  <1>2. CASE \E w \in Worker : \E a \in User, op \in Operation : Arrive(w, a, op)
    BY <1>1, <1>2 DEF Arrive
  <1>3. CASE \E c \in Account : AccountArchived(c)
    BY <1>3 DEF AccountArchived, Gains, TasksOf
  <1>4. ASSUME NEW w \in Worker, Handler(w)
        PROVE  ~Gains(p)
    <2>1. /\ tx[w].p \in Project /\ tx[w].t \in Task /\ TypeOK
          /\ tx[w].op \in OnProject => Target(w) = tx[w].p
          /\ tx[w].op \in OnTask \cup {"open"} => Target(w) = ProjectOf[tx[w].t]
      BY TargetTyped DEF IndInv
    <2>2. CASE LockTask(w) \/ LockProject(w) \/ Decide(w) \/ Refuse(w) \/ LockUser(w)
      BY <1>1, <2>2, WritesNothing
    <2>3. CASE Create(w)
      <3>1. project[tx[w].p].status = "none"
        BY <2>3 DEF Create, InsertProject
      <3>2. project'[p] = project[p]
        BY <2>1, <2>3, <3>1 DEF Create, InsertProject, TypeOK
      <3>. QED
        BY <2>3, <3>2 DEF Create, Gains, TasksOf
    <2>4. CASE Archive(w)
      <3>1. /\ tx[w].pc = "write" /\ tx[w].op = "archive"
            /\ UNCHANGED <<member, shared, task>>
        BY <2>4 DEF Archive, Writing
      <3>2. project[tx[w].p].status # "ARCHIVED"
        BY <2>1, <3>1, Writer DEF DecidedOK, ArchiveAllowed, Row, OnProject
      <3>3. project'[p] = project[p]
        BY <2>1, <2>4, <3>2 DEF Archive, WriteProject, TypeOK
      <3>. QED
        BY <3>1, <3>3 DEF Gains, TasksOf
    <2>10. CASE Update(w)
      <3>1. /\ tx[w].pc = "write" /\ tx[w].op = "update" /\ tx[w].p \in Project
            /\ UNCHANGED <<member, shared, task>> /\ tx[w].dept \in Place
        BY <2>1, <2>10 DEF Update, Writing, TypeOK, Transaction
      <3>2. tx[w].p = p => tx[w].ask = Unsaid
        BY <2>1, <3>1, Writer DEF DecidedOK, UpdateAllowed, ProjectMayBecome, Row, OnProject,
                                  IndInv, AskedOK, ProjectStatus
      <3> DEFINE row == [ProjectBecomes(project[p], "ARCHIVED") EXCEPT !.dept = tx[w].dept]
      <3>3. project'[p] \in {project[p], row}
        BY <2>1, <2>10, <3>1, <3>2 DEF Update, WriteProject, Row, NextStatus, TypeOK, OnProject
      <3>4. row \in ProjectRow /\ row.status = "ARCHIVED" /\ Dated(row)
        <4>1. project[p] \in ProjectRow /\ "ARCHIVED" \in ProjectStatus
          BY <2>1 DEF TypeOK, ProjectStatus
        <4>. QED
          BY <3>1, <4>1, MovesTyped
      <3> HIDE DEF row
      <3>5. project'[p] \in ProjectRow /\ project'[p].status = "ARCHIVED" /\ Dated(project'[p])
        BY <1>5, <3>3, <3>4
      <3>6. Outcome(project'[p]) = Outcome(project[p])
        BY <1>5, <3>5 DEF Outcome, Dated
      <3>. QED
        BY <3>1, <3>6 DEF Gains, TasksOf
    <2>5. CASE AddMember(w) \/ ShareWithClient(w)
      <3>1. /\ tx[w].pc = "write" /\ tx[w].op \in {"add", "share"}
            /\ UNCHANGED <<project, task>>
        BY <2>5 DEF AddMember, ShareWithClient, Writing
      <3>2. project[tx[w].p].status # "ARCHIVED"
        BY <2>1, <3>1, Writer DEF DecidedOK, Row, OnProject
      <3>3. member'[p] = member[p] /\ shared'[p] = shared[p]
        BY <2>1, <2>5, <3>2 DEF AddMember, ShareWithClient, InsertMember, InsertLink, TypeOK
      <3>. QED
        BY <3>1, <3>3 DEF Gains, TasksOf
    <2>6. CASE RemoveMember(w) \/ UnshareFromClient(w)
      <3>1. member'[p] \subseteq member[p] /\ shared'[p] \subseteq shared[p]
        <4>1. CASE RemoveMember(w)
          <5>1. member'[p] \in {member[p], member[p] \ {tx[w].u}} /\ shared' = shared
            BY <2>1, <4>1 DEF RemoveMember, CloseMember, TypeOK
          <5>. QED
            BY <5>1
        <4>2. CASE UnshareFromClient(w)
          <5>1. shared'[p] \in {shared[p], shared[p] \ {tx[w].c}} /\ member' = member
            BY <2>1, <4>2 DEF UnshareFromClient, CloseLink, TypeOK
          <5>. QED
            BY <5>1
        <4>. QED
          BY <2>6, <4>1, <4>2
      <3>. QED
        BY <2>6, <3>1 DEF RemoveMember, UnshareFromClient, Gains, TasksOf
    <2>7. CASE OpenTask(w)
      <3>1. tx[w].pc = "write" /\ tx[w].op = "open"
        BY <2>7 DEF OpenTask, Writing
      <3>2. project[ProjectOf[tx[w].t]].status # "ARCHIVED"
        BY <2>1, <3>1, Writer DEF DecidedOK, Row
      <3>3. \A t \in Task : ProjectOf[t] = p => task'[t] = task[t]
        BY <2>1, <2>7, <3>2 DEF OpenTask, InsertTask, TypeOK
      <3>. QED
        BY <2>7, <3>3 DEF OpenTask, Gains, TasksOf
    <2>8. CASE EditTask(w) \/ CancelTask(w)
      <3>1. /\ tx[w].pc = "write" /\ tx[w].op \in OnTask
            /\ UNCHANGED <<project, member, shared>>
        BY <2>8 DEF EditTask, CancelTask, Writing, OnTask
      <3>2. task[tx[w].t].status # "none"
        BY <3>1, Writer
      <3>3. \A t \in Task : t # tx[w].t => task'[t] = task[t]
        BY <2>1, <2>8 DEF EditTask, CancelTask, WriteTask, TypeOK
      <3>. QED
        BY <3>1, <3>2, <3>3 DEF Gains, TasksOf
    <2>9. CASE AssignTask(w) \/ UnassignTask(w)
      BY <2>9 DEF AssignTask, UnassignTask, Gains, TasksOf
    <2>. QED
      BY <1>4, <2>2, <2>3, <2>4, <2>5, <2>6, <2>7, <2>8, <2>9, <2>10 DEF Handler
  <1>. QED
    BY <1>1, <1>2, <1>3, <1>4 DEF Next, vars

\* An archived project gains nothing, whatever was decided before it was
\* archived: no member, no task, no client.  An update that names no status may
\* move it and raise its version, and leaves it archived
\* (projects::add_member, share_with_client, tasks::create, projects::update).
THEOREM NothingJoinsTheArchive == Spec => ArchivedGainsNothing
  <1>1. IndInv /\ [Next]_vars =>
           [\A p \in Project :
               project[p].status = "ARCHIVED" =>
                  /\ Outcome(project'[p]) = Outcome(project[p])
                  /\ member'[p] \subseteq member[p]
                  /\ shared'[p] \subseteq shared[p]
                  /\ TasksOf(p)' \subseteq TasksOf(p)]_vars
    BY NothingGained DEF Gains
  <1>. QED
    BY <1>1, WorkInvariant, PTL DEF ArchivedGainsNothing, Spec

\* Who writes has, at the moment of the write, the authority that was decided on
\* (load_context_for_update; projects and tasks, require before every write).
THEOREM AuthorityAtTheWrite == Spec => WritersHaveAuthority
  <1>1. IndInv /\ [Next]_vars => [\A w \in Worker : Wrote(w) => May(w)]_vars
    BY Writer DEF Wrote
  <1>. QED
    BY <1>1, WorkInvariant, PTL DEF WritersHaveAuthority, Spec

\* An edit or an archiving replaces the row that its client saw, so of two that
\* started from the same version one is refused (the version checks of update and
\* archive, under the lock).
THEOREM NoBlindWrite == Spec => WritesOverWhatWasSeen
  <1>1. IndInv /\ [Next]_vars =>
           [\A w \in Worker :
               Wrote(w) =>
                  /\ tx[w].op \in {"update", "archive"} => tx[w].saw = project[tx[w].p]
                  /\ tx[w].op = "edit" => tx[w].saw = task[tx[w].t]]_vars
    <2> SUFFICES ASSUME IndInv, NEW w \in Worker, tx[w].pc = "write"
                 PROVE  /\ tx[w].op \in {"update", "archive"} => tx[w].saw = project[tx[w].p]
                        /\ tx[w].op = "edit" => tx[w].saw = task[tx[w].t]
      BY DEF Wrote
    <2>1. SeenOK(w) /\ DecidedOK(w) /\ (tx[w].op \in OnProject => Target(w) = tx[w].p)
      BY TargetTyped DEF IndInv
    <2>. QED
      BY <2>1 DEF SeenOK, DecidedOK, UpdateAllowed, ArchiveAllowed, EditAllowed, Row, OnProject
  <1>. QED
    BY <1>1, WorkInvariant, PTL DEF WritesOverWhatWasSeen, Spec

=============================================================================
