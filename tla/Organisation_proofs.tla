-------------------------- MODULE Organisation_proofs --------------------------
(***************************************************************************)
(* Proofs about Organisation, for any number of workers, units, projects   *)
(* and users and whatever is asked for.  The argument is the usual one of  *)
(* row locks: what a handler decided under its lock stays true until it    *)
(* ends (Keeps, KeptForV), because whoever else could change it waits.     *)
(***************************************************************************)
EXTENDS Organisation, TLAPS

USE OrganisationAssumption

-----------------------------------------------------------------------------
(* Ending a transaction.                                                     *)

LEMMA IdleTyped == Idle \in Transaction /\ Idle.op = "idle" /\ Idle.pc = "idle"
  <1>1. AnyUnit \in Unit
    BY DEF AnyUnit, Unit
  <1>2. AnyProject \in Project /\ AnyUser \in User
    BY DEF AnyProject, AnyUser
  <1>. QED
    BY <1>1, <1>2 DEF Idle, Transaction

\* The state of the locks and of the handlers after a commit or a rollback.
LEMMA Ended ==
    ASSUME IndInv, NEW w \in Worker, End(w)
    PROVE  /\ tx' \in [Worker -> Transaction] /\ tx'[w] = Idle
           /\ unitLock' \in [Unit -> Worker \cup {NoWorker}]
           /\ unitShare' \in [Unit -> SUBSET Worker]
           /\ projectLock' \in [Project -> Worker \cup {NoWorker}]
           /\ userLock' \in [User -> Worker \cup {NoWorker}]
           /\ invitationLock' \in [Invitee -> Worker \cup {NoWorker}]
           /\ SharesOK'
           /\ \A v \in Worker \ {w} :
                 /\ tx'[v] = tx[v]
                 /\ \A x \in Unit : unitLock[x] = v => unitLock'[x] = v
                 /\ \A x \in Unit : v \in unitShare[x] => v \in unitShare'[x]
                 /\ \A p \in Project : projectLock[p] = v => projectLock'[p] = v
                 /\ \A u \in Invitee : invitationLock[u] = v => invitationLock'[u] = v
  <1>1. tx' \in [Worker -> Transaction] /\ tx'[w] = Idle
    BY IdleTyped DEF IndInv, TypeOK, End
  <1>2. /\ unitLock' \in [Unit -> Worker \cup {NoWorker}]
        /\ unitShare' \in [Unit -> SUBSET Worker]
        /\ projectLock' \in [Project -> Worker \cup {NoWorker}]
        /\ userLock' \in [User -> Worker \cup {NoWorker}]
        /\ invitationLock' \in [Invitee -> Worker \cup {NoWorker}]
    BY DEF IndInv, TypeOK, End
  <1>3. SharesOK'
    BY DEF IndInv, TypeOK, SharesOK, End
  <1>4. ASSUME NEW v \in Worker \ {w}
        PROVE  /\ tx'[v] = tx[v]
               /\ \A x \in Unit : unitLock[x] = v => unitLock'[x] = v
               /\ \A x \in Unit : v \in unitShare[x] => v \in unitShare'[x]
               /\ \A p \in Project : projectLock[p] = v => projectLock'[p] = v
               /\ \A u \in Invitee : invitationLock[u] = v => invitationLock'[u] = v
    BY DEF IndInv, TypeOK, End
  <1>. QED
    BY <1>1, <1>2, <1>3, <1>4

-----------------------------------------------------------------------------
(* What the step of one handler leaves of what another one relies on.        *)

\* The invitation of whoever is accepting.
KeepsInvitation(v) ==
    tx[v].op = "accept" /\ tx[v].pc # "lock" =>
       /\ invitation'[tx[v].u] = invitation[tx[v].u]
       /\ tx[v].u \in known' => tx[v].u \in known

Keeps(v) ==
    /\ tx'[v] = tx[v]
    /\ KeepsInvitation(v)
    /\ tx[v].op = "accept" /\ tx[v].pc # "lock" => invitationLock'[tx[v].u] = v
    /\ \A x \in Unit :
          /\ unit[x].status # "none" => unit'[x].status # "none"
          /\ unitLock[x] = v => unitLock'[x] = v
          /\ unitLock[x] = v /\ unit[x].status # "none" =>
                /\ unit'[x].status = unit[x].status
                /\ x \in Department => LiveProjects(x)' \subseteq LiveProjects(x)
                /\ x \in Account => tie'[x] = tie[x]
          /\ v \in unitShare[x] => v \in unitShare'[x]
    /\ tx[v].op \in {"move", "finish"} /\ tx[v].pc # "lock" =>
          /\ projectLock'[tx[v].p] = projectLock[tx[v].p]
          /\ tx[v].p \in live'
          /\ site'[tx[v].p] = site[tx[v].p]

\* What a handler tells of itself.
Told(w) ==
    /\ tx[w].pc = "idle" <=> tx[w].op = "idle"
    /\ HeldOK(w) /\ DecidedOK(w)

LEMMA KeptForV ==
    ASSUME IndInv, NEW v \in Worker, Keeps(v)
    PROVE  Told(v)'
  <1>1. tx[v] \in Transaction /\ tx'[v] = tx[v] /\ tx[v].x \in Unit
    BY DEF IndInv, TypeOK, Keeps, Transaction
  <1>2. HeldOK(v) /\ DecidedOK(v) /\ (tx[v].pc = "idle" <=> tx[v].op = "idle")
    BY DEF IndInv
  <1>3. HeldOK(v)'
    BY <1>1, <1>2 DEF HeldOK, Keeps, KeepsInvitation, Kind, OnUnit, OnDepartment, OnAccount
  <1>4. DecidedOK(v)'
    <2>1. ASSUME tx[v].op \in OnUnit, tx[v].pc # "lock"
          PROVE  /\ unitLock[tx[v].x] = v /\ unit[tx[v].x].status # "none"
                 /\ tx[v].op = "archiveDepartment" => tx[v].x \in Department
                 /\ tx[v].op = "drop" => tx[v].x \in Account
      BY <1>2, <2>1 DEF HeldOK, OnUnit, OnDepartment, OnAccount, Kind
    <2>2. tx[v].op \in OnUnit \ {"leave", "drop"} /\ tx[v].pc \in {"bump", "write"} =>
             Status(v)' = "ACTIVE"
      BY <1>1, <1>2, <2>1 DEF DecidedOK, Status, Keeps
    <2>3. tx[v].op = "archiveDepartment" /\ tx[v].pc = "write" =>
             LiveProjects(tx[v].x)' = {}
      <3> SUFFICES ASSUME tx[v].op = "archiveDepartment", tx[v].pc = "write"
                   PROVE  LiveProjects(tx[v].x)' = {}
        OBVIOUS
      <3>1. tx[v].x \in Department /\ unitLock[tx[v].x] = v /\ unit[tx[v].x].status # "none"
        BY <2>1 DEF OnUnit, OnDepartment
      <3>2. LiveProjects(tx[v].x)' \subseteq LiveProjects(tx[v].x)
        BY <1>1, <3>1 DEF Keeps, LiveProjects
      <3>3. LiveProjects(tx[v].x) = {}
        BY <1>2 DEF DecidedOK
      <3>. QED
        BY <1>1, <3>2, <3>3 DEF LiveProjects
    <2>4. tx[v].op = "drop" /\ tx[v].pc \in {"bump", "write"} =>
             Tie(v)' \in {"PENDING", "ACTIVE"}
      BY <1>1, <1>2, <2>1 DEF DecidedOK, Tie, Keeps, OnUnit, OnAccount
    <2>5. tx[v].op \in {"begin", "move"} /\ tx[v].pc = "write" /\ tx[v].to # Nowhere =>
             \/ v \in unitShare'[tx[v].to]
             \/ tx[v].op = "move" /\ site'[tx[v].p] = tx[v].to
      BY <1>1, <1>2 DEF DecidedOK, Keeps, Transaction, Unit
    <2>6. tx[v].op = "accept" /\ tx[v].pc = "write" =>
             v \in unitShare'[Placement(v)'] /\ tx[v].u \notin known'
      <3> SUFFICES ASSUME tx[v].op = "accept", tx[v].pc = "write"
                   PROVE  v \in unitShare'[Placement(v)'] /\ tx[v].u \notin known'
        OBVIOUS
      <3>1. Placement(v)' = Placement(v) /\ tx[v].u \notin known'
        BY <1>1, <1>2 DEF Keeps, KeepsInvitation, Placement, DecidedOK
      <3>2. Placement(v) \in Unit
        BY <1>2 DEF HeldOK, IndInv, TypeOK, InvitationRow, Placement
      <3>. QED
        BY <1>2, <3>1, <3>2 DEF Keeps, DecidedOK
    <2>. QED
      BY <1>1, <2>2, <2>3, <2>4, <2>5, <2>6 DEF DecidedOK
  <1>. QED
    BY <1>1, <1>2, <1>3, <1>4 DEF Told

\* An idle handler has nothing to tell.
LEMMA ToldWhenIdle ==
    ASSUME NEW w \in Worker, tx'[w] = Idle
    PROVE  Told(w)'
  BY IdleTyped DEF Told, HeldOK, DecidedOK, OnUnit, OnDepartment, OnAccount, OnProject,
                   Inviting

\* What nobody touches is kept.
LEMMA InvitationsKept ==
    ASSUME people' = people
    PROVE  \A v \in Worker : KeepsInvitation(v)
  BY DEF people, KeepsInvitation

-----------------------------------------------------------------------------
(* Each action: what it leaves typed, what it keeps for the others, and what *)
(* it says of its own handler.                                               *)

\* A step that preserves the invariant, as the lemmas below show it.
Good(w) ==
    /\ TypeOK' /\ SharesOK' /\ Told(w)'
    /\ \A v \in Worker \ {w} : Keeps(v)
    /\ \A v \in Worker : FreshOK(v)'

\* Where no project appears and no handler turns to one, beginning projects
\* stay fresh.
LEMMA StillFresh ==
    ASSUME IndInv, live' \subseteq live,
           \A v \in Worker : \/ tx'[v].op = tx[v].op /\ tx'[v].p = tx[v].p
                             \/ tx'[v].op = "idle"
    PROVE  \A v \in Worker : FreshOK(v)'
  BY DEF IndInv, FreshOK, OnProject

\* A handler that ends without touching the projects.
LEMMA EndedFresh ==
    ASSUME IndInv, NEW w \in Worker, End(w), live' \subseteq live
    PROVE  \A v \in Worker : FreshOK(v)'
  <1>1. tx' \in [Worker -> Transaction] /\ tx'[w] = Idle
        /\ \A v \in Worker \ {w} : tx'[v] = tx[v]
    BY Ended
  <1>2. \A v \in Worker : \/ tx'[v].op = tx[v].op /\ tx'[v].p = tx[v].p
                          \/ tx'[v].op = "idle"
    BY <1>1, IdleTyped
  <1>. QED
    BY <1>2, StillFresh

\* Only a handler that holds the row of a unit writes it, and only one that
\* holds the row of a project.
LEMMA EndedKeeps ==
    ASSUME IndInv, NEW w \in Worker, End(w), TypeOK',
           live' \subseteq live,
           \A x \in Unit :
              /\ unit[x].status # "none" => unit'[x].status # "none"
              /\ unitLock[x] \notin {w, NoWorker} /\ unit[x].status # "none" =>
                    /\ unit'[x].status = unit[x].status
                    /\ x \in Account => tie'[x] = tie[x],
           \A p \in live : p \notin live' => projectLock[p] = w,
           site' = site,
           \A v \in Worker \ {w} : KeepsInvitation(v)
    PROVE  Good(w)
  <1>1. SharesOK' /\ Told(w)'
    BY Ended, ToldWhenIdle
  <1>2. \A v \in Worker : FreshOK(v)'
    BY EndedFresh
  <1>3. ASSUME NEW v \in Worker \ {w} PROVE Keeps(v)
    <2>1. /\ tx'[v] = tx[v]
          /\ \A x \in Unit : unitLock[x] = v => unitLock'[x] = v
          /\ \A x \in Unit : v \in unitShare[x] => v \in unitShare'[x]
          /\ \A p \in Project : projectLock[p] = v => projectLock'[p] = v
          /\ \A u \in Invitee : invitationLock[u] = v => invitationLock'[u] = v
      BY Ended
    <2>2. v # NoWorker /\ tx[v].p \in Project
      BY DEF IndInv, TypeOK, Transaction
    <2>3. ASSUME NEW x \in Unit
          PROVE  /\ unit[x].status # "none" => unit'[x].status # "none"
                 /\ unitLock[x] = v => unitLock'[x] = v
                 /\ unitLock[x] = v /\ unit[x].status # "none" =>
                       /\ unit'[x].status = unit[x].status
                       /\ x \in Department => LiveProjects(x)' \subseteq LiveProjects(x)
                       /\ x \in Account => tie'[x] = tie[x]
                 /\ v \in unitShare[x] => v \in unitShare'[x]
      BY <2>1, <2>2 DEF LiveProjects
    <2>4. tx[v].op \in {"move", "finish"} /\ tx[v].pc # "lock" =>
             /\ projectLock'[tx[v].p] = projectLock[tx[v].p]
             /\ tx[v].p \in live'
             /\ site'[tx[v].p] = site[tx[v].p]
      BY <2>1, <2>2 DEF IndInv, HeldOK
    <2>5. tx[v].op = "accept" /\ tx[v].pc # "lock" => invitationLock'[tx[v].u] = v
      BY <2>1 DEF IndInv, HeldOK
    <2>. QED
      BY <2>1, <2>3, <2>4, <2>5 DEF Keeps
  <1>. QED
    BY <1>1, <1>2, <1>3 DEF Good

LEMMA EndTypes ==
    ASSUME IndInv, NEW w \in Worker, End(w),
           unit' \in [Unit -> UnitRow], staff' \in [Department -> SUBSET User],
           tie' \in [Account -> [User -> TieStatus]],
           site' \in [Project -> Department \cup {Nowhere}],
           live' \subseteq Project, version' \in [User -> Nat],
           known' \subseteq User, invitation' \in [Invitee -> InvitationRow],
           requests' = requests
    PROVE  TypeOK'
  BY Ended DEF IndInv, TypeOK

LEMMA CreateGood ==
    ASSUME IndInv, NEW w \in Worker, CreateDepartment(w) \/ CreateClient(w)
    PROVE  Good(w)
  <1>1. tx[w].x \in Unit /\ unit[tx[w].x] \in UnitRow
    BY DEF IndInv, TypeOK, Transaction
  <1>2. unit' \in [Unit -> UnitRow]
    <2> DEFINE row == [unit[tx[w].x] EXCEPT !.status = "ACTIVE"]
    <2>1. row \in UnitRow
      BY <1>1 DEF UnitRow
    <2>2. unit' \in {unit, [unit EXCEPT ![tx[w].x] = row]}
      BY DEF CreateDepartment, CreateClient, NewUnit, NewAccount
    <2>. QED
      BY <2>1, <2>2 DEF IndInv, TypeOK
  <1>3. TypeOK'
    BY <1>2, EndTypes
       DEF IndInv, TypeOK, CreateDepartment, CreateClient, NewUnit, NewAccount, people
  <1>4. \A x \in Unit : /\ unit[x].status # "none" => unit'[x] = unit[x]
    BY <1>1 DEF IndInv, TypeOK, CreateDepartment, CreateClient, NewUnit, NewAccount
  <1>. QED
    BY <1>3, <1>4, EndedKeeps, InvitationsKept
       DEF CreateDepartment, CreateClient, NewUnit, NewAccount

LEMMA RaisedTyped ==
    ASSUME TypeOK, NEW w \in Worker, tx[w].u \in User
    PROVE  Raised(w) \in [User -> Nat]
  BY DEF TypeOK, Raised

\* A refusal only ends.
LEMMA RefusalGood ==
    ASSUME IndInv, NEW w \in Worker,
           Refuse(w) \/ RefuseProject(w) \/ RefuseInvitation(w)
    PROVE  Good(w)
  <1>1. End(w) /\ UNCHANGED <<tables, requests>>
    BY DEF Refuse, RefuseProject, RefuseInvitation
  <1>2. TypeOK'
    BY <1>1, EndTypes DEF IndInv, TypeOK, tables, people
  <1>. QED
    BY <1>1, <1>2, EndedKeeps, InvitationsKept DEF tables

\* The unit of a handler that is about to write is its own, and there.
LEMMA OwnUnit ==
    ASSUME IndInv, NEW w \in Worker, At(w, OnUnit, "write")
    PROVE  /\ unitLock[tx[w].x] = w /\ unit[tx[w].x].status # "none"
           /\ tx[w].x \in Kind(tx[w].op) /\ tx[w].x \in Unit /\ tx[w].u \in User
           /\ tx[w].op \notin {"leave", "drop"} => Status(w) = "ACTIVE"
           /\ unit[tx[w].x] \in UnitRow
  BY DEF IndInv, HeldOK, DecidedOK, At, TypeOK, Transaction

LEMMA UnitWritesGood ==
    ASSUME IndInv, NEW w \in Worker,
           UpdateDepartment(w) \/ UpdateClient(w) \/ ArchiveDepartment(w) \/ ArchiveClient(w)
    PROVE  Good(w)
  <1>1. At(w, OnUnit, "write")
    BY DEF UpdateDepartment, UpdateClient, ArchiveDepartment, ArchiveClient, At, OnUnit,
           OnDepartment, OnAccount, WriteAccount
  <1>2. PICK status \in {"ACTIVE", "ARCHIVED"} : WriteUnit(w, status)
    <2>1. tx[w].op \notin {"leave", "drop"}
      BY DEF UpdateDepartment, UpdateClient, ArchiveDepartment, ArchiveClient, At, WriteAccount
    <2>2. Status(w) = "ACTIVE"
      BY <1>1, <2>1, OwnUnit
    <2>. QED
      BY <2>2 DEF UpdateDepartment, UpdateClient, ArchiveDepartment, ArchiveClient, WriteAccount
  <1>3. End(w) /\ UNCHANGED <<staff, tie, site, live, version, people, requests>>
    BY DEF UpdateDepartment, UpdateClient, ArchiveDepartment, ArchiveClient, WriteAccount
  <1> DEFINE row == [status |-> status, version |-> unit[tx[w].x].version + 1]
  <1>4. row \in UnitRow
    BY <1>1, OwnUnit DEF UnitRow
  <1>5. unit' \in {unit, [unit EXCEPT ![tx[w].x] = row]}
    BY <1>2 DEF WriteUnit, WriteAccount
  <1>6. TypeOK'
    <2> HIDE DEF row
    <2>1. unit' \in [Unit -> UnitRow]
      BY <1>4, <1>5 DEF IndInv, TypeOK
    <2>. QED
      BY <1>3, <2>1, EndTypes DEF IndInv, TypeOK, people
  <1>7. ASSUME NEW x \in Unit
        PROVE  /\ unit[x].status # "none" => unit'[x].status # "none"
               /\ unitLock[x] # w => unit'[x] = unit[x]
    <2>1. CASE x = tx[w].x
      BY <1>1, <1>5, <2>1, OwnUnit DEF IndInv, TypeOK
    <2>2. CASE x # tx[w].x
      BY <1>5, <2>2 DEF IndInv, TypeOK
    <2>. QED
      BY <2>1, <2>2
  <1>. QED
    BY <1>3, <1>6, <1>7, EndedKeeps, InvitationsKept

LEMMA StaffGood ==
    ASSUME IndInv, NEW w \in Worker, Join(w) \/ Leave(w) PROVE Good(w)
  <1>1. At(w, OnUnit, "write") /\ Kind(tx[w].op) = Department
    BY DEF Join, Leave, At, OnUnit, OnDepartment, Kind, InsertStaff, CloseStaff
  <1>2. tx[w].x \in Department /\ tx[w].u \in User
    BY <1>1, OwnUnit
  <1>3. End(w) /\ UNCHANGED <<unit, tie, site, live, people, requests>>
    BY DEF Join, Leave, InsertStaff, CloseStaff
  <1>4. staff' \in [Department -> SUBSET User] /\ version' \in [User -> Nat]
    <2>1. version' = Raised(w) /\ TypeOK
      BY DEF Join, Leave, IndInv, InsertStaff, CloseStaff
    <2>2. PICK S \in SUBSET User : staff' = [staff EXCEPT ![tx[w].x] = S]
      <3>1. staff[tx[w].x] \in SUBSET User
        BY <1>2, <2>1 DEF TypeOK
      <3>. QED
        BY <1>2, <3>1 DEF Join, Leave, InsertStaff, CloseStaff
    <2>. QED
      BY <1>2, <2>1, <2>2, RaisedTyped DEF TypeOK
  <1>5. TypeOK'
    BY <1>3, <1>4, EndTypes DEF IndInv, TypeOK, people
  <1>. QED
    BY <1>3, <1>5, EndedKeeps, InvitationsKept

LEMMA TiesGood ==
    ASSUME IndInv, NEW w \in Worker, AddMember(w) \/ ActivateMember(w) \/ RemoveMember(w)
    PROVE  Good(w)
  <1>1. At(w, OnUnit, "write") /\ Kind(tx[w].op) = Account
    BY DEF AddMember, ActivateMember, RemoveMember, At, OnUnit, OnDepartment, OnAccount,
           Kind, PutPending, Activate, CloseTie
  <1>2. tx[w].x \in Account /\ tx[w].u \in User /\ unitLock[tx[w].x] = w
    BY <1>1, OwnUnit
  <1>3. End(w) /\ UNCHANGED <<unit, staff, site, live, people, requests>>
    BY DEF AddMember, ActivateMember, RemoveMember, PutPending, Activate, CloseTie
  <1>4. PICK s \in TieStatus :
           tie' \in {tie, [tie EXCEPT ![tx[w].x][tx[w].u] = s]}
    BY DEF AddMember, ActivateMember, RemoveMember, TieStatus, PutPending, Activate, CloseTie
  <1>5. tie' \in [Account -> [User -> TieStatus]] /\ version' \in [User -> Nat]
    <2>1. TypeOK
      BY DEF IndInv
    <2>2. tie' \in [Account -> [User -> TieStatus]]
      <3>1. [tie[tx[w].x] EXCEPT ![tx[w].u] = s] \in [User -> TieStatus]
        BY <1>2, <2>1 DEF TypeOK
      <3>2. tie \in [Account -> [User -> TieStatus]]
        BY <2>1 DEF TypeOK
      <3>3. [tie EXCEPT ![tx[w].x] = [@ EXCEPT ![tx[w].u] = s]]
               \in [Account -> [User -> TieStatus]]
        BY <1>2, <3>1, <3>2
      <3>. QED
        BY <1>4, <3>2, <3>3
    <2>3. version' \in {version, Raised(w)}
      BY DEF AddMember, ActivateMember, RemoveMember, PutPending, Activate, CloseTie
    <2>. QED
      BY <1>2, <2>1, <2>2, <2>3, RaisedTyped DEF TypeOK
  <1>6. TypeOK'
    BY <1>3, <1>5, EndTypes DEF IndInv, TypeOK, people
  <1>7. \A x \in Account : unitLock[x] # w => tie'[x] = tie[x]
    BY <1>2, <1>4 DEF IndInv, TypeOK
  <1>. QED
    BY <1>3, <1>6, <1>7, EndedKeeps, InvitationsKept

LEMMA FinishGood ==
    ASSUME IndInv, NEW w \in Worker, FinishProject(w) PROVE Good(w)
  <1>1. End(w) /\ UNCHANGED <<unit, staff, tie, site, version, people, requests>>
        /\ live' = live \ {tx[w].p}
    BY DEF FinishProject
  <1>2. projectLock[tx[w].p] = w
    BY DEF FinishProject, At, IndInv, HeldOK
  <1>3. TypeOK'
    BY <1>1, EndTypes DEF IndInv, TypeOK, people
  <1>. QED
    BY <1>1, <1>2, <1>3, EndedKeeps, InvitationsKept

\* A project that is placed in a department its handler keeps from being
\* archived: whoever counts the projects there has to wait, or has ended.
LEMMA PlaceGood ==
    ASSUME IndInv, NEW w \in Worker, PlaceProject(w) PROVE Good(w)
  <1>1. /\ tx[w].op \in {"begin", "move"} /\ tx[w].pc = "write"
        /\ End(w) /\ UNCHANGED <<unit, staff, tie, version, people, requests>>
        /\ site' = [site EXCEPT ![tx[w].p] = tx[w].to]
        /\ live' = live \cup {tx[w].p}
    BY DEF PlaceProject, At
  <1>2. tx[w].p \in Project /\ tx[w].to \in Department \cup {Nowhere}
    BY DEF IndInv, TypeOK, Transaction
  <1>3. TypeOK'
    BY <1>1, <1>2, EndTypes DEF IndInv, TypeOK, people
  <1>4. SharesOK' /\ Told(w)'
    BY <1>1, Ended, ToldWhenIdle
  <1>5. ASSUME NEW v \in Worker \ {w}, tx[v].op \in OnProject
        PROVE  /\ tx[v].op = "begin" => tx[v].p # tx[w].p
               /\ tx[v].op # "begin" /\ tx[v].pc # "lock" => tx[v].p # tx[w].p
    <2>1. tx[w].op \in OnProject
      BY <1>1 DEF OnProject
    <2>2. CASE tx[v].op = "begin"
      BY <2>1, <2>2 DEF IndInv, FreshOK
    <2>3. CASE tx[w].op = "begin"
      BY <1>5, <2>3 DEF IndInv, FreshOK
    <2>4. CASE tx[v].op # "begin" /\ tx[w].op = "move" /\ tx[v].pc # "lock"
      BY <1>1, <1>5, <2>4 DEF IndInv, HeldOK, OnProject
    <2>. QED
      BY <1>1, <2>2, <2>3, <2>4
  <1>6. \A v \in Worker : FreshOK(v)'
    <2>1. tx' \in [Worker -> Transaction] /\ tx'[w] = Idle
          /\ \A v \in Worker \ {w} : tx'[v] = tx[v]
      BY <1>1, Ended
    <2>. QED
      BY <1>1, <1>5, <2>1, IdleTyped DEF IndInv, FreshOK, OnProject
  <1>7. ASSUME NEW v \in Worker \ {w}, NEW x \in Department, unitLock[x] = v
        PROVE  LiveProjects(x)' \subseteq LiveProjects(x)
    <2>1. tx[w].to # x \/ (tx[w].op = "move" /\ site[tx[w].p] = x)
      BY <1>1, <1>2, <1>7 DEF IndInv, DecidedOK, SharesOK, Unit
    <2>2. tx[w].op = "move" => tx[w].p \in live
      BY <1>1 DEF IndInv, HeldOK
    <2>. QED
      BY <1>1, <1>2, <2>1, <2>2 DEF LiveProjects, IndInv, TypeOK
  <1>8. ASSUME NEW v \in Worker \ {w} PROVE Keeps(v)
    <2>1. /\ tx'[v] = tx[v]
          /\ \A x \in Unit : unitLock[x] = v => unitLock'[x] = v
          /\ \A x \in Unit : v \in unitShare[x] => v \in unitShare'[x]
          /\ \A p \in Project : projectLock[p] = v => projectLock'[p] = v
          /\ \A u \in Invitee : invitationLock[u] = v => invitationLock'[u] = v
      BY <1>1, Ended
    <2>2. tx[v].op \in {"move", "finish"} /\ tx[v].pc # "lock" =>
             /\ projectLock'[tx[v].p] = projectLock[tx[v].p]
             /\ tx[v].p \in live'
             /\ site'[tx[v].p] = site[tx[v].p]
      <3>1. tx[v].p \in Project
        BY DEF IndInv, TypeOK, Transaction
      <3>. QED
        BY <1>1, <1>5, <2>1, <3>1 DEF IndInv, HeldOK, OnProject, TypeOK
    <2>3. KeepsInvitation(v)
      BY <1>1, InvitationsKept
    <2>4. tx[v].op = "accept" /\ tx[v].pc # "lock" => invitationLock'[tx[v].u] = v
      BY <2>1 DEF IndInv, HeldOK
    <2>. QED
      BY <1>1, <1>7, <2>1, <2>2, <2>3, <2>4 DEF Keeps
  <1>. QED
    BY <1>3, <1>4, <1>6, <1>8 DEF Good

-----------------------------------------------------------------------------
(* The steps in the middle of a transaction.                                 *)

\* A step that leaves the tables alone, whose locks stay typed and are taken
\* from nobody, and which says of its own handler what holds.
LEMMA MiddleGood ==
    ASSUME IndInv, NEW w \in Worker, NEW pc \in {"unit", "refer", "bump", "write"},
           Goto(w, pc), UNCHANGED <<tables, requests>>, tx[w].op # "idle",
           unitLock' \in [Unit -> Worker \cup {NoWorker}],
           unitShare' \in [Unit -> SUBSET Worker],
           projectLock' \in [Project -> Worker \cup {NoWorker}],
           userLock' \in [User -> Worker \cup {NoWorker}],
           invitationLock' \in [Invitee -> Worker \cup {NoWorker}],
           SharesOK', HeldOK(w)', DecidedOK(w)',
           \A x \in Unit : unitLock[x] \notin {w, NoWorker} => unitLock'[x] = unitLock[x],
           \A x \in Unit : unitShare[x] \subseteq unitShare'[x],
           \A p \in Project : projectLock[p] \notin {w, NoWorker} =>
                                  projectLock'[p] = projectLock[p],
           \A u \in Invitee : invitationLock[u] \notin {w, NoWorker} =>
                                  invitationLock'[u] = invitationLock[u]
    PROVE  Good(w)
  <1>1. /\ tx' \in [Worker -> Transaction]
        /\ tx'[w].op = tx[w].op /\ tx'[w].p = tx[w].p /\ tx'[w].pc = pc
        /\ \A v \in Worker \ {w} : tx'[v] = tx[v]
    <2>1. [tx[w] EXCEPT !.pc = pc] \in Transaction
      <3>1. tx[w] \in Transaction
        BY DEF IndInv, TypeOK
      <3>. QED
        BY <3>1 DEF Transaction
    <2>. QED
      BY <2>1 DEF Goto, IndInv, TypeOK, Transaction
  <1>2. TypeOK'
    BY <1>1 DEF IndInv, TypeOK, tables, people
  <1>3. Told(w)'
    BY <1>1 DEF Told
  <1>4. \A v \in Worker : FreshOK(v)'
    <2>1. \A v \in Worker : tx'[v].op = tx[v].op /\ tx'[v].p = tx[v].p
      BY <1>1
    <2>. QED
      BY <2>1, StillFresh DEF tables
  <1>5. ASSUME NEW v \in Worker \ {w} PROVE Keeps(v)
    <2>1. tx[v].p \in Project /\ v # NoWorker
      BY DEF IndInv, TypeOK, Transaction
    <2>2. tx[v].op \in {"move", "finish"} /\ tx[v].pc # "lock" =>
             projectLock[tx[v].p] = v /\ tx[v].p \in live
      BY DEF IndInv, HeldOK
    <2>3. KeepsInvitation(v)
      BY InvitationsKept DEF tables
    <2>4. tx[v].op = "accept" /\ tx[v].pc # "lock" => invitationLock'[tx[v].u] = v
      BY <2>1 DEF IndInv, HeldOK
    <2>. QED
      BY <1>1, <2>1, <2>2, <2>3, <2>4 DEF Keeps, tables, LiveProjects
  <1>. QED
    BY <1>2, <1>3, <1>4, <1>5 DEF Good

\* What such a step changes of its handler.
LEMMA Gone ==
    ASSUME IndInv, NEW w \in Worker, NEW pc, Goto(w, pc)
    PROVE  /\ tx'[w].op = tx[w].op /\ tx'[w].pc = pc /\ tx'[w].x = tx[w].x
           /\ tx'[w].p = tx[w].p /\ tx'[w].u = tx[w].u /\ tx'[w].to = tx[w].to
           /\ tx[w].x \in Unit /\ tx[w].p \in Project /\ tx[w].u \in User
           /\ tx[w].to \in Department \cup {Nowhere}
  BY DEF IndInv, TypeOK, Goto, Transaction

LEMMA LockUnitGood ==
    ASSUME IndInv, NEW w \in Worker, LockUnit(w) PROVE Good(w)
  <1>1. Goto(w, "unit") /\ tx[w].op \in OnUnit /\ UnitFree(w)
        /\ unitLock' = [unitLock EXCEPT ![tx[w].x] = w]
        /\ UNCHANGED <<tables, unitShare, projectLock, userLock, invitationLock, requests>>
    BY DEF LockUnit, At, OnUnit
  <1>2. SharesOK'
    BY <1>1, Gone DEF IndInv, SharesOK, TypeOK, UnitFree, Free
  <1>3. HeldOK(w)'
    BY <1>1, Gone DEF IndInv, HeldOK, TypeOK, OnUnit, OnDepartment, OnAccount,
                      OnProject, Kind, tables, Inviting
  <1>4. DecidedOK(w)'
    BY <1>1, Gone DEF DecidedOK, OnUnit, OnDepartment, OnAccount
  <1>. QED
    BY <1>1, <1>2, <1>3, <1>4, Gone, MiddleGood
       DEF IndInv, TypeOK, UnitFree, Free, OnUnit, OnDepartment, OnAccount

LEMMA DecideGood ==
    ASSUME IndInv, NEW w \in Worker, Decide(w) PROVE Good(w)
  <1> DEFINE pc == IF tx[w].op \in Raises THEN "bump" ELSE "write"
  <1>1. Goto(w, pc) /\ Allowed(w) /\ tx[w].pc = "unit"
        /\ UNCHANGED <<tables, locks, requests>>
    BY DEF Decide
  <1>2. pc \in {"bump", "write"} /\ (pc = "bump" => tx[w].op \in Raises)
    OBVIOUS
  <1>3. tx[w].op \in OnUnit
    <2>1. tx[w].op \in Operation
      BY <1>1 DEF IndInv, TypeOK, Transaction
    <2>. QED
      BY <1>1, <2>1 DEF IndInv, HeldOK, Operation, OnUnit, OnProject
  <1> HIDE DEF pc
  <1>4. SharesOK'
    BY <1>1 DEF IndInv, SharesOK, locks
  <1>5. HeldOK(w)'
    BY <1>1, <1>2, <1>3, Gone DEF IndInv, HeldOK, OnUnit, OnDepartment, OnAccount,
                      OnProject, Kind, tables, locks, Inviting
  <1>6. DecidedOK(w)'
    BY <1>1, <1>2, <1>3, Gone DEF DecidedOK, Allowed, UpdateAllowed, JoinAllowed, AddAllowed,
                      ActivateAllowed, DropAllowed, ArchiveDepartmentAllowed,
                      ArchiveClientAllowed, Mutable, Activatable, tables, Status, Tie, LiveProjects,
                      OnUnit, OnDepartment, OnAccount, Inviting
  <1>. QED
    BY <1>1, <1>2, <1>3, <1>4, <1>5, <1>6, MiddleGood
       DEF IndInv, TypeOK, OnUnit, OnDepartment, OnAccount, locks

LEMMA LockUserGood ==
    ASSUME IndInv, NEW w \in Worker, LockUser(w) PROVE Good(w)
  <1>1. Goto(w, "write") /\ tx[w].pc = "bump"
        /\ userLock' = [userLock EXCEPT ![tx[w].u] = w]
        /\ UNCHANGED <<tables, unitLock, unitShare, projectLock, invitationLock, requests>>
    BY DEF LockUser
  <1>2. tx[w].op \in Raises
    BY <1>1 DEF IndInv, HeldOK
  <1>3. SharesOK'
    BY <1>1 DEF IndInv, SharesOK
  <1>4. HeldOK(w)'
    BY <1>1, <1>2, Gone DEF IndInv, HeldOK, Raises, OnUnit, OnDepartment, OnAccount,
                      OnProject, Kind, tables, Inviting
  <1>5. DecidedOK(w)'
    BY <1>1, <1>2, Gone DEF IndInv, DecidedOK, Raises, tables, Status, Tie
  <1>. QED
    BY <1>1, <1>2, <1>3, <1>4, <1>5, Gone, MiddleGood DEF IndInv, TypeOK, Raises

LEMMA LockProjectGood ==
    ASSUME IndInv, NEW w \in Worker, LockProject(w) PROVE Good(w)
  <1> DEFINE pc == IF tx[w].op = "move" THEN "refer" ELSE "write"
  <1>1. Goto(w, pc) /\ tx[w].op \in {"move", "finish"} /\ tx[w].p \in live
        /\ Free(projectLock[tx[w].p], w)
        /\ projectLock' = [projectLock EXCEPT ![tx[w].p] = w]
        /\ UNCHANGED <<tables, unitLock, unitShare, userLock, invitationLock, requests>>
    BY DEF LockProject, At
  <1>2. pc \in {"refer", "write"} /\ (tx[w].op = "move" => pc = "refer")
    OBVIOUS
  <1> HIDE DEF pc
  <1>3. SharesOK'
    BY <1>1 DEF IndInv, SharesOK
  <1>4. HeldOK(w)'
    BY <1>1, <1>2, Gone DEF IndInv, HeldOK, OnUnit, OnDepartment, OnAccount,
                      OnProject, TypeOK, tables, Inviting
  <1>5. DecidedOK(w)'
    BY <1>1, <1>2, Gone DEF DecidedOK, OnUnit, OnDepartment, OnAccount
  <1>. QED
    BY <1>1, <1>2, <1>3, <1>4, <1>5, Gone, MiddleGood DEF IndInv, TypeOK, Free

LEMMA ReferGood ==
    ASSUME IndInv, NEW w \in Worker, ReferToUnit(w) PROVE Good(w)
  <1>1. Goto(w, "write") /\ At(w, {"begin", "move"}, "refer")
        /\ UNCHANGED <<tables, unitLock, projectLock, userLock, invitationLock, requests>>
    BY DEF ReferToUnit
  <1>2. tx[w].op \in OnProject
    BY DEF ReferToUnit, At, OnProject
  <1>3. \/ /\ unitShare' = unitShare
           /\ tx[w].to = Nowhere \/ (tx[w].op = "move" /\ site[tx[w].p] = tx[w].to)
        \/ /\ tx[w].to \in Department /\ unitLock[tx[w].to] = NoWorker
           /\ unitShare' = [unitShare EXCEPT ![tx[w].to] = @ \cup {w}]
    BY Gone, <1>1 DEF ReferToUnit
  <1>4. SharesOK' /\ unitShare' \in [Unit -> SUBSET Worker]
        /\ \A x \in Unit : unitShare[x] \subseteq unitShare'[x]
    <2>1. CASE unitShare' = unitShare
      BY <1>1, <2>1 DEF IndInv, SharesOK, TypeOK
    <2>2. CASE /\ tx[w].to \in Department /\ unitLock[tx[w].to] = NoWorker
               /\ unitShare' = [unitShare EXCEPT ![tx[w].to] = @ \cup {w}]
      <3>1. tx[w].to \in Unit /\ unitShare \in [Unit -> SUBSET Worker]
        BY <2>2 DEF Unit, IndInv, TypeOK
      <3>2. unitShare' \in [Unit -> SUBSET Worker]
        BY <2>2, <3>1
      <3>3. \A x \in Unit : unitShare[x] \subseteq unitShare'[x]
                            /\ (x # tx[w].to => unitShare'[x] = unitShare[x])
        BY <2>2, <3>1
      <3>. QED
        BY <1>1, <2>2, <3>2, <3>3 DEF IndInv, SharesOK
    <2>. QED
      BY <1>3, <2>1, <2>2
  <1>5. HeldOK(w)'
    BY <1>1, <1>2, Gone DEF IndInv, HeldOK, At, OnUnit, OnDepartment, OnAccount,
                      OnProject, tables, Inviting
  <1>6. DecidedOK(w)'
    <2>1. \/ tx[w].to = Nowhere
          \/ tx[w].op = "move" /\ site[tx[w].p] = tx[w].to
          \/ w \in unitShare'[tx[w].to]
      BY <1>3 DEF IndInv, TypeOK, Unit
    <2>2. site' = site /\ tx[w].op \notin OnUnit
      BY <1>1, <1>2 DEF tables, OnProject, OnUnit, OnDepartment, OnAccount
    <2>3. tx[w].op \notin {"archiveDepartment", "drop", "accept"}
      BY <1>2 DEF OnProject
    <2>. QED
      BY <1>1, <2>1, <2>2, <2>3, Gone DEF DecidedOK
  <1>. QED
    BY <1>1, <1>2, <1>4, <1>5, <1>6, MiddleGood DEF IndInv, TypeOK, OnProject, At

LEMMA LockInvitationGood ==
    ASSUME IndInv, NEW w \in Worker, LockInvitation(w) PROVE Good(w)
  <1>1. Goto(w, "refer") /\ At(w, {"accept"}, "lock") /\ Free(invitationLock[tx[w].u], w)
        /\ invitation[tx[w].u].status = "PENDING"
        /\ invitationLock' = [invitationLock EXCEPT ![tx[w].u] = w]
        /\ UNCHANGED <<tables, unitLock, unitShare, projectLock, userLock, requests>>
    BY DEF LockInvitation
  <1>2. tx[w].op = "accept" /\ tx[w].u \in Invitee
    BY <1>1 DEF At, IndInv, HeldOK
  <1>3. SharesOK'
    BY <1>1 DEF IndInv, SharesOK
  <1>4. HeldOK(w)'
    BY <1>1, <1>2, Gone DEF HeldOK, OnUnit, OnDepartment, OnAccount, OnProject, IndInv,
                            TypeOK, tables, people, Inviting, Raises
  <1>5. DecidedOK(w)'
    BY <1>2, <1>1, Gone DEF DecidedOK, OnUnit, OnDepartment, OnAccount
  <1>. QED
    BY <1>1, <1>2, <1>3, <1>4, <1>5, MiddleGood DEF IndInv, TypeOK, Free

\* The unit of an acceptance is kept from being locked by the reference to it.
LEMMA InsertInviteeGood ==
    ASSUME IndInv, NEW w \in Worker, InsertInvitee(w) PROVE Good(w)
  <1> DEFINE x0 == Placement(w)
  <1>1. Goto(w, "write") /\ tx[w].op = "accept" /\ tx[w].pc = "refer"
        /\ tx[w].u \notin known /\ unitLock[x0] = NoWorker
        /\ unitShare' = [unitShare EXCEPT ![x0] = @ \cup {w}]
        /\ UNCHANGED <<tables, unitLock, projectLock, userLock, invitationLock, requests>>
    BY DEF InsertInvitee, At
  <1>2. /\ tx[w].u \in Invitee /\ invitationLock[tx[w].u] = w
        /\ invitation[tx[w].u].status = "PENDING"
    BY <1>1 DEF IndInv, HeldOK
  <1>3. x0 \in Unit /\ Placement(w)' = x0
    BY <1>1, <1>2, Gone DEF Placement, IndInv, TypeOK, InvitationRow, tables, people
  <1> HIDE DEF x0
  <1>4. /\ unitShare' \in [Unit -> SUBSET Worker]
        /\ \A x \in Unit : unitShare[x] \subseteq unitShare'[x]
                           /\ (x # x0 => unitShare'[x] = unitShare[x])
        /\ w \in unitShare'[x0]
    BY <1>1, <1>3 DEF IndInv, TypeOK
  <1>5. SharesOK'
    BY <1>1, <1>4 DEF IndInv, SharesOK
  <1>6. HeldOK(w)'
    BY <1>1, <1>2, Gone DEF HeldOK, OnUnit, OnDepartment, OnAccount, OnProject,
                            tables, people, Inviting, Raises
  <1>7. DecidedOK(w)'
    BY <1>1, <1>3, <1>4, Gone DEF DecidedOK, OnUnit, OnDepartment, OnAccount, tables, people
  <1>. QED
    BY <1>1, <1>4, <1>5, <1>6, <1>7, MiddleGood DEF IndInv, TypeOK

\* Who is invited is nobody's who is just accepting.
LEMMA InviteGood ==
    ASSUME IndInv, NEW w \in Worker, Invite(w) PROVE Good(w)
  <1> DEFINE row == [status |-> "PENDING", place |-> tx[w].x]
  <1>1. tx[w].u \in Invitee /\ row \in InvitationRow
    BY DEF Invite, At, IndInv, HeldOK, TypeOK, Transaction, InvitationRow
  <1>2. /\ End(w) /\ UNCHANGED <<unit, staff, tie, site, live, version, known, requests>>
        /\ \/ invitation' = invitation
           \/ /\ invitation[tx[w].u].status # "PENDING"
              /\ invitation' = [invitation EXCEPT ![tx[w].u] = row]
    BY DEF Invite
  <1> HIDE DEF row
  <1>3. TypeOK'
    <2>1. invitation' \in [Invitee -> InvitationRow]
      BY <1>1, <1>2 DEF IndInv, TypeOK
    <2>. QED
      BY <1>2, <2>1, EndTypes DEF IndInv, TypeOK
  <1>4. ASSUME NEW v \in Worker \ {w} PROVE KeepsInvitation(v)
    <2>1. tx[v].op = "accept" /\ tx[v].pc # "lock" =>
             tx[v].u \in Invitee /\ invitation[tx[v].u].status = "PENDING"
      BY DEF IndInv, HeldOK
    <2>. QED
      BY <1>1, <1>2, <2>1 DEF KeepsInvitation, IndInv, TypeOK
  <1>. QED
    BY <1>2, <1>3, <1>4, EndedKeeps

\* An acceptance holds its invitation, and a reference to its unit.
LEMMA AcceptGood ==
    ASSUME IndInv, NEW w \in Worker, AcceptInvitation(w) PROVE Good(w)
  <1> DEFINE u == tx[w].u
             x == Placement(w)
             row == [invitation[u] EXCEPT !.status = "ACCEPTED"]
  <1>1. tx[w].op = "accept" /\ tx[w].pc = "write"
    BY DEF AcceptInvitation, At
  <1>2. /\ u \in Invitee /\ u \in User /\ invitationLock[u] = w /\ u \notin known
        /\ w \in unitShare[x]
    BY <1>1 DEF IndInv, HeldOK, DecidedOK
  <1>3. row \in InvitationRow /\ x \in Unit
    <2>1. invitation[u] \in InvitationRow
      BY <1>2 DEF IndInv, TypeOK
    <2>. QED
      BY <2>1 DEF InvitationRow, Placement
  <1>4. /\ End(w) /\ UNCHANGED <<unit, site, live, version, requests>>
        /\ known' = known \cup {u}
        /\ invitation' = [invitation EXCEPT ![u] = row]
        /\ \/ x \in Department /\ staff' = [staff EXCEPT ![x] = @ \cup {u}] /\ tie' = tie
           \/ /\ x \notin Department /\ staff' = staff
              /\ tie' \in {tie, [tie EXCEPT ![x][u] = "ACTIVE"]}
    BY DEF AcceptInvitation, InsertStaff, PutActive
  <1> HIDE DEF u, x, row
  <1>5. /\ staff' \in [Department -> SUBSET User]
        /\ tie' \in [Account -> [User -> TieStatus]]
        /\ \A a \in Account : a # x => tie'[a] = tie[a]
    <2>1. CASE x \in Department
      <3>1. staff' = [staff EXCEPT ![x] = @ \cup {u}] /\ tie' = tie
        BY <1>4, <2>1
      <3>2. staff \in [Department -> SUBSET User] /\ tie \in [Account -> [User -> TieStatus]]
        BY DEF IndInv, TypeOK
      <3>. QED
        BY <1>2, <2>1, <3>1, <3>2
    <2>2. CASE x \notin Department
      <3>1. x \in Account /\ tie \in [Account -> [User -> TieStatus]]
            /\ staff \in [Department -> SUBSET User]
        BY <1>3, <2>2 DEF Unit, IndInv, TypeOK
      <3> DEFINE new == [tie[x] EXCEPT ![u] = "ACTIVE"]
      <3>2. new \in [User -> TieStatus]
        BY <1>2, <3>1 DEF TieStatus
      <3>3. tie' \in {tie, [tie EXCEPT ![x] = new]} /\ staff' = staff
        BY <1>4, <2>2
      <3> HIDE DEF new
      <3>. QED
        BY <3>1, <3>2, <3>3
    <2>. QED
      BY <2>1, <2>2
  <1>6. TypeOK'
    <2>1. invitation' \in [Invitee -> InvitationRow]
      BY <1>2, <1>3, <1>4 DEF IndInv, TypeOK
    <2>2. known' \subseteq User
      BY <1>2, <1>4 DEF IndInv, TypeOK
    <2>. QED
      BY <1>4, <1>5, <2>1, <2>2, EndTypes DEF IndInv, TypeOK
  <1>7. ASSUME NEW v \in Worker \ {w} PROVE KeepsInvitation(v)
    <2>1. tx[v].op = "accept" /\ tx[v].pc # "lock" =>
             tx[v].u \in Invitee /\ invitationLock[tx[v].u] = v
      BY DEF IndInv, HeldOK
    <2>. QED
      BY <1>2, <1>4, <2>1 DEF KeepsInvitation, IndInv, TypeOK
  <1>8. unitLock[x] \in {w, NoWorker}
    BY <1>2, <1>3 DEF IndInv, SharesOK
  <1>. QED
    BY <1>4, <1>5, <1>6, <1>7, <1>8, EndedKeeps

\* Nobody is accepting what is withdrawn, and no unit is touched.
LEMMA WithdrawPreserves ==
    ASSUME IndInv, NEW u \in Invitee, WithdrawInvitation(u)
    PROVE  IndInv'
  <1> DEFINE row == [invitation[u] EXCEPT !.status = "WITHDRAWN"]
  <1>1. /\ UNCHANGED <<unit, staff, tie, site, live, version, known, locks, tx, requests>>
        /\ invitation' = [invitation EXCEPT ![u] = row] /\ invitationLock[u] = NoWorker
    BY DEF WithdrawInvitation
  <1>2. row \in InvitationRow
    <2>1. invitation[u] \in InvitationRow
      BY DEF IndInv, TypeOK
    <2>. QED
      BY <2>1 DEF InvitationRow
  <1> HIDE DEF row
  <1>3. TypeOK' /\ SharesOK'
    BY <1>1, <1>2 DEF IndInv, TypeOK, SharesOK, locks
  <1>4. \A v \in Worker : FreshOK(v)'
    BY <1>1 DEF IndInv, FreshOK
  <1>5. ASSUME NEW v \in Worker PROVE Keeps(v)
    <2>1. tx[v].op = "accept" /\ tx[v].pc # "lock" =>
             tx[v].u \in Invitee /\ invitationLock[tx[v].u] = v /\ v # NoWorker
      BY DEF IndInv, HeldOK
    <2>2. KeepsInvitation(v)
      BY <1>1, <2>1 DEF KeepsInvitation, IndInv, TypeOK
    <2>. QED
      BY <1>1, <2>1, <2>2 DEF Keeps, locks, LiveProjects, IndInv, HeldOK
  <1>. QED
    BY <1>3, <1>4, <1>5, KeptForV DEF IndInv, Told

LEMMA ArriveGood ==
    ASSUME IndInv, NEW w \in Worker, NEW op \in Operation, Arrive(w, op) PROVE Good(w)
  <1>0. Subject(op) \subseteq User /\ (op \in Inviting \cup {"accept"} => Subject(op) \subseteq Invitee)
    BY DEF Subject, Inviting, OnMember, AnyUser, IndInv, TypeOK
  <1>1. PICK x \in Unit, p \in Project, u \in User, to \in Department \cup {Nowhere} :
           /\ op \in Inviting \cup {"accept"} => u \in Invitee
           /\ op \notin OnProject \cup {"accept"} => x \in Kind(op)
           /\ op \in OnUnit => unit[x].status # "none"
           /\ op \in {"move", "finish"} => p \in live
           /\ op = "begin" => p \notin live /\ \A v \in Worker : tx[v].p # p \/ tx[v].op \notin OnProject
           /\ tx' = [tx EXCEPT ![w] =
                  [op |-> op, pc |-> IF op = "begin" THEN "refer" ELSE "lock",
                   x |-> x, p |-> p, u |-> u, to |-> to, ver |-> unit[x].version]]
    BY <1>0 DEF Arrive, OnUnit
  <1>2. /\ requests' = requests + 1 /\ UNCHANGED <<tables, locks>>
        /\ tx[w].op = "idle"
    BY DEF Arrive
  <1> DEFINE new == [op |-> op, pc |-> IF op = "begin" THEN "refer" ELSE "lock",
                     x |-> x, p |-> p, u |-> u, to |-> to, ver |-> unit[x].version]
  <1>3. new \in Transaction
    <2>1. unit[x].version \in Nat
      BY DEF IndInv, TypeOK, UnitRow
    <2>. QED
      BY <2>1 DEF Transaction
  <1>4. /\ new.op = op /\ new.p = p /\ new.x = x /\ new.u = u
        /\ new.pc = IF op = "begin" THEN "refer" ELSE "lock"
    OBVIOUS
  <1> HIDE DEF new
  <1>5. tx' = [tx EXCEPT ![w] = new]
    BY <1>1 DEF new
  <1>6. TypeOK'
    BY <1>2, <1>3, <1>5 DEF IndInv, TypeOK, tables, people, locks
  <1>7. tx'[w] = new /\ \A v \in Worker \ {w} : tx'[v] = tx[v]
    BY <1>5 DEF IndInv, TypeOK
  <1>8. SharesOK'
    BY <1>2 DEF IndInv, SharesOK, locks
  <1>9. Told(w)'
    <2>1. HeldOK(w)'
      BY <1>1, <1>2, <1>4, <1>7 DEF HeldOK, OnUnit, OnDepartment, OnAccount, OnProject,
                                     Kind, tables, Inviting
    <2>2. DecidedOK(w)'
      BY <1>4, <1>7 DEF DecidedOK, OnUnit, OnDepartment, OnAccount
    <2>3. op # "idle" /\ new.pc # "idle"
      BY <1>4 DEF Operation, OnDepartment, OnAccount, OnProject
    <2>. QED
      BY <1>4, <1>7, <2>1, <2>2, <2>3 DEF Told
  <1>10. ASSUME NEW v \in Worker PROVE FreshOK(v)'
    <2>1. CASE v = w
      BY <1>1, <1>2, <1>4, <1>7, <2>1 DEF FreshOK, tables
    <2>2. CASE v # w /\ tx[v].op = "begin"
      <3>1. tx[v].p \notin live /\ tx[v].op \in OnProject
        BY <2>2 DEF IndInv, FreshOK, OnProject
      <3>2. op \in OnProject => p # tx[v].p
        BY <1>1, <2>2, <3>1 DEF OnProject
      <3>. QED
        BY <1>2, <1>4, <1>7, <2>2, <3>1, <3>2 DEF IndInv, FreshOK, tables
    <2>3. CASE v # w /\ tx[v].op # "begin"
      BY <1>7, <2>3 DEF FreshOK
    <2>. QED
      BY <2>1, <2>2, <2>3
  <1>11. ASSUME NEW v \in Worker \ {w} PROVE Keeps(v)
    <2>1. KeepsInvitation(v)
      BY <1>2, InvitationsKept DEF tables
    <2>. QED
      BY <1>2, <1>7, <2>1 DEF Keeps, LiveProjects, tables, locks, IndInv, HeldOK
  <1>. QED
    BY <1>6, <1>8, <1>9, <1>10, <1>11 DEF Good

-----------------------------------------------------------------------------
(* The theorems.                                                             *)

LEMMA InitInv == Init => IndInv
  <1> SUFFICES ASSUME Init PROVE IndInv
    OBVIOUS
  <1>1. TypeOK
    <2>1. AnyUnit \in Unit
      BY DEF AnyUnit, Unit
    <2>. QED
      BY <2>1, IdleTyped DEF Init, TypeOK, UnitRow, TieStatus, InvitationRow
  <1>2. SharesOK
    BY DEF Init, SharesOK
  <1>3. \A w \in Worker : tx[w].op = "idle" /\ tx[w].pc = "idle"
    BY IdleTyped DEF Init
  <1>. QED
    BY <1>1, <1>2, <1>3 DEF IndInv, HeldOK, DecidedOK, FreshOK, OnUnit,
                            OnDepartment, OnAccount, OnProject, Inviting

LEMMA StepGood ==
    ASSUME IndInv, NEW w \in Worker, Handler(w) \/ \E op \in Operation : Arrive(w, op)
    PROVE  Good(w)
  <1>1. CASE \E op \in Operation : Arrive(w, op)
    BY <1>1, ArriveGood
  <1>2. CASE Handler(w)
    BY <1>2, CreateGood, LockUnitGood, DecideGood, RefusalGood, LockUserGood,
       UnitWritesGood, StaffGood, TiesGood, LockProjectGood, ReferGood, PlaceGood,
       FinishGood, InviteGood, LockInvitationGood, InsertInviteeGood, AcceptGood DEF Handler
  <1>. QED
    BY <1>1, <1>2

LEMMA NextInv == IndInv /\ [Next]_vars => IndInv'
  <1> SUFFICES ASSUME IndInv, [Next]_vars PROVE IndInv'
    OBVIOUS
  <1>1. ASSUME NEW w \in Worker, Handler(w) \/ \E op \in Operation : Arrive(w, op)
        PROVE  IndInv'
    <2>1. Good(w)
      BY <1>1, StepGood
    <2>2. \A v \in Worker : Told(v)'
      BY <2>1, KeptForV DEF Good
    <2>. QED
      BY <2>1, <2>2 DEF Good, Told, IndInv
  <1>2. CASE UNCHANGED vars
    BY <1>2 DEF vars, tables, people, locks, IndInv, TypeOK, SharesOK, HeldOK, DecidedOK,
                FreshOK, Status, Tie, LiveProjects, Placement
  <1>3. CASE \E u \in Invitee : WithdrawInvitation(u)
    BY <1>3, WithdrawPreserves
  <1>. QED
    BY <1>1, <1>2, <1>3 DEF Next

\* The invariant that everything below rests on.
THEOREM OrganisationInvariant == Spec => []IndInv
  BY InitInv, NextInv, PTL DEF Spec

\* Every variable keeps its type.
THEOREM OrganisationTypes == Spec => []TypeOK
  <1>1. IndInv => TypeOK
    BY DEF IndInv
  <1>. QED
    BY <1>1, OrganisationInvariant, PTL

\* A department is archived only by its handler, which has counted its live
\* projects under the row lock and still finds none (departments::archive).
THEOREM NothingOrphaned == Spec => ArchivedWhenEmpty
  <1>1. ASSUME IndInv, [Next]_vars, NEW d \in Department,
               unit[d].status # "ARCHIVED", unit'[d].status = "ARCHIVED"
        PROVE  LiveProjects(d) = {} /\ LiveProjects(d)' = {}
    <2>1. unit' # unit
      BY <1>1
    <2>2. PICK w \in Worker : CreateDepartment(w) \/ CreateClient(w) \/ UpdateDepartment(w)
             \/ UpdateClient(w) \/ ArchiveDepartment(w)
                             \/ ArchiveClient(w)
      BY <1>1, <2>1 DEF Next, Handler, vars, tables, Arrive, LockUnit, Decide, Refuse,
         LockUser, Join, Leave, AddMember, ActivateMember, RemoveMember, LockProject,
         RefuseProject, ReferToUnit, PlaceProject, FinishProject, InsertStaff, CloseStaff,
         PutPending, Activate, CloseTie, Invite, LockInvitation, RefuseInvitation,
         InsertInvitee, AcceptInvitation, WithdrawInvitation
    <2>3. site' = site /\ live' = live
      BY <2>2
         DEF CreateDepartment, CreateClient, NewUnit, UpdateDepartment, UpdateClient,
             ArchiveDepartment, ArchiveClient, NewAccount, WriteAccount
    <2>4. d \in Unit /\ tx[w].x \in Unit /\ unit \in [Unit -> UnitRow]
      BY <1>1 DEF Unit, IndInv, TypeOK, Transaction
    <2>5. ~(CreateDepartment(w) \/ CreateClient(w)) /\ ~UpdateDepartment(w) /\ ~UpdateClient(w)
      <3>1. CreateDepartment(w) \/ CreateClient(w) => unit'[d].status \in {unit[d].status, "ACTIVE"}
        <4> SUFFICES ASSUME CreateDepartment(w) \/ CreateClient(w)
    PROVE  unit'[d].status \in {unit[d].status, "ACTIVE"}
          OBVIOUS
        <4>1. unit' = unit \/ unit' = [unit EXCEPT ![tx[w].x].status = "ACTIVE"]
          BY DEF CreateDepartment, CreateClient, NewUnit, NewAccount
        <4>2. unit[tx[w].x] \in UnitRow
          BY <2>4
        <4>3. [unit[tx[w].x] EXCEPT !.status = "ACTIVE"].status = "ACTIVE"
          BY <4>2 DEF UnitRow
        <4>. QED
          BY <2>4, <4>1, <4>3
      <3>2. UpdateDepartment(w) \/ UpdateClient(w) => unit'[d].status = unit[d].status
        <4> SUFFICES ASSUME UpdateDepartment(w) \/ UpdateClient(w), unit' # unit
                     PROVE  unit'[d].status = unit[d].status
          OBVIOUS
        <4>1. unit' = [unit EXCEPT ![tx[w].x] =
                         [status |-> unit[tx[w].x].status, version |-> @.version + 1]]
          BY DEF UpdateDepartment, UpdateClient, WriteUnit, Status, WriteAccount
        <4>. QED
          BY <2>4, <4>1
      <3>. QED
        BY <1>1, <3>1, <3>2
    <2>6. d = tx[w].x
      BY <1>1, <2>2, <2>4, <2>5 DEF ArchiveDepartment, ArchiveClient, WriteUnit, WriteAccount
    <2>7. ~ArchiveClient(w)
      <3>1. ArchiveClient(w) => tx[w].x \in Account
        BY <1>1
           DEF ArchiveClient, At, IndInv, HeldOK, Kind, OnUnit, OnDepartment, OnAccount,
               WriteAccount
      <3>. QED
        BY <2>6, <3>1
    <2>8. LiveProjects(d) = {}
      BY <1>1, <2>2, <2>5, <2>6, <2>7 DEF ArchiveDepartment, At, IndInv, DecidedOK
    <2>. QED
      BY <2>3, <2>8 DEF LiveProjects
  <1>2. IndInv /\ [Next]_vars =>
           [\A d \in Department :
              unit[d].status # "ARCHIVED" /\ unit'[d].status = "ARCHIVED" =>
                 LiveProjects(d) = {} /\ LiveProjects(d)' = {}]_vars
    BY <1>1
  <1>. QED
    BY <1>2, OrganisationInvariant, PTL DEF Spec, ArchivedWhenEmpty

\* Whatever is archived gains nobody but those who hold an invitation into it, is
\* never touched again, and nobody more is invited: whoever adds or invites looked at
\* the unit under the lock that the archiving takes (departments::add_member,
\* clients::add_member, activate_member, authorize_placement).
THEOREM NobodyGained == Spec => ArchivedGainsNobody
  <1> DEFINE Kept(x) ==
        /\ unit'[x] = unit[x]
        /\ x \in Department => staff'[x] \subseteq staff[x] \cup Newcomers(x)
        /\ x \in Account => Reached(x)' \subseteq Reached(x) \cup Newcomers(x)
                            /\ Tied(x)' \subseteq Tied(x) \cup Newcomers(x)
        /\ Awaited(x)' \subseteq Awaited(x)
  <1>1. ASSUME IndInv, [Next]_vars, NEW x \in Unit, unit[x].status = "ARCHIVED"
        PROVE  Kept(x)
    <2>1. CASE UNCHANGED <<unit, staff, tie, invitation>>
      BY <2>1 DEF Reached, Tied, Awaited
    <2>2. ASSUME NEW w \in Worker, CreateDepartment(w) \/ CreateClient(w)
          PROVE  Kept(x)
      <3>1. unit'[x] = unit[x] /\ staff' = staff /\ tie' = tie /\ invitation' = invitation
        BY <1>1, <2>2 DEF CreateDepartment, CreateClient, NewUnit, IndInv, TypeOK,
                          NewAccount, people
      <3>. QED
        BY <3>1 DEF Reached, Tied, Awaited
    <2>3. ASSUME NEW w \in Worker, At(w, OnUnit, "write"),
                 tx[w].op \notin {"leave", "drop"}
          PROVE  tx[w].x # x
      BY <1>1, <2>3, OwnUnit DEF Status
    <2>4. ASSUME NEW w \in Worker,
                 UpdateDepartment(w) \/ UpdateClient(w) \/ ArchiveDepartment(w) \/ ArchiveClient(w)
          PROVE  Kept(x)
      <3>1. At(w, OnUnit, "write") /\ tx[w].op \notin {"leave", "drop"}
        BY <2>4 DEF UpdateDepartment, UpdateClient, ArchiveDepartment, ArchiveClient, At, OnUnit,
                    OnDepartment, OnAccount, WriteAccount
      <3>2. unit'[x] = unit[x]
        BY <1>1, <2>3, <2>4, <3>1
           DEF UpdateDepartment, UpdateClient, ArchiveDepartment, ArchiveClient,
                                      WriteUnit, IndInv, TypeOK, WriteAccount
      <3>3. staff' = staff /\ tie' = tie /\ invitation' = invitation
        BY <2>4 DEF UpdateDepartment, UpdateClient, ArchiveDepartment, ArchiveClient, people
      <3>. QED
        BY <3>2, <3>3 DEF Reached, Tied, Awaited
    <2>5. ASSUME NEW w \in Worker, Join(w) PROVE Kept(x)
      <3>1. tx[w].x # x
        BY <2>3, <2>5 DEF Join, At, OnUnit, OnDepartment
      <3>2. unit' = unit /\ tie' = tie /\ invitation' = invitation
        BY <2>5 DEF Join, people
      <3>3. x \in Department => staff'[x] = staff[x]
        BY <1>1, <2>5, <3>1 DEF Join, InsertStaff, IndInv, TypeOK
      <3>. QED
        BY <3>2, <3>3 DEF Reached, Tied, Awaited
    <2>6. ASSUME NEW w \in Worker, Leave(w) PROVE Kept(x)
      <3>1. \A d \in Department : staff'[d] \subseteq staff[d]
        BY <1>1, <2>6 DEF Leave, IndInv, TypeOK, CloseStaff
      <3>2. unit' = unit /\ tie' = tie /\ invitation' = invitation
        BY <2>6 DEF Leave, people
      <3>. QED
        BY <3>1, <3>2 DEF Reached, Tied, Awaited
    <2>7. ASSUME NEW w \in Worker, AddMember(w) \/ ActivateMember(w) PROVE Kept(x)
      <3>1. tx[w].x # x
        BY <2>3, <2>7 DEF AddMember, ActivateMember, At, OnUnit, OnAccount
      <3>2. x \in Account => tie'[x] = tie[x]
        BY <1>1, <2>7, <3>1 DEF AddMember, ActivateMember, IndInv, TypeOK, PutPending, Activate
      <3>3. unit' = unit /\ staff' = staff /\ invitation' = invitation
        BY <2>7 DEF AddMember, ActivateMember, people
      <3>. QED
        BY <3>2, <3>3 DEF Reached, Tied, Awaited
    <2>8. ASSUME NEW w \in Worker, RemoveMember(w) PROVE Kept(x)
      <3>1. tie \in [Account -> [User -> TieStatus]]
        BY <1>1 DEF IndInv, TypeOK
      <3>2. \A u \in User : x \in Account => tie'[x][u] \in {tie[x][u], "REMOVED"}
        BY <2>8, <3>1 DEF RemoveMember, CloseTie
      <3>3. unit' = unit /\ staff' = staff /\ invitation' = invitation
        BY <2>8 DEF RemoveMember, people
      <3>. QED
        BY <3>2, <3>3 DEF Reached, Tied, Awaited
    <2>9. ASSUME NEW w \in Worker, Invite(w) PROVE Kept(x)
      <3>1. tx[w].x # x
        BY <2>3, <2>9 DEF Invite, Inviting, At, OnUnit, OnDepartment, OnAccount
      <3>2. unit' = unit /\ staff' = staff /\ tie' = tie
        BY <2>9 DEF Invite
      <3> DEFINE row == [status |-> "PENDING", place |-> tx[w].x]
      <3>3. invitation' \in {invitation, [invitation EXCEPT ![tx[w].u] = row]} /\ row.place # x
        BY <2>9, <3>1 DEF Invite
      <3> HIDE DEF row
      <3>4. Awaited(x)' \subseteq Awaited(x)
        BY <1>1, <3>3 DEF Awaited, IndInv, TypeOK
      <3>. QED
        BY <3>2, <3>4 DEF Reached, Tied
    <2>10. ASSUME NEW w \in Worker, AcceptInvitation(w) PROVE Kept(x)
      <3> DEFINE u == tx[w].u
                 y == Placement(w)
                 row == [invitation[u] EXCEPT !.status = "ACCEPTED"]
      <3>1. /\ u \in Invitee /\ u \notin known
            /\ invitation[u].status = "PENDING" /\ invitation[u].place = y
        BY <1>1, <2>10 DEF AcceptInvitation, At, IndInv, HeldOK, DecidedOK, Placement
      <3>2. row.status = "ACCEPTED" /\ invitation \in [Invitee -> InvitationRow]
        BY <1>1, <3>1 DEF IndInv, TypeOK, InvitationRow
      <3>3. /\ unit' = unit
            /\ invitation' = [invitation EXCEPT ![u] = row]
            /\ \/ y \in Department /\ staff' = [staff EXCEPT ![y] = @ \cup {u}] /\ tie' = tie
               \/ staff' = staff /\ tie' \in {tie, [tie EXCEPT ![y][u] = "ACTIVE"]}
        BY <2>10 DEF AcceptInvitation, InsertStaff, PutActive
      <3> HIDE DEF u, y, row
      <3>4. u \in Newcomers(y)
        BY <3>1 DEF Newcomers, Awaited
      <3>5. Awaited(x)' \subseteq Awaited(x)
        BY <3>2, <3>3 DEF Awaited
      <3>6. x \in Department => staff'[x] \subseteq staff[x] \cup Newcomers(x)
        BY <1>1, <3>3, <3>4 DEF IndInv, TypeOK
      <3>7. x \in Account => \A v \in User :
               tie'[x][v] # tie[x][v] => v \in Newcomers(x)
        BY <1>1, <3>3, <3>4 DEF IndInv, TypeOK
      <3>8. x \in Account => Reached(x)' \subseteq Reached(x) \cup Newcomers(x)
                             /\ Tied(x)' \subseteq Tied(x) \cup Newcomers(x)
        BY <3>7 DEF Reached, Tied
      <3>. QED
        BY <3>3, <3>5, <3>6, <3>8
    <2>11. ASSUME NEW u \in Invitee, WithdrawInvitation(u) PROVE Kept(x)
      <3> DEFINE row == [invitation[u] EXCEPT !.status = "WITHDRAWN"]
      <3>1. row.status = "WITHDRAWN" /\ invitation \in [Invitee -> InvitationRow]
        BY <1>1 DEF IndInv, TypeOK, InvitationRow
      <3>2. unit' = unit /\ staff' = staff /\ tie' = tie
            /\ invitation' = [invitation EXCEPT ![u] = row]
        BY <2>11 DEF WithdrawInvitation
      <3> HIDE DEF row
      <3>. QED
        BY <3>1, <3>2 DEF Reached, Tied, Awaited
    <2>12. \/ UNCHANGED <<unit, staff, tie, invitation>>
           \/ \E u \in Invitee : WithdrawInvitation(u)
           \/ \E w \in Worker :
                 \/ CreateDepartment(w) \/ CreateClient(w) \/ UpdateDepartment(w)
                 \/ UpdateClient(w) \/ ArchiveDepartment(w) \/ ArchiveClient(w)
                 \/ Join(w) \/ Leave(w) \/ AddMember(w) \/ ActivateMember(w) \/ RemoveMember(w)
                 \/ Invite(w) \/ AcceptInvitation(w)
      BY <1>1 DEF Next, Handler, vars, tables, people, Arrive, LockUnit, Decide, Refuse,
         LockUser, LockProject, RefuseProject, ReferToUnit, PlaceProject, FinishProject,
         LockInvitation, RefuseInvitation, InsertInvitee
    <2>. QED
      BY <2>1, <2>2, <2>4, <2>5, <2>6, <2>7, <2>8, <2>9, <2>10, <2>11, <2>12
  <1>2. IndInv /\ [Next]_vars =>
           [\A x \in Unit : unit[x].status = "ARCHIVED" => Kept(x)]_vars
    BY <1>1
  <1>. QED
    BY <1>2, OrganisationInvariant, PTL DEF Spec, ArchivedGainsNobody
=============================================================================
