------------------------------- MODULE Reading -------------------------------
(***************************************************************************)
(* Reading the collections: what an actor may get (authorization/          *)
(* evaluator.rs), what a listing returns to it (the filters of             *)
(* modules/projects/visibility.rs, departments/repo.rs, clients/repo.rs    *)
(* and identity/service.rs, and the client portal), and the keyset pages a *)
(* listing is read in (shared/pagination.rs) while the tables and the      *)
(* actor's grants move.                                                    *)
(*                                                                         *)
(* One kind of record at a time, and the permission to read that kind; for *)
(* the tasks of a client's project also the one to read the project.  A    *)
(* listing is translated from the grants into a WHERE clause, so the same  *)
(* decision is written twice: once for one object and once for the table.  *)
(* A page is two steps: the request is authenticated, which loads the      *)
(* grants and the departments of the actor, and then the query runs.       *)
(*                                                                         *)
(* Abstracted: the envelope (the actor is of the principal type the        *)
(* permission is for: a client in the portal, internal elsewhere), the     *)
(* filters a caller adds, the encoding of the cursor, which is opaque and  *)
(* lossless, and malformed parameters, which are refused before any query. *)
(* An id is a number, as the order of UUIDs breaks ties between equal      *)
(* times.                                                                  *)
(***************************************************************************)
EXTENDS Naturals, FiniteSets

CONSTANTS
    Thing,          \* ids of records of the kind
    Me,             \* among users, the actor's own record
    Department, NoDepartment,
    Parent,         \* in the portal, the project whose tasks are listed
    Limits,         \* page sizes asked for
    MaxMoves,       \* bound on what happens beside the reader, for TLC
    InitialRows,    \* tables at the start
    InitialActors   \* actors at the start

Portal == {"portal project", "portal task"}
Whole == {"role", "invitation", "event"}    \* read as a whole or not at all
Kind == {"project", "task", "department", "client", "user"} \cup Portal \cup Whole

NoThing == 0

\* modules/authorization/domain.rs Scope: a type and, for RESOURCE, an object.
\* An object of another kind has another id, and would name nothing here.
Simple(type) == [type |-> type, thing |-> NoThing]
Scope == {Simple(type) : type \in {"GLOBAL", "OWN", "DEPARTMENT", "ASSIGNED"}}
            \cup {[type |-> "RESOURCE", thing |-> t] : t \in Thing}

\* The scopes that client.portal.projects.read may have, as the parent project sees them.
ParentScope ==
    {Simple(type) : type \in {"GLOBAL", "OWN", "DEPARTMENT", "ASSIGNED"}}
        \cup {[type |-> "RESOURCE", thing |-> Parent]}

\* ActorContext: departments holds the live memberships of active departments;
\* parentAllows and parentDenies are of the permission to read the parent project.
Actor == [root : BOOLEAN, allows : SUBSET Scope, denies : SUBSET Scope,
          parentAllows : SUBSET ParentScope, parentDenies : SUBSET ParentScope,
          departments : SUBSET (Department \cup Thing)]

\* A record, and what relates it to the actor: the department it is in; a live
\* membership of the project or department, an assignment to the task, or the
\* management of the account; for a department, whether it is active.  In the
\* portal, a live share of the project with an active account of which the actor is
\* an active member; and for a task, whether it is visible to clients.  The second
\* sort column is updated_at; of a role its name, of an invitation its expiry.
Row == [here : BOOLEAN, gone : BOOLEAN, created : Nat, updated : Nat,
        home : Department \cup {NoDepartment}, mine : BOOLEAN, open : BOOLEAN]

ASSUME ReadingAssumption ==
    /\ Thing \subseteq Nat \ {NoThing} /\ IsFiniteSet(Thing)
    /\ Department \subseteq Nat \ Thing
    /\ NoDepartment \in Nat \ (Thing \cup Department)
    /\ Parent \in Nat \ ({NoThing} \cup Thing \cup Department)
    /\ Limits \subseteq Nat \ {0} /\ Limits # {}
    /\ MaxMoves \in Nat
    /\ InitialRows \subseteq [Thing -> Row]
    /\ InitialActors \subseteq Actor
    /\ \A a \in InitialActors : a.root => a.denies = {}

VARIABLES
    kind,       \* the collection that is read
    actor,      \* the actor's authority, as the tables have it
    row,        \* the records
    now,        \* the clock of the database
    reader,     \* the listing being read
    listed,     \* how often the pages so far returned each record
    still,      \* records whose sort key has not changed since the first page
    steady,     \* those of them that the actor could see all the while
    moves       \* what happened beside the reader

vars == <<kind, actor, row, now, reader, listed, still, steady, moves>>

\* The departments an actor has when departments are what is read.
MyDepartments == {t \in Thing : row[t].here /\ row[t].mine /\ row[t].open}

TablesOK ==
    /\ kind \in Kind
    /\ actor \in Actor
    /\ row \in [Thing -> Row]
    /\ now \in Nat
    /\ actor.root => actor.denies = {}
    /\ kind = "department" => actor.departments = MyDepartments

Reader == [stage : {"idle", "asked", "read", "ended"}, sort : {"created", "updated"},
           ascending : BOOLEAN, limit : Limits, cursor : SUBSET (Nat \X Thing),
           actor : Actor]

TypeOK ==
    /\ TablesOK
    /\ reader \in Reader
    /\ listed \in [Thing -> Nat]
    /\ steady \subseteq still /\ still \subseteq Thing
    /\ moves \in 0..MaxMoves

----------------------------------------------------------------------------
(* One object: the evaluator.                                              *)

Types(scopes) == {s.type : s \in scopes}
Named(scopes) == {s.thing : s \in {r \in scopes : r.type = "RESOURCE"}}

\* TargetContext, as the GET of each kind fills it in.  Roles, invitations and events
\* are asked for as Target::Collection, which GLOBAL alone covers.
TargetDepartment(t) ==
    CASE kind \in {"project", "task"}  -> row[t].home
      [] kind = "department"           -> t
      [] OTHER                         -> NoDepartment

Covers(s, a, t) ==
    \/ s.type = "GLOBAL"
    \/ s.type = "OWN"        /\ kind = "user" /\ t = Me
    \/ s.type = "DEPARTMENT" /\ TargetDepartment(t) \in a.departments
    \/ s.type = "ASSIGNED"   /\ kind \notin Whole \cup {"user"} /\ row[t].mine
    \/ s.type = "RESOURCE"   /\ kind \notin Whole /\ s.thing = t

\* evaluate: ownership, then denials, then an allow that reaches the object.
May(a, t) ==
    \/ a.root
    \/ /\ \A d \in a.denies : ~Covers(d, a, t)
       /\ \E g \in a.allows : Covers(g, a, t)

\* PROJECT_VISIBLE_TO_CLIENT and TASK_VISIBLE_TO_CLIENT: in the portal the row is
\* found by what is shared, before any permission is looked at.
FoundProject(t) == kind = "portal project" /\ row[t].mine
FoundTask(t)    == kind = "portal task" /\ row[t].open /\ row[t].mine
PortalSees(t)   == FoundProject(t) \/ FoundTask(t)

\* GET of one record.  A portal row that was found is one the client is assigned to.
Gets(a, t) == May(a, t) /\ (kind \in Portal => PortalSees(t))

----------------------------------------------------------------------------
(* The table: the filters of the listings.                                 *)

\* effective_scopes: a GLOBAL denial removes the permission, a narrower one is
\* left to whoever looks at an object.
EffectiveScopes(a) ==
    IF a.root THEN {Simple("GLOBAL")}
    ELSE IF "GLOBAL" \in Types(a.denies) THEN {} ELSE a.allows

\* ScopeFilter::build with PROJECT_SCOPE_PREDICATE or TASK_SCOPE_PREDICATE, which
\* differ in where the department and the assignment are read.
InDepartments(a, t) == row[t].home # NoDepartment /\ row[t].home \in a.departments

\* Slip: the comparison without coalesce; NULL in NOT drops rows of no department.
FilterWithoutCoalesce(a, t) ==
    LET allowed == EffectiveScopes(a)
        denied  == IF a.root THEN {} ELSE a.denies
    IN  /\ \/ "GLOBAL" \in Types(allowed)
           \/ "DEPARTMENT" \in Types(allowed) /\ InDepartments(a, t)
           \/ "ASSIGNED" \in Types(allowed) /\ row[t].mine
           \/ t \in Named(allowed)
        /\ "DEPARTMENT" \in Types(denied) =>
                row[t].home # NoDepartment /\ row[t].home \notin a.departments
        /\ ~("ASSIGNED" \in Types(denied) /\ row[t].mine)
        /\ t \notin Named(denied)

ScopeFilter(a, t) ==
    LET allowed == EffectiveScopes(a)
        denied  == IF a.root THEN {} ELSE a.denies
    IN  /\ \/ "GLOBAL" \in Types(allowed)
           \/ "DEPARTMENT" \in Types(allowed) /\ InDepartments(a, t)
           \/ "ASSIGNED" \in Types(allowed) /\ row[t].mine
           \/ t \in Named(allowed)
        /\ ~("DEPARTMENT" \in Types(denied) /\ InDepartments(a, t))
        /\ ~("ASSIGNED" \in Types(denied) /\ row[t].mine)
        /\ t \notin Named(denied)

\* departments/repo.rs denied_ids, everything_minus_denials and visibility_for:
\* DEPARTMENT and ASSIGNED both stand for the departments the actor works in.
DepartmentIds(a, scopes) ==
    Named(scopes) \cup (IF {"DEPARTMENT", "ASSIGNED"} \cap Types(scopes) = {} THEN {}
                        ELSE a.departments)

DepartmentFilter(a, t) ==
    LET allowed == EffectiveScopes(a)
    IN  /\ "GLOBAL" \in Types(allowed) \/ t \in DepartmentIds(a, allowed)
        /\ t \notin DepartmentIds(a, a.denies)

\* clients/repo.rs contribution_for, visibility_for, denied_ids, Visibility::sql.
ClientFilter(a, t) ==
    LET allowed == EffectiveScopes(a)
    IN  /\ \/ "GLOBAL" \in Types(allowed)
           \/ t \in Named(allowed)
           \/ "ASSIGNED" \in Types(allowed) /\ row[t].mine
        /\ t \notin Named(a.denies)
        /\ ~("ASSIGNED" \in Types(a.denies) /\ row[t].mine)

\* identity/service.rs list_users: a DEPARTMENT scope replaces the named ids.
UserIds(scopes) == Named(scopes) \cup (IF "OWN" \in Types(scopes) THEN {Me} ELSE {})

UserFilter(a, t) ==
    LET allowed == EffectiveScopes(a)
    IN  /\ \/ "GLOBAL" \in Types(allowed)
           \/ "DEPARTMENT" \in Types(allowed) /\ InDepartments(a, t)
           \/ "DEPARTMENT" \notin Types(allowed) /\ t \in UserIds(allowed)
        /\ t \notin UserIds(a.denies)
        /\ ~("DEPARTMENT" \in Types(a.denies) /\ InDepartments(a, t))

\* One listing for each collection.
ListProjects(a, t)    == kind = "project"    /\ ScopeFilter(a, t)
ListTasks(a, t)       == kind = "task"       /\ ScopeFilter(a, t)
ListDepartments(a, t) == kind = "department" /\ DepartmentFilter(a, t)
ListClients(a, t)     == kind = "client"     /\ ClientFilter(a, t)
ListUsers(a, t)       == kind = "user"       /\ UserFilter(a, t)

\* The portal lists what is shared, to a client with any scope of the permission.
ListPortalProjects(a, t) ==
    /\ kind = "portal project"
    /\ EffectiveScopes(a) # {}
    /\ PortalSees(t)

\* projects::service::client_get of the parent project: another permission than that
\* of the tasks, for a project in no department which the client is assigned to.
CoversParent(s) == s.type \in {"GLOBAL", "ASSIGNED", "RESOURCE"}

ClientGetsProject(a) ==
    \/ a.root
    \/ /\ \A d \in a.parentDenies : ~CoversParent(d)
       /\ \E g \in a.parentAllows : CoversParent(g)

\* The tasks of the parent project, to a client that may get the project as well.
ListPortalTasks(a, t) ==
    /\ kind = "portal task"
    /\ EffectiveScopes(a) # {}
    /\ ClientGetsProject(a)
    /\ PortalSees(t)

ListRoles(a, t)       == kind = "role"       /\ May(a, t)
ListInvitations(a, t) == kind = "invitation" /\ May(a, t)
ListEvents(a, t)      == kind = "event"      /\ May(a, t)

Shown(a, t) ==
    /\ row[t].here
    /\ \/ ListProjects(a, t)
       \/ ListTasks(a, t)
       \/ ListDepartments(a, t)
       \/ ListClients(a, t)
       \/ ListUsers(a, t)
       \/ ListPortalProjects(a, t)
       \/ ListPortalTasks(a, t)
       \/ ListRoles(a, t)
       \/ ListInvitations(a, t)
       \/ ListEvents(a, t)

----------------------------------------------------------------------------
(* Pages.                                                                  *)

\* The sort columns a collection allows (SORTS): departments, client accounts and the
\* portal only the one that never changes, like the audit events.
Sorts ==
    IF kind \in {"department", "client", "event"} \cup Portal THEN {"created"}
    ELSE {"created", "updated"}

\* (column, id): the id makes the order total.
Key(t) == <<IF reader.sort = "created" THEN row[t].created ELSE row[t].updated, t>>

\* keyset_comparator, and ORDER BY in the same direction.
Less(k, l) == k[1] < l[1] \/ (k[1] = l[1] /\ k[2] < l[2])
Before(k, l) == IF reader.ascending THEN Less(k, l) ELSE Less(l, k)

\* The rows of the query, without its limit.
Beyond(c, t) == Before(c, Key(t))

\* The cursor of the roles is an id: its row is read again for the boundary, and
\* without the row the comparison is NULL.
BeyondRole(c, t) == row[c[2]].here /\ Before(Key(c[2]), Key(t))

Matching ==
    {t \in Thing :
        /\ Shown(reader.actor, t)
        /\ \A c \in reader.cursor :
              IF kind = "role" THEN BeyondRole(c, t) ELSE Beyond(c, t)}

First(things, n) ==
    {t \in things : Cardinality({u \in things : Before(Key(u), Key(t))}) < n}

LastOf(things) ==
    CHOOSE t \in things : \A u \in things : ~Before(Key(t), Key(u))

\* The request is authenticated: load_actor reads the grants and departments anew.
\* The first one begins the listing, the others bring the cursor of the page before.
Ask(sort, ascending, limit) ==
    /\ reader.stage \in {"idle", "read"}
    /\ IF reader.stage = "idle"
         THEN /\ sort \in Sorts
              /\ reader' = [reader EXCEPT !.stage = "asked", !.sort = sort,
                                          !.ascending = ascending, !.limit = limit,
                                          !.actor = actor]
              /\ still' = Thing
              /\ steady' = {t \in Thing : Shown(actor, t)}
         ELSE /\ sort = reader.sort /\ ascending = reader.ascending /\ limit = reader.limit
              /\ reader' = [reader EXCEPT !.stage = "asked", !.actor = actor]
              /\ UNCHANGED <<still, steady>>
    /\ UNCHANGED <<kind, actor, row, now, listed, moves>>

\* Slip: the cursor names the row that was only fetched to see whether there is one.
PageFromTheProbe ==
    LET fetched == First(Matching, reader.limit + 1)
        more    == Cardinality(fetched) > reader.limit
        items   == First(Matching, reader.limit)
    IN  /\ reader.stage = "asked"
        /\ listed' = [t \in Thing |-> IF t \in items THEN listed[t] + 1 ELSE listed[t]]
        /\ reader' = [reader EXCEPT
                !.stage = IF more THEN "read" ELSE "ended",
                !.cursor = IF more THEN {Key(LastOf(fetched))} ELSE {}]
        /\ UNCHANGED <<kind, actor, row, now, still, steady, moves>>

\* The query with its limit + 1, and Page::build.
Page ==
    LET fetched == First(Matching, reader.limit + 1)
        more    == Cardinality(fetched) > reader.limit
        items   == First(Matching, reader.limit)
    IN  /\ reader.stage = "asked"
        /\ listed' = [t \in Thing |-> IF t \in items THEN listed[t] + 1 ELSE listed[t]]
        /\ reader' = [reader EXCEPT
                !.stage = IF more THEN "read" ELSE "ended",
                !.cursor = IF more THEN {Key(LastOf(items))} ELSE {}]
        /\ UNCHANGED <<kind, actor, row, now, still, steady, moves>>

----------------------------------------------------------------------------
(* What others do meanwhile: each is one commit.                           *)

Beside ==
    /\ reader.stage # "ended"
    /\ moves < MaxMoves
    /\ moves' = moves + 1
    /\ UNCHANGED <<kind, reader, listed>>
    /\ still' = {t \in still : Key(t)' = Key(t)}
    /\ steady' = {t \in steady : /\ t \in still'
                                 /\ Shown(actor, t)'
                                 /\ reader.stage = "asked" => Shown(reader.actor, t)'}

\* created_at is the time its transaction began, so a row may turn up in the past.
Insert(t, at, home) ==
    /\ ~row[t].here /\ ~row[t].gone
    /\ row' = [row EXCEPT ![t] =
                [@ EXCEPT !.here = TRUE, !.created = at, !.updated = at,
                          !.home = home, !.mine = FALSE, !.open = kind # "portal task"]]
    /\ UNCHANGED <<actor, now>>
    /\ Beside

\* An edit stamps updated_at; an edit of a project may change its department.  That
\* of a task or a user changes with no edit of the row.  An event is never edited, and
\* an invitation keeps its expiry.
Edit(t, home) ==
    /\ row[t].here
    /\ kind \notin {"invitation", "event"}
    /\ kind = "project" \/ home = row[t].home
    /\ now' = now + 1
    /\ row' = [row EXCEPT ![t] = [@ EXCEPT !.updated = now + 1, !.home = home]]
    /\ UNCHANGED actor
    /\ Beside

Rehome(t, home) ==
    /\ row[t].here
    /\ kind \in {"task", "user"}
    /\ row' = [row EXCEPT ![t].home = home]
    /\ UNCHANGED <<actor, now>>
    /\ Beside

\* delete_role is the one deletion.
Remove(t) ==
    /\ kind = "role"
    /\ row[t].here
    /\ row' = [row EXCEPT ![t] = [@ EXCEPT !.here = FALSE, !.gone = TRUE]]
    /\ UNCHANGED <<actor, now>>
    /\ Beside

\* The actor's departments follow its memberships, when departments are what is read.
DepartmentsThen == IF kind = "department" THEN MyDepartments' ELSE actor.departments

Relate(t) ==
    /\ row[t].here
    /\ kind \notin Whole
    /\ row' = [row EXCEPT ![t].mine = ~row[t].mine]
    /\ actor' = [actor EXCEPT !.departments = DepartmentsThen]
    /\ UNCHANGED now
    /\ Beside

Archive(t) ==
    /\ kind = "department"
    /\ row[t].here /\ row[t].open
    /\ row' = [row EXCEPT ![t].open = FALSE]
    /\ actor' = [actor EXCEPT !.departments = DepartmentsThen]
    /\ UNCHANGED now
    /\ Beside

\* An edit of a task changes whether clients see it.
Reveal(t, seen) ==
    /\ kind = "portal task"
    /\ row[t].here
    /\ now' = now + 1
    /\ row' = [row EXCEPT ![t] = [@ EXCEPT !.updated = now + 1, !.open = seen]]
    /\ UNCHANGED actor
    /\ Beside

\* Grants, overrides and departments of the actor change; the owner has no denials.
Toggled(set, x) == (set \ {x}) \cup ({x} \ set)

Authorise(s) ==
    /\ ~actor.root
    /\ \/ actor' = [actor EXCEPT !.allows = Toggled(@, s)]
       \/ actor' = [actor EXCEPT !.denies = Toggled(@, s)]
    /\ UNCHANGED <<row, now>>
    /\ Beside

AuthoriseParent(s) ==
    /\ kind = "portal task"
    /\ ~actor.root
    /\ \/ actor' = [actor EXCEPT !.parentAllows = Toggled(@, s)]
       \/ actor' = [actor EXCEPT !.parentDenies = Toggled(@, s)]
    /\ UNCHANGED <<row, now>>
    /\ Beside

Settle(d) ==
    /\ kind # "department"
    /\ actor' = [actor EXCEPT !.departments = Toggled(@, d)]
    /\ UNCHANGED <<row, now>>
    /\ Beside

----------------------------------------------------------------------------
Init ==
    /\ kind \in Kind
    /\ row \in InitialRows
    /\ \E a \in InitialActors :
          actor = [a EXCEPT !.departments =
                      IF kind = "department" THEN MyDepartments ELSE a.departments]
    /\ now = 2
    /\ reader = [stage |-> "idle", sort |-> "created", ascending |-> FALSE,
                 limit |-> CHOOSE n \in Limits : TRUE, cursor |-> {}, actor |-> actor]
    /\ listed = [t \in Thing |-> 0]
    /\ still = {} /\ steady = {}
    /\ moves = 0

Move ==
    \/ \E t \in Thing, h \in Department \cup {NoDepartment} :
          \/ \E at \in 1..now : Insert(t, at, h)
          \/ Edit(t, h)
          \/ Rehome(t, h)
    \/ \E t \in Thing : Relate(t) \/ Archive(t) \/ Remove(t)
    \/ \E t \in Thing, seen \in BOOLEAN : Reveal(t, seen)
    \/ \E s \in Scope : Authorise(s)
    \/ \E s \in ParentScope : AuthoriseParent(s)
    \/ \E d \in Department : Settle(d)

Next ==
    \/ \E sort \in {"created", "updated"}, up \in BOOLEAN, n \in Limits : Ask(sort, up, n)
    \/ Page
    \/ Move

Spec == Init /\ [][Next]_vars

----------------------------------------------------------------------------
(* Properties.                                                             *)

\* The scopes that reach whatever a client is assigned to.
Wide == {"GLOBAL", "ASSIGNED"}

\* Where the two decisions are known to differ.  A DEPARTMENT scope on users filters
\* the listing by department, while GET /users/{id} gives a user no department; an
\* ASSIGNED scope reaches an archived department through GET alone; the portal lists
\* what is shared whatever the narrow scopes and the ASSIGNED denial of the permission
\* say; and the tasks of a project are listed only to whoever may also get the project,
\* by a permission that the GET of a task does not ask for.
Differs(a, t) ==
    \/ kind = "user" /\ "DEPARTMENT" \in Types(a.allows \cup a.denies)
    \/ /\ kind = "department"
       /\ row[t].mine /\ ~row[t].open
       /\ "ASSIGNED" \in Types(a.allows \cup a.denies)
    \/ /\ kind \in Portal
       /\ \/ t \in Named(a.denies)
          \/ Types(a.allows) \cap Wide = {} /\ a.allows # {}
          \/ "ASSIGNED" \in Types(a.denies)
          \/ kind = "portal task" /\ ~ClientGetsProject(a)

\* The listing of a collection has exactly the records that a GET of each would
\* return: the WHERE clause grants what the evaluator grants and denies what it
\* denies (projects/visibility.rs "mirrors evaluator::scope_covers clause for
\* clause"; departments/repo.rs and clients/repo.rs denied_ids).
ListAgreesWithGet ==
    \A t \in Thing :
        row[t].here /\ ~Differs(actor, t) => (Shown(actor, t) <=> Gets(actor, t))

\* A page of roles begins where the role at the end of the last page is now.
MovingBoundary ==
    kind = "role" /\ (reader.sort = "updated" \/ \E t \in Thing : row[t].gone)

\* A listing read to its end has returned exactly once each record that stayed
\* visible and kept its sort key from the first request on, and none whose key stayed
\* put more than once, whatever was inserted, edited or revoked between the pages
\* (shared/pagination.rs Cursor: no row is silently skipped or repeated).
SteadyRowsListedOnce ==
    ~MovingBoundary =>
        /\ \A t \in still : listed[t] <= 1
        /\ reader.stage = "ended" => \A t \in steady : listed[t] = 1

\* What authorization/repo.rs says of the pages of roles, and does not hold: when the
\* role at the end of a page is deleted, the next page is empty and the last one.
RolesListedOnce ==
    kind = "role" /\ reader.stage = "ended" => \A t \in steady : listed[t] = 1

\* What the comments on the sort columns say, and do not hold in general: a listing
\* by updated_at shows again what is edited while it is read.
NothingListedTwice == \A t \in Thing : listed[t] <= 1

=============================================================================
