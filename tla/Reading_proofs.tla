--------------------------- MODULE Reading_proofs ---------------------------
(***************************************************************************)
(* That a listing agrees with the object routes, for every set of records, *)
(* departments and grants.  The argument has two parts.  What a set of     *)
(* scopes reaches can be told from the types and the names in it, which is *)
(* all a filter looks at (Reach).  And the facts the two decisions share   *)
(* stay the same through every step (TablesOK): the owner has no denials,  *)
(* and the departments of the actor are the active ones it belongs to.     *)
(*                                                                         *)
(* That the pages of a listing skip and repeat nothing is an argument of   *)
(* its own: how a page cuts a finite, totally ordered set (LastPage,       *)
(* PageEnds), and that what lies past the cursor is what has not been      *)
(* returned (Counted).                                                     *)
(*                                                                         *)
(* The second half is about AuditChain: that a log found intact is the log *)
(* that was written, and that nothing else than the damage of the table    *)
(* raises an alarm.  What an intact run of entries says about the log      *)
(* (IntactRunIsWritten) needs no induction over it: the first entry that   *)
(* is not what it should be is what its own digest contradicts.            *)
(***************************************************************************)
EXTENDS Reading, AuditChain, FiniteSetTheorems, SequenceTheorems, WellFoundedInduction,
        TLAPS

\* The evaluator's scopes, one by one, say what the filters' flags and ids say.
LEMMA Reach ==
    ASSUME TablesOK, NEW S \in SUBSET Scope, NEW a \in Actor, NEW t \in Thing
    PROVE  (\E s \in S : Covers(s, a, t)) <=>
              \/ "GLOBAL" \in Types(S)
              \/ "OWN" \in Types(S) /\ kind = "user" /\ t = Me
              \/ "DEPARTMENT" \in Types(S) /\ TargetDepartment(t) \in a.departments
              \/ "ASSIGNED" \in Types(S) /\ kind \notin Whole \cup {"user"} /\ row[t].mine
              \/ kind \notin Whole /\ t \in Named(S)
<1>1. ASSUME NEW s \in S
      PROVE  s.type \in {"GLOBAL", "OWN", "DEPARTMENT", "ASSIGNED", "RESOURCE"}
    BY DEF Scope, Simple
<1>2. "GLOBAL" \in Types(S) <=> \E s \in S : s.type = "GLOBAL"
    BY DEF Types
<1>3. "OWN" \in Types(S) <=> \E s \in S : s.type = "OWN"
    BY DEF Types
<1>4. "DEPARTMENT" \in Types(S) <=> \E s \in S : s.type = "DEPARTMENT"
    BY DEF Types
<1>5. "ASSIGNED" \in Types(S) <=> \E s \in S : s.type = "ASSIGNED"
    BY DEF Types
<1>6. t \in Named(S) <=> \E s \in S : s.type = "RESOURCE" /\ s.thing = t
    BY DEF Named
<1> QED
    BY <1>1, <1>2, <1>3, <1>4, <1>5, <1>6, Zenon DEF Covers

\* What the owner holds.
LEMMA OwnerHolds == "GLOBAL" \in Types({Simple("GLOBAL")})
BY DEF Types, Simple

LEMMA NothingHeld == Types({}) = {} /\ Named({}) = {}
BY DEF Types, Named

\* The effective scopes of an actor that is not the owner, by the flags they set.
LEMMA Effective ==
    ASSUME NEW a \in Actor, ~a.root
    PROVE  /\ "GLOBAL" \in Types(a.denies) => EffectiveScopes(a) = {}
           /\ "GLOBAL" \notin Types(a.denies) => EffectiveScopes(a) = a.allows
BY DEF EffectiveScopes

\* Departments are numbers of their own, so a record of none is in none of them.
LEMMA NowhereIsNone ==
    ASSUME NEW a \in Actor
    PROVE  NoDepartment \notin a.departments
BY ReadingAssumption DEF Actor

\* The listing agrees with the object route, record by record.
THEOREM Agreement ==
    ASSUME TablesOK
    PROVE  ListAgreesWithGet
<1> SUFFICES ASSUME NEW t \in Thing, row[t].here, ~Differs(actor, t)
             PROVE  Shown(actor, t) <=> Gets(actor, t)
    BY DEF ListAgreesWithGet
<1>a. actor \in Actor /\ kind \in Kind
    BY DEF TablesOK
<1>1. CASE actor.root
    <2>1. May(actor, t)
        BY <1>1 DEF May
    <2>2. actor.denies = {}
        BY <1>1 DEF TablesOK
    <2>3. EffectiveScopes(actor) = {Simple("GLOBAL")}
        BY <1>1 DEF EffectiveScopes
    <2>4. "GLOBAL" \in Types(EffectiveScopes(actor))
        BY <2>3, OwnerHolds
    <2>5. ScopeFilter(actor, t)
        BY <1>1, <2>4, NothingHeld DEF ScopeFilter
    <2>6. DepartmentIds(actor, actor.denies) = {} /\ UserIds(actor.denies) = {}
        BY <2>2, NothingHeld DEF DepartmentIds, UserIds
    <2>7. DepartmentFilter(actor, t)
        BY <2>4, <2>6 DEF DepartmentFilter
    <2>8. ClientFilter(actor, t)
        BY <2>2, <2>4, NothingHeld DEF ClientFilter
    <2>9. UserFilter(actor, t)
        BY <2>2, <2>4, <2>6, NothingHeld DEF UserFilter
    <2>10. EffectiveScopes(actor) # {}
        BY <2>3
    <2>11. Gets(actor, t) <=> (kind \in Portal => PortalSees(t))
        BY <2>1 DEF Gets
    <2>12. CASE kind \in Portal
        BY <1>1, <2>10, <2>11, <2>12
        DEF Shown, Portal, ListProjects, ListTasks, ListDepartments, ListClients, ListUsers,
            ListPortalProjects, ListPortalTasks, ClientGetsProject, ListRoles,
            ListInvitations, ListEvents
    <2>13. CASE kind \notin Portal
        BY <1>a, <2>1, <2>5, <2>7, <2>8, <2>9, <2>11, <2>13
        DEF Shown, Kind, Whole, ListProjects, ListTasks, ListDepartments, ListClients,
            ListUsers, ListRoles, ListInvitations, ListEvents
    <2> QED
        BY <2>12, <2>13
<1>2. CASE ~actor.root
    <2> DEFINE G == actor.allows
               D == actor.denies
    <2>1. G \in SUBSET Scope /\ D \in SUBSET Scope
        BY <1>a DEF Actor
    <2>2. May(actor, t) <=>
              (\E s \in G : Covers(s, actor, t)) /\ ~(\E s \in D : Covers(s, actor, t))
        BY <1>2 DEF May
    <2>3. CASE "GLOBAL" \in Types(D)
        <3>1. ~May(actor, t)
            BY <1>a, <2>1, <2>2, <2>3, Reach
        <3>2. Types(EffectiveScopes(actor)) = {} /\ Named(EffectiveScopes(actor)) = {}
            BY <1>2, <1>a, <2>3, Effective, NothingHeld
        <3>3. DepartmentIds(actor, EffectiveScopes(actor)) = {}
            BY <3>2 DEF DepartmentIds
        <3>4. UserIds(EffectiveScopes(actor)) = {}
            BY <3>2 DEF UserIds
        <3>5. ~ScopeFilter(actor, t) /\ ~DepartmentFilter(actor, t)
            BY <3>2, <3>3 DEF ScopeFilter, DepartmentFilter
        <3>6. ~ClientFilter(actor, t) /\ ~UserFilter(actor, t)
            BY <3>2, <3>4 DEF ClientFilter, UserFilter
        <3>7. EffectiveScopes(actor) = {}
            BY <1>2, <1>a, <2>3, Effective
        <3> QED
            BY <3>1, <3>5, <3>6, <3>7
            DEF Shown, Gets, ListProjects, ListTasks, ListDepartments, ListClients,
                ListUsers, ListPortalProjects, ListPortalTasks, ListRoles, ListInvitations,
                ListEvents
    <2>4. CASE "GLOBAL" \notin Types(D)
        <3>1. EffectiveScopes(actor) = G
            BY <1>2, <1>a, <2>4, Effective
        <3>2. (\E s \in G : Covers(s, actor, t)) <=>
                \/ "GLOBAL" \in Types(G)
                \/ "OWN" \in Types(G) /\ kind = "user" /\ t = Me
                \/ "DEPARTMENT" \in Types(G) /\ TargetDepartment(t) \in actor.departments
                \/ "ASSIGNED" \in Types(G) /\ kind \notin Whole \cup {"user"} /\ row[t].mine
                \/ kind \notin Whole /\ t \in Named(G)
            BY <1>a, <2>1, Reach
        <3>3. (\E s \in D : Covers(s, actor, t)) <=>
                \/ "GLOBAL" \in Types(D)
                \/ "OWN" \in Types(D) /\ kind = "user" /\ t = Me
                \/ "DEPARTMENT" \in Types(D) /\ TargetDepartment(t) \in actor.departments
                \/ "ASSIGNED" \in Types(D) /\ kind \notin Whole \cup {"user"} /\ row[t].mine
                \/ kind \notin Whole /\ t \in Named(D)
            BY <1>a, <2>1, Reach
        <3>4. NoDepartment \notin actor.departments
            BY <1>a, NowhereIsNone
        <3>5. CASE kind \in {"project", "task"}
            <4>1. TargetDepartment(t) = row[t].home
                BY <3>5 DEF TargetDepartment
            <4>2. Shown(actor, t) <=> ScopeFilter(actor, t)
                BY <3>5
                DEF Shown, ListProjects, ListTasks, ListDepartments, ListClients,
                    ListUsers, ListPortalProjects, ListPortalTasks, ListRoles, ListInvitations,
                    ListEvents, Portal
            <4>g. Gets(actor, t) <=> May(actor, t)
                BY <3>5 DEF Gets, Portal
            <4>w. kind \notin Whole \cup {"user"}
                BY <3>5 DEF Whole
            <4>3. InDepartments(actor, t) <=> TargetDepartment(t) \in actor.departments
                BY <3>4, <4>1 DEF InDepartments
            <4> QED
                BY <1>2, <2>2, <2>4, <3>1, <3>2, <3>3, <3>5, <4>g, <4>w, <4>2, <4>3
                DEF ScopeFilter
        <3>6. CASE kind = "department"
            <4>1. TargetDepartment(t) = t
                BY <3>6 DEF TargetDepartment
            <4>2. Shown(actor, t) <=> DepartmentFilter(actor, t)
                BY <3>6
                DEF Shown, ListProjects, ListTasks, ListDepartments, ListClients,
                    ListUsers, ListPortalProjects, ListPortalTasks, ListRoles, ListInvitations,
                    ListEvents, Portal
            <4>g. Gets(actor, t) <=> May(actor, t)
                BY <3>6 DEF Gets, Portal
            <4>w. kind \notin Whole \cup {"user"}
                BY <3>6 DEF Whole
            <4>3. t \in actor.departments <=> row[t].mine /\ row[t].open
                BY <3>6 DEF TablesOK, MyDepartments
            <4>4. "ASSIGNED" \in Types(G) \/ "ASSIGNED" \in Types(D) =>
                        (row[t].mine <=> t \in actor.departments)
                <5>1. Types(G \cup D) = Types(G) \cup Types(D)
                    BY DEF Types
                <5> QED
                    BY <3>6, <4>3, <5>1 DEF Differs
            <4>5. ASSUME NEW S
                  PROVE  t \in DepartmentIds(actor, S) <=>
                            \/ t \in Named(S)
                            \/ "DEPARTMENT" \in Types(S) /\ t \in actor.departments
                            \/ "ASSIGNED" \in Types(S) /\ t \in actor.departments
                BY DEF DepartmentIds
            <4> QED
                BY <2>2, <2>4, <3>1, <3>2, <3>3, <3>6, <4>g, <4>w, <4>1, <4>2, <4>4, <4>5
                DEF DepartmentFilter
        <3>7. CASE kind = "client"
            <4>1. TargetDepartment(t) = NoDepartment
                BY <3>7 DEF TargetDepartment
            <4>2. Shown(actor, t) <=> ClientFilter(actor, t)
                BY <3>7
                DEF Shown, ListProjects, ListTasks, ListDepartments, ListClients,
                    ListUsers, ListPortalProjects, ListPortalTasks, ListRoles, ListInvitations,
                    ListEvents, Portal
            <4>g. Gets(actor, t) <=> May(actor, t)
                BY <3>7 DEF Gets, Portal
            <4>w. kind \notin Whole \cup {"user"}
                BY <3>7 DEF Whole
            <4> QED
                BY <2>2, <2>4, <3>1, <3>2, <3>3, <3>4, <3>7, <4>g, <4>w, <4>1, <4>2
                DEF ClientFilter
        <3>8. CASE kind = "user"
            <4>1. TargetDepartment(t) = NoDepartment
                BY <3>8 DEF TargetDepartment
            <4>2. Shown(actor, t) <=> UserFilter(actor, t)
                BY <3>8
                DEF Shown, ListProjects, ListTasks, ListDepartments, ListClients,
                    ListUsers, ListPortalProjects, ListPortalTasks, ListRoles, ListInvitations,
                    ListEvents, Portal
            <4>g. Gets(actor, t) <=> May(actor, t)
                BY <3>8 DEF Gets, Portal
            <4>w. kind \notin Whole
                BY <3>8 DEF Whole
            <4>3. "DEPARTMENT" \notin Types(G) /\ "DEPARTMENT" \notin Types(D)
                <5>1. Types(G \cup D) = Types(G) \cup Types(D)
                    BY DEF Types
                <5> QED
                    BY <3>8, <5>1 DEF Differs
            <4>4. ASSUME NEW S
                  PROVE  t \in UserIds(S) <=>
                            t \in Named(S) \/ ("OWN" \in Types(S) /\ t = Me)
                BY DEF UserIds
            <4> QED
                BY <2>2, <2>4, <3>1, <3>2, <3>3, <3>4, <3>8, <4>g, <4>w, <4>1, <4>2, <4>3, <4>4
                DEF UserFilter
        <3>9. CASE kind \in Portal
            <4>1. TargetDepartment(t) = NoDepartment
                BY <3>9 DEF TargetDepartment, Portal
            <4>2. Gets(actor, t) <=> May(actor, t) /\ PortalSees(t)
                BY <3>9 DEF Gets
            <4>3. CASE G = {}
                <5>1. ~May(actor, t)
                    BY <2>2, <4>3
                <5>2. EffectiveScopes(actor) = {}
                    BY <3>1, <4>3
                <5> QED
                    BY <3>9, <4>2, <5>1, <5>2
                    DEF Shown, ListProjects, ListTasks, ListDepartments, ListClients,
                        ListUsers, ListPortalProjects, ListPortalTasks, ListRoles, ListInvitations,
                    ListEvents, Portal
            <4>4. CASE G # {}
                <5>1. Types(G) \cap Wide # {} /\ t \notin Named(D)
                    BY <3>9, <4>4 DEF Differs
                <5>2. ASSUME PortalSees(t)
                      PROVE  May(actor, t) <=> "ASSIGNED" \notin Types(D)
                    <6>1. row[t].mine /\ kind \notin Whole \cup {"user"}
                        BY <3>9, <5>2 DEF PortalSees, FoundProject, FoundTask, Portal, Whole
                    <6>2. "GLOBAL" \in Types(G) \/ "ASSIGNED" \in Types(G)
                        BY <5>1 DEF Wide
                    <6> QED
                        BY <2>2, <2>4, <3>2, <3>3, <3>4, <4>1, <5>1, <6>1, <6>2
                <5>3. EffectiveScopes(actor) # {}
                    BY <3>1, <4>4
                <5>6. "ASSIGNED" \notin Types(D)
                    BY <3>9 DEF Differs
                <5>4. CASE kind = "portal project"
                    <6>2. Shown(actor, t) <=> PortalSees(t)
                        BY <5>3, <5>4
                        DEF Shown, ListProjects, ListTasks, ListDepartments, ListClients,
                            ListUsers, ListPortalProjects, ListPortalTasks, ListRoles, ListInvitations,
                ListEvents
                    <6> QED
                        BY <4>2, <5>2, <5>6, <6>2
                <5>5. CASE kind = "portal task"
                    <6>1. ClientGetsProject(actor)
                        BY <3>9, <5>5 DEF Differs
                    <6>2. Shown(actor, t) <=> PortalSees(t)
                        BY <5>3, <5>5, <6>1
                        DEF Shown, ListProjects, ListTasks, ListDepartments, ListClients,
                            ListUsers, ListPortalProjects, ListPortalTasks, ListRoles, ListInvitations,
                ListEvents
                    <6> QED
                        BY <4>2, <5>2, <5>6, <6>2
                <5> QED
                    BY <3>9, <5>4, <5>5 DEF Portal
            <4> QED
                BY <4>3, <4>4
        <3>10. CASE kind \in Whole
            BY <3>10
            DEF Shown, Gets, ListProjects, ListTasks, ListDepartments, ListClients, ListUsers,
                ListPortalProjects, ListPortalTasks, ListRoles, ListInvitations,
                ListEvents, Portal, Whole
        <3> QED
            BY <1>a, <3>5, <3>6, <3>7, <3>8, <3>9, <3>10 DEF Kind
    <2> QED
        BY <2>3, <2>4
<1> QED
    BY <1>1, <1>2

----------------------------------------------------------------------------

LEMMA TablesInit == Init => TablesOK
<1> SUFFICES ASSUME Init PROVE TablesOK
    OBVIOUS
<1>1. PICK a \in InitialActors :
          actor = [a EXCEPT !.departments =
                      IF kind = "department" THEN MyDepartments ELSE a.departments]
    BY DEF Init
<1>2. a \in Actor /\ (a.root => a.denies = {})
    BY ReadingAssumption
<1>3. kind \in Kind /\ row \in [Thing -> Row]
    BY ReadingAssumption DEF Init
<1>4. MyDepartments \subseteq Thing
    BY DEF MyDepartments
<1>5. actor \in Actor
    BY <1>1, <1>2, <1>4 DEF Actor
<1>6. actor.root = a.root /\ actor.denies = a.denies
    BY <1>1, <1>2 DEF Actor
<1>7. kind = "department" => actor.departments = MyDepartments
    BY <1>1, <1>2 DEF Actor
<1>8. now \in Nat
    BY DEF Init
<1> QED
    BY <1>2, <1>3, <1>5, <1>6, <1>7, <1>8 DEF TablesOK

\* What happens beside the reader touches the facts one at a time.
LEMMA TablesStep == TablesOK /\ [Next]_vars => TablesOK'
<1> SUFFICES ASSUME TablesOK, [Next]_vars PROVE TablesOK'
    OBVIOUS
<1>a. /\ kind \in Kind /\ actor \in Actor /\ row \in [Thing -> Row] /\ now \in Nat
      /\ actor.root => actor.denies = {}
      /\ kind = "department" => actor.departments = MyDepartments
    BY DEF TablesOK
<1>0. ASSUME kind' = kind, row' \in [Thing -> Row], actor' = actor, now' \in Nat,
             MyDepartments' = MyDepartments
      PROVE  TablesOK'
    BY <1>a, <1>0 DEF TablesOK
<1>b. ASSUME kind' = kind, actor' = actor, row' = row, now' = now
      PROVE  TablesOK'
    BY <1>a, <1>b DEF TablesOK, MyDepartments
<1>1. ASSUME NEW t \in Thing, NEW at \in 1..now, NEW h \in Department \cup {NoDepartment},
             Insert(t, at, h)
      PROVE  TablesOK'
    <2>1. row' \in [Thing -> Row]
        <3>1. at \in Nat /\ row[t] \in Row
            BY <1>a, <1>1
        <3>2. row' = [row EXCEPT ![t] =
                        [row[t] EXCEPT !.here = TRUE, !.created = at, !.updated = at,
                                       !.home = h, !.mine = FALSE,
                                       !.open = kind # "portal task"]]
            BY <1>a, <1>1 DEF Insert
        <3>3. [row[t] EXCEPT !.here = TRUE, !.created = at, !.updated = at,
                             !.home = h, !.mine = FALSE,
                             !.open = kind # "portal task"] \in Row
            BY <3>1 DEF Row
        <3> QED
            BY <1>a, <3>2, <3>3
    <2>2. MyDepartments' = MyDepartments
        BY <1>a, <1>1 DEF Insert, MyDepartments, Row
    <2> QED
        BY <1>0, <1>1, <1>a, <2>1, <2>2 DEF Insert, Beside
<1>2. ASSUME NEW t \in Thing, NEW h \in Department \cup {NoDepartment}, Edit(t, h)
      PROVE  TablesOK'
    <2>1. row' \in [Thing -> Row]
        <3>1. row[t] \in Row /\ now + 1 \in Nat
            BY <1>a
        <3>2. row' = [row EXCEPT ![t] = [row[t] EXCEPT !.updated = now + 1, !.home = h]]
            BY <1>a, <1>2 DEF Edit
        <3>3. [row[t] EXCEPT !.updated = now + 1, !.home = h] \in Row
            BY <3>1 DEF Row
        <3> QED
            BY <1>a, <3>2, <3>3
    <2>2. MyDepartments' = MyDepartments
        BY <1>a, <1>2 DEF Edit, MyDepartments, Row
    <2> QED
        BY <1>0, <1>2, <1>a, <2>1, <2>2 DEF Edit, Beside
<1>3. ASSUME NEW t \in Thing, NEW h \in Department \cup {NoDepartment}, Rehome(t, h)
      PROVE  TablesOK'
    <2>1. row' \in [Thing -> Row]
        BY <1>a, <1>3 DEF Rehome, Row
    <2>2. MyDepartments' = MyDepartments
        BY <1>a, <1>3 DEF Rehome, MyDepartments, Row
    <2> QED
        BY <1>0, <1>3, <1>a, <2>1, <2>2 DEF Rehome, Beside
<1>11. ASSUME NEW t \in Thing, NEW seen \in BOOLEAN, Reveal(t, seen)
       PROVE  TablesOK'
    <2>1. row' \in [Thing -> Row]
        <3>1. row[t] \in Row /\ now + 1 \in Nat
            BY <1>a
        <3>2. row' = [row EXCEPT ![t] = [row[t] EXCEPT !.updated = now + 1, !.open = seen]]
            BY <1>a, <1>11 DEF Reveal
        <3>3. [row[t] EXCEPT !.updated = now + 1, !.open = seen] \in Row
            BY <3>1 DEF Row
        <3> QED
            BY <1>a, <3>2, <3>3
    <2>2. kind' = kind
        BY <1>11 DEF Reveal, Beside
    <2>3. now' = now + 1 /\ actor' = actor /\ kind = "portal task"
        BY <1>11 DEF Reveal
    <2>4. now' \in Nat
        <3>1. now + 1 \in Nat
            BY <1>a
        <3> QED
            BY <2>3, <3>1
    <2>5. kind' # "department"
        BY <2>2, <2>3
    <2> QED
        BY <1>a, <2>1, <2>2, <2>3, <2>4, <2>5, Zenon DEF TablesOK
<1>12. ASSUME NEW t \in Thing, Remove(t)
       PROVE  TablesOK'
    <2>1. row' \in [Thing -> Row]
        BY <1>a, <1>12 DEF Remove, Row
    <2>2. kind' = kind /\ kind # "department"
        BY <1>12 DEF Remove, Beside
    <2>3. now' = now /\ actor' = actor
        BY <1>12 DEF Remove
    <2> QED
        BY <1>a, <2>1, <2>2, <2>3 DEF TablesOK
<1>c. ASSUME row' \in [Thing -> Row], actor' = [actor EXCEPT !.departments = DepartmentsThen],
             kind' = kind, now' = now
      PROVE  TablesOK'
    <2>1. MyDepartments' \subseteq Thing
        BY DEF MyDepartments
    <2>2. actor' \in Actor
        <3>1. DepartmentsThen \in SUBSET (Department \cup Thing)
            BY <1>a, <2>1 DEF Actor, DepartmentsThen
        <3> QED
            BY <1>a, <1>c, <3>1 DEF Actor
    <2>3. actor'.root = actor.root /\ actor'.denies = actor.denies
        BY <1>a, <1>c DEF Actor
    <2>4. kind = "department" => actor'.departments = MyDepartments'
        <3>1. actor'.departments = DepartmentsThen
            BY <1>a, <1>c DEF Actor
        <3> QED
            BY <3>1 DEF DepartmentsThen
    <2> QED
        BY <1>a, <1>c, <2>2, <2>3, <2>4 DEF TablesOK
<1>4. ASSUME NEW t \in Thing, Relate(t)
      PROVE  TablesOK'
    <2>1. row' \in [Thing -> Row]
        BY <1>a, <1>4 DEF Relate, Row
    <2> QED
        BY <1>c, <1>4, <2>1 DEF Relate, Beside
<1>5. ASSUME NEW t \in Thing, Archive(t)
      PROVE  TablesOK'
    <2>1. row' \in [Thing -> Row]
        BY <1>a, <1>5 DEF Archive, Row
    <2> QED
        BY <1>c, <1>5, <2>1 DEF Archive, Beside
<1>d. ASSUME row' = row, kind' = kind, now' = now, actor' \in Actor,
             actor'.root => actor'.denies = {},
             kind = "department" => actor'.departments = actor.departments
      PROVE  TablesOK'
    BY <1>a, <1>d DEF TablesOK, MyDepartments
<1>6. ASSUME NEW s \in Scope, Authorise(s)
      PROVE  TablesOK'
    <2>1. ASSUME NEW X \in SUBSET Scope PROVE Toggled(X, s) \in SUBSET Scope
        BY DEF Toggled
    <2>2. actor' \in Actor
        BY <1>a, <1>6, <2>1 DEF Authorise, Actor
    <2>3. ~actor'.root /\ actor'.departments = actor.departments
        BY <1>a, <1>6 DEF Authorise, Actor
    <2> QED
        BY <1>d, <1>6, <2>2, <2>3 DEF Authorise, Beside
<1>13. ASSUME NEW s \in ParentScope, AuthoriseParent(s)
       PROVE  TablesOK'
    <2>1. ASSUME NEW X \in SUBSET ParentScope PROVE Toggled(X, s) \in SUBSET ParentScope
        BY DEF Toggled
    <2>2. actor' \in Actor
        BY <1>a, <1>13, <2>1 DEF AuthoriseParent, Actor
    <2>3. ~actor'.root /\ actor'.departments = actor.departments
        BY <1>a, <1>13 DEF AuthoriseParent, Actor
    <2> QED
        BY <1>d, <1>13, <2>2, <2>3 DEF AuthoriseParent, Beside
<1>7. ASSUME NEW d \in Department, Settle(d)
      PROVE  TablesOK'
    <2>1. actor' \in Actor
        BY <1>a, <1>7 DEF Settle, Actor, Toggled
    <2>2. actor'.root = actor.root /\ actor'.denies = actor.denies
        BY <1>a, <1>7 DEF Settle, Actor
    <2> QED
        BY <1>a, <1>d, <1>7, <2>1, <2>2 DEF Settle, Beside
<1>8. ASSUME NEW sort, NEW up, NEW n, Ask(sort, up, n)
      PROVE  TablesOK'
    BY <1>b, <1>8 DEF Ask
<1>9. ASSUME Page
      PROVE  TablesOK'
    BY <1>b, <1>9 DEF Page
<1>10. ASSUME UNCHANGED vars
       PROVE  TablesOK'
    BY <1>b, <1>10 DEF vars
<1> QED
    BY <1>1, <1>2, <1>3, <1>4, <1>5, <1>6, <1>7, <1>8, <1>9, <1>10, <1>11, <1>12,
       <1>13
    DEF Next, Move

\* The facts that the two decisions share, in every state.
THEOREM TablesAreSound == Spec => []TablesOK
BY TablesInit, TablesStep, PTL DEF Spec

\* In every state, for every collection, the records of the listing are those whose
\* own route the actor may use (but for the places of Differs).
THEOREM ListingsAgree == Spec => []ListAgreesWithGet
BY TablesAreSound, Agreement, PTL

-----------------------------------------------------------------------------
(* Pages: the order of the keys, and what a page takes of it.              *)

\* The records that come before t among things.
Ahead(things, t) == {u \in things : Before(Key(u), Key(t))}

LEMMA LeastNat ==
    ASSUME NEW T, T \subseteq Nat, T # {}
    PROVE  \E n \in T : \A m \in T : n <= m
<1>1. PICK n \in T : \A m \in T : ~(<<m, n>> \in OpToRel(<, Nat))
    BY NatLessThanWellFounded, WFMin, Zenon
<1>2. \A m \in T : ~(m < n)
    BY <1>1, Zenon DEF OpToRel
<1> QED
    BY <1>2

\* Keys are pairs of numbers, and the id makes their order total.
LEMMA KeyTyped ==
    ASSUME TablesOK, NEW t \in Thing
    PROVE  Key(t) \in Nat \X Thing /\ Key(t)[2] = t
BY DEF TablesOK, Row, Key

LEMMA Ordered ==
    ASSUME NEW k \in Nat \X Thing, NEW l \in Nat \X Thing, NEW m \in Nat \X Thing
    PROVE  /\ ~Before(k, k)
           /\ Before(k, l) /\ Before(l, m) => Before(k, m)
           /\ k[2] # l[2] => Before(k, l) \/ Before(l, k)
<1>1. /\ k[1] \in Nat /\ l[1] \in Nat /\ m[1] \in Nat
      /\ k[2] \in Nat /\ l[2] \in Nat /\ m[2] \in Nat
    BY ReadingAssumption
<1>2. /\ ~Less(k, k)
      /\ Less(k, l) /\ Less(l, m) => Less(k, m)
      /\ Less(m, l) /\ Less(l, k) => Less(m, k)
      /\ k[2] # l[2] => Less(k, l) \/ Less(l, k)
    BY <1>1 DEF Less
<1> QED
    BY <1>2, Zenon DEF Before

LEMMA OrderOfRecords ==
    ASSUME TablesOK
    PROVE  /\ \A t \in Thing : ~Before(Key(t), Key(t))
           /\ \A t, u, v \in Thing :
                 Before(Key(t), Key(u)) /\ Before(Key(u), Key(v)) => Before(Key(t), Key(v))
           /\ \A t, u \in Thing : t # u => Before(Key(t), Key(u)) \/ Before(Key(u), Key(t))
BY KeyTyped, Ordered, Zenon

LEMMA Counting ==
    ASSUME NEW things, things \subseteq Thing
    PROVE  IsFiniteSet(things) /\ Cardinality(things) \in Nat
BY ReadingAssumption, FS_Subset, FS_CardinalityType

\* A record that comes later has more before it.
LEMMA Ranks ==
    ASSUME TablesOK, NEW things, things \subseteq Thing,
           NEW t \in things, NEW u \in things, Before(Key(u), Key(t))
    PROVE  Cardinality(Ahead(things, u)) < Cardinality(Ahead(things, t))
<1>1. Ahead(things, u) \subseteq Ahead(things, t)
    BY OrderOfRecords DEF Ahead
<1>2. u \in Ahead(things, t) /\ u \notin Ahead(things, u)
    BY OrderOfRecords DEF Ahead
<1>3. Ahead(things, t) \subseteq Thing /\ Ahead(things, u) \subseteq Thing
    BY DEF Ahead
<1>4. /\ IsFiniteSet(Ahead(things, t)) /\ Cardinality(Ahead(things, t)) \in Nat
      /\ Cardinality(Ahead(things, u)) \in Nat
    BY <1>3, Counting
<1>5. /\ Cardinality(Ahead(things, u)) <= Cardinality(Ahead(things, t))
      /\ Cardinality(Ahead(things, t)) = Cardinality(Ahead(things, u)) =>
            Ahead(things, t) = Ahead(things, u)
    BY <1>1, <1>4, FS_Subset
<1> QED
    BY <1>2, <1>4, <1>5

\* A set of records has one that none precedes, and one that precedes none.
LEMMA Earliest ==
    ASSUME TablesOK, NEW things, things \subseteq Thing, things # {}
    PROVE  \E f \in things : \A u \in things : ~Before(Key(u), Key(f))
<1> DEFINE N(t) == Cardinality(Ahead(things, t))
           D == {N(t) : t \in things}
<1>1. \A t \in things : Ahead(things, t) \subseteq Thing
    BY DEF Ahead
<1>2. \A t \in things : N(t) \in Nat
    BY <1>1, Counting
<1>3. D \subseteq Nat /\ D # {}
    BY <1>2
<1>4. PICK n \in D : \A m \in D : n <= m
    BY <1>3, LeastNat
<1>5. PICK f \in things : n = N(f)
    BY <1>4
<1>6. \A u \in things : N(f) <= N(u)
    BY <1>4, <1>5
<1>7. \A u \in things : Before(Key(u), Key(f)) => N(u) < N(f)
    BY Ranks
<1> HIDE DEF N, D
<1> QED
    BY <1>2, <1>6, <1>7

LEMMA LatestAreLast ==
    ASSUME TablesOK, NEW things, things \subseteq Thing, things # {}
    PROVE  \E l \in things : \A u \in things : ~Before(Key(l), Key(u))
<1> DEFINE C == Cardinality(things)
           N(t) == Cardinality(Ahead(things, t))
           D == {C - N(t) : t \in things}
<1>1. \A t \in things : Ahead(things, t) \subseteq things
    BY DEF Ahead
<1>2. IsFiniteSet(things) /\ C \in Nat
    BY Counting
<1>3. \A t \in things : N(t) \in Nat /\ N(t) <= C
    BY <1>1, <1>2, Counting, FS_Subset
<1> HIDE DEF C, N
<1>4. D \subseteq Nat /\ D # {}
    BY <1>2, <1>3
<1>5. PICK n \in D : \A m \in D : n <= m
    BY <1>4, LeastNat
<1>6. PICK l \in things : n = C - N(l)
    BY <1>5
<1>7. \A u \in things : C - N(l) <= C - N(u)
    BY <1>5, <1>6
<1>8. \A u \in things : Before(Key(l), Key(u)) => N(l) < N(u)
    BY Ranks DEF N
<1> QED
    BY <1>2, <1>3, <1>7, <1>8

\* What comes before a record of the first n is one of them.
LEMMA FirstIsClosed ==
    ASSUME TablesOK, NEW things, things \subseteq Thing, NEW n \in Nat,
           NEW t \in First(things, n), NEW u \in things, Before(Key(u), Key(t))
    PROVE  u \in First(things, n)
<1>1. t \in things /\ Cardinality(Ahead(things, t)) < n
    BY DEF First, Ahead
<1>2. Cardinality(Ahead(things, u)) < Cardinality(Ahead(things, t))
    BY <1>1, Ranks
<1>3. /\ Cardinality(Ahead(things, u)) \in Nat
      /\ Cardinality(Ahead(things, t)) \in Nat
    BY Counting DEF Ahead
<1>4. Cardinality(Ahead(things, u)) < n
    BY <1>1, <1>2, <1>3
<1> QED
    BY <1>4 DEF First, Ahead

\* If one more than n cannot be had, the first n are all.
LEMMA LastPage ==
    ASSUME TablesOK, NEW things, things \subseteq Thing, NEW n \in Nat,
           Cardinality(First(things, n + 1)) <= n
    PROVE  First(things, n) = things
<1> SUFFICES ASSUME things \ First(things, n) # {} PROVE FALSE
    BY DEF First
<1>1. PICK f \in things \ First(things, n) :
          \A u \in things \ First(things, n) : ~Before(Key(u), Key(f))
    BY Earliest
<1> DEFINE A == Ahead(things, f)
           B == First(things, n + 1)
<1>2. A \subseteq Thing /\ B \subseteq Thing /\ f \notin A /\ A \subseteq things
    BY OrderOfRecords DEF Ahead, First
<1>3. /\ IsFiniteSet(A) /\ IsFiniteSet(B)
      /\ Cardinality(A) \in Nat /\ Cardinality(B) \in Nat
    BY <1>2, Counting
<1>4. ~(Cardinality(A) < n)
    BY <1>1 DEF First, Ahead
<1>5. First(things, n) \subseteq B
    <2>1. \A t \in things : Cardinality(Ahead(things, t)) \in Nat
        BY Counting DEF Ahead
    <2> QED
        BY <2>1 DEF First, Ahead
<1>6. A \subseteq B
    BY <1>1, <1>2, <1>5 DEF Ahead
<1>7. Cardinality(A) <= Cardinality(B)
    BY <1>3, <1>6, FS_Subset
<1>8. CASE Cardinality(A) = n
    <2>1. f \in B
        BY <1>1, <1>8 DEF First, Ahead
    <2>2. A \cup {f} \subseteq B
        BY <1>6, <2>1
    <2>3. Cardinality(A \cup {f}) = n + 1
        BY <1>2, <1>3, <1>8, FS_AddElement
    <2>4. Cardinality(A \cup {f}) <= Cardinality(B)
        BY <1>3, <2>2, FS_Subset
    <2> QED
        BY <1>3, <2>3, <2>4
<1> HIDE DEF A, B
<1>9. Cardinality(B) <= n
    BY DEF B
<1> QED
    BY <1>3, <1>4, <1>7, <1>8, <1>9

\* If there are more than n, there is a first page.
LEMMA FirstPage ==
    ASSUME TablesOK, NEW things, things \subseteq Thing, NEW n \in Nat \ {0}, things # {}
    PROVE  First(things, n) # {}
<1>1. PICK f \in things : \A u \in things : ~Before(Key(u), Key(f))
    BY Earliest
<1>2. {u \in things : Before(Key(u), Key(f))} = {}
    BY <1>1
<1>3. Cardinality({u \in things : Before(Key(u), Key(f))}) = 0
    BY <1>2, FS_EmptySet
<1> QED
    BY <1>3 DEF First

\* A page ends at its last record: what was not taken lies beyond it.
LEMMA PageEnds ==
    ASSUME TablesOK, NEW things, things \subseteq Thing, NEW n \in Nat,
           First(things, n) # {}
    PROVE  /\ LastOf(First(things, n)) \in First(things, n)
           /\ \A t \in things : t \in First(things, n) <=>
                 ~Before(Key(LastOf(First(things, n))), Key(t))
<1> DEFINE T == First(things, n)
           l == LastOf(T)
<1>1. T \subseteq things /\ T \subseteq Thing
    BY DEF First
<1>2. \E t \in T : \A u \in T : ~Before(Key(t), Key(u))
    BY <1>1, LatestAreLast
<1>3. l \in T /\ \A u \in T : ~Before(Key(l), Key(u))
    BY <1>2 DEF LastOf
<1>4. ASSUME NEW t \in things, ~Before(Key(l), Key(t))
      PROVE  t \in T
    <2>1. t = l \/ Before(Key(t), Key(l))
        BY <1>1, <1>3, <1>4, OrderOfRecords
    <2> QED
        BY <1>3, <1>4, <2>1, FirstIsClosed
<1> QED
    BY <1>3, <1>4

-----------------------------------------------------------------------------
(* What the pages have returned so far.                                    *)

\* The reader of a page is sound.
LEMMA TypesInit == Init => TypeOK
<1> SUFFICES ASSUME Init PROVE TypeOK
    OBVIOUS
<1>1. TablesOK
    BY TablesInit
<1>2. (CHOOSE n \in Limits : TRUE) \in Limits
    BY ReadingAssumption
<1>3. reader \in Reader
    BY <1>1, <1>2 DEF Init, Reader, TablesOK
<1> QED
    BY <1>1, <1>3, ReadingAssumption DEF Init, TypeOK

LEMMA MoveIsBeside == Move => Beside
BY Zenon DEF Move, Insert, Edit, Rehome, Remove, Relate, Archive, Reveal, Authorise,
             AuthoriseParent, Settle

LEMMA TypesStep == TypeOK /\ [Next]_vars => TypeOK'
<1> SUFFICES ASSUME TypeOK, [Next]_vars PROVE TypeOK'
    OBVIOUS
<1>1. TablesOK /\ TablesOK'
    BY TablesStep DEF TypeOK
<1>2. ASSUME NEW sort \in {"created", "updated"}, NEW up \in BOOLEAN, NEW n \in Limits,
             Ask(sort, up, n)
      PROVE  TypeOK'
    <2>1. reader' \in Reader
        <3>1. reader \in Reader /\ actor \in Actor
            BY <1>1 DEF TypeOK, TablesOK
        <3>2. CASE reader' = [reader EXCEPT !.stage = "asked", !.sort = sort,
                                            !.ascending = up, !.limit = n, !.actor = actor]
            BY <3>1, <3>2 DEF Reader
        <3>3. CASE reader' = [reader EXCEPT !.stage = "asked", !.actor = actor]
            BY <3>1, <3>3 DEF Reader
        <3> QED
            BY <1>2, <3>2, <3>3, Zenon DEF Ask
    <2>2. steady' \subseteq still' /\ still' \subseteq Thing
        BY <1>2 DEF Ask, TypeOK
    <2> QED
        BY <1>1, <1>2, <2>1, <2>2 DEF Ask, TypeOK
<1>3. CASE Page
    <2> DEFINE items == First(Matching, reader.limit)
    <2>1. /\ listed' = [t \in Thing |-> IF t \in items THEN listed[t] + 1 ELSE listed[t]]
          /\ \E s \in {"read", "ended"}, c \in {{}, {Key(LastOf(items))}} :
                /\ reader' = [reader EXCEPT !.stage = s, !.cursor = c]
                /\ c # {} => First(Matching, reader.limit + 1) # {}
          /\ UNCHANGED <<kind, actor, row, now, still, steady, moves>>
        <3> DEFINE more == Cardinality(First(Matching, reader.limit + 1)) > reader.limit
        <3>1. CASE more
            <4>1. First(Matching, reader.limit + 1) # {}
                <5>1. Cardinality({}) = 0 /\ reader.limit \in Nat
                    BY FS_EmptySet, ReadingAssumption DEF TypeOK, Reader
                <5>2. ~(0 > reader.limit)
                    BY <5>1
                <5> QED
                    BY <3>1, <5>1, <5>2
            <4> QED
                BY <1>3, <3>1, <4>1 DEF Page
        <3>2. CASE ~more
            BY <1>3, <3>2 DEF Page
        <3> QED
            BY <3>1, <3>2
    <2>2. PICK s \in {"read", "ended"}, c \in {{}, {Key(LastOf(items))}} :
                /\ reader' = [reader EXCEPT !.stage = s, !.cursor = c]
                /\ c # {} => First(Matching, reader.limit + 1) # {}
        BY <2>1
    <2>3. Matching \subseteq Thing /\ reader.limit \in Nat \ {0}
        BY ReadingAssumption DEF Matching, TypeOK, Reader
    <2>4. c \in SUBSET (Nat \X Thing)
        <3>1. CASE c = {}
            BY <3>1
        <3>2. CASE c # {}
            <4>1. Matching # {}
                BY <2>2, <3>2 DEF First
            <4>2. items # {}
                BY <1>1, <2>3, <4>1, FirstPage
            <4>3. LastOf(items) \in Thing
                BY <1>1, <2>3, <4>2, PageEnds DEF First
            <4> QED
                BY <1>1, <2>2, <3>2, <4>3, KeyTyped
        <3> QED
            BY <3>1, <3>2
    <2>5. reader' \in Reader
        BY <2>2, <2>4 DEF TypeOK, Reader
    <2>6. listed' \in [Thing -> Nat]
        BY <2>1 DEF TypeOK
    <2> QED
        BY <1>1, <2>1, <2>5, <2>6 DEF TypeOK
<1>4. CASE Move
    <2>1. Beside
        BY <1>4, MoveIsBeside
    <2>2. reader' = reader /\ listed' = listed /\ reader \in Reader /\ listed \in [Thing -> Nat]
        BY <2>1 DEF Beside, TypeOK
    <2>3. moves' \in 0..MaxMoves
        BY <2>1, ReadingAssumption DEF Beside, TypeOK
    <2>4. steady' \subseteq still' /\ still' \subseteq Thing
        <3>1. /\ still' = {t \in still : Key(t)' = Key(t)}
              /\ \A t \in steady' : t \in still'
            BY <2>1 DEF Beside
        <3> QED
            BY <3>1 DEF TypeOK
    <2> QED
        BY <1>1, <2>2, <2>3, <2>4 DEF TypeOK
<1>5. CASE UNCHANGED vars
    BY <1>1, <1>5 DEF vars, TypeOK
<1> QED
    BY <1>2, <1>3, <1>4, <1>5 DEF Next

\* A record never comes back, and one that is there keeps the time it was made.
LEMMA RowsStay ==
    ASSUME TablesOK, Move, NEW t \in Thing
    PROVE  /\ row[t].gone => row'[t].gone
           /\ row[t].here /\ ~row'[t].gone => row'[t].here /\ row'[t].created = row[t].created
<1>1. row \in [Thing -> Row] /\ row[t] \in Row
    BY DEF TablesOK
<1>2. ASSUME NEW u \in Thing, NEW at \in 1..now, NEW h \in Department \cup {NoDepartment},
             Insert(u, at, h)
      PROVE  /\ row[t].gone => row'[t].gone
             /\ row[t].here => row'[t].here /\ row'[t].created = row[t].created
    BY <1>1, <1>2 DEF Insert, Row
<1>3. ASSUME NEW u \in Thing, NEW h \in Department \cup {NoDepartment},
             Edit(u, h) \/ Rehome(u, h)
      PROVE  /\ row[t].gone => row'[t].gone
             /\ row[t].here => row'[t].here /\ row'[t].created = row[t].created
    <2>1. CASE Edit(u, h)
        BY <1>1, <2>1 DEF Edit, Row
    <2>2. CASE Rehome(u, h)
        BY <1>1, <2>2 DEF Rehome, Row
    <2> QED
        BY <1>3, <2>1, <2>2
<1>4. ASSUME NEW u \in Thing, Relate(u) \/ Archive(u)
      PROVE  /\ row[t].gone => row'[t].gone
             /\ row[t].here => row'[t].here /\ row'[t].created = row[t].created
    BY <1>1, <1>4 DEF Relate, Archive, Row
<1>5. ASSUME NEW u \in Thing, Remove(u)
      PROVE  /\ row[t].gone => row'[t].gone
             /\ row[t].here /\ ~row'[t].gone => row'[t].here /\ row'[t].created = row[t].created
    BY <1>1, <1>5 DEF Remove, Row
<1>6. ASSUME NEW u \in Thing, NEW seen \in BOOLEAN, Reveal(u, seen)
      PROVE  /\ row[t].gone => row'[t].gone
             /\ row[t].here => row'[t].here /\ row'[t].created = row[t].created
    BY <1>1, <1>6 DEF Reveal, Row
<1>7. ASSUME \/ \E s \in Scope : Authorise(s)
             \/ \E s \in ParentScope : AuthoriseParent(s)
             \/ \E d \in Department : Settle(d)
      PROVE  row' = row
    BY <1>7 DEF Authorise, AuthoriseParent, Settle
<1> QED
    BY <1>2, <1>3, <1>4, <1>5, <1>6, <1>7 DEF Move

\* The rows that a page has still to show lie past the cursor.
PastCursor(t) == \A c \in reader.cursor : Before(c, Key(t))

\* The cursor of the roles names a row that is there and where it was.
CursorStays ==
    kind = "role" => \A c \in reader.cursor : row[c[2]].here /\ Key(c[2]) = c

Reading == reader.stage \in {"asked", "read"}

Unread ==
    reader.stage = "idle" =>
        /\ reader.sort = "created" /\ reader.cursor = {}
        /\ \A t \in Thing : listed[t] = 0

Counted ==
    /\ Reading =>
          /\ \A t \in still : listed[t] <= 1 /\ (PastCursor(t) => listed[t] = 0)
          /\ \A t \in steady : PastCursor(t) \/ listed[t] = 1
          /\ CursorStays
    /\ reader.stage = "ended" =>
          (\A t \in still : listed[t] <= 1) /\ (\A t \in steady : listed[t] = 1)

\* What is steady the actor may see, and so may the request that is under way.
SteadySeen ==
    /\ Reading => \A t \in steady : Shown(actor, t)
    /\ reader.stage = "asked" => \A t \in steady : Shown(reader.actor, t)

PagesOK == TypeOK /\ Unread /\ SteadySeen /\ (~MovingBoundary => Counted)

LEMMA PagesInit == Init => PagesOK
<1> SUFFICES ASSUME Init PROVE PagesOK
    OBVIOUS
<1>1. Counted /\ SteadySeen /\ Unread
    BY DEF Init, Counted, SteadySeen, Unread, Reading
<1> QED
    BY <1>1, TypesInit DEF PagesOK

\* Where the boundary is a row that stays, the next page begins at the key.
LEMMA WhatMatches ==
    ASSUME CursorStays, NEW t \in Thing
    PROVE  t \in Matching <=> Shown(reader.actor, t) /\ PastCursor(t)
BY DEF Matching, CursorStays, PastCursor, Beyond, BeyondRole

\* An expression over unchanged tables is unchanged.
LEMMA SameShown ==
    ASSUME UNCHANGED <<kind, row>>
    PROVE  \A a, t : Shown(a, t)' <=> Shown(a, t)
<1> SUFFICES ASSUME NEW a, NEW t PROVE Shown(a, t)' <=> Shown(a, t)
    OBVIOUS
<1>0. kind' = kind /\ row' = row
    OBVIOUS
<1>1. \A s : Covers(s, a, t)' <=> Covers(s, a, t)
    BY <1>0 DEF Covers, TargetDepartment
<1>2. May(a, t)' <=> May(a, t)
    BY <1>1 DEF May
<1>3. ScopeFilter(a, t)' <=> ScopeFilter(a, t)
    BY <1>0 DEF ScopeFilter, InDepartments, EffectiveScopes
<1>4. DepartmentFilter(a, t)' <=> DepartmentFilter(a, t)
    BY DEF DepartmentFilter, DepartmentIds, EffectiveScopes
<1>5. ClientFilter(a, t)' <=> ClientFilter(a, t)
    BY <1>0 DEF ClientFilter, EffectiveScopes
<1>6. UserFilter(a, t)' <=> UserFilter(a, t)
    BY <1>0 DEF UserFilter, UserIds, InDepartments, EffectiveScopes
<1>7. PortalSees(t)' <=> PortalSees(t)
    BY <1>0 DEF PortalSees, FoundProject, FoundTask
<1>8. ListPortalProjects(a, t)' <=> ListPortalProjects(a, t)
    BY <1>0, <1>7 DEF ListPortalProjects, EffectiveScopes
<1>9. ListPortalTasks(a, t)' <=> ListPortalTasks(a, t)
    BY <1>0, <1>7 DEF ListPortalTasks, ClientGetsProject, EffectiveScopes
<1> QED
    BY <1>0, <1>2, <1>3, <1>4, <1>5, <1>6, <1>8, <1>9
    DEF Shown, ListProjects, ListTasks, ListDepartments, ListClients, ListUsers,
        ListRoles, ListInvitations, ListEvents

LEMMA AskStep ==
    ASSUME PagesOK, NEW sort, NEW up, NEW n \in Limits, Ask(sort, up, n), TypeOK'
    PROVE  PagesOK'
<1>1. reader \in Reader /\ TypeOK
    BY DEF PagesOK, TypeOK
<1>2. /\ reader'.stage = "asked" /\ reader'.actor = actor /\ reader'.cursor = reader.cursor
      /\ actor' = actor /\ listed' = listed /\ kind' = kind /\ row' = row
    BY <1>1 DEF Ask, Reader
<1>3. \A t \in steady' : Shown(actor, t)
    BY <1>1 DEF Ask, PagesOK, SteadySeen, Reading, Reader
<1>5. SteadySeen'
    BY <1>2, <1>3, SameShown DEF SteadySeen, Reading
<1>6. ASSUME ~MovingBoundary'
      PROVE  Counted'
    <2>1. CASE reader.stage = "idle"
        <3>1. ~MovingBoundary
            BY <1>2, <1>6, <2>1 DEF MovingBoundary, PagesOK, Unread
        <3>2. reader'.cursor = {} /\ \A t \in Thing : listed[t] = 0
            BY <1>2, <2>1 DEF PagesOK, Unread
        <3>3. CursorStays' /\ \A t : PastCursor(t)'
            BY <3>2 DEF CursorStays, PastCursor
        <3>4. still' \subseteq Thing /\ steady' \subseteq Thing
            BY DEF TypeOK
        <3> QED
            BY <1>2, <3>2, <3>3, <3>4 DEF Counted, Reading
    <2>2. CASE reader.stage = "read"
        <3>1. /\ reader' = [reader EXCEPT !.stage = "asked", !.actor = actor]
              /\ still' = still /\ steady' = steady
            BY <2>2 DEF Ask
        <3>2. reader'.sort = reader.sort /\ reader'.ascending = reader.ascending
            BY <1>1, <3>1 DEF Reader
        <3>3. ~MovingBoundary
            BY <1>2, <1>6, <3>2 DEF MovingBoundary
        <3>4. \A t : Key(t)' = Key(t)
            BY <1>2, <3>2 DEF Key
        <3>5. \A k, l : Before(k, l)' <=> Before(k, l)
            BY <3>2 DEF Before, Less
        <3>6. \A t : PastCursor(t)' <=> PastCursor(t)
            BY <1>2, <3>2 DEF PastCursor, Before, Less, Key
        <3>7. CursorStays => CursorStays'
            BY <1>2, <3>4 DEF CursorStays
        <3> QED
            BY <1>2, <2>2, <3>1, <3>3, <3>6, <3>7 DEF Counted, Reading, PagesOK
    <2> QED
        BY <2>1, <2>2 DEF Ask
<1> QED
    BY <1>2, <1>5, <1>6 DEF PagesOK, Unread

LEMMA MoveStep ==
    ASSUME PagesOK, Move, TypeOK'
    PROVE  PagesOK'
<1>1. Beside /\ TablesOK
    BY MoveIsBeside DEF PagesOK, TypeOK
<1>2. /\ kind' = kind /\ reader' = reader /\ listed' = listed
      /\ \A t \in still' : t \in still /\ Key(t)' = Key(t)
      /\ \A t \in steady' : /\ t \in steady /\ t \in still'
                            /\ Shown(actor, t)'
                            /\ reader.stage = "asked" => Shown(reader.actor, t)'
    BY <1>1 DEF Beside
<1>3. SteadySeen'
    BY <1>2 DEF SteadySeen
<1>4. Unread'
    BY <1>2 DEF PagesOK, Unread
<1>5. ASSUME ~MovingBoundary'
      PROVE  Counted'
    <2>1. \A t \in Thing : row[t].gone => row'[t].gone
        BY <1>1, RowsStay
    <2>2. Counted
        BY <1>2, <1>5, <2>1 DEF MovingBoundary, PagesOK
    <2>3. \A k, l : Before(k, l)' <=> Before(k, l)
        BY <1>2 DEF Before, Less
    <2>4. \A t \in still' : PastCursor(t)' <=> PastCursor(t)
        BY <1>2, <2>3 DEF PastCursor
    <2>5. steady' \subseteq still'
        BY <1>2
    <2>6. ASSUME kind = "role", Reading, NEW c \in reader.cursor
          PROVE  row'[c[2]].here /\ Key(c[2])' = c
        <3>1. row[c[2]].here /\ Key(c[2]) = c /\ c[2] \in Thing
            BY <2>2, <2>6 DEF Counted, CursorStays, PagesOK, TypeOK, Reader
        <3>2. ~row'[c[2]].gone /\ reader.sort # "updated"
            BY <1>2, <1>5, <2>6, <3>1 DEF MovingBoundary
        <3>3. row'[c[2]].here /\ row'[c[2]].created = row[c[2]].created
            BY <1>1, <3>1, <3>2, RowsStay
        <3>4. reader.sort = "created"
            BY <3>2 DEF PagesOK, TypeOK, Reader
        <3> QED
            BY <1>2, <3>1, <3>3, <3>4 DEF Key
    <2>7. Reading => CursorStays'
        BY <1>2, <2>6 DEF CursorStays
    <2> QED
        BY <1>2, <2>2, <2>4, <2>5, <2>7 DEF Counted, Reading
<1> QED
    BY <1>3, <1>4, <1>5 DEF PagesOK

LEMMA PageStep ==
    ASSUME PagesOK, Page, TypeOK'
    PROVE  PagesOK'
<1> DEFINE items == First(Matching, reader.limit)
           more  == Cardinality(First(Matching, reader.limit + 1)) > reader.limit
<1>1. /\ TypeOK /\ TablesOK /\ reader \in Reader /\ reader.stage = "asked"
      /\ Matching \subseteq Thing /\ items \subseteq Matching
      /\ reader.limit \in Nat \ {0}
      /\ listed \in [Thing -> Nat]
    BY ReadingAssumption DEF PagesOK, TypeOK, Page, Reader, Matching, First
<1>2. /\ listed' = [t \in Thing |-> IF t \in items THEN listed[t] + 1 ELSE listed[t]]
      /\ reader' = [reader EXCEPT !.stage = IF more THEN "read" ELSE "ended",
                                  !.cursor = IF more THEN {Key(LastOf(items))} ELSE {}]
      /\ kind' = kind /\ actor' = actor /\ row' = row /\ still' = still /\ steady' = steady
    BY DEF Page
<1>3. /\ reader'.stage = IF more THEN "read" ELSE "ended"
      /\ reader'.cursor = IF more THEN {Key(LastOf(items))} ELSE {}
      /\ reader'.sort = reader.sort /\ reader'.ascending = reader.ascending
    BY <1>1, <1>2 DEF Reader
<1>4. SteadySeen'
    BY <1>1, <1>2, <1>3, SameShown DEF SteadySeen, PagesOK, Reading
<1>5. Unread'
    BY <1>3 DEF Unread
<1>6. ASSUME ~MovingBoundary'
      PROVE  Counted'
    <2>1. Counted /\ Reading
        BY <1>1, <1>2, <1>3, <1>6 DEF MovingBoundary, PagesOK, Reading
    <2>2. /\ \A t \in Thing : t \in Matching <=> Shown(reader.actor, t) /\ PastCursor(t)
          /\ \A t \in still : listed[t] <= 1 /\ (PastCursor(t) => listed[t] = 0)
          /\ \A t \in steady : PastCursor(t) \/ listed[t] = 1
          /\ steady \subseteq still /\ still \subseteq Thing
        BY <1>1, <2>1, WhatMatches DEF Counted, TypeOK
    <2>3. \A t \in Thing : listed'[t] = IF t \in items THEN listed[t] + 1 ELSE listed[t]
        BY <1>2
    <2>4. \A t \in still : listed'[t] <= 1
        BY <1>1, <2>2, <2>3
    <2>5. \A t \in steady : t \in Matching \/ listed[t] = 1
        BY <1>1, <2>2 DEF PagesOK, SteadySeen
    <2>6. \A t \in Thing : t \notin Matching => listed'[t] = listed[t]
        BY <1>1, <2>3
    <2>7. \A t \in steady : t \in items => listed'[t] = 1
        BY <1>1, <2>2, <2>3
    <2>8. \A t \in steady : t \notin Matching => listed'[t] = 1
        BY <2>2, <2>5, <2>6
    <2>9. CASE ~more
        <3>1. Cardinality(First(Matching, reader.limit + 1)) \in Nat
            BY <1>1, Counting DEF First
        <3>2. items = Matching
            <4>1. Cardinality(First(Matching, reader.limit + 1)) <= reader.limit
                BY <1>1, <2>9, <3>1
            <4> QED
                BY <1>1, <4>1, LastPage
        <3>3. \A t \in steady : listed'[t] = 1
            BY <2>7, <2>8, <3>2
        <3> QED
            BY <1>2, <1>3, <2>4, <2>9, <3>3 DEF Counted, Reading
    <2>10. CASE more
        <3> DEFINE l == LastOf(items)
        <3>1. items # {}
            <4>1. Matching # {}
                <5>1. SUFFICES ASSUME Matching = {} PROVE FALSE
                    OBVIOUS
                <5>2. First(Matching, reader.limit + 1) = {}
                    BY <5>1 DEF First
                <5> QED
                    BY <1>1, <2>10, <5>2, FS_EmptySet
            <4> QED
                BY <1>1, <4>1, FirstPage
        <3>2. l \in items /\ \A t \in Matching : t \in items <=> ~Before(Key(l), Key(t))
            BY <1>1, <3>1, PageEnds
        <3>3. l \in Thing /\ Shown(reader.actor, l) /\ PastCursor(l)
            BY <1>1, <2>2, <3>2
        <3>4. ASSUME NEW t \in Thing, Before(Key(l), Key(t))
              PROVE  PastCursor(t)
            <4>1. \A c \in reader.cursor : c \in Nat \X Thing
                BY <1>1 DEF Reader
            <4>2. Key(l) \in Nat \X Thing /\ Key(t) \in Nat \X Thing
                BY <1>1, <3>3, KeyTyped
            <4> QED
                BY <3>3, <3>4, <4>1, <4>2, Ordered DEF PastCursor
        <3>5. PICK m \in Thing : m = l
            BY <3>3
        <3>6. reader'.cursor = {Key(m)} /\ reader'.stage = "read"
            BY <1>3, <2>10, <3>5
        <3>7. \A t : Key(t)' = Key(t)
            BY <1>2, <1>3 DEF Key
        <3>8. \A t \in Thing : PastCursor(t)' <=> Before(Key(m), Key(t))
            BY <1>3, <3>6, <3>7 DEF PastCursor, Before, Less
        <3>9. \A t \in still : PastCursor(t)' => listed'[t] = 0
            <4> SUFFICES ASSUME NEW t \in still, PastCursor(t)' PROVE listed'[t] = 0
                OBVIOUS
            <4>1. t \in Thing /\ Before(Key(l), Key(t))
                BY <2>2, <3>5, <3>8
            <4>2. PastCursor(t)
                BY <3>4, <4>1
            <4>3. t \notin items
                BY <1>1, <3>2, <4>1
            <4> QED
                BY <2>2, <2>3, <4>1, <4>2, <4>3
        <3>10. \A t \in steady : PastCursor(t)' \/ listed'[t] = 1
            <4> SUFFICES ASSUME NEW t \in steady, ~PastCursor(t)' PROVE listed'[t] = 1
                OBVIOUS
            <4>1. t \in Thing /\ ~Before(Key(l), Key(t))
                BY <2>2, <3>5, <3>8
            <4> QED
                BY <2>7, <2>8, <3>2, <4>1
        <3>11. CursorStays'
            <4>1. row[m].here
                BY <3>3, <3>5 DEF Shown
            <4>2. Key(m)[2] = m
                BY <1>1, KeyTyped
            <4> QED
                BY <1>2, <3>6, <3>7, <4>1, <4>2 DEF CursorStays
        <3> QED
            BY <1>2, <2>4, <3>6, <3>9, <3>10, <3>11 DEF Counted, Reading
    <2> QED
        BY <2>9, <2>10
<1> QED
    BY <1>4, <1>5, <1>6 DEF PagesOK

LEMMA PagesStep == PagesOK /\ [Next]_vars => PagesOK'
<1> SUFFICES ASSUME PagesOK, [Next]_vars PROVE PagesOK'
    OBVIOUS
<1>1. TypeOK'
    BY TypesStep DEF PagesOK
<1>2. ASSUME NEW sort \in {"created", "updated"}, NEW up \in BOOLEAN, NEW n \in Limits,
             Ask(sort, up, n)
      PROVE  PagesOK'
    BY <1>1, <1>2, AskStep
<1>3. CASE Page
    BY <1>1, <1>3, PageStep
<1>4. CASE Move
    BY <1>1, <1>4, MoveStep
<1>5. CASE UNCHANGED vars
    <2>1. /\ kind' = kind /\ row' = row /\ actor' = actor /\ reader' = reader
          /\ listed' = listed /\ still' = still /\ steady' = steady
        BY <1>5 DEF vars
    <2>2. SteadySeen'
        BY <2>1, SameShown DEF PagesOK, SteadySeen, Reading
    <2>3. \A t : PastCursor(t)' <=> PastCursor(t)
        BY <2>1 DEF PastCursor, Before, Less, Key
    <2>4. CursorStays' <=> CursorStays
        BY <2>1 DEF CursorStays, Key
    <2>5. MovingBoundary' <=> MovingBoundary
        BY <2>1 DEF MovingBoundary
    <2>6. Counted' <=> Counted
        BY <2>1, <2>3, <2>4 DEF Counted, Reading
    <2> QED
        BY <1>1, <2>1, <2>2, <2>5, <2>6 DEF PagesOK, Unread
<1> QED
    BY <1>2, <1>3, <1>4, <1>5 DEF Next

\* The types of the tables, of the reader and of what it has read.
THEOREM ReadingTypes == Spec => []TypeOK
<1>1. PagesOK => TypeOK
    BY DEF PagesOK
<1> QED
    BY <1>1, PagesInit, PagesStep, PTL DEF Spec

\* "No row is silently skipped or repeated" (shared/pagination.rs Cursor), for any
\* number of records, any page size and whatever happens between the pages: what stayed
\* visible and in its place is listed exactly once, and what stayed in its place at most
\* once, where the boundary of a page is the key of its last record.
THEOREM NothingSkippedOrRepeated == Spec => []SteadyRowsListedOnce
<1>1. PagesOK => SteadyRowsListedOnce
    <2> SUFFICES ASSUME PagesOK, ~MovingBoundary
                 PROVE  /\ \A t \in still : listed[t] <= 1
                        /\ reader.stage = "ended" => \A t \in steady : listed[t] = 1
        BY DEF SteadyRowsListedOnce
    <2>1. Counted /\ Unread /\ TypeOK
        BY DEF PagesOK
    <2>2. reader.stage = "idle" => \A t \in still : listed[t] <= 1
        BY <2>1 DEF Unread, TypeOK
    <2>3. reader.stage \in {"idle", "asked", "read", "ended"}
        BY <2>1 DEF TypeOK, Reader
    <2> QED
        BY <2>1, <2>2, <2>3 DEF Counted, Reading
<1> QED
    BY <1>1, PagesInit, PagesStep, PTL DEF Spec

-----------------------------------------------------------------------------
(***************************************************************************)
(* The audit log.                                                          *)
(***************************************************************************)
-----------------------------------------------------------------------------
(* Lists.                                                                  *)

\* The elements of a list.
Items(s) == {s[i] : i \in DOMAIN s}

LEMMA ListFacts ==
    ASSUME NEW s, IsList(s)
    PROVE  /\ s \in Seq(Items(s))
           /\ Len(s) \in Nat
           /\ DOMAIN s = 1..Len(s)
           /\ s = <<>> <=> Len(s) = 0
<1>1. s \in Seq(Items(s))
    BY DEF IsList, Items
<1>2. Len(s) \in Nat /\ DOMAIN s = 1..Len(s)
    BY <1>1, LenProperties
<1>3. s # <<>> => Len(s) \in Nat \ {0}
    BY <1>1, EmptySeq
<1>4. Len(<<>>) = 0
    BY EmptySeq
<1> QED
    BY <1>1, <1>2, <1>3, <1>4

LEMMA ListOf ==
    ASSUME NEW S, NEW s \in Seq(S)
    PROVE  IsList(s)
<1>1. Len(s) \in Nat /\ s \in [1..Len(s) -> S] /\ DOMAIN s = 1..Len(s)
    BY LenProperties
<1>2. s \in [1..Len(s) -> Items(s)]
    BY <1>1 DEF Items
<1> QED
    BY <1>1, <1>2, SeqDef DEF IsList, Items

LEMMA EmptyList == IsList(<<>>) /\ Len(<<>>) = 0 /\ DOMAIN <<>> = {}
<1>1. <<>> \in Seq({}) /\ Len(<<>>) = 0
    BY EmptySeq
<1>2. IsList(<<>>)
    BY <1>1, ListOf
<1>3. DOMAIN <<>> = 1..0
    BY <1>1, LenProperties
<1> QED
    BY <1>1, <1>2, <1>3

\* Two lists with the same elements in the same places are the same.
LEMMA SameList ==
    ASSUME NEW s, NEW t, IsList(s), IsList(t), Len(s) = Len(t),
           \A i \in 1..Len(s) : s[i] = t[i]
    PROVE  s = t
<1>1. s \in Seq(Items(s)) /\ t \in Seq(Items(t))
    BY ListFacts
<1>2. s \in Seq(Items(s) \cup Items(t)) /\ t \in Seq(Items(s) \cup Items(t))
    BY <1>1, SeqMonotonic
<1> QED
    BY <1>2, SeqEqual

LEMMA JoinList ==
    ASSUME NEW s, NEW t, IsList(s), IsList(t)
    PROVE  /\ IsList(s \o t)
           /\ Len(s \o t) = Len(s) + Len(t)
           /\ \A i \in 1..Len(s) : (s \o t)[i] = s[i]
           /\ \A i \in 1..Len(t) : (s \o t)[Len(s) + i] = t[i]
<1>1. s \in Seq(Items(s)) /\ t \in Seq(Items(t))
    BY ListFacts
<1>2. s \in Seq(Items(s) \cup Items(t)) /\ t \in Seq(Items(s) \cup Items(t))
    BY <1>1, SeqMonotonic
<1>3. /\ s \o t \in Seq(Items(s) \cup Items(t))
      /\ Len(s \o t) = Len(s) + Len(t)
      /\ \A i \in 1..Len(s) + Len(t) :
            (s \o t)[i] = IF i <= Len(s) THEN s[i] ELSE t[i - Len(s)]
    BY <1>2, ConcatProperties
<1>4. Len(s) \in Nat /\ Len(t) \in Nat
    BY ListFacts
<1>5. IsList(s \o t)
    BY <1>3, ListOf
<1> HIDE DEF Items
<1>6. ASSUME NEW i \in 1..Len(s) PROVE (s \o t)[i] = s[i]
    BY <1>3, <1>4
<1>7. ASSUME NEW i \in 1..Len(t) PROVE (s \o t)[Len(s) + i] = t[i]
    <2>1. Len(s) + i \in 1..Len(s) + Len(t) /\ ~(Len(s) + i <= Len(s))
          /\ (Len(s) + i) - Len(s) = i
        BY <1>4
    <2> QED
        BY <2>1, <1>3
<1> QED
    BY <1>3, <1>5, <1>6, <1>7

LEMMA AppendList ==
    ASSUME NEW s, NEW e, IsList(s)
    PROVE  /\ IsList(Append(s, e))
           /\ Append(s, e) # <<>>
           /\ Len(Append(s, e)) = Len(s) + 1
           /\ \A i \in 1..Len(s) : Append(s, e)[i] = s[i]
           /\ Append(s, e)[Len(s) + 1] = e
<1>1. s \in Seq(Items(s))
    BY ListFacts
<1>2. s \in Seq(Items(s) \cup {e})
    BY <1>1, SeqMonotonic
<1> DEFINE S == Items(s) \cup {e}
<1>3. s \in Seq(S) /\ e \in S
    BY <1>2
<1> HIDE DEF S
<1>4. /\ Append(s, e) \in Seq(S)
      /\ Append(s, e) # <<>>
      /\ Len(Append(s, e)) = Len(s) + 1
      /\ \A i \in 1..Len(s) : Append(s, e)[i] = s[i]
      /\ Append(s, e)[Len(s) + 1] = e
    BY <1>3, AppendProperties
<1> QED
    BY <1>4, ListOf

LEMMA SubList ==
    ASSUME NEW s, IsList(s), NEW m \in Nat, NEW n \in Nat, 1 <= m, n <= Len(s)
    PROVE  /\ IsList(SubSeq(s, m, n))
           /\ Len(SubSeq(s, m, n)) = IF m <= n THEN n - m + 1 ELSE 0
           /\ \A i \in 1..n - m + 1 : SubSeq(s, m, n)[i] = s[m + i - 1]
<1>1. \A i \in m..n : s[i] \in Items(s)
    BY ListFacts DEF Items
<1>2. m \in Int /\ n \in Int
    OBVIOUS
<1>3. /\ SubSeq(s, m, n) \in Seq(Items(s))
      /\ Len(SubSeq(s, m, n)) = IF m <= n THEN n - m + 1 ELSE 0
      /\ \A i \in 1..n - m + 1 : SubSeq(s, m, n)[i] = s[m + i - 1]
    BY <1>1, <1>2, SubSeqProperties
<1> QED
    BY <1>3, ListOf

LEMMA FunctionList ==
    ASSUME NEW n \in Nat, NEW s, DOMAIN s = 1..n, s = [i \in 1..n |-> s[i]]
    PROVE  IsList(s) /\ Len(s) = n
<1>1. s \in [1..n -> Items(s)]
    BY DEF Items
<1>2. s \in Seq(Items(s))
    BY <1>1, SeqDef
<1>3. Len(s) \in Nat /\ DOMAIN s = 1..Len(s)
    BY <1>2, LenProperties
<1>4. n = Len(s)
    BY <1>3
<1> QED
    BY <1>2, <1>4, ListOf

-----------------------------------------------------------------------------
(* Chains of entries.                                                      *)

LEMMA EntryFields ==
    ASSUME NEW p, NEW q, NEW u
    PROVE  /\ Entry(p, q, u).seq = q
           /\ Entry(p, q, u).who = u
           /\ Entry(p, q, u).prev = p
           /\ Entry(p, q, u).hash = Digest(p, q, u)
BY DEF Entry

\* Nobody makes the digest of another entry, or that of nothing.
LEMMA DigestsTell ==
    ASSUME NEW p, NEW q, NEW u, NEW p2, NEW q2, NEW u2
    PROVE  /\ Digest(p, q, u) = Digest(p2, q2, u2) => p = p2 /\ q = q2 /\ u = u2
           /\ Digest(p, q, u) # NoDigest
BY DEF Digest, NoDigest

\* The entries of a chain, one by one.
LEMMA LinkOf ==
    ASSUME NEW s, NEW p, NEW n \in Nat, IsList(s), Linked(s, p, n), NEW i \in 1..Len(s)
    PROVE  /\ s[i].who \in User
           /\ s[i].seq = n + i
           /\ s[i].prev = IF i = 1 THEN p ELSE s[i - 1].hash
           /\ s[i].hash = Digest(s[i].prev, n + i, s[i].who)
           /\ s[i] = Entry(s[i].prev, n + i, s[i].who)
<1>1. i \in DOMAIN s
    BY ListFacts
<1> DEFINE before == IF i = 1 THEN p ELSE s[i - 1].hash
<1>2. s[i].who \in User /\ s[i] = Entry(before, n + i, s[i].who)
    BY <1>1 DEF Linked
<1> HIDE DEF before
<1>3. /\ s[i].seq = n + i
      /\ s[i].prev = before
      /\ s[i].hash = Digest(before, n + i, s[i].who)
    BY <1>2, EntryFields
<1> QED
    BY <1>2, <1>3 DEF before

\* What makes a chain: each entry, one by one.
LEMMA Chains ==
    ASSUME NEW s, NEW p, NEW n, IsList(s),
           \A i \in 1..Len(s) :
              /\ s[i].who \in User
              /\ s[i] = Entry(IF i = 1 THEN p ELSE s[i - 1].hash, n + i, s[i].who)
    PROVE  Linked(s, p, n)
BY ListFacts DEF Linked

LEMMA NothingLinked == ASSUME NEW p, NEW n PROVE Linked(<<>>, p, n)
BY EmptyList DEF Linked

\* A chain and one that follows it are a chain.
LEMMA JoinChain ==
    ASSUME NEW s, NEW t, IsList(s), IsList(t), Linked(s, NoDigest, 0),
           Linked(t, DigestAt(s, Len(s)), Len(s))
    PROVE  Linked(s \o t, NoDigest, 0)
<1> DEFINE c == s \o t
<1>1. Len(s) \in Nat /\ Len(t) \in Nat
    BY ListFacts
<1>2. /\ IsList(c)
      /\ Len(c) = Len(s) + Len(t)
      /\ \A i \in 1..Len(s) : c[i] = s[i]
      /\ \A i \in 1..Len(t) : c[Len(s) + i] = t[i]
    BY JoinList
<1> HIDE DEF c
<1>3. ASSUME NEW i \in 1..Len(c)
      PROVE  /\ c[i].who \in User
             /\ c[i] = Entry(IF i = 1 THEN NoDigest ELSE c[i - 1].hash, 0 + i, c[i].who)
    <2>1. CASE i <= Len(s)
        <3>1. i \in 1..Len(s) /\ c[i] = s[i]
            BY <1>1, <1>2, <2>1
        <3>2. i # 1 => c[i - 1] = s[i - 1]
            BY <1>1, <1>2, <3>1
        <3>3. /\ s[i].who \in User
              /\ s[i].prev = IF i = 1 THEN NoDigest ELSE s[i - 1].hash
              /\ s[i] = Entry(s[i].prev, 0 + i, s[i].who)
            BY <3>1, LinkOf
        <3> QED
            BY <3>1, <3>2, <3>3
    <2>2. CASE ~(i <= Len(s))
        <3>1. PICK j \in 1..Len(t) : i = Len(s) + j
            <4>1. i - Len(s) \in 1..Len(t) /\ i = Len(s) + (i - Len(s))
                BY <1>1, <1>2, <2>2
            <4> QED
                BY <4>1
        <3>2. c[i] = t[j]
            BY <1>2, <3>1
        <3>3. /\ t[j].who \in User
              /\ t[j].prev = IF j = 1 THEN DigestAt(s, Len(s)) ELSE t[j - 1].hash
              /\ t[j] = Entry(t[j].prev, Len(s) + j, t[j].who)
            BY <1>1, LinkOf
        <3>4. t[j].prev = IF i = 1 THEN NoDigest ELSE c[i - 1].hash
            <4>1. CASE j = 1 /\ Len(s) = 0
                BY <3>1, <3>3, <4>1 DEF DigestAt
            <4>2. CASE j = 1 /\ Len(s) # 0
                <5>1. i # 1 /\ i - 1 = Len(s) /\ Len(s) \in 1..Len(s)
                    BY <1>1, <3>1, <4>2
                <5>2. c[i - 1] = s[Len(s)]
                    BY <1>2, <5>1
                <5> QED
                    BY <3>3, <4>2, <5>1, <5>2 DEF DigestAt
            <4>3. CASE j # 1
                <5>1. i # 1 /\ j - 1 \in 1..Len(t) /\ i - 1 = Len(s) + (j - 1)
                    BY <1>1, <3>1, <4>3
                <5>2. c[i - 1] = t[j - 1]
                    BY <1>2, <5>1
                <5> QED
                    BY <3>3, <4>3, <5>1, <5>2
            <4> QED
                BY <4>1, <4>2, <4>3
        <3>5. 0 + i = Len(s) + j
            BY <1>1, <3>1
        <3> QED
            BY <3>2, <3>3, <3>4, <3>5
    <2> QED
        BY <2>1, <2>2
<1>4. Linked(c, NoDigest, 0)
    BY <1>2, <1>3, Chains
<1> QED
    BY <1>4 DEF c

\* Entry after entry a transaction makes a chain.
LEMMA AppendChain ==
    ASSUME NEW s, NEW p, NEW n \in Nat, NEW u \in User, NEW q, IsList(s), Linked(s, p, n),
           q = IF s = <<>> THEN p ELSE s[Len(s)].hash
    PROVE  Linked(Append(s, Entry(q, n + Len(s) + 1, u)), p, n)
<1> DEFINE e == Entry(q, n + Len(s) + 1, u)
           c == Append(s, e)
<1>1. Len(s) \in Nat /\ (s = <<>> <=> Len(s) = 0)
    BY ListFacts
<1>2. /\ IsList(c)
      /\ Len(c) = Len(s) + 1
      /\ \A i \in 1..Len(s) : c[i] = s[i]
      /\ c[Len(s) + 1] = e
    BY AppendList
<1>e. e.who = u /\ e = Entry(q, n + Len(s) + 1, e.who)
    BY EntryFields
<1> HIDE DEF c, e
<1>3. ASSUME NEW i \in 1..Len(c)
      PROVE  /\ c[i].who \in User
             /\ c[i] = Entry(IF i = 1 THEN p ELSE c[i - 1].hash, n + i, c[i].who)
    <2>1. CASE i <= Len(s)
        <3>1. i \in 1..Len(s) /\ c[i] = s[i]
            BY <1>1, <1>2, <2>1
        <3>2. i # 1 => c[i - 1] = s[i - 1]
            BY <1>1, <1>2, <3>1
        <3>3. /\ s[i].who \in User
              /\ s[i].prev = IF i = 1 THEN p ELSE s[i - 1].hash
              /\ s[i] = Entry(s[i].prev, n + i, s[i].who)
            BY <3>1, LinkOf
        <3> QED
            BY <3>1, <3>2, <3>3
    <2>2. CASE ~(i <= Len(s))
        <3>1. i = Len(s) + 1 /\ c[i] = e /\ n + i = n + Len(s) + 1
            BY <1>1, <1>2, <2>2
        <3>2. q = IF i = 1 THEN p ELSE c[i - 1].hash
            BY <1>1, <1>2, <3>1
        <3> QED
            BY <1>e, <3>1, <3>2
    <2> QED
        BY <2>1, <2>2
<1>4. Linked(c, p, n)
    BY <1>2, <1>3, Chains
<1> QED
    BY <1>4 DEF c, e

\* A piece of the log is a chain that follows what is before it.
LEMMA PieceOfChain ==
    ASSUME NEW s, IsList(s), Linked(s, NoDigest, 0),
           NEW m \in Nat, NEW n \in Nat, 1 <= m, n <= Len(s)
    PROVE  Linked(SubSeq(s, m, n), DigestAt(s, m - 1), m - 1)
<1> DEFINE c == SubSeq(s, m, n)
<1>1. Len(s) \in Nat
    BY ListFacts
<1>2. /\ IsList(c)
      /\ Len(c) = IF m <= n THEN n - m + 1 ELSE 0
      /\ \A i \in 1..n - m + 1 : c[i] = s[m + i - 1]
    BY SubList
<1> HIDE DEF c
<1>3. ASSUME NEW i \in 1..Len(c)
      PROVE  /\ c[i].who \in User
             /\ c[i] = Entry(IF i = 1 THEN DigestAt(s, m - 1) ELSE c[i - 1].hash,
                             (m - 1) + i, c[i].who)
    <2>1. m <= n /\ i \in 1..n - m + 1 /\ m + i - 1 \in 1..Len(s) /\ (m - 1) + i = m + i - 1
        BY <1>1, <1>2
    <2>2. c[i] = s[m + i - 1]
        BY <1>2, <2>1
    <2>3. /\ s[m + i - 1].who \in User
          /\ s[m + i - 1].prev = IF m + i - 1 = 1 THEN NoDigest ELSE s[m + i - 2].hash
          /\ s[m + i - 1] = Entry(s[m + i - 1].prev, m + i - 1, s[m + i - 1].who)
        <3> DEFINE k == m + i - 1
        <3>1. k - 1 = m + i - 2 /\ 0 + k = k /\ k \in 1..Len(s)
            BY <2>1
        <3> HIDE DEF k
        <3>2. /\ s[k].who \in User
              /\ s[k].prev = IF k = 1 THEN NoDigest ELSE s[k - 1].hash
              /\ s[k] = Entry(s[k].prev, 0 + k, s[k].who)
            BY <3>1, LinkOf
        <3>3. /\ s[k].prev = IF k = 1 THEN NoDigest ELSE s[m + i - 2].hash
              /\ s[k] = Entry(s[k].prev, k, s[k].who)
            BY <3>1, <3>2
        <3> QED
            BY <3>2, <3>3 DEF k
    <2>4. s[m + i - 1].prev = IF i = 1 THEN DigestAt(s, m - 1) ELSE c[i - 1].hash
        <3>1. CASE i = 1
            <4>1. m + i - 1 = m /\ m + i - 2 = m - 1 /\ (m = 1 <=> m - 1 = 0)
                BY <3>1
            <4> QED
                BY <2>3, <3>1, <4>1 DEF DigestAt
        <3>2. CASE i # 1
            <4>1. i - 1 \in 1..n - m + 1 /\ m + (i - 1) - 1 = m + i - 2 /\ m + i - 1 # 1
                BY <2>1, <3>2
            <4> QED
                BY <1>2, <2>3, <3>2, <4>1
        <3> QED
            BY <3>1, <3>2
    <2> QED
        BY <2>1, <2>2, <2>3, <2>4
<1>4. Linked(c, DigestAt(s, m - 1), m - 1)
    BY <1>2, <1>3, Chains
<1> QED
    BY <1>4 DEF c

-----------------------------------------------------------------------------
(* What verify_run finds.                                                  *)

\* It finds nothing wrong with a chain that it is given the beginning of.
LEMMA ChainIsIntact ==
    ASSUME NEW s, NEW p, NEW n \in Nat, IsList(s), Linked(s, p, n)
    PROVE  VerifyRun(s, p, n + 1) = "INTACT"
<1>1. Len(s) \in Nat /\ DOMAIN s = 1..Len(s)
    BY ListFacts
<1>2. ASSUME NEW i \in DOMAIN s PROVE Fault(s, i, p, n + 1) = "none"
    <2> DEFINE before == IF i = 1 THEN p ELSE s[i - 1].hash
    <2>1. i \in 1..Len(s)
        BY <1>1
    <2>2. /\ s[i].seq = n + i
          /\ s[i].prev = before
          /\ s[i].hash = Digest(s[i].prev, n + i, s[i].who)
        BY <2>1, LinkOf
    <2>3. n + i = IF i = 1 THEN n + 1 ELSE s[i - 1].seq + 1
        <3>1. CASE i = 1
            BY <3>1
        <3>2. CASE i # 1
            <4>1. i - 1 \in 1..Len(s)
                BY <1>1, <2>1, <3>2
            <4>2. s[i - 1].seq = n + (i - 1)
                BY <4>1, LinkOf
            <4> QED
                BY <2>1, <3>2, <4>2
        <3> QED
            BY <3>1, <3>2
    <2>4. s[i].hash = Digest(before, s[i].seq, s[i].who)
        BY <2>2
    <2>5. s[i].seq = IF i = 1 THEN n + 1 ELSE s[i - 1].seq + 1
        BY <2>2, <2>3
    <2> QED
        BY <2>2, <2>4, <2>5 DEF Fault
<1> QED
    BY <1>2 DEF VerifyRun

\* A run is intact only if there is nothing wrong with any entry.
LEMMA IntactMeansFaultless ==
    ASSUME NEW s, NEW p, NEW n, VerifyRun(s, p, n) = "INTACT", NEW i \in DOMAIN s
    PROVE  Fault(s, i, p, n) = "none"
<1>1. \A j : Fault(s, j, p, n) # "INTACT"
    BY DEF Fault
<1> QED
    BY <1>1, Zenon DEF VerifyRun

LEMMA IntactEntry ==
    ASSUME NEW s, NEW p, NEW n, VerifyRun(s, p, n) = "INTACT", NEW i \in DOMAIN s
    PROVE  /\ s[i].seq = IF i = 1 THEN n ELSE s[i - 1].seq + 1
           /\ s[i].prev = IF i = 1 THEN p ELSE s[i - 1].hash
           /\ s[i].hash = Digest(s[i].prev, s[i].seq, s[i].who)
<1>1. Fault(s, i, p, n) = "none"
    BY IntactMeansFaultless
<1> QED
    BY <1>1 DEF Fault

\* Entries that are intact are numbered one after the other.
LEMMA NumberedInOrder ==
    ASSUME NEW s, NEW p, NEW n \in Nat, IsList(s), VerifyRun(s, p, n) = "INTACT",
           NEW i \in 1..Len(s)
    PROVE  s[i].seq = n + i - 1
<1>1. Len(s) \in Nat /\ DOMAIN s = 1..Len(s)
    BY ListFacts
<1> DEFINE T == {j \in 1..Len(s) : s[j].seq # n + j - 1}
<1>2. SUFFICES ASSUME T # {} PROVE FALSE
    OBVIOUS
<1>3. T \subseteq Nat
    OBVIOUS
<1>4. PICK j \in T : \A k \in T : j <= k
    BY <1>2, <1>3, LeastNat
<1>5. j \in 1..Len(s) /\ s[j].seq # n + j - 1
    OBVIOUS
<1>6. s[j].seq = IF j = 1 THEN n ELSE s[j - 1].seq + 1
    BY <1>1, <1>5, IntactEntry
<1>7. j # 1
    BY <1>5, <1>6
<1>8. j - 1 \in 1..Len(s) /\ ~(j <= j - 1)
    BY <1>1, <1>5, <1>7
<1>9. s[j - 1].seq = n + (j - 1) - 1
    BY <1>4, <1>8
<1> QED
    BY <1>5, <1>6, <1>7, <1>9

\* Who has not the key cannot make an entry that is intact and was not written.
LEMMA IntactEntriesAreWritten ==
    ASSUME IsList(written), Linked(written, NoDigest, 0),
           NEW s, NEW p, NEW n, IsList(s), Sealed(s), VerifyRun(s, p, n) = "INTACT",
           NEW i \in 1..Len(s)
    PROVE  s[i].seq \in 1..Len(written) /\ s[i] = written[s[i].seq]
<1>1. DOMAIN s = 1..Len(s) /\ DOMAIN written = 1..Len(written)
    BY ListFacts
<1>2. s[i].hash = Digest(s[i].prev, s[i].seq, s[i].who)
    BY <1>1, IntactEntry
<1>3. PICK k \in 1..Len(written) : s[i].hash = written[k].hash
    BY <1>1 DEF Sealed
<1>4. /\ written[k].hash = Digest(written[k].prev, 0 + k, written[k].who)
      /\ written[k] = Entry(written[k].prev, 0 + k, written[k].who)
    BY LinkOf
<1>5. s[i].prev = written[k].prev /\ s[i].seq = 0 + k /\ s[i].who = written[k].who
    BY <1>2, <1>3, <1>4 DEF Digest
<1>6. s[i] = [seq |-> s[i].seq, who |-> s[i].who, prev |-> s[i].prev, hash |-> s[i].hash]
    BY <1>1 DEF Sealed
<1>7. s[i] = Entry(s[i].prev, s[i].seq, s[i].who)
    BY <1>2, <1>6 DEF Entry
<1>8. 0 + k = k
    OBVIOUS
<1> QED
    BY <1>4, <1>5, <1>7, <1>8

\* Intact entries are the piece of the log that their numbers name.
LEMMA IntactRunIsWritten ==
    ASSUME IsList(written), Linked(written, NoDigest, 0),
           NEW s, NEW p, NEW n \in Nat \ {0}, IsList(s), Sealed(s), s # <<>>,
           VerifyRun(s, p, n) = "INTACT"
    PROVE  /\ n + Len(s) - 1 <= Len(written)
           /\ s = SubSeq(written, n, n + Len(s) - 1)
<1>1. Len(s) \in Nat /\ Len(s) # 0 /\ Len(written) \in Nat
    BY ListFacts
<1>2. ASSUME NEW i \in 1..Len(s)
      PROVE  n + i - 1 \in 1..Len(written) /\ s[i] = written[n + i - 1]
    <2>1. s[i].seq = n + i - 1
        BY NumberedInOrder
    <2>2. s[i].seq \in 1..Len(written) /\ s[i] = written[s[i].seq]
        BY IntactEntriesAreWritten
    <2> QED
        BY <2>1, <2>2
<1>3. n + Len(s) - 1 <= Len(written)
    BY <1>1, <1>2
<1> DEFINE last == n + Len(s) - 1
           c == SubSeq(written, n, last)
<1>4. last \in Nat /\ n <= last /\ last <= Len(written) /\ last - n + 1 = Len(s)
    BY <1>1, <1>3
<1> HIDE DEF last
<1>5. /\ IsList(c)
      /\ Len(c) = Len(s)
      /\ \A i \in 1..Len(s) : c[i] = written[n + i - 1]
    BY <1>4, SubList
<1> HIDE DEF c
<1>6. s = c
    BY <1>2, <1>5, SameList
<1> QED
    BY <1>3, <1>6 DEF c, last

\* Only the first entry of the log follows nothing.
LEMMA FirstIsFirst ==
    ASSUME IsList(written), Linked(written, NoDigest, 0),
           NEW s, NEW n, IsList(s), Sealed(s), s # <<>>,
           VerifyRun(s, NoDigest, n) = "INTACT"
    PROVE  s[1].seq = 1
<1>1. DOMAIN s = 1..Len(s) /\ 1 \in 1..Len(s) /\ Len(written) \in Nat
    BY ListFacts
<1>2. s[1].prev = NoDigest
    BY <1>1, IntactEntry
<1>3. PICK k \in 1..Len(written) : s[1].seq = k /\ s[1] = written[k]
    BY <1>1, IntactEntriesAreWritten
<1>4. written[k].prev = IF k = 1 THEN NoDigest ELSE written[k - 1].hash
    BY LinkOf
<1>5. CASE k # 1
    <2>1. k - 1 \in 1..Len(written)
        BY <1>1, <1>5
    <2>2. written[k - 1].hash = Digest(written[k - 1].prev, 0 + (k - 1), written[k - 1].who)
        BY <2>1, LinkOf
    <2>3. written[k - 1].hash # NoDigest
        BY <2>2, DigestsTell
    <2> QED
        BY <1>2, <1>3, <1>4, <1>5, <2>3
<1> QED
    BY <1>3, <1>5

-----------------------------------------------------------------------------
(* Transactions.                                                           *)

LEMMA IdleFields ==
    /\ DOMAIN Idle = {"pc", "who", "about", "more", "saw", "mine"}
    /\ Idle.pc = "idle" /\ Idle.mine = <<>> /\ Idle.more = 0
    /\ Idle.who \in User /\ Idle.about \in User
<1>1. AnyUser \in User
    BY AuditAssumption, Zenon DEF AnyUser
<1> QED
    BY <1>1 DEF Idle

\* Nobody who has not the head has entries.
LEMMA OnlyTheHolder ==
    ASSUME ChainIndInv, NEW w \in Worker, headLock # w
    PROVE  tx[w].mine = <<>> /\ tx[w].pc \in {"idle", "subject", "head"}
BY DEF ChainIndInv, TxOK

LEMMA IdleOK ==
    ASSUME NEW w \in Worker, tx'[w] = Idle
    PROVE  TxOK(w)'
<1>1. IsList(<<>>) /\ Linked(<<>>, head.hash, head.seq)'
    BY EmptyList, NothingLinked DEF Linked
<1> QED
    BY <1>1, IdleFields DEF TxOK

\* A step of w that moves its transaction and takes or leaves locks.
LEMMA TxStep ==
    ASSUME ChainIndInv, NEW w \in Worker, NEW t,
           UNCHANGED <<rows, head, check, written, damages>>,
           tx' = [tx EXCEPT ![w] = t],
           ChainTypes', TxOK(w)',
           \A v \in Worker \ {w} : headLock = v => headLock' = v
    PROVE  ChainIndInv'
<1>1. ASSUME NEW v \in Worker, v # w PROVE TxOK(v)'
    <2>1. tx'[v] = tx[v]
        BY <1>1 DEF ChainIndInv, ChainTypes
    <2>2. TxOK(v)
        BY DEF ChainIndInv
    <2> QED
        BY <2>1, <2>2, <1>1 DEF TxOK, Latest
<1>2. LogOK'
    BY DEF ChainIndInv, LogOK, Sealed
<1>3. CheckOK'
    BY DEF ChainIndInv, CheckOK, Sealed
<1>4. IntactMeansWhole' /\ AlarmsAreReal' /\ IntactIsWritten'
    BY DEF ChainIndInv, IntactMeansWhole, AlarmsAreReal, IntactIsWritten
<1> QED
    BY <1>1, <1>2, <1>3, <1>4 DEF ChainIndInv

\* The tx of w after a step that writes it.
LEMMA TxWritten ==
    ASSUME ChainTypes, NEW w \in Worker, NEW t, tx' = [tx EXCEPT ![w] = t]
    PROVE  /\ tx'[w] = t
           /\ \A v \in Worker \ {w} : tx'[v] = tx[v]
           /\ tx' = [v \in Worker |-> tx'[v]]
BY DEF ChainTypes

LEMMA BeginOK ==
    ASSUME ChainIndInv, NEW w \in Worker, Begin(w)
    PROVE  ChainIndInv'
<1>1. PICK a \in User, s \in User, n \in {1, 2} :
          tx' = [tx EXCEPT ![w] = [Idle EXCEPT !.pc = IF s = a THEN "head" ELSE "subject",
                                               !.who = a, !.about = s, !.more = n]]
    BY DEF Begin
<1> DEFINE pc == IF s = a THEN "head" ELSE "subject"
           t == [Idle EXCEPT !.pc = pc, !.who = a, !.about = s, !.more = n]
<1>p. pc \in {"head", "subject"}
    OBVIOUS
<1> HIDE DEF pc
<1>2. /\ DOMAIN t = DOMAIN Idle
      /\ t.pc = pc /\ t.who = a /\ t.about = s /\ t.more = n /\ t.mine = <<>>
    BY IdleFields
<1> HIDE DEF t
<1>3. tx' = [tx EXCEPT ![w] = t]
    BY <1>1 DEF t, pc
<1>4. tx'[w] = t /\ tx' = [v \in Worker |-> tx'[v]]
    BY <1>3, TxWritten DEF ChainIndInv
<1>5. UNCHANGED <<rows, head, locks, check, written, damages>>
    BY DEF Begin
<1>6. ChainTypes'
    BY <1>4, <1>5, AuditAssumption DEF Begin, ChainIndInv, ChainTypes, locks
<1>7. TxOK(w)'
    <2>1. IsList(<<>>) /\ Linked(<<>>, head.hash, head.seq)'
        BY EmptyList, NothingLinked DEF Linked
    <2> QED
        BY <1>2, <1>4, <1>p, <2>1 DEF TxOK
<1> QED
    BY <1>3, <1>5, <1>6, <1>7, TxStep DEF locks

LEMMA LockSubjectOK ==
    ASSUME ChainIndInv, NEW w \in Worker, LockSubject(w)
    PROVE  ChainIndInv'
<1> DEFINE t == [tx[w] EXCEPT !.pc = "head"]
<1>1. tx[w].pc = "subject" /\ TxOK(w)
    BY DEF LockSubject, ChainIndInv
<1>2. /\ DOMAIN t = DOMAIN tx[w]
      /\ t.pc = "head" /\ t.who = tx[w].who /\ t.about = tx[w].about
      /\ t.more = tx[w].more /\ t.mine = tx[w].mine /\ t.saw = tx[w].saw
    BY <1>1, IdleFields DEF TxOK
<1>3. tx' = [tx EXCEPT ![w] = t]
    BY DEF LockSubject, Goto, ChainIndInv, ChainTypes
<1> HIDE DEF t
<1>4. tx'[w] = t /\ tx' = [v \in Worker |-> tx'[v]]
    BY <1>3, TxWritten DEF ChainIndInv
<1>5. UNCHANGED <<rows, head, headLock, userShare, check, written, requests, checks, damages>>
    BY DEF LockSubject, counts
<1>6. ChainTypes'
    BY <1>4, <1>5 DEF LockSubject, ChainIndInv, ChainTypes
<1>7. TxOK(w)'
    BY <1>1, <1>2, <1>4, <1>5 DEF TxOK
<1> QED
    BY <1>3, <1>5, <1>6, <1>7, TxStep

LEMMA LockHeadOK ==
    ASSUME ChainIndInv, NEW w \in Worker, LockHead(w)
    PROVE  ChainIndInv'
<1> DEFINE t == [tx[w] EXCEPT !.pc = "insert", !.saw = Latest(w)]
<1>1. tx[w].pc = "head" /\ TxOK(w) /\ headLock \in {NoWorker, w} /\ headLock' = w
    BY DEF LockHead, ChainIndInv, Free
<1>2. /\ DOMAIN t = DOMAIN tx[w]
      /\ t.pc = "insert" /\ t.who = tx[w].who /\ t.about = tx[w].about
      /\ t.more = tx[w].more /\ t.mine = tx[w].mine /\ t.saw = Latest(w)
    BY <1>1, IdleFields DEF TxOK
<1>3. tx' = [tx EXCEPT ![w] = t]
    BY DEF LockHead, ChainIndInv, ChainTypes
<1> HIDE DEF t
<1>4. tx'[w] = t /\ tx' = [v \in Worker |-> tx'[v]]
    BY <1>3, TxWritten DEF ChainIndInv
<1>5. UNCHANGED <<rows, head, userLock, userShare, check, written, requests, checks, damages>>
    BY DEF LockHead, counts
<1>6. ChainTypes'
    BY <1>1, <1>4, <1>5 DEF ChainIndInv, ChainTypes
<1>7. Latest(w)' = Latest(w)
    BY <1>2, <1>4, <1>5 DEF Latest
<1>8. TxOK(w)'
    BY <1>1, <1>2, <1>4, <1>5, <1>7 DEF TxOK
<1>9. \A v \in Worker \ {w} : headLock # v
    BY <1>1, AuditAssumption
<1> QED
    BY <1>3, <1>5, <1>6, <1>8, <1>9, TxStep

LEMMA InsertOK ==
    ASSUME ChainIndInv, NEW w \in Worker, InsertEntry(w)
    PROVE  ChainIndInv'
<1> DEFINE e == Entry(tx[w].saw.hash, tx[w].saw.seq + 1, tx[w].who)
           pc == IF tx[w].more = 1 THEN "commit" ELSE "head"
           t == [tx[w] EXCEPT !.mine = Append(@, e), !.more = @ - 1, !.pc = pc]
<1>1. tx[w].pc = "insert" /\ TxOK(w) /\ headLock = w /\ tx[w].saw = Latest(w)
    BY DEF InsertEntry, ChainIndInv, TxOK
<1>p. pc \in {"commit", "head"}
    OBVIOUS
<1> HIDE DEF e, pc
<1>2. /\ DOMAIN t = DOMAIN tx[w]
      /\ t.pc = pc /\ t.who = tx[w].who /\ t.about = tx[w].about
      /\ t.more = tx[w].more - 1 /\ t.mine = Append(tx[w].mine, e)
    BY <1>1, IdleFields DEF TxOK
<1>3. tx' = [tx EXCEPT ![w] = t]
    BY DEF InsertEntry, ChainIndInv, ChainTypes, e, pc
<1> HIDE DEF t
<1>4. tx'[w] = t /\ tx' = [v \in Worker |-> tx'[v]]
    BY <1>3, TxWritten DEF ChainIndInv
<1>5. UNCHANGED <<rows, head, headLock, userLock, check, written, requests, checks, damages>>
    BY DEF InsertEntry, counts
<1>6. ChainTypes'
    BY <1>4, <1>5 DEF InsertEntry, ChainIndInv, ChainTypes

<1>7. /\ IsList(tx[w].mine) /\ Len(tx[w].mine) \in Nat
      /\ Linked(tx[w].mine, head.hash, head.seq)
      /\ head.seq \in Nat
    BY <1>1, ListFacts DEF TxOK, ChainIndInv, LogOK, HeadOf
<1>8. e = Entry(tx[w].saw.hash, head.seq + Len(tx[w].mine) + 1, tx[w].who)
    <2>1. CASE tx[w].mine = <<>>
        <3>1. Len(tx[w].mine) = 0
            BY <2>1, EmptyList
        <3>2. tx[w].saw = head
            BY <1>1, <2>1 DEF Latest
        <3>3. tx[w].saw.seq + 1 = head.seq + Len(tx[w].mine) + 1
            BY <1>7, <3>1, <3>2
        <3> QED
            BY <3>3 DEF e
    <2>2. CASE tx[w].mine # <<>>
        <3>1. Len(tx[w].mine) \in 1..Len(tx[w].mine)
            BY <1>7, <2>2, ListFacts
        <3>2. tx[w].mine[Len(tx[w].mine)].seq = head.seq + Len(tx[w].mine)
            BY <1>7, <3>1, LinkOf
        <3>3. tx[w].saw.seq = tx[w].mine[Len(tx[w].mine)].seq
            BY <1>1, <2>2 DEF Latest
        <3>4. tx[w].saw.seq + 1 = head.seq + Len(tx[w].mine) + 1
            BY <3>2, <3>3
        <3> QED
            BY <3>4 DEF e
    <2> QED
        BY <2>1, <2>2
<1>9. tx[w].saw.hash = IF tx[w].mine = <<>> THEN head.hash
                       ELSE tx[w].mine[Len(tx[w].mine)].hash
    BY <1>1 DEF Latest
<1>10. tx[w].who \in User
    BY <1>1 DEF TxOK
<1>11. /\ IsList(Append(tx[w].mine, e))
       /\ Linked(Append(tx[w].mine, e), head.hash, head.seq)
    BY <1>7, <1>8, <1>9, <1>10, AppendChain, AppendList
<1>12. t.more \in 0..2 /\ (pc = "head" => t.more >= 1)
    BY <1>1, <1>2 DEF TxOK, pc
<1>13. Linked(tx'[w].mine, head'.hash, head'.seq) /\ IsList(tx'[w].mine)
    BY <1>2, <1>4, <1>5, <1>11
<1>14. TxOK(w)'
    <2>1. /\ DOMAIN tx'[w] = DOMAIN Idle
          /\ tx'[w].pc \in {"commit", "head"}
          /\ tx'[w].who \in User /\ tx'[w].about \in User /\ tx'[w].more \in 0..2
          /\ tx'[w].pc = "head" => tx'[w].more >= 1
          /\ headLock' = w
        BY <1>1, <1>2, <1>4, <1>5, <1>12, <1>p DEF TxOK
    <2>2. Linked(tx[w].mine, head.hash, head.seq)'
        BY <1>13 DEF Linked
    <2> QED
        BY <2>1, <2>2, <1>13 DEF TxOK
<1> QED
    BY <1>3, <1>5, <1>6, <1>14, TxStep

\* The locks of a transaction that ends, and its place.
LEMMA Ended ==
    ASSUME ChainIndInv, NEW w \in Worker, End(w)
    PROVE  /\ tx' = [tx EXCEPT ![w] = Idle]
           /\ tx'[w] = Idle /\ tx' = [v \in Worker |-> tx'[v]]
           /\ \A v \in Worker \ {w} : tx'[v] = tx[v]
           /\ \A v \in Worker \ {w} : headLock = v => headLock' = v
           /\ headLock' \in Worker \cup {NoWorker}
           /\ userLock' \in [User -> Worker \cup {NoWorker}]
           /\ userShare' \in [User -> SUBSET Worker]
<1>1. tx' = [tx EXCEPT ![w] = Idle]
    BY DEF End
<1>2. /\ tx'[w] = Idle /\ tx' = [v \in Worker |-> tx'[v]]
      /\ \A v \in Worker \ {w} : tx'[v] = tx[v]
    BY <1>1, TxWritten DEF ChainIndInv
<1>3. /\ \A v \in Worker \ {w} : headLock = v => headLock' = v
      /\ headLock' \in Worker \cup {NoWorker}
      /\ userLock' \in [User -> Worker \cup {NoWorker}]
      /\ userShare' \in [User -> SUBSET Worker]
    BY DEF End, ChainIndInv, ChainTypes
<1> QED
    BY <1>1, <1>2, <1>3

LEMMA RollbackOK ==
    ASSUME ChainIndInv, NEW w \in Worker, Rollback(w)
    PROVE  ChainIndInv'
<1>1. End(w) /\ UNCHANGED <<rows, head, check, written, requests, checks, damages>>
    BY DEF Rollback, counts
<1>2. ChainTypes'
    BY <1>1, Ended DEF ChainIndInv, ChainTypes
<1>3. TxOK(w)'
    BY <1>1, Ended, IdleOK
<1> QED
    BY <1>1, <1>2, <1>3, Ended, TxStep

-----------------------------------------------------------------------------
(* The commit, beside everything else.                                     *)

\* What was written stays where it is.
LEMMA EntriesStay ==
    ASSUME NEW m, IsList(written), IsList(m), written' = written \o m,
           NEW k \in DOMAIN written
    PROVE  k \in DOMAIN written' /\ written'[k] = written[k]
<1>1. /\ DOMAIN written = 1..Len(written) /\ DOMAIN written' = 1..Len(written')
      /\ Len(written) \in Nat /\ Len(m) \in Nat
    BY ListFacts, JoinList
<1>2. Len(written') = Len(written) + Len(m) /\ written'[k] = written[k]
    BY <1>1, JoinList
<1> QED
    BY <1>1, <1>2

\* A piece of the log is the same in a longer one.
LEMMA PieceStays ==
    ASSUME NEW s, NEW t, IsList(s), IsList(t), NEW m \in Nat, NEW n \in Nat, 1 <= m,
           n <= Len(s)
    PROVE  SubSeq(s \o t, m, n) = SubSeq(s, m, n)
<1> DEFINE c == s \o t
<1>1. Len(s) \in Nat /\ Len(t) \in Nat
    BY ListFacts
<1>2. IsList(c) /\ Len(c) = Len(s) + Len(t) /\ \A i \in 1..Len(s) : c[i] = s[i]
    BY JoinList
<1> HIDE DEF c
<1>3. n <= Len(c)
    BY <1>1, <1>2
<1>4. /\ IsList(SubSeq(s, m, n))
      /\ Len(SubSeq(s, m, n)) = IF m <= n THEN n - m + 1 ELSE 0
      /\ \A i \in 1..n - m + 1 : SubSeq(s, m, n)[i] = s[m + i - 1]
    BY SubList
<1>5. /\ IsList(SubSeq(c, m, n))
      /\ Len(SubSeq(c, m, n)) = IF m <= n THEN n - m + 1 ELSE 0
      /\ \A i \in 1..n - m + 1 : SubSeq(c, m, n)[i] = c[m + i - 1]
    BY <1>2, <1>3, SubList
<1>6. ASSUME NEW i \in 1..Len(SubSeq(s, m, n))
      PROVE  SubSeq(c, m, n)[i] = SubSeq(s, m, n)[i]
    <2>1. m <= n /\ i \in 1..n - m + 1 /\ m + i - 1 \in 1..Len(s)
        BY <1>1, <1>4
    <2> QED
        BY <2>1, <1>2, <1>4, <1>5
<1>7. SubSeq(c, m, n) = SubSeq(s, m, n)
    BY <1>4, <1>5, <1>6, SameList
<1> QED
    BY <1>7 DEF c

LEMMA NoPiece ==
    ASSUME NEW s, NEW m \in Nat
    PROVE  SubSeq(s, m, m - 1) = <<>>
BY SubSeqEmpty

\* The log, the table and the head after a commit.
LEMMA LogGrows ==
    ASSUME ChainIndInv, NEW w \in Worker, Commit(w)
    PROVE  LogOK'
<1> DEFINE m == tx[w].mine
           n == Len(written)
<1>1. /\ IsList(written) /\ Linked(written, NoDigest, 0)
      /\ head.seq = n /\ head.hash = DigestAt(written, n)
      /\ IsList(rows) /\ Sealed(rows)
    BY DEF ChainIndInv, LogOK, HeadOf
<1>2. IsList(m) /\ Linked(m, head.hash, head.seq)
    BY DEF ChainIndInv, TxOK
<1>3. rows' = rows \o m /\ written' = written \o m /\ head' = Latest(w) /\ damages' = damages
    BY DEF Commit, counts
<1>l. Latest(w) = IF m = <<>> THEN head ELSE [seq |-> m[Len(m)].seq, hash |-> m[Len(m)].hash]
    BY DEF Latest
<1> HIDE DEF m, n
<1>4. Len(m) \in Nat /\ n \in Nat /\ (m = <<>> <=> Len(m) = 0)
    BY <1>1, <1>2, ListFacts DEF n
<1>5. /\ IsList(written') /\ Len(written') = n + Len(m)
      /\ \A i \in 1..n : written'[i] = written[i]
      /\ \A i \in 1..Len(m) : written'[n + i] = m[i]
    BY <1>1, <1>2, <1>3, JoinList DEF n
<1>6. Linked(written', NoDigest, 0)
    BY <1>1, <1>2, <1>3, JoinChain DEF n
<1>7. head' = HeadOf(written')
    <2>1. CASE m = <<>>
        <3>1. written' = written
            <4>1. Len(written') = Len(written)
                BY <1>4, <1>5, <2>1 DEF n
            <4> QED
                BY <1>1, <1>5, <4>1, SameList DEF n
        <3> QED
            BY <1>3, <1>l, <2>1, <3>1 DEF ChainIndInv, LogOK
    <2>2. CASE m # <<>>
        <3>1. Len(m) \in 1..Len(m)
            BY <1>4, <2>2
        <3>2. m[Len(m)].seq = n + Len(m)
            BY <1>1, <1>2, <1>4, <3>1, LinkOf
        <3>3. DigestAt(written', Len(written')) = m[Len(m)].hash
            BY <1>4, <1>5, <3>1 DEF DigestAt
        <3> QED
            BY <1>3, <1>5, <1>l, <2>2, <3>2, <3>3 DEF HeadOf
    <2> QED
        BY <2>1, <2>2
<1>8. /\ IsList(rows') /\ Len(rows') = Len(rows) + Len(m)
      /\ \A i \in 1..Len(rows) : rows'[i] = rows[i]
      /\ \A i \in 1..Len(m) : rows'[Len(rows) + i] = m[i]
    BY <1>1, <1>2, <1>3, JoinList
<1>9. ASSUME NEW i \in DOMAIN rows'
      PROVE  /\ rows'[i] = [seq |-> rows'[i].seq, who |-> rows'[i].who,
                            prev |-> rows'[i].prev, hash |-> rows'[i].hash]
             /\ rows'[i].seq \in Nat /\ rows'[i].who \in User
             /\ \E k \in DOMAIN written' : rows'[i].hash = written'[k].hash
    <2>1. i \in 1..Len(rows) + Len(m) /\ Len(rows) \in Nat /\ DOMAIN rows = 1..Len(rows)
        BY <1>1, <1>8, ListFacts
    <2>2. CASE i <= Len(rows)
        <3>1. i \in DOMAIN rows /\ rows'[i] = rows[i]
            BY <1>8, <2>1, <2>2
        <3>2. PICK k \in DOMAIN written : rows[i].hash = written[k].hash
            BY <1>1, <3>1 DEF Sealed
        <3>3. k \in DOMAIN written' /\ written'[k] = written[k]
            BY <1>1, <1>2, <1>3, EntriesStay
        <3> QED
            BY <1>1, <3>1, <3>2, <3>3 DEF Sealed
    <2>3. CASE ~(i <= Len(rows))
        <3>1. PICK j \in 1..Len(m) : i = Len(rows) + j
            <4>1. i - Len(rows) \in 1..Len(m) /\ i = Len(rows) + (i - Len(rows))
                BY <1>4, <2>1, <2>3
            <4> QED
                BY <4>1
        <3>2. rows'[i] = m[j] /\ written'[n + j] = m[j]
            BY <1>5, <1>8, <3>1
        <3>3. /\ m[j].who \in User /\ m[j].seq = n + j
              /\ m[j] = Entry(m[j].prev, n + j, m[j].who)
            BY <1>1, <1>2, <1>4, LinkOf
        <3>4. m[j] = [seq |-> m[j].seq, who |-> m[j].who, prev |-> m[j].prev,
                      hash |-> m[j].hash]
            BY <3>3 DEF Entry
        <3>5. n + j \in DOMAIN written' /\ n + j \in Nat
            <4>1. DOMAIN written' = 1..Len(written')
                BY <1>5, ListFacts
            <4> QED
                BY <1>4, <1>5, <4>1
        <3> QED
            BY <3>2, <3>3, <3>4, <3>5
    <2> QED
        BY <2>1, <2>2, <2>3
<1>10. damages' = 0 => rows' = written'
    BY <1>3 DEF ChainIndInv, LogOK
<1>11. Linked(written, NoDigest, 0)'
    BY <1>6 DEF Linked
<1>12. Sealed(rows)'
    BY <1>9 DEF Sealed
<1>13. (head = HeadOf(written))'
    BY <1>7
<1> QED
    BY <1>5, <1>8, <1>10, <1>11, <1>12, <1>13 DEF LogOK

\* A verification that is under way may go on: what it has read is still so.
LEMMA CheckStays ==
    ASSUME ChainIndInv, NEW m, IsList(m), written' = written \o m,
           UNCHANGED <<check, damages>>
    PROVE  CheckOK' /\ IntactMeansWhole' /\ AlarmsAreReal' /\ IntactIsWritten'
<1> DEFINE n == Len(written)
<1>1. IsList(written) /\ n \in Nat /\ Len(m) \in Nat
    BY ListFacts DEF ChainIndInv, LogOK
<1>2. /\ IsList(written') /\ Len(written') = n + Len(m)
      /\ \A i \in 1..n : written'[i] = written[i]
    BY <1>1, JoinList
<1>3. ASSUME check.by = "cli", check.pc = "head"
      PROVE  Sealed(check.rows)'
    <2>1. Sealed(check.rows) /\ check'.rows = check.rows
        BY <1>3 DEF ChainIndInv, CheckOK
    <2>2. \A k \in DOMAIN written : k \in DOMAIN written' /\ written'[k] = written[k]
        BY <1>1, EntriesStay
    <2>3. ASSUME NEW i \in DOMAIN check.rows
          PROVE  \E k \in DOMAIN written' : check.rows[i].hash = written'[k].hash
        <3>1. PICK k \in DOMAIN written : check.rows[i].hash = written[k].hash
            BY <2>1 DEF Sealed
        <3> QED
            BY <2>2, <3>1
    <2> QED
        BY <2>1, <2>3 DEF Sealed
<1>4. ASSUME check.by = "api", check.pc \in {"before", "rows"}
      PROVE  check.head.seq \in 0..Len(written')
    BY <1>1, <1>2, <1>4 DEF ChainIndInv, CheckOK
<1>5. ASSUME check.by = "api", check.pc = "rows", check.from <= check.head.seq + 1
      PROVE  DigestAt(written', check.from - 1) = DigestAt(written, check.from - 1)
    <2>1. check.from \in Nat /\ check.from >= 1 /\ check.head.seq \in 0..n
        BY <1>5 DEF ChainIndInv, CheckOK
    <2>2. check.from - 1 = 0 \/ check.from - 1 \in 1..n
        BY <1>1, <1>5, <2>1
    <2> QED
        BY <1>2, <2>2 DEF DigestAt
<1>6. CheckOK'
    <2>1. CheckOK /\ check' = check /\ damages' = damages
        BY DEF ChainIndInv
    <2>2. check.by = "cli" /\ check.pc = "head" =>
              (damages = 0 => Linked(check.rows, NoDigest, 0)')
        BY <2>1 DEF CheckOK, Linked
    <2> QED
        BY <2>1, <2>2, <1>3, <1>4, <1>5 DEF CheckOK
<1>7. IntactIsWritten'
    <2>1. ASSUME check.verdict = "INTACT" PROVE Len(check.rows) \in Nat
        BY <2>1, ListFacts DEF ChainIndInv, IntactIsWritten
    <2> QED
        BY <1>1, <1>2, <2>1 DEF ChainIndInv, IntactIsWritten, CheckOK
<1>8. AlarmsAreReal'
    BY DEF ChainIndInv, AlarmsAreReal
<1>9. IntactMeansWhole'
    <2>1. SUFFICES ASSUME check.verdict = "INTACT"
                   PROVE  check.rows = IF check.by = "cli"
                                       THEN SubSeq(written', 1, check.head.seq)
                                       ELSE SubSeq(written', check.from,
                                                   check.from + Len(check.rows) - 1)
        BY DEF IntactMeansWhole
    <2>2. CASE check.by = "cli"
        <3>1. check.head.seq \in 0..n
            BY <2>1, <2>2 DEF ChainIndInv, IntactIsWritten
        <3>2. SubSeq(written \o m, 1, check.head.seq) = SubSeq(written, 1, check.head.seq)
            BY <1>1, <3>1, PieceStays
        <3> QED
            BY <2>1, <2>2, <3>2 DEF ChainIndInv, IntactMeansWhole
    <2>3. CASE check.by # "cli"
        <3> DEFINE last == check.from + Len(check.rows) - 1
        <3>1. /\ IsList(check.rows) /\ check.from \in Nat /\ check.from >= 1
              /\ check.rows = <<>> \/ last <= n
            BY <2>1, <2>3 DEF ChainIndInv, IntactIsWritten, CheckOK
        <3>2. Len(check.rows) \in Nat /\ (check.rows = <<>> <=> Len(check.rows) = 0)
            BY <3>1, ListFacts
        <3>3. check.rows = SubSeq(written, check.from, last)
            BY <2>1, <2>3 DEF ChainIndInv, IntactMeansWhole
        <3>4. CASE check.rows = <<>>
            <4>1. last = check.from - 1
                BY <3>1, <3>2, <3>4
            <4>2. SubSeq(written', check.from, check.from - 1) = <<>>
                BY <3>1, NoPiece
            <4> QED
                BY <2>3, <3>4, <4>1, <4>2
        <3>5. CASE check.rows # <<>>
            <4>1. last \in Nat /\ last <= n
                BY <3>1, <3>2, <3>5
            <4>2. SubSeq(written \o m, check.from, last) = SubSeq(written, check.from, last)
                BY <1>1, <3>1, <4>1, PieceStays
            <4> QED
                BY <2>3, <3>3, <4>2
        <3> QED
            BY <3>4, <3>5
    <2> QED
        BY <2>2, <2>3
<1> QED
    BY <1>6, <1>7, <1>8, <1>9

LEMMA CommitOK ==
    ASSUME ChainIndInv, NEW w \in Worker, Commit(w)
    PROVE  ChainIndInv'
<1>1. /\ End(w) /\ written' = written \o tx[w].mine
      /\ UNCHANGED <<check, requests, checks, damages>>
      /\ headLock = w
    BY DEF Commit, counts, ChainIndInv, TxOK
<1>2. ChainTypes'
    BY <1>1, Ended DEF ChainIndInv, ChainTypes
<1>3. LogOK'
    BY LogGrows
<1>4. IsList(tx[w].mine)
    BY DEF ChainIndInv, TxOK
<1>5. CheckOK' /\ IntactMeansWhole' /\ AlarmsAreReal' /\ IntactIsWritten'
    BY <1>1, <1>4, CheckStays
<1>6. ASSUME NEW v \in Worker, v # w PROVE TxOK(v)'
    <2>1. tx'[v] = tx[v]
        BY <1>1, <1>6, Ended
    <2>2. tx[v].mine = <<>> /\ tx[v].pc \in {"idle", "subject", "head"}
        BY <1>1, <1>6, OnlyTheHolder
    <2>3. IsList(<<>>) /\ Linked(<<>>, head.hash, head.seq)'
        BY EmptyList, NothingLinked DEF Linked
    <2> QED
        BY <2>1, <2>2, <2>3 DEF ChainIndInv, TxOK
<1>7. TxOK(w)'
    BY <1>1, Ended, IdleOK
<1> QED
    BY <1>2, <1>3, <1>5, <1>6, <1>7 DEF ChainIndInv

-----------------------------------------------------------------------------
(* Verifications.                                                          *)

LEMMA QuietFields ==
    /\ DOMAIN Quiet = {"pc", "by", "rows", "head", "from", "limit", "prev", "seq", "verdict"}
    /\ Quiet.pc = "idle" /\ Quiet.by = "cli" /\ Quiet.verdict = "none"
BY DEF Quiet

\* A step of a verification is right if what it leaves is.
LEMMA CheckStep ==
    ASSUME ChainIndInv, UNCHANGED <<rows, head, locks, tx, written, requests, damages>>,
           checks' \in 0..MaxChecks,
           CheckOK', IntactMeansWhole', AlarmsAreReal', IntactIsWritten'
    PROVE  ChainIndInv'
<1>1. LogOK'
    BY DEF ChainIndInv, LogOK, Sealed, Linked
<1>2. ChainTypes'
    BY DEF ChainIndInv, ChainTypes, locks
<1>3. ASSUME NEW w \in Worker PROVE TxOK(w)'
    BY DEF ChainIndInv, TxOK, Latest, locks
<1> QED
    BY <1>1, <1>2, <1>3 DEF ChainIndInv

\* As long as there is no verdict nothing is said of it.
LEMMA NoVerdict ==
    ASSUME check'.verdict = "none"
    PROVE  IntactMeansWhole' /\ AlarmsAreReal' /\ IntactIsWritten'
BY DEF IntactMeansWhole, AlarmsAreReal, IntactIsWritten

LEMMA StartCheckOK ==
    ASSUME ChainIndInv, StartCheck
    PROVE  ChainIndInv'
<1>1. CheckOK' /\ check'.verdict = "none"
    <2>1. CASE check' = [Quiet EXCEPT !.pc = "rows"]
        <3>1. DOMAIN check' = DOMAIN Quiet /\ check'.pc = "rows" /\ check'.by = "cli"
              /\ check'.verdict = "none"
            BY <2>1, QuietFields
        <3> QED
            BY <3>1 DEF CheckOK
    <2>2. ASSUME NEW n \in Window, NEW f \in 0..(Len(written) + 1),
                 check' = [Quiet EXCEPT !.pc = "head", !.by = "api", !.limit = n, !.from = f]
          PROVE  CheckOK' /\ check'.verdict = "none"
        <3>1. /\ DOMAIN check' = DOMAIN Quiet /\ check'.pc = "head" /\ check'.by = "api"
              /\ check'.verdict = "none" /\ check'.limit = n /\ check'.from = f
            BY <2>2, QuietFields
        <3>2. n \in Nat \ {0} /\ f \in Nat
            BY AuditAssumption, ListFacts DEF ChainIndInv, LogOK
        <3> QED
            BY <3>1, <3>2 DEF CheckOK
    <2> QED
        BY <2>1, <2>2 DEF StartCheck
<1>2. checks' \in 0..MaxChecks
    <2>1. checks < MaxChecks /\ checks' = checks + 1
        BY Zenon DEF StartCheck
    <2> QED
        BY <2>1, AuditAssumption DEF ChainIndInv, ChainTypes
<1> QED
    BY <1>1, <1>2, CheckStep, NoVerdict DEF StartCheck

LEMMA EndCheckOK ==
    ASSUME ChainIndInv, EndCheck
    PROVE  ChainIndInv'
<1>1. CheckOK' /\ check'.verdict = "none"
    BY QuietFields DEF EndCheck, CheckOK
<1> QED
    BY <1>1, CheckStep, NoVerdict DEF EndCheck, ChainIndInv, ChainTypes, counts

\* What the command says of all the entries and the head.
LEMMA VerdictOfAll ==
    ASSUME ChainIndInv, NEW s, NEW v, v = VerifyAll(s, head), IsList(s), Sealed(s),
           damages = 0 => Linked(s, NoDigest, 0)
    PROVE  /\ v = "INTACT" => s = SubSeq(written, 1, head.seq)
           /\ v \in {"MISSING_SEQUENCE", "BROKEN_LINK", "HASH_MISMATCH"} => damages > 0
<1> DEFINE first == IF s = <<>> THEN 1 ELSE s[1].seq
           run == VerifyRun(s, NoDigest, first)
<1>1. v = IF run = "INTACT" /\ LastSeq(s) # head.seq THEN "HEAD_MISMATCH" ELSE run
    BY DEF VerifyAll
<1>2. IsList(written) /\ Linked(written, NoDigest, 0) /\ head.seq = Len(written)
    BY DEF ChainIndInv, LogOK, HeadOf
<1>3. Len(s) \in Nat /\ (s = <<>> <=> Len(s) = 0)
    BY ListFacts
<1>4. ASSUME v = "INTACT" PROVE s = SubSeq(written, 1, head.seq)
    <2>1. run = "INTACT" /\ LastSeq(s) = head.seq
        BY <1>1, <1>4
    <2>2. CASE s = <<>>
        <3>1. head.seq = 0
            BY <2>1, <2>2 DEF LastSeq
        <3>2. SubSeq(written, 1, 1 - 1) = <<>>
            BY NoPiece
        <3> QED
            BY <2>2, <3>1, <3>2
    <2>3. CASE s # <<>>
        <3>1. first = 1
            BY <1>2, <2>1, <2>3, FirstIsFirst
        <3> HIDE DEF first
        <3>2. VerifyRun(s, NoDigest, 1) = "INTACT"
            BY <2>1, <3>1
        <3>3. s = SubSeq(written, 1, 1 + Len(s) - 1)
            BY <1>2, <2>3, <3>2, IntactRunIsWritten
        <3>4. s[Len(s)].seq = 1 + Len(s) - 1
            BY <1>3, <2>3, <3>2, NumberedInOrder
        <3>5. head.seq = 1 + Len(s) - 1
            BY <2>1, <2>3, <3>4 DEF LastSeq
        <3> QED
            BY <3>3, <3>5
    <2> QED
        BY <2>2, <2>3
<1>5. ASSUME damages = 0 PROVE run = "INTACT"
    <2>1. Linked(s, NoDigest, 0)
        BY <1>5
    <2>2. first = 0 + 1
        <3>1. CASE s # <<>>
            <4>1. 1 \in 1..Len(s)
                BY <1>3, <3>1
            <4>2. s[1].seq = 0 + 1
                BY <2>1, <4>1, LinkOf
            <4> QED
                BY <3>1, <4>2
        <3> QED
            BY <3>1
    <2> HIDE DEF first
    <2>3. VerifyRun(s, NoDigest, 0 + 1) = "INTACT"
        BY <2>1, ChainIsIntact
    <2> QED
        BY <2>2, <2>3
<1>6. damages \in Nat
    BY AuditAssumption DEF ChainIndInv, ChainTypes
<1> HIDE DEF run
<1> QED
    BY <1>1, <1>4, <1>5, <1>6

LEMMA CheckHeadOK ==
    ASSUME ChainIndInv, CheckHead
    PROVE  ChainIndInv'
<1>1. /\ check.pc = "head" /\ check.verdict = "none" /\ DOMAIN check = DOMAIN Quiet
      /\ check.by \in {"cli", "api"}
    BY DEF CheckHead, ChainIndInv, CheckOK
<1>2. /\ UNCHANGED <<rows, head, locks, tx, written, requests, checks, damages>>
      /\ checks \in 0..MaxChecks
    BY DEF CheckHead, counts, ChainIndInv, ChainTypes
<1>3. head.seq = Len(written) /\ Len(written) \in Nat
    BY ListFacts DEF ChainIndInv, LogOK, HeadOf
<1>4. CASE check.by = "cli"
    <2> DEFINE v == VerifyAll(check.rows, head)
    <2>1. check' = [check EXCEPT !.pc = "done", !.head = head, !.verdict = v]
        BY <1>4 DEF CheckHead
    <2>2. /\ IsList(check.rows) /\ Sealed(check.rows)
          /\ damages = 0 => Linked(check.rows, NoDigest, 0)
        BY <1>1, <1>4 DEF ChainIndInv, CheckOK
    <2>3. /\ v = "INTACT" => check.rows = SubSeq(written, 1, head.seq)
          /\ v \in {"MISSING_SEQUENCE", "BROKEN_LINK", "HASH_MISMATCH"} => damages > 0
        BY <2>2, VerdictOfAll
    <2> HIDE DEF v
    <2>4. /\ DOMAIN check' = DOMAIN check /\ check'.pc = "done" /\ check'.by = "cli"
          /\ check'.head = head /\ check'.verdict = v /\ check'.rows = check.rows
        BY <1>1, <1>4, <2>1, QuietFields
    <2>5. CheckOK'
        BY <1>1, <2>4 DEF CheckOK
    <2>6. IntactMeansWhole' /\ AlarmsAreReal' /\ IntactIsWritten'
        BY <1>2, <1>3, <2>2, <2>3, <2>4
        DEF IntactMeansWhole, AlarmsAreReal, IntactIsWritten
    <2> QED
        BY <1>2, <2>5, <2>6, CheckStep
<1>5. CASE check.by = "api"
    <2> DEFINE from == FirstOf(check.from, check.limit, head.seq)
    <2>1. check' = [check EXCEPT !.pc = "before", !.head = head, !.from = from]
        BY <1>5 DEF CheckHead
    <2>2. check.from \in Nat /\ check.limit \in Nat \ {0}
        BY <1>5 DEF ChainIndInv, CheckOK
    <2>3. from \in Nat /\ from >= 1
        BY <1>3, <2>2 DEF FirstOf, Past
    <2> HIDE DEF from
    <2>4. /\ DOMAIN check' = DOMAIN check /\ check'.pc = "before" /\ check'.by = "api"
          /\ check'.head = head /\ check'.from = from /\ check'.limit = check.limit
          /\ check'.verdict = "none"
        BY <1>1, <1>5, <2>1, QuietFields
    <2>5. CheckOK'
        BY <1>1, <1>2, <1>3, <2>2, <2>3, <2>4 DEF CheckOK
    <2> QED
        BY <1>2, <2>4, <2>5, CheckStep, NoVerdict
<1> QED
    BY <1>1, <1>4, <1>5

\* Where a window begins that is asked for within the log, if nobody touched the table.
LEMMA PlaceOf ==
    ASSUME ChainIndInv, damages = 0, NEW n \in 0..Len(rows), NEW from \in Nat, from >= 1,
           Precede(n, from), from <= Len(written) + 1
    PROVE  n = from - 1
<1>1. /\ rows = written /\ DOMAIN written = 1..Len(written) /\ Len(written) \in Nat
      /\ IsList(written) /\ Linked(written, NoDigest, 0)
    BY ListFacts DEF ChainIndInv, LogOK
<1>2. ASSUME NEW i \in 1..Len(written) PROVE i < from <=> i <= n
    <2>1. written[i].seq = 0 + i
        BY <1>1, LinkOf
    <2> QED
        BY <1>1, <2>1 DEF Precede
<1>3. ~(n >= from)
    <2>1. SUFFICES ASSUME n >= from PROVE FALSE
        OBVIOUS
    <2>2. n \in 1..Len(written)
        BY <1>1, <2>1
    <2> QED
        BY <1>2, <2>1, <2>2
<1>4. ~(n < from - 1)
    <2>1. SUFFICES ASSUME n < from - 1 PROVE FALSE
        OBVIOUS
    <2>2. n + 1 \in 1..Len(written) /\ n + 1 < from /\ ~(n + 1 <= n)
        BY <1>1, <2>1
    <2> QED
        BY <1>2, <2>2
<1> QED
    BY <1>1, <1>3, <1>4

LEMMA CheckBeforeOK ==
    ASSUME ChainIndInv, CheckBefore
    PROVE  ChainIndInv'
<1>1. /\ check.pc = "before" /\ check.verdict = "none" /\ DOMAIN check = DOMAIN Quiet
      /\ check.by = "api" /\ check.limit \in Nat \ {0}
      /\ check.from \in Nat /\ check.from >= 1 /\ check.head.seq \in 0..Len(written)
    BY DEF CheckBefore, ChainIndInv, CheckOK
<1>2. /\ UNCHANGED <<rows, head, locks, tx, written, requests, checks, damages>>
      /\ checks \in 0..MaxChecks
    BY DEF CheckBefore, counts, ChainIndInv, ChainTypes
<1>3. PICK n \in 0..Len(rows) :
         /\ Precede(n, check.from)
         /\ check' = [check EXCEPT !.pc = "rows", !.prev = DigestAt(rows, n),
                                   !.seq = IF n = 0 THEN 1 ELSE rows[n].seq + 1]
    BY DEF CheckBefore
<1> DEFINE prev == DigestAt(rows, n)
           seq  == IF n = 0 THEN 1 ELSE rows[n].seq + 1
<1>4. seq \in 1..check.from
    <2>1. CASE n = 0
        BY <1>1, <2>1
    <2>2. CASE n # 0
        <3>1. n \in DOMAIN rows /\ n <= n
            BY <2>2, ListFacts DEF ChainIndInv, LogOK
        <3>2. rows[n].seq < check.from
            BY <1>3, <3>1 DEF Precede
        <3>3. rows[n].seq \in Nat
            BY <3>1 DEF ChainIndInv, LogOK, Sealed
        <3> QED
            BY <1>1, <2>2, <3>2, <3>3
    <2> QED
        BY <2>1, <2>2
<1>5. ASSUME damages = 0, check.from <= check.head.seq + 1
      PROVE  prev = DigestAt(written, check.from - 1) /\ seq = check.from
    <2>1. Len(written) \in Nat /\ IsList(written) /\ Linked(written, NoDigest, 0)
          /\ rows = written
        BY <1>5, ListFacts DEF ChainIndInv, LogOK
    <2>2. check.from <= Len(written) + 1
        BY <1>1, <1>5, <2>1
    <2>3. n = check.from - 1
        BY <1>1, <1>3, <1>5, <2>2, PlaceOf
    <2>4. n # 0 => rows[n].seq = 0 + n
        <3>1. ASSUME n # 0 PROVE n \in 1..Len(written)
            BY <2>1, <3>1
        <3> QED
            BY <2>1, <3>1, LinkOf
    <2> QED
        BY <1>1, <2>1, <2>3, <2>4
<1> HIDE DEF prev, seq
<1>6. check' = [check EXCEPT !.pc = "rows", !.prev = prev, !.seq = seq]
    BY <1>3 DEF prev, seq
<1>7. /\ DOMAIN check' = DOMAIN check /\ check'.pc = "rows" /\ check'.by = "api"
      /\ check'.head = check.head /\ check'.from = check.from /\ check'.limit = check.limit
      /\ check'.prev = prev /\ check'.seq = seq /\ check'.verdict = "none"
    BY <1>1, <1>6, QuietFields
<1>8. DigestAt(written', check.from - 1) = DigestAt(written, check.from - 1)
    BY <1>2
<1>9. CheckOK'
    BY <1>1, <1>2, <1>4, <1>5, <1>7, <1>8 DEF CheckOK
<1> QED
    BY <1>2, <1>7, <1>9, CheckStep, NoVerdict

\* What is read of the table, from the place after the first n entries.
LEMMA RunOf ==
    ASSUME ChainIndInv, NEW n \in 0..Len(rows), NEW limit \in Nat
    PROVE  /\ IsList(ChainRun(n, limit))
           /\ n + Len(ChainRun(n, limit)) <= Len(rows)
           /\ \A i \in 1..Len(ChainRun(n, limit)) : ChainRun(n, limit)[i] = rows[n + i]
           /\ Sealed(ChainRun(n, limit))
<1> DEFINE last == IF Len(rows) < n + limit THEN Len(rows) ELSE n + limit
           run  == SubSeq(rows, n + 1, last)
<1>1. IsList(rows) /\ Sealed(rows) /\ Len(rows) \in Nat /\ DOMAIN rows = 1..Len(rows)
    BY ListFacts DEF ChainIndInv, LogOK
<1>2. last \in Nat /\ last <= Len(rows) /\ n + 1 \in Nat /\ 1 <= n + 1 /\ n <= last
    BY <1>1
<1> HIDE DEF last
<1>3. /\ IsList(run)
      /\ Len(run) = IF n + 1 <= last THEN last - (n + 1) + 1 ELSE 0
      /\ \A i \in 1..last - (n + 1) + 1 : run[i] = rows[(n + 1) + i - 1]
    BY <1>1, <1>2, SubList
<1> HIDE DEF run
<1>4. n + Len(run) <= Len(rows) /\ Len(run) = last - n
    BY <1>1, <1>2, <1>3
<1>5. ASSUME NEW i \in 1..Len(run) PROVE run[i] = rows[n + i] /\ n + i \in DOMAIN rows
    <2>1. i \in 1..last - (n + 1) + 1 /\ (n + 1) + i - 1 = n + i
        BY <1>2, <1>4
    <2> QED
        BY <1>1, <1>3, <1>4, <2>1
<1>6. Sealed(run)
    <2>1. DOMAIN run = 1..Len(run)
        BY <1>3, ListFacts
    <2>2. ASSUME NEW i \in 1..Len(run)
          PROVE  /\ run[i] = [seq |-> run[i].seq, who |-> run[i].who,
                              prev |-> run[i].prev, hash |-> run[i].hash]
                 /\ run[i].seq \in Nat /\ run[i].who \in User
                 /\ \E k \in DOMAIN written : run[i].hash = written[k].hash
        BY <1>1, <1>5 DEF Sealed
    <2> QED
        BY <2>1, <2>2 DEF Sealed
<1>7. ChainRun(n, limit) = run
    BY DEF ChainRun, run, last
<1> QED
    BY <1>3, <1>4, <1>5, <1>6, <1>7

\* What the endpoint says of a window and the head it read before.
LEMMA VerdictOfWindow ==
    ASSUME ChainIndInv, check.by = "api", check.pc = "rows",
           NEW n \in 0..Len(rows), Precede(n, check.from),
           NEW run, run = ChainRun(n, check.limit),
           NEW v, v = VerifyWindow(run, check.head, check.prev, check.seq, check.limit)
    PROVE  /\ v = "INTACT" =>
                 /\ run = <<>> \/ check.from + Len(run) - 1 <= Len(written)
                 /\ run = SubSeq(written, check.from, check.from + Len(run) - 1)
           /\ v \in {"MISSING_SEQUENCE", "BROKEN_LINK", "HASH_MISMATCH"} =>
                 damages > 0 \/ check.from > check.head.seq + 1
<1> DEFINE from  == check.from
           limit == check.limit
           seq   == check.seq
           prev  == check.prev
           h     == check.head
<1>0. /\ limit \in Nat /\ from \in Nat \ {0} /\ seq \in 1..from /\ h.seq \in 0..Len(written)
      /\ damages = 0 /\ from <= h.seq + 1 =>
            prev = DigestAt(written, from - 1) /\ seq = from
      /\ Precede(n, from) /\ run = ChainRun(n, limit)
      /\ v = VerifyWindow(run, h, prev, seq, limit)
    BY DEF ChainIndInv, CheckOK
<1> HIDE DEF limit, seq, prev, h, from
<1> DEFINE found == VerifyRun(run, prev, seq)
<1>1. v \in {"HEAD_MISMATCH", found}
    BY <1>0 DEF VerifyWindow
<1>2. IsList(written) /\ Linked(written, NoDigest, 0) /\ IsList(rows)
    BY DEF ChainIndInv, LogOK
<1>3. Len(written) \in Nat /\ Len(rows) \in Nat /\ DOMAIN rows = 1..Len(rows)
    BY <1>2, ListFacts
<1>4. /\ IsList(run) /\ Sealed(run) /\ n + Len(run) <= Len(rows)
      /\ \A i \in 1..Len(run) : run[i] = rows[n + i]
    <2> DEFINE r == ChainRun(n, limit)
    <2>1. /\ IsList(r) /\ Sealed(r) /\ n + Len(r) <= Len(rows)
          /\ \A i \in 1..Len(r) : r[i] = rows[n + i]
        BY <1>0, RunOf
    <2>2. run = r
        BY <1>0
    <2> HIDE DEF r
    <2> QED
        BY <2>1, <2>2
<1>5. Len(run) \in Nat /\ (run = <<>> <=> Len(run) = 0)
    BY <1>4, ListFacts
<1>6. ASSUME found = "INTACT"
      PROVE  /\ run = <<>> \/ from + Len(run) - 1 <= Len(written)
             /\ run = SubSeq(written, from, from + Len(run) - 1)
    <2>1. CASE run = <<>>
        <3>1. SubSeq(written, from, from - 1) = <<>> /\ from + Len(run) - 1 = from - 1
            BY <1>0, <1>5, <2>1, NoPiece
        <3> QED
            BY <2>1, <3>1
    <2>2. CASE run # <<>>
        <3>1. 1 \in 1..Len(run) /\ n + 1 \in DOMAIN rows
            BY <1>3, <1>4, <1>5, <2>2
        <3>2. run[1].seq = seq + 1 - 1
            BY <1>0, <1>4, <1>6, <3>1, NumberedInOrder
        <3>3. rows[n + 1].seq = seq
            BY <1>0, <1>4, <3>1, <3>2
        <3>4. ~(rows[n + 1].seq < from)
            BY <1>0, <3>1 DEF Precede
        <3>5. seq = from
            BY <1>0, <3>3, <3>4
        <3>6. found = VerifyRun(run, prev, from)
            BY <3>5
        <3> HIDE DEF found
        <3>7. /\ from + Len(run) - 1 <= Len(written)
              /\ run = SubSeq(written, from, from + Len(run) - 1)
            BY <1>0, <1>2, <1>4, <1>6, <2>2, <3>6, IntactRunIsWritten
        <3> QED
            BY <3>7
    <2> QED
        BY <2>1, <2>2
<1>7. ASSUME damages = 0, from <= h.seq + 1 PROVE found = "INTACT"
    <2>1. rows = written /\ from <= Len(written) + 1
        BY <1>0, <1>3, <1>7 DEF ChainIndInv, LogOK
    <2>2. n = from - 1
        BY <1>0, <1>7, <2>1, PlaceOf
    <2> DEFINE last == IF Len(written) < n + limit THEN Len(written) ELSE n + limit
    <2>3. last \in Nat /\ last <= Len(written)
        BY <1>0, <1>3, <2>2
    <2>4. run = SubSeq(written, from, last)
        <3>1. n + 1 = from
            BY <1>0, <2>2
        <3> QED
            BY <1>0, <2>1, <3>1 DEF ChainRun
    <2> HIDE DEF last
    <2>5. Linked(run, DigestAt(written, from - 1), from - 1)
        BY <1>0, <1>2, <2>3, <2>4, PieceOfChain
    <2>6. VerifyRun(run, DigestAt(written, from - 1), (from - 1) + 1) = "INTACT"
        BY <1>0, <1>4, <2>2, <2>5, ChainIsIntact
    <2>7. (from - 1) + 1 = from
        BY <1>0
    <2> QED
        BY <1>0, <1>7, <2>6, <2>7
<1>8. damages \in Nat
    BY AuditAssumption DEF ChainIndInv, ChainTypes
<1> HIDE DEF found
<1> QED
    BY <1>0, <1>1, <1>6, <1>7, <1>8 DEF from, h

LEMMA CheckRowsOK ==
    ASSUME ChainIndInv, CheckRows
    PROVE  ChainIndInv'
<1>1. /\ check.pc = "rows" /\ check.verdict = "none" /\ DOMAIN check = DOMAIN Quiet
      /\ check.by \in {"cli", "api"}
    BY DEF CheckRows, ChainIndInv, CheckOK
<1>2. /\ UNCHANGED <<rows, head, locks, tx, written, requests, checks, damages>>
      /\ checks \in 0..MaxChecks
    BY DEF CheckRows, counts, ChainIndInv, ChainTypes
<1>3. CASE check.by = "cli"
    <2>1. check' = [check EXCEPT !.pc = "head", !.rows = rows]
        BY <1>3 DEF CheckRows, CheckAll
    <2>2. /\ DOMAIN check' = DOMAIN check /\ check'.pc = "head" /\ check'.by = "cli"
          /\ check'.rows = rows /\ check'.verdict = "none"
        BY <1>1, <1>3, <2>1, QuietFields
    <2>3. /\ IsList(rows) /\ Sealed(rows)
          /\ damages = 0 => Linked(rows, NoDigest, 0)
        BY DEF ChainIndInv, LogOK
    <2>4. CheckOK'
        <3>1. Sealed(check'.rows) /\ UNCHANGED written
            BY <1>2, <2>2, <2>3
        <3>2. Sealed(check.rows)'
            BY <3>1 DEF Sealed
        <3>3. IsList(check.rows)' /\ (damages = 0 => Linked(check.rows, NoDigest, 0))'
            BY <1>2, <2>2, <2>3 DEF IsList, Linked
        <3> QED
            BY <1>1, <2>2, <3>2, <3>3 DEF CheckOK
    <2> QED
        BY <1>2, <2>2, <2>4, CheckStep, NoVerdict
<1>4. CASE check.by = "api"
    <2>1. PICK n \in 0..Len(rows) :
             /\ Precede(n, check.from)
             /\ check' = [check EXCEPT !.pc = "done", !.rows = ChainRun(n, check.limit),
                             !.verdict = VerifyWindow(ChainRun(n, check.limit), check.head,
                                                      check.prev, check.seq, check.limit)]
        BY <1>4, Zenon DEF CheckRows, CheckSome
    <2> DEFINE run == ChainRun(n, check.limit)
               v   == VerifyWindow(run, check.head, check.prev, check.seq, check.limit)
    <2>2. /\ check.limit \in Nat /\ check.from \in Nat \ {0} /\ check.seq \in 1..check.from
          /\ check.head.seq \in 0..Len(written)
          /\ damages = 0 /\ check.from <= check.head.seq + 1 =>
                check.prev = DigestAt(written, check.from - 1) /\ check.seq = check.from
        BY <1>1, <1>4 DEF ChainIndInv, CheckOK
    <2>3. /\ v = "INTACT" =>
                /\ run = <<>> \/ check.from + Len(run) - 1 <= Len(written)
                /\ run = SubSeq(written, check.from, check.from + Len(run) - 1)
          /\ v \in {"MISSING_SEQUENCE", "BROKEN_LINK", "HASH_MISMATCH"} =>
                damages > 0 \/ check.from > check.head.seq + 1
        BY <1>1, <1>4, <2>1, VerdictOfWindow
    <2>4. IsList(run)
        BY <2>2, RunOf
    <2>5. check' = [check EXCEPT !.pc = "done", !.rows = run, !.verdict = v]
        BY <2>1
    <2> HIDE DEF run, v
    <2>6. /\ DOMAIN check' = DOMAIN check /\ check'.pc = "done" /\ check'.by = "api"
          /\ check'.rows = run /\ check'.verdict = v /\ check'.from = check.from
          /\ check'.limit = check.limit /\ check'.head = check.head
        BY <1>1, <1>4, <2>5, QuietFields
    <2>7. CheckOK'
        BY <1>1, <1>4, <2>2, <2>6 DEF CheckOK, ChainIndInv
    <2>8. IntactMeansWhole' /\ AlarmsAreReal' /\ IntactIsWritten'
        BY <1>2, <2>2, <2>3, <2>4, <2>6
        DEF IntactMeansWhole, AlarmsAreReal, IntactIsWritten
    <2> QED
        BY <1>2, <2>7, <2>8, CheckStep
<1> QED
    BY <1>1, <1>3, <1>4

-----------------------------------------------------------------------------
(* Damage.                                                                 *)

\* Every accident leaves entries whose digests were made by append.
LEMMA DamageSealed ==
    ASSUME IsList(rows), Sealed(rows), Lose \/ Alter \/ Exchange
    PROVE  /\ IsList(rows')
           /\ \A i \in DOMAIN rows' :
                 /\ rows'[i] = [seq |-> rows'[i].seq, who |-> rows'[i].who,
                                prev |-> rows'[i].prev, hash |-> rows'[i].hash]
                 /\ rows'[i].seq \in Nat /\ rows'[i].who \in User
                 /\ \E k \in DOMAIN written : rows'[i].hash = written[k].hash
<1>1. Len(rows) \in Nat /\ DOMAIN rows = 1..Len(rows) /\ rows \in Seq(Items(rows))
    BY ListFacts
<1>2. rows = [i \in 1..Len(rows) |-> rows[i]]
    BY <1>1, LenProperties
<1>3. CASE Lose
    <2>0. PICK n \in 0..Len(rows) :
             \E f \in [1..n -> DOMAIN rows] : rows' = [i \in 1..n |-> rows[f[i]]]
        BY <1>3 DEF Lose
    <2>1. PICK stays \in [1..n -> DOMAIN rows] : rows' = [i \in 1..n |-> rows[stays[i]]]
        BY <2>0
    <2>2. DOMAIN rows' = 1..n /\ n \in Nat
        BY <1>1, <2>1
    <2>3. IsList(rows')
        BY <2>1, <2>2, FunctionList
    <2>4. \A i \in DOMAIN rows' : stays[i] \in DOMAIN rows /\ rows'[i] = rows[stays[i]]
        BY <2>1, <2>2
    <2> QED
        BY <2>3, <2>4 DEF Sealed
<1>4. ASSUME NEW n \in Nat, DOMAIN rows' = 1..n, rows' = [i \in 1..n |-> rows'[i]]
      PROVE  IsList(rows')
    BY <1>4, FunctionList
<1>5. CASE Alter
    <2>1. PICK i \in DOMAIN rows, u \in User : rows' = [rows EXCEPT ![i].who = u]
        BY <1>5 DEF Alter
    <2> DEFINE e == [rows[i] EXCEPT !.who = u]
    <2>2. rows[i] = [seq |-> rows[i].seq, who |-> rows[i].who, prev |-> rows[i].prev,
                     hash |-> rows[i].hash]
          /\ rows[i].seq \in Nat
        BY DEF Sealed
    <2>3. e = [seq |-> rows[i].seq, who |-> u, prev |-> rows[i].prev, hash |-> rows[i].hash]
        BY <2>2
    <2>4. rows' = [rows EXCEPT ![i] = e]
        BY <2>1
    <2> HIDE DEF e
    <2>5. DOMAIN rows' = 1..Len(rows) /\ rows' = [j \in 1..Len(rows) |-> rows'[j]]
          /\ \A j \in DOMAIN rows : rows'[j] = IF j = i THEN e ELSE rows[j]
        BY <1>1, <2>4
    <2> QED
        BY <1>1, <1>4, <2>2, <2>3, <2>5 DEF Sealed
<1>6. CASE Exchange
    <2>1. PICK i \in DOMAIN rows, j \in DOMAIN rows :
             rows' = [rows EXCEPT ![i] = [rows[j] EXCEPT !.seq = rows[i].seq],
                                  ![j] = [rows[i] EXCEPT !.seq = rows[j].seq]]
        BY <1>6 DEF Exchange
    <2> DEFINE e == [rows[j] EXCEPT !.seq = rows[i].seq]
               f == [rows[i] EXCEPT !.seq = rows[j].seq]
    <2>2. \A k \in {i, j} :
             /\ rows[k] = [seq |-> rows[k].seq, who |-> rows[k].who, prev |-> rows[k].prev,
                           hash |-> rows[k].hash]
             /\ rows[k].seq \in Nat /\ rows[k].who \in User
        BY DEF Sealed
    <2>3. /\ e = [seq |-> rows[i].seq, who |-> rows[j].who, prev |-> rows[j].prev,
                  hash |-> rows[j].hash]
          /\ f = [seq |-> rows[j].seq, who |-> rows[i].who, prev |-> rows[i].prev,
                  hash |-> rows[i].hash]
        BY <2>2
    <2>4. rows' = [rows EXCEPT ![i] = e, ![j] = f]
        BY <2>1
    <2> HIDE DEF e, f
    <2>5. DOMAIN rows' = 1..Len(rows) /\ rows' = [k \in 1..Len(rows) |-> rows'[k]]
          /\ \A k \in DOMAIN rows : rows'[k] = IF k = j THEN f ELSE IF k = i THEN e ELSE rows[k]
        BY <1>1, <2>4
    <2> QED
        BY <1>1, <1>4, <2>2, <2>3, <2>5 DEF Sealed
<1> QED
    BY <1>3, <1>5, <1>6

LEMMA DamageOK ==
    ASSUME ChainIndInv, Damage
    PROVE  ChainIndInv'
<1>1. /\ damages' = damages + 1 /\ damages' \in 0..MaxDamage /\ damages' # 0
      /\ UNCHANGED <<head, locks, tx, check, written, requests, checks>>
      /\ Lose \/ Alter \/ Exchange
    BY AuditAssumption DEF Damage, ChainIndInv, ChainTypes
<1>2. LogOK'
    <2>1. IsList(rows) /\ Sealed(rows) /\ IsList(written) /\ Linked(written, NoDigest, 0)
          /\ head = HeadOf(written)
        BY DEF ChainIndInv, LogOK
    <2>2. IsList(rows') /\ Sealed(rows)'
        BY <1>1, <2>1, DamageSealed DEF Sealed
    <2>3. (IsList(written) /\ Linked(written, NoDigest, 0) /\ head = HeadOf(written))'
        BY <1>1, <2>1 DEF IsList, Linked, HeadOf, DigestAt
    <2> QED
        BY <1>1, <2>2, <2>3 DEF LogOK
<1>3. ChainTypes'
    BY <1>1 DEF ChainIndInv, ChainTypes, locks
<1>4. ASSUME NEW w \in Worker PROVE TxOK(w)'
    BY <1>1 DEF ChainIndInv, TxOK, Latest, locks
<1>5. CheckOK'
    BY <1>1 DEF ChainIndInv, CheckOK, Sealed
<1>6. IntactMeansWhole' /\ AlarmsAreReal' /\ IntactIsWritten'
    <2>1. damages' > 0
        BY <1>1 DEF ChainIndInv, ChainTypes
    <2> QED
        BY <1>1, <2>1 DEF ChainIndInv, IntactMeansWhole, AlarmsAreReal, IntactIsWritten
<1> QED
    BY <1>2, <1>3, <1>4, <1>5, <1>6 DEF ChainIndInv

-----------------------------------------------------------------------------
LEMMA ChainInit == LogInit => ChainIndInv
<1> SUFFICES ASSUME LogInit PROVE ChainIndInv
    OBVIOUS
<1>1. /\ rows = <<>> /\ written = <<>> /\ damages = 0 /\ requests = 0 /\ checks = 0
      /\ head = [seq |-> 0, hash |-> NoDigest] /\ headLock = NoWorker /\ check = Quiet
      /\ userLock = [u \in User |-> NoWorker] /\ userShare = [u \in User |-> {}]
      /\ tx = [w \in Worker |-> Idle]
    BY DEF LogInit
<1>2. IsList(<<>>) /\ Len(<<>>) = 0 /\ DOMAIN <<>> = {}
    BY EmptyList
<1>3. LogOK
    BY <1>1, <1>2 DEF LogOK, Linked, Sealed, HeadOf, DigestAt
<1>4. ASSUME NEW w \in Worker PROVE TxOK(w)
    BY <1>1, <1>2, IdleFields DEF TxOK, Linked
<1>5. CheckOK /\ check.verdict = "none"
    BY <1>1, QuietFields DEF CheckOK
<1>6. IntactMeansWhole /\ AlarmsAreReal /\ IntactIsWritten
    BY <1>5 DEF IntactMeansWhole, AlarmsAreReal, IntactIsWritten
<1>7. ChainTypes
    BY <1>1, AuditAssumption DEF ChainTypes
<1> QED
    BY <1>3, <1>4, <1>5, <1>6, <1>7 DEF ChainIndInv

\* Every step preserves the invariant.
LEMMA ChainNext == ChainIndInv /\ [LogNext]_logVars => ChainIndInv'
<1> SUFFICES ASSUME ChainIndInv, [LogNext]_logVars PROVE ChainIndInv'
    OBVIOUS
<1>1. ASSUME NEW w \in Worker, Begin(w) \/ Handler(w) \/ Rollback(w) PROVE ChainIndInv'
    BY <1>1, BeginOK, LockSubjectOK, LockHeadOK, InsertOK, CommitOK, RollbackOK DEF Handler
<1>2. ASSUME BreakDeadlock PROVE ChainIndInv'
    BY <1>2, RollbackOK DEF BreakDeadlock
<1>3. ASSUME Verification PROVE ChainIndInv'
    BY <1>3, StartCheckOK, CheckHeadOK, CheckBeforeOK, CheckRowsOK, EndCheckOK
    DEF Verification
<1>4. ASSUME Damage PROVE ChainIndInv'
    BY <1>4, DamageOK
<1>5. CASE UNCHANGED logVars
    <2>1. UNCHANGED <<rows, head, locks, tx, written, requests, damages, check, checks>>
        BY <1>5 DEF logVars, counts
    <2>2. CheckOK' /\ IntactMeansWhole' /\ AlarmsAreReal' /\ IntactIsWritten'
        BY <2>1 DEF ChainIndInv, CheckOK, Sealed, IntactMeansWhole, AlarmsAreReal,
                    IntactIsWritten
    <2>3. checks' \in 0..MaxChecks
        BY <2>1 DEF ChainIndInv, ChainTypes
    <2> QED
        BY <2>1, <2>2, <2>3, CheckStep
<1> QED
    BY <1>1, <1>2, <1>3, <1>4, <1>5 DEF LogNext

\* The log is a chain whose end the head names, only the transaction that holds the
\* head adds to it, and what a verification has read fits it so far.
THEOREM ChainInvariant == LogSpec => []ChainIndInv
BY ChainInit, ChainNext, PTL DEF LogSpec

\* What a verification finds intact is what was written, whoever lost, altered or
\* exchanged entries before it or while it read.
THEOREM IntactLogIsWhole == LogSpec => []IntactMeansWhole
<1>1. ChainIndInv => IntactMeansWhole
    BY DEF ChainIndInv
<1> QED
    BY <1>1, ChainInvariant, PTL

\* A missing, misplaced or altered entry is reported only if the table was touched,
\* however many entries are appended between the statements of the verification.
THEOREM AlarmsHaveACause == LogSpec => []AlarmsAreReal
<1>1. ChainIndInv => AlarmsAreReal
    BY DEF ChainIndInv
<1> QED
    BY <1>1, ChainInvariant, PTL

=============================================================================
