--------------------------------- MODULE Roles ---------------------------------
(***************************************************************************)
(* Delegated authority: roles, their assignment to users, per-user         *)
(* overrides, and the guard that lets an actor hand out only what it holds *)
(* (src/backend/src/modules/authorization/{evaluator,delegation,service,   *)
(* repo}.rs; the actor is loaded by authentication/principal.rs).          *)
(*                                                                         *)
(* A request reads its actor's security version and then its grants, on    *)
(* the pool, and decides everything on that snapshot.  Its transaction is  *)
(* modelled one blocking statement at a time at READ COMMITTED, as in      *)
(* Sessions, and may end without committing at any point: a refusal is     *)
(* such an end.                                                            *)
(*                                                                         *)
(* Abstracted: principal types and their envelope, step-up and archived    *)
(* subjects only refuse what the model lets through; names, descriptions   *)
(* and department memberships carry no authority here; KEY SHARE locks on  *)
(* the actor's row (granted_by, the audit entry) and the lock of the audit *)
(* chain only delay a commit.  Assignments made by accepting an invitation *)
(* belong to the identity module.                                          *)
(***************************************************************************)
EXTENDS Naturals, FiniteSets

CONSTANTS
    Worker, NoWorker,
    User, Root,       \* Root is the owner of the system
    Role, SystemRole, \* the built-in roles among them
    Perm, Dangerous,  \* the catalogue, and what it flags is_dangerous
    Seeded,           \* the contents of the roles that exist at the start
    HeldAtFirst,      \* who holds them
    Contents,         \* the contents that requests ask for
    Wanted,           \* the overrides that requests ask for
    MaxVersion,       \* bounds for TLC: on the security versions that grants and
                      \* edits reach (taking a grant back goes one further) ...
    MaxRoleVersion,   \* ... and on the versions of the roles
    Sent              \* who sends what: pairs of a user and an operation

RoleScope == {"GLOBAL", "DEPARTMENT", "ASSIGNED", "SELF"}

\* A RESOURCE scope is named by its object; only users matter here.
Scope == RoleScope \cup User
Grant == [p : Perm, s : Scope]

RolesCreate == "iam.roles.create"
RolesUpdate == "iam.roles.update"
RolesDelete == "iam.roles.delete"
RolesAssign == "iam.roles.assign"
PermissionsDelegate == "iam.permissions.delegate"

Operation == {"me", "create", "update", "rename", "delete", "assign",
              "unassign", "override", "lift"}

ASSUME RolesAssumption ==
    /\ NoWorker \notin Worker
    /\ Root \in User
    /\ User \cap RoleScope = {}
    /\ Role # {} /\ SystemRole \subseteq Role
    /\ {RolesCreate, RolesUpdate, RolesDelete, RolesAssign,
        PermissionsDelegate} \subseteq Perm
    /\ Dangerous \subseteq Perm
    /\ DOMAIN Seeded \subseteq Role
    /\ Seeded \in [DOMAIN Seeded -> SUBSET Grant]
    /\ HeldAtFirst \in [User -> SUBSET DOMAIN Seeded]
    /\ Contents \subseteq SUBSET [p : Perm, s : RoleScope]
    /\ Wanted \subseteq Grant
    /\ MaxVersion \in Nat /\ MaxRoleVersion \in Nat
    /\ Sent \subseteq User \X Operation

VARIABLES
    role,       \* roles and role_permissions
    held,       \* user_role_assignments
    allow,      \* user_permission_overrides with effect ALLOW ...
    deny,       \* ... and DENY
    version,    \* users.security_version
    mfa,        \* users.mfa_required
    roleLock,   \* holder of a role's row, FOR UPDATE
    roleShare,  \* holders of its KEY SHARE lock (foreign-key checks)
    userLock,   \* holder of a user's row
    tx,         \* what each handler is doing
    origin,     \* history: the grants that were seeded or made by the owner
    lapsed      \* history: the users who had an override expire

tables == <<role, held, allow, deny, version, mfa>>
locks  == <<roleLock, roleShare, userLock>>
vars   == <<tables, locks, tx, origin, lapsed>>

RoleRow == [status : {"none", "live", "gone"}, perms : SUBSET Grant, version : Nat]

\* ActorContext: the actor's allows and denies.
Authorities == [allows : SUBSET Grant, denies : SUBSET Grant]

Transaction ==
    [op    : Operation \cup {"idle"},
     pc    : {"none", "load", "ready", "lock", "read", "holders", "bump",
              "write", "commit"},
     actor : User,
     ver   : Nat,             \* the actor's security version ...
     ctx   : Authorities,     \* ... and then its authority, as loaded
     r     : Role,
     u     : User,            \* the subject
     g     : Grant,           \* of an override
     eff   : {"ALLOW", "DENY"},
     want  : SUBSET Grant,    \* the contents asked for, or read
     rver  : Nat,             \* the role's version the request was made from
     saw   : SUBSET Grant,    \* history: its contents at that time
     rows  : SUBSET User,     \* holders still to bump
     bump  : SUBSET User]     \* security versions it bumps on commit

TypeOK ==
    /\ role \in [Role -> RoleRow]
    /\ held \in [User -> SUBSET Role]
    /\ allow \in [User -> SUBSET Grant]
    /\ deny \in [User -> SUBSET Grant]
    /\ version \in [User -> Nat]
    /\ mfa \in [User -> BOOLEAN]
    /\ roleLock \in [Role -> Worker \cup {NoWorker}]
    /\ roleShare \in [Role -> SUBSET Worker]
    /\ userLock \in [User -> Worker \cup {NoWorker}]
    /\ tx \in [Worker -> Transaction]
    /\ origin \subseteq Grant
    /\ lapsed \subseteq User

-----------------------------------------------------------------------------
(* evaluator.rs and delegation.rs.                                         *)

Authority(u) ==
    [allows |-> (UNION {role[r].perms : r \in held[u]}) \cup allow[u],
     denies |-> deny[u]]

DangerousIn(G) == \E g \in G : g.p \in Dangerous

\* effective_scopes: only a GLOBAL denial takes a permission away.
EffectiveScopes(c, p) ==
    IF [p |-> p, s |-> "GLOBAL"] \in c.denies THEN {}
    ELSE {s \in Scope : [p |-> p, s |-> s] \in c.allows}

\* Slip: scopes as a ladder, GLOBAL over DEPARTMENT over ASSIGNED over SELF.
DerivableLadder(h, s) ==
    \/ h = "GLOBAL" \/ h = s
    \/ h = "DEPARTMENT" /\ s \in {"ASSIGNED", "SELF"}
    \/ h = "ASSIGNED" /\ s = "SELF"

\* derivable: DEPARTMENT and ASSIGNED are incomparable.
Derivable(h, s) ==
    \/ h = "GLOBAL" \/ h = s
    \/ h \in {"DEPARTMENT", "ASSIGNED"} /\ s = "SELF"

\* check_permission_grant and check_role_authoring for one grant.
MayGrant(c, g) == \E h \in EffectiveScopes(c, g.p) : Derivable(h, g.s)

\* check_role_authoring and check_role_assignment: grant by grant.
MayAuthor(w, G) ==
    tx[w].actor = Root \/ \A g \in G : MayGrant(tx[w].ctx, g)

\* evaluate on a collection: only GLOBAL scopes cover it.
MayAlter(w, p) ==
    \/ tx[w].actor = Root
    \/ "GLOBAL" \in EffectiveScopes(tx[w].ctx, p)

\* evaluate on another user: a GLOBAL scope covers it, or one on that user.
MayTarget(w, p) ==
    \/ tx[w].actor = Root
    \/ LET reach == {"GLOBAL", tx[w].u}
       IN  /\ \E s \in reach : [p |-> p, s |-> s] \in tx[w].ctx.allows
           /\ \A s \in reach : [p |-> p, s |-> s] \notin tx[w].ctx.denies

\* Nobody changes the owner's authority, nor assigns or grants to itself.
Protected(w) == tx[w].u = Root \/ tx[w].u = tx[w].actor

-----------------------------------------------------------------------------
(* The transaction mechanics of PostgreSQL.                                *)

At(w, op, pc) == tx[w].op = op /\ tx[w].pc = pc
Goto(w, pc)   == tx' = [tx EXCEPT ![w].pc = pc]

AnyRole  == CHOOSE r \in Role : TRUE
AnyGrant == CHOOSE g \in Grant : TRUE

Idle == [op |-> "idle", pc |-> "none", actor |-> Root, ver |-> 0,
         ctx |-> [allows |-> {}, denies |-> {}], r |-> AnyRole, u |-> Root,
         g |-> AnyGrant, eff |-> "ALLOW", want |-> {}, rver |-> 0,
         saw |-> {}, rows |-> {}, bump |-> {}]

Free(holder, w) == holder \in {NoWorker, w}

\* Slip: the role is read without FOR UPDATE.
LockRoleReads(w, r) == UNCHANGED roleLock

LockRole(w, r) ==
    /\ Free(roleLock[r], w)
    /\ roleShare[r] \subseteq {w}
    /\ roleLock' = [roleLock EXCEPT ![r] = w]

LockUser(w, u) ==
    /\ Free(userLock[u], w)
    /\ userLock' = [userLock EXCEPT ![u] = w]

\* Commit and rollback both end the transaction and release its locks.
End(w) ==
    /\ tx' = [tx EXCEPT ![w] = Idle]
    /\ roleLock' = [r \in Role |->
                      IF roleLock[r] = w THEN NoWorker ELSE roleLock[r]]
    /\ roleShare' = [r \in Role |-> roleShare[r] \ {w}]
    /\ userLock' = [u \in User |->
                      IF userLock[u] = w THEN NoWorker ELSE userLock[u]]

Init ==
    /\ role = [r \in Role |->
                 IF r \in DOMAIN Seeded
                 THEN [status |-> "live", perms |-> Seeded[r], version |-> 1]
                 ELSE [status |-> "none", perms |-> {}, version |-> 1]]
    /\ held = HeldAtFirst
    /\ allow = [u \in User |-> {}]
    /\ deny = [u \in User |-> {}]
    /\ version = [u \in User |-> 1]
    /\ mfa = [u \in User |-> DangerousIn(Authority(u).allows)]
    /\ roleLock = [r \in Role |-> NoWorker]
    /\ roleShare = [r \in Role |-> {}]
    /\ userLock = [u \in User |-> NoWorker]
    /\ tx = [w \in Worker |-> Idle]
    /\ origin = UNION {Seeded[r] : r \in DOMAIN Seeded}
    /\ lapsed = {}

-----------------------------------------------------------------------------
(* authenticate and load_actor: the security version is read first, the    *)
(* grants afterwards, in statements of their own.                          *)

OnRoles == {"create", "update", "rename", "delete"}
OnUsers == {"assign", "unassign", "override", "lift"}

\* What the requests of an operation may say.
Body(op) ==
    [r    : IF op \in OnRoles \cup {"assign", "unassign"} THEN Role ELSE {AnyRole},
     u    : IF op \in OnUsers THEN User ELSE {Root},
     g    : IF op \in {"override", "lift"} THEN Wanted ELSE {AnyGrant},
     eff  : IF op \in {"override", "lift"} THEN {"ALLOW", "DENY"} ELSE {"ALLOW"},
     want : IF op \in {"create", "update"} THEN Contents ELSE {{}}]

\* A request names a role that exists, an edit the version its author saw.
Authenticate(w, a, op) ==
    /\ tx[w].op = "idle" /\ <<a, op>> \in Sent
    /\ \E b \in Body(op) :
       /\ op # "create" => role[b.r].status # "none"
       /\ tx' = [tx EXCEPT ![w] =
                  [Idle EXCEPT !.op = op, !.pc = "load", !.actor = a,
                               !.ver = version[a], !.r = b.r, !.u = b.u,
                               !.g = b.g, !.eff = b.eff, !.want = b.want,
                               !.rver = role[b.r].version,
                               !.saw = role[b.r].perms]]
    /\ UNCHANGED <<tables, locks, origin, lapsed>>

\* A client that asked for its own capabilities keeps the answer.
LoadActor(w) ==
    /\ tx[w].pc = "load"
    /\ tx' = [tx EXCEPT ![w].ctx = Authority(tx[w].actor),
                        ![w].pc = IF tx[w].op \in {"me", "create"}
                                  THEN "ready" ELSE "lock"]
    /\ UNCHANGED <<tables, locks, origin, lapsed>>

-----------------------------------------------------------------------------
(* Roles.                                                                  *)

\* Of the grants it hands out, only the owner's need no source.
OfOwner(w, G) == IF tx[w].actor = Root THEN G ELSE {}

CreateRole(w) ==
    /\ At(w, "create", "ready")
    /\ role[tx[w].r].status = "none"
    /\ MayAlter(w, RolesCreate) /\ MayAuthor(w, tx[w].want)
    /\ role' = [role EXCEPT ![tx[w].r].status = "live",
                            ![tx[w].r].perms = tx[w].want]
    /\ origin' = origin \cup OfOwner(w, tx[w].want)
    /\ End(w)
    /\ UNCHANGED <<held, allow, deny, version, mfa, lapsed>>

\* Slip: the version the client saw is not compared.
AnyVersion(w) == TRUE

SameVersion(w) == tx[w].rver = role[tx[w].r].version

\* update_role up to the guarded UPDATE.  A request that leaves the contents
\* alone is checked against the ones there are.
LockForEdit(w) ==
    /\ tx[w].op \in {"update", "rename"} /\ tx[w].pc = "lock"
    /\ MayAlter(w, RolesUpdate)
    /\ LockRole(w, tx[w].r)
    /\ role[tx[w].r].status = "live" /\ tx[w].r \notin SystemRole
    /\ LET G == IF tx[w].op = "update" THEN tx[w].want ELSE role[tx[w].r].perms
       IN  /\ MayAuthor(w, G)
           /\ tx' = [tx EXCEPT ![w].want = G,
                               ![w].pc = IF tx[w].op = "update"
                                         THEN "holders" ELSE "bump"]
    /\ SameVersion(w)
    /\ UNCHANGED <<tables, roleShare, userLock, origin, lapsed>>

ReadHolders(w) ==
    /\ At(w, "update", "holders")
    /\ tx' = [tx EXCEPT ![w].rows = {u \in User : tx[w].r \in held[u]},
                        ![w].pc = "bump"]
    /\ UNCHANGED <<tables, locks, origin, lapsed>>

\* bump_security_version, holder by holder, in no particular order.
BumpHolder(w) ==
    /\ tx[w].pc = "bump"
    /\ \E u \in tx[w].rows :
          /\ LockUser(w, u)
          /\ tx' = [tx EXCEPT ![w].rows = @ \ {u}, ![w].bump = @ \cup {u}]
    /\ UNCHANGED <<tables, roleLock, roleShare, origin, lapsed>>

\* Slip: the holders keep their security version.
BumpedNone(G) == version

Bumped(G) == [u \in User |-> IF u \in G THEN version[u] + 1 ELSE version[u]]

CommitEdit(w) ==
    /\ tx[w].pc = "bump" /\ tx[w].rows = {}
    /\ role[tx[w].r].version < MaxRoleVersion
    /\ \A u \in tx[w].bump : version[u] < MaxVersion
    /\ role' = [role EXCEPT ![tx[w].r].perms = tx[w].want,
                            ![tx[w].r].version = @ + 1]
    /\ version' = Bumped(tx[w].bump)
    /\ origin' = origin \cup OfOwner(w, tx[w].want)
    /\ End(w)
    /\ UNCHANGED <<held, allow, deny, mfa, lapsed>>

\* delete_role: nobody may hold the role, counted under its lock.
LockForDelete(w) ==
    /\ At(w, "delete", "lock")
    /\ MayAlter(w, RolesDelete)
    /\ LockRole(w, tx[w].r)
    /\ role[tx[w].r].status = "live" /\ tx[w].r \notin SystemRole
    /\ MayAuthor(w, role[tx[w].r].perms)
    /\ \A u \in User : tx[w].r \notin held[u]
    /\ Goto(w, "commit")
    /\ UNCHANGED <<tables, roleShare, userLock, origin, lapsed>>

CommitDelete(w) ==
    /\ At(w, "delete", "commit")
    /\ role' = [role EXCEPT ![tx[w].r].status = "gone", ![tx[w].r].perms = {}]
    /\ End(w)
    /\ UNCHANGED <<held, allow, deny, version, mfa, origin, lapsed>>

-----------------------------------------------------------------------------
(* Assignments and overrides: load_locked_subject, then the guard.         *)

LockSubject(w) ==
    /\ tx[w].op \in OnUsers /\ tx[w].pc = "lock"
    /\ LockUser(w, tx[w].u)
    /\ ~Protected(w)
    /\ MayTarget(w, IF tx[w].op \in {"assign", "unassign"}
                    THEN RolesAssign ELSE PermissionsDelegate)
    /\ Goto(w, IF tx[w].op \in {"assign", "unassign"} THEN "read" ELSE "write")
    /\ UNCHANGED <<tables, roleLock, roleShare, origin, lapsed>>

\* find_role and role_permissions: the role is not locked.
ReadRole(w) ==
    /\ tx[w].pc = "read"
    /\ role[tx[w].r].status = "live"
    /\ tx' = [tx EXCEPT ![w].want = role[tx[w].r].perms, ![w].pc = "write"]
    /\ UNCHANGED <<tables, locks, origin, lapsed>>

\* The foreign key of the new row takes a KEY SHARE lock on the role.
InsertAssignment(w) ==
    /\ At(w, "assign", "write")
    /\ MayAuthor(w, tx[w].want)
    /\ tx[w].r \notin held[tx[w].u]
    /\ Free(roleLock[tx[w].r], w) /\ role[tx[w].r].status = "live"
    /\ roleShare' = [roleShare EXCEPT ![tx[w].r] = @ \cup {w}]
    /\ Goto(w, "commit")
    /\ UNCHANGED <<tables, roleLock, userLock, origin, lapsed>>

\* mandate_mfa_if_dangerous: the flag is only ever raised.
Mandated(w, G) == [mfa EXCEPT ![tx[w].u] = @ \/ DangerousIn(G)]

CommitAssign(w) ==
    /\ At(w, "assign", "commit")
    /\ version[tx[w].u] < MaxVersion
    /\ held' = [held EXCEPT ![tx[w].u] = @ \cup {tx[w].r}]
    /\ version' = Bumped({tx[w].u})
    /\ mfa' = Mandated(w, tx[w].want)
    /\ End(w)
    /\ UNCHANGED <<role, allow, deny, origin, lapsed>>

CommitUnassign(w) ==
    /\ At(w, "unassign", "write")
    /\ MayAuthor(w, tx[w].want)
    /\ tx[w].r \in held[tx[w].u]
    /\ held' = [held EXCEPT ![tx[w].u] = @ \ {tx[w].r}]
    /\ version' = Bumped({tx[w].u})
    /\ End(w)
    /\ UNCHANGED <<role, allow, deny, mfa, origin, lapsed>>

\* A denial takes the same authority as the grant it forbids.
CommitOverride(w) ==
    /\ At(w, "override", "write")
    /\ MayAuthor(w, {tx[w].g})
    /\ version[tx[w].u] < MaxVersion
    /\ \/ /\ tx[w].eff = "ALLOW" /\ tx[w].g \notin allow[tx[w].u]
          /\ allow' = [allow EXCEPT ![tx[w].u] = @ \cup {tx[w].g}]
          /\ mfa' = Mandated(w, {tx[w].g})
          /\ origin' = origin \cup OfOwner(w, {tx[w].g})
          /\ UNCHANGED deny
       \/ /\ tx[w].eff = "DENY" /\ tx[w].g \notin deny[tx[w].u]
          /\ deny' = [deny EXCEPT ![tx[w].u] = @ \cup {tx[w].g}]
          /\ UNCHANGED <<allow, mfa, origin>>
    /\ version' = Bumped({tx[w].u})
    /\ End(w)
    /\ UNCHANGED <<role, held, lapsed>>

CommitLift(w) ==
    /\ At(w, "lift", "write")
    /\ MayAuthor(w, {tx[w].g})
    /\ \/ /\ tx[w].eff = "ALLOW" /\ tx[w].g \in allow[tx[w].u]
          /\ allow' = [allow EXCEPT ![tx[w].u] = @ \ {tx[w].g}]
          /\ UNCHANGED deny
       \/ /\ tx[w].eff = "DENY" /\ tx[w].g \in deny[tx[w].u]
          /\ deny' = [deny EXCEPT ![tx[w].u] = @ \ {tx[w].g}]
          /\ UNCHANGED allow
    /\ version' = Bumped({tx[w].u})
    /\ End(w)
    /\ UNCHANGED <<role, held, mfa, origin, lapsed>>

-----------------------------------------------------------------------------
\* An override passes its expires_at: load_actor no longer reads it.
Expire(u) ==
    /\ \E g \in allow[u] \cup deny[u] :
          \/ allow' = [allow EXCEPT ![u] = @ \ {g}] /\ g \in allow[u] /\ UNCHANGED deny
          \/ deny' = [deny EXCEPT ![u] = @ \ {g}] /\ g \in deny[u] /\ UNCHANGED allow
    /\ lapsed' = lapsed \cup {u}
    /\ UNCHANGED <<role, held, version, mfa, locks, tx, origin>>

\* A refusal, an error or a lost connection; a client that forgets its answer.
Abort(w) ==
    /\ tx[w].op # "idle"
    /\ End(w)
    /\ UNCHANGED <<tables, origin, lapsed>>

Handler(w) ==
    \/ \E a \in User, op \in Operation : Authenticate(w, a, op)
    \/ LoadActor(w)
    \/ CreateRole(w)
    \/ LockForEdit(w) \/ ReadHolders(w) \/ BumpHolder(w) \/ CommitEdit(w)
    \/ LockForDelete(w) \/ CommitDelete(w)
    \/ LockSubject(w) \/ ReadRole(w)
    \/ InsertAssignment(w) \/ CommitAssign(w) \/ CommitUnassign(w)
    \/ CommitOverride(w) \/ CommitLift(w)
    \/ Abort(w)

Next == (\E w \in Worker : Handler(w)) \/ (\E u \in User : Expire(u))

Spec == Init /\ [][Next]_vars

-----------------------------------------------------------------------------
(* Properties.                                                             *)

\* The table of ADR-003: what may be handed on from a grant.
HandedOn(o) ==
    {g \in Grant : /\ g.p = o.p
                   /\ \/ o.s \in {"GLOBAL", g.s}
                      \/ o.s \in RoleScope /\ g.s = "SELF"}

Derived(g) == \E o \in origin : g \in HandedOn(o)

\* However roles are composed, edited, assigned and overridden by however many
\* delegates working on snapshots of their authority, every grant in force or
\* in flight goes back to one the owner made or the system was seeded with:
\* delegation never widens a scope (derivable; check_role_authoring,
\* check_role_assignment and check_permission_grant).
AuthorityComesFromRoot ==
    /\ \A r \in Role : \A g \in role[r].perms : Derived(g)
    /\ \A u \in User : \A g \in allow[u] : Derived(g)
    /\ \A w \in Worker : \A g \in tx[w].ctx.allows : Derived(g)

\* Once load_actor has run: a client whose security version has not moved
\* holds the authority it was shown, so that comparing the version is enough to
\* detect a stale capability set.  Expiry of an override is the exception
\* (bump_security_version; FRONTEND_CAPABILITY_CONTRACT.md).
Current(w) ==
    /\ tx[w].op # "idle" /\ tx[w].pc # "load"
    /\ tx[w].ver = version[tx[w].actor]
    /\ tx[w].actor \notin lapsed
    => tx[w].ctx = Authority(tx[w].actor)

AuthorityIsCurrent == \A w \in Worker : Current(w)

\* Nobody is left holding a role that was deleted: the count of its holders and
\* a concurrent assignment exclude each other (delete_role, assign_role).
HeldRolesAreLive ==
    \A u \in User : \A r \in held[u] : role[r].status = "live"

\* A role's contents are only ever replaced by somebody who saw them: two
\* editors who start from one version cannot both succeed (check_version and
\* the guarded UPDATE of update_role).
EditsWhatWasSeen ==
    [][\A r \in Role, w \in Worker :
          /\ role[r].status = "live" /\ role'[r].status = "live"
          /\ role'[r].perms # role[r].perms
          /\ tx[w].op = "update" /\ tx'[w].op = "idle" /\ tx[w].r = r
          => role[r].perms = tx[w].saw]_vars

\* Whoever holds a dangerous permission is required to enrol a second factor
\* (catalog.rs, is_dangerous); update_role never asks it of the holders.
DangerousHoldersMustEnrol ==
    \A u \in User : DangerousIn(Authority(u).allows) => mfa[u]

(***************************************************************************)
(* Why they hold: the invariant that the steps preserve.                   *)
(***************************************************************************)

Holders(r) == {u \in User : r \in held[u]}

Editing(w)  == tx[w].pc \in {"holders", "bump"}
Deleting(w) == At(w, "delete", "commit")
Adding(w)   == At(w, "assign", "commit")

\* What the request has seen was so, and still is if its version is.
SawOK(w) ==
    /\ tx[w].op # "idle" => tx[w].ver <= version[tx[w].actor]
    /\ tx[w].op \in {"update", "rename"} =>
          /\ role[tx[w].r].status # "none" /\ tx[w].rver <= role[tx[w].r].version
          /\ tx[w].rver = role[tx[w].r].version /\ role[tx[w].r].status = "live" =>
                tx[w].saw = role[tx[w].r].perms

\* What it has checked and locked stays as it is.
WorkOK(w) ==
    /\ tx[w].pc = "holders" => tx[w].op = "update"
    /\ tx[w].pc = "bump" => tx[w].op \in {"update", "rename"}
    /\ tx[w].pc = "read" => tx[w].op \in {"assign", "unassign"}
    /\ Editing(w) \/ Deleting(w) =>
          roleLock[tx[w].r] = w /\ role[tx[w].r].status = "live"
    /\ Editing(w) =>
          /\ tx[w].rver = role[tx[w].r].version
          /\ tx[w].actor = Root \/ \A g \in tx[w].want : Derived(g)
    /\ At(w, "update", "bump") => Holders(tx[w].r) \subseteq tx[w].rows \cup tx[w].bump
    /\ At(w, "rename", "bump") => tx[w].want = role[tx[w].r].perms
    /\ Deleting(w) => Holders(tx[w].r) = {}
    /\ Adding(w) => w \in roleShare[tx[w].r] /\ role[tx[w].r].status = "live"

TxInv == \A w \in Worker : SawOK(w) /\ WorkOK(w)

TableInv ==
    /\ \A r \in Role : roleLock[r] # NoWorker =>
          role[r].status = "live" /\ roleShare[r] \subseteq {roleLock[r]}
    /\ \A r \in Role : role[r].status # "live" => role[r].perms = {}
    /\ HeldRolesAreLive
    /\ AuthorityComesFromRoot
    /\ AuthorityIsCurrent

IndInv == TypeOK /\ TxInv /\ TableInv
=============================================================================
