----------------------------- MODULE Roles_proofs -----------------------------
(***************************************************************************)
(* Proofs about Roles, for any number of handlers, users, roles and grants *)
(* and whatever the requests ask for.                                      *)
(***************************************************************************)
EXTENDS Roles, TLAPS

USE RolesAssumption

-----------------------------------------------------------------------------
(* Scopes.                                                                   *)

\* What may be handed on from what was handed on may be handed on at once: the
\* order of derivable is transitive.
LEMMA HandingOn ==
    ASSUME NEW o \in Grant, NEW g \in HandedOn(o), NEW k \in Grant,
           k.p = g.p, Derivable(g.s, k.s)
    PROVE  k \in HandedOn(o)
  BY DEF HandedOn, Derivable, Grant, Scope, RoleScope

\* What check_role_authoring or check_permission_grant lets an actor hand out,
\* it was handed down from the owner itself.
LEMMA AuthoringIsDerived ==
    ASSUME TypeOK, AuthorityComesFromRoot, NEW w \in Worker,
           NEW G \in SUBSET Grant, MayAuthor(w, G)
    PROVE  tx[w].actor = Root \/ \A g \in G : Derived(g)
  <1> SUFFICES ASSUME tx[w].actor # Root, NEW g \in G PROVE Derived(g)
    OBVIOUS
  <1>1. MayGrant(tx[w].ctx, g)
    BY DEF MayAuthor
  <1>2. PICK h \in Scope : /\ [p |-> g.p, s |-> h] \in tx[w].ctx.allows
                           /\ Derivable(h, g.s)
    BY <1>1 DEF MayGrant, EffectiveScopes
  <1> DEFINE k == [p |-> g.p, s |-> h]
  <1>3. k \in Grant /\ g \in Grant /\ g.p = k.p /\ Derivable(k.s, g.s)
    BY <1>2 DEF Grant
  <1>4. Derived(k)
    BY <1>2 DEF AuthorityComesFromRoot
  <1>5. PICK o \in origin : k \in HandedOn(o)
    BY <1>4 DEF Derived
  <1>6. o \in Grant
    BY DEF TypeOK
  <1> HIDE DEF k
  <1>7. g \in HandedOn(o)
    BY <1>3, <1>5, <1>6, HandingOn
  <1>. QED
    BY <1>7 DEF Derived

\* What the owner makes is an origin of itself.
LEMMA OriginIsDerived ==
    ASSUME NEW g \in Grant, g \in origin
    PROVE  Derived(g)
  BY DEF Derived, HandedOn

-----------------------------------------------------------------------------
(* The initial states.                                                       *)

LEMMA IdleTyped == Idle \in Transaction
  <1>1. AnyRole \in Role
    BY DEF AnyRole
  <1>2. [p |-> RolesCreate, s |-> "SELF"] \in Grant
    BY DEF Grant, Scope, RoleScope
  <1>3. AnyGrant \in Grant
    BY <1>2 DEF AnyGrant
  <1>. QED
    BY <1>1, <1>3 DEF Idle, Transaction, Authorities

LEMMA InitInv == Init => IndInv
  <1> SUFFICES ASSUME Init PROVE IndInv
    OBVIOUS
  <1>1. TypeOK
    <2>1. role \in [Role -> RoleRow]
      BY DEF Init, RoleRow
    <2>2. held \in [User -> SUBSET Role]
      BY DEF Init
    <2>3. origin \subseteq Grant
      BY DEF Init
    <2>4. mfa \in [User -> BOOLEAN]
      BY DEF Init, DangerousIn
    <2>. QED
      BY <2>1, <2>2, <2>3, <2>4, IdleTyped DEF Init, TypeOK
  <1>2. \A w \in Worker : tx[w].op = "idle" /\ tx[w].pc = "none" /\ tx[w].ctx.allows = {}
    BY DEF Init, Idle
  <1>3. TxInv
    BY <1>2 DEF TxInv, SawOK, WorkOK, Editing, Deleting, Adding, At
  <1>4. \A r \in Role : \A g \in role[r].perms : g \in origin /\ g \in Grant
    BY <1>1 DEF Init, TypeOK
  <1>5. AuthorityComesFromRoot
    BY <1>2, <1>4, OriginIsDerived DEF AuthorityComesFromRoot, Init
  <1>6. HeldRolesAreLive /\ AuthorityIsCurrent
    BY <1>2 DEF Init, HeldRolesAreLive, AuthorityIsCurrent, Current
  <1>7. TableInv
    BY <1>5, <1>6 DEF TableInv, Init
  <1>. QED
    BY <1>1, <1>3, <1>7 DEF IndInv

-----------------------------------------------------------------------------
(* What a step of one handler leaves of what another one relies on.          *)

\* No authority moves without the security version, save by expiry.
AuthorityMoves ==
    /\ lapsed \subseteq lapsed'
    /\ \A u \in User :
          /\ version[u] <= version'[u]
          /\ \/ Authority(u)' = Authority(u)
             \/ version[u] < version'[u]
             \/ u \in lapsed'

\* Roles come into being, change with their version, and go for good.
RolesMove ==
    \A r \in Role :
       /\ role[r].status # "none" => role'[r].status # "none"
       /\ role[r].version <= role'[r].version
       /\ \/ role'[r] = role[r]
          \/ role[r].status = "none"
          \/ role[r].version < role'[r].version
          \/ role'[r].status = "gone"

\* What v has locked stays locked and as it is.
KeptFor(v) ==
    \A r \in Role :
       /\ roleLock[r] = v =>
             /\ roleLock'[r] = v /\ role'[r] = role[r]
             /\ Holders(r)' \subseteq Holders(r)
       /\ v \in roleShare[r] =>
             /\ v \in roleShare'[r]
             /\ role[r].status = "live" => role'[r].status = "live"

Undisturbed(v) ==
    /\ tx'[v] = tx[v]
    /\ AuthorityMoves /\ RolesMove /\ KeptFor(v)
    /\ origin \subseteq origin'

LEMMA DerivedForGood ==
    ASSUME origin \subseteq origin', NEW g, Derived(g)
    PROVE  Derived(g)'
  BY DEF Derived, HandedOn

LEMMA CurrentForGood ==
    ASSUME IndInv, NEW v \in Worker, tx'[v] = tx[v], AuthorityMoves,
           version' \in [User -> Nat]
    PROVE  Current(v)'
  <1> DEFINE x == tx[v]
  <1>1. x \in Transaction /\ Current(v) /\ SawOK(v)
    BY DEF IndInv, TypeOK, TxInv, TableInv, AuthorityIsCurrent
  <1>2. x.actor \in User /\ x.ver \in Nat
    BY <1>1 DEF Transaction
  <1>3. version[x.actor] \in Nat /\ version'[x.actor] \in Nat
    BY <1>2 DEF IndInv, TypeOK
  <1>4. SUFFICES ASSUME x.op # "idle", x.pc # "load",
                        x.ver = version'[x.actor], x.actor \notin lapsed'
                 PROVE  x.ctx = Authority(x.actor)'
    BY DEF Current
  <1>5. x.ver = version[x.actor]
    BY <1>1, <1>2, <1>3, <1>4 DEF SawOK, AuthorityMoves
  <1>6. x.ctx = Authority(x.actor)
    BY <1>1, <1>4, <1>5 DEF Current, AuthorityMoves
  <1>7. PICK a \in User : a = x.actor
    BY <1>2
  <1>8. Authority(a)' = Authority(a)
    <2>1. a \notin lapsed'
      BY <1>4, <1>7
    <2>2. version[a] = version'[a]
      BY <1>4, <1>5, <1>7
    <2>3. ~(version[a] < version'[a])
      BY <1>3, <2>2, <1>7
    <2>. QED
      BY <2>1, <2>3 DEF AuthorityMoves
  <1>. QED
    BY <1>6, <1>7, <1>8 DEF Authority

LEMMA OthersKeepInv ==
    ASSUME IndInv, NEW v \in Worker, Undisturbed(v),
           version' \in [User -> Nat], role' \in [Role -> RoleRow]
    PROVE  SawOK(v)' /\ WorkOK(v)'
  <1> DEFINE x == tx[v]
  <1>1. x \in Transaction /\ tx'[v] = x /\ SawOK(v) /\ WorkOK(v)
    BY DEF IndInv, TypeOK, TxInv, Undisturbed
  <1>2. x.actor \in User /\ x.r \in Role /\ x.ver \in Nat /\ x.rver \in Nat
    BY <1>1 DEF Transaction
  <1>3. /\ version[x.actor] \in Nat /\ version'[x.actor] \in Nat
        /\ role[x.r].version \in Nat /\ role'[x.r].version \in Nat
    BY <1>2 DEF IndInv, TypeOK, RoleRow
  <1>4. x.op # "idle" => x.ver <= version'[x.actor]
    BY <1>1, <1>2, <1>3 DEF SawOK, Undisturbed, AuthorityMoves
  <1>5. Editing(v) \/ Deleting(v) =>
          /\ roleLock'[x.r] = v /\ role'[x.r] = role[x.r]
          /\ role[x.r].status = "live" /\ Holders(x.r)' \subseteq Holders(x.r)
    BY <1>1, <1>2 DEF WorkOK, Undisturbed, KeptFor
  <1>6. Editing(v) => x.actor = Root \/ \A g \in x.want : Derived(g)'
    BY <1>1, DerivedForGood DEF WorkOK, Undisturbed
  <1>7. Adding(v) => v \in roleShare'[x.r] /\ role'[x.r].status = "live"
    BY <1>1, <1>2 DEF WorkOK, Undisturbed, KeptFor
  <1>8. x.op \in {"update", "rename"} =>
          /\ role'[x.r].status # "none" /\ x.rver <= role'[x.r].version
          /\ x.rver = role'[x.r].version /\ role'[x.r].status = "live" =>
                x.saw = role'[x.r].perms
    BY <1>1, <1>2, <1>3 DEF SawOK, Undisturbed, RolesMove
  <1>. QED
    BY <1>1, <1>4, <1>5, <1>6, <1>7, <1>8
       DEF SawOK, WorkOK, Editing, Deleting, Adding, At

-----------------------------------------------------------------------------
(* A statement of w takes locks that nobody holds and leaves the tables      *)
(* alone.                                                                    *)

Acquires(w) ==
    /\ UNCHANGED <<tables, origin, lapsed>>
    /\ roleLock' \in [Role -> Worker \cup {NoWorker}]
    /\ roleShare' \in [Role -> SUBSET Worker]
    /\ userLock' \in [User -> Worker \cup {NoWorker}]
    /\ \A r \in Role :
          /\ roleLock[r] # NoWorker => roleLock'[r] = roleLock[r]
          /\ roleShare[r] \subseteq roleShare'[r]
          /\ roleLock'[r] # NoWorker =>
                role[r].status = "live" /\ roleShare'[r] \subseteq {roleLock'[r]}

LEMMA StatementStep ==
    ASSUME IndInv, NEW w \in Worker, NEW t \in Transaction,
           tx' = [tx EXCEPT ![w] = t], Acquires(w), SawOK(w)', WorkOK(w)',
           Current(w)',
           \A g \in t.ctx.allows : Derived(g)
    PROVE  IndInv'
  <1>1. /\ tx'[w] = t /\ \A v \in Worker : v # w => tx'[v] = tx[v]
        /\ tx' \in [Worker -> Transaction]
    BY DEF IndInv, TypeOK
  <1>2. TypeOK'
    BY <1>1 DEF IndInv, TypeOK, Acquires, tables
  <1>3. AuthorityMoves /\ RolesMove
    <2>1. \A u \in User : version[u] \in Nat /\ Authority(u)' = Authority(u)
      BY DEF IndInv, TypeOK, Acquires, tables, Authority
    <2>2. \A r \in Role : role[r].version \in Nat
      BY DEF IndInv, TypeOK, RoleRow
    <2>. QED
      BY <2>1, <2>2 DEF AuthorityMoves, RolesMove, Acquires, tables
  <1>4. ASSUME NEW v \in Worker, v # w
        PROVE  Undisturbed(v)
    <2>1. KeptFor(v)
      BY DEF KeptFor, Acquires, tables, Holders
    <2>. QED
      BY <1>1, <1>3, <1>4, <2>1 DEF Undisturbed, Acquires
  <1>5. TxInv'
    BY <1>2, <1>4, OthersKeepInv DEF TxInv, TypeOK
  <1>6. AuthorityIsCurrent'
    BY <1>1, <1>2, <1>3, CurrentForGood DEF AuthorityIsCurrent, TypeOK
  <1>7. AuthorityComesFromRoot'
    <2>1. \A g : Derived(g) => Derived(g)'
      BY DerivedForGood DEF Acquires
    <2>2. \A v \in Worker : \A g \in tx'[v].ctx.allows : Derived(g)
      BY <1>1 DEF IndInv, TableInv, AuthorityComesFromRoot
    <2>. QED
      BY <2>1, <2>2 DEF Acquires, tables, IndInv, TableInv, AuthorityComesFromRoot
  <1>8. TableInv'
    BY <1>6, <1>7 DEF TableInv, IndInv, Acquires, tables, HeldRolesAreLive
  <1>. QED
    BY <1>2, <1>5, <1>8 DEF IndInv

-----------------------------------------------------------------------------
(* Commit and rollback.                                                      *)

LEMMA EndFields ==
    ASSUME IndInv, NEW w \in Worker, End(w)
    PROVE  /\ tx' \in [Worker -> Transaction]
           /\ tx'[w] = Idle /\ \A v \in Worker : v # w => tx'[v] = tx[v]
           /\ roleLock' \in [Role -> Worker \cup {NoWorker}]
           /\ roleShare' \in [Role -> SUBSET Worker]
           /\ userLock' \in [User -> Worker \cup {NoWorker}]
           /\ \A r \in Role :
                 /\ roleLock'[r] \in {roleLock[r], NoWorker} \ {w}
                 /\ roleLock[r] # w => roleLock'[r] = roleLock[r]
                 /\ roleShare'[r] = roleShare[r] \ {w}
  <1>1. /\ tx' \in [Worker -> Transaction]
        /\ tx'[w] = Idle /\ \A v \in Worker : v # w => tx'[v] = tx[v]
    BY IdleTyped DEF End, IndInv, TypeOK
  <1>2. /\ roleLock' \in [Role -> Worker \cup {NoWorker}]
        /\ roleShare' \in [Role -> SUBSET Worker]
        /\ userLock' \in [User -> Worker \cup {NoWorker}]
    BY DEF End, IndInv, TypeOK
  <1>3. ASSUME NEW r \in Role
        PROVE  /\ roleLock'[r] \in {roleLock[r], NoWorker} \ {w}
               /\ roleLock[r] # w => roleLock'[r] = roleLock[r]
               /\ roleShare'[r] = roleShare[r] \ {w}
    BY DEF End, IndInv, TypeOK
  <1>. QED
    BY <1>1, <1>2, <1>3

TablesTyped ==
    /\ role \in [Role -> RoleRow]
    /\ held \in [User -> SUBSET Role]
    /\ allow \in [User -> SUBSET Grant]
    /\ deny \in [User -> SUBSET Grant]
    /\ version \in [User -> Nat]
    /\ mfa \in [User -> BOOLEAN]
    /\ origin \subseteq Grant
    /\ lapsed \subseteq User

\* The rows that others have locked are left alone by w's commit.
Respects(w) ==
    \A r \in Role :
       /\ roleLock[r] \notin {w, NoWorker} =>
             role'[r] = role[r] /\ Holders(r)' \subseteq Holders(r)
       /\ role[r].status = "live" /\ ~(roleShare[r] \subseteq {w}) =>
             role'[r].status = "live"

TablesDerived ==
    /\ \A r \in Role : \A g \in role[r].perms : Derived(g)
    /\ \A u \in User : \A g \in allow[u] : Derived(g)
    /\ \A r \in Role : role[r].status # "live" => role[r].perms = {}
    /\ HeldRolesAreLive

LEMMA EndStep ==
    ASSUME IndInv, NEW w \in Worker, End(w), TablesTyped', AuthorityMoves,
           RolesMove, Respects(w), origin \subseteq origin', TablesDerived'
    PROVE  IndInv'
  <1>1. TypeOK'
    BY EndFields DEF TypeOK, TablesTyped
  <1>2. ASSUME NEW v \in Worker, v # w
        PROVE  Undisturbed(v)
    <2>1. KeptFor(v)
      BY <1>2, EndFields DEF KeptFor, Respects
    <2>. QED
      BY <1>2, <2>1, EndFields DEF Undisturbed
  <1>3. tx'[w].op = "idle" /\ tx'[w].pc = "none" /\ tx'[w].ctx.allows = {}
    BY EndFields DEF Idle
  <1>4. SawOK(w)' /\ WorkOK(w)' /\ Current(w)'
    BY <1>3 DEF SawOK, WorkOK, Editing, Deleting, Adding, At, Current
  <1>5. TxInv'
    BY <1>1, <1>2, <1>4, OthersKeepInv DEF TxInv, TypeOK
  <1>6. AuthorityIsCurrent'
    BY <1>1, <1>4, EndFields, CurrentForGood DEF AuthorityIsCurrent, TypeOK
  <1>7. AuthorityComesFromRoot'
    <2>1. \A g : Derived(g) => Derived(g)'
      BY DerivedForGood
    <2>2. \A v \in Worker : \A g \in tx'[v].ctx.allows : Derived(g)
      BY <1>3, EndFields DEF IndInv, TableInv, AuthorityComesFromRoot
    <2>. QED
      BY <2>1, <2>2 DEF TablesDerived, AuthorityComesFromRoot
  <1>8. \A r \in Role : roleLock'[r] # NoWorker =>
          role'[r].status = "live" /\ roleShare'[r] \subseteq {roleLock'[r]}
    BY EndFields DEF IndInv, TableInv, Respects
  <1>9. TableInv'
    BY <1>6, <1>7, <1>8 DEF TableInv, TablesDerived
  <1>. QED
    BY <1>1, <1>5, <1>9 DEF IndInv

-----------------------------------------------------------------------------
(* The statements.                                                           *)

\* A statement of a request that is past load_actor.
LEMMA GotoStep ==
    ASSUME IndInv, NEW w \in Worker, NEW t \in Transaction,
           tx' = [tx EXCEPT ![w] = t], Acquires(w), WorkOK(w)',
           tx[w].op # "idle", tx[w].pc # "load",
           t.op = tx[w].op, t.actor = tx[w].actor, t.ver = tx[w].ver,
           t.ctx = tx[w].ctx, t.r = tx[w].r, t.rver = tx[w].rver,
           t.saw = tx[w].saw
    PROVE  IndInv'
  <1>1. tx'[w] = t /\ SawOK(w) /\ Current(w)
    BY DEF IndInv, TypeOK, TxInv, TableInv, AuthorityIsCurrent
  <1>2. SawOK(w)'
    BY <1>1 DEF SawOK, Acquires, tables
  <1>3. Current(w)'
    <2>1. /\ version' = version /\ lapsed' = lapsed
          /\ role' = role /\ held' = held /\ allow' = allow /\ deny' = deny
      BY DEF Acquires, tables
    <2>2. PICK a : a = tx[w].actor
      OBVIOUS
    <2>3. Authority(a)' = Authority(a)
      BY <2>1 DEF Authority
    <2>4. tx'[w].actor = a
      BY <1>1, <2>2
    <2>5. Authority(tx[w].actor)' = Authority(tx[w].actor)
      BY <2>2, <2>3, <2>4 DEF Authority
    <2>. QED
      BY <1>1, <2>1, <2>5 DEF Current
  <1>4. \A g \in t.ctx.allows : Derived(g)
    BY DEF IndInv, TableInv, AuthorityComesFromRoot
  <1>. QED
    BY <1>2, <1>3, <1>4, StatementStep

\* One that takes no lock.
LEMMA NoLockTaken ==
    ASSUME IndInv, NEW w \in Worker, UNCHANGED <<tables, locks, origin, lapsed>>
    PROVE  Acquires(w)
  BY DEF Acquires, locks, IndInv, TypeOK, TableInv

LEMMA RoleLocked ==
    ASSUME IndInv, NEW w \in Worker, NEW r \in Role, LockRole(w, r),
           role[r].status = "live",
           UNCHANGED <<tables, roleShare, userLock, origin, lapsed>>
    PROVE  Acquires(w) /\ roleLock'[r] = w
  BY DEF LockRole, Free, Acquires, IndInv, TypeOK, TableInv

LEMMA UserLocked ==
    ASSUME IndInv, NEW w \in Worker, NEW u \in User, LockUser(w, u),
           UNCHANGED <<tables, roleLock, roleShare, origin, lapsed>>
    PROVE  Acquires(w)
  BY DEF LockUser, Free, Acquires, IndInv, TypeOK, TableInv

LEMMA AuthenticateStep ==
    ASSUME IndInv, NEW w \in Worker, NEW a \in User, NEW op \in Operation,
           Authenticate(w, a, op)
    PROVE  IndInv'
  <1>1. PICK b \in Body(op) :
          /\ op # "create" => role[b.r].status # "none"
          /\ tx' = [tx EXCEPT ![w] =
                      [Idle EXCEPT !.op = op, !.pc = "load", !.actor = a,
                                   !.ver = version[a], !.r = b.r, !.u = b.u,
                                   !.g = b.g, !.eff = b.eff, !.want = b.want,
                                   !.rver = role[b.r].version,
                                   !.saw = role[b.r].perms]]
    BY DEF Authenticate
  <1> DEFINE t == [Idle EXCEPT !.op = op, !.pc = "load", !.actor = a,
                               !.ver = version[a], !.r = b.r, !.u = b.u,
                               !.g = b.g, !.eff = b.eff, !.want = b.want,
                               !.rver = role[b.r].version,
                               !.saw = role[b.r].perms]
  <1>2. /\ b.r \in Role /\ b.u \in User /\ b.g \in Grant
        /\ b.eff \in {"ALLOW", "DENY"} /\ b.want \in SUBSET Grant
    <2>1. AnyRole \in Role /\ AnyGrant \in Grant
      BY IdleTyped DEF Idle, Transaction
    <2>2. Contents \subseteq SUBSET Grant
      BY DEF Grant, Scope
    <2>. QED
      BY <2>1, <2>2 DEF Body
  <1>3. t \in Transaction
    BY <1>2, IdleTyped DEF Transaction, IndInv, TypeOK, RoleRow
  <1>4. /\ t.op = op /\ t.pc = "load" /\ t.actor = a /\ t.ver = version[a]
        /\ t.r = b.r /\ t.rver = role[b.r].version /\ t.saw = role[b.r].perms
        /\ t.ctx.allows = {}
    BY DEF Idle
  <1>5. tx' = [tx EXCEPT ![w] = t]
    BY <1>1
  <1> HIDE DEF t
  <1>6. tx'[w] = t /\ Acquires(w)
    BY <1>5, NoLockTaken DEF IndInv, TypeOK, Authenticate
  <1>7. version'[a] = version[a] /\ role'[b.r] = role[b.r]
        /\ version[a] \in Nat /\ role[b.r].version \in Nat
    BY <1>2, <1>6 DEF Acquires, tables, IndInv, TypeOK, RoleRow
  <1>8. SawOK(w)' /\ WorkOK(w)' /\ Current(w)'
    BY <1>1, <1>4, <1>6, <1>7 DEF SawOK, WorkOK, Editing, Deleting, Adding, At, Current
  <1>. QED
    BY <1>3, <1>4, <1>5, <1>6, <1>8, StatementStep

LEMMA AuthorityTyped ==
    ASSUME TypeOK, NEW u \in User
    PROVE  /\ Authority(u) \in Authorities
           /\ \A g \in Authority(u).allows :
                 (\E r \in Role : g \in role[r].perms) \/ g \in allow[u]
  <1> DEFINE P == UNION {role[r].perms : r \in held[u]}
  <1>1. \A g \in P : \E r \in Role : g \in role[r].perms
    BY DEF TypeOK
  <1>2. \A r \in Role : role[r].perms \subseteq Grant
    BY DEF TypeOK, RoleRow
  <1>3. P \subseteq Grant
    BY <1>1, <1>2
  <1>4. Authority(u) = [allows |-> P \cup allow[u], denies |-> deny[u]]
    BY DEF Authority
  <1> HIDE DEF P
  <1>5. allow[u] \subseteq Grant /\ deny[u] \subseteq Grant
    BY DEF TypeOK
  <1>. QED
    BY <1>1, <1>3, <1>4, <1>5 DEF Authorities

LEMMA LoadActorStep ==
    ASSUME IndInv, NEW w \in Worker, LoadActor(w)
    PROVE  IndInv'
  <1>1. tx[w] \in Transaction /\ tx[w].actor \in User
    BY DEF IndInv, TypeOK, Transaction
  <1>2. PICK a \in User : a = tx[w].actor
    BY <1>1
  <1>3. PICK c \in Authorities : c = Authority(a)
    BY AuthorityTyped DEF IndInv
  <1> DEFINE pc == IF tx[w].op \in {"me", "create"} THEN "ready" ELSE "lock"
             t == [[tx[w] EXCEPT !.ctx = c] EXCEPT !.pc = pc]
  <1>4. tx' = [tx EXCEPT ![w] = t]
    BY <1>2, <1>3 DEF LoadActor, IndInv, TypeOK
  <1>next. pc \in {"ready", "lock"}
    OBVIOUS
  <1> HIDE DEF pc
  <1>5. /\ t \in Transaction /\ t.ctx = c /\ t.pc = pc
        /\ t.op = tx[w].op /\ t.actor = a /\ t.ver = tx[w].ver
        /\ t.r = tx[w].r /\ t.rver = tx[w].rver /\ t.saw = tx[w].saw
    BY <1>1, <1>2, <1>3, <1>next DEF Transaction
  <1> HIDE DEF t
  <1>6. Acquires(w) /\ tx'[w] = t
    BY <1>4, NoLockTaken DEF LoadActor, IndInv, TypeOK
  <1>7. SawOK(w)
    BY DEF IndInv, TxInv
  <1>8. SawOK(w)' /\ WorkOK(w)'
    BY <1>2, <1>next, <1>5, <1>6, <1>7
       DEF SawOK, WorkOK, Editing, Deleting, Adding, At, Acquires, tables
  <1>9. Current(w)'
    <2>1. role' = role /\ held' = held /\ allow' = allow /\ deny' = deny
      BY <1>6 DEF Acquires, tables
    <2>2. Authority(a)' = c
      BY <1>3, <2>1 DEF Authority
    <2>3. Authority(tx[w].actor)' = c
      BY <1>5, <1>6, <2>2 DEF Authority
    <2>. QED
      BY <1>5, <1>6, <2>3 DEF Current
  <1>10. \A g \in t.ctx.allows : Derived(g)
    BY <1>3, <1>5, AuthorityTyped DEF IndInv, TableInv, AuthorityComesFromRoot
  <1>. QED
    BY <1>4, <1>5, <1>6, <1>8, <1>9, <1>10, StatementStep

LEMMA EditStep ==
    ASSUME IndInv, NEW w \in Worker,
           LockForEdit(w) \/ ReadHolders(w) \/ BumpHolder(w)
    PROVE  IndInv'
  <1>1. tx[w] \in Transaction /\ WorkOK(w) /\ SawOK(w)
    BY DEF IndInv, TypeOK, TxInv
  <1>2. CASE LockForEdit(w)
    <2> DEFINE r == tx[w].r
               G == IF tx[w].op = "update" THEN tx[w].want ELSE role[r].perms
               pc == IF tx[w].op = "update" THEN "holders" ELSE "bump"
               t == [[tx[w] EXCEPT !.want = G] EXCEPT !.pc = pc]
    <2>1. r \in Role /\ G \in SUBSET Grant
      BY <1>1 DEF Transaction, IndInv, TypeOK, RoleRow
    <2>2. tx' = [tx EXCEPT ![w] = t]
      BY <1>2 DEF LockForEdit, IndInv, TypeOK
    <2>3. tx[w].actor = Root \/ \A g \in G : Derived(g)
      BY <1>2, <2>1, AuthoringIsDerived DEF LockForEdit, IndInv, TableInv
    <2> HIDE DEF G
    <2>4. /\ t \in Transaction /\ t.want = G /\ t.pc = pc /\ t.op = tx[w].op
          /\ t.actor = tx[w].actor /\ t.ver = tx[w].ver /\ t.ctx = tx[w].ctx
          /\ t.r = r /\ t.rver = tx[w].rver /\ t.saw = tx[w].saw
      BY <1>1, <2>1 DEF Transaction
    <2> HIDE DEF t
    <2>5. /\ Acquires(w) /\ tx'[w] = t /\ roleLock'[r] = w
      BY <1>2, <2>1, <2>2, RoleLocked DEF LockForEdit, IndInv, TypeOK
    <2>6. role' = role /\ held' = held /\ origin' = origin
      BY <2>5 DEF Acquires, tables
    <2>7. \A g : Derived(g)' <=> Derived(g)
      BY <2>6 DEF Derived, HandedOn
    <2>8. t.op \in {"update", "rename"} /\ role[r].status = "live"
          /\ t.rver = role[r].version
      BY <1>2, <2>4 DEF LockForEdit, SameVersion
    <2>9. t.op = "update" => t.pc = "holders"
      BY <2>4
    <2>10. t.op = "rename" => t.pc = "bump" /\ t.want = role[r].perms
      BY <2>4 DEF G
    <2>11. t.actor = Root \/ \A g \in t.want : Derived(g)
      BY <2>3, <2>4
    <2> HIDE DEF pc
    <2>12. WorkOK(w)'
      BY <2>4, <2>5, <2>6, <2>7, <2>8, <2>9, <2>10, <2>11
         DEF WorkOK, Editing, Deleting, Adding, At
    <2>. QED
      BY <1>2, <2>2, <2>4, <2>5, <2>12, GotoStep DEF LockForEdit
  <1>3. CASE ReadHolders(w)
    <2> DEFINE H == {u \in User : tx[w].r \in held[u]}
               t == [[tx[w] EXCEPT !.rows = H] EXCEPT !.pc = "bump"]
    <2>1. tx' = [tx EXCEPT ![w] = t]
      BY <1>3 DEF ReadHolders, IndInv, TypeOK
    <2> HIDE DEF H
    <2>2. H \in SUBSET User
      BY DEF H
    <2>3. /\ t \in Transaction /\ t.rows = H /\ t.pc = "bump"
          /\ t.op = tx[w].op /\ t.actor = tx[w].actor /\ t.ver = tx[w].ver
          /\ t.ctx = tx[w].ctx /\ t.r = tx[w].r /\ t.rver = tx[w].rver
          /\ t.saw = tx[w].saw /\ t.want = tx[w].want
      BY <1>1, <2>2 DEF Transaction
    <2> HIDE DEF t
    <2>4. Acquires(w) /\ tx'[w] = t
      BY <1>3, <2>1, NoLockTaken DEF ReadHolders, IndInv, TypeOK
    <2>5. role' = role /\ held' = held /\ origin' = origin /\ roleLock' = roleLock
      BY <1>3, <2>4 DEF Acquires, tables, ReadHolders, locks
    <2>6. \A g : Derived(g)' <=> Derived(g)
      BY <2>5 DEF Derived, HandedOn
    <2>7. WorkOK(w)'
      BY <1>1, <1>3, <2>3, <2>4, <2>5, <2>6
         DEF WorkOK, ReadHolders, Editing, Deleting, Adding, At, Holders, H
    <2>. QED
      BY <1>3, <2>1, <2>3, <2>4, <2>7, GotoStep DEF ReadHolders, At
  <1>4. CASE BumpHolder(w)
    <2>1. PICK u \in tx[w].rows :
            /\ LockUser(w, u)
            /\ tx' = [tx EXCEPT ![w].rows = @ \ {u}, ![w].bump = @ \cup {u}]
      BY <1>4 DEF BumpHolder
    <2> DEFINE R == tx[w].rows \ {u}
               B == tx[w].bump \cup {u}
               t == [[tx[w] EXCEPT !.rows = R] EXCEPT !.bump = B]
    <2>2. tx' = [tx EXCEPT ![w] = t]
      BY <1>1, <2>1 DEF IndInv, TypeOK, Transaction
    <2>3. u \in User /\ R \in SUBSET User /\ B \in SUBSET User
      BY <1>1, <2>1 DEF Transaction
    <2>4. tx[w].rows \cup tx[w].bump \subseteq R \cup B
      OBVIOUS
    <2> HIDE DEF R, B
    <2>5. /\ t \in Transaction /\ t.rows = R /\ t.bump = B /\ t.pc = tx[w].pc
          /\ t.op = tx[w].op /\ t.actor = tx[w].actor /\ t.ver = tx[w].ver
          /\ t.ctx = tx[w].ctx /\ t.r = tx[w].r /\ t.rver = tx[w].rver
          /\ t.saw = tx[w].saw /\ t.want = tx[w].want
      BY <1>1, <2>3 DEF Transaction
    <2> HIDE DEF t
    <2>6. Acquires(w) /\ tx'[w] = t /\ roleLock' = roleLock
      BY <1>4, <2>1, <2>2, <2>3, UserLocked DEF BumpHolder, IndInv, TypeOK
    <2>7. role' = role /\ held' = held /\ origin' = origin
      BY <2>6 DEF Acquires, tables
    <2>8. \A g : Derived(g)' <=> Derived(g)
      BY <2>7 DEF Derived, HandedOn
    <2>9. WorkOK(w)'
      BY <1>1, <1>4, <2>4, <2>5, <2>6, <2>7, <2>8
         DEF WorkOK, BumpHolder, Editing, Deleting, Adding, At, Holders
    <2>. QED
      BY <1>1, <1>4, <2>2, <2>5, <2>6, <2>9, GotoStep DEF BumpHolder, WorkOK
  <1>. QED
    BY <1>2, <1>3, <1>4

\* A statement that only moves on.
LEMMA MoveOn ==
    ASSUME IndInv, NEW w \in Worker, NEW pc \in {"read", "write", "commit"},
           Goto(w, pc), Acquires(w), tx[w].op # "idle", tx[w].pc # "load",
           pc = "read" => tx[w].op \in {"assign", "unassign"},
           At(w, "delete", tx[w].pc) /\ pc = "commit" =>
              /\ roleLock'[tx[w].r] = w /\ role[tx[w].r].status = "live"
              /\ Holders(tx[w].r) = {},
           At(w, "assign", tx[w].pc) /\ pc = "commit" =>
              w \in roleShare'[tx[w].r] /\ role[tx[w].r].status = "live"
    PROVE  IndInv'
  <1> DEFINE t == [tx[w] EXCEPT !.pc = pc]
  <1>1. tx[w] \in Transaction
    BY DEF IndInv, TypeOK
  <1>2. tx' = [tx EXCEPT ![w] = t]
    BY DEF Goto
  <1>3. /\ t \in Transaction /\ t.pc = pc
        /\ t.op = tx[w].op /\ t.actor = tx[w].actor /\ t.ver = tx[w].ver
        /\ t.ctx = tx[w].ctx /\ t.r = tx[w].r /\ t.rver = tx[w].rver
        /\ t.saw = tx[w].saw
    BY <1>1 DEF Transaction
  <1> HIDE DEF t
  <1>4. tx'[w] = t /\ role' = role /\ held' = held
    BY <1>2 DEF IndInv, TypeOK, Acquires, tables
  <1>5. WorkOK(w)'
    BY <1>3, <1>4 DEF WorkOK, Editing, Deleting, Adding, At, Holders
  <1>. QED
    BY <1>2, <1>3, <1>5, GotoStep

LEMMA LockForDeleteStep ==
    ASSUME IndInv, NEW w \in Worker, LockForDelete(w)
    PROVE  IndInv'
  <1>1. tx[w].r \in Role
    BY DEF IndInv, TypeOK, Transaction
  <1>2. Acquires(w) /\ roleLock'[tx[w].r] = w
    BY <1>1, RoleLocked DEF LockForDelete
  <1>. QED
    BY <1>2, MoveOn DEF LockForDelete, At, Holders

LEMMA SubjectStep ==
    ASSUME IndInv, NEW w \in Worker,
           LockSubject(w) \/ ReadRole(w) \/ InsertAssignment(w)
    PROVE  IndInv'
  <1>1. tx[w] \in Transaction /\ tx[w].r \in Role /\ tx[w].u \in User
    BY DEF IndInv, TypeOK, Transaction
  <1>2. CASE LockSubject(w)
    <2>1. Acquires(w)
      BY <1>1, <1>2, UserLocked DEF LockSubject
    <2>. QED
      BY <1>2, <2>1, MoveOn DEF LockSubject, OnUsers
  <1>3. CASE ReadRole(w)
    <2> DEFINE G == role[tx[w].r].perms
               t == [[tx[w] EXCEPT !.want = G] EXCEPT !.pc = "write"]
    <2>1. tx' = [tx EXCEPT ![w] = t]
      BY <1>3 DEF ReadRole, IndInv, TypeOK
    <2>2. G \in SUBSET Grant
      BY <1>1 DEF IndInv, TypeOK, RoleRow
    <2> HIDE DEF G
    <2>3. /\ t \in Transaction /\ t.pc = "write"
          /\ t.op = tx[w].op /\ t.actor = tx[w].actor /\ t.ver = tx[w].ver
          /\ t.ctx = tx[w].ctx /\ t.r = tx[w].r /\ t.rver = tx[w].rver
          /\ t.saw = tx[w].saw
      BY <1>1, <2>2 DEF Transaction
    <2> HIDE DEF t
    <2>4. Acquires(w) /\ tx'[w] = t
      BY <1>3, <2>1, NoLockTaken DEF ReadRole, IndInv, TypeOK
    <2>5. WorkOK(w)'
      BY <2>3, <2>4 DEF WorkOK, Editing, Deleting, Adding, At
    <2>6. tx[w].op # "idle"
      BY <1>3 DEF ReadRole, IndInv, TxInv, WorkOK
    <2>. QED
      BY <1>3, <2>1, <2>3, <2>4, <2>5, <2>6, GotoStep DEF ReadRole
  <1>4. CASE InsertAssignment(w)
    <2>1. Acquires(w) /\ w \in roleShare'[tx[w].r]
      BY <1>1, <1>4 DEF InsertAssignment, Free, Acquires, IndInv, TypeOK, TableInv
    <2>. QED
      BY <1>4, <2>1, MoveOn DEF InsertAssignment, At
  <1>. QED
    BY <1>2, <1>3, <1>4

-----------------------------------------------------------------------------
(* The commits.                                                              *)

LEMMA RollbackStep ==
    ASSUME IndInv, NEW w \in Worker, End(w), UNCHANGED <<tables, origin, lapsed>>
    PROVE  IndInv'
  <1>1. TablesTyped'
    BY DEF IndInv, TypeOK, TablesTyped, tables
  <1>2. \A u \in User : version[u] \in Nat /\ Authority(u)' = Authority(u)
    BY DEF IndInv, TypeOK, tables, Authority
  <1>3. \A r \in Role : role[r].version \in Nat
    BY DEF IndInv, TypeOK, RoleRow
  <1>4. AuthorityMoves /\ RolesMove /\ Respects(w)
    BY <1>2, <1>3 DEF AuthorityMoves, RolesMove, Respects, Holders, tables
  <1>5. TablesDerived'
    BY DEF TablesDerived, HeldRolesAreLive, IndInv, TableInv,
           AuthorityComesFromRoot, Derived, HandedOn, tables
  <1>. QED
    BY <1>1, <1>4, <1>5, EndStep

\* The authority of users none of whose roles or overrides has moved.
LEMMA AuthorityStays ==
    ASSUME TypeOK, NEW u \in User, held'[u] = held[u], allow'[u] = allow[u],
           deny'[u] = deny[u], \A r \in held[u] : role'[r].perms = role[r].perms
    PROVE  Authority(u)' = Authority(u)
  <1>1. UNION {role'[r].perms : r \in held'[u]} = UNION {role[r].perms : r \in held[u]}
    OBVIOUS
  <1>. QED
    BY <1>1 DEF Authority

\* What a commit hands out goes back to the owner, also if it is the owner's.
LEMMA HandedOut ==
    ASSUME NEW w \in Worker, NEW G \in SUBSET Grant,
           tx[w].actor = Root \/ \A g \in G : Derived(g),
           origin' = origin \cup OfOwner(w, G)
    PROVE  \A g \in G : Derived(g)'
  <1>1. CASE tx[w].actor = Root
    <2>1. G \subseteq origin'
      BY <1>1 DEF OfOwner
    <2>. QED
      BY <2>1 DEF Derived, HandedOn
  <1>2. CASE \A g \in G : Derived(g)
    BY <1>2 DEF Derived, HandedOn
  <1>. QED
    BY <1>1, <1>2

LEMMA CreateRoleStep ==
    ASSUME IndInv, NEW w \in Worker, CreateRole(w)
    PROVE  IndInv'
  <1> DEFINE x == tx[w].r
             G == tx[w].want
  <1>1. tx[w] \in Transaction /\ x \in Role /\ G \in SUBSET Grant
    BY DEF IndInv, TypeOK, Transaction
  <1>2. /\ role[x].status = "none" /\ MayAuthor(w, G) /\ End(w)
        /\ role' = [role EXCEPT ![x].status = "live", ![x].perms = G]
        /\ origin' = origin \cup OfOwner(w, G)
        /\ UNCHANGED <<held, allow, deny, version, mfa, lapsed>>
    BY DEF CreateRole
  <1> HIDE DEF x, G
  <1>3. /\ role' \in [Role -> RoleRow]
        /\ role'[x].status = "live" /\ role'[x].perms = G
        /\ role'[x].version = role[x].version /\ role[x].version \in Nat
        /\ \A r \in Role : r # x => role'[r] = role[r]
    BY <1>1, <1>2 DEF IndInv, TypeOK, RoleRow
  <1>4. TablesTyped'
    BY <1>1, <1>2, <1>3 DEF TablesTyped, IndInv, TypeOK, OfOwner
  <1>5. AuthorityMoves
    <2>1. ASSUME NEW u \in User
          PROVE  Authority(u)' = Authority(u)
      <3>1. x \notin held[u] /\ held[u] \subseteq Role
        BY <1>2 DEF IndInv, TypeOK, TableInv, HeldRolesAreLive
      <3>. QED
        BY <1>2, <1>3, <3>1, AuthorityStays DEF IndInv
    <2>. QED
      BY <1>2, <2>1 DEF AuthorityMoves, IndInv, TypeOK
  <1>6. RolesMove
    BY <1>2, <1>3 DEF RolesMove, IndInv, TypeOK, RoleRow
  <1>7. Respects(w)
    BY <1>2, <1>3 DEF Respects, Holders, IndInv, TableInv
  <1>8. \A g \in G : Derived(g)'
    BY <1>1, <1>2, AuthoringIsDerived, HandedOut DEF IndInv, TableInv
  <1>9. TablesDerived'
    <2>1. \A g : Derived(g) => Derived(g)'
      BY <1>2 DEF Derived, HandedOn
    <2>. QED
      BY <1>2, <1>3, <1>8, <2>1 DEF TablesDerived, HeldRolesAreLive, IndInv,
         TableInv, AuthorityComesFromRoot, TypeOK
  <1>. QED
    BY <1>2, <1>4, <1>5, <1>6, <1>7, <1>9, EndStep

LEMMA CommitEditStep ==
    ASSUME IndInv, NEW w \in Worker, CommitEdit(w)
    PROVE  IndInv'
  <1> DEFINE x == tx[w].r
             G == tx[w].want
             B == tx[w].bump
  <1>1. /\ tx[w] \in Transaction /\ x \in Role /\ G \in SUBSET Grant
        /\ B \in SUBSET User
    BY DEF IndInv, TypeOK, Transaction
  <1>2. /\ tx[w].rows = {} /\ End(w) /\ version' = Bumped(B)
        /\ role' = [role EXCEPT ![x].perms = G, ![x].version = @ + 1]
        /\ origin' = origin \cup OfOwner(w, G)
        /\ UNCHANGED <<held, allow, deny, mfa, lapsed>>
    BY DEF CommitEdit
  <1>3. /\ roleLock[x] = w /\ role[x].status = "live"
        /\ tx[w].actor = Root \/ \A g \in G : Derived(g)
        /\ Holders(x) \subseteq B \/ G = role[x].perms
    BY <1>2 DEF CommitEdit, IndInv, TxInv, WorkOK, Editing, At
  <1> HIDE DEF x, G, B
  <1>4. /\ role' \in [Role -> RoleRow]
        /\ role'[x].status = "live" /\ role'[x].perms = G
        /\ role[x].version < role'[x].version
        /\ \A r \in Role : r # x => role'[r] = role[r]
    BY <1>1, <1>2, <1>3 DEF IndInv, TypeOK, RoleRow
  <1>5. /\ version' \in [User -> Nat]
        /\ \A u \in User : version[u] <= version'[u]
        /\ \A u \in B : version[u] < version'[u]
    BY <1>1, <1>2 DEF Bumped, IndInv, TypeOK
  <1>6. TablesTyped'
    BY <1>1, <1>2, <1>4, <1>5 DEF TablesTyped, IndInv, TypeOK, OfOwner
  <1>7. AuthorityMoves
    <2>1. ASSUME NEW u \in User, u \notin B
          PROVE  Authority(u)' = Authority(u)
      <3>1. x \notin held[u] \/ role'[x].perms = role[x].perms
        BY <1>3, <1>4, <2>1 DEF Holders
      <3>2. \A r \in held[u] : role'[r].perms = role[r].perms
        BY <1>4, <3>1 DEF IndInv, TypeOK
      <3>. QED
        BY <1>2, <3>2, AuthorityStays DEF IndInv
    <2>. QED
      BY <1>2, <1>5, <2>1 DEF AuthorityMoves
  <1>8. RolesMove
    BY <1>3, <1>4 DEF RolesMove, IndInv, TypeOK, RoleRow
  <1>9. Respects(w)
    BY <1>2, <1>3, <1>4 DEF Respects, Holders
  <1>10. \A g \in G : Derived(g)'
    BY <1>1, <1>2, <1>3, HandedOut
  <1>11. TablesDerived'
    <2>1. \A g : Derived(g) => Derived(g)'
      BY <1>2 DEF Derived, HandedOn
    <2>. QED
      BY <1>2, <1>4, <1>10, <2>1 DEF TablesDerived, HeldRolesAreLive, IndInv,
         TableInv, AuthorityComesFromRoot, TypeOK
  <1>. QED
    BY <1>2, <1>6, <1>7, <1>8, <1>9, <1>11, EndStep

LEMMA CommitDeleteStep ==
    ASSUME IndInv, NEW w \in Worker, CommitDelete(w)
    PROVE  IndInv'
  <1> DEFINE x == tx[w].r
  <1>1. x \in Role
    BY DEF IndInv, TypeOK, Transaction
  <1>2. /\ End(w)
        /\ role' = [role EXCEPT ![x].status = "gone", ![x].perms = {}]
        /\ UNCHANGED <<held, allow, deny, version, mfa, origin, lapsed>>
    BY DEF CommitDelete
  <1>3. roleLock[x] = w /\ role[x].status = "live" /\ Holders(x) = {}
    BY DEF CommitDelete, IndInv, TxInv, WorkOK, Deleting
  <1> HIDE DEF x
  <1>4. /\ role' \in [Role -> RoleRow]
        /\ role'[x].status = "gone" /\ role'[x].perms = {}
        /\ role'[x].version = role[x].version
        /\ \A r \in Role : r # x => role'[r] = role[r]
    <2>1. role[x] \in RoleRow /\ role \in [Role -> RoleRow]
      BY <1>1 DEF IndInv, TypeOK
    <2> DEFINE row == [[role[x] EXCEPT !.status = "gone"] EXCEPT !.perms = {}]
    <2>2. role' = [role EXCEPT ![x] = row]
      BY <1>1, <1>2, <2>1 DEF RoleRow
    <2>3. /\ row \in RoleRow /\ row.status = "gone" /\ row.perms = {}
          /\ row.version = role[x].version
      BY <2>1 DEF RoleRow
    <2> HIDE DEF row
    <2>. QED
      BY <1>1, <2>1, <2>2, <2>3
  <1>5. TablesTyped'
    BY <1>2, <1>4 DEF TablesTyped, IndInv, TypeOK
  <1>6. \A u \in User : x \notin held[u] /\ held[u] \subseteq Role
    BY <1>3 DEF Holders, IndInv, TypeOK
  <1>7. AuthorityMoves
    <2>1. ASSUME NEW u \in User
          PROVE  Authority(u)' = Authority(u)
      BY <1>2, <1>4, <1>6, AuthorityStays DEF IndInv
    <2>. QED
      BY <1>2, <2>1 DEF AuthorityMoves, IndInv, TypeOK
  <1>8. RolesMove
    BY <1>3, <1>4 DEF RolesMove, IndInv, TypeOK, RoleRow
  <1>9. Respects(w)
    BY <1>2, <1>3, <1>4 DEF Respects, Holders, IndInv, TableInv
  <1>10. TablesDerived'
    <2>1. \A g : Derived(g) => Derived(g)'
      BY <1>2 DEF Derived, HandedOn
    <2>. QED
      BY <1>2, <1>4, <1>6, <2>1 DEF TablesDerived, HeldRolesAreLive, IndInv,
         TableInv, AuthorityComesFromRoot
  <1>. QED
    BY <1>2, <1>5, <1>7, <1>8, <1>9, <1>10, EndStep

\* A commit that changes what one user holds, and bumps its version.
LEMMA SubjectCommit ==
    ASSUME IndInv, NEW w \in Worker, NEW u \in User, End(w), TablesTyped',
           UNCHANGED <<role, lapsed>>, version' = Bumped({u}),
           \A v \in User : v # u =>
              held'[v] = held[v] /\ allow'[v] = allow[v] /\ deny'[v] = deny[v],
           \A r \in held'[u] :
              \/ r \in held[u]
              \/ role[r].status = "live" /\ roleLock[r] \in {w, NoWorker},
           origin \subseteq origin', \A g \in allow'[u] : Derived(g)'
    PROVE  IndInv'
  <1>1. /\ \A v \in User : version[v] <= version'[v]
        /\ version[u] < version'[u]
    BY DEF Bumped, IndInv, TypeOK
  <1>2. AuthorityMoves
    <2>1. ASSUME NEW v \in User, v # u
          PROVE  Authority(v)' = Authority(v)
      BY <2>1, AuthorityStays DEF IndInv
    <2>. QED
      BY <1>1, <2>1 DEF AuthorityMoves
  <1>3. RolesMove
    BY DEF RolesMove, IndInv, TypeOK, RoleRow
  <1>4. Respects(w)
    <2>1. ASSUME NEW r \in Role, roleLock[r] \notin {w, NoWorker}
          PROVE  Holders(r)' \subseteq Holders(r)
      BY <2>1 DEF Holders
    <2>. QED
      BY <2>1 DEF Respects
  <1>5. TablesDerived'
    <2>1. \A g : Derived(g) => Derived(g)'
      BY DEF Derived, HandedOn
    <2>2. \A v \in User : \A g \in allow'[v] : Derived(g)'
      BY <2>1 DEF IndInv, TableInv, AuthorityComesFromRoot
    <2>3. HeldRolesAreLive'
      BY DEF HeldRolesAreLive, IndInv, TableInv
    <2>. QED
      BY <2>1, <2>2, <2>3 DEF TablesDerived, IndInv, TableInv, AuthorityComesFromRoot
  <1>. QED
    BY <1>2, <1>3, <1>4, <1>5, EndStep

LEMMA BumpedTyped ==
    ASSUME TypeOK, NEW G
    PROVE  Bumped(G) \in [User -> Nat]
  BY DEF TypeOK, Bumped

LEMMA CommitAssignStep ==
    ASSUME IndInv, NEW w \in Worker, CommitAssign(w)
    PROVE  IndInv'
  <1> DEFINE u == tx[w].u
             x == tx[w].r
  <1>1. x \in Role /\ u \in User
    BY DEF IndInv, TypeOK, Transaction
  <1>2. /\ End(w) /\ version' = Bumped({u}) /\ mfa' = Mandated(w, tx[w].want)
        /\ held' = [held EXCEPT ![u] = @ \cup {x}]
        /\ UNCHANGED <<role, allow, deny, origin, lapsed>>
    BY DEF CommitAssign
  <1>3. role[x].status = "live" /\ w \in roleShare[x]
    BY DEF CommitAssign, IndInv, TxInv, WorkOK, Adding
  <1>4. roleLock[x] \in {w, NoWorker}
    BY <1>1, <1>3 DEF IndInv, TableInv
  <1>5. mfa' \in [User -> BOOLEAN]
    BY <1>2 DEF Mandated, IndInv, TypeOK, DangerousIn
  <1> HIDE DEF u, x
  <1>6. /\ held' \in [User -> SUBSET Role] /\ held'[u] = held[u] \cup {x}
        /\ \A v \in User : v # u => held'[v] = held[v]
    BY <1>1, <1>2 DEF IndInv, TypeOK
  <1>7. TablesTyped'
    BY <1>2, <1>5, <1>6, BumpedTyped DEF TablesTyped, IndInv, TypeOK
  <1>8. \A g \in allow'[u] : Derived(g)'
    BY <1>1, <1>2 DEF Derived, HandedOn, IndInv, TableInv, AuthorityComesFromRoot
  <1>. QED
    BY <1>1, <1>2, <1>3, <1>4, <1>6, <1>7, <1>8, SubjectCommit

LEMMA CommitUnassignStep ==
    ASSUME IndInv, NEW w \in Worker, CommitUnassign(w)
    PROVE  IndInv'
  <1> DEFINE u == tx[w].u
             x == tx[w].r
  <1>1. x \in Role /\ u \in User
    BY DEF IndInv, TypeOK, Transaction
  <1>2. /\ End(w) /\ version' = Bumped({u})
        /\ held' = [held EXCEPT ![u] = @ \ {x}]
        /\ UNCHANGED <<role, allow, deny, mfa, origin, lapsed>>
    BY DEF CommitUnassign
  <1> HIDE DEF u, x
  <1>3. /\ held' \in [User -> SUBSET Role] /\ held'[u] = held[u] \ {x}
        /\ \A v \in User : v # u => held'[v] = held[v]
    BY <1>1, <1>2 DEF IndInv, TypeOK
  <1>4. TablesTyped'
    BY <1>2, <1>3, BumpedTyped DEF TablesTyped, IndInv, TypeOK
  <1>5. \A g \in allow'[u] : Derived(g)'
    BY <1>1, <1>2 DEF Derived, HandedOn, IndInv, TableInv, AuthorityComesFromRoot
  <1>. QED
    BY <1>1, <1>2, <1>3, <1>4, <1>5, SubjectCommit

LEMMA CommitOverrideStep ==
    ASSUME IndInv, NEW w \in Worker, CommitOverride(w) \/ CommitLift(w)
    PROVE  IndInv'
  <1>1. PICK u \in User, k \in Grant : u = tx[w].u /\ k = tx[w].g
    BY DEF IndInv, TypeOK, Transaction
  <1>2. /\ End(w) /\ version' = Bumped({u}) /\ MayAuthor(w, {k})
        /\ UNCHANGED <<role, held, lapsed>>
    BY <1>1 DEF CommitOverride, CommitLift
  <1>3. /\ mfa' \in [User -> BOOLEAN] /\ origin' \in SUBSET Grant
        /\ origin \subseteq origin'
    BY <1>1 DEF CommitOverride, CommitLift, Mandated, OfOwner, IndInv, TypeOK,
                DangerousIn
  <1>4. tx[w].actor = Root \/ \A g \in {k} : Derived(g)
    BY <1>1, <1>2, AuthoringIsDerived DEF IndInv, TableInv
  <1>5. \/ allow' = allow
        \/ allow' = [allow EXCEPT ![u] = @ \ {k}]
        \/ /\ allow' = [allow EXCEPT ![u] = @ \cup {k}]
           /\ origin' = origin \cup OfOwner(w, {k})
    BY <1>1 DEF CommitOverride, CommitLift
  <1>6. \/ deny' = deny
        \/ deny' = [deny EXCEPT ![u] = @ \ {k}]
        \/ deny' = [deny EXCEPT ![u] = @ \cup {k}]
    BY <1>1 DEF CommitOverride, CommitLift
  <1>7. /\ allow' \in [User -> SUBSET Grant]
        /\ \A v \in User : v # u => allow'[v] = allow[v]
    BY <1>1, <1>5 DEF IndInv, TypeOK
  <1>8. /\ deny' \in [User -> SUBSET Grant]
        /\ \A v \in User : v # u => deny'[v] = deny[v]
    BY <1>1, <1>6 DEF IndInv, TypeOK
  <1>9. TablesTyped'
    BY <1>2, <1>3, <1>7, <1>8, BumpedTyped DEF TablesTyped, IndInv, TypeOK
  <1>10. \A g \in allow'[u] : Derived(g)'
    <2>1. \A g : Derived(g) => Derived(g)'
      BY <1>3 DEF Derived, HandedOn
    <2>2. \A g \in allow[u] : Derived(g)'
      BY <1>1, <2>1 DEF IndInv, TableInv, AuthorityComesFromRoot
    <2>3. origin' = origin \cup OfOwner(w, {k}) => Derived(k)'
      BY <1>1, <1>4, HandedOut
    <2>4. allow \in [User -> SUBSET Grant]
      BY DEF IndInv, TypeOK
    <2>5. CASE allow' = allow \/ allow' = [allow EXCEPT ![u] = @ \ {k}]
      <3>1. allow'[u] \subseteq allow[u]
        BY <1>1, <2>4, <2>5
      <3>. QED
        BY <2>2, <3>1
    <2>6. CASE /\ allow' = [allow EXCEPT ![u] = @ \cup {k}]
               /\ origin' = origin \cup OfOwner(w, {k})
      <3>1. allow'[u] = allow[u] \cup {k}
        BY <1>1, <2>4, <2>6
      <3>. QED
        BY <2>2, <2>3, <2>6, <3>1
    <2>. QED
      BY <1>5, <2>5, <2>6
  <1>11. held' = held
    BY <1>2
  <1>. QED
    BY <1>1, <1>2, <1>3, <1>7, <1>8, <1>9, <1>10, <1>11, SubjectCommit

-----------------------------------------------------------------------------
(* An override expires.                                                      *)

LEMMA ExpireStep ==
    ASSUME IndInv, NEW u \in User, Expire(u)
    PROVE  IndInv'
  <1>1. /\ UNCHANGED <<role, held, version, mfa, locks, tx, origin>>
        /\ lapsed' = lapsed \cup {u}
    BY DEF Expire
  <1>2. /\ allow' \in [User -> SUBSET Grant] /\ allow'[u] \subseteq allow[u]
        /\ \A v \in User : v # u => allow'[v] = allow[v]
    BY DEF Expire, IndInv, TypeOK
  <1>3. /\ deny' \in [User -> SUBSET Grant]
        /\ \A v \in User : v # u => deny'[v] = deny[v]
    BY DEF Expire, IndInv, TypeOK
  <1>4. TypeOK'
    BY <1>1, <1>2, <1>3 DEF IndInv, TypeOK, locks
  <1>5. AuthorityMoves
    <2>1. ASSUME NEW v \in User, v # u
          PROVE  Authority(v)' = Authority(v)
      BY <1>1, <1>2, <1>3, <2>1, AuthorityStays DEF IndInv
    <2>. QED
      BY <1>1, <2>1 DEF AuthorityMoves, IndInv, TypeOK
  <1>6. RolesMove
    BY <1>1 DEF RolesMove, IndInv, TypeOK, RoleRow
  <1>7. ASSUME NEW v \in Worker
        PROVE  Undisturbed(v)
    BY <1>1, <1>5, <1>6 DEF Undisturbed, KeptFor, Holders, locks
  <1>8. TxInv'
    BY <1>4, <1>7, OthersKeepInv DEF TxInv, TypeOK
  <1>9. AuthorityIsCurrent'
    BY <1>1, <1>4, <1>5, CurrentForGood DEF AuthorityIsCurrent, TypeOK
  <1>10. AuthorityComesFromRoot'
    <2>1. \A v \in User : allow'[v] \subseteq allow[v]
      BY <1>2
    <2>. QED
      BY <1>1, <2>1 DEF IndInv, TableInv, AuthorityComesFromRoot, Derived, HandedOn
  <1>11. TableInv'
    BY <1>1, <1>9, <1>10 DEF TableInv, IndInv, HeldRolesAreLive, locks
  <1>. QED
    BY <1>4, <1>8, <1>11 DEF IndInv

-----------------------------------------------------------------------------
(* The theorems.                                                             *)

LEMMA NextInv == IndInv /\ [Next]_vars => IndInv'
  <1> SUFFICES ASSUME IndInv, [Next]_vars PROVE IndInv'
    OBVIOUS
  <1>1. CASE UNCHANGED vars
    <2>1. UNCHANGED <<tables, locks, tx, origin, lapsed>>
      BY <1>1 DEF vars
    <2>2. TypeOK' /\ TxInv'
      BY <2>1 DEF tables, locks, IndInv, TypeOK, TxInv, SawOK, WorkOK, Editing,
                  Deleting, Adding, At, Holders, Derived, HandedOn
    <2>3. TableInv'
      BY <2>1 DEF tables, locks, IndInv, TableInv, HeldRolesAreLive,
                  AuthorityComesFromRoot, AuthorityIsCurrent, Current, Authority,
                  Derived, HandedOn
    <2>. QED
      BY <2>2, <2>3 DEF IndInv
  <1>2. ASSUME NEW w \in Worker, Handler(w)
        PROVE  IndInv'
    <2>1. CASE \E a \in User, op \in Operation : Authenticate(w, a, op)
      BY <2>1, AuthenticateStep
    <2>2. CASE LoadActor(w)
      BY <2>2, LoadActorStep
    <2>3. CASE CreateRole(w)
      BY <2>3, CreateRoleStep
    <2>4. CASE LockForEdit(w) \/ ReadHolders(w) \/ BumpHolder(w)
      BY <2>4, EditStep
    <2>5. CASE CommitEdit(w)
      BY <2>5, CommitEditStep
    <2>6. CASE LockForDelete(w)
      BY <2>6, LockForDeleteStep
    <2>7. CASE CommitDelete(w)
      BY <2>7, CommitDeleteStep
    <2>8. CASE LockSubject(w) \/ ReadRole(w) \/ InsertAssignment(w)
      BY <2>8, SubjectStep
    <2>9. CASE CommitAssign(w)
      BY <2>9, CommitAssignStep
    <2>10. CASE CommitUnassign(w)
      BY <2>10, CommitUnassignStep
    <2>11. CASE CommitOverride(w) \/ CommitLift(w)
      BY <2>11, CommitOverrideStep
    <2>12. CASE Abort(w)
      BY <2>12, RollbackStep DEF Abort
    <2>. QED
      BY <1>2, <2>1, <2>2, <2>3, <2>4, <2>5, <2>6, <2>7, <2>8, <2>9, <2>10,
         <2>11, <2>12 DEF Handler
  <1>. QED
    BY <1>1, <1>2, ExpireStep DEF Next

\* What the authorization service preserves, statement by statement.
THEOREM Invariant == Spec => []IndInv
  BY InitInv, NextInv, PTL DEF Spec

\* However many delegates hand on what they hold, nobody ever holds a grant that
\* the owner, or the seed, did not make at that scope or a wider one.
THEOREM DelegationNeverWidens == Spec => []AuthorityComesFromRoot
  <1>1. IndInv => AuthorityComesFromRoot
    BY DEF IndInv, TableInv
  <1>. QED
    BY <1>1, Invariant, PTL

\* A client whose security version has not moved was shown what it may do.
THEOREM VersionTellsStaleness == Spec => []AuthorityIsCurrent
  <1>1. IndInv => AuthorityIsCurrent
    BY DEF IndInv, TableInv
  <1>. QED
    BY <1>1, Invariant, PTL

\* Nobody holds a role that was deleted.
THEOREM DeletedRolesAreUnheld == Spec => []HeldRolesAreLive
  <1>1. IndInv => HeldRolesAreLive
    BY DEF IndInv, TableInv
  <1>. QED
    BY <1>1, Invariant, PTL

\* What one step may do to a role.
Edited == \A r \in Role, w \in Worker :
    /\ role[r].status = "live" /\ role'[r].status = "live"
    /\ role'[r].perms # role[r].perms
    /\ tx[w].op = "update" /\ tx'[w].op = "idle" /\ tx[w].r = r
    => role[r].perms = tx[w].saw

LEMMA EditedStep == IndInv /\ [Next]_vars => Edited
  <1> SUFFICES ASSUME IndInv, [Next]_vars, NEW r \in Role, NEW w \in Worker,
                      role[r].status = "live", role'[r].status = "live",
                      role'[r].perms # role[r].perms,
                      tx[w].op = "update", tx'[w].op = "idle", tx[w].r = r
               PROVE  role[r].perms = tx[w].saw
    BY DEF Edited
  <1>1. PICK v \in Worker : CreateRole(v) \/ CommitEdit(v) \/ CommitDelete(v)
    BY DEF Next, Handler, vars, tables, Authenticate, LoadActor, LockForEdit,
           ReadHolders, BumpHolder, LockForDelete, LockSubject, ReadRole,
           InsertAssignment, CommitAssign, CommitUnassign, CommitOverride,
           CommitLift, Expire, Abort
  <1>2. End(v)
    BY <1>1 DEF CreateRole, CommitEdit, CommitDelete
  <1>3. v = w
    BY <1>2, EndFields
  <1>4. CommitEdit(w)
    BY <1>1, <1>3 DEF CreateRole, CommitDelete, At
  <1>5. tx[w].rver = role[r].version /\ SawOK(w)
    BY <1>4 DEF CommitEdit, IndInv, TxInv, WorkOK, Editing
  <1>. QED
    BY <1>5 DEF SawOK

\* Two editors who start from one version of a role cannot both succeed.
THEOREM NoLostEdit == Spec => EditsWhatWasSeen
  <1>1. EditsWhatWasSeen <=> [][Edited]_vars
    BY PTL DEF EditsWhatWasSeen, Edited
  <1>2. IndInv /\ [Next]_vars => [Edited]_vars
    BY EditedStep
  <1>. QED
    BY <1>1, <1>2, Invariant, PTL DEF Spec
=============================================================================
