------------------------------- MODULE Sessions -------------------------------
(***************************************************************************)
(* The sessions of ONE user account: login with the per-user cap, refresh  *)
(* rotation with reuse detection, logout, logout-all, the revocation of    *)
(* one's own session, and the suspension and reactivation of the account   *)
(* (src/backend/src/modules/authentication/{service,sessions,repo}.rs and  *)
(* change_status of modules/identity/service.rs).                          *)
(*                                                                         *)
(* Every request is a PostgreSQL transaction at READ COMMITTED, modelled   *)
(* one blocking statement at a time: a statement reads the committed state *)
(* of its own instant, takes the row locks it needs one by one, and what a *)
(* transaction writes becomes visible only when it commits.  A transaction *)
(* can end without committing at any point: a deadlock victim, the         *)
(* statement_timeout, the request timeout, a lost connection, a crash.     *)
(*                                                                         *)
(* Abstracted: token digests (a refresh token is the pair of its session   *)
(* and its generation; the access token is named by the generation it was  *)
(* minted with), the second factor (pending_mfa), rate limits, the content *)
(* of audit entries (but not the lock of the audit chain's head, which     *)
(* every audited transaction holds to its commit), last_activity_at.       *)
(***************************************************************************)
EXTENDS Naturals, FiniteSets

CONSTANTS
    Worker,        \* request handlers that may be inside a transaction
    Session,       \* the identifiers sessions get
    NoWorker, NoSession,
    MaxGen,        \* largest refresh generation; i32::MAX in the code
    MaxPerUser,    \* sessions.max_per_user; 0 is "unbounded"
    AccessTtl, IdleTtl, AbsoluteTtl, RefreshTtl,
    MaxClock,      \* bound on the clock, for TLC
    Serves         \* the operations each handler is sent in this instance

ASSUME WorkerAssumption  == NoWorker \notin Worker
ASSUME SessionAssumption == NoSession \notin Session /\ IsFiniteSet(Session)
ASSUME ConfigAssumption  ==
    /\ MaxGen \in Nat
    /\ MaxPerUser \in Nat
    /\ AccessTtl \in Nat
    /\ IdleTtl \in Nat
    /\ AbsoluteTtl \in Nat
    /\ RefreshTtl \in Nat
    /\ MaxClock \in Nat

Gen    == 0..MaxGen
Status == {"ACTIVE", "SUSPENDED"}

VARIABLES
    clock,
    userStatus,    \* users.status of the account
    sess,          \* the sessions table
    rt,            \* session_refresh_tokens: the state of each generation
    rtExp,         \* session_refresh_tokens.expires_at
    tx,            \* what each handler is doing
    sLock,         \* holder of the row lock of a session
    rtLock,        \* holder of the row lock of a refresh token
    headLock,      \* holder of the audit chain head
    userLock,      \* holder of the account's row, FOR UPDATE
    userShare,     \* holders of its KEY SHARE lock (foreign-key checks)
    reused         \* history: sessions in which a reuse was recorded

tables == <<userStatus, sess, rt, rtExp, reused>>
locks  == <<sLock, rtLock, headLock, userLock, userShare>>
vars   == <<clock, tables, tx, locks>>

SessionRow ==
    [status : {"free", "live", "revoked"},
     token  : Gen,                          \* which access token is stored
     access : Nat, idle : Nat, abs : Nat,   \* the three deadlines
     created : Nat]

\* A refresh that presents a consumed token turns into a "reuse".
Operation == {"login", "refresh", "reuse", "logout", "revokeOwn", "logoutAll",
              "suspend", "reactivate"}

\* The statement a transaction is at.
Pc ==
    {"none", "begin", "oldest", "evict", "evictAudit", "evictActor", "insert",
     "lockToken", "lockSession", "family", "familyLock", "rotate",
     "statement", "lockUser", "lockAll", "audit", "commit"}

Transaction ==
    [op   : Operation \cup {"idle"},
     pc   : Pc,
     s    : Session \cup {NoSession},  \* the session the request is about
     g    : Gen,                       \* the presented generation
     t0   : Nat,                       \* the handler's now, and the tx's now()
     seen : Status,                    \* users.status read without a lock
     surplus : Nat,
     rows : SUBSET Session,            \* rows the statement still has to lock
     hit  : SUBSET Session,            \* sessions it revokes on commit
     gens : SUBSET Gen,                \* tokens consume_family has to lock
     fam  : SUBSET Gen]                \* tokens it consumes on commit

TypeOK ==
    /\ clock \in Nat
    /\ userStatus \in Status
    /\ sess \in [Session -> SessionRow]
    /\ rt \in [Session -> [Gen -> {"none", "live", "consumed"}]]
    /\ rtExp \in [Session -> [Gen -> Nat]]
    /\ tx \in [Worker -> Transaction]
    /\ sLock \in [Session -> Worker \cup {NoWorker}]
    /\ rtLock \in [Session -> [Gen -> Worker \cup {NoWorker}]]
    /\ headLock \in Worker \cup {NoWorker}
    /\ userLock \in Worker \cup {NoWorker}
    /\ userShare \in SUBSET Worker
    /\ reused \in SUBSET Session

NoRow  == [status |-> "free", token |-> 0, access |-> 0, idle |-> 0,
           abs |-> 0, created |-> 0]
IdleTx == [op |-> "idle", pc |-> "none", s |-> NoSession, g |-> 0, t0 |-> 0,
           seen |-> "ACTIVE", surplus |-> 0, rows |-> {}, hit |-> {},
           gens |-> {}, fam |-> {}]

Init ==
    /\ clock = 0
    /\ userStatus = "ACTIVE"
    /\ sess = [s \in Session |-> NoRow]
    /\ rt = [s \in Session |-> [g \in Gen |-> "none"]]
    /\ rtExp = [s \in Session |-> [g \in Gen |-> 0]]
    /\ tx = [w \in Worker |-> IdleTx]
    /\ sLock = [s \in Session |-> NoWorker]
    /\ rtLock = [s \in Session |-> [g \in Gen |-> NoWorker]]
    /\ headLock = NoWorker
    /\ userLock = NoWorker
    /\ userShare = {}
    /\ reused = {}

-----------------------------------------------------------------------------
(* The rules of sessions.rs.                                               *)

Earlier(a, b) == IF a <= b THEN a ELSE b

\* new_lifetimes: a session created at t.
NewRow(t) ==
    [status |-> "live", token |-> 0,
     access |-> Earlier(t + AccessTtl, t + AbsoluteTtl),
     idle   |-> Earlier(t + IdleTtl, t + AbsoluteTtl),
     abs    |-> t + AbsoluteTtl,
     created |-> t]

\* Slip: the digest of the new access token is not stored.
RotatedRowKeepsToken(row, g, t) ==
    [row EXCEPT !.access = Earlier(t + AccessTtl, row.abs),
                !.idle   = Earlier(t + IdleTtl, row.abs)]

\* refreshed_lifetimes, as rotate_access_token stores them: access and idle
\* roll forward under the ceiling, which stays where it was.
RotatedRow(row, g, t) ==
    [row EXCEPT !.token  = g,
                !.access = Earlier(t + AccessTtl, row.abs),
                !.idle   = Earlier(t + IdleTtl, row.abs)]

\* Slip: the expiry of a refresh token ignores the ceiling.
RefreshExpiryUncapped(t, abs) == t + RefreshTtl

\* refresh_expiry.
RefreshExpiry(t, abs) == Earlier(t + RefreshTtl, abs)

\* Slip: the generation is incremented unchecked.
AlwaysAdvances(g) == TRUE

\* next_generation: no generation after the largest.
CanAdvance(g) == g < MaxGen

\* Slip: the session about to be inserted is not counted.
SurplusForgetsInsert(active) ==
    IF MaxPerUser = 0 \/ active <= MaxPerUser THEN 0 ELSE active - MaxPerUser

\* surplus_sessions.
Surplus(active) ==
    IF MaxPerUser = 0 \/ active + 1 <= MaxPerUser THEN 0
    ELSE active + 1 - MaxPerUser

\* classify_refresh, on the rows read under FOR UPDATE.
Verdict(row, state, expires, status, now) ==
    IF state = "consumed" THEN "ReuseDetected"
    ELSE IF \/ row.status # "live"
            \/ status # "ACTIVE"
            \/ expires <= now
            \/ row.abs <= now
            \/ row.idle <= now
         THEN "Rejected"
         ELSE "Rotate"

-----------------------------------------------------------------------------
(* What the statements read.                                               *)

\* count_live_sessions and oldest_live_session_ids: the sessions that are
\* live at the transaction's now().
LiveAt(t) == {s \in Session : /\ sess[s].status = "live"
                              /\ sess[s].abs > t
                              /\ sess[s].idle > t}

\* authenticate: the bearer token of s is accepted now.
Authenticates(s) ==
    /\ s \in LiveAt(clock)
    /\ sess[s].access > clock
    /\ userStatus = "ACTIVE"

\* The n oldest members of S by creation; ties fall either way.
OldestOf(S, n, O) ==
    /\ O \subseteq S
    /\ Cardinality(O) = IF n <= Cardinality(S) THEN n ELSE Cardinality(S)
    /\ \A s \in O, r \in S \ O : sess[s].created <= sess[r].created

-----------------------------------------------------------------------------
(* The transaction mechanics of PostgreSQL.                                *)

Goto(w, pc) == tx' = [tx EXCEPT ![w].pc = pc]

Start(w, op, pc, s) ==
    /\ tx[w].op = "idle"
    /\ op \in Serves[w]
    /\ tx' = [tx EXCEPT ![w] = [IdleTx EXCEPT !.op = op, !.pc = pc, !.s = s,
                                              !.t0 = clock,
                                              !.seen = userStatus]]

At(w, pc) == tx[w].pc = pc

\* A row is free for w when nobody else holds it.
Free(holder, w) == holder \in {NoWorker, w}

\* Slips: the row is read without FOR UPDATE.
LockSessionReads(w, s) == UNCHANGED sLock

LockTokenReads(w, s, g) == UNCHANGED rtLock

LockSession(w, s) ==
    /\ Free(sLock[s], w)
    /\ sLock' = [sLock EXCEPT ![s] = w]

LockToken(w, s, g) ==
    /\ Free(rtLock[s][g], w)
    /\ rtLock' = [rtLock EXCEPT ![s][g] = w]

\* Commit and rollback both end the transaction and release its locks.
End(w) ==
    /\ tx' = [tx EXCEPT ![w] = IdleTx]
    /\ sLock' = [s \in Session |->
                    IF sLock[s] = w THEN NoWorker ELSE sLock[s]]
    /\ rtLock' = [s \in Session |-> [g \in Gen |->
                    IF rtLock[s][g] = w THEN NoWorker ELSE rtLock[s][g]]]
    /\ headLock' = IF headLock = w THEN NoWorker ELSE headLock
    /\ userLock' = IF userLock = w THEN NoWorker ELSE userLock
    /\ userShare' = userShare \ {w}

Rollback(w) == End(w) /\ UNCHANGED <<clock, tables>>

-----------------------------------------------------------------------------
(* login and issue_session.                                                *)

\* The account is read and the password verified on the pool, before any
\* transaction: an inactive account goes no further.
LoginVerify(w) ==
    /\ userStatus = "ACTIVE"
    /\ Start(w, "login", "begin", NoSession)
    /\ UNCHANGED <<clock, tables, locks>>

\* BEGIN and count_live_sessions.
LoginCount(w) ==
    /\ At(w, "begin") /\ tx[w].op = "login"
    /\ LET n == Surplus(Cardinality(LiveAt(clock)))
       IN  tx' = [tx EXCEPT ![w].t0 = clock, ![w].surplus = n,
                            ![w].pc = IF n = 0 THEN "insert" ELSE "oldest"]
    /\ UNCHANGED <<clock, tables, locks>>

\* oldest_live_session_ids.
LoginOldest(w) ==
    /\ At(w, "oldest")
    /\ \E O \in SUBSET Session :
         /\ OldestOf(LiveAt(tx[w].t0), tx[w].surplus, O)
         /\ tx' = [tx EXCEPT ![w].rows = O,
                             ![w].pc = IF O = {} THEN "insert" ELSE "evict"]
    /\ UNCHANGED <<clock, tables, locks>>

\* revoke_session of the next session to evict, oldest first; it revokes
\* nothing when somebody else revoked the row in the meantime.
LoginEvict(w) ==
    /\ At(w, "evict")
    /\ \E s \in tx[w].rows :
         /\ OldestOf(tx[w].rows, 1, {s})
         /\ \/ /\ sess[s].status = "live"
               /\ LockSession(w, s)
               /\ tx' = [tx EXCEPT ![w].rows = @ \ {s}, ![w].hit = @ \cup {s},
                                   ![w].pc = "evictAudit"]
            \/ /\ sess[s].status # "live"
               /\ tx' = [tx EXCEPT ![w].rows = @ \ {s}, ![w].pc = "evictAudit"]
               /\ UNCHANGED sLock
    /\ UNCHANGED <<clock, tables, rtLock, headLock, userLock, userShare>>

\* Each eviction is audited before the next one: the chain head is held from
\* the first of them on, and so is a KEY SHARE lock on the account, which the
\* entry's actor_user_id refers to.
LoginEvictAudit(w) ==
    /\ At(w, "evictAudit")
    /\ Free(headLock, w)
    /\ headLock' = w
    /\ Goto(w, "evictActor")
    /\ UNCHANGED <<clock, tables, sLock, rtLock, userLock, userShare>>

LoginEvictActor(w) ==
    /\ At(w, "evictActor")
    /\ Free(userLock, w)
    /\ userShare' = userShare \cup {w}
    /\ Goto(w, IF tx[w].rows = {} THEN "insert" ELSE "evict")
    /\ UNCHANGED <<clock, tables, sLock, rtLock, headLock, userLock>>

\* insert_session: the foreign key takes a KEY SHARE lock on the account, so
\* it waits for a change_status that holds the row FOR UPDATE.
LoginInsert(w) ==
    /\ At(w, "insert")
    /\ Free(userLock, w)
    /\ userShare' = userShare \cup {w}
    /\ Goto(w, "audit")
    /\ UNCHANGED <<clock, tables, sLock, rtLock, headLock, userLock>>

-----------------------------------------------------------------------------
(* refresh.                                                                *)

\* Any token that was ever issued may be presented.  The statement's snapshot
\* is taken here: it fixes the users.status that is read without a lock.
RefreshBegin(w, s, g) ==
    /\ rt[s][g] # "none"
    /\ tx[w].op = "idle"
    /\ "refresh" \in Serves[w]
    /\ tx' = [tx EXCEPT ![w] = [IdleTx EXCEPT !.op = "refresh", !.s = s, !.g = g,
                                  !.pc = "lockToken", !.t0 = clock,
                                  !.seen = userStatus]]
    /\ UNCHANGED <<clock, tables, locks>>

\* lock_refresh_token, FOR UPDATE OF rt, s: first the token ...
RefreshLockToken(w) ==
    /\ At(w, "lockToken")
    /\ LockToken(w, tx[w].s, tx[w].g)
    /\ Goto(w, "lockSession")
    /\ UNCHANGED <<clock, tables, sLock, headLock, userLock, userShare>>

VerdictOf(w) ==
    LET s == tx[w].s
        g == tx[w].g
    IN  Verdict(sess[s], rt[s][g], rtExp[s][g], tx[w].seen, tx[w].t0)

\* ... then the session.  Both rows are re-read once locked, and what they
\* say decides the path; next_generation refuses to go past MaxGen.
RefreshLockSession(w) ==
    /\ At(w, "lockSession")
    /\ LockSession(w, tx[w].s)
    /\ \/ /\ VerdictOf(w) = "Rotate"
          /\ CanAdvance(tx[w].g)
          /\ Goto(w, "rotate")
       \/ /\ VerdictOf(w) = "ReuseDetected"
          /\ tx' = [tx EXCEPT ![w].op = "reuse", ![w].pc = "family",
                              ![w].hit = {s \in {tx[w].s} : sess[s].status = "live"}]
    /\ UNCHANGED <<clock, tables, rtLock, headLock, userLock, userShare>>

RefreshRejected(w) ==
    /\ At(w, "lockSession")
    /\ Free(sLock[tx[w].s], w)
    /\ \/ VerdictOf(w) = "Rejected"
       \/ VerdictOf(w) = "Rotate" /\ ~CanAdvance(tx[w].g)
    /\ Rollback(w)

\* Slip: only the presented token is consumed.
RefreshFamilyOfOne(w) ==
    /\ At(w, "family")
    /\ tx' = [tx EXCEPT ![w].gens = {tx[w].g}, ![w].pc = "familyLock"]
    /\ UNCHANGED <<clock, tables, locks>>

\* consume_family: the unconsumed tokens of the session when it starts ...
RefreshFamily(w) ==
    /\ At(w, "family")
    /\ tx' = [tx EXCEPT ![w].gens = {g \in Gen : rt[tx[w].s][g] = "live"},
                        ![w].pc = "familyLock"]
    /\ UNCHANGED <<clock, tables, locks>>

\* ... locked one by one.  A concurrent refresh may hold one of them, waiting
\* for the session; none can have consumed it, the session being locked here.
RefreshFamilyLock(w) ==
    /\ At(w, "familyLock")
    /\ \/ \E g \in tx[w].gens :
            /\ LockToken(w, tx[w].s, g)
            /\ tx' = [tx EXCEPT ![w].gens = @ \ {g}, ![w].fam = @ \cup {g}]
       \/ /\ tx[w].gens = {}
          /\ Goto(w, "audit")
          /\ UNCHANGED rtLock
    /\ UNCHANGED <<clock, tables, sLock, headLock, userLock, userShare>>

\* consume_refresh_token, insert_refresh_token, link_replacement and
\* rotate_access_token touch only rows this transaction has locked or
\* inserts: they wait for nobody and take effect on commit.
RefreshRotate(w) ==
    /\ At(w, "rotate")
    /\ rt[tx[w].s][tx[w].g] = "live"
    /\ sess[tx[w].s].status = "live"
    /\ Goto(w, "audit")
    /\ UNCHANGED <<clock, tables, locks>>

-----------------------------------------------------------------------------
(* logout and revoke_own_session: one session, named by the caller's bearer *)
(* token or, for revokeOwn, by any identifier.                              *)

RevokeBegin(w, s) ==
    /\ \/ Authenticates(s) /\ Start(w, "logout", "statement", s)
       \/ /\ \E p \in Session : Authenticates(p)
          /\ Start(w, "revokeOwn", "statement", s)
    /\ UNCHANGED <<clock, tables, locks>>

\* The UPDATE finds the row live and locks it, or affects no row: logout then
\* goes on to its audit, revoke_own_session answers NotFound.
RevokeStatement(w) ==
    /\ At(w, "statement")
    /\ LET s == tx[w].s
       IN  \/ /\ sess[s].status = "live"
              /\ LockSession(w, s)
              /\ tx' = [tx EXCEPT ![w].hit = {s}, ![w].pc = "audit"]
           \/ /\ sess[s].status # "live"
              /\ tx[w].op = "logout"
              /\ Goto(w, "audit")
              /\ UNCHANGED sLock
    /\ UNCHANGED <<clock, tables, rtLock, headLock, userLock, userShare>>

RevokeNotFound(w) ==
    /\ At(w, "statement")
    /\ tx[w].op = "revokeOwn"
    /\ sess[tx[w].s].status # "live"
    /\ Rollback(w)

-----------------------------------------------------------------------------
(* logout_all, and change_status of the account by an administrator.       *)

Live == {s \in Session : sess[s].status = "live"}

\* revoke_user_sessions starts: the sessions that are committed and live now.
LogoutAllBegin(w) ==
    /\ \E p \in Session : Authenticates(p)
    /\ Start(w, "logoutAll", "begin", NoSession)
    /\ UNCHANGED <<clock, tables, locks>>

RevokeAllBegin(w) ==
    /\ tx[w].op = "logoutAll"
    /\ At(w, "begin")
    /\ tx' = [tx EXCEPT ![w].rows = Live, ![w].pc = "lockAll"]
    /\ UNCHANGED <<clock, tables, locks>>

\* find_user_for_update, require_transition and set_status, then (for a
\* suspension) the first instant of revoke_all_sessions.
ChangeStatusBegin(w, op) ==
    /\ op \in {"suspend", "reactivate"}
    /\ Start(w, op, "lockUser", NoSession)
    /\ UNCHANGED <<clock, tables, locks>>

\* Slip: the account is read without FOR UPDATE.
ChangeStatusReads(w) ==
    /\ At(w, "lockUser")
    /\ userStatus = IF tx[w].op = "suspend" THEN "ACTIVE" ELSE "SUSPENDED"
    /\ tx' = [tx EXCEPT ![w].rows = IF tx[w].op = "suspend" THEN Live ELSE {},
                        ![w].pc = "lockAll"]
    /\ UNCHANGED <<clock, tables, locks>>

ChangeStatusLock(w) ==
    /\ At(w, "lockUser")
    /\ Free(userLock, w)
    /\ userShare \subseteq {w}
    /\ userStatus = IF tx[w].op = "suspend" THEN "ACTIVE" ELSE "SUSPENDED"
    /\ userLock' = w
    /\ tx' = [tx EXCEPT ![w].rows = IF tx[w].op = "suspend" THEN Live ELSE {},
                        ![w].pc = "lockAll"]
    /\ UNCHANGED <<clock, tables, sLock, rtLock, headLock, userShare>>

\* An UPDATE of many rows locks them in an order nothing fixes, and skips the
\* ones that stopped being live while it waited.
RevokeAllLock(w) ==
    /\ At(w, "lockAll")
    /\ \/ \E s \in tx[w].rows :
            /\ sess[s].status = "live"
            /\ LockSession(w, s)
            /\ tx' = [tx EXCEPT ![w].rows = @ \ {s}, ![w].hit = @ \cup {s}]
       \/ \E s \in tx[w].rows :
            /\ sess[s].status # "live"
            /\ tx' = [tx EXCEPT ![w].rows = @ \ {s}]
            /\ UNCHANGED sLock
       \/ /\ tx[w].rows = {}
          /\ Goto(w, "audit")
          /\ UNCHANGED sLock
    /\ UNCHANGED <<clock, tables, rtLock, headLock, userLock, userShare>>

-----------------------------------------------------------------------------
(* The audit entry and the commit.                                         *)

\* lock_audit_chain.
Audit(w) ==
    /\ At(w, "audit")
    /\ Free(headLock, w)
    /\ headLock' = w
    /\ Goto(w, "commit")
    /\ UNCHANGED <<clock, tables, sLock, rtLock, userLock, userShare>>

\* The entry's actor_user_id is a foreign key too: an entry about the
\* account's own action waits, with the chain head held, for whoever holds
\* the account FOR UPDATE.  (A change_status is an administrator's action.)
ActorFree(w) == Free(userLock, w)

Revoked(hit) ==
    [s \in Session |-> IF s \in hit THEN [sess[s] EXCEPT !.status = "revoked"]
                                    ELSE sess[s]]

CommitLogin(w) ==
    /\ At(w, "commit") /\ tx[w].op = "login" /\ ActorFree(w)
    /\ \E s \in Session :
         /\ sess[s].status = "free"
         /\ sess' = [Revoked(tx[w].hit) EXCEPT ![s] = NewRow(tx[w].t0)]
         /\ rt' = [rt EXCEPT ![s][0] = "live"]
         /\ rtExp' = [rtExp EXCEPT ![s][0] =
                        RefreshExpiry(tx[w].t0, tx[w].t0 + AbsoluteTtl)]
    /\ End(w)
    /\ UNCHANGED <<clock, userStatus, reused>>

\* Slip: consume_refresh_token is forgotten.
CommitRotateKeepsOld(w) ==
    LET s == tx[w].s
        g == tx[w].g
    IN  /\ At(w, "commit") /\ tx[w].op = "refresh" /\ ActorFree(w)
        /\ sess' = [sess EXCEPT ![s] = RotatedRow(sess[s], g + 1, tx[w].t0)]
        /\ rt' = [rt EXCEPT ![s][g + 1] = "live"]
        /\ rtExp' = [rtExp EXCEPT ![s][g + 1] =
                       RefreshExpiry(tx[w].t0, sess[s].abs)]
        /\ End(w)
        /\ UNCHANGED <<clock, userStatus, reused>>

CommitRotate(w) ==
    LET s == tx[w].s
        g == tx[w].g
    IN  /\ At(w, "commit") /\ tx[w].op = "refresh" /\ ActorFree(w)
        /\ sess' = [sess EXCEPT ![s] = RotatedRow(sess[s], g + 1, tx[w].t0)]
        /\ rt' = [rt EXCEPT ![s][g] = "consumed", ![s][g + 1] = "live"]
        /\ rtExp' = [rtExp EXCEPT ![s][g + 1] =
                       RefreshExpiry(tx[w].t0, sess[s].abs)]
        /\ End(w)
        /\ UNCHANGED <<clock, userStatus, reused>>

CommitReuse(w) ==
    LET s == tx[w].s
    IN  /\ At(w, "commit") /\ tx[w].op = "reuse" /\ ActorFree(w)
        /\ sess' = Revoked(tx[w].hit)
        /\ rt' = [rt EXCEPT ![s] = [g \in Gen |->
                    IF g \in tx[w].fam THEN "consumed" ELSE rt[s][g]]]
        /\ reused' = reused \cup {s}
        /\ End(w)
        /\ UNCHANGED <<clock, userStatus, rtExp>>

\* logout, revoke_own_session and logout_all revoke sessions and leave their
\* refresh tokens as they are.
CommitRevoke(w) ==
    /\ At(w, "commit") /\ ActorFree(w)
    /\ tx[w].op \in {"logout", "revokeOwn", "logoutAll"}
    /\ sess' = Revoked(tx[w].hit)
    /\ End(w)
    /\ UNCHANGED <<clock, userStatus, rt, rtExp, reused>>

CommitStatus(w) ==
    /\ At(w, "commit")
    /\ tx[w].op \in {"suspend", "reactivate"}
    /\ userStatus' = IF tx[w].op = "suspend" THEN "SUSPENDED" ELSE "ACTIVE"
    /\ sess' = Revoked(tx[w].hit)
    /\ End(w)
    /\ UNCHANGED <<clock, rt, rtExp, reused>>

-----------------------------------------------------------------------------
\* A transaction that ends without committing, whatever it was doing.
Abort(w) == tx[w].op # "idle" /\ Rollback(w)

Tick ==
    /\ clock < MaxClock
    /\ clock' = clock + 1
    /\ UNCHANGED <<tables, tx, locks>>

Request(w) ==
    \/ LoginVerify(w)
    \/ \E s \in Session, g \in Gen : RefreshBegin(w, s, g)
    \/ \E s \in Session : RevokeBegin(w, s)
    \/ LogoutAllBegin(w)
    \/ \E op \in Operation : ChangeStatusBegin(w, op)

Progress(w) ==
    \/ LoginCount(w) \/ LoginOldest(w) \/ LoginEvict(w)
    \/ LoginEvictAudit(w) \/ LoginEvictActor(w) \/ LoginInsert(w)
    \/ RefreshLockToken(w) \/ RefreshLockSession(w) \/ RefreshRejected(w)
    \/ RefreshFamily(w) \/ RefreshFamilyLock(w) \/ RefreshRotate(w)
    \/ RevokeStatement(w) \/ RevokeNotFound(w)
    \/ RevokeAllBegin(w) \/ ChangeStatusLock(w) \/ RevokeAllLock(w)
    \/ Audit(w)
    \/ CommitLogin(w) \/ CommitRotate(w) \/ CommitReuse(w)
    \/ CommitRevoke(w) \/ CommitStatus(w)

Next == Tick \/ \E w \in Worker : Request(w) \/ Progress(w) \/ Abort(w)

Spec == Init /\ [][Next]_vars

-----------------------------------------------------------------------------
(* Properties.                                                             *)

\* A session never has two exchangeable refresh tokens: whatever refreshes,
\* reuse detections and revocations interleave, there is no second valid
\* chain (refresh; tests/race/refresh_rotation.rs).
OneLiveGeneration ==
    \A s \in Session : \A g, h \in Gen :
        rt[s][g] = "live" /\ rt[s][h] = "live" => g = h

\* Once a reuse has been recorded the family is dead for good: its session is
\* revoked and none of its refresh tokens, the ones that were being minted at
\* the time included, can be exchanged (the ReuseDetected branch of refresh).
ReusedFamilyIsDead ==
    \A s \in reused : /\ sess[s].status = "revoked"
                      /\ \A g \in Gen : rt[s][g] # "live"

\* The access token a live session stores was minted together with the
\* exchangeable refresh token, so a holder of an older refresh token never has
\* the current access token (rotate_access_token in refresh).
AccessFollowsRefresh ==
    \A s \in Session :
        sess[s].status = "live" =>
            /\ rt[s][sess[s].token] = "live"
            /\ \A g \in Gen : g > sess[s].token => rt[s][g] = "none"

\* No deadline of a session, nor of any of its refresh tokens, lies past the
\* ceiling that was fixed when it was created, however often it is refreshed
\* (new_lifetimes, refreshed_lifetimes, refresh_expiry).
CeilingHolds ==
    \A s \in Session :
        sess[s].status # "free" =>
            /\ sess[s].abs = sess[s].created + AbsoluteTtl
            /\ sess[s].access <= sess[s].abs
            /\ sess[s].idle <= sess[s].abs
            /\ \A g \in Gen : rtExp[s][g] <= sess[s].abs

\* A revoked session stays revoked and mints no further generation, even for a
\* refresh that was already running when it was revoked (the row locks of
\* lock_refresh_token, the gates of rotate_access_token).
RevocationIsFinal ==
    [][\A s \in Session : sess[s].status = "revoked" =>
          /\ sess'[s] = sess[s]
          /\ \A g \in Gen : rt[s][g] = "none" => rt'[s][g] = "none"]_vars

\* The cap holds after every login (sessions.rs:95; issue_session).
SessionCapHolds ==
    MaxPerUser > 0 => Cardinality(LiveAt(clock)) <= MaxPerUser

\* No session is live when a suspension commits, the ones included that a login
\* inserted while it waited for the account or went through its sessions: the
\* foreign key makes an insert wait for the lock of find_user_for_update
\* (revoke_all_sessions; identity/repo.rs: "there is no window").
SuspensionLeavesNothing ==
    [][userStatus = "ACTIVE" /\ userStatus' = "SUSPENDED" =>
          \A s \in Session : sess'[s].status # "live"]_vars

\* A suspended account has no live session: suspension revokes them all
\* (ADR-005; revoke_all_sessions).
SuspendedHasNoLiveSession ==
    userStatus = "SUSPENDED" => Live = {}

(***************************************************************************)
(* Why they hold: the invariant that the steps preserve.                   *)
(***************************************************************************)

\* The handler is between lock_refresh_token and its commit.
Refreshing(w)  == tx[w].op \in {"refresh", "reuse"}
HoldsToken(w)  == Refreshing(w) /\ tx[w].pc # "lockToken"
HoldsBoth(w)   == HoldsToken(w) /\ tx[w].pc # "lockSession"

\* What a handler works on is locked, and stays as it was read.
TxOK(w) ==
    /\ tx[w].op = "refresh" =>
          tx[w].pc \in {"lockToken", "lockSession", "rotate", "audit", "commit"}
    /\ tx[w].op = "reuse" =>
          tx[w].pc \in {"family", "familyLock", "audit", "commit"}
    /\ tx[w].pc \in {"lockToken", "lockSession", "rotate"} =>
          tx[w].op = "refresh"
    /\ tx[w].pc \in {"family", "familyLock"} => tx[w].op = "reuse"
    /\ tx[w].pc = "statement" => tx[w].s \in Session
    /\ Refreshing(w) =>
          /\ tx[w].s \in Session /\ rt[tx[w].s][tx[w].g] # "none"
          /\ \A g \in tx[w].gens \cup tx[w].fam : rt[tx[w].s][g] # "none"
    /\ HoldsToken(w) => rtLock[tx[w].s][tx[w].g] = w
    /\ HoldsBoth(w) => sLock[tx[w].s] = w
    /\ HoldsBoth(w) /\ tx[w].op = "refresh" =>
          /\ rt[tx[w].s][tx[w].g] = "live"
          /\ sess[tx[w].s].status = "live"
          /\ tx[w].g < MaxGen
    /\ tx[w].op = "reuse" =>
          /\ sess[tx[w].s].status = "live" => tx[w].s \in tx[w].hit
          /\ tx[w].pc # "family" =>
                \A g \in Gen : rt[tx[w].s][g] = "live" =>
                    g \in tx[w].fam \/ (tx[w].pc = "familyLock" /\ g \in tx[w].gens)
    /\ tx[w].rows \subseteq {s \in Session : sess[s].status # "free"}
    /\ \A s \in tx[w].hit : sLock[s] = w /\ sess[s].status = "live"

TxInv == \A w \in Worker : TxOK(w)

\* What the committed tables always say.
TableInv ==
    /\ \A s \in Session :
          sess[s].status = "free" => \A g \in Gen : rt[s][g] = "none"
    /\ \A s \in Session : \A g, h \in Gen :
          rt[s][g] = "live" /\ h > g => rt[s][h] = "none"
    /\ AccessFollowsRefresh
    /\ ReusedFamilyIsDead

IndInv == TypeOK /\ TxInv /\ TableInv

(***************************************************************************)
(* When the cap holds.  The sessions are counted, the oldest are revoked   *)
(* and the new one is inserted without a lock that another login or a      *)
(* refresh would wait for.                                                 *)
(***************************************************************************)

\* No two logins of the account are under way at once.
LoginsApart ==
    \A v, w \in Worker : tx[v].op = "login" /\ tx[w].op = "login" => v = w

\* No session lapses while its refresh is being committed: the rotation would
\* bring back a session that a login no longer counts.
NoLateRefresh ==
    \A w \in Worker :
        At(w, "commit") /\ tx[w].op = "refresh" => tx[w].s \in LiveAt(clock)

\* What the login of w has made room for: at most MaxPerUser - 1 of the sessions
\* that were live when it counted survive it.
RoomMade(w) ==
    /\ tx[w].pc \in {"begin", "oldest", "evict", "evictAudit", "evictActor",
                     "insert", "audit", "commit"}
    /\ tx[w].pc # "begin" => tx[w].t0 <= clock
    /\ tx[w].pc = "oldest" =>
          Cardinality(LiveAt(tx[w].t0)) < MaxPerUser + tx[w].surplus
    /\ tx[w].pc \in {"evict", "evictAudit", "evictActor"} =>
          Cardinality(LiveAt(tx[w].t0) \ (tx[w].rows \cup tx[w].hit)) < MaxPerUser
    /\ tx[w].pc \in {"insert", "audit", "commit"} =>
          Cardinality(LiveAt(tx[w].t0) \ tx[w].hit) < MaxPerUser

\* The cap, and the room every login at work has made under it.
CapInv ==
    MaxPerUser > 0 =>
        /\ Cardinality(LiveAt(clock)) <= MaxPerUser
        /\ \A w \in Worker : tx[w].op = "login" => RoomMade(w)

(***************************************************************************)
(* What a suspension revokes.                                              *)
(***************************************************************************)

\* No login is under way when a suspension commits.
NoLoginStraddles ==
    \A v, w \in Worker :
        At(w, "commit") /\ tx[w].op = "suspend" => tx[v].op # "login"

\* From the lock of the account to its commit, a suspension has every live session
\* on its list or among those it has locked.
StatusOK(w) ==
    /\ tx[w].op \in {"suspend", "reactivate"} =>
          /\ tx[w].pc \in {"lockUser", "lockAll", "audit", "commit"}
          /\ tx[w].pc # "lockUser" => userLock = w
    /\ tx[w].op = "suspend" /\ tx[w].pc # "lockUser" =>
          /\ Live \subseteq tx[w].rows \cup tx[w].hit
          /\ tx[w].pc # "lockAll" => tx[w].rows = {}

SuspendInv == \A w \in Worker : StatusOK(w)

-----------------------------------------------------------------------------
\* A token can be exchanged while it is unconsumed and its session is live.
Exchangeable(s) ==
    {g \in Gen : rt[s][g] = "live" /\ sess[s].status = "live"}

Family == INSTANCE TokenFamily WITH
    opened       <- {s \in Session : sess[s].status # "free"},
    exchangeable <- [s \in Session |-> Exchangeable(s)]

\* The locked, multi-statement transactions implement the atomic family of
\* ADR-005: one successor per exchange, none after the session has ended.
ImplementsFamily == Family!Spec

=============================================================================
