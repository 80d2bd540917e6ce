------------------------------ MODULE Credentials ------------------------------
(***************************************************************************)
(* The password of ONE account: login against it, its change by a signed-in *)
(* user, and its reset through a mailed link (login, change_password,      *)
(* request_password_reset and confirm_password_reset of                    *)
(* src/backend/src/modules/authentication/service.rs, with their           *)
(* statements in authentication/repo.rs).                                  *)
(*                                                                         *)
(* The password is read and verified on the pool BEFORE the transaction of *)
(* a login or of a change opens; each transaction is modelled one blocking *)
(* statement at a time at READ COMMITTED, as in Sessions, and may end      *)
(* without committing at any point.                                        *)
(*                                                                         *)
(* Abstracted: a password is the number of its change.  The expiry of a    *)
(* link, the account's status, rate limits, the password policy and the    *)
(* locks of the audit entry only refuse or delay what the model lets       *)
(* through.  The other ways a session ends, the cap and refresh are in     *)
(* Sessions; the mail is in Outbox.                                        *)
(***************************************************************************)
EXTENDS Naturals, FiniteSets

CONSTANTS
    Worker,       \* request handlers
    Session,      \* the identifiers sessions get
    Link,         \* the identifiers reset tokens get
    NoWorker, NoSession, NoLink,
    MaxChanges,   \* bound on the password's changes, for TLC
    Serves        \* the operations each handler is sent in this instance

ASSUME CredentialsAssumption ==
    /\ NoWorker \notin Worker
    /\ NoSession \notin Session
    /\ NoLink \notin Link
    /\ MaxChanges \in Nat

VARIABLES
    password,   \* credentials.password_hash
    pwLock,     \* holder of the lock of the credentials row
    sess,       \* the sessions table
    link,       \* password_reset_tokens
    linkLock,   \* holder of the row lock of a reset token
    resets,     \* history: how often each link has reset the password
    tx          \* what each handler is doing

tables == <<password, sess, link, resets>>
locks  == <<pwLock, linkLock>>
vars   == <<tables, locks, tx>>

Operation == {"login", "change", "request", "confirm"}

Version == 0..MaxChanges

\* pw is the password the holder of the session last proved or set; late is
\* history: it was inserted after a change had already revoked.
SessionRow == [status : {"free", "live", "revoked"}, pw : Version, late : BOOLEAN]

\* seen is history: the links that were issued when this one was requested.
LinkRow == [status : {"none", "live", "consumed"}, seen : SUBSET Link]

Transaction ==
    [op   : Operation \cup {"idle"},
     pc   : {"none", "insert", "update", "revoke", "consume", "issue", "lock",
             "commit"},
     s    : Session \cup {NoSession},   \* the session of a change
     l    : Link \cup {NoLink},         \* the link presented to a reset
     ver  : Version,                    \* the password that was verified
     rows : SUBSET Link,                \* links consume_live still has to lock
     hit  : SUBSET Link,                \* links it consumes on commit
     seen : SUBSET Link,
     out  : SUBSET Session]             \* sessions revoked on commit

IdleTx == [op |-> "idle", pc |-> "none", s |-> NoSession, l |-> NoLink,
           ver |-> 0, rows |-> {}, hit |-> {}, seen |-> {}, out |-> {}]

TypeOK ==
    /\ password \in Version
    /\ pwLock \in Worker \cup {NoWorker}
    /\ sess \in [Session -> SessionRow]
    /\ link \in [Link -> LinkRow]
    /\ linkLock \in [Link -> Worker \cup {NoWorker}]
    /\ resets \in [Link -> Nat]
    /\ tx \in [Worker -> Transaction]

Init ==
    /\ password = 0
    /\ pwLock = NoWorker
    /\ sess = [s \in Session |-> [status |-> "free", pw |-> 0, late |-> FALSE]]
    /\ link = [l \in Link |-> [status |-> "none", seen |-> {}]]
    /\ linkLock = [l \in Link |-> NoWorker]
    /\ resets = [l \in Link |-> 0]
    /\ tx = [w \in Worker |-> IdleTx]

-----------------------------------------------------------------------------
Live   == {s \in Session : sess[s].status = "live"}
Usable == {l \in Link : link[l].status = "live"}
Issued == {l \in Link : link[l].status # "none"}

At(w, op, pc) == tx[w].op = op /\ tx[w].pc = pc
Goto(w, pc)   == tx' = [tx EXCEPT ![w].pc = pc]

Start(w, op, pc, s, l) ==
    /\ tx[w].op = "idle"
    /\ op \in Serves[w]
    /\ tx' = [tx EXCEPT ![w] = [IdleTx EXCEPT !.op = op, !.pc = pc, !.s = s,
                                              !.l = l, !.ver = password]]

Free(holder, w) == holder \in {NoWorker, w}

\* Slip: the row is read without FOR UPDATE.
LockLinkReads(w, l) == UNCHANGED linkLock

LockLink(w, l) ==
    /\ Free(linkLock[l], w)
    /\ linkLock' = [linkLock EXCEPT ![l] = w]

\* Commit and rollback both end the transaction and release its locks.
End(w) ==
    /\ tx' = [tx EXCEPT ![w] = IdleTx]
    /\ pwLock' = IF pwLock = w THEN NoWorker ELSE pwLock
    /\ linkLock' = [l \in Link |->
                      IF linkLock[l] = w THEN NoWorker ELSE linkLock[l]]

\* A change or a reset that has revoked what it saw and not yet committed.
Revoked(v) == tx[v].op \in {"change", "confirm"} /\ tx[v].pc = "commit"

-----------------------------------------------------------------------------
(* login.                                                                  *)

\* find_login_candidate and verify, on the pool.
LoginVerify(w) ==
    /\ Start(w, "login", "insert", NoSession, NoLink)
    /\ UNCHANGED <<tables, locks>>

\* issue_session: one transaction that does not look at the password again.
LoginCommit(w) ==
    /\ At(w, "login", "insert")
    /\ \E s \in Session :
         /\ sess[s].status = "free"
         /\ sess' = [sess EXCEPT ![s] =
                       [status |-> "live", pw |-> tx[w].ver,
                        late |-> \/ password # tx[w].ver
                                 \/ \E v \in Worker : Revoked(v)]]
    /\ End(w)
    /\ UNCHANGED <<password, link, resets>>

-----------------------------------------------------------------------------
(* change_password and confirm_password_reset.                             *)

\* The principal of a live session; the current password is verified and the
\* new one hashed on the pool.
ChangeVerify(w) ==
    /\ \E s \in Live : Start(w, "change", "update", s, NoLink)
    /\ UNCHANGED <<tables, locks>>

\* Any link that was ever mailed may be presented.
ConfirmBegin(w) ==
    /\ \E l \in Issued : Start(w, "confirm", "lock", NoSession, l)
    /\ UNCHANGED <<tables, locks>>

\* lock_reset_token, FOR UPDATE: the row is re-read once it is locked, and
\* consume_reset_token is therefore never refused.
ConfirmLock(w) ==
    /\ At(w, "confirm", "lock")
    /\ tx[w].l \in Usable
    /\ LockLink(w, tx[w].l)
    /\ Goto(w, "update")
    /\ UNCHANGED <<tables, pwLock>>

ConfirmRefused(w) ==
    /\ At(w, "confirm", "lock")
    /\ Free(linkLock[tx[w].l], w)
    /\ tx[w].l \notin Usable
    /\ End(w)
    /\ UNCHANGED tables

\* update_password: whatever the row says by now.
Update(w) ==
    /\ tx[w].pc = "update"
    /\ password < MaxChanges
    /\ Free(pwLock, w)
    /\ pwLock' = w
    /\ Goto(w, "revoke")
    /\ UNCHANGED <<tables, linkLock>>

\* Slip: a change revokes nothing.
SparedByChange(w) == IF tx[w].op = "change" THEN Live ELSE {}

\* A change spares the session it was made from, a reset none.
Spared(w) == {tx[w].s} \ {NoSession}

\* revoke_user_sessions: the sessions that are committed when it starts.
Revoke(w) ==
    /\ tx[w].pc = "revoke"
    /\ tx' = [tx EXCEPT ![w].out = Live \ Spared(w), ![w].pc = "commit"]
    /\ UNCHANGED <<tables, locks>>

\* The new password is in force and what it supersedes is out.
Supersede(w) ==
    /\ password' = password + 1
    /\ sess' = [s \in Session |->
                  IF s \in tx[w].out THEN [sess[s] EXCEPT !.status = "revoked"]
                  ELSE IF s = tx[w].s THEN [sess[s] EXCEPT !.pw = password + 1]
                  ELSE sess[s]]

ChangeCommit(w) ==
    /\ At(w, "change", "commit")
    /\ Supersede(w)
    /\ End(w)
    /\ UNCHANGED <<link, resets>>

\* Slip: the link is not consumed.
ConfirmCommitKeepsLink(w) ==
    /\ At(w, "confirm", "commit")
    /\ Supersede(w)
    /\ resets' = [resets EXCEPT ![tx[w].l] = @ + 1]
    /\ End(w)
    /\ UNCHANGED link

\* consume_reset_token: the link is locked and unconsumed.
ConsumeLink(l) == link' = [link EXCEPT ![l].status = "consumed"]

ConfirmCommit(w) ==
    /\ At(w, "confirm", "commit")
    /\ Supersede(w)
    /\ ConsumeLink(tx[w].l)
    /\ resets' = [resets EXCEPT ![tx[w].l] = @ + 1]
    /\ End(w)

-----------------------------------------------------------------------------
(* request_password_reset.                                                 *)

RequestBegin(w) ==
    /\ Start(w, "request", "consume", NoSession, NoLink)
    /\ UNCHANGED <<tables, locks>>

\* Slip: nothing outstanding is consumed.
ToConsumeNothing == {}

\* consume_live_reset_tokens: the unconsumed links when it starts ...
ToConsume == Usable

RequestConsume(w) ==
    /\ At(w, "request", "consume")
    /\ tx' = [tx EXCEPT ![w].rows = ToConsume, ![w].seen = Issued,
                        ![w].pc = "issue"]
    /\ UNCHANGED <<tables, locks>>

\* ... locked one by one, those that somebody else consumed skipped.
RequestLock(w) ==
    /\ At(w, "request", "issue")
    /\ \E l \in tx[w].rows :
         \/ /\ l \in Usable
            /\ LockLink(w, l)
            /\ tx' = [tx EXCEPT ![w].rows = @ \ {l}, ![w].hit = @ \cup {l}]
         \/ /\ l \notin Usable
            /\ tx' = [tx EXCEPT ![w].rows = @ \ {l}]
            /\ UNCHANGED linkLock
    /\ UNCHANGED <<tables, pwLock>>

\* insert_reset_token, with what consume_live_reset_tokens left.
InsertLink(w, n) ==
    link' = [l \in Link |->
               IF l = n THEN [status |-> "live", seen |-> tx[w].seen]
               ELSE IF l \in tx[w].hit THEN [link[l] EXCEPT !.status = "consumed"]
               ELSE link[l]]

\* The mail goes to the outbox in the same transaction.
RequestCommit(w) ==
    /\ At(w, "request", "issue")
    /\ tx[w].rows = {}
    /\ \E n \in Link \ Issued : InsertLink(w, n)
    /\ End(w)
    /\ UNCHANGED <<password, sess, resets>>

-----------------------------------------------------------------------------
\* A handler that ends without committing, whatever it was doing.
Abort(w) == tx[w].op # "idle" /\ End(w) /\ UNCHANGED tables

Step(w) ==
    \/ LoginVerify(w) \/ LoginCommit(w)
    \/ ChangeVerify(w) \/ ConfirmBegin(w) \/ ConfirmLock(w) \/ ConfirmRefused(w)
    \/ Update(w) \/ Revoke(w) \/ ChangeCommit(w) \/ ConfirmCommit(w)
    \/ RequestBegin(w) \/ RequestConsume(w) \/ RequestLock(w) \/ RequestCommit(w)
    \/ Abort(w)

Next == \E w \in Worker : Step(w)

Spec == Init /\ [][Next]_vars

-----------------------------------------------------------------------------
(* Properties.                                                             *)

\* A mailed link resets the password at most once, however many confirmations
\* present it at the same time (confirm_password_reset: "two concurrent
\* confirmations cannot both succeed").
LinkWorksOnce == \A l \in Link : resets[l] <= 1

\* A link kills every link that had been issued when it was requested: only
\* requests that overlap can leave two in the mailbox (request_password_reset:
\* "One live link at a time").
NewLinkKillsOlder ==
    \A l, k \in Usable : l # k => l \notin link[k].seen /\ k \notin link[l].seen

\* A live session stems from the password in force, unless its login overlapped
\* the change: no change and no reset leaves behind a session it could see
\* (revoke_user_sessions, in the transaction of update_password).
SupersededSessionsAreOut ==
    \A s \in Live : sess[s].pw # password => sess[s].late

\* After a reset no session of the superseded password lives
\* (tests/race/password_reset.rs: "a session survived a password reset").
NoSupersededSession == \A s \in Live : sess[s].pw = password

-----------------------------------------------------------------------------
(***************************************************************************)
(* Why they hold: the invariant that the steps preserve.                   *)
(***************************************************************************)

Changing(w) == tx[w].op \in {"change", "confirm"}

\* What a handler works on is locked, and stays as it was read.
TxOK(w) ==
    /\ tx[w].op = "confirm" => tx[w].l \in Issued
    /\ tx[w].op = "confirm" /\ tx[w].pc # "lock" =>
          tx[w].l \in Usable /\ linkLock[tx[w].l] = w
    /\ tx[w].pc \in {"revoke", "commit"} =>
          Changing(w) /\ pwLock = w /\ password < MaxChanges
    /\ Revoked(w) =>
          \A s \in Live : s \in tx[w].out \/ s = tx[w].s \/ sess[s].late
    /\ \A l \in tx[w].hit : l \in Usable /\ linkLock[l] = w
    /\ tx[w].seen \subseteq Issued
    /\ tx[w].op = "request" /\ tx[w].pc = "issue" =>
          \A l \in tx[w].seen : l \in Usable => l \in tx[w].rows \cup tx[w].hit
    /\ tx[w].pc = "update" => Changing(w)

TxInv == \A w \in Worker : TxOK(w)

\* What the committed tables always say.
TableInv ==
    /\ \A l \in Usable : resets[l] = 0
    /\ \A l \in Link : link[l].status = "none" => resets[l] = 0
    /\ \A l \in Link : link[l].seen \subseteq Issued
    /\ LinkWorksOnce
    /\ NewLinkKillsOlder
    /\ SupersededSessionsAreOut

IndInv == TypeOK /\ TxInv /\ TableInv
=============================================================================
