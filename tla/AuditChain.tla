------------------------------ MODULE AuditChain ------------------------------
(***************************************************************************)
(* The audit log: entries that are appended in the transactions they       *)
(* describe, each sealed over the one before it, and the two ways to       *)
(* verify them (src/backend/src/modules/audit/{mod,chain,repo,service}.rs, *)
(* src/backend/src/cli.rs, platform/database/mod.rs).                      *)
(*                                                                         *)
(* A transaction appends its entries last, under a FOR UPDATE lock on the  *)
(* one row of audit_chain_head, and holds that lock to its end.  Inserting *)
(* an entry also locks the row of the acting user FOR KEY SHARE: the       *)
(* foreign key.  An administrator's transaction holds the row of the user  *)
(* it is about FOR UPDATE, so the two can wait for each other, and it is   *)
(* PostgreSQL that then ends one of them.                                  *)
(*                                                                         *)
(* An entry stands for all its fields: who acted, and the rest; a digest   *)
(* for the bytes it is computed over, which nobody without the key can     *)
(* make.  The layouts of the digest (chain_version) are not told apart.    *)
(* Its behaviours are called LogInit, LogNext and LogSpec, for the proofs  *)
(* about it stand in a module with those about Reading.                    *)
(***************************************************************************)
EXTENDS Naturals, Sequences

CONSTANTS
    Worker, NoWorker,
    User,
    MaxRequests,      \* bounds for TLC: on the transactions,
    MaxChecks,        \* the verifications,
    MaxDamage,        \* and the accidents
    Window            \* the limits a verification is asked for

ASSUME AuditAssumption ==
    /\ NoWorker \notin Worker
    /\ User # {}
    /\ MaxRequests \in Nat /\ MaxChecks \in Nat /\ MaxDamage \in Nat
    /\ Window \subseteq Nat \ {0}

VARIABLES
    rows,       \* audit_events, in the order of seq
    head,       \* audit_chain_head
    headLock, userLock, userShare,
    tx,         \* what each transaction is doing
    check,      \* a verification
    written,    \* history: what has been appended, in the order of the commits
    requests, checks, damages

locks   == <<headLock, userLock, userShare>>
counts  == <<requests, checks, damages>>
logVars    == <<rows, head, locks, tx, check, written, counts>>

NoDigest == <<>>

\* chain.rs, entry_hash of canonical_bytes: the digest covers the digest before
\* it and every field of the entry.
Digest(prev, seq, who) == <<prev, seq, who>>

Entry(prev, seq, who) ==
    [seq |-> seq, who |-> who, prev |-> prev, hash |-> Digest(prev, seq, who)]

\* The digest after the first n entries of s.
DigestAt(s, n) == IF n = 0 THEN NoDigest ELSE s[n].hash

HeadOf(s) == [seq |-> Len(s), hash |-> DigestAt(s, Len(s))]

-----------------------------------------------------------------------------
(* Verification, as a function of what was read.                           *)

\* verify_run: what is wrong with the i-th entry, when none before it is.
Fault(s, i, prev, seq) ==
    LET before == IF i = 1 THEN prev ELSE s[i - 1].hash
    IN  IF s[i].seq # (IF i = 1 THEN seq ELSE s[i - 1].seq + 1)
        THEN "MISSING_SEQUENCE"
        ELSE IF s[i].prev # before THEN "BROKEN_LINK"
        ELSE IF s[i].hash # Digest(before, s[i].seq, s[i].who) THEN "HASH_MISMATCH"
        ELSE "none"

VerifyRun(s, prev, seq) ==
    IF \A i \in DOMAIN s : Fault(s, i, prev, seq) = "none" THEN "INTACT"
    ELSE LET i == CHOOSE i \in DOMAIN s :
                      /\ Fault(s, i, prev, seq) # "none"
                      /\ \A j \in 1..(i - 1) : Fault(s, j, prev, seq) = "none"
         IN  Fault(s, i, prev, seq)

LastSeq(s)  == IF s = <<>> THEN 0 ELSE s[Len(s)].seq

\* Slip: the last entry is not compared with the head.
VerifyRowsAlone(s, h) == VerifyRun(s, NoDigest, IF s = <<>> THEN 1 ELSE s[1].seq)

\* cli.rs, verify_audit: all the entries, then whether the last is the head's.
VerifyAll(s, h) ==
    LET run == VerifyRun(s, NoDigest, IF s = <<>> THEN 1 ELSE s[1].seq)
    IN  IF run = "INTACT" /\ LastSeq(s) # h.seq THEN "HEAD_MISMATCH" ELSE run

\* service.rs, verify: a window of at most limit entries after the entry with
\* the digest prev and the number seq - 1.
VerifyWindow(s, h, prev, seq, limit) ==
    LET run == VerifyRun(s, prev, seq)
    IN  IF run = "INTACT" /\ Len(s) < limit
           /\ \/ LastSeq(s) # h.seq
              \/ s # <<>> /\ s[Len(s)].hash # h.hash
        THEN "HEAD_MISMATCH" ELSE run

-----------------------------------------------------------------------------
(* The transactions.                                                       *)

Free(holder, w) == holder \in {NoWorker, w}
Goto(w, pc)     == tx' = [tx EXCEPT ![w].pc = pc]

AnyUser == CHOOSE u \in User : TRUE

Idle  == [pc |-> "idle", who |-> AnyUser, about |-> AnyUser, more |-> 0,
          saw |-> [seq |-> 0, hash |-> NoDigest], mine |-> <<>>]
Quiet == [pc |-> "idle", by |-> "cli", rows |-> <<>>,
          head |-> [seq |-> 0, hash |-> NoDigest], from |-> 0, limit |-> 0,
          prev |-> NoDigest, seq |-> 1, verdict |-> "none"]

LogInit ==
    /\ rows = <<>>
    /\ head = [seq |-> 0, hash |-> NoDigest]
    /\ headLock = NoWorker
    /\ userLock = [u \in User |-> NoWorker]
    /\ userShare = [u \in User |-> {}]
    /\ tx = [w \in Worker |-> Idle]
    /\ check = Quiet
    /\ written = <<>>
    /\ requests = 0 /\ checks = 0 /\ damages = 0

\* An audited operation, or one on another user, which may leave two entries
\* (change_status, when it revokes sessions).
Begin(w) ==
    /\ tx[w].pc = "idle" /\ requests < MaxRequests
    /\ \E a \in User, s \in User, n \in {1, 2} :
       /\ s = a => n = 1
       /\ tx' = [tx EXCEPT ![w] =
                  [Idle EXCEPT !.pc = IF s = a THEN "head" ELSE "subject",
                               !.who = a, !.about = s, !.more = n]]
    /\ requests' = requests + 1
    /\ UNCHANGED <<rows, head, locks, check, written, checks, damages>>

\* find_user_for_update, load_locked_subject.
LockSubject(w) ==
    /\ tx[w].pc = "subject"
    /\ Free(userLock[tx[w].about], w) /\ userShare[tx[w].about] \subseteq {w}
    /\ userLock' = [userLock EXCEPT ![tx[w].about] = w]
    /\ Goto(w, "head")
    /\ UNCHANGED <<rows, head, headLock, userShare, check, written, counts>>

\* Where the next entry of this transaction goes: its own are not committed yet.
Latest(w) == IF tx[w].mine = <<>> THEN head
             ELSE LET e == tx[w].mine[Len(tx[w].mine)] IN [seq |-> e.seq, hash |-> e.hash]

\* lock_audit_chain.
LockHead(w) ==
    /\ tx[w].pc = "head"
    /\ Free(headLock, w)
    /\ headLock' = w
    /\ tx' = [tx EXCEPT ![w].pc = "insert", ![w].saw = Latest(w)]
    /\ UNCHANGED <<rows, head, userLock, userShare, check, written, counts>>

\* append: the entry, the key-share lock on its actor, and the head.
InsertEntry(w) ==
    /\ tx[w].pc = "insert"
    /\ Free(userLock[tx[w].who], w)
    /\ userShare' = [userShare EXCEPT ![tx[w].who] = @ \cup {w}]
    /\ tx' = [tx EXCEPT
                ![w].mine = Append(@, Entry(tx[w].saw.hash, tx[w].saw.seq + 1, tx[w].who)),
                ![w].more = @ - 1,
                ![w].pc = IF tx[w].more = 1 THEN "commit" ELSE "head"]
    /\ UNCHANGED <<rows, head, headLock, userLock, check, written, counts>>

\* Slip: the lock on the head outlives the transaction.
EndKeepingHead(w) ==
    /\ tx' = [tx EXCEPT ![w] = Idle]
    /\ UNCHANGED headLock
    /\ userLock' = [u \in User |-> IF userLock[u] = w THEN NoWorker ELSE userLock[u]]
    /\ userShare' = [u \in User |-> userShare[u] \ {w}]

\* Commit and rollback both end the transaction and release its locks.
End(w) ==
    /\ tx' = [tx EXCEPT ![w] = Idle]
    /\ headLock' = IF headLock = w THEN NoWorker ELSE headLock
    /\ userLock' = [u \in User |-> IF userLock[u] = w THEN NoWorker ELSE userLock[u]]
    /\ userShare' = [u \in User |-> userShare[u] \ {w}]

Commit(w) ==
    /\ tx[w].pc = "commit"
    /\ rows' = rows \o tx[w].mine
    /\ written' = written \o tx[w].mine
    /\ head' = Latest(w)
    /\ End(w)
    /\ UNCHANGED <<check, counts>>

\* An error, a timeout, a lost connection: nothing of the transaction remains.
Rollback(w) ==
    /\ tx[w].pc # "idle"
    /\ End(w)
    /\ UNCHANGED <<rows, head, check, written, counts>>

\* Whom w waits for.
Blockers(w) ==
    (CASE tx[w].pc = "subject" -> {userLock[tx[w].about]} \cup userShare[tx[w].about]
       [] tx[w].pc = "head"    -> {headLock}
       [] tx[w].pc = "insert"  -> {userLock[tx[w].who]}
       [] OTHER                -> {}) \ {NoWorker, w}

Waiting(S) == \A w \in S : Blockers(w) \cap S # {}
Ring(S)    == S # {} /\ Waiting(S) /\ \A T \in SUBSET S \ {{}, S} : ~Waiting(T)

\* PostgreSQL finds transactions that wait for each other and ends one.
BreakDeadlock ==
    \E S \in SUBSET Worker : Ring(S) /\ \E w \in S : Rollback(w)

-----------------------------------------------------------------------------
(* Verification, beside the transactions.                                  *)

\* The statements of a verification are not one transaction.  The command
\* reads the entries and then the head; the endpoint the head, the entry before
\* the window and then the window, by default the last one.
StartCheck ==
    /\ check.pc = "idle" /\ checks < MaxChecks
    /\ checks' = checks + 1
    /\ \/ check' = [Quiet EXCEPT !.pc = "rows"]
       \/ \E n \in Window, f \in 0..(Len(written) + 1) :
          check' = [Quiet EXCEPT !.pc = "head", !.by = "api", !.limit = n, !.from = f]
    /\ UNCHANGED <<rows, head, locks, tx, written, requests, damages>>

Past(a, b) == IF a > b THEN a - b ELSE 0

\* resolve_verify_window: 0 where no first entry is asked for.
FirstOf(from, limit, seq) ==
    IF from # 0 THEN from
    ELSE IF Past(seq, limit) > 0 THEN Past(seq, limit) + 1 ELSE 1

CheckHead ==
    /\ check.pc = "head"
    /\ check' =
         IF check.by = "cli"
         THEN [check EXCEPT !.pc = "done", !.head = head,
                            !.verdict = VerifyAll(check.rows, head)]
         ELSE [check EXCEPT !.pc = "before", !.head = head,
                            !.from = FirstOf(@, check.limit, head.seq)]
    /\ UNCHANGED <<rows, head, locks, tx, written, counts>>

\* Slip: a window is verified as a whole chain is.
CheckWithoutAnchor ==
    /\ check.pc = "before"
    /\ check' = [check EXCEPT !.pc = "rows", !.prev = NoDigest, !.seq = check.from]
    /\ UNCHANGED <<rows, head, locks, tx, written, counts>>

\* The first n entries are those before number from: rows is in the order of seq.
Precede(n, from) == \A i \in DOMAIN rows : rows[i].seq < from <=> i <= n

\* predecessor: the entry that anchors the window.
CheckBefore ==
    /\ check.pc = "before"
    /\ \E n \in 0..Len(rows) :
          /\ Precede(n, check.from)
          /\ check' = [check EXCEPT !.pc = "rows", !.prev = DigestAt(rows, n),
                                   !.seq = IF n = 0 THEN 1 ELSE rows[n].seq + 1]
    /\ UNCHANGED <<rows, head, locks, tx, written, counts>>

\* chain_run: ORDER BY seq LIMIT limit, of what comes after the first n.
ChainRun(n, limit) == SubSeq(rows, n + 1, IF Len(rows) < n + limit THEN Len(rows) ELSE n + limit)

CheckAll == check' = [check EXCEPT !.pc = "head", !.rows = rows]

CheckSome ==
    \E n \in 0..Len(rows) :
       LET run == ChainRun(n, check.limit)
       IN  /\ Precede(n, check.from)
           /\ check' = [check EXCEPT !.pc = "done", !.rows = run,
                                    !.verdict = VerifyWindow(run, check.head, check.prev,
                                                             check.seq, check.limit)]

CheckRows ==
    /\ check.pc = "rows"
    /\ IF check.by = "cli" THEN CheckAll ELSE CheckSome
    /\ UNCHANGED <<rows, head, locks, tx, written, counts>>

EndCheck ==
    /\ check.pc = "done"
    /\ check' = Quiet
    /\ UNCHANGED <<rows, head, locks, tx, written, counts>>

-----------------------------------------------------------------------------
(* What happens to the table behind the program's back: somebody with the  *)
(* database but without the key.                                           *)

\* Some entries go; those that stay keep their order.
Lose ==
    \E n \in 0..Len(rows) : \E stays \in [1..n -> DOMAIN rows] :
       /\ \A i, j \in 1..n : i < j => stays[i] < stays[j]
       /\ rows' = [i \in 1..n |-> rows[stays[i]]]

Alter == \E i \in DOMAIN rows, u \in User : rows' = [rows EXCEPT ![i].who = u]

\* Two entries change places, and keep the numbers in order.
Exchange ==
    \E i, j \in DOMAIN rows :
       rows' = [rows EXCEPT ![i] = [rows[j] EXCEPT !.seq = rows[i].seq],
                            ![j] = [rows[i] EXCEPT !.seq = rows[j].seq]]

Damage ==
    /\ damages < MaxDamage
    /\ Lose \/ Alter \/ Exchange
    /\ rows' # rows
    /\ damages' = damages + 1
    /\ UNCHANGED <<head, locks, tx, check, written, requests, checks>>

Handler(w) == LockSubject(w) \/ LockHead(w) \/ InsertEntry(w) \/ Commit(w)

Verification == StartCheck \/ CheckHead \/ CheckBefore \/ CheckRows \/ EndCheck

LogNext ==
    \/ \E w \in Worker : Begin(w) \/ Handler(w) \/ Rollback(w)
    \/ BreakDeadlock
    \/ Verification
    \/ Damage

LogSpec == LogInit /\ [][LogNext]_logVars

\* A transaction that can go on does, and the database looks for deadlocks.
LogFairSpec ==
    /\ LogSpec
    /\ \A w \in Worker : WF_logVars(Handler(w))
    /\ WF_logVars(BreakDeadlock)

-----------------------------------------------------------------------------
(* Properties.                                                             *)

\* What is found intact is what was written: the whole log up to the head for
\* the command, and for the endpoint the entries from the one asked for,
\* although entries were lost (from the end, too), altered or exchanged, before
\* or while they were read (verify_audit, verify, chain_head).
IntactMeansWhole ==
    check.verdict = "INTACT" =>
        check.rows = IF check.by = "cli" THEN SubSeq(written, 1, check.head.seq)
                     ELSE SubSeq(written, check.from, check.from + Len(check.rows) - 1)

\* While nobody has touched the table no verification finds an entry missing,
\* out of place or altered, whatever was appended between its statements: the
\* number and the link of an entry follow the order of the commits
\* (lock_audit_chain).  A window that begins beyond the end is another matter:
\* what arrives between the two statements lets it begin inside.
AlarmsAreReal ==
    check.verdict \in {"MISSING_SEQUENCE", "BROKEN_LINK", "HASH_MISMATCH"} =>
        damages > 0 \/ (check.by = "api" /\ check.from > check.head.seq + 1)

\* What the operations manual makes of a verification that fails: tampering or
\* corruption.  A verification beside an append fails as well, for the head and
\* the entries are read by two statements.
NoFalseAlarm ==
    check.verdict \notin {"none", "INTACT"} => damages > 0

\* Every transaction ends, although two that wait for each other may have to be
\* ended by the database: who administers A waits for the entry of A to be
\* committed, who acts as A for the head (append, find_user_for_update).
EveryRequestEnds == \A w \in Worker : tx[w].pc # "idle" ~> tx[w].pc = "idle"

(***************************************************************************)
(* Why the two hold: the invariant that the steps preserve.                *)
(***************************************************************************)

IsList(s) == s \in Seq({s[i] : i \in DOMAIN s})

\* The entries s follow the digest prev and the number n: each is numbered and
\* sealed after the one before it.
Linked(s, prev, n) ==
    \A i \in DOMAIN s :
       /\ s[i].who \in User
       /\ s[i] = Entry(IF i = 1 THEN prev ELSE s[i - 1].hash, n + i, s[i].who)

\* Whatever became of the entries s, their digests were made by append.
Sealed(s) ==
    \A i \in DOMAIN s :
       /\ s[i] = [seq |-> s[i].seq, who |-> s[i].who, prev |-> s[i].prev, hash |-> s[i].hash]
       /\ s[i].seq \in Nat /\ s[i].who \in User
       /\ \E k \in DOMAIN written : s[i].hash = written[k].hash

\* The log, and what is left of it in the table.
LogOK ==
    /\ IsList(written) /\ Linked(written, NoDigest, 0)
    /\ head = HeadOf(written)
    /\ IsList(rows) /\ Sealed(rows)
    /\ damages = 0 => rows = written

\* A transaction that has entries, or is about to make one, holds the head, and
\* its entries follow it.
TxOK(w) ==
    /\ DOMAIN tx[w] = DOMAIN Idle
    /\ tx[w].pc \in {"idle", "subject", "head", "insert", "commit"}
    /\ tx[w].who \in User /\ tx[w].about \in User /\ tx[w].more \in 0..2
    /\ tx[w].pc \in {"subject", "head", "insert"} => tx[w].more >= 1
    /\ IsList(tx[w].mine) /\ Linked(tx[w].mine, head.hash, head.seq)
    /\ tx[w].pc \in {"insert", "commit"} \/ tx[w].mine # <<>> => headLock = w
    /\ tx[w].pc = "insert" => tx[w].saw = Latest(w)

\* What a verification has read so far.
CheckOK ==
    /\ DOMAIN check = DOMAIN Quiet
    /\ check.pc \in {"idle", "rows", "head", "before", "done"}
    /\ check.by \in {"cli", "api"}
    /\ check.pc # "done" => check.verdict = "none"
    /\ check.by = "cli" => check.pc # "before"
    /\ check.by = "cli" /\ check.pc = "head" =>
          /\ IsList(check.rows) /\ Sealed(check.rows)
          /\ damages = 0 => Linked(check.rows, NoDigest, 0)
    /\ check.by = "api" =>
          /\ check.pc # "idle"
          /\ check.limit \in Nat \ {0} /\ check.from \in Nat
          /\ check.pc \in {"before", "rows"} =>
                check.from >= 1 /\ check.head.seq \in 0..Len(written)
          /\ check.pc = "rows" =>
                /\ check.seq \in 1..check.from
                /\ damages = 0 /\ check.from <= check.head.seq + 1 =>
                      /\ check.prev = DigestAt(written, check.from - 1)
                      /\ check.seq = check.from

\* The entries found intact are in the log.
IntactIsWritten ==
    check.verdict = "INTACT" =>
        /\ IsList(check.rows)
        /\ check.by = "cli" => check.head.seq \in 0..Len(written)
        /\ check.by = "api" =>
              /\ check.from >= 1
              /\ check.rows = <<>> \/ check.from + Len(check.rows) - 1 <= Len(written)

ChainTypes ==
    /\ headLock \in Worker \cup {NoWorker}
    /\ userLock \in [User -> Worker \cup {NoWorker}]
    /\ userShare \in [User -> SUBSET Worker]
    /\ tx = [w \in Worker |-> tx[w]]
    /\ requests \in 0..MaxRequests /\ checks \in 0..MaxChecks /\ damages \in 0..MaxDamage

ChainIndInv ==
    /\ ChainTypes
    /\ LogOK
    /\ \A w \in Worker : TxOK(w)
    /\ CheckOK
    /\ IntactMeansWhole /\ AlarmsAreReal /\ IntactIsWritten

=============================================================================
