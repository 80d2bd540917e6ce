-------------------------- MODULE Credentials_proofs --------------------------
(***************************************************************************)
(* Proofs about Credentials, for any number of handlers, sessions, links   *)
(* and changes of the password.                                            *)
(***************************************************************************)
EXTENDS Credentials, TLAPS

USE CredentialsAssumption

LEMMA IdleTxTyped == IdleTx \in Transaction
  BY DEF IdleTx, Transaction, Operation, Version

LEMMA InitInv == Init => IndInv
  <1> SUFFICES ASSUME Init PROVE IndInv
    OBVIOUS
  <1>1. TypeOK
    BY IdleTxTyped DEF Init, TypeOK, SessionRow, LinkRow, Version
  <1>2. TxInv
    BY DEF Init, TxInv, TxOK, IdleTx, Revoked
  <1>3. TableInv
    BY DEF Init, TableInv, Usable, Issued, Live, LinkWorksOnce,
           NewLinkKillsOlder, SupersededSessionsAreOut
  <1>. QED
    BY <1>1, <1>2, <1>3 DEF IndInv

-----------------------------------------------------------------------------
\* What a step of w may change without disturbing v: nothing v has locked, and
\* no session that v's revocation should have seen.
Undisturbed(v) ==
    /\ tx'[v] = tx[v]
    /\ \A l \in Issued : linkLock[l] = v => linkLock'[l] = v /\ link'[l] = link[l]
    /\ pwLock = v => pwLock' = v /\ password' = password
    /\ Issued \subseteq Issued'
    /\ Usable' \cap Issued \subseteq Usable
    /\ \A s \in Session : sess'[s].status = "live" =>
          \/ sess[s].status = "live" /\ sess'[s].late = sess[s].late
          \/ Revoked(v) => sess'[s].late

LEMMA OthersKeepInv ==
    ASSUME IndInv, NEW v \in Worker, Undisturbed(v)
    PROVE  TxOK(v)'
  <1> DEFINE x == tx[v]
  <1>1. x \in Transaction /\ tx'[v] = x /\ TxOK(v)
    BY DEF IndInv, TypeOK, TxInv, Undisturbed
  <1>2. x.op = "confirm" => x.l \in Issued'
    BY <1>1 DEF TxOK, Undisturbed
  <1>3. x.op = "confirm" /\ x.pc # "lock" => x.l \in Usable' /\ linkLock'[x.l] = v
    BY <1>1 DEF TxOK, Undisturbed, Usable, Issued
  <1>4. x.pc \in {"revoke", "commit"} =>
          x.op \in {"change", "confirm"} /\ pwLock' = v /\ password' < MaxChanges
    BY <1>1 DEF TxOK, Undisturbed, Changing
  <1>5. Revoked(v) =>
          \A s \in Live' : s \in x.out \/ s = x.s \/ sess'[s].late
    BY <1>1 DEF TxOK, Undisturbed, Live
  <1>6. \A l \in x.hit : l \in Usable' /\ linkLock'[l] = v
    BY <1>1 DEF TxOK, Undisturbed, Usable, Issued
  <1>7. x.seen \subseteq Issued'
    BY <1>1 DEF TxOK, Undisturbed
  <1>8. x.op = "request" /\ x.pc = "issue" =>
          \A l \in x.seen : l \in Usable' => l \in x.rows \cup x.hit
    BY <1>1 DEF TxOK, Undisturbed
  <1> HIDE DEF x
  <1>. QED
    BY <1>1, <1>2, <1>3, <1>4, <1>5, <1>6, <1>7, <1>8
       DEF x, TxOK, Changing, Revoked

-----------------------------------------------------------------------------
(* A statement of w takes locks that nobody holds and leaves the tables      *)
(* alone.                                                                    *)

Acquires(w) ==
    /\ UNCHANGED tables
    /\ pwLock' \in Worker \cup {NoWorker}
    /\ linkLock' \in [Link -> Worker \cup {NoWorker}]
    /\ pwLock # NoWorker => pwLock' = pwLock
    /\ \A l \in Link : linkLock[l] # NoWorker => linkLock'[l] = linkLock[l]

LEMMA StatementStep ==
    ASSUME IndInv, NEW w \in Worker, NEW r \in Transaction,
           tx' = [tx EXCEPT ![w] = r], Acquires(w), TxOK(w)'
    PROVE  IndInv'
  <1>1. TypeOK'
    BY DEF IndInv, TypeOK, Acquires, tables
  <1>2. ASSUME NEW v \in Worker, v # w
        PROVE  Undisturbed(v)
    BY <1>2 DEF Undisturbed, Acquires, tables, IndInv, TypeOK, Issued, Usable
  <1>3. TxInv'
    BY <1>2, OthersKeepInv DEF TxInv
  <1>4. TableInv'
    BY DEF Acquires, tables, IndInv, TableInv, Usable, Issued, Live,
           LinkWorksOnce, NewLinkKillsOlder, SupersededSessionsAreOut
  <1>. QED
    BY <1>1, <1>3, <1>4 DEF IndInv

\* A step that takes no lock.
LEMMA NoLockTaken ==
    ASSUME IndInv, NEW w \in Worker, UNCHANGED <<tables, locks>>
    PROVE  Acquires(w)
  BY DEF Acquires, locks, IndInv, TypeOK

LEMMA LinkLocked ==
    ASSUME IndInv, NEW w \in Worker, NEW l \in Link, LockLink(w, l),
           UNCHANGED <<tables, pwLock>>
    PROVE  Acquires(w) /\ linkLock'[l] = w
           /\ \A k \in Link : linkLock[k] = w => linkLock'[k] = w
  BY DEF LockLink, Free, Acquires, IndInv, TypeOK

\* The transaction a request starts with.
LEMMA StartStep ==
    ASSUME IndInv, NEW w \in Worker, NEW op \in Operation,
           NEW pc \in {"insert", "update", "consume", "lock"},
           NEW s \in Session \cup {NoSession}, NEW l \in Link \cup {NoLink},
           Start(w, op, pc, s, l), UNCHANGED <<tables, locks>>,
           op = "confirm" => l \in Issued /\ pc = "lock",
           pc = "update" => op = "change"
    PROVE  IndInv'
  <1> DEFINE r == [IdleTx EXCEPT !.op = op, !.pc = pc, !.s = s, !.l = l,
                                 !.ver = password]
  <1>1. r \in Transaction
    BY IdleTxTyped DEF Transaction, IndInv, TypeOK
  <1>2. /\ r.op = op /\ r.pc = pc /\ r.l = l
        /\ r.hit = {} /\ r.seen = {} /\ r.rows = {}
    BY DEF IdleTx
  <1>3. tx' = [tx EXCEPT ![w] = r]
    BY DEF Start
  <1> HIDE DEF r
  <1>4. tx'[w] = r
    BY <1>3 DEF IndInv, TypeOK
  <1>5. Issued' = Issued
    BY DEF Issued, tables
  <1>6. TxOK(w)'
    BY <1>2, <1>4, <1>5 DEF TxOK, Changing, Revoked
  <1>. QED
    BY <1>1, <1>3, <1>6, NoLockTaken, StatementStep

LEMMA RequestStep ==
    ASSUME IndInv, NEW w \in Worker,
           \/ LoginVerify(w) \/ ChangeVerify(w)
           \/ ConfirmBegin(w) \/ RequestBegin(w)
    PROVE  IndInv'
  <1>1. CASE LoginVerify(w)
    BY <1>1, StartStep DEF LoginVerify, Operation
  <1>2. CASE ChangeVerify(w)
    <2>1. PICK s \in Live : Start(w, "change", "update", s, NoLink)
      BY <1>2 DEF ChangeVerify
    <2>. QED
      BY <1>2, <2>1, StartStep DEF ChangeVerify, Operation, Live
  <1>3. CASE ConfirmBegin(w)
    <2>1. PICK l \in Issued : Start(w, "confirm", "lock", NoSession, l)
      BY <1>3 DEF ConfirmBegin
    <2>. QED
      BY <1>3, <2>1, StartStep DEF ConfirmBegin, Operation, Issued
  <1>4. CASE RequestBegin(w)
    BY <1>4, StartStep DEF RequestBegin, Operation
  <1>. QED
    BY <1>1, <1>2, <1>3, <1>4

\* The tables read the same after a step that leaves them alone.
LEMMA SameTables ==
    ASSUME UNCHANGED tables
    PROVE  /\ Live' = Live /\ Usable' = Usable /\ Issued' = Issued
           /\ sess' = sess /\ link' = link /\ password' = password
  BY DEF tables, Live, Usable, Issued

LEMMA ChangeStep ==
    ASSUME IndInv, NEW w \in Worker,
           ConfirmLock(w) \/ Update(w) \/ Revoke(w)
    PROVE  IndInv'
  <1>1. tx[w] \in Transaction /\ TxOK(w)
    BY DEF IndInv, TypeOK, TxInv
  <1>2. CASE ConfirmLock(w)
    <2> DEFINE r == [tx[w] EXCEPT !.pc = "update"]
               l == tx[w].l
    <2>1. r \in Transaction /\ tx' = [tx EXCEPT ![w] = r] /\ tx'[w] = r
      BY <1>1, <1>2 DEF ConfirmLock, Goto, Transaction, IndInv, TypeOK
    <2>2. /\ r.op = "confirm" /\ r.pc = "update" /\ r.l = l /\ r.hit = tx[w].hit
          /\ r.seen = tx[w].seen
      BY <1>1, <1>2 DEF ConfirmLock, At, Transaction
    <2>3. l \in Link /\ l \in Usable /\ l \in Issued
      BY <1>2 DEF ConfirmLock, Usable, Issued
    <2> HIDE DEF r, l
    <2>4. Acquires(w) /\ linkLock'[l] = w
          /\ \A k \in Link : linkLock[k] = w => linkLock'[k] = w
      BY <1>2, <2>3, LinkLocked DEF ConfirmLock, l
    <2>5. TxOK(w)'
      BY <1>1, <1>2, <2>1, <2>2, <2>3, <2>4, SameTables
         DEF ConfirmLock, TxOK, Changing, Revoked, Usable
    <2>. QED
      BY <2>1, <2>4, <2>5, StatementStep
  <1>3. CASE Update(w)
    <2> DEFINE r == [tx[w] EXCEPT !.pc = "revoke"]
    <2>1. r \in Transaction /\ tx' = [tx EXCEPT ![w] = r] /\ tx'[w] = r
      BY <1>1, <1>3 DEF Update, Goto, Transaction, IndInv, TypeOK
    <2>2. /\ r.op = tx[w].op /\ r.pc = "revoke" /\ r.l = tx[w].l
          /\ r.hit = tx[w].hit /\ r.seen = tx[w].seen
      BY <1>1 DEF Transaction
    <2> HIDE DEF r
    <2>3. Acquires(w) /\ linkLock' = linkLock /\ pwLock' = w
      BY <1>3 DEF Update, Free, Acquires, IndInv, TypeOK
    <2>4. TxOK(w)'
      BY <1>1, <1>3, <2>1, <2>2, <2>3, SameTables
         DEF Update, TxOK, Changing, Revoked
    <2>. QED
      BY <2>1, <2>3, <2>4, StatementStep
  <1>4. CASE Revoke(w)
    <2> DEFINE r == [tx[w] EXCEPT !.out = Live \ Spared(w), !.pc = "commit"]
    <2>1. r \in Transaction /\ tx' = [tx EXCEPT ![w] = r] /\ tx'[w] = r
      BY <1>1, <1>4 DEF Revoke, Live, Transaction, IndInv, TypeOK
    <2>2. /\ r.op = tx[w].op /\ r.pc = "commit" /\ r.l = tx[w].l /\ r.s = tx[w].s
          /\ r.hit = tx[w].hit /\ r.seen = tx[w].seen
          /\ r.out = Live \ Spared(w)
      BY <1>1 DEF Transaction
    <2>3. \A s \in Live : s \in r.out \/ s = r.s
      BY <2>2 DEF Spared
    <2> HIDE DEF r
    <2>4. Acquires(w) /\ linkLock' = linkLock /\ pwLock' = pwLock
      BY <1>4, NoLockTaken DEF Revoke, locks
    <2>5. UNCHANGED tables
      BY <1>4 DEF Revoke
    <2>6. TxOK(w)'
      BY <1>1, <1>4, <2>1, <2>2, <2>3, <2>4, <2>5, SameTables
         DEF Revoke, TxOK, Changing, Revoked
    <2>. QED
      BY <2>1, <2>4, <2>6, StatementStep
  <1>. QED
    BY <1>2, <1>3, <1>4

LEMMA LinkStep ==
    ASSUME IndInv, NEW w \in Worker, RequestConsume(w) \/ RequestLock(w)
    PROVE  IndInv'
  <1>1. tx[w] \in Transaction /\ TxOK(w)
    BY DEF IndInv, TypeOK, TxInv
  <1>2. CASE RequestConsume(w)
    <2> DEFINE r == [tx[w] EXCEPT !.rows = ToConsume, !.seen = Issued, !.pc = "issue"]
    <2>1. r \in Transaction /\ tx' = [tx EXCEPT ![w] = r] /\ tx'[w] = r
      BY <1>1, <1>2
         DEF RequestConsume, ToConsume, Usable, Issued, Transaction, IndInv, TypeOK
    <2>2. /\ r.op = "request" /\ r.pc = "issue" /\ r.hit = tx[w].hit
          /\ r.seen = Issued /\ r.rows = Usable
      BY <1>1, <1>2 DEF RequestConsume, At, Transaction, ToConsume
    <2> HIDE DEF r
    <2>3. UNCHANGED tables /\ Acquires(w) /\ linkLock' = linkLock
      BY <1>2, NoLockTaken DEF RequestConsume, locks
    <2>4. TxOK(w)'
      BY <1>1, <2>1, <2>2, <2>3, SameTables DEF TxOK, Changing, Revoked
    <2>. QED
      BY <2>1, <2>3, <2>4, StatementStep
  <1>3. CASE RequestLock(w)
    <2>0. UNCHANGED tables
      BY <1>3 DEF RequestLock
    <2>1. PICK l \in tx[w].rows :
            \/ /\ l \in Usable
               /\ LockLink(w, l)
               /\ tx' = [tx EXCEPT ![w].rows = @ \ {l}, ![w].hit = @ \cup {l}]
            \/ /\ l \notin Usable
               /\ tx' = [tx EXCEPT ![w].rows = @ \ {l}]
               /\ UNCHANGED linkLock
      BY <1>3 DEF RequestLock
    <2>2. CASE l \in Usable /\ LockLink(w, l)
               /\ tx' = [tx EXCEPT ![w].rows = @ \ {l}, ![w].hit = @ \cup {l}]
      <3> DEFINE r == [tx[w] EXCEPT !.rows = @ \ {l}, !.hit = @ \cup {l}]
      <3>1. r \in Transaction /\ tx' = [tx EXCEPT ![w] = r] /\ tx'[w] = r
        BY <1>1, <2>2 DEF Transaction, IndInv, TypeOK
      <3>2. /\ r.op = "request" /\ r.pc = "issue" /\ r.seen = tx[w].seen
            /\ r.rows = tx[w].rows \ {l} /\ r.hit = tx[w].hit \cup {l}
        BY <1>1, <1>3 DEF RequestLock, At, Transaction
      <3> HIDE DEF r
      <3>3. l \in Link /\ Acquires(w) /\ linkLock'[l] = w
            /\ \A k \in Link : linkLock[k] = w => linkLock'[k] = w
        BY <1>1, <1>3, <2>2, LinkLocked DEF RequestLock, Transaction
      <3>4. \A k \in r.hit : k \in Usable /\ linkLock'[k] = w
        BY <1>1, <2>2, <3>2, <3>3 DEF TxOK, Transaction
      <3>5. TxOK(w)'
        BY <1>1, <1>3, <2>0, <3>1, <3>2, <3>4, SameTables
           DEF RequestLock, At, TxOK, Changing, Revoked
      <3>. QED
        BY <3>1, <3>3, <3>5, StatementStep
    <2>3. CASE l \notin Usable /\ tx' = [tx EXCEPT ![w].rows = @ \ {l}]
               /\ UNCHANGED linkLock
      <3> DEFINE r == [tx[w] EXCEPT !.rows = @ \ {l}]
      <3>1. r \in Transaction /\ tx' = [tx EXCEPT ![w] = r] /\ tx'[w] = r
        BY <1>1, <2>3 DEF Transaction, IndInv, TypeOK
      <3>2. /\ r.op = "request" /\ r.pc = "issue" /\ r.seen = tx[w].seen
            /\ r.rows = tx[w].rows \ {l} /\ r.hit = tx[w].hit
        BY <1>1, <1>3 DEF RequestLock, At, Transaction
      <3> HIDE DEF r
      <3>3. Acquires(w)
        BY <1>3, <2>0, <2>3, NoLockTaken DEF RequestLock, locks
      <3>4. TxOK(w)'
        BY <1>1, <1>3, <2>0, <2>3, <3>1, <3>2, SameTables
           DEF RequestLock, At, TxOK, Changing, Revoked
      <3>. QED
        BY <3>1, <3>3, <3>4, StatementStep
    <2>. QED
      BY <2>1, <2>2, <2>3
  <1>. QED
    BY <1>2, <1>3

-----------------------------------------------------------------------------
(* Commit and rollback.                                                      *)

LEMMA EndStep ==
    ASSUME IndInv, NEW w \in Worker, End(w),
           TypeOK' \/ UNCHANGED tables,
           TableInv',
           \A v \in Worker : v # w => Undisturbed(v)
    PROVE  IndInv'
  <1>1. TypeOK'
    BY IdleTxTyped DEF End, tables, IndInv, TypeOK
  <1>2. TxOK(w)'
    <2>1. tx'[w] = IdleTx
      BY DEF End, IndInv, TypeOK
    <2>. QED
      BY <2>1 DEF TxOK, IdleTx, Revoked
  <1>3. TxInv'
    BY <1>2, OthersKeepInv DEF TxInv
  <1>. QED
    BY <1>1, <1>3 DEF IndInv

LEMMA EndFields ==
    ASSUME IndInv, NEW w \in Worker, End(w)
    PROVE  /\ tx' \in [Worker -> Transaction]
           /\ pwLock' \in Worker \cup {NoWorker}
           /\ linkLock' \in [Link -> Worker \cup {NoWorker}]
           /\ \A v \in Worker : v # w =>
                /\ tx'[v] = tx[v]
                /\ \A l \in Link : linkLock[l] = v => linkLock'[l] = v
                /\ pwLock = v => pwLock' = v
  BY IdleTxTyped DEF End, IndInv, TypeOK

LEMMA RollbackStep ==
    ASSUME IndInv, NEW w \in Worker, End(w), UNCHANGED tables
    PROVE  IndInv'
  <1>1. TableInv'
    BY DEF tables, IndInv, TableInv, Usable, Issued, Live,
           LinkWorksOnce, NewLinkKillsOlder, SupersededSessionsAreOut
  <1>2. \A v \in Worker : v # w => Undisturbed(v)
    BY EndFields, SameTables DEF Undisturbed, Live, Issued
  <1>. QED
    BY <1>1, <1>2, EndStep

LEMMA LoginCommitStep ==
    ASSUME IndInv, NEW w \in Worker, LoginCommit(w)
    PROVE  IndInv'
  <1>1. PICK s \in Session :
          /\ sess[s].status = "free"
          /\ sess' = [sess EXCEPT ![s] =
                        [status |-> "live", pw |-> tx[w].ver,
                         late |-> \/ password # tx[w].ver
                                  \/ \E v \in Worker : Revoked(v)]]
    BY DEF LoginCommit
  <1>2. End(w) /\ UNCHANGED <<password, link, resets>>
    BY DEF LoginCommit
  <1> DEFINE late == password # tx[w].ver \/ \E v \in Worker : Revoked(v)
  <1>3. late \in BOOLEAN
    OBVIOUS
  <1>4. /\ sess'[s] = [status |-> "live", pw |-> tx[w].ver, late |-> late]
        /\ \A q \in Session : q # s => sess'[q] = sess[q]
    BY <1>1 DEF IndInv, TypeOK
  <1>5. tx[w].ver \in Version
    BY DEF IndInv, TypeOK, Transaction
  <1>a. /\ sess'[s].status = "live" /\ sess'[s].pw = tx[w].ver
        /\ sess'[s].late = late
    BY <1>4
  <1>b. /\ password # tx[w].ver => sess'[s].late
        /\ \A v \in Worker : Revoked(v) => sess'[s].late
    BY <1>a
  <1>6. late = (password # tx[w].ver \/ \E v \in Worker : Revoked(v))
    OBVIOUS
  <1> HIDE DEF late
  <1>7. TypeOK'
    <2>1. sess' \in [Session -> SessionRow]
      <3>1. [status |-> "live", pw |-> tx[w].ver, late |-> late] \in SessionRow
        BY <1>3, <1>5 DEF SessionRow
      <3>. QED
        BY <1>1, <1>6, <3>1 DEF IndInv, TypeOK
    <2>. QED
      BY <1>2, <2>1, EndFields DEF IndInv, TypeOK
  <1>8. Issued' = Issued /\ Usable' = Usable
    BY <1>2 DEF Issued, Usable
  <1>9. TableInv'
    <2>1. SupersededSessionsAreOut'
      <3>1. ASSUME NEW q \in Live'
            PROVE  sess'[q].pw # password' => sess'[q].late
        <4>1. CASE q = s
          BY <1>2, <1>a, <1>b, <4>1
        <4>2. CASE q # s
          <5>1. q \in Live /\ sess'[q] = sess[q]
            BY <1>4, <4>2 DEF Live
          <5>. QED
            BY <1>2, <5>1 DEF IndInv, TableInv, SupersededSessionsAreOut
        <4>. QED
          BY <4>1, <4>2
      <3>. QED
        BY <3>1 DEF SupersededSessionsAreOut
    <2>. QED
      BY <1>2, <1>8, <2>1 DEF IndInv, TableInv, LinkWorksOnce, NewLinkKillsOlder
  <1>10. \A v \in Worker : v # w => Undisturbed(v)
    <2>1. ASSUME NEW v \in Worker, NEW q \in Session, sess'[q].status = "live"
          PROVE  \/ sess[q].status = "live" /\ sess'[q].late = sess[q].late
                 \/ Revoked(v) => sess'[q].late
      BY <1>4, <1>b, <2>1
    <2>. QED
      BY <1>2, <1>8, <2>1, EndFields DEF Undisturbed, Issued
  <1>. QED
    BY <1>2, <1>7, <1>9, <1>10, EndStep

\* What a change of the password leaves of the sessions.
LEMMA SupersedeFields ==
    ASSUME IndInv, NEW w \in Worker, Supersede(w), tx[w].pc = "commit"
    PROVE  /\ password' = password + 1 /\ password' \in Version
           /\ sess' \in [Session -> SessionRow]
           /\ \A s \in Live' : s \in Live /\ sess'[s].late = sess[s].late
           /\ SupersededSessionsAreOut'
  <1>1. tx[w] \in Transaction /\ TxOK(w)
    BY DEF IndInv, TypeOK, TxInv
  <1>2. password < MaxChanges /\ Revoked(w)
    BY <1>1 DEF TxOK, Changing, Revoked
  <1>3. password' = password + 1 /\ password + 1 \in Version
    BY <1>2 DEF Supersede, IndInv, TypeOK, Version
  <1>4. \A s \in Session : sess[s] \in SessionRow
    BY DEF IndInv, TypeOK
  <1>5. /\ sess' \in [Session -> SessionRow]
        /\ \A s \in Session :
             /\ s \in tx[w].out => sess'[s].status = "revoked"
             /\ s \notin tx[w].out /\ s = tx[w].s =>
                   /\ sess'[s].pw = password + 1 /\ sess'[s].late = sess[s].late
                   /\ sess'[s].status = sess[s].status
             /\ s \notin tx[w].out /\ s # tx[w].s => sess'[s] = sess[s]
    <2>1. \A s \in Session :
            /\ [sess[s] EXCEPT !.status = "revoked"] \in SessionRow
            /\ [sess[s] EXCEPT !.status = "revoked"].status = "revoked"
      BY <1>4 DEF SessionRow
    <2>2. \A s \in Session :
            /\ [sess[s] EXCEPT !.pw = password + 1] \in SessionRow
            /\ [sess[s] EXCEPT !.pw = password + 1].pw = password + 1
            /\ [sess[s] EXCEPT !.pw = password + 1].late = sess[s].late
            /\ [sess[s] EXCEPT !.pw = password + 1].status = sess[s].status
      BY <1>3, <1>4 DEF SessionRow
    <2>. QED
      BY <1>4, <2>1, <2>2 DEF Supersede
  <1>6. \A s \in Live' : s \in Live /\ sess'[s].late = sess[s].late
    BY <1>5 DEF Live
  <1>7. \A s \in Live' : s \in Session /\ s \notin tx[w].out
    BY <1>5 DEF Live
  <1>8. \A s \in Live' : s = tx[w].s \/ sess'[s].late
    BY <1>1, <1>2, <1>6, <1>7 DEF TxOK
  <1>9. SupersededSessionsAreOut'
    BY <1>3, <1>5, <1>7, <1>8 DEF SupersededSessionsAreOut
  <1>. QED
    BY <1>3, <1>5, <1>6, <1>9

LEMMA ChangeCommitStep ==
    ASSUME IndInv, NEW w \in Worker, ChangeCommit(w)
    PROVE  IndInv'
  <1>1. Supersede(w) /\ End(w) /\ UNCHANGED <<link, resets>> /\ tx[w].pc = "commit"
    BY DEF ChangeCommit, At
  <1>2. pwLock = w
    BY <1>1 DEF IndInv, TxInv, TxOK
  <1>3. Issued' = Issued /\ Usable' = Usable
    BY <1>1 DEF Issued, Usable
  <1>4. TypeOK'
    BY <1>1, SupersedeFields, EndFields DEF IndInv, TypeOK
  <1>5. TableInv'
    BY <1>1, <1>3, SupersedeFields
       DEF IndInv, TableInv, LinkWorksOnce, NewLinkKillsOlder
  <1>6. \A v \in Worker : v # w => Undisturbed(v)
    BY <1>1, <1>2, <1>3, SupersedeFields, EndFields DEF Undisturbed, Live, Issued
  <1>. QED
    BY <1>1, <1>4, <1>5, <1>6, EndStep

LEMMA ConfirmCommitStep ==
    ASSUME IndInv, NEW w \in Worker, ConfirmCommit(w)
    PROVE  IndInv'
  <1> DEFINE l == tx[w].l
  <1>1. /\ Supersede(w) /\ End(w) /\ tx[w].pc = "commit" /\ tx[w].op = "confirm"
        /\ link' = [link EXCEPT ![l].status = "consumed"]
        /\ resets' = [resets EXCEPT ![l] = @ + 1]
    BY DEF ConfirmCommit, ConsumeLink, At
  <1>2. pwLock = w /\ l \in Usable /\ l \in Link /\ linkLock[l] = w /\ resets[l] = 0
    BY <1>1 DEF IndInv, TxInv, TxOK, TableInv, Usable
  <1> HIDE DEF l
  <1>3. /\ link' \in [Link -> LinkRow] /\ link'[l].status = "consumed"
        /\ link'[l].seen = link[l].seen
        /\ \A k \in Link : k # l => link'[k] = link[k]
    BY <1>1, <1>2 DEF IndInv, TypeOK, LinkRow
  <1>4. Usable' = Usable \ {l} /\ Issued' = Issued
    BY <1>2, <1>3 DEF Usable, Issued
  <1>5. /\ resets' \in [Link -> Nat] /\ resets'[l] = 1
        /\ \A k \in Link : k # l => resets'[k] = resets[k]
    BY <1>1, <1>2 DEF IndInv, TypeOK
  <1>6. TypeOK'
    BY <1>1, <1>3, <1>5, SupersedeFields, EndFields DEF IndInv, TypeOK
  <1>7. TableInv'
    <2>1. \A k \in Usable' : resets'[k] = 0
      BY <1>4, <1>5 DEF IndInv, TableInv, Usable
    <2>2. \A k \in Link : link'[k].status = "none" => resets'[k] = 0
      BY <1>3, <1>5 DEF IndInv, TableInv
    <2>3. \A k \in Link : link'[k].seen \subseteq Issued'
      BY <1>3, <1>4 DEF IndInv, TableInv
    <2>4. LinkWorksOnce'
      BY <1>5 DEF IndInv, TableInv, LinkWorksOnce
    <2>5. NewLinkKillsOlder'
      BY <1>3, <1>4 DEF IndInv, TableInv, NewLinkKillsOlder, Usable
    <2>6. SupersededSessionsAreOut'
      BY <1>1, SupersedeFields
    <2>. QED
      BY <2>1, <2>2, <2>3, <2>4, <2>5, <2>6 DEF TableInv
  <1>8. \A v \in Worker : v # w => Undisturbed(v)
    BY <1>1, <1>2, <1>3, <1>4, SupersedeFields, EndFields DEF Undisturbed, Live, Issued
  <1>. QED
    BY <1>1, <1>6, <1>7, <1>8, EndStep

LEMMA RequestCommitStep ==
    ASSUME IndInv, NEW w \in Worker, RequestCommit(w)
    PROVE  IndInv'
  <1>1. PICK n \in Link \ Issued :
          link' = [l \in Link |->
                     IF l = n THEN [status |-> "live", seen |-> tx[w].seen]
                     ELSE IF l \in tx[w].hit THEN [link[l] EXCEPT !.status = "consumed"]
                     ELSE link[l]]
    BY DEF RequestCommit, InsertLink
  <1>2. /\ End(w) /\ UNCHANGED <<password, sess, resets>>
        /\ tx[w].op = "request" /\ tx[w].pc = "issue" /\ tx[w].rows = {}
    BY DEF RequestCommit, At
  <1>3. tx[w] \in Transaction /\ TxOK(w)
    BY DEF IndInv, TypeOK, TxInv
  <1>4. /\ tx[w].seen \subseteq Issued /\ tx[w].hit \subseteq Usable
        /\ \A l \in tx[w].hit : linkLock[l] = w
        /\ \A l \in tx[w].seen : l \in Usable => l \in tx[w].hit
    BY <1>2, <1>3 DEF TxOK
  <1>5. /\ link'[n].status = "live" /\ link'[n].seen = tx[w].seen
        /\ \A l \in Link : l # n =>
             /\ l \in tx[w].hit => link'[l].status = "consumed"
                                   /\ link'[l].seen = link[l].seen
             /\ l \notin tx[w].hit => link'[l] = link[l]
    BY <1>1 DEF IndInv, TypeOK, LinkRow
  <1>6. Usable' = (Usable \ tx[w].hit) \cup {n} /\ Issued' = Issued \cup {n}
    BY <1>4, <1>5 DEF Usable, Issued
  <1>7. TypeOK'
    <2>1. [status |-> "live", seen |-> tx[w].seen] \in LinkRow
      BY <1>3 DEF LinkRow, Transaction
    <2>2. \A l \in Link : [link[l] EXCEPT !.status = "consumed"] \in LinkRow
      BY DEF LinkRow, IndInv, TypeOK
    <2>3. link' \in [Link -> LinkRow]
      BY <1>1, <2>1, <2>2 DEF IndInv, TypeOK
    <2>. QED
      BY <1>2, <2>3, EndFields DEF IndInv, TypeOK
  <1>8. n \notin Usable /\ link[n].status = "none"
    BY DEF Usable, Issued
  <1>9. TableInv'
    <2>1. \A l \in Usable' : resets'[l] = 0
      BY <1>2, <1>6, <1>8 DEF IndInv, TableInv
    <2>2. \A l \in Link : link'[l].status = "none" => resets'[l] = 0
      BY <1>2, <1>5 DEF IndInv, TableInv
    <2>3. \A l \in Link : link'[l].seen \subseteq Issued'
      BY <1>4, <1>5, <1>6 DEF IndInv, TableInv
    <2>4. LinkWorksOnce'
      BY <1>2 DEF IndInv, TableInv, LinkWorksOnce
    <2>5. NewLinkKillsOlder'
      <3>1. ASSUME NEW l \in Usable', NEW k \in Usable', l # k, k # n
            PROVE  l \notin link'[k].seen
        <4>1. k \in Usable /\ link'[k] = link[k] /\ k \in Link
          BY <1>5, <1>6, <3>1 DEF Usable
        <4>2. CASE l = n
          BY <4>1, <4>2 DEF IndInv, TableInv
        <4>3. CASE l # n
          BY <1>6, <3>1, <4>1, <4>3 DEF IndInv, TableInv, NewLinkKillsOlder
        <4>. QED
          BY <4>2, <4>3
      <3>2. ASSUME NEW l \in Usable', l # n
            PROVE  l \notin link'[n].seen
        BY <1>4, <1>5, <1>6, <3>2
      <3>. QED
        BY <3>1, <3>2 DEF NewLinkKillsOlder
    <2>6. SupersededSessionsAreOut'
      BY <1>2 DEF IndInv, TableInv, SupersededSessionsAreOut, Live
    <2>. QED
      BY <2>1, <2>2, <2>3, <2>4, <2>5, <2>6 DEF TableInv
  <1>10. ASSUME NEW v \in Worker, v # w
         PROVE  Undisturbed(v)
    <2>1. \A l \in Issued : linkLock[l] = v => link'[l] = link[l]
      BY <1>4, <1>5, <1>10 DEF Issued
    <2>. QED
      BY <1>2, <1>6, <1>8, <1>10, <2>1, EndFields DEF Undisturbed, Issued
  <1>. QED
    BY <1>2, <1>7, <1>9, <1>10, EndStep

-----------------------------------------------------------------------------
(* The theorems.                                                             *)

LEMMA NextInv == IndInv /\ [Next]_vars => IndInv'
  <1> SUFFICES ASSUME IndInv, [Next]_vars PROVE IndInv'
    OBVIOUS
  <1>1. CASE UNCHANGED vars
    <2>1. UNCHANGED <<tables, pwLock, linkLock, tx>>
      BY <1>1 DEF vars, tables, locks
    <2>2. TypeOK' /\ TableInv'
      BY <2>1 DEF tables, IndInv, TypeOK, TableInv, Usable, Issued, Live,
                  LinkWorksOnce, NewLinkKillsOlder, SupersededSessionsAreOut
    <2>3. \A v \in Worker : Undisturbed(v)
      BY <2>1, SameTables DEF Undisturbed, Live, tables
    <2>. QED
      BY <2>2, <2>3, OthersKeepInv DEF IndInv, TxInv
  <1>2. ASSUME NEW w \in Worker, Step(w)
        PROVE  IndInv'
    <2>1. CASE LoginVerify(w) \/ ChangeVerify(w) \/ ConfirmBegin(w) \/ RequestBegin(w)
      BY <2>1, RequestStep
    <2>2. CASE ConfirmLock(w) \/ Update(w) \/ Revoke(w)
      BY <2>2, ChangeStep
    <2>3. CASE RequestConsume(w) \/ RequestLock(w)
      BY <2>3, LinkStep
    <2>4. CASE ConfirmRefused(w) \/ Abort(w)
      BY <2>4, RollbackStep DEF ConfirmRefused, Abort
    <2>5. CASE LoginCommit(w)
      BY <2>5, LoginCommitStep
    <2>6. CASE ChangeCommit(w)
      BY <2>6, ChangeCommitStep
    <2>7. CASE ConfirmCommit(w)
      BY <2>7, ConfirmCommitStep
    <2>8. CASE RequestCommit(w)
      BY <2>8, RequestCommitStep
    <2>. QED
      BY <1>2, <2>1, <2>2, <2>3, <2>4, <2>5, <2>6, <2>7, <2>8 DEF Step
  <1>. QED
    BY <1>1, <1>2 DEF Next

\* What the handlers of login, change_password, request_password_reset and
\* confirm_password_reset preserve, statement by statement.
THEOREM Invariant == Spec => []IndInv
  BY InitInv, NextInv, PTL DEF Spec

\* However many confirmations present it, a mailed link resets the password at
\* most once (confirm_password_reset).
THEOREM ResetOnce == Spec => []LinkWorksOnce
  <1>1. IndInv => LinkWorksOnce
    BY DEF IndInv, TableInv
  <1>. QED
    BY <1>1, Invariant, PTL

\* Two usable links were requested at the same time (request_password_reset).
THEOREM LinksOverlap == Spec => []NewLinkKillsOlder
  <1>1. IndInv => NewLinkKillsOlder
    BY DEF IndInv, TableInv
  <1>. QED
    BY <1>1, Invariant, PTL

\* A change of the password leaves no session of the old one but those whose
\* login overlapped it (change_password, confirm_password_reset).
THEOREM ChangeEvicts == Spec => []SupersededSessionsAreOut
  <1>1. IndInv => SupersededSessionsAreOut
    BY DEF IndInv, TableInv
  <1>. QED
    BY <1>1, Invariant, PTL
=============================================================================
