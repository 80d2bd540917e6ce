---------------------------- MODULE Sessions_proofs ----------------------------
(***************************************************************************)
(* Proofs about Sessions, for any number of handlers, sessions and         *)
(* generations and any lifetimes.                                          *)
(***************************************************************************)
EXTENDS Sessions, FiniteSetTheorems, TLAPS

LEMMA InitTyped == Init => TypeOK
  <1> SUFFICES ASSUME Init PROVE TypeOK
    OBVIOUS
  <1>1. IdleTx \in Transaction /\ NoRow \in SessionRow
    BY ConfigAssumption
       DEF IdleTx, NoRow, Transaction, SessionRow, Operation, Pc, Gen, Status
  <1>. QED
    BY <1>1, ConfigAssumption DEF Init, TypeOK, Status, Gen

LEMMA IdleTxTyped == IdleTx \in Transaction
  BY ConfigAssumption DEF IdleTx, Transaction, Operation, Pc, Gen, Status

\* Replacing what one handler does by something well formed.
LEMMA UpdateTyped ==
    ASSUME TypeOK, NEW w \in Worker, NEW r \in Transaction,
           tx' = [tx EXCEPT ![w] = r]
    PROVE  tx' \in [Worker -> Transaction]
  BY DEF TypeOK

LEMMA GotoTyped ==
    ASSUME TypeOK, NEW w \in Worker, NEW pc \in Pc, Goto(w, pc)
    PROVE  tx' \in [Worker -> Transaction]
  <1>1. tx[w] \in Transaction
    BY DEF TypeOK
  <1>2. [tx[w] EXCEPT !.pc = pc] \in Transaction
    BY <1>1 DEF Transaction
  <1>. QED
    BY <1>1, <1>2, UpdateTyped DEF Goto, TypeOK

\* Starting a request leaves a well-formed transaction.
LEMMA StartTyped ==
    ASSUME TypeOK, NEW w \in Worker, NEW op \in Operation, NEW pc \in Pc,
           NEW s \in Session \cup {NoSession}, Start(w, op, pc, s)
    PROVE  tx' \in [Worker -> Transaction]
  <1>1. [IdleTx EXCEPT !.op = op, !.pc = pc, !.s = s, !.t0 = clock,
                       !.seen = userStatus] \in Transaction
    BY IdleTxTyped DEF TypeOK, Transaction
  <1>. QED
    BY <1>1, UpdateTyped DEF Start

LEMMA EndTyped ==
    ASSUME TypeOK, NEW w \in Worker, End(w)
    PROVE  /\ tx' \in [Worker -> Transaction]
           /\ sLock' \in [Session -> Worker \cup {NoWorker}]
           /\ rtLock' \in [Session -> [Gen -> Worker \cup {NoWorker}]]
           /\ headLock' \in Worker \cup {NoWorker}
           /\ userLock' \in Worker \cup {NoWorker}
           /\ userShare' \in SUBSET Worker
  <1>1. tx' \in [Worker -> Transaction]
    BY IdleTxTyped, UpdateTyped DEF End
  <1>. QED
    BY <1>1 DEF TypeOK, End

-----------------------------------------------------------------------------
(* The two kinds of steps: a statement of w takes locks that nobody holds    *)
(* and leaves the tables alone; a commit or a rollback of w ends it.         *)

Acquires(w) ==
    /\ UNCHANGED <<clock, tables>>
    /\ sLock' \in [Session -> Worker \cup {NoWorker}]
    /\ rtLock' \in [Session -> [Gen -> Worker \cup {NoWorker}]]
    /\ headLock' \in Worker \cup {NoWorker}
    /\ userLock' \in Worker \cup {NoWorker}
    /\ userShare' \in SUBSET Worker
    /\ \A s \in Session : sLock[s] # NoWorker => sLock'[s] = sLock[s]
    /\ \A s \in Session, g \in Gen :
          rtLock[s][g] # NoWorker => rtLock'[s][g] = rtLock[s][g]

\* A lock is only taken from nobody.
LEMMA LocksTaken ==
    ASSUME TypeOK, NEW w \in Worker, NEW s \in Session
    PROVE  /\ LockSession(w, s) =>
                /\ sLock' \in [Session -> Worker \cup {NoWorker}]
                /\ sLock'[s] = w
                /\ \A t \in Session : sLock[t] # NoWorker => sLock'[t] = sLock[t]
           /\ \A g \in Gen : LockToken(w, s, g) =>
                /\ rtLock' \in [Session -> [Gen -> Worker \cup {NoWorker}]]
                /\ rtLock'[s][g] = w
                /\ \A t \in Session, h \in Gen :
                      rtLock[t][h] # NoWorker => rtLock'[t][h] = rtLock[t][h]
  <1>1. ASSUME LockSession(w, s)
        PROVE  /\ sLock' \in [Session -> Worker \cup {NoWorker}]
               /\ sLock'[s] = w
               /\ \A t \in Session : sLock[t] # NoWorker => sLock'[t] = sLock[t]
    BY <1>1 DEF LockSession, Free, TypeOK
  <1>2. ASSUME NEW g \in Gen, LockToken(w, s, g)
        PROVE  /\ rtLock' \in [Session -> [Gen -> Worker \cup {NoWorker}]]
               /\ rtLock'[s][g] = w
               /\ \A t \in Session, h \in Gen :
                      rtLock[t][h] # NoWorker => rtLock'[t][h] = rtLock[t][h]
    BY <1>2 DEF LockToken, Free, TypeOK
  <1>. QED
    BY <1>1, <1>2

\* What w may change without disturbing v: nothing v has locked.
Undisturbed(v) ==
    /\ tx'[v] = tx[v]
    /\ \A s \in Session : sLock[s] = v /\ sess[s].status # "free" =>
          sLock'[s] = v /\ sess'[s] = sess[s] /\ rt'[s] = rt[s]
    /\ \A s \in Session, g \in Gen : rtLock[s][g] = v => rtLock'[s][g] = v
    /\ \A s \in Session, g \in Gen : rt[s][g] # "none" => rt'[s][g] # "none"
    /\ \A s \in Session : sess[s].status # "free" => sess'[s].status # "free"

LEMMA OthersKeepInv ==
    ASSUME IndInv, NEW v \in Worker, Undisturbed(v)
    PROVE  TxOK(v)'
  <1> DEFINE x == tx[v]
  <1>1. x \in Transaction /\ tx'[v] = x /\ TxOK(v)
    BY DEF IndInv, TypeOK, TxInv, Undisturbed
  <1>2. Refreshing(v) => sess[x.s].status # "free"
    BY <1>1 DEF TxOK, Refreshing, IndInv, TableInv, Transaction
  <1>3. HoldsBoth(v) => sess'[x.s] = sess[x.s] /\ rt'[x.s] = rt[x.s]
    BY <1>1, <1>2 DEF TxOK, HoldsBoth, HoldsToken, Refreshing, Undisturbed
  <1>4. \A s \in x.hit : s \in Session /\ sLock'[s] = v /\ sess'[s] = sess[s]
    BY <1>1 DEF TxOK, Undisturbed, Transaction
  <1>5. x.rows \subseteq {s \in Session : sess'[s].status # "free"}
    BY <1>1 DEF TxOK, Undisturbed
  <1>6. tx[v].op = "reuse" => HoldsBoth(v)
    BY <1>1 DEF TxOK, HoldsBoth, HoldsToken, Refreshing
  <1> HIDE DEF x
  <1>. QED
    BY <1>1, <1>2, <1>3, <1>4, <1>5, <1>6
       DEF x, TxOK, HoldsBoth, HoldsToken, Refreshing, Undisturbed, Transaction

LEMMA StatementStep ==
    ASSUME IndInv, NEW w \in Worker, NEW r \in Transaction,
           tx' = [tx EXCEPT ![w] = r], Acquires(w), TxOK(w)'
    PROVE  IndInv'
  <1>1. TypeOK'
    BY UpdateTyped DEF IndInv, TypeOK, Acquires, tables
  <1>2. ASSUME NEW v \in Worker, v # w
        PROVE  Undisturbed(v)
    BY <1>2, WorkerAssumption DEF Undisturbed, Acquires, tables, IndInv, TypeOK
  <1>3. TxInv'
    BY <1>2, OthersKeepInv DEF TxInv
  <1>4. TableInv'
    BY DEF IndInv, TableInv, AccessFollowsRefresh, ReusedFamilyIsDead, Acquires, tables
  <1>. QED
    BY <1>1, <1>3, <1>4 DEF IndInv

LEMMA EndStep ==
    ASSUME IndInv, NEW w \in Worker, End(w),
           clock' \in Nat, userStatus' \in Status, reused' \in SUBSET Session,
           sess' \in [Session -> SessionRow],
           rt' \in [Session -> [Gen -> {"none", "live", "consumed"}]],
           rtExp' \in [Session -> [Gen -> Nat]],
           \A s \in Session : sess[s].status # "free" /\ sLock[s] # w =>
               sess'[s] = sess[s] /\ rt'[s] = rt[s],
           \A s \in Session, g \in Gen : rt[s][g] # "none" => rt'[s][g] # "none",
           \A s \in Session : sess[s].status # "free" => sess'[s].status # "free",
           TableInv'
    PROVE  IndInv'
  <1>1. TypeOK'
    BY EndTyped DEF IndInv, TypeOK
  <1>2. ASSUME NEW v \in Worker, v # w
        PROVE  Undisturbed(v)
    BY <1>2, WorkerAssumption DEF Undisturbed, End, IndInv, TypeOK
  <1>3. TxOK(w)'
    BY DEF TxOK, End, IdleTx, IndInv, TypeOK, HoldsBoth, HoldsToken, Refreshing
  <1>4. TxInv'
    BY <1>2, <1>3, OthersKeepInv DEF TxInv
  <1>. QED
    BY <1>1, <1>4 DEF IndInv
-----------------------------------------------------------------------------
(* The beginning of a request.                                               *)

LEMMA StartStep ==
    ASSUME IndInv, NEW w \in Worker, NEW op \in Operation, NEW pc \in Pc,
           NEW s \in Session \cup {NoSession}, Start(w, op, pc, s),
           UNCHANGED <<clock, tables, locks>>,
           op \notin {"refresh", "reuse"},
           pc \in {"begin", "lockUser"} \/ (pc = "statement" /\ s \in Session)
    PROVE  IndInv'
  <1> DEFINE r == [IdleTx EXCEPT !.op = op, !.pc = pc, !.s = s, !.t0 = clock,
                                 !.seen = userStatus]
  <1>1. r \in Transaction
    BY IdleTxTyped DEF IndInv, TypeOK, Transaction
  <1>2. r.op = op /\ r.pc = pc /\ r.s = s /\ r.rows = {} /\ r.hit = {}
    BY DEF IdleTx
  <1>3. tx' = [tx EXCEPT ![w] = r]
    BY DEF Start
  <1>4. tx'[w] = r
    BY <1>3 DEF IndInv, TypeOK
  <1> HIDE DEF r
  <1>5. TxOK(w)'
    BY <1>2, <1>4 DEF TxOK, HoldsBoth, HoldsToken, Refreshing
  <1>6. Acquires(w)
    BY DEF Acquires, locks, tables, IndInv, TypeOK
  <1>. QED
    BY <1>1, <1>3, <1>5, <1>6, StatementStep

LEMMA RequestStep ==
    ASSUME IndInv, NEW w \in Worker, Request(w)
    PROVE  IndInv'
  <1>1. CASE LoginVerify(w)
    BY <1>1, StartStep DEF LoginVerify, Operation, Pc
  <1>2. ASSUME NEW s \in Session, NEW g \in Gen, RefreshBegin(w, s, g)
        PROVE  IndInv'
    <2> DEFINE r == [IdleTx EXCEPT !.op = "refresh", !.s = s, !.g = g,
                       !.pc = "lockToken", !.t0 = clock, !.seen = userStatus]
    <2>1. r \in Transaction
      BY IdleTxTyped DEF IndInv, TypeOK, Transaction, Operation, Pc
    <2>2. r.op = "refresh" /\ r.pc = "lockToken" /\ r.s = s /\ r.g = g
             /\ r.rows = {} /\ r.hit = {} /\ r.gens = {} /\ r.fam = {}
      BY DEF IdleTx
    <2>3. tx' = [tx EXCEPT ![w] = r]
      BY <1>2 DEF RefreshBegin
    <2>4. tx'[w] = r
      BY <2>3 DEF IndInv, TypeOK
    <2> HIDE DEF r
    <2>5. TxOK(w)'
      BY <1>2, <2>2, <2>4
         DEF RefreshBegin, TxOK, HoldsBoth, HoldsToken, Refreshing, tables
    <2>6. Acquires(w)
      BY <1>2 DEF RefreshBegin, Acquires, locks, tables, IndInv, TypeOK
    <2>. QED
      BY <2>1, <2>3, <2>5, <2>6, StatementStep
  <1>3. ASSUME NEW s \in Session, RevokeBegin(w, s)
        PROVE  IndInv'
    BY <1>3, StartStep DEF RevokeBegin, Operation, Pc
  <1>4. CASE LogoutAllBegin(w)
    BY <1>4, StartStep DEF LogoutAllBegin, Operation, Pc
  <1>5. ASSUME NEW op \in Operation, ChangeStatusBegin(w, op)
        PROVE  IndInv'
    BY <1>5, StartStep DEF ChangeStatusBegin, Operation, Pc
  <1>. QED
    BY <1>1, <1>2, <1>3, <1>4, <1>5 DEF Request

-----------------------------------------------------------------------------
(* The statements of a login.                                                *)

\* Moving on to another statement, with or without new locks.
LEMMA GotoStep ==
    ASSUME IndInv, NEW w \in Worker, NEW pc \in Pc, Goto(w, pc), Acquires(w),
           TxOK(w)'
    PROVE  IndInv'
  <1>1. tx[w] \in Transaction
    BY DEF IndInv, TypeOK
  <1>2. [tx[w] EXCEPT !.pc = pc] \in Transaction
    BY <1>1 DEF Transaction
  <1>3. tx' = [tx EXCEPT ![w] = [tx[w] EXCEPT !.pc = pc]]
    BY <1>1 DEF Goto, IndInv, TypeOK
  <1>. QED
    BY <1>2, <1>3, StatementStep

\* What Goto leaves in the transaction.
LEMMA GotoFields ==
    ASSUME IndInv, NEW w \in Worker, NEW pc, Goto(w, pc)
    PROVE  /\ tx'[w].pc = pc
           /\ tx'[w].op = tx[w].op
           /\ tx'[w].s = tx[w].s
           /\ tx'[w].g = tx[w].g
           /\ tx'[w].rows = tx[w].rows
           /\ tx'[w].hit = tx[w].hit
           /\ tx'[w].gens = tx[w].gens
           /\ tx'[w].fam = tx[w].fam
  BY DEF IndInv, TypeOK, Transaction, Goto

LEMMA LoginStep ==
    ASSUME IndInv, NEW w \in Worker,
           \/ LoginCount(w) \/ LoginOldest(w) \/ LoginEvict(w)
           \/ LoginEvictAudit(w) \/ LoginEvictActor(w) \/ LoginInsert(w)
    PROVE  IndInv'
  <1>a. tx[w] \in Transaction /\ TxOK(w)
    BY DEF IndInv, TypeOK, TxInv
  <1>b. \A t : LiveAt(t) \subseteq {s \in Session : sess[s].status # "free"}
    BY DEF LiveAt
  <1>1. CASE LoginCount(w)
    <2> DEFINE n == Surplus(Cardinality(LiveAt(clock)))
               r == [tx[w] EXCEPT !.t0 = clock, !.surplus = n,
                          !.pc = IF n = 0 THEN "insert" ELSE "oldest"]
    <2>1. IsFiniteSet(LiveAt(clock))
      BY SessionAssumption, FS_Subset DEF LiveAt
    <2>2. n \in Nat
      BY <2>1, FS_CardinalityType, ConfigAssumption DEF Surplus
    <2> HIDE DEF n
    <2>3. r \in Transaction
      BY <1>a, <2>2 DEF IndInv, TypeOK, Transaction, Pc
    <2>4. tx' = [tx EXCEPT ![w] = r]
      BY <1>1, <1>a DEF LoginCount, n, IndInv, TypeOK, Transaction
    <2>5. /\ tx'[w].pc \in {"insert", "oldest"} /\ tx'[w].op = tx[w].op
          /\ tx'[w].rows = tx[w].rows /\ tx'[w].hit = tx[w].hit
      BY <1>a, <2>4 DEF IndInv, TypeOK, Transaction
    <2>6. TxOK(w)'
      BY <1>1, <1>a, <2>5
         DEF LoginCount, At, TxOK, HoldsBoth, HoldsToken, Refreshing, tables, locks
    <2>7. Acquires(w)
      BY <1>1 DEF LoginCount, Acquires, locks, tables, IndInv, TypeOK
    <2>. QED
      BY <2>3, <2>4, <2>6, <2>7, StatementStep
  <1>2. CASE LoginOldest(w)
    <2>1. PICK O \in SUBSET Session :
            /\ OldestOf(LiveAt(tx[w].t0), tx[w].surplus, O)
            /\ tx' = [tx EXCEPT ![w].rows = O,
                             ![w].pc = IF O = {} THEN "insert" ELSE "evict"]
      BY <1>2 DEF LoginOldest
    <2> DEFINE r == [tx[w] EXCEPT !.rows = O,
                                  !.pc = IF O = {} THEN "insert" ELSE "evict"]
    <2>2. r \in Transaction
      BY <1>a DEF Transaction, Pc
    <2>3. tx' = [tx EXCEPT ![w] = r]
      BY <2>1, <1>a DEF IndInv, TypeOK, Transaction
    <2>4. /\ tx'[w].pc \in {"insert", "evict"} /\ tx'[w].op = tx[w].op
          /\ tx'[w].rows = O /\ tx'[w].hit = tx[w].hit
      BY <1>a, <2>3 DEF IndInv, TypeOK, Transaction
    <2>5. O \subseteq {s \in Session : sess[s].status # "free"}
      BY <1>b, <2>1 DEF OldestOf
    <2>6. TxOK(w)'
      BY <1>2, <1>a, <2>4, <2>5
         DEF LoginOldest, At, TxOK, HoldsBoth, HoldsToken, Refreshing, tables, locks
    <2>7. Acquires(w)
      BY <1>2 DEF LoginOldest, Acquires, locks, tables, IndInv, TypeOK
    <2>. QED
      BY <2>2, <2>3, <2>6, <2>7, StatementStep
  <1>3. CASE LoginEvict(w)
    <2>1. PICK s \in tx[w].rows :
             \/ /\ sess[s].status = "live"
                /\ LockSession(w, s)
                /\ tx' = [tx EXCEPT ![w].rows = @ \ {s}, ![w].hit = @ \cup {s},
                                    ![w].pc = "evictAudit"]
             \/ /\ tx' = [tx EXCEPT ![w].rows = @ \ {s}, ![w].pc = "evictAudit"]
                /\ UNCHANGED sLock
      BY <1>3 DEF LoginEvict
    <2>2. s \in Session
      BY <1>a DEF Transaction
    <2>3. Acquires(w)
      BY <1>3, <2>1, <2>2, LocksTaken
         DEF LoginEvict, Acquires, tables, IndInv, TypeOK
    <2> DEFINE q == [tx[w] EXCEPT !.rows = @ \ {s}, !.pc = "evictAudit"]
               r == [tx[w] EXCEPT !.rows = @ \ {s}, !.hit = @ \cup {s},
                                  !.pc = "evictAudit"]
    <2>4. q \in Transaction /\ r \in Transaction
      BY <1>a, <2>2 DEF Transaction, Pc
    <2>5. tx' = [tx EXCEPT ![w] = q] \/ tx' = [tx EXCEPT ![w] = r]
      BY <2>1, <1>a DEF IndInv, TypeOK, Transaction
    <2>a. /\ tx'[w].pc = "evictAudit" /\ tx'[w].op = tx[w].op
          /\ tx'[w].rows \subseteq tx[w].rows
          /\ \/ tx'[w].hit = tx[w].hit
             \/ /\ tx'[w].hit = tx[w].hit \cup {s}
                /\ sess[s].status = "live" /\ LockSession(w, s)
      BY <1>a, <2>1 DEF IndInv, TypeOK, Transaction
    <2>6. /\ tx'[w].pc = "evictAudit" /\ tx'[w].op = tx[w].op
          /\ tx'[w].rows \subseteq tx[w].rows
          /\ \A h \in tx'[w].hit : sLock'[h] = w /\ sess[h].status = "live"
      <3>1. \A h \in tx[w].hit : sLock'[h] = w /\ sess[h].status = "live"
        BY <1>a, <2>3, WorkerAssumption DEF TxOK, Acquires, Transaction
      <3>. QED
        BY <1>a, <2>2, <2>a, <3>1, LocksTaken DEF IndInv
    <2>7. TxOK(w)'
      BY <1>3, <1>a, <2>6
         DEF LoginEvict, At, TxOK, HoldsBoth, HoldsToken, Refreshing, tables
    <2>. QED
      BY <2>3, <2>4, <2>5, <2>7, StatementStep
  <1>4. CASE LoginEvictAudit(w)
    <2>1. Acquires(w)
      BY <1>4 DEF LoginEvictAudit, Free, Acquires, tables, IndInv, TypeOK
    <2>2. TxOK(w)'
      BY <1>4, <1>a, GotoFields
         DEF LoginEvictAudit, At, TxOK, HoldsBoth, HoldsToken, Refreshing, tables
    <2>. QED
      BY <1>4, <2>1, <2>2, GotoStep DEF LoginEvictAudit, Pc
  <1>5. CASE LoginEvictActor(w)
    <2>1. Acquires(w)
      BY <1>5 DEF LoginEvictActor, Free, Acquires, tables, IndInv, TypeOK
    <2>2. TxOK(w)'
      BY <1>5, <1>a, GotoFields
         DEF LoginEvictActor, At, TxOK, HoldsBoth, HoldsToken, Refreshing, tables
    <2>. QED
      BY <1>5, <2>1, <2>2, GotoStep DEF LoginEvictActor, Pc
  <1>6. CASE LoginInsert(w)
    <2>1. Acquires(w)
      BY <1>6 DEF LoginInsert, Free, Acquires, tables, IndInv, TypeOK
    <2>2. TxOK(w)'
      BY <1>6, <1>a, GotoFields
         DEF LoginInsert, At, TxOK, HoldsBoth, HoldsToken, Refreshing, tables
    <2>. QED
      BY <1>6, <2>1, <2>2, GotoStep DEF LoginInsert, Pc
  <1>. QED
    BY <1>1, <1>2, <1>3, <1>4, <1>5, <1>6

-----------------------------------------------------------------------------
(* The statements of a refresh.                                              *)

LEMMA RefreshStep ==
    ASSUME IndInv, NEW w \in Worker,
           \/ RefreshLockToken(w) \/ RefreshLockSession(w)
           \/ RefreshFamily(w) \/ RefreshFamilyLock(w) \/ RefreshRotate(w)
    PROVE  IndInv'
  <1>a. tx[w] \in Transaction /\ TxOK(w) /\ TypeOK
    BY DEF IndInv, TypeOK, TxInv
  <1>1. CASE RefreshLockToken(w)
    <2>1. tx[w].op = "refresh" /\ tx[w].s \in Session /\ tx[w].g \in Gen
      BY <1>1, <1>a DEF RefreshLockToken, At, TxOK, Refreshing, Transaction
    <2>2. Acquires(w) /\ rtLock'[tx[w].s][tx[w].g] = w
      BY <1>1, <1>a, <2>1, LocksTaken
         DEF RefreshLockToken, Acquires, tables, TypeOK
    <2>3. TxOK(w)'
      BY <1>1, <1>a, <2>1, <2>2, GotoFields
         DEF RefreshLockToken, At, TxOK, HoldsBoth, HoldsToken, Refreshing, tables
    <2>. QED
      BY <1>1, <2>2, <2>3, GotoStep DEF RefreshLockToken, Pc
  <1>2. CASE RefreshLockSession(w)
    <2>1. /\ tx[w].op = "refresh" /\ tx[w].s \in Session /\ tx[w].g \in Gen
          /\ rtLock[tx[w].s][tx[w].g] = w
          /\ rt[tx[w].s][tx[w].g] \in {"live", "consumed"}
      BY <1>2, <1>a
         DEF RefreshLockSession, At, TxOK, HoldsToken, Refreshing, Transaction, TypeOK
    <2>2. Acquires(w) /\ sLock'[tx[w].s] = w /\ rtLock' = rtLock
      BY <1>2, <1>a, <2>1, LocksTaken
         DEF RefreshLockSession, Acquires, tables, TypeOK
    <2>3. CASE VerdictOf(w) = "Rotate" /\ CanAdvance(tx[w].g) /\ Goto(w, "rotate")
      <3>1. rt[tx[w].s][tx[w].g] = "live" /\ sess[tx[w].s].status = "live"
        BY <2>1, <2>3 DEF VerdictOf, Verdict
      <3>2. /\ tx'[w].pc = "rotate" /\ tx'[w].op = "refresh"
            /\ tx'[w].s = tx[w].s /\ tx'[w].g = tx[w].g
            /\ tx'[w].rows = tx[w].rows /\ tx'[w].hit = tx[w].hit
            /\ tx'[w].gens = tx[w].gens /\ tx'[w].fam = tx[w].fam
        BY <2>1, <2>3, GotoFields
      <3>3. rt' = rt /\ sess' = sess
        BY <1>2 DEF RefreshLockSession, tables
      <3>4. \A h \in tx[w].hit : sLock'[h] = w /\ sess[h].status = "live"
        BY <1>a, <2>2, WorkerAssumption DEF TxOK, Transaction, Acquires
      <3>5. TxOK(w)'
        BY <1>a, <2>1, <2>2, <2>3, <3>1, <3>2, <3>3, <3>4
           DEF TxOK, HoldsBoth, HoldsToken, Refreshing, CanAdvance
      <3>. QED
        BY <2>2, <2>3, <3>5, GotoStep DEF Pc
    <2>4. CASE /\ VerdictOf(w) = "ReuseDetected"
               /\ tx' = [tx EXCEPT ![w].op = "reuse", ![w].pc = "family",
                     ![w].hit = {s \in {tx[w].s} : sess[s].status = "live"}]
      <3> DEFINE H == {s \in {tx[w].s} : sess[s].status = "live"}
                 r == [tx[w] EXCEPT !.op = "reuse", !.pc = "family", !.hit = H]
      <3>1. r \in Transaction
        BY <1>a, <2>1 DEF Transaction, Pc, Operation
      <3>2. tx' = [tx EXCEPT ![w] = r]
        BY <1>a, <2>4 DEF TypeOK, Transaction
      <3>3. /\ tx'[w].op = "reuse" /\ tx'[w].pc = "family" /\ tx'[w].hit = H
            /\ tx'[w].s = tx[w].s /\ tx'[w].g = tx[w].g /\ tx'[w].rows = tx[w].rows
            /\ tx'[w].gens = tx[w].gens /\ tx'[w].fam = tx[w].fam
        BY <1>a, <3>2 DEF TypeOK, Transaction
      <3>4. TxOK(w)'
        BY <1>2, <1>a, <2>1, <2>2, <3>3
           DEF RefreshLockSession, At, TxOK, HoldsBoth, HoldsToken, Refreshing,
               tables
      <3>. QED
        BY <2>2, <3>1, <3>2, <3>4, StatementStep
    <2>. QED
      BY <1>2, <2>3, <2>4 DEF RefreshLockSession
  <1>3. CASE RefreshFamily(w)
    <2> DEFINE G == {g \in Gen : rt[tx[w].s][g] = "live"}
               r == [tx[w] EXCEPT !.gens = G, !.pc = "familyLock"]
    <2>1. r \in Transaction
      BY <1>a DEF Transaction, Pc
    <2>2. tx' = [tx EXCEPT ![w] = r]
      BY <1>3, <1>a DEF RefreshFamily, TypeOK, Transaction
    <2>3. /\ tx'[w].op = tx[w].op /\ tx'[w].pc = "familyLock"
          /\ tx'[w].gens = G /\ tx'[w].fam = tx[w].fam
          /\ tx'[w].s = tx[w].s /\ tx'[w].g = tx[w].g
          /\ tx'[w].rows = tx[w].rows /\ tx'[w].hit = tx[w].hit
      BY <1>a, <2>2 DEF TypeOK, Transaction
    <2>a. /\ tx[w].op = "reuse" /\ HoldsToken(w) /\ HoldsBoth(w)
          /\ rt' = rt /\ sess' = sess /\ rtLock' = rtLock /\ sLock' = sLock
      BY <1>3, <1>a
         DEF RefreshFamily, At, TxOK, HoldsBoth, HoldsToken, Refreshing, tables, locks
    <2>b. \A g \in G : rt[tx[w].s][g] # "none"
      OBVIOUS
    <2>4. TxOK(w)'
      BY <1>a, <2>3, <2>a, <2>b
         DEF TxOK, HoldsBoth, HoldsToken, Refreshing
    <2>5. Acquires(w)
      BY <1>3 DEF RefreshFamily, Acquires, locks, tables, IndInv, TypeOK
    <2>. QED
      BY <2>1, <2>2, <2>4, <2>5, StatementStep
  <1>4. CASE RefreshFamilyLock(w)
    <2>1. tx[w].op = "reuse" /\ tx[w].s \in Session
      BY <1>4, <1>a DEF RefreshFamilyLock, At, TxOK, Refreshing
    <2>2. ASSUME NEW g \in tx[w].gens, LockToken(w, tx[w].s, g),
                 tx' = [tx EXCEPT ![w].gens = @ \ {g}, ![w].fam = @ \cup {g}]
          PROVE  IndInv'
      <3> DEFINE r == [tx[w] EXCEPT !.gens = @ \ {g}, !.fam = @ \cup {g}]
      <3>1. g \in Gen
        BY <1>a DEF Transaction
      <3>2. r \in Transaction
        BY <1>a, <3>1 DEF Transaction
      <3>3. tx' = [tx EXCEPT ![w] = r]
        BY <1>a, <2>2 DEF TypeOK, Transaction
      <3>4. /\ tx'[w].op = tx[w].op /\ tx'[w].pc = tx[w].pc
            /\ tx'[w].gens = tx[w].gens \ {g} /\ tx'[w].fam = tx[w].fam \cup {g}
            /\ tx'[w].s = tx[w].s /\ tx'[w].g = tx[w].g
            /\ tx'[w].rows = tx[w].rows /\ tx'[w].hit = tx[w].hit
        BY <1>a, <3>3 DEF TypeOK, Transaction
      <3>5. Acquires(w)
        BY <1>4, <1>a, <2>1, <2>2, <3>1, LocksTaken
           DEF RefreshFamilyLock, Acquires, tables, TypeOK
      <3>6. rtLock'[tx[w].s][tx[w].g] = w
        BY <1>4, <1>a, <2>1, <3>5, WorkerAssumption
           DEF RefreshFamilyLock, At, TxOK, HoldsToken, Refreshing, Acquires, Transaction
      <3>7. TxOK(w)'
        BY <1>4, <1>a, <2>1, <3>4, <3>6
           DEF RefreshFamilyLock, At, TxOK, HoldsBoth, HoldsToken, Refreshing, tables
      <3>. QED
        BY <3>2, <3>3, <3>5, <3>7, StatementStep
    <2>3. CASE tx[w].gens = {} /\ Goto(w, "audit") /\ UNCHANGED rtLock
      <3>1. Acquires(w)
        BY <1>4, <2>3 DEF RefreshFamilyLock, Acquires, tables, IndInv, TypeOK
      <3>2. TxOK(w)'
        BY <1>4, <1>a, <2>1, <2>3, GotoFields
           DEF RefreshFamilyLock, At, TxOK, HoldsBoth, HoldsToken, Refreshing, tables
      <3>. QED
        BY <2>3, <3>1, <3>2, GotoStep DEF Pc
    <2>. QED
      BY <1>4, <2>2, <2>3 DEF RefreshFamilyLock
  <1>5. CASE RefreshRotate(w)
    <2>1. Acquires(w)
      BY <1>5 DEF RefreshRotate, Acquires, locks, tables, IndInv, TypeOK
    <2>2. TxOK(w)'
      BY <1>5, <1>a, GotoFields
         DEF RefreshRotate, At, TxOK, HoldsBoth, HoldsToken, Refreshing, tables, locks
    <2>. QED
      BY <1>5, <2>1, <2>2, GotoStep DEF RefreshRotate, Pc
  <1>. QED
    BY <1>1, <1>2, <1>3, <1>4, <1>5

-----------------------------------------------------------------------------
(* Logout, revocation and suspension, and the audit entry.                   *)

LEMMA RevokeStep ==
    ASSUME IndInv, NEW w \in Worker,
           \/ RevokeStatement(w) \/ RevokeAllBegin(w) \/ ChangeStatusLock(w)
           \/ RevokeAllLock(w) \/ Audit(w)
    PROVE  IndInv'
  <1>a. tx[w] \in Transaction /\ TxOK(w) /\ TypeOK
    BY DEF IndInv, TypeOK, TxInv
  <1>1. CASE RevokeStatement(w)
    <2>1. tx[w].s \in Session /\ tx[w].op \notin {"refresh", "reuse"}
      BY <1>1, <1>a DEF RevokeStatement, At, TxOK
    <2>2. CASE /\ sess[tx[w].s].status = "live" /\ LockSession(w, tx[w].s)
               /\ tx' = [tx EXCEPT ![w].hit = {tx[w].s}, ![w].pc = "audit"]
      <3> DEFINE r == [tx[w] EXCEPT !.hit = {tx[w].s}, !.pc = "audit"]
      <3>1. r \in Transaction
        BY <1>a, <2>1 DEF Transaction, Pc
      <3>2. tx' = [tx EXCEPT ![w] = r]
        BY <1>a, <2>2 DEF TypeOK, Transaction
      <3>3. /\ tx'[w].op = tx[w].op /\ tx'[w].pc = "audit"
            /\ tx'[w].rows = tx[w].rows /\ tx'[w].hit = {tx[w].s}
        BY <1>a, <3>2 DEF TypeOK, Transaction
      <3>4. Acquires(w) /\ sLock'[tx[w].s] = w
        BY <1>1, <1>a, <2>1, <2>2, LocksTaken
           DEF RevokeStatement, Acquires, tables, TypeOK
      <3>5. TxOK(w)'
        BY <1>1, <1>a, <2>1, <2>2, <3>3, <3>4
           DEF RevokeStatement, TxOK, HoldsBoth, HoldsToken, Refreshing, tables
      <3>. QED
        BY <3>1, <3>2, <3>4, <3>5, StatementStep
    <2>3. CASE Goto(w, "audit") /\ UNCHANGED sLock
      <3>1. Acquires(w)
        BY <1>1, <2>3 DEF RevokeStatement, Acquires, tables, IndInv, TypeOK
      <3>2. TxOK(w)'
        BY <1>1, <1>a, <2>1, <2>3, GotoFields
           DEF RevokeStatement, At, TxOK, HoldsBoth, HoldsToken, Refreshing, tables
      <3>. QED
        BY <2>3, <3>1, <3>2, GotoStep DEF Pc
    <2>. QED
      BY <1>1, <2>2, <2>3 DEF RevokeStatement
  <1>2. CASE RevokeAllBegin(w)
    <2> DEFINE r == [tx[w] EXCEPT !.rows = Live, !.pc = "lockAll"]
    <2>1. r \in Transaction
      BY <1>a DEF Transaction, Pc, Live
    <2>2. tx' = [tx EXCEPT ![w] = r]
      BY <1>2, <1>a DEF RevokeAllBegin, TypeOK, Transaction
    <2>3. /\ tx'[w].op = tx[w].op /\ tx'[w].pc = "lockAll"
          /\ tx'[w].rows = Live /\ tx'[w].hit = tx[w].hit
      BY <1>a, <2>2 DEF TypeOK, Transaction
    <2>4. TxOK(w)'
      BY <1>2, <1>a, <2>3
         DEF RevokeAllBegin, At, TxOK, HoldsBoth, HoldsToken, Refreshing, tables,
             locks, Live
    <2>5. Acquires(w)
      BY <1>2 DEF RevokeAllBegin, Acquires, locks, tables, IndInv, TypeOK
    <2>. QED
      BY <2>1, <2>2, <2>4, <2>5, StatementStep
  <1>3. CASE ChangeStatusLock(w)
    <2> DEFINE R == IF tx[w].op = "suspend" THEN Live ELSE {}
               r == [tx[w] EXCEPT !.rows = R, !.pc = "lockAll"]
    <2>1. R \subseteq {s \in Session : sess[s].status # "free"}
      BY DEF Live
    <2>2. r \in Transaction
      BY <1>a, <2>1 DEF Transaction, Pc
    <2>3. tx' = [tx EXCEPT ![w] = r]
      BY <1>3, <1>a DEF ChangeStatusLock, TypeOK, Transaction
    <2> HIDE DEF R
    <2>4. /\ tx'[w].op = tx[w].op /\ tx'[w].pc = "lockAll"
          /\ tx'[w].rows = R /\ tx'[w].hit = tx[w].hit
      BY <1>a, <2>3 DEF TypeOK, Transaction
    <2>5. TxOK(w)'
      BY <1>3, <1>a, <2>1, <2>4
         DEF ChangeStatusLock, At, TxOK, HoldsBoth, HoldsToken, Refreshing, tables
    <2>6. Acquires(w)
      BY <1>3 DEF ChangeStatusLock, Acquires, tables, IndInv, TypeOK
    <2>. QED
      BY <2>2, <2>3, <2>5, <2>6, StatementStep
  <1>4. CASE RevokeAllLock(w)
    <2>1. tx[w].op \notin {"refresh", "reuse"}
      BY <1>4, <1>a DEF RevokeAllLock, At, TxOK
    <2>2. CASE tx[w].rows = {} /\ Goto(w, "audit") /\ UNCHANGED sLock
      <3>1. Acquires(w)
        BY <1>4, <2>2 DEF RevokeAllLock, Acquires, tables, IndInv, TypeOK
      <3>2. TxOK(w)'
        BY <1>4, <1>a, <2>1, <2>2, GotoFields
           DEF RevokeAllLock, At, TxOK, HoldsBoth, HoldsToken, Refreshing, tables
      <3>. QED
        BY <2>2, <3>1, <3>2, GotoStep DEF Pc
    <2>3. ASSUME NEW s \in tx[w].rows,
                 \/ /\ sess[s].status = "live"
                    /\ LockSession(w, s)
                    /\ tx' = [tx EXCEPT ![w].rows = @ \ {s}, ![w].hit = @ \cup {s}]
                 \/ /\ tx' = [tx EXCEPT ![w].rows = @ \ {s}]
                    /\ UNCHANGED sLock
          PROVE  IndInv'
      <3>1. s \in Session
        BY <1>a DEF Transaction
      <3>2. Acquires(w)
        BY <1>4, <1>a, <2>3, <3>1, LocksTaken
           DEF RevokeAllLock, Acquires, tables, TypeOK
      <3> DEFINE q == [tx[w] EXCEPT !.rows = @ \ {s}]
                 r == [tx[w] EXCEPT !.rows = @ \ {s}, !.hit = @ \cup {s}]
      <3>3. q \in Transaction /\ r \in Transaction
        BY <1>a, <3>1 DEF Transaction
      <3>4. tx' = [tx EXCEPT ![w] = q] \/ tx' = [tx EXCEPT ![w] = r]
        BY <2>3, <1>a DEF TypeOK, Transaction
      <3>5. /\ tx'[w].pc = tx[w].pc /\ tx'[w].op = tx[w].op
            /\ tx'[w].rows \subseteq tx[w].rows
            /\ \A h \in tx'[w].hit : sLock'[h] = w /\ sess[h].status = "live"
        BY <1>a, <2>3, <3>1 DEF TypeOK, Transaction, TxOK, LockSession
      <3>6. TxOK(w)'
        BY <1>4, <1>a, <2>1, <3>5
           DEF RevokeAllLock, At, TxOK, HoldsBoth, HoldsToken, Refreshing, tables
      <3>. QED
        BY <3>2, <3>3, <3>4, <3>6, StatementStep
    <2>. QED
      BY <1>4, <2>2, <2>3 DEF RevokeAllLock
  <1>5. CASE Audit(w)
    <2>1. Acquires(w)
      BY <1>5 DEF Audit, Free, Acquires, tables, IndInv, TypeOK
    <2>2. TxOK(w)'
      BY <1>5, <1>a, GotoFields
         DEF Audit, At, TxOK, HoldsBoth, HoldsToken, Refreshing, tables
    <2>. QED
      BY <1>5, <2>1, <2>2, GotoStep DEF Audit, Pc
  <1>. QED
    BY <1>1, <1>2, <1>3, <1>4, <1>5

-----------------------------------------------------------------------------
(* Commits and rollbacks.                                                    *)

LEMMA RollbackStep ==
    ASSUME IndInv, NEW w \in Worker, Rollback(w)
    PROVE  IndInv'
  <1>1. End(w) /\ UNCHANGED <<clock, userStatus, sess, rt, rtExp, reused>>
    BY DEF Rollback, tables
  <1>2. TableInv'
    BY <1>1 DEF IndInv, TableInv, AccessFollowsRefresh, ReusedFamilyIsDead
  <1>. QED
    BY <1>1, <1>2, EndStep DEF IndInv, TypeOK

\* What a commit makes of the sessions it revokes.
LEMMA RevokedFields ==
    ASSUME IndInv, NEW w \in Worker
    PROVE  LET R == Revoked(tx[w].hit)
           IN  /\ R \in [Session -> SessionRow]
               /\ \A s \in Session :
                     /\ s \in tx[w].hit => /\ R[s].status = "revoked"
                                          /\ sLock[s] = w
                                          /\ sess[s].status = "live"
                     /\ s \notin tx[w].hit => R[s] = sess[s]
  <1>1. TxOK(w)
    BY DEF IndInv, TxInv
  <1>2. \A s \in Session : [sess[s] EXCEPT !.status = "revoked"] \in SessionRow
                             /\ [sess[s] EXCEPT !.status = "revoked"].status = "revoked"
    BY DEF IndInv, TypeOK, SessionRow
  <1>. QED
    BY <1>1, <1>2 DEF IndInv, TypeOK, Revoked, TxOK

LEMMA RowsTyped ==
    /\ \A t \in Nat : NewRow(t) \in SessionRow
    /\ \A row \in SessionRow, g \in Gen, t \in Nat : RotatedRow(row, g, t) \in SessionRow
    /\ \A t \in Nat, abs \in Nat : RefreshExpiry(t, abs) \in Nat
  <1>1. \A a \in Nat, b \in Nat : Earlier(a, b) \in Nat
    BY DEF Earlier
  <1>2. 0 \in Gen
    BY ConfigAssumption DEF Gen
  <1>3. ASSUME NEW t \in Nat PROVE NewRow(t) \in SessionRow
    <2>1. t + AccessTtl \in Nat /\ t + IdleTtl \in Nat /\ t + AbsoluteTtl \in Nat
      BY ConfigAssumption
    <2>. QED
      BY <1>1, <1>2, <2>1 DEF NewRow, SessionRow
  <1>4. ASSUME NEW row \in SessionRow, NEW g \in Gen, NEW t \in Nat
        PROVE  RotatedRow(row, g, t) \in SessionRow
    <2>1. t + AccessTtl \in Nat /\ t + IdleTtl \in Nat /\ row.abs \in Nat
      BY ConfigAssumption DEF SessionRow
    <2>2. Earlier(t + AccessTtl, row.abs) \in Nat /\ Earlier(t + IdleTtl, row.abs) \in Nat
      BY <1>1, <2>1
    <2>. QED
      BY <2>2 DEF RotatedRow, SessionRow
  <1>5. ASSUME NEW t \in Nat, NEW abs \in Nat PROVE RefreshExpiry(t, abs) \in Nat
    <2>1. t + RefreshTtl \in Nat
      BY ConfigAssumption
    <2>. QED
      BY <1>1, <2>1 DEF RefreshExpiry
  <1>. QED
    BY <1>3, <1>4, <1>5

LEMMA CommitLoginStep ==
    ASSUME IndInv, NEW w \in Worker, CommitLogin(w)
    PROVE  IndInv'
  <1>a. tx[w] \in Transaction /\ TypeOK /\ TableInv /\ tx[w].t0 \in Nat
    BY DEF IndInv, TypeOK, Transaction
  <1> DEFINE R == Revoked(tx[w].hit)
  <1>1. PICK s \in Session :
          /\ sess[s].status = "free"
          /\ sess' = [R EXCEPT ![s] = NewRow(tx[w].t0)]
          /\ rt' = [rt EXCEPT ![s][0] = "live"]
          /\ rtExp' = [rtExp EXCEPT ![s][0] =
                        RefreshExpiry(tx[w].t0, tx[w].t0 + AbsoluteTtl)]
    BY DEF CommitLogin
  <1>2. NewRow(tx[w].t0) \in SessionRow
        /\ NewRow(tx[w].t0).status = "live" /\ NewRow(tx[w].t0).token = 0
    BY <1>a, RowsTyped DEF NewRow
  <1>3. RefreshExpiry(tx[w].t0, tx[w].t0 + AbsoluteTtl) \in Nat
    <2>1. tx[w].t0 + AbsoluteTtl \in Nat
      BY <1>a, ConfigAssumption
    <2>. QED
      BY <1>a, <2>1, RowsTyped
  <1>4. 0 \in Gen
    BY ConfigAssumption DEF Gen
  <1>5. /\ R \in [Session -> SessionRow]
        /\ \A q \in Session :
              /\ q \in tx[w].hit => /\ R[q].status = "revoked"
                                   /\ sLock[q] = w
                                   /\ sess[q].status = "live"
              /\ q \notin tx[w].hit => R[q] = sess[q]
    BY RevokedFields
  <1> HIDE DEF R
  <1>6. /\ sess' \in [Session -> SessionRow]
        /\ rt' \in [Session -> [Gen -> {"none", "live", "consumed"}]]
        /\ rtExp' \in [Session -> [Gen -> Nat]]
    BY <1>a, <1>1, <1>2, <1>3, <1>4, <1>5 DEF TypeOK
  <1>7. /\ sess'[s].status = "live" /\ sess'[s].token = 0
        /\ rt'[s][0] = "live"
        /\ \A g \in Gen : g # 0 => rt'[s][g] = "none"
        /\ s \notin reused
    BY <1>a, <1>1, <1>2, <1>4, <1>5 DEF TypeOK, TableInv, ReusedFamilyIsDead
  <1>8. \A q \in Session : q # s =>
          /\ rt'[q] = rt[q]
          /\ sess'[q] = sess[q] \/ (/\ sess'[q].status = "revoked"
                                    /\ sess[q].status = "live" /\ sLock[q] = w)
    BY <1>a, <1>1, <1>5 DEF TypeOK
  <1>9. TableInv'
    <2>1. reused' = reused
      BY DEF CommitLogin
    <2>2. ASSUME NEW q \in Session
          PROVE  /\ sess'[q].status = "free" => \A g \in Gen : rt'[q][g] = "none"
                 /\ \A g, h \in Gen : rt'[q][g] = "live" /\ h > g => rt'[q][h] = "none"
                 /\ sess'[q].status = "live" =>
                       /\ rt'[q][sess'[q].token] = "live"
                       /\ \A g \in Gen : g > sess'[q].token => rt'[q][g] = "none"
                 /\ q \in reused => /\ sess'[q].status = "revoked"
                                    /\ \A g \in Gen : rt'[q][g] # "live"
      <3>1. CASE q = s
        BY <1>7, <3>1 DEF Gen
      <3>2. CASE q # s
        BY <1>a, <1>8, <3>2 DEF TableInv, AccessFollowsRefresh, ReusedFamilyIsDead
      <3>. QED
        BY <3>1, <3>2
    <2>3. reused \subseteq Session
      BY <1>a DEF TypeOK
    <2>. QED
      BY <2>1, <2>2, <2>3 DEF TableInv, AccessFollowsRefresh, ReusedFamilyIsDead
  <1>10. \A q \in Session : sess[q].status # "free" /\ sLock[q] # w =>
               sess'[q] = sess[q] /\ rt'[q] = rt[q]
    BY <1>1, <1>8
  <1>11. \A q \in Session, g \in Gen : rt[q][g] # "none" => rt'[q][g] # "none"
    BY <1>a, <1>1 DEF TypeOK
  <1>12. \A q \in Session : sess[q].status # "free" => sess'[q].status # "free"
    BY <1>1, <1>8
  <1>. QED
    BY <1>a, <1>6, <1>9, <1>10, <1>11, <1>12, EndStep DEF CommitLogin, TypeOK

LEMMA CommitRotateStep ==
    ASSUME IndInv, NEW w \in Worker, CommitRotate(w)
    PROVE  IndInv'
  <1> DEFINE s == tx[w].s
             g == tx[w].g
             row == RotatedRow(sess[s], g + 1, tx[w].t0)
  <1>a. tx[w] \in Transaction /\ TypeOK /\ TableInv /\ TxOK(w)
    BY DEF IndInv, TypeOK, TxInv
  <1>1. /\ s \in Session /\ g \in Gen /\ g + 1 \in Gen /\ tx[w].t0 \in Nat
        /\ rt[s][g] = "live" /\ sess[s].status = "live" /\ sLock[s] = w
    BY <1>a, ConfigAssumption
       DEF CommitRotate, At, TxOK, HoldsBoth, HoldsToken, Refreshing, Transaction, Gen
  <1>2. row \in SessionRow /\ row.status = "live" /\ row.token = g + 1
    <2>1. sess[s] \in SessionRow
      BY <1>a, <1>1 DEF TypeOK
    <2>2. row \in SessionRow
      BY <1>1, <2>1, RowsTyped
    <2>3. row.status = sess[s].status /\ row.token = g + 1
      BY <2>1 DEF RotatedRow, SessionRow
    <2>. QED
      BY <1>1, <2>2, <2>3
  <1>3. RefreshExpiry(tx[w].t0, sess[s].abs) \in Nat
    BY <1>a, <1>1, RowsTyped DEF TypeOK, SessionRow
  <1>4. /\ sess' = [sess EXCEPT ![s] = row]
        /\ rt' = [rt EXCEPT ![s][g] = "consumed", ![s][g + 1] = "live"]
        /\ rtExp' = [rtExp EXCEPT ![s][g + 1] =
                       RefreshExpiry(tx[w].t0, sess[s].abs)]
        /\ End(w) /\ UNCHANGED <<clock, userStatus, reused>>
    BY DEF CommitRotate
  <1> HIDE DEF s, g, row
  <1>5. /\ sess' \in [Session -> SessionRow]
        /\ rt' \in [Session -> [Gen -> {"none", "live", "consumed"}]]
        /\ rtExp' \in [Session -> [Gen -> Nat]]
    BY <1>a, <1>1, <1>2, <1>3, <1>4 DEF TypeOK
  <1>6. \A q \in Session : q # s => rt'[q] = rt[q] /\ sess'[q] = sess[q]
    BY <1>a, <1>1, <1>4 DEF TypeOK
  <1>7. /\ sess'[s] = row
        /\ rt'[s][g] = "consumed" /\ rt'[s][g + 1] = "live"
        /\ \A h \in Gen : h # g /\ h # g + 1 => rt'[s][h] = rt[s][h]
    <2>1. rt'[s] = [rt[s] EXCEPT ![g] = "consumed", ![g + 1] = "live"]
      BY <1>a, <1>1, <1>4 DEF TypeOK
    <2>2. sess'[s] = row
      BY <1>a, <1>1, <1>4 DEF TypeOK
    <2>3. rt[s] \in [Gen -> {"none", "live", "consumed"}] /\ g # g + 1
      BY <1>a, <1>1 DEF TypeOK, Gen
    <2>. QED
      BY <1>1, <2>1, <2>2, <2>3
  <1>8. /\ \A h \in Gen : h > g => rt[s][h] = "none"
        /\ \A h \in Gen : h < g => rt[s][h] # "live"
        /\ s \notin reused
    BY <1>a, <1>1 DEF TableInv, ReusedFamilyIsDead, Gen
  <1>9. TableInv'
    <2>1. ASSUME NEW q \in Session
          PROVE  /\ sess'[q].status = "free" => \A h \in Gen : rt'[q][h] = "none"
                 /\ \A h, k \in Gen : rt'[q][h] = "live" /\ k > h => rt'[q][k] = "none"
                 /\ sess'[q].status = "live" =>
                       /\ rt'[q][sess'[q].token] = "live"
                       /\ \A h \in Gen : h > sess'[q].token => rt'[q][h] = "none"
                 /\ q \in reused => /\ sess'[q].status = "revoked"
                                    /\ \A h \in Gen : rt'[q][h] # "live"
      <3>1. CASE q = s
        BY <1>1, <1>2, <1>7, <1>8, <3>1, ConfigAssumption DEF Gen
      <3>2. CASE q # s
        BY <1>a, <1>6, <3>2 DEF TableInv, AccessFollowsRefresh, ReusedFamilyIsDead
      <3>. QED
        BY <3>1, <3>2
    <2>2. reused \subseteq Session
      BY <1>a DEF TypeOK
    <2>. QED
      BY <1>4, <2>1, <2>2 DEF TableInv, AccessFollowsRefresh, ReusedFamilyIsDead
  <1>10. \A q \in Session, h \in Gen : rt[q][h] # "none" => rt'[q][h] # "none"
    BY <1>1, <1>6, <1>7
  <1>11. \A q \in Session : sess[q].status # "free" => sess'[q].status # "free"
    BY <1>2, <1>6, <1>7
  <1>. QED
    BY <1>a, <1>1, <1>4, <1>5, <1>6, <1>9, <1>10, <1>11, EndStep DEF TypeOK

LEMMA CommitReuseStep ==
    ASSUME IndInv, NEW w \in Worker, CommitReuse(w)
    PROVE  IndInv'
  <1> DEFINE s == tx[w].s
             R == Revoked(tx[w].hit)
             dead == [g \in Gen |-> IF g \in tx[w].fam THEN "consumed" ELSE rt[s][g]]
  <1>a. tx[w] \in Transaction /\ TypeOK /\ TableInv /\ TxOK(w)
    BY DEF IndInv, TypeOK, TxInv
  <1>1. /\ s \in Session /\ sLock[s] = w
        /\ rt[s][tx[w].g] # "none" /\ tx[w].g \in Gen
        /\ sess[s].status = "live" => s \in tx[w].hit
        /\ \A g \in Gen : rt[s][g] = "live" => g \in tx[w].fam
    BY <1>a DEF CommitReuse, At, TxOK, HoldsBoth, HoldsToken, Refreshing, Transaction
  <1>2. /\ sess' = R /\ rt' = [rt EXCEPT ![s] = dead] /\ reused' = reused \cup {s}
        /\ End(w) /\ UNCHANGED <<clock, userStatus, rtExp>>
    BY DEF CommitReuse
  <1>3. /\ R \in [Session -> SessionRow]
        /\ \A q \in Session :
              /\ q \in tx[w].hit => /\ R[q].status = "revoked"
                                   /\ sLock[q] = w
                                   /\ sess[q].status = "live"
              /\ q \notin tx[w].hit => R[q] = sess[q]
    BY RevokedFields
  <1>4. sess[s].status # "free"
    BY <1>a, <1>1 DEF TableInv
  <1>5. /\ dead \in [Gen -> {"none", "live", "consumed"}]
        /\ \A g \in Gen : dead[g] # "live" /\ (rt[s][g] = "none" => g \in tx[w].fam \/ dead[g] = "none")
        /\ \A g \in Gen : rt[s][g] # "none" => dead[g] # "none"
    BY <1>a, <1>1 DEF TypeOK
  <1> HIDE DEF s, R, dead
  <1>6. /\ rt' \in [Session -> [Gen -> {"none", "live", "consumed"}]]
        /\ rt'[s] = dead /\ \A q \in Session : q # s => rt'[q] = rt[q]
    BY <1>a, <1>1, <1>2, <1>5 DEF TypeOK
  <1>7. sess'[s].status = "revoked"
    <2>1. sess[s].status \in {"live", "revoked"}
      BY <1>a, <1>1, <1>4 DEF TypeOK, SessionRow
    <2>. QED
      BY <1>1, <1>2, <1>3, <2>1
  <1>8. TableInv'
    <2>1. ASSUME NEW q \in Session
          PROVE  /\ sess'[q].status = "free" => \A h \in Gen : rt'[q][h] = "none"
                 /\ \A h, k \in Gen : rt'[q][h] = "live" /\ k > h => rt'[q][k] = "none"
                 /\ sess'[q].status = "live" =>
                       /\ rt'[q][sess'[q].token] = "live"
                       /\ \A h \in Gen : h > sess'[q].token => rt'[q][h] = "none"
                 /\ q \in reused' => /\ sess'[q].status = "revoked"
                                     /\ \A h \in Gen : rt'[q][h] # "live"
      <3>1. CASE q = s
        BY <1>5, <1>6, <1>7, <3>1
      <3>2. CASE q # s
        BY <1>a, <1>2, <1>3, <1>6, <3>2
           DEF TableInv, AccessFollowsRefresh, ReusedFamilyIsDead
      <3>. QED
        BY <3>1, <3>2
    <2>2. reused' \subseteq Session
      BY <1>a, <1>1, <1>2 DEF TypeOK
    <2>. QED
      BY <2>1, <2>2 DEF TableInv, AccessFollowsRefresh, ReusedFamilyIsDead
  <1>9. \A q \in Session : sess[q].status # "free" /\ sLock[q] # w =>
               sess'[q] = sess[q] /\ rt'[q] = rt[q]
    BY <1>1, <1>2, <1>3, <1>6
  <1>10. \A q \in Session, h \in Gen : rt[q][h] # "none" => rt'[q][h] # "none"
    BY <1>5, <1>6
  <1>11. \A q \in Session : sess[q].status # "free" => sess'[q].status # "free"
    BY <1>2, <1>3
  <1>. QED
    BY <1>a, <1>1, <1>2, <1>3, <1>6, <1>8, <1>9, <1>10, <1>11, EndStep DEF TypeOK

LEMMA CommitRevokeStep ==
    ASSUME IndInv, NEW w \in Worker, CommitRevoke(w) \/ CommitStatus(w)
    PROVE  IndInv'
  <1> DEFINE R == Revoked(tx[w].hit)
  <1>a. TypeOK /\ TableInv
    BY DEF IndInv
  <1>1. /\ sess' = R /\ End(w) /\ UNCHANGED <<clock, rt, rtExp, reused>>
        /\ userStatus' \in Status
    BY <1>a DEF CommitRevoke, CommitStatus, TypeOK, Status
  <1>2. /\ R \in [Session -> SessionRow]
        /\ \A q \in Session :
              /\ q \in tx[w].hit => /\ R[q].status = "revoked"
                                   /\ sLock[q] = w
                                   /\ sess[q].status = "live"
              /\ q \notin tx[w].hit => R[q] = sess[q]
    BY RevokedFields
  <1> HIDE DEF R
  <1>3. TableInv'
    <2>1. reused \subseteq Session
      BY <1>a DEF TypeOK
    <2>. QED
      BY <1>a, <1>1, <1>2, <2>1
         DEF TableInv, AccessFollowsRefresh, ReusedFamilyIsDead
  <1>4. \A q \in Session : sess[q].status # "free" /\ sLock[q] # w =>
               sess'[q] = sess[q] /\ rt'[q] = rt[q]
    BY <1>1, <1>2
  <1>5. \A q \in Session : sess[q].status # "free" => sess'[q].status # "free"
    BY <1>1, <1>2
  <1>. QED
    BY <1>a, <1>1, <1>2, <1>3, <1>4, <1>5, EndStep DEF TypeOK

-----------------------------------------------------------------------------
(* The invariant, and the theorems.                                          *)

LEMMA InitInv == Init => IndInv
  <1> SUFFICES ASSUME Init PROVE IndInv
    OBVIOUS
  <1>1. TypeOK
    BY InitTyped
  <1>2. \A w \in Worker : tx[w] = IdleTx
    BY DEF Init
  <1>3. TxInv
    BY <1>2 DEF TxInv, TxOK, IdleTx, HoldsBoth, HoldsToken, Refreshing
  <1>4. TableInv
    BY DEF Init, TableInv, AccessFollowsRefresh, ReusedFamilyIsDead, NoRow
  <1>. QED
    BY <1>1, <1>3, <1>4 DEF IndInv

LEMMA NextInv == IndInv /\ [Next]_vars => IndInv'
  <1> SUFFICES ASSUME IndInv, [Next]_vars
               PROVE  IndInv'
    OBVIOUS
  <1>1. CASE Tick
    <2>1. UNCHANGED <<userStatus, sess, rt, rtExp, reused, tx, sLock, rtLock,
                      headLock, userLock, userShare>>
      BY <1>1 DEF Tick, tables, locks
    <2>2. TypeOK'
      BY <1>1, <2>1 DEF Tick, IndInv, TypeOK
    <2>3. TxInv'
      BY <2>1 DEF IndInv, TxInv, TxOK, HoldsBoth, HoldsToken, Refreshing
    <2>4. TableInv'
      BY <2>1 DEF IndInv, TableInv, AccessFollowsRefresh, ReusedFamilyIsDead
    <2>. QED
      BY <2>2, <2>3, <2>4 DEF IndInv
  <1>2. ASSUME NEW w \in Worker, Request(w)
        PROVE  IndInv'
    BY <1>2, RequestStep
  <1>3. ASSUME NEW w \in Worker, Progress(w)
        PROVE  IndInv'
    <2>1. RefreshRejected(w) \/ RevokeNotFound(w) => Rollback(w)
      BY DEF RefreshRejected, RevokeNotFound
    <2>. QED
      BY <1>3, <2>1, LoginStep, RefreshStep, RevokeStep, RollbackStep,
         CommitLoginStep, CommitRotateStep, CommitReuseStep, CommitRevokeStep
         DEF Progress
  <1>4. ASSUME NEW w \in Worker, Abort(w)
        PROVE  IndInv'
    BY <1>4, RollbackStep DEF Abort
  <1>5. CASE UNCHANGED vars
    <2>1. UNCHANGED <<clock, userStatus, sess, rt, rtExp, reused, tx, sLock,
                      rtLock, headLock, userLock, userShare>>
      BY <1>5 DEF vars, tables, locks
    <2>. QED
      BY <2>1 DEF IndInv, TypeOK, TxInv, TxOK, HoldsBoth, HoldsToken, Refreshing,
                  TableInv, AccessFollowsRefresh, ReusedFamilyIsDead
  <1>. QED
    BY <1>1, <1>2, <1>3, <1>4, <1>5 DEF Next

\* Every reachable state of the transactions and the tables is well formed,
\* and the locks and what was read under them agree.
THEOREM Invariant == Spec => []IndInv
  BY InitInv, NextInv, PTL DEF Spec

\* No value of the tables or of a transaction is ever ill-formed.
THEOREM TypeCorrect == Spec => []TypeOK
  <1>1. IndInv => TypeOK
    BY DEF IndInv
  <1>. QED
    BY <1>1, Invariant, PTL

\* No second valid chain: a session never has two exchangeable refresh tokens
\* (refresh).
THEOREM NoSecondChain == Spec => []OneLiveGeneration
  <1>1. IndInv => OneLiveGeneration
    BY ConfigAssumption DEF IndInv, TableInv, OneLiveGeneration, Gen
  <1>. QED
    BY <1>1, Invariant, PTL

\* Reuse detection kills the family: the session and every refresh token of
\* it (the ReuseDetected branch of refresh).
THEOREM ReuseKillsFamily == Spec => []ReusedFamilyIsDead
  <1>1. IndInv => ReusedFamilyIsDead
    BY DEF IndInv, TableInv
  <1>. QED
    BY <1>1, Invariant, PTL

\* A live session's access token and exchangeable refresh token were minted
\* together (rotate_access_token).
THEOREM PairMintedTogether == Spec => []AccessFollowsRefresh
  <1>1. IndInv => AccessFollowsRefresh
    BY DEF IndInv, TableInv
  <1>. QED
    BY <1>1, Invariant, PTL

-----------------------------------------------------------------------------
(* Only the five commits write the tables.                                   *)

LEMMA TableSteps ==
    ASSUME [Next]_vars
    PROVE  \/ UNCHANGED tables
           \/ \E w \in Worker : \/ CommitLogin(w) \/ CommitRotate(w) \/ CommitReuse(w)
                               \/ CommitRevoke(w) \/ CommitStatus(w)
  <1>1. ASSUME NEW w \in Worker, Request(w)
        PROVE  UNCHANGED tables
    BY <1>1 DEF Request, LoginVerify, RefreshBegin, RevokeBegin, LogoutAllBegin,
                ChangeStatusBegin
  <1>2. ASSUME NEW w \in Worker, Progress(w)
        PROVE  \/ UNCHANGED tables
               \/ CommitLogin(w) \/ CommitRotate(w) \/ CommitReuse(w)
               \/ CommitRevoke(w) \/ CommitStatus(w)
    <2>1. CASE \/ LoginCount(w) \/ LoginOldest(w) \/ LoginEvict(w)
               \/ LoginEvictAudit(w) \/ LoginEvictActor(w) \/ LoginInsert(w)
      BY <2>1 DEF LoginCount, LoginOldest, LoginEvict, LoginEvictAudit,
                  LoginEvictActor, LoginInsert
    <2>2. CASE \/ RefreshLockToken(w) \/ RefreshLockSession(w) \/ RefreshRejected(w)
               \/ RefreshFamily(w) \/ RefreshFamilyLock(w) \/ RefreshRotate(w)
      BY <2>2 DEF RefreshLockToken, RefreshLockSession, RefreshRejected, Rollback,
                  RefreshFamily, RefreshFamilyLock, RefreshRotate
    <2>3. CASE \/ RevokeStatement(w) \/ RevokeNotFound(w) \/ RevokeAllBegin(w)
               \/ ChangeStatusLock(w) \/ RevokeAllLock(w) \/ Audit(w)
      BY <2>3 DEF RevokeStatement, RevokeNotFound, Rollback, RevokeAllBegin,
                  ChangeStatusLock, RevokeAllLock, Audit
    <2>. QED
      BY <1>2, <2>1, <2>2, <2>3 DEF Progress
  <1>3. ASSUME NEW w \in Worker, Abort(w)
        PROVE  UNCHANGED tables
    BY <1>3 DEF Abort, Rollback
  <1>4. CASE Tick
    BY <1>4 DEF Tick
  <1>5. CASE UNCHANGED vars
    BY <1>5 DEF vars
  <1>. QED
    BY <1>1, <1>2, <1>3, <1>4, <1>5 DEF Next

\* The step form of RevocationIsFinal.
LEMMA RevokedStaysRevoked ==
    ASSUME IndInv, [Next]_vars, NEW s \in Session, sess[s].status = "revoked"
    PROVE  /\ sess'[s] = sess[s]
           /\ \A g \in Gen : rt[s][g] = "none" => rt'[s][g] = "none"
  <1>a. TypeOK
    BY DEF IndInv
  <1>1. CASE UNCHANGED tables
    BY <1>1 DEF tables
  <1>2. ASSUME NEW w \in Worker, CommitLogin(w)
        PROVE  sess'[s] = sess[s] /\ rt'[s] = rt[s]
    <2> DEFINE R == Revoked(tx[w].hit)
    <2>1. PICK q \in Session :
            /\ sess[q].status = "free"
            /\ sess' = [R EXCEPT ![q] = NewRow(tx[w].t0)]
            /\ rt' = [rt EXCEPT ![q][0] = "live"]
      BY <1>2 DEF CommitLogin
    <2>2. R \in [Session -> SessionRow] /\ R[s] = sess[s]
      BY RevokedFields
    <2> HIDE DEF R
    <2>. QED
      BY <1>a, <2>1, <2>2 DEF TypeOK
  <1>3. ASSUME NEW w \in Worker, CommitRotate(w)
        PROVE  sess'[s] = sess[s] /\ rt'[s] = rt[s]
    <2>1. /\ tx[w].s \in Session /\ sess[tx[w].s].status = "live"
          /\ \E row : sess' = [sess EXCEPT ![tx[w].s] = row]
          /\ rt' = [rt EXCEPT ![tx[w].s][tx[w].g] = "consumed",
                              ![tx[w].s][tx[w].g + 1] = "live"]
      BY <1>3 DEF CommitRotate, At, IndInv, TxInv, TxOK, HoldsBoth, HoldsToken,
                  Refreshing
    <2>. QED
      BY <1>a, <2>1 DEF TypeOK
  <1>4. ASSUME NEW w \in Worker, CommitReuse(w)
        PROVE  /\ sess'[s] = sess[s]
               /\ \A g \in Gen : rt[s][g] = "none" => rt'[s][g] = "none"
    <2>1. tx[w].s \in Session
          /\ \A g \in tx[w].fam : rt[tx[w].s][g] # "none"
      BY <1>4 DEF CommitReuse, IndInv, TxInv, TxOK, Refreshing
    <2>2. rt' = [rt EXCEPT ![tx[w].s] = [g \in Gen |->
                    IF g \in tx[w].fam THEN "consumed" ELSE rt[tx[w].s][g]]]
          /\ sess' = Revoked(tx[w].hit)
      BY <1>4 DEF CommitReuse
    <2>. QED
      BY <1>a, <2>1, <2>2, RevokedFields DEF TypeOK
  <1>5. ASSUME NEW w \in Worker, CommitRevoke(w) \/ CommitStatus(w)
        PROVE  sess'[s] = sess[s] /\ rt'[s] = rt[s]
    BY <1>5, RevokedFields DEF CommitRevoke, CommitStatus
  <1>. QED
    BY <1>1, <1>2, <1>3, <1>4, <1>5, TableSteps

\* A session that was revoked stays so and mints no token any more, whatever
\* was in flight at the time (rotate_access_token, lock_refresh_token).
THEOREM RevocationFinal == Spec => RevocationIsFinal
  <1>1. IndInv /\ [Next]_vars =>
          [\A s \in Session : sess[s].status = "revoked" =>
              /\ sess'[s] = sess[s]
              /\ \A g \in Gen : rt[s][g] = "none" => rt'[s][g] = "none"]_vars
    BY RevokedStaysRevoked
  <1>. QED
    BY <1>1, Invariant, PTL DEF Spec, RevocationIsFinal

-----------------------------------------------------------------------------
(* The absolute lifetime.                                                    *)

\* CeilingHolds, strengthened: the tokens of a session that was never opened
\* have no expiry yet.
CeilingInv ==
    /\ CeilingHolds
    /\ \A s \in Session, g \in Gen : sess[s].status = "free" => rtExp[s][g] = 0

LEMMA EarlierIsBelow == \A a \in Nat, b \in Nat : Earlier(a, b) \in Nat /\ Earlier(a, b) <= b
  BY DEF Earlier

LEMMA CeilingStep ==
    ASSUME IndInv, CeilingInv, [Next]_vars
    PROVE  CeilingInv'
  <1>a. TypeOK
    BY DEF IndInv
  <1>1. CASE UNCHANGED tables
    BY <1>1 DEF tables, CeilingInv, CeilingHolds
  <1>2. ASSUME NEW w \in Worker,
               sess' = Revoked(tx[w].hit), rtExp' = rtExp
        PROVE  CeilingInv'
    <2>1. \A s \in Session :
            /\ sess'[s].abs = sess[s].abs /\ sess'[s].created = sess[s].created
            /\ sess'[s].access = sess[s].access /\ sess'[s].idle = sess[s].idle
            /\ sess'[s].status = "free" <=> sess[s].status = "free"
      <3>1. \A s \in tx[w].hit : sess[s].status = "live"
        BY DEF IndInv, TxInv, TxOK
      <3>. QED
        BY <1>a, <1>2, <3>1 DEF Revoked, TypeOK, SessionRow
    <2>. QED
      BY <1>2, <2>1 DEF CeilingInv, CeilingHolds
  <1>3. ASSUME NEW w \in Worker, CommitLogin(w)
        PROVE  CeilingInv'
    <2> DEFINE R == Revoked(tx[w].hit)
               t == tx[w].t0
               n == NewRow(t)
               e == RefreshExpiry(t, t + AbsoluteTtl)
    <2>1. PICK s \in Session :
            /\ sess[s].status = "free"
            /\ sess' = [R EXCEPT ![s] = n]
            /\ rtExp' = [rtExp EXCEPT ![s][0] = e]
      BY <1>3 DEF CommitLogin
    <2>2. t \in Nat /\ t + AbsoluteTtl \in Nat /\ t + AccessTtl \in Nat
          /\ t + IdleTtl \in Nat /\ t + RefreshTtl \in Nat
      BY <1>a, ConfigAssumption DEF TypeOK, Transaction
    <2>3. /\ n.abs = n.created + AbsoluteTtl /\ n.access <= n.abs /\ n.idle <= n.abs
          /\ n.abs \in Nat /\ e <= n.abs /\ n.status = "live"
      BY <2>2, EarlierIsBelow DEF NewRow, RefreshExpiry
    <2>4. /\ R \in [Session -> SessionRow]
          /\ \A q \in Session :
               /\ R[q].abs = sess[q].abs /\ R[q].created = sess[q].created
               /\ R[q].access = sess[q].access /\ R[q].idle = sess[q].idle
               /\ R[q].status = "free" <=> sess[q].status = "free"
      <3>1. \A q \in tx[w].hit : sess[q].status = "live"
        BY DEF IndInv, TxInv, TxOK
      <3>2. R \in [Session -> SessionRow]
        BY RevokedFields
      <3>. QED
        BY <1>a, <3>1, <3>2 DEF Revoked, TypeOK, SessionRow
    <2> HIDE DEF R, t, n, e
    <2>5. \A q \in Session : q # s => sess'[q] = R[q] /\ rtExp'[q] = rtExp[q]
      BY <1>a, <2>1, <2>4 DEF TypeOK
    <2>6. sess'[s] = n /\ rtExp'[s][0] = e /\ \A g \in Gen : g # 0 => rtExp'[s][g] = 0
      BY <1>a, <2>1, <2>4, ConfigAssumption DEF TypeOK, CeilingInv, Gen
    <2>. QED
      BY <2>3, <2>4, <2>5, <2>6 DEF CeilingInv, CeilingHolds
  <1>4. ASSUME NEW w \in Worker, CommitRotate(w)
        PROVE  CeilingInv'
    <2> DEFINE s == tx[w].s
               g == tx[w].g
               t == tx[w].t0
               row == RotatedRow(sess[s], g + 1, t)
               e == RefreshExpiry(t, sess[s].abs)
    <2>1. /\ s \in Session /\ sess[s].status = "live" /\ t \in Nat
          /\ sess[s] \in SessionRow /\ g + 1 \in Gen
      <3>1. tx[w] \in Transaction /\ TxOK(w)
        BY <1>a DEF IndInv, TxInv, TypeOK
      <3>2. s \in Session /\ t \in Nat /\ g \in Gen /\ sess[s].status = "live"
            /\ g < MaxGen
        BY <1>4, <3>1
           DEF CommitRotate, At, TxOK, HoldsBoth, HoldsToken, Refreshing, Transaction
      <3>. QED
        BY <1>a, <3>2, ConfigAssumption DEF TypeOK, Gen
    <2>2. sess[s].abs \in Nat /\ t + AccessTtl \in Nat /\ t + IdleTtl \in Nat
          /\ t + RefreshTtl \in Nat
      BY <2>1, ConfigAssumption DEF SessionRow
    <2>3. /\ row.abs = sess[s].abs /\ row.created = sess[s].created
          /\ row.status = "live"
          /\ row.access = Earlier(t + AccessTtl, sess[s].abs)
          /\ row.idle = Earlier(t + IdleTtl, sess[s].abs)
      BY <2>1 DEF RotatedRow, SessionRow
    <2>4. row.access <= sess[s].abs /\ row.idle <= sess[s].abs /\ e <= sess[s].abs
      BY <2>2, <2>3, EarlierIsBelow DEF RefreshExpiry
    <2>5. sess' = [sess EXCEPT ![s] = row] /\ rtExp' = [rtExp EXCEPT ![s][g + 1] = e]
      BY <1>4 DEF CommitRotate
    <2> HIDE DEF s, g, t, row, e
    <2>6. \A q \in Session : q # s => sess'[q] = sess[q] /\ rtExp'[q] = rtExp[q]
      BY <1>a, <2>1, <2>5 DEF TypeOK
    <2>7. /\ sess'[s] = row /\ rtExp'[s][g + 1] = e
          /\ \A h \in Gen : h # g + 1 => rtExp'[s][h] = rtExp[s][h]
      BY <1>a, <2>1, <2>5 DEF TypeOK
    <2>. QED
      BY <2>1, <2>3, <2>4, <2>6, <2>7 DEF CeilingInv, CeilingHolds
  <1>5. ASSUME NEW w \in Worker, CommitReuse(w) \/ CommitRevoke(w) \/ CommitStatus(w)
        PROVE  CeilingInv'
    BY <1>2, <1>5 DEF CommitReuse, CommitRevoke, CommitStatus
  <1>. QED
    BY <1>1, <1>3, <1>4, <1>5, TableSteps

\* No refresh, however many and however late, moves any deadline of a session
\* past the ceiling fixed at its login (refreshed_lifetimes, refresh_expiry).
THEOREM CeilingNeverExtended == Spec => []CeilingHolds
  <1>1. Init => CeilingInv
    BY DEF Init, NoRow, CeilingInv, CeilingHolds
  <1>2. IndInv /\ CeilingInv /\ [Next]_vars => CeilingInv'
    BY CeilingStep
  <1>3. CeilingInv => CeilingHolds
    BY DEF CeilingInv
  <1>. QED
    BY <1>1, <1>2, <1>3, Invariant, PTL DEF Spec

-----------------------------------------------------------------------------
(* The transactions implement TokenFamily.                                   *)

\* The step form: a commit is one step of the abstract family, every other
\* step is none.
LEMMA FamilyStep ==
    ASSUME IndInv, [Next]_vars
    PROVE  [Family!Next]_(Family!vars)
  <1>a. TypeOK /\ TableInv
    BY DEF IndInv
  <1>b. {s \in Session : sess[s].status # "free"}' =
            {s \in Session : sess'[s].status # "free"}
        /\ [s \in Session |-> Exchangeable(s)]' = [s \in Session |-> Exchangeable(s)']
    OBVIOUS
  <1>1. CASE UNCHANGED tables
    BY <1>1 DEF tables, Exchangeable, Family!vars
  <1>2. ASSUME NEW w \in Worker, CommitLogin(w)
        PROVE  Family!Next
    <2> DEFINE R == Revoked(tx[w].hit)
    <2>1. PICK s \in Session :
            /\ sess[s].status = "free"
            /\ sess' = [R EXCEPT ![s] = NewRow(tx[w].t0)]
            /\ rt' = [rt EXCEPT ![s][0] = "live"]
      BY <1>2 DEF CommitLogin
    <2>2. /\ R \in [Session -> SessionRow]
          /\ \A q \in Session :
               /\ q \in tx[w].hit => R[q].status = "revoked" /\ sess[q].status = "live"
               /\ q \notin tx[w].hit => R[q] = sess[q]
      BY RevokedFields
    <2> HIDE DEF R
    <2>3. tx[w].hit \in SUBSET Session /\ s \notin tx[w].hit
      BY <1>a, <2>1, <2>2 DEF TypeOK, Transaction
    <2>4. /\ sess'[s].status = "live" /\ rt'[s][0] = "live"
          /\ \A g \in Gen : g # 0 => rt'[s][g] = "none"
          /\ \A q \in Session : q # s => sess'[q] = R[q] /\ rt'[q] = rt[q]
      <3>1. NewRow(tx[w].t0).status = "live"
        BY DEF NewRow
      <3>2. rt[s] \in [Gen -> {"none", "live", "consumed"}]
            /\ \A g \in Gen : rt[s][g] = "none"
        BY <1>a, <2>1 DEF TypeOK, TableInv
      <3>3. rt'[s] = [rt[s] EXCEPT ![0] = "live"] /\ 0 \in Gen
        BY <1>a, <2>1, ConfigAssumption DEF TypeOK, Gen
      <3>4. sess'[s] = NewRow(tx[w].t0)
            /\ \A q \in Session : q # s => sess'[q] = R[q] /\ rt'[q] = rt[q]
        BY <1>a, <2>1, <2>2 DEF TypeOK
      <3>. QED
        BY <3>1, <3>2, <3>3, <3>4
    <2>5. Exchangeable(s)' = {0}
      BY <2>4, ConfigAssumption DEF Exchangeable, Gen
    <2>6. \A q \in Session : q # s =>
            Exchangeable(q)' = IF q \in tx[w].hit THEN {} ELSE Exchangeable(q)
      BY <2>2, <2>4 DEF Exchangeable
    <2>7. {q \in Session : sess'[q].status # "free"} =
            {q \in Session : sess[q].status # "free"} \cup {s}
      BY <2>2, <2>4
    <2>8. PICK C \in SUBSET Session : C = tx[w].hit
      BY <2>3
    <2>9. Family!Open(s, C)
      BY <1>b, <2>1, <2>3, <2>5, <2>6, <2>7, <2>8 DEF Family!Open
    <2>. QED
      BY <2>9 DEF Family!Next
  <1>3. ASSUME NEW w \in Worker, CommitRotate(w)
        PROVE  Family!Next
    <2>1. tx[w] \in Transaction /\ TxOK(w)
      BY <1>a DEF IndInv, TxInv, TypeOK
    <2>2. PICK s \in Session, g \in Gen :
            /\ s = tx[w].s /\ g = tx[w].g /\ g < MaxGen /\ g + 1 \in Gen
            /\ sess[s].status = "live" /\ rt[s][g] = "live"
      BY <1>3, <2>1, ConfigAssumption
         DEF CommitRotate, At, TxOK, HoldsBoth, HoldsToken, Refreshing, Transaction, Gen
    <2> DEFINE row == RotatedRow(sess[s], g + 1, tx[w].t0)
    <2>3. row.status = "live"
      BY <1>a, <2>2 DEF RotatedRow, TypeOK, SessionRow
    <2>4. /\ sess' = [sess EXCEPT ![s] = row]
          /\ rt' = [rt EXCEPT ![s][g] = "consumed", ![s][g + 1] = "live"]
      BY <1>3, <2>2 DEF CommitRotate
    <2>5. \A h \in Gen : h # g => rt[s][h] # "live"
      BY <1>a, <2>2, ConfigAssumption DEF TableInv, Gen
    <2> HIDE DEF row
    <2>6. rt'[s] = [rt[s] EXCEPT ![g] = "consumed", ![g + 1] = "live"]
          /\ sess'[s].status = "live"
          /\ \A q \in Session : q # s => sess'[q] = sess[q] /\ rt'[q] = rt[q]
      BY <1>a, <2>2, <2>3, <2>4 DEF TypeOK
    <2>7. rt[s] \in [Gen -> {"none", "live", "consumed"}] /\ g # g + 1
      BY <1>a, <2>2 DEF TypeOK, Gen
    <2>8. Exchangeable(s) = {g}
      BY <2>2, <2>5 DEF Exchangeable
    <2>a. Exchangeable(s)' = {g + 1}
      BY <2>2, <2>5, <2>6, <2>7 DEF Exchangeable
    <2>9. \A q \in Session : q # s => Exchangeable(q)' = Exchangeable(q)
      BY <2>6 DEF Exchangeable
    <2>10. {q \in Session : sess'[q].status # "free"} =
             {q \in Session : sess[q].status # "free"}
      BY <2>2, <2>6
    <2>11. Family!Exchange(s, g)
      BY <1>b, <2>2, <2>8, <2>a, <2>9, <2>10 DEF Family!Exchange
    <2>. QED
      BY <2>2, <2>11 DEF Family!Next, Gen
  <1>4. ASSUME NEW C \in SUBSET Session,
               \A q \in Session : /\ sess[q].status = "free" <=> sess'[q].status = "free"
                                 /\ Exchangeable(q)' = IF q \in C THEN {}
                                                      ELSE Exchangeable(q)
        PROVE  Family!Next
    <2>1. Family!Close(C)
      BY <1>b, <1>4 DEF Family!Close
    <2>. QED
      BY <2>1 DEF Family!Next
  <1>5. ASSUME NEW w \in Worker, CommitReuse(w)
        PROVE  Family!Next
    <2> DEFINE s == tx[w].s
               R == Revoked(tx[w].hit)
    <2>1. tx[w] \in Transaction /\ TxOK(w)
      BY <1>a DEF IndInv, TxInv, TypeOK
    <2>2. s \in Session /\ (sess[s].status = "live" => s \in tx[w].hit)
          /\ tx[w].hit \cup {s} \in SUBSET Session
      BY <1>5, <2>1 DEF CommitReuse, At, TxOK, Refreshing, Transaction
    <2>3. /\ R \in [Session -> SessionRow]
          /\ \A q \in Session :
               /\ q \in tx[w].hit => R[q].status = "revoked" /\ sess[q].status = "live"
               /\ q \notin tx[w].hit => R[q] = sess[q]
      BY RevokedFields
    <2>4. sess' = R /\ \E dead : rt' = [rt EXCEPT ![s] = dead]
      BY <1>5 DEF CommitReuse
    <2> HIDE DEF R, s
    <2>5. \A q \in Session : q # s => rt'[q] = rt[q]
      BY <1>a, <2>4 DEF TypeOK
    <2>6. \A q \in Session :
            /\ sess[q].status = "free" <=> sess'[q].status = "free"
            /\ Exchangeable(q)' = IF q \in tx[w].hit \cup {s} THEN {}
                                 ELSE Exchangeable(q)
      BY <2>2, <2>3, <2>4, <2>5 DEF Exchangeable
    <2>. QED
      BY <1>4, <2>2, <2>6
  <1>6. ASSUME NEW w \in Worker, CommitRevoke(w) \/ CommitStatus(w)
        PROVE  Family!Next
    <2>1. tx[w].hit \in SUBSET Session
      BY <1>a DEF TypeOK, Transaction
    <2>2. sess' = Revoked(tx[w].hit) /\ rt' = rt
      BY <1>6 DEF CommitRevoke, CommitStatus
    <2>3. \A q \in Session :
            /\ sess[q].status = "free" <=> sess'[q].status = "free"
            /\ Exchangeable(q)' = IF q \in tx[w].hit THEN {} ELSE Exchangeable(q)
      BY <2>2, RevokedFields DEF Exchangeable
    <2>. QED
      BY <1>4, <2>1, <2>3
  <1>. QED
    BY <1>1, <1>2, <1>3, <1>5, <1>6, TableSteps

\* The row-locked transactions implement the atomic token family of ADR-005.
THEOREM FamilyImplemented == Spec => ImplementsFamily
  <1>1. Init => Family!Init
    BY DEF Init, NoRow, Family!Init, Exchangeable
  <1>2. IndInv /\ [Next]_vars => [Family!Next]_(Family!vars)
    BY FamilyStep
  <1>. QED
    BY <1>1, <1>2, Invariant, PTL DEF Spec, ImplementsFamily, Family!Spec

-----------------------------------------------------------------------------
(* The cap, when logins do not overlap and no session lapses while its       *)
(* refresh commits.                                                          *)

\* The live sessions of a table, and RoomMade of one transaction over it.
Alive(T, t) == {s \in Session : /\ T[s].status = "live"
                                /\ T[s].abs > t
                                /\ T[s].idle > t}

Room(x, T, c) ==
    /\ x.pc \in {"begin", "oldest", "evict", "evictAudit", "evictActor",
                 "insert", "audit", "commit"}
    /\ x.pc # "begin" => x.t0 <= c
    /\ x.pc = "oldest" => Cardinality(Alive(T, x.t0)) < MaxPerUser + x.surplus
    /\ x.pc \in {"evict", "evictAudit", "evictActor"} =>
          Cardinality(Alive(T, x.t0) \ (x.rows \cup x.hit)) < MaxPerUser
    /\ x.pc \in {"insert", "audit", "commit"} =>
          Cardinality(Alive(T, x.t0) \ x.hit) < MaxPerUser

LEMMA RoomIs ==
    ASSUME NEW w \in Worker
    PROVE  /\ RoomMade(w) <=> Room(tx[w], sess, clock)
           /\ RoomMade(w)' <=> Room(tx'[w], sess', clock')
  BY DEF RoomMade, Room, LiveAt, Alive

LEMMA Fewer ==
    ASSUME NEW B \in SUBSET Session, NEW A \in SUBSET B
    PROVE  /\ Cardinality(A) \in Nat /\ Cardinality(B) \in Nat
           /\ Cardinality(A) <= Cardinality(B)
           /\ IsFiniteSet(A) /\ IsFiniteSet(B)
  <1>1. IsFiniteSet(B)
    BY SessionAssumption, FS_Subset
  <1>2. IsFiniteSet(A) /\ Cardinality(A) <= Cardinality(B)
    BY <1>1, FS_Subset
  <1>. QED
    BY <1>1, <1>2, FS_CardinalityType

\* The room stays while no session becomes live at an earlier instant.
LEMMA RoomKept ==
    ASSUME NEW x \in Transaction, NEW T, NEW U, NEW c \in Nat, NEW d \in Nat,
           c <= d, Room(x, T, c),
           \A t \in Nat : t <= c => Alive(U, t) \subseteq Alive(T, t)
    PROVE  Room(x, U, d)
  <1>1. x.t0 \in Nat /\ x.surplus \in Nat
    BY DEF Transaction
  <1>2. CASE x.pc = "begin"
    BY <1>2 DEF Room
  <1>3. CASE x.pc # "begin"
    <2>1. x.t0 <= c /\ x.t0 <= d
      BY <1>1, <1>3 DEF Room
    <2>2. Alive(U, x.t0) \subseteq Alive(T, x.t0)
      BY <1>1, <2>1
    <2>3. Alive(T, x.t0) \in SUBSET Session
      BY DEF Alive
    <2>4. ASSUME NEW H
          PROVE  /\ Cardinality(Alive(U, x.t0) \ H) \in Nat
                 /\ Cardinality(Alive(T, x.t0) \ H) \in Nat
                 /\ Cardinality(Alive(U, x.t0) \ H) <= Cardinality(Alive(T, x.t0) \ H)
      <3>1. Alive(T, x.t0) \ H \in SUBSET Session
            /\ Alive(U, x.t0) \ H \in SUBSET (Alive(T, x.t0) \ H)
        BY <2>2, <2>3
      <3>. QED
        BY <3>1, Fewer
    <2>5. /\ Cardinality(Alive(U, x.t0)) \in Nat
          /\ Cardinality(Alive(T, x.t0)) \in Nat
          /\ Cardinality(Alive(U, x.t0)) <= Cardinality(Alive(T, x.t0))
      BY <2>2, <2>3, Fewer
    <2>6. /\ x.pc = "oldest" => Cardinality(Alive(U, x.t0)) < MaxPerUser + x.surplus
          /\ x.pc \in {"evict", "evictAudit", "evictActor"} =>
                Cardinality(Alive(U, x.t0) \ (x.rows \cup x.hit)) < MaxPerUser
          /\ x.pc \in {"insert", "audit", "commit"} =>
                Cardinality(Alive(U, x.t0) \ x.hit) < MaxPerUser
      <3>1. CASE x.pc = "oldest"
        BY <1>1, <2>5, <3>1, ConfigAssumption DEF Room
      <3>2. CASE x.pc \in {"evict", "evictAudit", "evictActor"}
        <4> DEFINE H == x.rows \cup x.hit
        <4>1. Cardinality(Alive(T, x.t0) \ H) < MaxPerUser
          BY <3>2 DEF Room
        <4>2. Cardinality(Alive(U, x.t0) \ H) < MaxPerUser
          <5> HIDE DEF H
          <5>. QED
            BY <2>4, <4>1, ConfigAssumption
        <4>. QED
          BY <3>2, <4>2
      <3>3. CASE x.pc \in {"insert", "audit", "commit"}
        <4>1. Cardinality(Alive(T, x.t0) \ x.hit) < MaxPerUser
          BY <3>3 DEF Room
        <4>2. Cardinality(Alive(U, x.t0) \ x.hit) < MaxPerUser
          BY <2>4, <4>1, ConfigAssumption
        <4>. QED
          BY <3>3, <4>2
      <3>. QED
        BY <3>1, <3>2, <3>3
    <2>. QED
      BY <1>3, <2>1, <2>6 DEF Room
  <1>. QED
    BY <1>2, <1>3

\* Only a login makes a session live, or keeps it live for longer than it was
\* at any instant up to now.
LEMMA OnlyLoginsAdd ==
    ASSUME IndInv, NoLateRefresh, [Next]_vars,
           \A w \in Worker : ~CommitLogin(w)
    PROVE  \A t \in Nat : t <= clock => Alive(sess', t) \subseteq Alive(sess, t)
  <1>a. TypeOK
    BY DEF IndInv
  <1> SUFFICES ASSUME NEW t \in Nat, t <= clock
               PROVE  Alive(sess', t) \subseteq Alive(sess, t)
    OBVIOUS
  <1>1. CASE UNCHANGED tables
    BY <1>1 DEF tables
  <1>2. ASSUME NEW w \in Worker, CommitRotate(w)
        PROVE  Alive(sess', t) \subseteq Alive(sess, t)
    <2>1. tx[w].s \in LiveAt(clock)
      BY <1>2 DEF CommitRotate, NoLateRefresh
    <2>2. PICK s \in Session : s = tx[w].s
      BY <2>1 DEF LiveAt
    <2>3. sess[s].abs \in Nat /\ sess[s].idle \in Nat /\ clock \in Nat
      BY <1>a, <2>2 DEF TypeOK, SessionRow
    <2>4. s \in Alive(sess, t)
      BY <2>1, <2>2, <2>3 DEF LiveAt, Alive
    <2>5. \E row : sess' = [sess EXCEPT ![s] = row]
      BY <1>2, <2>2 DEF CommitRotate
    <2>6. \A q \in Session : q # s => sess'[q] = sess[q]
      BY <1>a, <2>5 DEF TypeOK
    <2>. QED
      BY <2>4, <2>6 DEF Alive
  <1>3. ASSUME NEW w \in Worker,
               CommitReuse(w) \/ CommitRevoke(w) \/ CommitStatus(w)
        PROVE  Alive(sess', t) \subseteq Alive(sess, t)
    <2>1. sess' = Revoked(tx[w].hit)
      BY <1>3 DEF CommitReuse, CommitRevoke, CommitStatus
    <2>2. \A s \in Session : /\ s \in tx[w].hit => sess'[s].status = "revoked"
                             /\ s \notin tx[w].hit => sess'[s] = sess[s]
      BY <2>1, RevokedFields
    <2>. QED
      BY <2>2 DEF Alive
  <1>. QED
    BY <1>1, <1>2, <1>3, TableSteps

\* What the handler w itself does to the room it has made.
LEMMA RoomOfLogin ==
    ASSUME IndInv, MaxPerUser > 0, NEW w \in Worker,
           LoginVerify(w) \/ (tx[w].op = "login" /\ RoomMade(w)),
           Request(w) \/ Progress(w) \/ Abort(w),
           tx'[w].op = "login"
    PROVE  RoomMade(w)'
  <1> DEFINE x == tx[w]
             y == tx'[w]
             A == Alive(sess, x.t0)
  <1>a. TypeOK /\ x \in Transaction
    BY DEF IndInv, TypeOK
  <1>b. SUFFICES Room(y, sess', clock')
    BY RoomIs
  <1>c. /\ x.op \in Operation \cup {"idle"} /\ x.t0 \in Nat /\ clock \in Nat
        /\ x.surplus \in Nat /\ x.rows \in SUBSET Session /\ x.hit \in SUBSET Session
        /\ MaxPerUser \in Nat
    BY <1>a, ConfigAssumption DEF TypeOK, Transaction
  <1>d. \A t : LiveAt(t) = Alive(sess, t) /\ Alive(sess, t) \in SUBSET Session
    BY DEF LiveAt, Alive
  <1>1. CASE LoginVerify(w)
    <2>1. y.pc = "begin"
      BY <1>1, <1>a DEF LoginVerify, Start, TypeOK, IdleTx
    <2>. QED
      BY <2>1 DEF Room
  <1>2. CASE x.op = "login" /\ RoomMade(w)
    <2>1. Room(x, sess, clock)
      BY <1>2, RoomIs
    <2>2. x.pc \in {"begin", "oldest", "evict", "evictAudit", "evictActor",
                    "insert", "audit", "commit"}
      BY <2>1 DEF Room
    <2>3. LoginCount(w) \/ LoginOldest(w) \/ LoginEvict(w) \/ LoginEvictAudit(w)
          \/ LoginEvictActor(w) \/ LoginInsert(w) \/ Audit(w)
      <3>1. ~Request(w)
        BY <1>2 DEF Request, LoginVerify, RefreshBegin, RevokeBegin, LogoutAllBegin,
                    ChangeStatusBegin, Start
      <3>2. ~End(w)
        BY <1>a DEF End, IdleTx, TypeOK
      <3>3. ~(\/ Abort(w) \/ RefreshRejected(w) \/ RevokeNotFound(w) \/ CommitLogin(w)
              \/ CommitRotate(w) \/ CommitReuse(w) \/ CommitRevoke(w) \/ CommitStatus(w))
        BY <3>2 DEF Abort, RefreshRejected, RevokeNotFound, Rollback, CommitLogin,
                    CommitRotate, CommitReuse, CommitRevoke, CommitStatus
      <3>4. ~(\/ RefreshLockToken(w) \/ RefreshLockSession(w) \/ RefreshFamily(w)
              \/ RefreshFamilyLock(w) \/ RefreshRotate(w) \/ RevokeStatement(w)
              \/ RevokeAllBegin(w) \/ ChangeStatusLock(w) \/ RevokeAllLock(w))
        BY <1>2, <2>2 DEF RefreshLockToken, RefreshLockSession, RefreshFamily,
           RefreshFamilyLock, RefreshRotate, RevokeStatement, RevokeAllBegin,
           ChangeStatusLock, RevokeAllLock, At
      <3>. QED
        BY <3>1, <3>3, <3>4 DEF Progress
    <2>4. sess' = sess /\ clock' = clock
      <3>1. UNCHANGED <<clock, tables>>
        <4>1. CASE LoginCount(w) \/ LoginOldest(w) \/ LoginInsert(w) \/ Audit(w)
          BY <4>1 DEF LoginCount, LoginOldest, LoginInsert, Audit
        <4>2. CASE LoginEvictAudit(w) \/ LoginEvictActor(w)
          BY <4>2 DEF LoginEvictAudit, LoginEvictActor
        <4>3. CASE LoginEvict(w)
          BY <4>3, Zenon DEF LoginEvict
        <4>. QED
          BY <2>3, <4>1, <4>2, <4>3
      <3>. QED
        BY <3>1 DEF tables
    <2> SUFFICES Room(y, sess, clock)
      BY <2>4
    <2>5. CASE LoginCount(w)
      <3> DEFINE L == Alive(sess, clock)
                 n == Surplus(Cardinality(L))
      <3>1. Cardinality(L) \in Nat /\ Cardinality(L \ x.hit) \in Nat
            /\ Cardinality(L \ x.hit) <= Cardinality(L)
        BY <1>d, Fewer
      <3>2. y = [x EXCEPT !.t0 = clock, !.surplus = n,
                          !.pc = IF n = 0 THEN "insert" ELSE "oldest"]
        BY <2>5, <1>a, <1>d DEF LoginCount, TypeOK
      <3>3. /\ y.t0 = clock /\ y.surplus = n /\ y.hit = x.hit
            /\ y.pc = IF n = 0 THEN "insert" ELSE "oldest"
        <4> HIDE DEF n, x, y
        <4>. QED
          BY <1>a, <3>2 DEF Transaction
      <3>4. /\ n = 0 => Cardinality(L) < MaxPerUser
            /\ n # 0 => Cardinality(L) < MaxPerUser + n
        <4> HIDE DEF L
        <4>. QED
          BY <1>c, <3>1 DEF Surplus
      <3>5. n = 0 => Cardinality(L \ x.hit) < MaxPerUser
        <4> HIDE DEF L, n
        <4>. QED
          BY <1>c, <3>1, <3>4
      <3> HIDE DEF n, x, y
      <3>. QED
        BY <1>c, <3>3, <3>4, <3>5 DEF Room
    <2>6. CASE LoginOldest(w)
      <3>1. PICK O \in SUBSET Session :
              /\ OldestOf(A, x.surplus, O)
              /\ tx' = [tx EXCEPT ![w].rows = O,
                                  ![w].pc = IF O = {} THEN "insert" ELSE "evict"]
        BY <2>6, <1>d DEF LoginOldest
      <3>2. /\ y.t0 = x.t0 /\ y.rows = O /\ y.hit = x.hit
            /\ y.pc = IF O = {} THEN "insert" ELSE "evict"
        BY <1>a, <3>1 DEF TypeOK, Transaction
      <3>3. x.pc = "oldest" /\ x.t0 <= clock
            /\ Cardinality(A) < MaxPerUser + x.surplus
        BY <2>1, <2>6 DEF LoginOldest, At, Room
      <3>4. A \in SUBSET Session /\ O \in SUBSET A
            /\ Cardinality(O) = IF x.surplus <= Cardinality(A) THEN x.surplus
                                ELSE Cardinality(A)
        BY <1>d, <3>1 DEF OldestOf
      <3> HIDE DEF A, x, y
      <3>5. /\ Cardinality(A) \in Nat /\ Cardinality(O) \in Nat
            /\ IsFiniteSet(A) /\ IsFiniteSet(O)
            /\ Cardinality(A \ O) = Cardinality(A) - Cardinality(O)
        <4>1. /\ Cardinality(A) \in Nat /\ Cardinality(O) \in Nat
              /\ IsFiniteSet(A) /\ IsFiniteSet(O)
          BY <3>4, Fewer
        <4>2. Cardinality(A \ O) = Cardinality(A) - Cardinality(A \cap O)
          BY <4>1, FS_Difference
        <4>3. A \cap O = O
          BY <3>4
        <4>. QED
          BY <4>1, <4>2, <4>3
      <3>6. Cardinality(A \ O) < MaxPerUser
        BY <1>c, <3>3, <3>4, <3>5
      <3>7. A \ O \in SUBSET Session /\ A \ (O \cup x.hit) \in SUBSET (A \ O)
        BY <3>4
      <3>8. Cardinality(A \ (O \cup x.hit)) < MaxPerUser
        BY <1>c, <3>6, <3>7, Fewer
      <3>9. O = {} => Cardinality(A \ x.hit) < MaxPerUser
        <4>1. O = {} => A \ (O \cup x.hit) = A \ x.hit
          OBVIOUS
        <4>. QED
          BY <3>8, <4>1
      <3>. QED
        BY <3>2, <3>3, <3>8, <3>9 DEF Room, A
    <2>7. CASE LoginEvict(w)
      <3>1. PICK s \in tx[w].rows :
              \/ /\ sess[s].status = "live"
                 /\ LockSession(w, s)
                 /\ tx' = [tx EXCEPT ![w].rows = @ \ {s}, ![w].hit = @ \cup {s},
                                     ![w].pc = "evictAudit"]
              \/ /\ sess[s].status # "live"
                 /\ tx' = [tx EXCEPT ![w].rows = @ \ {s}, ![w].pc = "evictAudit"]
                 /\ UNCHANGED sLock
        BY <2>7, Zenon DEF LoginEvict
      <3>2. /\ y.pc = "evictAudit" /\ y.t0 = x.t0 /\ y.rows = x.rows \ {s}
            /\ \/ y.hit = x.hit \cup {s}
               \/ y.hit = x.hit /\ sess[s].status # "live"
        BY <1>a, <3>1 DEF TypeOK, Transaction
      <3>3. x.t0 <= clock /\ Cardinality(A \ (x.rows \cup x.hit)) < MaxPerUser
        BY <2>1, <2>7 DEF LoginEvict, At, Room
      <3>4. A \ (y.rows \cup y.hit) \in SUBSET (A \ (x.rows \cup x.hit))
        <4>1. sess[s].status # "live" => s \notin A
          BY DEF Alive
        <4> HIDE DEF A, x, y
        <4>. QED
          BY <3>2, <4>1
      <3>5. A \ (x.rows \cup x.hit) \in SUBSET Session
        BY <1>d
      <3> HIDE DEF A, x, y
      <3>6. Cardinality(A \ (y.rows \cup y.hit)) < MaxPerUser
        BY <1>c, <3>3, <3>4, <3>5, Fewer
      <3>. QED
        BY <3>2, <3>3, <3>6 DEF Room, A
    <2>8. CASE LoginEvictAudit(w) \/ LoginEvictActor(w) \/ LoginInsert(w) \/ Audit(w)
      <3>1. PICK pc \in {"evictActor", "insert", "evict", "audit", "commit"} :
               /\ tx' = [tx EXCEPT ![w].pc = pc]
               /\ \/ x.pc = "evictAudit" /\ pc = "evictActor"
                  \/ x.pc = "evictActor" /\ pc = "insert" /\ x.rows = {}
                  \/ x.pc = "evictActor" /\ pc = "evict"
                  \/ x.pc = "insert" /\ pc = "audit"
                  \/ x.pc = "audit" /\ pc = "commit"
        BY <2>8 DEF LoginEvictAudit, LoginEvictActor, LoginInsert, Audit, At, Goto
      <3>2. y.pc = pc /\ y.t0 = x.t0 /\ y.rows = x.rows /\ y.hit = x.hit
        BY <1>a, <3>1 DEF TypeOK, Transaction
      <3>3. x.rows = {} => A \ (x.rows \cup x.hit) = A \ x.hit
        OBVIOUS
      <3> HIDE DEF A, x, y
      <3>. QED
        BY <2>1, <3>1, <3>2, <3>3 DEF Room, A
    <2>. QED
      BY <2>3, <2>5, <2>6, <2>7, <2>8
  <1>. QED
    BY <1>1, <1>2

\* A step of one handler leaves what the others do alone.
Moves(w) ==
    /\ clock' = clock
    /\ \A v \in Worker : v # w => tx'[v] = tx[v]
    /\ \/ tx'[w].op \in {tx[w].op, "idle", "reuse"}
       \/ Request(w) /\ (tx'[w].op = "login" => LoginVerify(w))

LEMMA OpKept ==
    ASSUME IndInv, NEW w \in Worker, NEW r, clock' = clock,
           r.op \in {tx[w].op, "reuse"}, tx' = [tx EXCEPT ![w] = r]
    PROVE  Moves(w)
  BY DEF IndInv, TypeOK, Moves

LEMMA OneHandlerMoves ==
    ASSUME IndInv, NEW w \in Worker, Request(w) \/ Progress(w) \/ Abort(w)
    PROVE  Moves(w)
  <1>a. tx \in [Worker -> Transaction] /\ tx[w] \in Transaction
    BY DEF IndInv, TypeOK
  <1>0. ASSUME NEW op, NEW pc, NEW s, Start(w, op, pc, s), clock' = clock, Request(w),
               op # "login" \/ LoginVerify(w)
        PROVE  Moves(w)
    BY <1>a, <1>0 DEF Start, IdleTx, Moves
  <1>1. CASE Request(w)
    <2>1. CASE LoginVerify(w)
      BY <1>0, <1>1, <2>1 DEF LoginVerify
    <2>2. CASE \E s \in Session, g \in Gen : RefreshBegin(w, s, g)
      <3>1. clock' = clock
        BY <2>2 DEF RefreshBegin
      <3>2. PICK s \in Session, g \in Gen : RefreshBegin(w, s, g)
        BY <2>2
      <3>3. \A v \in Worker : v # w => tx'[v] = tx[v]
        BY <1>a, <3>2 DEF RefreshBegin
      <3>4. tx'[w].op = "refresh"
        BY <1>a, <3>2 DEF RefreshBegin, IdleTx
      <3>. QED
        BY <1>1, <3>1, <3>3, <3>4 DEF Moves
    <2>3. CASE \E s \in Session : RevokeBegin(w, s)
      <3>1. PICK s \in Session : RevokeBegin(w, s)
        BY <2>3
      <3>. QED
        BY <1>0, <1>1, <3>1 DEF RevokeBegin
    <2>4. CASE LogoutAllBegin(w)
      BY <1>0, <1>1, <2>4 DEF LogoutAllBegin
    <2>5. CASE \E op \in Operation : ChangeStatusBegin(w, op)
      <3>1. PICK op \in Operation : ChangeStatusBegin(w, op)
        BY <2>5
      <3>. QED
        BY <1>0, <1>1, <3>1 DEF ChangeStatusBegin
    <2>. QED
      BY <1>1, <2>1, <2>2, <2>3, <2>4, <2>5 DEF Request
  <1>2. CASE End(w) /\ clock' = clock
    BY <1>2, <1>a DEF End, IdleTx, Moves
  <1>3. CASE \/ Abort(w) \/ RefreshRejected(w) \/ RevokeNotFound(w) \/ CommitLogin(w)
             \/ CommitRotate(w) \/ CommitReuse(w) \/ CommitRevoke(w) \/ CommitStatus(w)
    <2>1. End(w) /\ clock' = clock
      BY <1>3 DEF Abort, RefreshRejected, RevokeNotFound, Rollback, CommitLogin,
                  CommitRotate, CommitReuse, CommitRevoke, CommitStatus
    <2>. QED
      BY <1>2, <2>1
  <1>4. CASE \/ LoginCount(w) \/ LoginOldest(w) \/ LoginEvict(w)
             \/ LoginEvictAudit(w) \/ LoginEvictActor(w) \/ LoginInsert(w)
    <2>1. CASE LoginCount(w)
      BY <1>a, <2>1, OpKept DEF LoginCount, Transaction
    <2>2. CASE LoginOldest(w)
      <3>1. PICK O, pc : tx' = [tx EXCEPT ![w].rows = O, ![w].pc = pc]
        BY <2>2, Zenon DEF LoginOldest
      <3>2. clock' = clock
        BY <2>2 DEF LoginOldest
      <3>. QED
        BY <1>a, <3>1, <3>2, OpKept DEF Transaction
    <2>3. CASE LoginEvict(w)
      <3>1. PICK s \in tx[w].rows :
              \/ tx' = [tx EXCEPT ![w].rows = @ \ {s}, ![w].hit = @ \cup {s},
                                  ![w].pc = "evictAudit"]
              \/ tx' = [tx EXCEPT ![w].rows = @ \ {s}, ![w].pc = "evictAudit"]
        BY <2>3, Zenon DEF LoginEvict
      <3>2. clock' = clock
        BY <2>3, Zenon DEF LoginEvict
      <3>. QED
        BY <1>a, <3>1, <3>2, OpKept DEF Transaction
    <2>4. CASE LoginEvictAudit(w)
      BY <1>a, <2>4, OpKept DEF LoginEvictAudit, Goto, Transaction
    <2>5. CASE LoginEvictActor(w)
      BY <1>a, <2>5, OpKept DEF LoginEvictActor, Goto, Transaction
    <2>6. CASE LoginInsert(w)
      BY <1>a, <2>6, OpKept DEF LoginInsert, Goto, Transaction
    <2>. QED
      BY <1>4, <2>1, <2>2, <2>3, <2>4, <2>5, <2>6
  <1>5. CASE \/ RefreshLockToken(w) \/ RefreshLockSession(w) \/ RefreshFamily(w)
             \/ RefreshFamilyLock(w) \/ RefreshRotate(w)
    <2>1. CASE RefreshLockToken(w)
      BY <1>a, <2>1, OpKept DEF RefreshLockToken, Goto, Transaction
    <2>2. CASE RefreshLockSession(w)
      BY <1>a, <2>2, OpKept DEF RefreshLockSession, Goto, Transaction
    <2>3. CASE RefreshFamily(w)
      <3>1. PICK G : tx' = [tx EXCEPT ![w].gens = G, ![w].pc = "familyLock"]
        BY <2>3, Zenon DEF RefreshFamily
      <3>2. clock' = clock
        BY <2>3, Zenon DEF RefreshFamily
      <3>. QED
        BY <1>a, <3>1, <3>2, OpKept DEF Transaction
    <2>4. CASE RefreshFamilyLock(w)
      <3>1. clock' = clock
        BY <2>4 DEF RefreshFamilyLock
      <3>2. CASE tx' = [tx EXCEPT ![w].pc = "audit"]
        BY <1>a, <3>1, <3>2, OpKept DEF Transaction
      <3>3. CASE \E g : tx' = [tx EXCEPT ![w].gens = @ \ {g}, ![w].fam = @ \cup {g}]
        BY <1>a, <3>1, <3>3, OpKept DEF Transaction
      <3>. QED
        BY <2>4, <3>2, <3>3, Zenon DEF RefreshFamilyLock, Goto
    <2>5. CASE RefreshRotate(w)
      BY <1>a, <2>5, OpKept DEF RefreshRotate, Goto, Transaction
    <2>. QED
      BY <1>5, <2>1, <2>2, <2>3, <2>4, <2>5
  <1>6. CASE \/ RevokeStatement(w) \/ RevokeAllBegin(w) \/ ChangeStatusLock(w)
             \/ RevokeAllLock(w) \/ Audit(w)
    <2>1. CASE RevokeStatement(w)
      BY <1>a, <2>1, OpKept DEF RevokeStatement, Goto, Transaction
    <2>2. CASE RevokeAllBegin(w)
      BY <1>a, <2>2, OpKept DEF RevokeAllBegin, Transaction
    <2>3. CASE ChangeStatusLock(w)
      BY <1>a, <2>3, OpKept DEF ChangeStatusLock, Transaction
    <2>4. CASE RevokeAllLock(w)
      BY <1>a, <2>4, OpKept DEF RevokeAllLock, Goto, Transaction
    <2>5. CASE Audit(w)
      BY <1>a, <2>5, OpKept DEF Audit, Goto, Transaction
    <2>. QED
      BY <1>6, <2>1, <2>2, <2>3, <2>4, <2>5
  <1>. QED
    BY <1>1, <1>3, <1>4, <1>5, <1>6 DEF Progress

\* A login that commits: the survivors it left room for, and its own session.
LEMMA CommitUnderCap ==
    ASSUME IndInv, MaxPerUser > 0, NEW w \in Worker, CommitLogin(w), RoomMade(w)
    PROVE  Cardinality(Alive(sess', clock)) <= MaxPerUser
  <1> DEFINE A == Alive(sess, tx[w].t0)
             H == tx[w].hit
             R == Revoked(H)
  <1>a. TypeOK /\ tx[w].t0 \in Nat /\ clock \in Nat /\ MaxPerUser \in Nat
    BY ConfigAssumption DEF IndInv, TypeOK, Transaction
  <1>1. tx[w].t0 <= clock /\ Cardinality(A \ H) < MaxPerUser
    BY RoomIs DEF CommitLogin, At, Room
  <1>2. PICK s \in Session : sess' = [R EXCEPT ![s] = NewRow(tx[w].t0)]
    BY DEF CommitLogin
  <1>3. /\ R \in [Session -> SessionRow]
        /\ \A q \in Session : /\ q \in H => R[q].status = "revoked"
                              /\ q \notin H => R[q] = sess[q]
    BY RevokedFields
  <1>4. \A q \in Session : q # s =>
            /\ q \in H => sess'[q].status = "revoked"
            /\ q \notin H => sess'[q] = sess[q]
    <2> HIDE DEF R
    <2>. QED
      BY <1>2, <1>3
  <1>5. Alive(sess', clock) \in SUBSET ((A \ H) \cup {s})
    <2>1. \A q \in Session : sess[q].abs \in Nat /\ sess[q].idle \in Nat
      BY <1>a DEF TypeOK, SessionRow
    <2>. QED
      BY <1>a, <1>1, <1>4, <2>1 DEF Alive
  <1>6. A \in SUBSET Session
    BY DEF Alive
  <1> HIDE DEF A, H
  <1>7. (A \ H) \cup {s} \in SUBSET Session /\ A \ H \in SUBSET Session
    BY <1>6
  <1>8. Cardinality((A \ H) \cup {s}) <= Cardinality(A \ H) + 1
    BY <1>7, Fewer, FS_AddElement
  <1>. QED
    BY <1>a, <1>1, <1>5, <1>7, <1>8, Fewer

LEMMA CapStep ==
    ASSUME IndInv, CapInv, LoginsApart, NoLateRefresh, [Next]_vars
    PROVE  CapInv'
  <1> SUFFICES ASSUME MaxPerUser > 0
               PROVE  /\ Cardinality(LiveAt(clock))' <= MaxPerUser
                      /\ \A v \in Worker : tx'[v].op = "login" => RoomMade(v)'
    BY DEF CapInv
  <1>a. TypeOK /\ clock \in Nat /\ MaxPerUser \in Nat
    BY ConfigAssumption DEF IndInv, TypeOK
  <1>b. /\ Cardinality(Alive(sess, clock)) <= MaxPerUser
        /\ \A v \in Worker : tx[v].op = "login" => RoomMade(v)
    BY DEF CapInv, LiveAt, Alive
  <1>c. Cardinality(LiveAt(clock))' = Cardinality(Alive(sess', clock'))
    BY DEF LiveAt, Alive
  <1>d. \A T, t : Alive(T, t) \in SUBSET Session
    BY DEF Alive
  <1>1. ASSUME NEW v \in Worker, tx'[v] = tx[v], tx[v].op = "login",
               clock' \in Nat, clock <= clock',
               \A t \in Nat : t <= clock => Alive(sess', t) \subseteq Alive(sess, t)
        PROVE  RoomMade(v)'
    <2>1. tx[v] \in Transaction /\ Room(tx[v], sess, clock)
      BY <1>a, <1>b, <1>1, RoomIs DEF TypeOK
    <2>2. Room(tx[v], sess', clock')
      BY <1>a, <1>1, <2>1, RoomKept
    <2>. QED
      BY <1>1, <2>2, RoomIs
  <1>2. ASSUME Alive(sess', clock') \subseteq Alive(sess, clock)
        PROVE  Cardinality(LiveAt(clock))' <= MaxPerUser
    BY <1>a, <1>b, <1>c, <1>d, <1>2, Fewer
  <1>3. CASE Tick \/ UNCHANGED vars
    <2>1. /\ sess' = sess /\ tx' = tx /\ clock' \in Nat /\ clock <= clock'
      BY <1>a, <1>3 DEF Tick, tables, vars
    <2>2. Alive(sess, clock') \subseteq Alive(sess, clock)
      <3>1. \A s \in Session : sess[s].abs \in Nat /\ sess[s].idle \in Nat
        BY <1>a DEF TypeOK, SessionRow
      <3>. QED
        BY <1>a, <2>1, <3>1 DEF Alive
    <2>. QED
      BY <1>1, <1>2, <2>1, <2>2
  <1>4. ASSUME NEW w \in Worker, Request(w) \/ Progress(w) \/ Abort(w)
        PROVE  /\ Cardinality(LiveAt(clock))' <= MaxPerUser
               /\ \A v \in Worker : tx'[v].op = "login" => RoomMade(v)'
    <2>1. /\ clock' = clock
          /\ \A v \in Worker : v # w => tx'[v] = tx[v]
          /\ tx'[w].op = "login" => tx[w].op = "login" \/ LoginVerify(w)
      BY <1>4, OneHandlerMoves DEF Moves
    <2>2. tx'[w].op = "login" => RoomMade(w)'
      BY <1>4, <1>b, <2>1, RoomOfLogin
    <2>3. CASE \E u \in Worker : CommitLogin(u)
      <3>1. PICK u \in Worker : CommitLogin(u)
        BY <2>3
      <3>2. tx[u].op = "login" /\ tx'[u].op = "idle"
        BY <1>a, <3>1 DEF CommitLogin, End, IdleTx, TypeOK
      <3>3. u = w
        BY <2>1, <3>2
      <3>4. \A v \in Worker : v # w => tx'[v].op # "login"
        BY <2>1, <3>2, <3>3 DEF LoginsApart
      <3>5. Cardinality(Alive(sess', clock)) <= MaxPerUser
        BY <1>b, <3>1, <3>2, CommitUnderCap
      <3>. QED
        BY <1>c, <2>1, <3>2, <3>3, <3>4, <3>5
    <2>4. CASE \A u \in Worker : ~CommitLogin(u)
      <3>1. \A t \in Nat : t <= clock => Alive(sess', t) \subseteq Alive(sess, t)
        BY <2>4, OnlyLoginsAdd
      <3>2. Alive(sess', clock') \subseteq Alive(sess, clock)
        BY <1>a, <2>1, <3>1
      <3>3. \A v \in Worker : v # w /\ tx'[v].op = "login" => RoomMade(v)'
        <4> SUFFICES ASSUME NEW v \in Worker, v # w, tx'[v].op = "login"
                     PROVE  RoomMade(v)'
          OBVIOUS
        <4>1. tx'[v] = tx[v] /\ tx[v].op = "login" /\ clock' \in Nat /\ clock <= clock'
          BY <1>a, <2>1
        <4>. QED
          BY <1>1, <3>1, <4>1
      <3>. QED
        BY <1>2, <2>2, <3>2, <3>3
    <2>. QED
      BY <2>3, <2>4
  <1>. QED
    BY <1>3, <1>4 DEF Next

\* The cap of sessions holds in every behaviour in which the account's logins do
\* not overlap and no session lapses while its refresh commits, whatever else
\* runs: the count, the evictions one by one and the insert of issue_session add
\* up although other requests revoke and refresh sessions between them.
THEOREM CapHoldsApart ==
    Spec /\ []LoginsApart /\ []NoLateRefresh => []SessionCapHolds
  <1>1. Init => CapInv
    <2> SUFFICES ASSUME Init, MaxPerUser > 0 PROVE CapInv
      BY DEF CapInv
    <2>1. LiveAt(clock) = {}
      BY DEF Init, NoRow, LiveAt
    <2>2. Cardinality(LiveAt(clock)) <= MaxPerUser
      BY <2>1, FS_EmptySet, ConfigAssumption
    <2>3. \A w \in Worker : tx[w].op # "login"
      BY DEF Init, IdleTx
    <2>. QED
      BY <2>2, <2>3 DEF CapInv
  <1>2. IndInv /\ CapInv /\ LoginsApart /\ NoLateRefresh /\ [Next]_vars => CapInv'
    BY CapStep
  <1>3. CapInv => SessionCapHolds
    BY DEF CapInv, SessionCapHolds
  <1>. QED
    BY <1>1, <1>2, <1>3, Invariant, PTL DEF Spec

-----------------------------------------------------------------------------
(* What a suspension revokes.                                                *)

\* Who holds the account keeps it through the steps of the others.
LEMMA AccountStaysHeld ==
    ASSUME NEW w \in Worker, Request(w) \/ Progress(w) \/ Abort(w),
           NEW v \in Worker, v # w, userLock = v
    PROVE  userLock' = v
  <1>a. v # NoWorker
    BY WorkerAssumption
  <1>1. CASE Request(w)
    <2>1. UNCHANGED locks
      <3>1. LoginVerify(w) \/ LogoutAllBegin(w) => UNCHANGED locks
        BY DEF LoginVerify, LogoutAllBegin
      <3>2. \A s, g : RefreshBegin(w, s, g) => UNCHANGED locks
        BY DEF RefreshBegin
      <3>3. \A s : RevokeBegin(w, s) => UNCHANGED locks
        BY DEF RevokeBegin
      <3>4. \A op : ChangeStatusBegin(w, op) => UNCHANGED locks
        BY DEF ChangeStatusBegin
      <3>. QED
        BY <1>1, <3>1, <3>2, <3>3, <3>4, Zenon DEF Request
    <2>. QED
      BY <2>1 DEF locks
  <1>2. CASE \/ Abort(w) \/ RefreshRejected(w) \/ RevokeNotFound(w) \/ CommitLogin(w)
             \/ CommitRotate(w) \/ CommitReuse(w) \/ CommitRevoke(w) \/ CommitStatus(w)
    <2>1. End(w)
      BY <1>2 DEF Abort, RefreshRejected, RevokeNotFound, Rollback, CommitLogin,
                  CommitRotate, CommitReuse, CommitRevoke, CommitStatus
    <2>. QED
      BY <1>a, <2>1 DEF End
  <1>3. CASE \/ LoginCount(w) \/ LoginOldest(w) \/ RefreshFamily(w)
             \/ RefreshRotate(w) \/ RevokeAllBegin(w)
    <2>1. UNCHANGED locks
      BY <1>3 DEF LoginCount, LoginOldest, RefreshFamily, RefreshRotate, RevokeAllBegin
    <2>. QED
      BY <2>1 DEF locks
  <1>4. CASE \/ LoginEvict(w) \/ LoginEvictAudit(w) \/ LoginEvictActor(w)
             \/ LoginInsert(w) \/ Audit(w)
    BY <1>4, Zenon DEF LoginEvict, LoginEvictAudit, LoginEvictActor, LoginInsert, Audit
  <1>5. CASE \/ RefreshLockToken(w) \/ RefreshLockSession(w) \/ RefreshFamilyLock(w)
             \/ RevokeStatement(w) \/ RevokeAllLock(w)
    BY <1>5, Zenon DEF RefreshLockToken, RefreshLockSession, RefreshFamilyLock,
       RevokeStatement, RevokeAllLock
  <1>6. CASE ChangeStatusLock(w)
    BY <1>6, <1>a DEF ChangeStatusLock, Free
  <1>. QED
    BY <1>1, <1>2, <1>3, <1>4, <1>5, <1>6 DEF Progress

\* A session becomes live by the commit of a login only.
LEMMA OnlyLoginsOpen ==
    ASSUME IndInv, [Next]_vars, \A w \in Worker : ~CommitLogin(w)
    PROVE  {s \in Session : sess'[s].status = "live"} \subseteq Live
  <1>a. TypeOK
    BY DEF IndInv
  <1>1. CASE UNCHANGED tables
    BY <1>1 DEF tables, Live
  <1>2. ASSUME NEW w \in Worker, CommitRotate(w)
        PROVE  {s \in Session : sess'[s].status = "live"} \subseteq Live
    <2>1. tx[w].s \in Session /\ sess[tx[w].s].status = "live"
          /\ \E row : sess' = [sess EXCEPT ![tx[w].s] = row]
      BY <1>2 DEF CommitRotate, At, IndInv, TxInv, TxOK, HoldsBoth, HoldsToken,
                  Refreshing
    <2>. QED
      BY <1>a, <2>1 DEF TypeOK, Live
  <1>3. ASSUME NEW w \in Worker,
               CommitReuse(w) \/ CommitRevoke(w) \/ CommitStatus(w)
        PROVE  {s \in Session : sess'[s].status = "live"} \subseteq Live
    <2>1. sess' = Revoked(tx[w].hit)
      BY <1>3 DEF CommitReuse, CommitRevoke, CommitStatus
    <2>2. \A s \in Session : /\ s \in tx[w].hit => sess'[s].status = "revoked"
                             /\ s \notin tx[w].hit => sess'[s] = sess[s]
      BY <2>1, RevokedFields
    <2>. QED
      BY <2>2 DEF Live
  <1>. QED
    BY <1>1, <1>2, <1>3, TableSteps

\* The part of a suspension's own steps.
LEMMA StatusOfOwn ==
    ASSUME IndInv, NEW w \in Worker, StatusOK(w),
           Request(w) \/ Progress(w) \/ Abort(w)
    PROVE  StatusOK(w)'
  <1> DEFINE x == tx[w]
             y == tx'[w]
  <1>a. tx \in [Worker -> Transaction] /\ x \in Transaction
    BY DEF IndInv, TypeOK
  <1>b. SUFFICES ASSUME y.op \in {"suspend", "reactivate"}
                 PROVE  StatusOK(w)'
    BY DEF StatusOK
  <1>c. ~End(w)
    <2>1. tx' # [tx EXCEPT ![w] = IdleTx]
      BY <1>a, <1>b DEF IdleTx
    <2>. QED
      BY <2>1, Zenon DEF End
  <1>1. CASE Request(w)
    <2>1. y.pc = "lockUser"
      <3>1. CASE LoginVerify(w)
        BY <1>a, <1>b, <3>1 DEF LoginVerify, Start, IdleTx
      <3>2. CASE \E s \in Session, g \in Gen : RefreshBegin(w, s, g)
        <4>1. PICK s \in Session, g \in Gen : RefreshBegin(w, s, g)
          BY <3>2
        <4>2. y.op = "refresh"
          BY <1>a, <4>1 DEF RefreshBegin, IdleTx
        <4>. QED
          BY <1>b, <4>2
      <3>3. CASE \E s \in Session : RevokeBegin(w, s)
        <4>1. PICK s \in Session : RevokeBegin(w, s)
          BY <3>3
        <4>2. y.op \in {"logout", "revokeOwn"}
          BY <1>a, <4>1 DEF RevokeBegin, Start, IdleTx
        <4>. QED
          BY <1>b, <4>2
      <3>4. CASE LogoutAllBegin(w)
        BY <1>a, <1>b, <3>4 DEF LogoutAllBegin, Start, IdleTx
      <3>5. CASE \E op \in Operation : ChangeStatusBegin(w, op)
        <4>1. PICK op : Start(w, op, "lockUser", NoSession)
          BY <3>5 DEF ChangeStatusBegin
        <4>. QED
          BY <1>a, <4>1 DEF Start, IdleTx
      <3>. QED
        BY <1>1, <3>1, <3>2, <3>3, <3>4, <3>5 DEF Request
    <2>. QED
      BY <2>1 DEF StatusOK
  <1>2. CASE ChangeStatusLock(w)
    <2>1. /\ y.op = x.op /\ y.pc = "lockAll" /\ userLock' = w
          /\ y.rows = IF x.op = "suspend" THEN Live ELSE {}
          /\ sess' = sess
      <3>1. tx' = [tx EXCEPT ![w].rows = IF x.op = "suspend" THEN Live ELSE {},
                             ![w].pc = "lockAll"]
        BY <1>2 DEF ChangeStatusLock
      <3>2. \A R : tx' = [tx EXCEPT ![w].rows = R, ![w].pc = "lockAll"] =>
               y.op = x.op /\ y.pc = "lockAll" /\ y.rows = R
        BY <1>a DEF Transaction
      <3>3. UNCHANGED tables /\ userLock' = w
        BY <1>2 DEF ChangeStatusLock
      <3>. QED
        BY <3>1, <3>2, <3>3 DEF tables
    <2>. QED
      BY <2>1 DEF StatusOK, Live
  <1>3. CASE RevokeAllLock(w) /\ x.op \in {"suspend", "reactivate"}
    <2>1. x.pc = "lockAll" /\ userLock = w
      BY <1>3 DEF StatusOK, RevokeAllLock, At
    <2>2. sess' = sess /\ userLock' = userLock
      <3>1. UNCHANGED <<tables, userLock>>
        BY <1>3, Zenon DEF RevokeAllLock
      <3>. QED
        BY <3>1 DEF tables
    <2>3. \/ \E s \in x.rows : tx' = [tx EXCEPT ![w].rows = @ \ {s},
                                                ![w].hit = @ \cup {s}]
          \/ \E s \in x.rows : /\ sess[s].status # "live"
                               /\ tx' = [tx EXCEPT ![w].rows = @ \ {s}]
          \/ x.rows = {} /\ tx' = [tx EXCEPT ![w].pc = "audit"]
      BY <1>3, Zenon DEF RevokeAllLock, Goto
    <2>4. \/ \E s \in x.rows : /\ y.op = x.op /\ y.pc = x.pc
                               /\ y.rows = x.rows \ {s}
                               /\ \/ y.hit = x.hit \cup {s}
                                  \/ y.hit = x.hit /\ sess[s].status # "live"
          \/ x.rows = {} /\ y.op = x.op /\ y.pc = "audit" /\ y.rows = x.rows
             /\ y.hit = x.hit
      <3>1. CASE \E s \in x.rows : tx' = [tx EXCEPT ![w].rows = @ \ {s},
                                                    ![w].hit = @ \cup {s}]
        BY <1>a, <3>1 DEF Transaction
      <3>2. CASE \E s \in x.rows : /\ sess[s].status # "live"
                                   /\ tx' = [tx EXCEPT ![w].rows = @ \ {s}]
        BY <1>a, <3>2 DEF Transaction
      <3>3. CASE x.rows = {} /\ tx' = [tx EXCEPT ![w].pc = "audit"]
        BY <1>a, <3>3 DEF Transaction
      <3>. QED
        BY <2>3, <3>1, <3>2, <3>3
    <2>5. x.op = "suspend" => Live \subseteq x.rows \cup x.hit
      BY <2>1 DEF StatusOK
    <2>6. Live' = Live
      BY <2>2 DEF Live
    <2>7. y.op = "suspend" => Live \subseteq y.rows \cup y.hit
      <3>1. \A s : sess[s].status # "live" => s \notin Live
        BY DEF Live
      <3> HIDE DEF x, y
      <3>. QED
        BY <2>4, <2>5, <3>1
    <2>8. /\ y.op = x.op /\ y.pc \in {"lockAll", "audit"}
          /\ y.pc = "audit" => y.rows = {}
      <3> HIDE DEF x, y
      <3>. QED
        BY <2>1, <2>4
    <2>. QED
      BY <2>1, <2>2, <2>6, <2>7, <2>8 DEF StatusOK
  <1>4. CASE Audit(w) /\ x.op \in {"suspend", "reactivate"}
    <2>1. x.pc = "audit" /\ userLock = w
      BY <1>4 DEF StatusOK, Audit, At
    <2>2. UNCHANGED <<tables, userLock>> /\ tx' = [tx EXCEPT ![w].pc = "commit"]
      BY <1>4 DEF Audit, Goto
    <2>3. y.op = x.op /\ y.pc = "commit" /\ y.rows = x.rows /\ y.hit = x.hit
      BY <1>a, <2>2 DEF Transaction
    <2>4. Live' = Live
      BY <2>2 DEF tables, Live
    <2>. QED
      BY <2>1, <2>2, <2>3, <2>4 DEF StatusOK
  <1>5. CASE (Progress(w) \/ Abort(w)) /\ ~ChangeStatusLock(w)
             /\ x.op \in {"suspend", "reactivate"}
    <2>1. x.pc \in {"lockUser", "lockAll", "audit", "commit"}
      BY <1>5 DEF StatusOK
    <2>2. ~(\/ Abort(w) \/ RefreshRejected(w) \/ RevokeNotFound(w) \/ CommitLogin(w)
            \/ CommitRotate(w) \/ CommitReuse(w) \/ CommitRevoke(w) \/ CommitStatus(w))
      BY <1>c DEF Abort, RefreshRejected, RevokeNotFound, Rollback, CommitLogin,
                  CommitRotate, CommitReuse, CommitRevoke, CommitStatus
    <2>3. ~(\/ LoginCount(w) \/ LoginOldest(w) \/ LoginEvict(w) \/ LoginEvictAudit(w)
            \/ LoginEvictActor(w) \/ LoginInsert(w) \/ RevokeAllBegin(w))
      <3>1. LoginCount(w) \/ RevokeAllBegin(w) => x.pc = "begin"
        BY DEF LoginCount, RevokeAllBegin, At
      <3>2. /\ LoginOldest(w) => x.pc = "oldest"
            /\ LoginEvict(w) => x.pc = "evict"
            /\ LoginEvictAudit(w) => x.pc = "evictAudit"
            /\ LoginEvictActor(w) => x.pc = "evictActor"
            /\ LoginInsert(w) => x.pc = "insert"
        BY Zenon DEF LoginOldest, LoginEvict, LoginEvictAudit, LoginEvictActor,
                     LoginInsert, At
      <3>. QED
        BY <2>1, <3>1, <3>2
    <2>4. ~(\/ RefreshLockToken(w) \/ RefreshLockSession(w) \/ RefreshFamily(w)
            \/ RefreshFamilyLock(w) \/ RefreshRotate(w) \/ RevokeStatement(w))
      BY <2>1 DEF RefreshLockToken, RefreshLockSession, RefreshFamily,
         RefreshFamilyLock, RefreshRotate, RevokeStatement, At
    <2>5. RevokeAllLock(w) \/ Audit(w)
      BY <1>5, <2>2, <2>3, <2>4 DEF Progress
    <2>. QED
      BY <1>3, <1>4, <1>5, <2>5
  <1>6. Request(w) \/ x.op = y.op
    BY <1>b, OneHandlerMoves DEF Moves
  <1>. QED
    BY <1>1, <1>2, <1>5, <1>6, <1>b

LEMMA SuspendStep ==
    ASSUME IndInv, SuspendInv, [Next]_vars
    PROVE  SuspendInv'
  <1>a. tx \in [Worker -> Transaction]
    BY DEF IndInv, TypeOK
  <1>1. CASE Tick \/ UNCHANGED vars
    <2>1. tx' = tx /\ sess' = sess /\ userLock' = userLock
      BY <1>1 DEF Tick, tables, locks, vars
    <2>. QED
      BY <2>1 DEF SuspendInv, StatusOK, Live
  <1>2. ASSUME NEW w \in Worker, Request(w) \/ Progress(w) \/ Abort(w),
               NEW v \in Worker
        PROVE  StatusOK(v)'
    <2>1. CASE v = w
      BY <1>2, <2>1, StatusOfOwn DEF SuspendInv
    <2>2. CASE v # w
      <3>1. tx'[v] = tx[v] /\ StatusOK(v)
        BY <1>2, <2>2, OneHandlerMoves DEF Moves, SuspendInv
      <3>2. userLock = v => userLock' = v
        BY <1>2, <2>2, AccountStaysHeld
      <3>3. CASE tx[v].op = "suspend" /\ tx[v].pc # "lockUser"
        <4>1. userLock = v
          BY <3>1, <3>3 DEF StatusOK
        <4>2. \A u \in Worker : ~CommitLogin(u)
          <5> SUFFICES ASSUME NEW u \in Worker, CommitLogin(u) PROVE FALSE
            OBVIOUS
          <5>1. u = v
            BY <4>1, WorkerAssumption DEF CommitLogin, ActorFree, Free
          <5>. QED
            BY <3>3, <5>1 DEF CommitLogin
        <4>3. Live' \subseteq Live
          BY <4>2, OnlyLoginsOpen DEF Live
        <4>. QED
          BY <3>1, <3>2, <3>3, <4>3 DEF StatusOK
      <3>4. CASE ~(tx[v].op = "suspend" /\ tx[v].pc # "lockUser")
        BY <3>1, <3>2, <3>4 DEF StatusOK
      <3>. QED
        BY <3>3, <3>4
    <2>. QED
      BY <2>1, <2>2
  <1>. QED
    BY <1>1, <1>2 DEF Next, SuspendInv

\* Only change_status writes the status of the account.
LEMMA StatusWriters ==
    ASSUME [Next]_vars
    PROVE  \/ userStatus' = userStatus
           \/ \E w \in Worker : CommitStatus(w)
  BY TableSteps DEF tables, CommitLogin, CommitRotate, CommitReuse, CommitRevoke

\* The step of a suspension that commits.
LEMMA NothingLeft ==
    ASSUME IndInv, SuspendInv, [Next]_vars,
           userStatus = "ACTIVE", userStatus' = "SUSPENDED"
    PROVE  \A s \in Session : sess'[s].status # "live"
  <1>1. PICK w \in Worker : CommitStatus(w)
    BY StatusWriters
  <1>2. tx[w].op = "suspend" /\ tx[w].pc = "commit" /\ sess' = Revoked(tx[w].hit)
    BY <1>1 DEF CommitStatus, At
  <1>3. Live \subseteq tx[w].hit
    BY <1>2 DEF SuspendInv, StatusOK
  <1>4. \A s \in Session : /\ s \in tx[w].hit => sess'[s].status = "revoked"
                           /\ s \notin tx[w].hit => sess'[s] = sess[s]
    BY <1>2, RevokedFields
  <1>. QED
    BY <1>3, <1>4 DEF Live

\* A suspension has every live session in its hands from the lock of the account to
\* its commit (find_user_for_update, revoke_all_sessions).
THEOREM SuspendInvariant == Spec => []SuspendInv
  <1>1. Init => SuspendInv
    BY DEF Init, IdleTx, SuspendInv, StatusOK
  <1>2. IndInv /\ SuspendInv /\ [Next]_vars => SuspendInv'
    BY SuspendStep
  <1>. QED
    BY <1>1, <1>2, Invariant, PTL DEF Spec

\* When a suspension commits, no session of the account is live, whatever was
\* inserted, refreshed or revoked while it waited for the account and its sessions
\* (change_status, revoke_all_sessions).
THEOREM SuspensionIsComplete == Spec => SuspensionLeavesNothing
  <1>1. IndInv /\ SuspendInv /\ [Next]_vars =>
          [userStatus = "ACTIVE" /\ userStatus' = "SUSPENDED" =>
              \A s \in Session : sess'[s].status # "live"]_vars
    BY NothingLeft
  <1>. QED
    BY <1>1, Invariant, SuspendInvariant, PTL DEF Spec, SuspensionLeavesNothing

\* A suspended account has no live session, and no login under way.
Closed ==
    userStatus = "SUSPENDED" =>
        Live = {} /\ \A w \in Worker : tx[w].op # "login"

LEMMA ClosedStep ==
    ASSUME IndInv, SuspendInv, Closed, NoLoginStraddles, [Next]_vars
    PROVE  Closed'
  <1> SUFFICES ASSUME userStatus' = "SUSPENDED"
               PROVE  Live' = {} /\ \A v \in Worker : tx'[v].op # "login"
    BY DEF Closed
  <1>a. userStatus \in {"ACTIVE", "SUSPENDED"}
    BY DEF IndInv, TypeOK, Status
  <1>b. Live' = {s \in Session : sess'[s].status = "live"}
    BY DEF Live
  <1>1. CASE userStatus = "ACTIVE"
    <2>1. PICK w \in Worker : CommitStatus(w)
      BY <1>1, StatusWriters
    <2>2. /\ tx[w].pc = "commit" /\ tx[w].op = "suspend"
          /\ tx' = [tx EXCEPT ![w] = IdleTx]
      BY <1>1, <2>1 DEF CommitStatus, At, End
    <2>3. \A v \in Worker : tx[v].op # "login"
      BY <2>2 DEF NoLoginStraddles, At
    <2>4. \A v \in Worker : tx'[v].op # "login"
      BY <2>2, <2>3 DEF IndInv, TypeOK, IdleTx
    <2>. QED
      BY <1>1, <1>b, <2>4, NothingLeft
  <1>2. CASE userStatus = "SUSPENDED"
    <2>1. Live = {} /\ \A v \in Worker : tx[v].op # "login"
      BY <1>2 DEF Closed
    <2>2. \A w \in Worker : ~CommitLogin(w)
      BY <2>1 DEF CommitLogin
    <2>3. Live' = {}
      BY <1>b, <2>1, <2>2, OnlyLoginsOpen
    <2>4. CASE Tick \/ UNCHANGED vars
      BY <2>1, <2>3, <2>4 DEF Tick, vars
    <2>5. ASSUME NEW w \in Worker, Request(w) \/ Progress(w) \/ Abort(w),
                 NEW v \in Worker
          PROVE  tx'[v].op # "login"
      <3>1. ~LoginVerify(w)
        BY <1>2 DEF LoginVerify
      <3>. QED
        BY <2>1, <2>5, <3>1, OneHandlerMoves DEF Moves
    <2>. QED
      BY <2>3, <2>4, <2>5 DEF Next
  <1>. QED
    BY <1>a, <1>1, <1>2

\* Where no login straddles a suspension, a suspended account never has a live
\* session: the foreign key and the row locks leave no other way in
\* (identity/repo.rs: "there is no window").
THEOREM SuspendedStaysOut ==
    Spec /\ []NoLoginStraddles => []SuspendedHasNoLiveSession
  <1>1. Init => Closed
    BY DEF Init, Closed
  <1>2. IndInv /\ SuspendInv /\ Closed /\ NoLoginStraddles /\ [Next]_vars => Closed'
    BY ClosedStep
  <1>3. Closed => SuspendedHasNoLiveSession
    BY DEF Closed, SuspendedHasNoLiveSession
  <1>. QED
    BY <1>1, <1>2, <1>3, Invariant, SuspendInvariant, PTL DEF Spec

=============================================================================
