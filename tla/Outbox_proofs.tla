----------------------------- MODULE Outbox_proofs -----------------------------
(***************************************************************************)
(* Proofs about the two models of src/backend/src/modules/outbox, and the  *)
(* second factor.                                                          *)
(*                                                                         *)
(* Outbox, for any number of workers, messages and faults, and for every   *)
(* lease, batch and timeout: a lease may lapse under a worker.             *)
(*                                                                         *)
(* Idempotency, for every set of requests and every bound.                 *)
(*                                                                         *)
(* Mfa, the second factor of an account, stands with them because their    *)
(* names leave room for its own: any number of requests, sessions, factors *)
(* and batches.                                                            *)
(***************************************************************************)
EXTENDS Outbox, Idempotency, Mfa, FiniteSetTheorems, TLAPS

USE OutboxAssumption

LEMMA RestTyped == Waiting \in WorkerState /\ Stopped \in WorkerState
  BY DEF Waiting, Stopped, WorkerState

LEMMA InitInv == Init => IndInv
  <1> SUFFICES ASSUME Init PROVE IndInv
    OBVIOUS
  <1>1. NoRow \in Row
    BY DEF NoRow, Row
  <1>2. TypeOK
    BY <1>1, RestTyped DEF Init, TypeOK
  <1>3. \A w \in Worker : ClaimOK(w)
    BY DEF Init, ClaimOK, Waiting, Stopped
  <1>4. SharedOnlyAfterOverrun
    BY DEF Init, SharedOnlyAfterOverrun, Waiting, Stopped
  <1>5. \A m \in Msg : ~(overruns[m] > 0)
    BY DEF Init
  <1>. QED
    BY <1>2, <1>3, <1>4, <1>5 DEF IndInv

\* What is known of a row some worker has in hand.
LEMMA HeldFacts ==
    ASSUME IndInv, NEW w \in Worker, NEW m \in worker[w].batch
    PROVE  /\ m \in Msg /\ row[m] \in Row /\ row[m].lease \in Nat
           /\ worker[w].pc \notin {"down", "idle"}
           /\ row[m].status \in {"PENDING", "FAILED"} \cup Terminal
           /\ overruns[m] \in Nat
           /\ overruns[m] = 0 => /\ Covered(w, m)
                               /\ row[m].status = "PENDING"
                               /\ row[m].lease > 0
  <1>1. worker[w] \in WorkerState /\ ClaimOK(w)
    BY DEF IndInv, TypeOK
  <1>2. m \in Msg
    BY <1>1 DEF WorkerState
  <1>3. row[m] \in Row /\ overruns[m] \in Nat
    BY <1>2 DEF IndInv, TypeOK
  <1>4. /\ row[m].status # "none" /\ worker[w].pc \notin {"down", "idle"}
        /\ overruns[m] = 0 => Covered(w, m)
    BY <1>1 DEF ClaimOK
  <1>. QED
    BY <1>2, <1>3, <1>4 DEF Row, Covered

-----------------------------------------------------------------------------
\* A step of w that leaves the rows of claims nobody has outlived alone.
LEMMA WorkerStep ==
    ASSUME IndInv, NEW w \in Worker, NEW r \in WorkerState,
           worker' = [worker EXCEPT ![w] = r],
           row' \in [Msg -> Row],
           accepted' \in [Msg -> Nat],
           faults' \in 0..MaxFaults,
           shutdowns' \in 0..MaxShutdowns,
           overruns' = overruns,
           \A m \in Msg : /\ accepted[m] <= accepted'[m]
                          /\ row[m].status # "none" => row'[m].status # "none",
           \A v \in Worker : v # w =>
              \A m \in worker[v].batch : overruns[m] = 0 =>
                 row'[m] = row[m] /\ m \notin r.batch,
           ClaimOK(w)'
    PROVE  IndInv'
  <1>1. TypeOK'
    BY DEF IndInv, TypeOK
  <1>2. /\ worker'[w] = r
        /\ \A v \in Worker : v # w => worker'[v] = worker[v]
    BY DEF IndInv, TypeOK
  <1>3. ASSUME NEW v \in Worker, v # w
        PROVE  ClaimOK(v)'
    <2>1. worker'[v] = worker[v] /\ worker[v] \in WorkerState /\ ClaimOK(v)
      BY <1>2, <1>3 DEF IndInv, TypeOK
    <2>2. Need(v)' = Need(v)
      BY <2>1 DEF Need
    <2>3. \A m \in worker[v].batch :
             row'[m].status # "none" /\ (overruns[m] = 0 => Covered(v, m)')
      <3>1. ASSUME NEW m \in worker[v].batch
            PROVE  row'[m].status # "none" /\ (overruns[m] = 0 => Covered(v, m)')
        <4>1. m \in Msg /\ row[m].status # "none" /\ (overruns[m] = 0 => Covered(v, m))
          BY <3>1, HeldFacts DEF Terminal
        <4>. QED
          BY <1>3, <2>2, <3>1, <4>1 DEF Covered
      <3>. QED
        BY <3>1
    <2>4. worker[v].cur \in Msg => accepted[worker[v].cur] <= accepted'[worker[v].cur]
          /\ accepted[worker[v].cur] \in Nat /\ accepted'[worker[v].cur] \in Nat
      BY DEF IndInv, TypeOK
    <2>5. worker[v].pc = "mark" => worker[v].cur \in Msg
      BY <2>1 DEF ClaimOK, WorkerState
    <2>. QED
      BY <2>1, <2>3, <2>4, <2>5 DEF ClaimOK
  <1>4. SharedOnlyAfterOverrun'
    <2>1. ASSUME NEW u \in Worker, NEW v \in Worker, u # v, u # w, v # w
          PROVE  \A m \in worker'[u].batch \cap worker'[v].batch : overruns'[m] > 0
      BY <1>2, <2>1 DEF IndInv, SharedOnlyAfterOverrun
    <2>2. ASSUME NEW v \in Worker, v # w, NEW m \in worker[v].batch, m \in r.batch
          PROVE  overruns[m] > 0
      <3>1. m \in Msg /\ overruns[m] \in Nat /\ overruns[m] # 0
        BY <2>2 DEF WorkerState, IndInv, TypeOK
      <3>. QED
        BY <3>1
    <2>. QED
      BY <1>2, <2>1, <2>2 DEF SharedOnlyAfterOverrun
  <1>. QED
    BY <1>1, <1>3, <1>4 DEF IndInv

\* A step of w that keeps the rows and no more than the batch it had.
LEMMA LocalStep ==
    ASSUME IndInv, NEW w \in Worker, NEW r \in WorkerState,
           worker' = [worker EXCEPT ![w] = r], r.batch \subseteq worker[w].batch,
           row' = row,
           accepted' \in [Msg -> Nat],
           faults' \in 0..MaxFaults,
           shutdowns' \in 0..MaxShutdowns,
           overruns' = overruns,
           \A m \in Msg : accepted[m] <= accepted'[m],
           ClaimOK(w)'
    PROVE  IndInv'
  <1>1. \A v \in Worker : v # w =>
           \A m \in worker[v].batch : overruns[m] = 0 =>
              row'[m] = row[m] /\ m \notin r.batch
    BY DEF IndInv, SharedOnlyAfterOverrun
  <1>2. row' \in [Msg -> Row]
    BY DEF IndInv, TypeOK
  <1>3. \A m \in Msg : row[m].status # "none" => row'[m].status # "none"
    OBVIOUS
  <1>. QED
    BY <1>1, <1>2, <1>3, WorkerStep

LEMMA FaultTyped == TypeOK /\ Fault => faults' \in 0..MaxFaults
  BY DEF TypeOK, Fault

\* The worker drops whatever it had in hand.
LEMMA RestStep ==
    ASSUME IndInv, NEW w \in Worker, NEW r \in WorkerState,
           r.pc \in {"down", "idle"}, r.batch = {},
           worker' = [worker EXCEPT ![w] = r],
           row' = row, accepted' = accepted, faults' \in 0..MaxFaults,
           shutdowns' = shutdowns, overruns' = overruns
    PROVE  IndInv'
  <1>1. worker'[w] = r
    BY DEF IndInv, TypeOK
  <1>2. ClaimOK(w)'
    BY <1>1 DEF ClaimOK
  <1>3. /\ accepted' \in [Msg -> Nat] /\ \A m \in Msg : accepted[m] <= accepted'[m]
        /\ shutdowns' \in 0..MaxShutdowns
    BY DEF IndInv, TypeOK
  <1>. QED
    BY <1>2, <1>3, LocalStep

LEMMA StopStep ==
    ASSUME IndInv, NEW w \in Worker,
           \/ MarkError(w) \/ Crash(w) \/ Stop(w) \/ Restart(w)
    PROVE  IndInv'
  <1>1. CASE MarkError(w)
    <2> DEFINE r == [Waiting EXCEPT !.stopping = worker[w].stopping]
    <2>1. r \in WorkerState /\ r.pc = "idle" /\ r.batch = {}
      BY RestTyped DEF Waiting, Stopped, WorkerState, IndInv, TypeOK
    <2>. QED
      BY <1>1, <2>1, FaultTyped, RestStep DEF MarkError, IndInv
  <1>2. CASE Crash(w)
    BY <1>2, RestTyped, FaultTyped, RestStep DEF Crash, Stopped, IndInv
  <1>3. CASE Stop(w)
    BY <1>3, RestTyped, RestStep DEF Stop, Stopped, IndInv, TypeOK
  <1>4. CASE Restart(w)
    <2>1. Waiting.pc = "idle" /\ Waiting.batch = {}
      BY DEF Waiting, Stopped
    <2>. QED
      BY <1>4, <2>1, RestTyped, RestStep DEF Restart, IndInv, TypeOK
  <1>. QED
    BY <1>1, <1>2, <1>3, <1>4

LEMMA EnqueueStep ==
    ASSUME IndInv, NEW m \in Msg, Enqueue(m)
    PROVE  IndInv'
  <1>1. /\ row[m].status = "none" /\ worker' = worker /\ accepted' = accepted
        /\ row' = [row EXCEPT ![m].status = "PENDING"] /\ faults' = faults
        /\ shutdowns' = shutdowns /\ overruns' = overruns
    BY DEF Enqueue
  <1>2. row' \in [Msg -> Row] /\ \A k \in Msg : k # m => row'[k] = row[k]
    BY <1>1 DEF IndInv, TypeOK, Row
  <1>3. TypeOK'
    BY <1>1, <1>2 DEF IndInv, TypeOK
  <1>4. ASSUME NEW w \in Worker
        PROVE  ClaimOK(w)'
    <2>1. m \notin worker[w].batch /\ worker[w].batch \subseteq Msg
      BY <1>1, HeldFacts DEF Terminal
    <2>2. Need(w)' = Need(w)
      BY <1>1 DEF Need
    <2>. QED
      BY <1>1, <1>2, <2>1, <2>2 DEF IndInv, ClaimOK, Covered
  <1>. QED
    BY <1>1, <1>3, <1>4 DEF IndInv, SharedOnlyAfterOverrun

LEMMA ClaimStep ==
    ASSUME IndInv, NEW w \in Worker, Claim(w)
    PROVE  IndInv'
  <1>1. PICK B \in SUBSET Claimable :
          /\ B # {}
          /\ \/ Cardinality(B) = BatchSize
             \/ Cardinality(B) < BatchSize /\ B = Claimable
          /\ row' = [m \in Msg |->
                       IF m \in B THEN [row[m] EXCEPT !.status = "PENDING",
                                                      !.lease = LeaseTime]
                                  ELSE row[m]]
          /\ worker' = [worker EXCEPT ![w].pc = "next", ![w].batch = B]
    BY DEF Claim
  <1>2. /\ worker[w].pc = "idle" /\ accepted' = accepted /\ faults' = faults
        /\ shutdowns' = shutdowns /\ overruns' = overruns
    BY DEF Claim
  <1> DEFINE r == [worker[w] EXCEPT !.pc = "next", !.batch = B]
  <1>3. r \in WorkerState /\ worker' = [worker EXCEPT ![w] = r] /\ worker'[w] = r
        /\ r.pc = "next" /\ r.batch = B
    <2>1. worker[w] \in WorkerState /\ worker \in [Worker -> WorkerState]
      BY DEF IndInv, TypeOK
    <2>2. B \in SUBSET Msg
      BY <1>1 DEF Claimable
    <2>3. r \in WorkerState /\ r.pc = "next" /\ r.batch = B
      BY <2>1, <2>2 DEF WorkerState
    <2>4. worker' = [worker EXCEPT ![w] = r]
      BY <1>1, <2>1
    <2>. QED
      BY <2>1, <2>3, <2>4
  <1> HIDE DEF r
  <1>4. B \subseteq Msg /\ Cardinality(B) \in Nat /\ Cardinality(B) <= BatchSize
    <2>1. B \subseteq Msg /\ Cardinality(B) \in Nat
      BY <1>1, FS_Subset, FS_CardinalityType DEF Claimable
    <2>2. Cardinality(B) = BatchSize \/ Cardinality(B) < BatchSize
      BY <1>1
    <2>. QED
      BY <2>1, <2>2
  <1>5. \A m \in B : row[m].lease = 0 /\ row[m].status \in {"PENDING", "FAILED"}
    BY <1>1 DEF Claimable
  <1>6. /\ row' \in [Msg -> Row]
        /\ \A m \in Msg : /\ m \notin B => row'[m] = row[m]
                          /\ m \in B => row'[m].status = "PENDING"
                                        /\ row'[m].lease = LeaseTime
    <2>1. \A m \in Msg : [row[m] EXCEPT !.status = "PENDING", !.lease = LeaseTime] \in Row
      BY DEF IndInv, TypeOK, Row
    <2>. QED
      BY <1>1, <2>1 DEF IndInv, TypeOK, Row
  <1>7. Need(w)' = Cardinality(B) * SendTime
    BY <1>3 DEF Need
  <1>8. Need(w)' + LeaseTime <= LeaseTime + BatchSize * SendTime
    <2>1. PICK n \in Nat : n = Cardinality(B) /\ n <= BatchSize
      BY <1>4
    <2>2. PICK b \in Nat, t \in Nat : b = BatchSize /\ t = SendTime /\ n <= b
      BY <2>1
    <2>3. n * t <= b * t
      BY <2>2
    <2>. QED
      BY <1>7, <2>1, <2>2, <2>3
  <1>9. ClaimOK(w)'
    <2>1. \A m \in B : row'[m].status # "none" /\ Covered(w, m)'
      BY <1>4, <1>6, <1>8 DEF Covered
    <2>. QED
      BY <1>3, <2>1 DEF ClaimOK
  <1>10. ASSUME NEW v \in Worker, v # w, NEW m \in worker[v].batch, overruns[m] = 0
         PROVE  row'[m] = row[m] /\ m \notin r.batch
    <2>1. m \in Msg /\ row[m].lease \in Nat /\ row[m].lease > 0
      BY <1>10, HeldFacts
    <2>2. m \notin B
      BY <1>5, <2>1
    <2>. QED
      BY <1>3, <1>6, <2>1, <2>2
  <1>11. \A v \in Worker : v # w =>
            \A m \in worker[v].batch : overruns[m] = 0 =>
               row'[m] = row[m] /\ m \notin r.batch
    BY <1>10
  <1>12. /\ accepted' \in [Msg -> Nat] /\ faults' \in 0..MaxFaults
         /\ shutdowns' \in 0..MaxShutdowns
         /\ \A m \in Msg : /\ accepted[m] <= accepted'[m]
                           /\ row[m].status # "none" => row'[m].status # "none"
    BY <1>2, <1>6 DEF IndInv, TypeOK
  <1>13. row' \in [Msg -> Row] /\ worker' = [worker EXCEPT ![w] = r] /\ r \in WorkerState
    BY <1>3, <1>6
  <1>. QED
    BY <1>2, <1>9, <1>11, <1>12, <1>13, WorkerStep

LEMMA BatchFinite ==
    ASSUME IndInv, NEW w \in Worker
    PROVE  /\ worker[w] \in WorkerState /\ ClaimOK(w)
           /\ IsFiniteSet(worker[w].batch) /\ Cardinality(worker[w].batch) \in Nat
  BY FS_Subset, FS_CardinalityType DEF IndInv, TypeOK, WorkerState

LEMMA AttemptStep ==
    ASSUME IndInv, NEW w \in Worker, Attempt(w)
    PROVE  IndInv'
  <1>1. PICK m \in worker[w].batch :
          worker' = [worker EXCEPT ![w].pc = "send", ![w].cur = m, ![w].left = SendTime]
    BY DEF Attempt
  <1>2. /\ worker[w].pc = "next" /\ row' = row /\ accepted' = accepted
        /\ faults' = faults /\ shutdowns' = shutdowns /\ overruns' = overruns
    BY DEF Attempt
  <1> DEFINE r == [worker[w] EXCEPT !.pc = "send", !.cur = m, !.left = SendTime]
  <1>3. /\ r \in WorkerState /\ worker' = [worker EXCEPT ![w] = r] /\ worker'[w] = r
        /\ r.pc = "send" /\ r.batch = worker[w].batch /\ r.cur = m /\ r.left = SendTime
    BY <1>1 DEF IndInv, TypeOK, WorkerState
  <1> HIDE DEF r
  <1>4. PICK n \in Nat : n = Cardinality(worker[w].batch)
    BY BatchFinite
  <1>5. n * SendTime = (n - 1) * SendTime + SendTime
    OBVIOUS
  <1>6. Need(w)' = Need(w)
    BY <1>2, <1>3, <1>4, <1>5 DEF Need
  <1>7. ClaimOK(w)'
    BY <1>2, <1>3, <1>6, BatchFinite DEF ClaimOK, Covered
  <1>8. /\ accepted' \in [Msg -> Nat]
        /\ \A k \in Msg : accepted[k] <= accepted'[k]
        /\ faults' \in 0..MaxFaults /\ shutdowns' \in 0..MaxShutdowns
    BY <1>2 DEF IndInv, TypeOK
  <1>. QED
    BY <1>2, <1>3, <1>7, <1>8, LocalStep

LEMMA AnswerStep ==
    ASSUME IndInv, NEW w \in Worker,
           NEW answer \in {"ok", "transient", "permanent"}, Answer(w, answer)
    PROVE  IndInv'
  <1> DEFINE r == [worker[w] EXCEPT !.pc = "mark", !.answer = answer]
             m == worker[w].cur
  <1>1. /\ worker[w].pc = "send" /\ row' = row
        /\ shutdowns' = shutdowns /\ overruns' = overruns
        /\ worker' = [worker EXCEPT ![w].pc = "mark", ![w].answer = answer]
    BY DEF Answer
  <1>2. /\ r \in WorkerState /\ worker' = [worker EXCEPT ![w] = r] /\ worker'[w] = r
        /\ r.pc = "mark" /\ r.batch = worker[w].batch /\ r.cur = m
        /\ r.answer = answer
    BY <1>1 DEF IndInv, TypeOK, WorkerState
  <1>3. m \in Msg /\ m \in worker[w].batch
    BY <1>1, BatchFinite DEF ClaimOK, WorkerState
  <1>4. /\ accepted' \in [Msg -> Nat]
        /\ \A k \in Msg : accepted[k] <= accepted'[k]
        /\ faults' \in 0..MaxFaults
        /\ answer = "ok" => accepted'[m] > 0
    BY <1>3, FaultTyped DEF Answer, IndInv, TypeOK
  <1>5. shutdowns' \in 0..MaxShutdowns
    BY <1>1 DEF IndInv, TypeOK
  <1> HIDE DEF r, m
  <1>6. PICK n \in Nat : n = Cardinality(worker[w].batch)
    BY BatchFinite
  <1>7. Need(w)' = (n - 1) * SendTime /\ Need(w) = (n - 1) * SendTime + worker[w].left
    BY <1>1, <1>2, <1>6 DEF Need
  <1>8. ASSUME NEW k \in worker[w].batch, overruns[k] = 0
        PROVE  Covered(w, k)'
    <2>1. worker[w].left \in Nat /\ (n - 1) * SendTime \in Int /\ BatchSize * SendTime \in Int
      BY BatchFinite DEF WorkerState
    <2>2. Need(w)' \in Int /\ Need(w) \in Int /\ Need(w)' <= Need(w)
      BY <1>7, <2>1
    <2>3. row[k].lease \in Nat /\ Covered(w, k)
      BY <1>8, HeldFacts
    <2>. QED
      BY <1>1, <2>1, <2>2, <2>3 DEF Covered
  <1>9. ClaimOK(w)'
    BY <1>1, <1>2, <1>3, <1>4, <1>8, BatchFinite DEF ClaimOK
  <1>. QED
    BY <1>1, <1>2, <1>4, <1>5, <1>9, LocalStep

LEMMA ShutdownStep ==
    ASSUME IndInv, NEW w \in Worker, Shutdown(w)
    PROVE  IndInv'
  <1> DEFINE r == [worker[w] EXCEPT !.stopping = TRUE]
  <1>1. /\ worker' = [worker EXCEPT ![w].stopping = TRUE]
        /\ row' = row /\ accepted' = accepted
        /\ faults' = faults /\ overruns' = overruns
    BY DEF Shutdown
  <1>2. /\ r \in WorkerState /\ worker' = [worker EXCEPT ![w] = r] /\ worker'[w] = r
        /\ r.pc = worker[w].pc /\ r.batch = worker[w].batch /\ r.cur = worker[w].cur
        /\ r.left = worker[w].left /\ r.answer = worker[w].answer
    BY <1>1 DEF IndInv, TypeOK, WorkerState
  <1> HIDE DEF r
  <1>3. Need(w)' = Need(w)
    BY <1>2 DEF Need
  <1>4. ClaimOK(w)'
    BY <1>1, <1>2, <1>3, BatchFinite DEF ClaimOK, Covered
  <1>5. /\ accepted' \in [Msg -> Nat]
        /\ \A k \in Msg : accepted[k] <= accepted'[k]
        /\ faults' \in 0..MaxFaults
    BY <1>1 DEF IndInv, TypeOK
  <1>6. shutdowns' \in 0..MaxShutdowns
    BY DEF Shutdown, IndInv, TypeOK
  <1>. QED
    BY <1>1, <1>2, <1>4, <1>5, <1>6, LocalStep

\* The rows of w's own batch are nobody else's, as long as nobody outlived a
\* claim on them.
LEMMA OwnRows ==
    ASSUME IndInv, NEW w \in Worker, NEW v \in Worker, v # w,
           NEW m \in worker[v].batch, overruns[m] = 0
    PROVE  m \in Msg /\ m \notin worker[w].batch
  BY BatchFinite DEF IndInv, SharedOnlyAfterOverrun, WorkerState

LEMMA ReleaseStep ==
    ASSUME IndInv, NEW w \in Worker, Release(w)
    PROVE  IndInv'
  <1>1. /\ row' = [m \in Msg |->
                     IF m \in worker[w].batch /\ row[m].status = "PENDING"
                     THEN [row[m] EXCEPT !.lease = 0] ELSE row[m]]
        /\ worker' = [worker EXCEPT ![w] = Stopped]
        /\ accepted' = accepted /\ faults' = faults
        /\ shutdowns' = shutdowns /\ overruns' = overruns
    BY DEF Release
  <1>2. row' \in [Msg -> Row]
        /\ \A m \in Msg : /\ row'[m].status = row[m].status
                          /\ m \notin worker[w].batch => row'[m] = row[m]
    <2>1. \A m \in Msg : /\ [row[m] EXCEPT !.lease = 0] \in Row
                         /\ [row[m] EXCEPT !.lease = 0].status = row[m].status
      BY DEF IndInv, TypeOK, Row
    <2>2. \A m \in Msg : row[m] \in Row
      BY DEF IndInv, TypeOK
    <2>. QED
      BY <1>1, <2>1, <2>2
  <1>3. worker'[w] = Stopped /\ Stopped.pc = "down" /\ Stopped.batch = {}
    BY <1>1 DEF IndInv, TypeOK, Stopped
  <1>4. ClaimOK(w)'
    BY <1>3 DEF ClaimOK
  <1>5. /\ accepted' \in [Msg -> Nat]
        /\ \A k \in Msg : /\ accepted[k] <= accepted'[k]
                          /\ row[k].status # "none" => row'[k].status # "none"
        /\ faults' \in 0..MaxFaults /\ shutdowns' \in 0..MaxShutdowns
    BY <1>1, <1>2 DEF IndInv, TypeOK
  <1>6. \A v \in Worker : v # w =>
          \A m \in worker[v].batch : overruns[m] = 0 =>
             row'[m] = row[m] /\ m \notin Stopped.batch
    BY <1>2, <1>3, OwnRows
  <1>. QED
    BY <1>1, <1>2, <1>4, <1>5, <1>6, RestTyped, WorkerStep

\* What marking leaves of a row.
LEMMA MarkedRow ==
    ASSUME NEW r \in Row, NEW answer \in {"ok", "transient", "permanent"}
    PROVE  /\ Marked(r, answer) \in Row
           /\ Marked(r, answer).status # "none"
           /\ answer \in {"ok", "permanent"} => Marked(r, answer).status \in Terminal
  <1>1. SentRow(r) \in Row /\ SentRow(r).status = "SENT"
    BY DEF SentRow, Row, Terminal
  <1>a. PICK a \in Nat : a = r.attempts + 1
    BY DEF Row
  <1>2. DeadRow(r) \in Row /\ DeadRow(r).status = "DEAD"
    <2> DEFINE x == [r EXCEPT !.status = "DEAD"]
               y == [x EXCEPT !.attempts = a]
               z == [y EXCEPT !.lease = 0]
    <2>1. x \in Row /\ x.status = "DEAD" /\ x.attempts = r.attempts
      BY DEF Row, Terminal
    <2>2. DeadRow(r) = z
      BY <1>a, <2>1 DEF DeadRow
    <2> HIDE DEF x
    <2>3. y \in Row /\ y.status = x.status
      BY <2>1 DEF Row
    <2> HIDE DEF y
    <2>4. z \in Row /\ z.status = y.status
      BY <2>3 DEF Row
    <2>. QED
      BY <2>1, <2>2, <2>3, <2>4
  <1>3. FailedRow(r) \in Row /\ FailedRow(r).status \in {"FAILED", "DEAD"}
    <2>1. CASE r.attempts + 1 >= MaxAttempts
      BY <1>2, <2>1 DEF FailedRow
    <2>2. CASE ~(r.attempts + 1 >= MaxAttempts)
      <3> DEFINE x == [r EXCEPT !.status = "FAILED"]
                 y == [x EXCEPT !.attempts = a]
                 z == [y EXCEPT !.due = RetryDelay]
                 u == [z EXCEPT !.lease = 0]
      <3>1. x \in Row /\ x.status = "FAILED" /\ x.attempts = r.attempts
        BY DEF Row
      <3>2. FailedRow(r) = u
        BY <1>a, <2>2, <3>1 DEF FailedRow
      <3> HIDE DEF x
      <3>3. y \in Row /\ y.status = x.status
        BY <3>1 DEF Row
      <3> HIDE DEF y
      <3>4. z \in Row /\ z.status = y.status
        BY <3>3 DEF Row
      <3> HIDE DEF z
      <3>5. u \in Row /\ u.status = z.status
        BY <3>4 DEF Row
      <3>. QED
        BY <3>1, <3>2, <3>3, <3>4, <3>5
    <2>. QED
      BY <2>1, <2>2
  <1>. QED
    BY <1>1, <1>2, <1>3 DEF Marked, Terminal

\* A mark takes one message out of the batch of w and writes its row.
LEMMA MarkFacts ==
    ASSUME IndInv, NEW w \in Worker, Mark(w)
    PROVE  LET m == worker[w].cur
               rest == worker[w].batch \ {m}
           IN  /\ worker[w].pc = "mark" /\ m \in worker[w].batch /\ m \in Msg
               /\ worker[w].answer \in {"ok", "transient", "permanent"}
               /\ row[m] \in Row /\ row[m].status # "none"
               /\ row' \in [Msg -> Row]
               /\ row'[m] = Marked(row[m], worker[w].answer)
               /\ \A k \in Msg : k # m => row'[k] = row[k]
               /\ worker' = [worker EXCEPT ![w] = AfterMark(w)]
               /\ AfterMark(w) \in WorkerState /\ worker'[w] = AfterMark(w)
               /\ AfterMark(w).batch = rest
               /\ rest = {} => AfterMark(w).pc = "idle"
               /\ rest # {} => AfterMark(w).pc = "next"
  <1> DEFINE m == worker[w].cur
             rest == worker[w].batch \ {m}
             r == AfterMark(w)
  <1>1. /\ worker[w].pc = "mark"
        /\ row' = [row EXCEPT ![m] = Marked(row[m], worker[w].answer)]
        /\ worker' = [worker EXCEPT ![w] = r]
    BY DEF Mark
  <1>2. /\ m \in worker[w].batch /\ m \in Msg
        /\ worker[w].answer \in {"ok", "transient", "permanent"}
        /\ row[m].status # "none" /\ row[m] \in Row
    <2>1. m \in worker[w].batch /\ worker[w].answer \in {"ok", "transient", "permanent"}
      BY <1>1, BatchFinite DEF ClaimOK, WorkerState
    <2>. QED
      BY <2>1, HeldFacts DEF Terminal
  <1>3. /\ row' \in [Msg -> Row]
        /\ row'[m] = Marked(row[m], worker[w].answer)
        /\ \A k \in Msg : k # m => row'[k] = row[k]
    BY <1>1, <1>2, MarkedRow DEF IndInv, TypeOK
  <1>4. /\ r \in WorkerState /\ worker'[w] = r /\ r.batch = rest
        /\ rest = {} => r.pc = "idle"
        /\ rest # {} => r.pc = "next"
    BY <1>1, BatchFinite DEF AfterMark, IndInv, TypeOK, WorkerState
  <1>. QED
    BY <1>1, <1>2, <1>3, <1>4

LEMMA MarkStep ==
    ASSUME IndInv, NEW w \in Worker, Mark(w)
    PROVE  IndInv'
  <1> DEFINE m == worker[w].cur
             rest == worker[w].batch \ {m}
             r == AfterMark(w)
  <1>1. accepted' = accepted /\ faults' = faults /\ shutdowns' = shutdowns /\ overruns' = overruns
    BY DEF Mark
  <1>2. /\ m \in worker[w].batch /\ m \in Msg
        /\ worker[w].answer \in {"ok", "transient", "permanent"}
        /\ row[m] \in Row /\ worker[w].pc = "mark"
    BY MarkFacts
  <1>3. /\ row' \in [Msg -> Row]
        /\ row'[m].status # "none"
        /\ \A k \in Msg : k # m => row'[k] = row[k]
    BY <1>2, MarkFacts, MarkedRow
  <1>4. /\ r \in WorkerState /\ worker'[w] = r /\ r.batch = rest
        /\ rest = {} => r.pc = "idle"
        /\ rest # {} => r.pc = "next"
        /\ worker' = [worker EXCEPT ![w] = r]
    BY MarkFacts
  <1>5. rest \subseteq worker[w].batch
    OBVIOUS
  <1>6. PICK n \in Nat : n = Cardinality(worker[w].batch) /\ n - 1 = Cardinality(rest)
    <2>1. Cardinality(worker[w].batch \ {m}) = Cardinality(worker[w].batch) - 1
      <3>1. IsFiniteSet(worker[w].batch) /\ m \in worker[w].batch
        BY <1>2, BatchFinite
      <3> HIDE DEF m
      <3>. QED
        BY <3>1, FS_RemoveElement, Zenon
    <2>. QED
      BY <2>1, BatchFinite
  <1> HIDE DEF r, m, rest
  <1>7. rest # {} => Need(w)' = Need(w)
    BY <1>2, <1>4, <1>6 DEF Need
  <1>8. \A k \in rest : k \in Msg /\ k # m /\ row'[k] = row[k]
    BY <1>2, <1>3, <1>5, BatchFinite DEF WorkerState, rest
  <1>9. ClaimOK(w)'
    <2>1. CASE rest = {}
      BY <1>4, <2>1 DEF ClaimOK
    <2>2. CASE rest # {}
      BY <1>1, <1>4, <1>5, <1>7, <1>8, <2>2, BatchFinite DEF ClaimOK, Covered
    <2>. QED
      BY <2>1, <2>2
  <1>10. \A v \in Worker : v # w =>
           \A k \in worker[v].batch : overruns[k] = 0 =>
              row'[k] = row[k] /\ k \notin r.batch
    BY <1>2, <1>3, <1>4, <1>5, OwnRows
  <1>11. /\ accepted' \in [Msg -> Nat]
         /\ \A k \in Msg : /\ accepted[k] <= accepted'[k]
                           /\ row[k].status # "none" => row'[k].status # "none"
         /\ faults' \in 0..MaxFaults /\ shutdowns' \in 0..MaxShutdowns
    BY <1>1, <1>3 DEF IndInv, TypeOK
  <1>. QED
    BY <1>1, <1>3, <1>4, <1>9, <1>10, <1>11, WorkerStep

LEMMA AgedRow ==
    ASSUME NEW r \in Row
    PROVE  /\ Aged(r) \in Row /\ Aged(r).status = r.status
           /\ Aged(r).attempts = r.attempts
           /\ r.status \notin Terminal => Aged(r).lease = Less(r.lease)
           /\ r.lease = 0 => Aged(r).lease = 0
  <1>1. PICK d \in Nat, l \in Nat :
          d = Less(r.due) /\ l = Less(r.lease) /\ (r.lease = 0 => l = 0)
    BY DEF Less, Row
  <1> DEFINE x == [r EXCEPT !.due = d]
             y == [x EXCEPT !.lease = l]
  <1>2. x \in Row /\ x.status = r.status /\ x.attempts = r.attempts /\ x.lease = r.lease
    BY DEF Row
  <1>3. IF r.status \in Terminal THEN Aged(r) = r ELSE Aged(r) = y
    BY <1>1, <1>2 DEF Aged
  <1> HIDE DEF x
  <1>4. y \in Row /\ y.status = x.status /\ y.attempts = x.attempts /\ y.lease = l
    BY <1>2 DEF Row
  <1> HIDE DEF y
  <1>. QED
    BY <1>1, <1>2, <1>3, <1>4

LEMMA TickStep ==
    ASSUME IndInv, Tick
    PROVE  IndInv'
  <1>1. /\ \A w \in Worker : \/ worker[w].pc \in {"down", "idle"}
                             \/ worker[w].pc = "send" /\ worker[w].left > 0
        /\ row' = [m \in Msg |-> Aged(row[m])]
        /\ worker' = [w \in Worker |-> [worker[w] EXCEPT !.left = Less(@)]]
        /\ accepted' = accepted /\ faults' = faults /\ shutdowns' = shutdowns
        /\ overruns' = [m \in Msg |-> IF Overrun(m) THEN overruns[m] + 1
                                                  ELSE overruns[m]]
    BY DEF Tick
  <1>2. /\ row' \in [Msg -> Row]
        /\ \A m \in Msg : /\ row'[m].status = row[m].status
                          /\ row[m].status = "PENDING" => row'[m].lease = Less(row[m].lease)
    BY <1>1, AgedRow DEF IndInv, TypeOK, Terminal
  <1>3. \A w \in Worker :
          /\ worker'[w] \in WorkerState
          /\ worker'[w].pc = worker[w].pc /\ worker'[w].batch = worker[w].batch
          /\ worker'[w].cur = worker[w].cur /\ worker'[w].answer = worker[w].answer
          /\ worker[w].left > 0 => worker'[w].left = worker[w].left - 1
    <2>1. ASSUME NEW w \in Worker
          PROVE  /\ [worker[w] EXCEPT !.left = Less(@)] \in WorkerState
                 /\ worker'[w] = [worker[w] EXCEPT !.left = Less(@)]
                 /\ worker[w].left > 0 => Less(worker[w].left) = worker[w].left - 1
      <3>1. worker[w] \in WorkerState /\ worker[w].left \in Nat
        BY DEF IndInv, TypeOK, WorkerState
      <3>2. /\ Less(worker[w].left) \in Nat
            /\ worker[w].left > 0 => Less(worker[w].left) = worker[w].left - 1
        BY <3>1 DEF Less
      <3>3. PICK l \in Nat : l = Less(worker[w].left)
        BY <3>2
      <3>4. [worker[w] EXCEPT !.left = l] \in WorkerState
        BY <3>1 DEF WorkerState
      <3>. QED
        BY <1>1, <3>2, <3>3, <3>4
    <2>2. \A w \in Worker : worker[w] \in WorkerState
      BY DEF IndInv, TypeOK
    <2>3. \A w \in Worker :
            LET x == [worker[w] EXCEPT !.left = Less(@)]
            IN  /\ x.pc = worker[w].pc /\ x.batch = worker[w].batch
                /\ x.cur = worker[w].cur /\ x.answer = worker[w].answer
                /\ x.left = Less(worker[w].left)
      BY <2>2 DEF WorkerState
    <2>. QED
      BY <2>1, <2>3
  <1>4. /\ overruns' \in [Msg -> Nat]
        /\ \A m \in Msg : /\ overruns[m] \in Nat
                          /\ overruns'[m] = 0 => overruns[m] = 0 /\ ~Overrun(m)
                          /\ overruns[m] > 0 => overruns'[m] > 0
    BY <1>1 DEF IndInv, TypeOK
  <1>5. TypeOK'
    BY <1>1, <1>2, <1>3, <1>4 DEF IndInv, TypeOK
  <1>6. ASSUME NEW w \in Worker, worker[w].batch # {}
        PROVE  /\ worker[w].pc = "send"
               /\ Need(w) \in Int /\ Need(w) > 0 /\ Need(w)' = Need(w) - 1
    <2>1. worker[w].pc = "send" /\ worker[w].left > 0 /\ worker[w].left \in Nat
      BY <1>1, <1>6, BatchFinite DEF ClaimOK, WorkerState
    <2>2. PICK n \in Nat : n = Cardinality(worker[w].batch)
      BY BatchFinite
    <2>3. n >= 1
      BY <1>6, <2>2, BatchFinite, FS_EmptySet
    <2>4. /\ Need(w) = (n - 1) * SendTime + worker[w].left
          /\ Need(w)' = (n - 1) * SendTime + (worker[w].left - 1)
      BY <1>3, <2>1, <2>2 DEF Need
    <2>5. PICK p \in Nat : p = (n - 1) * SendTime
      <3>1. \A a, b \in Nat : a * b \in Nat
        OBVIOUS
      <3>2. n - 1 \in Nat
        BY <2>3
      <3>. QED
        BY <3>1, <3>2
    <2>. QED
      BY <2>1, <2>4, <2>5
  <1>7. ASSUME NEW w \in Worker
        PROVE  ClaimOK(w)'
    <2>1. ASSUME NEW m \in worker[w].batch
          PROVE  row'[m].status # "none" /\ (overruns'[m] = 0 => Covered(w, m)')
      <3>1. /\ m \in Msg /\ row[m].status # "none" /\ row[m].lease \in Nat
            /\ overruns[m] = 0 => Covered(w, m)
        BY <2>1, HeldFacts DEF Terminal
      <3>2. ASSUME overruns'[m] = 0
            PROVE  Covered(w, m)'
        <4>1. Covered(w, m) /\ ~Overrun(m)
          BY <1>4, <3>1, <3>2
        <4>2. row[m].status = "PENDING" /\ row[m].lease > 0 /\ row[m].lease # 1
          BY <2>1, <4>1 DEF Covered, Overrun, Terminal
        <4>3. row'[m].status = "PENDING" /\ row'[m].lease = row[m].lease - 1
          BY <1>2, <3>1, <4>2 DEF Less
        <4>4. BatchSize * SendTime \in Int
          OBVIOUS
        <4>. QED
          BY <1>6, <3>1, <4>1, <4>2, <4>3, <4>4 DEF Covered
      <3>. QED
        BY <1>2, <3>1, <3>2
    <2>. QED
      BY <1>1, <1>3, <2>1, BatchFinite DEF ClaimOK
  <1>8. SharedOnlyAfterOverrun'
    <2>1. \A w \in Worker : worker[w].batch \subseteq Msg
      BY BatchFinite DEF WorkerState
    <2>. QED
      BY <1>3, <1>4, <2>1 DEF IndInv, SharedOnlyAfterOverrun
  <1>9. ASSUME NEW m \in Msg, overruns'[m] > 0
        PROVE  LeaseTime <= BatchSize * SendTime
    <2>1. CASE overruns[m] > 0
      BY <2>1 DEF IndInv
    <2>2. CASE ~(overruns[m] > 0)
      <3>1. overruns[m] = 0 /\ Overrun(m)
        BY <1>1, <1>4, <1>9, <2>2
      <3>2. PICK w \in Worker : m \in worker[w].batch /\ row[m].lease = 1
        BY <3>1 DEF Overrun
      <3>3. Covered(w, m) /\ Need(w) \in Int /\ Need(w) > 0
        BY <1>6, <3>1, <3>2, HeldFacts
      <3>4. BatchSize * SendTime \in Int
        OBVIOUS
      <3>. QED
        BY <3>2, <3>3, <3>4 DEF Covered
    <2>. QED
      BY <2>1, <2>2
  <1>. QED
    BY <1>5, <1>7, <1>8, <1>9 DEF IndInv

-----------------------------------------------------------------------------
(* The theorems.                                                             *)

LEMMA NextInv ==
    ASSUME IndInv, [Next]_vars
    PROVE  IndInv'
  <1>1. CASE UNCHANGED vars
    <2>1. /\ row' = row /\ worker' = worker /\ accepted' = accepted /\ faults' = faults
          /\ shutdowns' = shutdowns /\ overruns' = overruns
      BY <1>1 DEF vars
    <2>2. \A w \in Worker : Need(w)' = Need(w)
      BY <2>1 DEF Need
    <2>. QED
      BY <2>1, <2>2 DEF IndInv, TypeOK, ClaimOK, Covered, SharedOnlyAfterOverrun
  <1>2. CASE Tick
    BY <1>2, TickStep
  <1>3. ASSUME NEW m \in Msg, Enqueue(m)
        PROVE  IndInv'
    BY <1>3, EnqueueStep
  <1>4. ASSUME NEW w \in Worker,
               Work(w) \/ MarkError(w) \/ Shutdown(w) \/ Crash(w)
        PROVE  IndInv'
    <2>1. CASE Claim(w)
      BY <2>1, ClaimStep
    <2>2. CASE Attempt(w)
      BY <2>2, AttemptStep
    <2>3. CASE \E answer \in {"ok", "transient", "permanent"} : Answer(w, answer)
      BY <2>3, AnswerStep
    <2>4. CASE Mark(w)
      BY <2>4, MarkStep
    <2>5. CASE Release(w)
      BY <2>5, ReleaseStep
    <2>6. CASE MarkError(w) \/ Crash(w) \/ Stop(w) \/ Restart(w)
      BY <2>6, StopStep
    <2>7. CASE Shutdown(w)
      BY <2>7, ShutdownStep
    <2>. QED
      BY <1>4, <2>1, <2>2, <2>3, <2>4, <2>5, <2>6, <2>7 DEF Work
  <1>. QED
    BY <1>1, <1>2, <1>3, <1>4 DEF Next

\* For every lease, batch and timeout, the steps of the workers preserve the
\* reason why a claim is exclusive until it is outlived.
THEOREM Invariant == Spec => []IndInv
  BY InitInv, NextInv, PTL DEF Spec

\* The same for the types.
THEOREM TypeCorrect == Spec => []TypeOK
  <1>1. IndInv => TypeOK
    BY DEF IndInv
  <1>. QED
    BY <1>1, Invariant, PTL

\* "another worker cannot have this row (the claim is exclusive)"
\* (mark_failed) is true up to the first lease that lapses under a worker, for
\* any number of workers and faults and whatever the lease is.
THEOREM ExclusiveUntilOverrun == Spec => []SharedOnlyAfterOverrun
  <1>1. IndInv => SharedOnlyAfterOverrun
    BY DEF IndInv
  <1>. QED
    BY <1>1, Invariant, PTL

\* A lease lapses under a worker only where the deliveries of the longest
\* batch may take as long as the lease.
OverrunsNeedALongBatch ==
    (\E m \in Msg : overruns[m] > 0) => LeaseTime <= BatchSize * SendTime

\* "it comfortably exceeds one delivery attempt" (CLAIM_LEASE_SECONDS) is not
\* enough, and this is: the lease must exceed BatchSize attempts.
THEOREM OnlyLongBatchesOverrun == Spec => []OverrunsNeedALongBatch
  <1>1. IndInv => OverrunsNeedALongBatch
    BY DEF IndInv, OverrunsNeedALongBatch
  <1>. QED
    BY <1>1, Invariant, PTL

-----------------------------------------------------------------------------
(* The workers implement the mailbox.                                        *)

\* Steps that leave the mailbox as it is.
LEMMA SameBox ==
    ASSUME accepted' = accepted, overruns' = overruns,
           \A m \in Msg : /\ AbstractState(m)' = AbstractState(m)
                          /\ row'[m].attempts = row[m].attempts
    PROVE  UNCHANGED Box!vars
  BY DEF Box!vars

LEMMA SameRowsBox ==
    ASSUME accepted' = accepted, overruns' = overruns, row' = row
    PROVE  UNCHANGED Box!vars
  <1>1. \A m \in Msg : /\ AbstractState(m)' = AbstractState(m)
                       /\ row'[m].attempts = row[m].attempts
    BY DEF AbstractState
  <1>. QED
    BY <1>1, SameBox

LEMMA SameStatusBox ==
    ASSUME accepted' = accepted, overruns' = overruns,
           \A m \in Msg : /\ row'[m].status = row[m].status
                          /\ row'[m].attempts = row[m].attempts
    PROVE  UNCHANGED Box!vars
  <1>1. \A m \in Msg : AbstractState(m)' = AbstractState(m)
    BY DEF AbstractState
  <1>. QED
    BY <1>1, SameBox

LEMMA ClaimBox ==
    ASSUME IndInv, NEW w \in Worker, Claim(w)
    PROVE  UNCHANGED Box!vars
  <1>1. PICK B \in SUBSET Claimable :
          row' = [m \in Msg |->
                    IF m \in B THEN [row[m] EXCEPT !.status = "PENDING",
                                                   !.lease = LeaseTime]
                               ELSE row[m]]
    BY DEF Claim
  <1>2. \A m \in B : row[m].status \in {"PENDING", "FAILED"}
    BY DEF Claimable
  <1>3. \A m \in Msg : /\ row'[m].attempts = row[m].attempts
                       /\ m \in B => row'[m].status = "PENDING"
                       /\ m \notin B => row'[m].status = row[m].status
    BY <1>1 DEF IndInv, TypeOK, Row
  <1>4. \A m \in Msg : AbstractState(m)' = AbstractState(m)
    BY <1>2, <1>3 DEF AbstractState
  <1>5. accepted' = accepted /\ overruns' = overruns
    BY DEF Claim
  <1>. QED
    BY <1>3, <1>4, <1>5, SameBox

LEMMA EnqueueBox ==
    ASSUME IndInv, NEW m \in Msg, Enqueue(m)
    PROVE  Box!Enqueue(m)
  <1>1. /\ row[m].status = "none" /\ accepted' = accepted /\ overruns' = overruns
        /\ row' = [row EXCEPT ![m].status = "PENDING"]
    BY DEF Enqueue
  <1>2. /\ row'[m].status = "PENDING" /\ row'[m].attempts = row[m].attempts
        /\ \A k \in Msg : k # m => row'[k] = row[k]
    BY <1>1 DEF IndInv, TypeOK, Row
  <1>3. /\ AbstractState(m) = "none" /\ AbstractState(m)' = "queued"
        /\ \A k \in Msg : k # m => AbstractState(k)' = AbstractState(k)
    BY <1>1, <1>2 DEF AbstractState
  <1>4. \A k \in Msg : row'[k].attempts = row[k].attempts
    BY <1>2
  <1>. QED
    BY <1>1, <1>3, <1>4 DEF Box!Enqueue

\* A message some worker has in its batch is open.
LEMMA HeldIsOpen ==
    ASSUME IndInv, NEW w \in Worker, NEW m \in worker[w].batch
    PROVE  m \in Msg /\ Box!Open(m)
  <1>1. /\ m \in Msg /\ row[m].status # "none" /\ overruns[m] \in Nat
        /\ row[m].status \in {"none", "PENDING", "FAILED", "SENT", "DEAD"}
        /\ overruns[m] = 0 => row[m].status = "PENDING"
    BY HeldFacts DEF Terminal
  <1>2. CASE overruns[m] = 0
    <2>1. AbstractState(m) = "queued"
      BY <1>1, <1>2 DEF AbstractState
    <2>. QED
      BY <1>1, <2>1 DEF Box!Open
  <1>3. CASE overruns[m] # 0
    <2>1. AbstractState(m) # "none"
      BY <1>1 DEF AbstractState
    <2>2. m \in {k \in Msg : overruns[k] > 0}
      BY <1>1, <1>3
    <2>. QED
      BY <1>1, <2>1, <2>2 DEF Box!Open
  <1>. QED
    BY <1>2, <1>3

LEMMA AnswerBox ==
    ASSUME IndInv, NEW w \in Worker,
           NEW answer \in {"ok", "transient", "permanent"}, Answer(w, answer)
    PROVE  [Box!Next]_(Box!vars)
  <1>1. PICK m \in Msg : m = worker[w].cur /\ m \in worker[w].batch /\ Box!Open(m)
    BY BatchFinite, HeldIsOpen DEF Answer, ClaimOK, WorkerState
  <1>2. row' = row /\ overruns' = overruns
    BY DEF Answer
  <1>3. CASE accepted' = accepted
    BY <1>2, <1>3, SameRowsBox
  <1>4. CASE accepted' = [accepted EXCEPT ![m] = @ + 1]
    <2>1. \A k \in Msg : /\ AbstractState(k)' = AbstractState(k)
                         /\ row'[k].attempts = row[k].attempts
      BY <1>2 DEF AbstractState
    <2>2. /\ accepted[m] \in Nat /\ accepted'[m] = accepted[m] + 1
          /\ \A k \in Msg : k # m => accepted'[k] = accepted[k]
      BY <1>4 DEF IndInv, TypeOK
    <2>3. {k \in Msg : accepted'[k] > 0} = {k \in Msg : accepted[k] > 0} \cup {m}
      BY <2>2
    <2>4. Box!Reach(m)
      BY <1>1, <1>2, <2>1, <2>3 DEF Box!Reach
    <2>. QED
      BY <2>4 DEF Box!Next
  <1>. QED
    BY <1>1, <1>3, <1>4 DEF Answer

\* What each mark says of the row.
LEMMA MarkedFields ==
    ASSUME NEW r \in Row
    PROVE  /\ SentRow(r).status = "SENT" /\ SentRow(r).attempts = r.attempts
           /\ DeadRow(r).status = "DEAD" /\ DeadRow(r).attempts = r.attempts + 1
           /\ r.attempts + 1 >= MaxAttempts => FailedRow(r) = DeadRow(r)
           /\ ~(r.attempts + 1 >= MaxAttempts) =>
                FailedRow(r).status = "FAILED" /\ FailedRow(r).attempts = r.attempts + 1
  BY DEF SentRow, DeadRow, FailedRow, Row

LEMMA MarkBox ==
    ASSUME IndInv, NEW w \in Worker, Mark(w)
    PROVE  Box!Next
  <1>1. PICK m \in Msg : /\ m = worker[w].cur /\ m \in worker[w].batch /\ Box!Open(m)
                         /\ row[m] \in Row
    BY MarkFacts, HeldIsOpen
  <1>2. PICK answer \in {"ok", "transient", "permanent"} :
          /\ answer = worker[w].answer
          /\ answer = "ok" => accepted[m] > 0
    BY <1>1, MarkFacts, BatchFinite DEF Mark, ClaimOK, WorkerState
  <1>3. accepted' = accepted /\ overruns' = overruns
    BY DEF Mark
  <1>4. /\ row'[m] = Marked(row[m], answer)
        /\ \A k \in Msg : k # m => row'[k] = row[k]
    BY <1>1, <1>2, MarkFacts
  <1>5. \A k \in Msg : k # m => /\ AbstractState(k)' = AbstractState(k)
                                /\ row'[k].attempts = row[k].attempts
    BY <1>4 DEF AbstractState
  <1>6. CASE answer = "ok"
    <2>1. row'[m].status = "SENT" /\ row'[m].attempts = row[m].attempts
      BY <1>1, <1>4, <1>6, MarkedFields DEF Marked
    <2>2. AbstractState(m)' = "sent"
      BY <2>1 DEF AbstractState
    <2>3. Box!Settle(m)
      BY <1>1, <1>2, <1>3, <1>5, <1>6, <2>1, <2>2 DEF Box!Settle
    <2>. QED
      BY <2>3 DEF Box!Next
  <1>7. CASE answer = "permanent"
    <2>1. row'[m].status = "DEAD" /\ row'[m].attempts = row[m].attempts + 1
      BY <1>1, <1>4, <1>7, MarkedFields DEF Marked
    <2>2. AbstractState(m)' = "dead"
      BY <2>1 DEF AbstractState
    <2>3. Box!Refuse(m)
      BY <1>1, <1>3, <1>5, <2>1, <2>2 DEF Box!Refuse
    <2>. QED
      BY <2>3 DEF Box!Next
  <1>8. CASE answer = "transient"
    <2>1. row'[m] = FailedRow(row[m])
      BY <1>4, <1>8 DEF Marked
    <2>2. CASE row[m].attempts + 1 >= MaxAttempts
      <3>1. row'[m].status = "DEAD" /\ row'[m].attempts = row[m].attempts + 1
        BY <1>1, <2>1, <2>2, MarkedFields
      <3>2. AbstractState(m)' = "dead"
        BY <3>1 DEF AbstractState
      <3>3. Box!Fail(m)
        BY <1>1, <1>3, <1>5, <2>2, <3>1, <3>2 DEF Box!Fail
      <3>. QED
        BY <3>3 DEF Box!Next
    <2>3. CASE ~(row[m].attempts + 1 >= MaxAttempts)
      <3>1. row'[m].status = "FAILED" /\ row'[m].attempts = row[m].attempts + 1
        BY <1>1, <2>1, <2>3, MarkedFields
      <3>2. AbstractState(m)' = "queued"
        BY <3>1 DEF AbstractState
      <3>3. Box!Fail(m)
        BY <1>1, <1>3, <1>5, <2>3, <3>1, <3>2 DEF Box!Fail
      <3>. QED
        BY <3>3 DEF Box!Next
    <2>. QED
      BY <2>2, <2>3
  <1>. QED
    BY <1>6, <1>7, <1>8

LEMMA ReleaseBox ==
    ASSUME IndInv, NEW w \in Worker, Release(w)
    PROVE  UNCHANGED Box!vars
  <1>1. \A m \in Msg : /\ row'[m].status = row[m].status
                       /\ row'[m].attempts = row[m].attempts
    <2>1. \A m \in Msg : /\ [row[m] EXCEPT !.lease = 0].status = row[m].status
                         /\ [row[m] EXCEPT !.lease = 0].attempts = row[m].attempts
      BY DEF IndInv, TypeOK, Row
    <2>. QED
      BY <2>1 DEF Release
  <1>. QED
    BY <1>1, SameStatusBox DEF Release

\* Time makes messages late; it changes nothing else the mailbox speaks of.
LEMMA TickBox ==
    ASSUME IndInv, Tick
    PROVE  Box!Next
  <1>1. \A m \in Msg : /\ row'[m].status = row[m].status
                       /\ row'[m].attempts = row[m].attempts
    BY AgedRow DEF Tick, IndInv, TypeOK
  <1>2. \A m \in Msg : AbstractState(m)' = AbstractState(m)
    BY <1>1 DEF AbstractState
  <1> DEFINE M == {m \in Msg : Overrun(m)}
  <1>3. \A m \in M : AbstractState(m) = "queued"
    <2>1. ASSUME NEW m \in M
          PROVE  AbstractState(m) = "queued"
      <3>1. PICK w \in Worker : m \in worker[w].batch /\ row[m].status \notin Terminal
        BY DEF Overrun
      <3>2. row[m].status \in {"PENDING", "FAILED"}
        BY <3>1, HeldFacts
      <3>. QED
        BY <3>2 DEF AbstractState
    <2>. QED
      BY <2>1
  <1>4. {m \in Msg : overruns'[m] > 0} = {m \in Msg : overruns[m] > 0} \cup M
    <2>1. \A m \in Msg : /\ overruns[m] \in Nat
                         /\ overruns'[m] = IF Overrun(m) THEN overruns[m] + 1
                                                         ELSE overruns[m]
      BY DEF Tick, IndInv, TypeOK
    <2>2. \A m \in Msg : overruns'[m] > 0 <=> overruns[m] > 0 \/ Overrun(m)
      BY <2>1
    <2>. QED
      BY <2>2
  <1>5. accepted' = accepted
    BY DEF Tick
  <1>6. PICK N \in SUBSET Msg : N = M
    OBVIOUS
  <1> HIDE DEF M
  <1>7. Box!Overdue(N)
    BY <1>1, <1>2, <1>3, <1>4, <1>5, <1>6 DEF Box!Overdue
  <1>. QED
    BY <1>7 DEF Box!Next

LEMMA BoxStep ==
    ASSUME IndInv, [Next]_vars
    PROVE  [Box!Next]_(Box!vars)
  <1>1. CASE UNCHANGED vars
    BY <1>1, SameRowsBox DEF vars
  <1>2. CASE Tick
    BY <1>2, TickBox
  <1>3. ASSUME NEW m \in Msg, Enqueue(m)
        PROVE  Box!Next
    BY <1>3, EnqueueBox DEF Box!Next
  <1>4. ASSUME NEW w \in Worker,
               Work(w) \/ MarkError(w) \/ Shutdown(w) \/ Crash(w)
        PROVE  [Box!Next]_(Box!vars)
    <2>1. CASE Claim(w)
      BY <2>1, ClaimBox
    <2>2. CASE Attempt(w) \/ Stop(w) \/ Restart(w) \/ MarkError(w) \/ Shutdown(w) \/ Crash(w)
      BY <2>2, SameRowsBox DEF Attempt, Stop, Restart, MarkError, Shutdown, Crash
    <2>3. CASE \E answer \in {"ok", "transient", "permanent"} : Answer(w, answer)
      BY <2>3, AnswerBox
    <2>4. CASE Mark(w)
      BY <2>4, MarkBox
    <2>5. CASE Release(w)
      BY <2>5, ReleaseBox
    <2>. QED
      BY <1>4, <2>1, <2>2, <2>3, <2>4, <2>5 DEF Work
  <1>. QED
    BY <1>1, <1>2, <1>3, <1>4 DEF Next

\* Claims, leases that may lapse, retries, crashes and lost answers implement
\* at-least-once delivery: outcomes are final, and the budget kept, of every
\* message no claim of which was outlived.
THEOREM MailboxImplemented == Spec => ImplementsMailbox
  <1>1. Init => Box!Init
    BY DEF Init, NoRow, AbstractState, Box!Init
  <1>2. IndInv /\ [Next]_vars => [Box!Next]_(Box!vars)
    BY BoxStep
  <1>. QED
    BY <1>1, <1>2, Invariant, PTL DEF Spec, ImplementsMailbox, Box!Spec

-----------------------------------------------------------------------------
(* How often a message is accepted: an acceptance is used up by the claim    *)
(* that made it, and what makes a row claimable again is a worker that gives *)
(* its claim up unused, a fault, or an overrun.                              *)

\* The acceptance by w is on its way into the row.
Recording(w, m) ==
    worker[w].pc = "mark" /\ worker[w].cur = m /\ worker[w].answer = "ok"

\* The workers that may still get m accepted, or report that they did not.
Owing(m) == {w \in Worker : m \in worker[w].batch /\ ~Recording(w, m)}

Owes(w, m) == IF m \in worker[w].batch /\ ~Recording(w, m) THEN 1 ELSE 0

\* m will be claimable without any worker giving it up.
Free(m) ==
    /\ row[m].status \notin Terminal
    /\ row[m].lease = 0 \/ \A w \in Worker : m \notin worker[w].batch

Ticket(m) == IF Free(m) THEN 1 ELSE 0

Paid(m) ==
    accepted[m] + Cardinality(Owing(m)) + Ticket(m) <= 1 + faults + overruns[m]

LEMMA OwingFinite ==
    ASSUME NEW m \in Msg
    PROVE  IsFiniteSet(Owing(m)) /\ Cardinality(Owing(m)) \in Nat
  BY FS_Subset, FS_CardinalityType DEF Owing

\* Only w's own debt changes in a step of w.
LEMMA OwingStep ==
    ASSUME NEW w \in Worker, NEW m \in Msg,
           \A v \in Worker : v # w => worker'[v] = worker[v]
    PROVE  /\ Cardinality(Owing(m)) \in Nat /\ Cardinality(Owing(m)') \in Nat
           /\ Cardinality(Owing(m)') = Cardinality(Owing(m)) - Owes(w, m) + Owes(w, m)'
  <1> DEFINE S == Owing(m)
             T == Owing(m)'
  <1>1. /\ IsFiniteSet(S) /\ Cardinality(S) \in Nat
        /\ IsFiniteSet(T) /\ Cardinality(T) \in Nat
    BY FS_Subset, FS_CardinalityType DEF Owing
  <1>2. /\ w \in S <=> Owes(w, m) = 1
        /\ w \in T <=> Owes(w, m)' = 1
        /\ Owes(w, m) \in {0, 1} /\ Owes(w, m)' \in {0, 1}
    BY DEF Owing, Owes
  <1>3. \A v \in Worker : v # w => (v \in S <=> v \in T)
    BY DEF Owing, Recording
  <1>4. S \subseteq Worker /\ T \subseteq Worker
    BY DEF Owing
  <1> HIDE DEF S, T
  <1>5. CASE (w \in S) <=> (w \in T)
    <2>1. S = T
      BY <1>3, <1>4, <1>5
    <2>. QED
      BY <1>1, <1>2, <1>5, <2>1 DEF S, T
  <1>6. CASE w \in S /\ w \notin T
    <2>1. T = S \ {w}
      BY <1>3, <1>4, <1>6
    <2>2. Cardinality(T) = Cardinality(S) - 1
      BY <1>1, <1>6, <2>1, FS_RemoveElement, Zenon
    <2>. QED
      BY <1>1, <1>2, <1>6, <2>2 DEF S, T
  <1>7. CASE w \notin S /\ w \in T
    <2>1. T = S \cup {w}
      BY <1>3, <1>4, <1>7
    <2>2. Cardinality(T) = Cardinality(S) + 1
      BY <1>1, <1>7, <2>1, FS_AddElement, Zenon
    <2>. QED
      BY <1>1, <1>2, <1>7, <2>2 DEF S, T
  <1>. QED
    BY <1>5, <1>6, <1>7

\* Debts, tickets and acceptances of one message across a step of w.
LEMMA StepPays ==
    ASSUME IndInv, IndInv', NEW w \in Worker, NEW m \in Msg, Paid(m),
           \A v \in Worker : v # w => worker'[v] = worker[v],
           overruns' = overruns,
           accepted'[m] + Owes(w, m)' + Ticket(m)' + faults
             <= accepted[m] + Owes(w, m) + Ticket(m) + faults'
    PROVE  Paid(m)'
  <1>1. /\ accepted[m] \in Nat /\ accepted'[m] \in Nat
        /\ faults \in Nat /\ faults' \in Nat /\ overruns[m] \in Nat
    BY DEF IndInv, TypeOK
  <1>2. /\ Owes(w, m) \in Nat /\ Owes(w, m)' \in Nat
        /\ Ticket(m) \in Nat /\ Ticket(m)' \in Nat
    BY DEF Owes, Ticket
  <1>3. /\ Cardinality(Owing(m)) \in Nat /\ Cardinality(Owing(m)') \in Nat
        /\ Cardinality(Owing(m)') = Cardinality(Owing(m)) - Owes(w, m) + Owes(w, m)'
    BY OwingStep
  <1>. QED
    BY <1>1, <1>2, <1>3 DEF Paid

LEMMA ClaimPays ==
    ASSUME IndInv, IndInv', NEW w \in Worker, NEW m \in Msg, Paid(m), Claim(w)
    PROVE  Paid(m)'
  <1>1. PICK B \in SUBSET Claimable :
          /\ row' = [k \in Msg |->
                       IF k \in B THEN [row[k] EXCEPT !.status = "PENDING",
                                                      !.lease = LeaseTime]
                                  ELSE row[k]]
          /\ worker' = [worker EXCEPT ![w].pc = "next", ![w].batch = B]
    BY DEF Claim
  <1>2. /\ worker[w].pc = "idle" /\ accepted' = accepted /\ faults' = faults
        /\ overruns' = overruns /\ worker[w].batch = {}
    BY DEF Claim, IndInv, ClaimOK
  <1>3. /\ worker'[w].batch = B /\ worker'[w].pc = "next"
        /\ \A v \in Worker : v # w => worker'[v] = worker[v]
    BY <1>1 DEF IndInv, TypeOK, WorkerState
  <1>4. Owes(w, m) = 0
    BY <1>2 DEF Owes
  <1>5. accepted[m] \in Nat /\ faults \in Nat
    BY DEF IndInv, TypeOK
  <1>6. CASE m \in B
    <2>1. Free(m)
      BY <1>6 DEF Claimable, Free, Terminal
    <2>2. row'[m].lease = LeaseTime
      <3>1. row[m] \in Row
        BY DEF IndInv, TypeOK
      <3>2. row'[m] = [row[m] EXCEPT !.status = "PENDING", !.lease = LeaseTime]
        BY <1>1, <1>6
      <3>. QED
        BY <3>1, <3>2 DEF Row
    <2>3. ~Free(m)'
      BY <1>3, <1>6, <2>2 DEF Free
    <2>4. Owes(w, m)' \in {0, 1} /\ Ticket(m) = 1 /\ Ticket(m)' = 0
      BY <2>1, <2>3 DEF Owes, Ticket
    <2>. QED
      BY <1>2, <1>3, <1>4, <1>5, <2>4, StepPays
  <1>7. CASE m \notin B
    <2>1. row'[m] = row[m]
      BY <1>1, <1>7
    <2>2. Owes(w, m)' = 0
      BY <1>3, <1>7 DEF Owes
    <2>3. Free(m)' <=> Free(m)
      BY <1>2, <1>3, <1>7, <2>1 DEF Free
    <2>4. Ticket(m)' = Ticket(m) /\ Ticket(m) \in Nat
      BY <2>3 DEF Ticket
    <2>. QED
      BY <1>2, <1>3, <1>4, <1>5, <2>2, <2>4, StepPays
  <1>. QED
    BY <1>6, <1>7

\* A step of w that neither changes the rows nor who has m in hand.
LEMMA HoldingPays ==
    ASSUME IndInv, IndInv', NEW w \in Worker, NEW m \in Msg, Paid(m),
           \A v \in Worker : v # w => worker'[v] = worker[v],
           row' = row, overruns' = overruns,
           worker'[w].batch = worker[w].batch,
           accepted'[m] + Owes(w, m)' + faults <= accepted[m] + Owes(w, m) + faults'
    PROVE  Paid(m)'
  <1>1. \A v \in Worker : m \in worker'[v].batch <=> m \in worker[v].batch
    OBVIOUS
  <1>2. Free(m)' <=> Free(m)
    BY <1>1 DEF Free
  <1>3. Ticket(m)' = Ticket(m) /\ Ticket(m) \in Nat
    BY <1>2 DEF Ticket
  <1>4. /\ accepted[m] \in Nat /\ accepted'[m] \in Nat
        /\ faults \in Nat /\ faults' \in Nat
    BY DEF IndInv, TypeOK
  <1>5. Owes(w, m) \in Nat /\ Owes(w, m)' \in Nat
    BY DEF Owes
  <1>. QED
    BY <1>3, <1>4, <1>5, StepPays

LEMMA AnswerPays ==
    ASSUME IndInv, IndInv', NEW w \in Worker, NEW m \in Msg, Paid(m),
           NEW answer \in {"ok", "transient", "permanent"}, Answer(w, answer)
    PROVE  Paid(m)'
  <1>1. PICK c \in Msg : c = worker[w].cur /\ c \in worker[w].batch
    BY BatchFinite DEF Answer, ClaimOK, WorkerState
  <1>2. /\ worker[w].pc = "send" /\ row' = row /\ overruns' = overruns
        /\ worker'[w].pc = "mark" /\ worker'[w].cur = c /\ worker'[w].answer = answer
        /\ worker'[w].batch = worker[w].batch
        /\ \A v \in Worker : v # w => worker'[v] = worker[v]
        /\ faults \in Nat /\ accepted \in [Msg -> Nat]
    BY <1>1 DEF Answer, IndInv, TypeOK, WorkerState
  <1>3. Owes(w, m) = (IF m \in worker[w].batch THEN 1 ELSE 0)
    BY <1>2 DEF Owes, Recording
  <1>4. CASE answer = "ok" /\ accepted' = [accepted EXCEPT ![c] = @ + 1] /\ faults' = faults
    <2>1. CASE m = c
      <3>1. Owes(w, m)' = 0 /\ Owes(w, m) = 1 /\ accepted'[m] = accepted[m] + 1
        BY <1>1, <1>2, <1>3, <1>4, <2>1 DEF Owes, Recording
      <3>. QED
        BY <1>2, <1>4, <3>1, HoldingPays
    <2>2. CASE m # c
      <3>1. Owes(w, m)' = Owes(w, m) /\ accepted'[m] = accepted[m] /\ Owes(w, m) \in Nat
        BY <1>2, <1>3, <1>4, <2>2 DEF Owes, Recording
      <3>. QED
        BY <1>2, <1>4, <3>1, HoldingPays
    <2>. QED
      BY <2>1, <2>2
  <1>5. CASE answer # "ok"
    <2>1. Owes(w, m)' = Owes(w, m) /\ Owes(w, m) \in Nat
      BY <1>2, <1>3, <1>5 DEF Owes, Recording
    <2>2. CASE accepted' = accepted /\ faults' = faults
      BY <1>2, <2>1, <2>2, HoldingPays
    <2>3. CASE accepted' = [accepted EXCEPT ![c] = @ + 1] /\ Fault
      <3>1. accepted'[m] <= accepted[m] + 1 /\ faults' = faults + 1
            /\ accepted'[m] \in Nat /\ accepted[m] \in Nat
        BY <1>2, <2>3 DEF Fault
      <3>2. accepted'[m] + Owes(w, m)' + faults <= accepted[m] + Owes(w, m) + faults'
        BY <1>2, <2>1, <3>1
      <3>. QED
        BY <1>2, <3>2, HoldingPays
    <2>. QED
      BY <1>1, <1>5, <2>2, <2>3 DEF Answer
  <1>. QED
    BY <1>1, <1>4, <1>5 DEF Answer

LEMMA MarkPays ==
    ASSUME IndInv, IndInv', NEW w \in Worker, NEW m \in Msg, Paid(m), Mark(w)
    PROVE  Paid(m)'
  <1> DEFINE c == worker[w].cur
  <1>1. /\ accepted' = accepted /\ faults' = faults /\ overruns' = overruns
        /\ accepted[m] \in Nat /\ faults \in Nat
    BY DEF Mark, IndInv, TypeOK
  <1>2. /\ worker[w].pc = "mark" /\ c \in worker[w].batch /\ c \in Msg
        /\ worker[w].answer \in {"ok", "transient", "permanent"}
        /\ row[c] \in Row
        /\ row'[c] = Marked(row[c], worker[w].answer)
        /\ \A k \in Msg : k # c => row'[k] = row[k]
        /\ worker'[w].batch = worker[w].batch \ {c}
        /\ worker'[w].pc \in {"idle", "next"}
    BY MarkFacts
  <1>3. \A v \in Worker : v # w => worker'[v] = worker[v]
    BY MarkFacts DEF IndInv, TypeOK
  <1>4. CASE m = c
    <2>1. Owes(w, m)' = 0 /\ Owes(w, m) \in {0, 1} /\ Ticket(m) \in {0, 1} /\ Ticket(m)' \in {0, 1}
      BY <1>2, <1>4 DEF Owes, Ticket
    <2>2. CASE worker[w].answer = "transient"
      <3>1. Owes(w, m) = 1
        BY <1>2, <1>4, <2>2 DEF Owes, Recording
      <3>. QED
        BY <1>1, <1>3, <2>1, <3>1, StepPays
    <2>3. CASE worker[w].answer \in {"ok", "permanent"}
      <3>1. row'[m].status \in Terminal
        BY <1>2, <1>4, <2>3, MarkedRow
      <3>2. Ticket(m)' = 0
        BY <3>1 DEF Ticket, Free
      <3>. QED
        BY <1>1, <1>3, <2>1, <3>2, StepPays
    <2>. QED
      BY <1>2, <2>2, <2>3
  <1>5. CASE m # c
    <2>1. row'[m] = row[m] /\ (m \in worker'[w].batch <=> m \in worker[w].batch)
      BY <1>2, <1>5
    <2>2. Free(m)' <=> Free(m)
      BY <1>3, <2>1 DEF Free
    <2>3. Ticket(m)' = Ticket(m) /\ Ticket(m) \in Nat
      BY <2>2 DEF Ticket
    <2>4. Owes(w, m)' = Owes(w, m) /\ Owes(w, m) \in Nat
      BY <1>2, <1>5, <2>1 DEF Owes, Recording
    <2>. QED
      BY <1>1, <1>3, <2>3, <2>4, StepPays
  <1>. QED
    BY <1>4, <1>5

\* A fault pays for the ticket it may give out.
LEMMA FaultPays ==
    ASSUME IndInv, IndInv', NEW w \in Worker, NEW m \in Msg, Paid(m),
           MarkError(w) \/ Crash(w)
    PROVE  Paid(m)'
  <1>1. /\ accepted' = accepted /\ faults' = faults + 1 /\ overruns' = overruns
        /\ accepted[m] \in Nat /\ faults \in Nat
    BY DEF MarkError, Crash, Fault, IndInv, TypeOK
  <1>2. /\ worker'[w].batch = {}
        /\ \A v \in Worker : v # w => worker'[v] = worker[v]
    <2>1. CASE MarkError(w)
      <3>1. worker'[w] = [Waiting EXCEPT !.stopping = worker[w].stopping]
            /\ \A v \in Worker : v # w => worker'[v] = worker[v]
        BY <2>1 DEF MarkError, IndInv, TypeOK
      <3>2. [Waiting EXCEPT !.stopping = worker[w].stopping].batch = {}
        BY DEF Waiting, Stopped
      <3>. QED
        BY <3>1, <3>2
    <2>2. CASE Crash(w)
      BY <2>2 DEF Crash, Stopped, IndInv, TypeOK
    <2>. QED
      BY <2>1, <2>2
  <1>3. Owes(w, m)' = 0 /\ Owes(w, m) \in {0, 1} /\ Ticket(m) \in {0, 1} /\ Ticket(m)' \in {0, 1}
    BY <1>2 DEF Owes, Ticket
  <1>. QED
    BY <1>1, <1>2, <1>3, StepPays

\* A worker that releases gives its claims up unused.
LEMMA ReleasePays ==
    ASSUME IndInv, IndInv', NEW w \in Worker, NEW m \in Msg, Paid(m), Release(w)
    PROVE  Paid(m)'
  <1>1. /\ accepted' = accepted /\ faults' = faults /\ overruns' = overruns
        /\ accepted[m] \in Nat /\ faults \in Nat /\ worker[w].pc = "next"
        /\ m \notin worker[w].batch => row'[m] = row[m]
    BY DEF Release, IndInv, TypeOK
  <1>2. /\ worker'[w].batch = {}
        /\ \A v \in Worker : v # w => worker'[v] = worker[v]
    BY DEF Release, Stopped, IndInv, TypeOK
  <1>3. Owes(w, m)' = 0 /\ Ticket(m) \in {0, 1} /\ Ticket(m)' \in {0, 1}
    BY <1>2 DEF Owes, Ticket
  <1>4. CASE m \in worker[w].batch
    <2>1. Owes(w, m) = 1
      BY <1>1, <1>4 DEF Owes, Recording
    <2>. QED
      BY <1>1, <1>2, <1>3, <2>1, StepPays
  <1>5. CASE m \notin worker[w].batch
    <2>1. Owes(w, m) = 0
      BY <1>5 DEF Owes
    <2>2. Free(m)' <=> Free(m)
      BY <1>1, <1>2, <1>5 DEF Free
    <2>3. Ticket(m)' = Ticket(m)
      BY <2>2 DEF Ticket
    <2>. QED
      BY <1>1, <1>2, <1>3, <2>1, <2>3, StepPays
  <1>. QED
    BY <1>4, <1>5

LEMMA QuietPays ==
    ASSUME IndInv, IndInv', NEW w \in Worker, NEW m \in Msg, Paid(m),
           Attempt(w) \/ Shutdown(w) \/ Stop(w) \/ Restart(w)
    PROVE  Paid(m)'
  <1>1. accepted' = accepted /\ faults' = faults /\ overruns' = overruns /\ row' = row
    BY DEF Attempt, Shutdown, Stop, Restart
  <1>2. /\ accepted[m] \in Nat /\ faults \in Nat
        /\ worker[w] \in WorkerState /\ ClaimOK(w)
    BY DEF IndInv, TypeOK
  <1>3. \A v \in Worker : v # w => worker'[v] = worker[v]
    BY DEF Attempt, Shutdown, Stop, Restart, IndInv, TypeOK
  <1>4. /\ worker'[w].batch = worker[w].batch
        /\ Recording(w, m)' <=> Recording(w, m)
    <2>1. CASE Attempt(w)
      <3>1. PICK n \in worker[w].batch :
              worker' = [worker EXCEPT ![w].pc = "send", ![w].cur = n,
                                       ![w].left = SendTime]
        BY <2>1 DEF Attempt
      <3>2. worker'[w].batch = worker[w].batch /\ worker'[w].pc = "send"
        BY <1>2, <3>1 DEF WorkerState, IndInv, TypeOK
      <3>3. worker[w].pc = "next"
        BY <2>1 DEF Attempt
      <3>. QED
        BY <3>2, <3>3 DEF Recording
    <2>2. CASE Shutdown(w)
      <3>1. worker' = [worker EXCEPT ![w].stopping = TRUE]
        BY <2>2 DEF Shutdown
      <3>2. /\ worker'[w].batch = worker[w].batch /\ worker'[w].pc = worker[w].pc
            /\ worker'[w].cur = worker[w].cur /\ worker'[w].answer = worker[w].answer
        BY <1>2, <3>1 DEF WorkerState, IndInv, TypeOK
      <3>. QED
        BY <3>2 DEF Recording
    <2>3. CASE Stop(w) \/ Restart(w)
      <3>1. worker[w].pc \in {"down", "idle"} /\ worker'[w] \in {Stopped, Waiting}
        BY <2>3 DEF Stop, Restart, IndInv, TypeOK
      <3>2. worker[w].batch = {} /\ worker[w].pc # "mark"
        BY <1>2, <3>1 DEF ClaimOK
      <3>3. worker'[w].batch = {} /\ worker'[w].pc # "mark"
        BY <3>1 DEF Stopped, Waiting
      <3>. QED
        BY <3>2, <3>3 DEF Recording
    <2>. QED
      BY <2>1, <2>2, <2>3
  <1>5. Owes(w, m)' = Owes(w, m) /\ Owes(w, m) \in Nat
    BY <1>4 DEF Owes
  <1>. QED
    BY <1>1, <1>2, <1>3, <1>4, <1>5, HoldingPays

\* An overrun pays for the ticket it gives out.
LEMMA TickPays ==
    ASSUME IndInv, IndInv', NEW m \in Msg, Paid(m), Tick
    PROVE  Paid(m)'
  <1>1. /\ accepted' = accepted /\ faults' = faults
        /\ accepted[m] \in Nat /\ faults \in Nat /\ overruns[m] \in Nat
        /\ overruns'[m] = IF Overrun(m) THEN overruns[m] + 1 ELSE overruns[m]
    BY DEF Tick, IndInv, TypeOK
  <1>2. \A w \in Worker : /\ worker'[w].batch = worker[w].batch
                          /\ worker'[w].pc = worker[w].pc
                          /\ worker'[w].cur = worker[w].cur
                          /\ worker'[w].answer = worker[w].answer
    BY DEF Tick, IndInv, TypeOK, WorkerState
  <1>3. Owing(m)' = Owing(m)
    BY <1>2 DEF Owing, Recording
  <1>4. Cardinality(Owing(m)) \in Nat
    BY OwingFinite
  <1>5. /\ row[m].lease \in Nat
        /\ row'[m].status = row[m].status
        /\ row[m].status \notin Terminal => row'[m].lease = Less(row[m].lease)
    BY AgedRow DEF Tick, IndInv, TypeOK, Row
  <1>6. Ticket(m) \in {0, 1} /\ Ticket(m)' \in {0, 1}
    BY DEF Ticket
  <1>7. CASE Overrun(m)
    BY <1>1, <1>3, <1>4, <1>6, <1>7 DEF Paid
  <1>8. CASE ~Overrun(m)
    <2>1. Free(m)' => Free(m)
      <3> SUFFICES ASSUME Free(m)' PROVE Free(m)
        OBVIOUS
      <3>1. row[m].status \notin Terminal
        BY <1>5 DEF Free
      <3>2. CASE row'[m].lease = 0
        <4>1. row[m].lease = 0 \/ row[m].lease = 1
          BY <1>5, <3>1, <3>2 DEF Less
        <4>. QED
          BY <1>8, <3>1, <4>1 DEF Free, Overrun
      <3>3. CASE \A w \in Worker : m \notin worker'[w].batch
        BY <1>2, <3>1, <3>3 DEF Free
      <3>. QED
        BY <3>2, <3>3 DEF Free
    <2>2. Ticket(m)' <= Ticket(m)
      BY <2>1 DEF Ticket
    <2>. QED
      BY <1>1, <1>3, <1>4, <1>6, <1>8, <2>2 DEF Paid
  <1>. QED
    BY <1>7, <1>8

LEMMA EnqueuePays ==
    ASSUME IndInv, IndInv', NEW m \in Msg, Paid(m), NEW n \in Msg, Enqueue(n)
    PROVE  Paid(m)'
  <1>1. /\ accepted' = accepted /\ faults' = faults /\ overruns' = overruns
        /\ worker' = worker
        /\ row[n].status = "none" /\ row' = [row EXCEPT ![n].status = "PENDING"]
    BY DEF Enqueue
  <1>2. Owing(m)' = Owing(m)
    BY <1>1 DEF Owing, Recording
  <1>3. /\ row'[m].lease = row[m].lease
        /\ row'[m].status \in Terminal <=> row[m].status \in Terminal
    BY <1>1 DEF IndInv, TypeOK, Row, Terminal
  <1>4. Ticket(m)' = Ticket(m)
    BY <1>1, <1>3 DEF Ticket, Free
  <1>. QED
    BY <1>1, <1>2, <1>4 DEF Paid

LEMMA NextPays ==
    ASSUME IndInv, IndInv', NEW m \in Msg, Paid(m), [Next]_vars
    PROVE  Paid(m)'
  <1>1. CASE UNCHANGED vars
    BY <1>1 DEF vars, Paid, Owing, Recording, Ticket, Free
  <1>2. CASE Tick
    BY <1>2, TickPays
  <1>3. ASSUME NEW n \in Msg, Enqueue(n)
        PROVE  Paid(m)'
    BY <1>3, EnqueuePays
  <1>4. ASSUME NEW w \in Worker,
               Work(w) \/ MarkError(w) \/ Shutdown(w) \/ Crash(w)
        PROVE  Paid(m)'
    <2>1. CASE Claim(w)
      BY <2>1, ClaimPays
    <2>2. CASE Attempt(w) \/ Shutdown(w) \/ Stop(w) \/ Restart(w)
      BY <2>2, QuietPays
    <2>3. CASE \E answer \in {"ok", "transient", "permanent"} : Answer(w, answer)
      BY <2>3, AnswerPays
    <2>4. CASE Mark(w)
      BY <2>4, MarkPays
    <2>5. CASE Release(w)
      BY <2>5, ReleasePays
    <2>6. CASE MarkError(w) \/ Crash(w)
      BY <2>6, FaultPays
    <2>. QED
      BY <1>4, <2>1, <2>2, <2>3, <2>4, <2>5, <2>6 DEF Work
  <1>. QED
    BY <1>1, <1>2, <1>3, <1>4 DEF Next

LEMMA InitPays == Init => \A m \in Msg : Paid(m)
  <1> SUFFICES ASSUME Init, NEW m \in Msg PROVE Paid(m)
    OBVIOUS
  <1>1. Owing(m) = {}
    BY DEF Init, Owing, Waiting, Stopped
  <1>2. Cardinality(Owing(m)) = 0
    BY <1>1, FS_EmptySet
  <1>3. accepted[m] = 0 /\ faults = 0 /\ overruns[m] = 0
    BY DEF Init
  <1>. QED
    BY <1>2, <1>3 DEF Paid, Ticket

\* "At-least-once" costs a second mail only where something failed or a lease
\* was outlived (the doc of the module): a message is accepted at most once
\* more than there were faults and overruns of it, for any number of workers
\* and messages, whatever the lease, the batch and the timeout are.
THEOREM DuplicatesArePaidFor == Spec => []DuplicatesNeedACause
  <1> DEFINE AllPaid == \A m \in Msg : Paid(m)
  <1>1. Init => AllPaid
    BY InitPays
  <1>2. IndInv /\ IndInv' /\ AllPaid /\ [Next]_vars => AllPaid'
    BY NextPays
  <1>3. IndInv /\ AllPaid => DuplicatesNeedACause
    <2> SUFFICES ASSUME IndInv, AllPaid, NEW m \in Msg
                 PROVE  accepted[m] <= 1 + faults + overruns[m]
      BY DEF DuplicatesNeedACause
    <2>1. accepted[m] \in Nat /\ faults \in Nat /\ overruns[m] \in Nat
      BY DEF IndInv, TypeOK
    <2>2. Cardinality(Owing(m)) \in Nat /\ Ticket(m) \in Nat /\ Paid(m)
      BY OwingFinite DEF Ticket
    <2>. QED
      BY <2>1, <2>2 DEF Paid
  <1> HIDE DEF AllPaid
  <1>. QED
    BY <1>1, <1>2, <1>3, Invariant, PTL DEF Spec

-----------------------------------------------------------------------------
(***************************************************************************)
(* Idempotency, for every set of requests and every bound: KeyIndInv is    *)
(* inductive, and the three promises of the key follow from it.            *)
(***************************************************************************)
\* What a request record is.
Req == [pc : Pc, pass : 1..2, answer : Replies]

\* A step of request r leaves the other requests alone, moves r from one place
\* to the next, and does not touch what r was told unless it answers r.
MovedTo(r, pc, answer) ==
    /\ req' \in [Request -> Req]
    /\ \A q \in Request \ {r} : req'[q] = req[q]
    /\ req'[r].pc = pc
    /\ req'[r].answer = answer

\* Goto moves a request and leaves its answer.
LEMMA GotoMoves ==
    ASSUME req \in [Request -> Req], NEW r \in Request, NEW pc \in Pc,
           Goto(r, pc)
    PROVE  MovedTo(r, pc, req[r].answer)
BY DEF Goto, MovedTo, Req, Replies

\* So does a further pass of begin.
LEMMA PassMoves ==
    ASSUME req \in [Request -> Req], NEW r \in Request, NEW pass \in 1..2,
           req' = [req EXCEPT ![r].pc = "insert", ![r].pass = pass]
    PROVE  MovedTo(r, "insert", req[r].answer)
BY DEF MovedTo, Req, Replies, Pc

\* Reply ends a request with an answer.
LEMMA ReplyMoves ==
    ASSUME req \in [Request -> Req], NEW r \in Request,
           NEW kind \in {"none", "created", "error", "internal", "keyReused", "race"},
           NEW of \in Request \cup {NoRequest},
           Reply(r, kind, of)
    PROVE  MovedTo(r, "done", [kind |-> kind, of |-> of])
BY DEF Reply, MovedTo, Req, Replies, Pc

-----------------------------------------------------------------------------
\* The initial state satisfies the invariant.
LEMMA KeyInitOK == KeyInit => KeyIndInv
BY IdempotencyAssumption
DEF KeyInit, KeyIndInv, KeyTypeOK, RequestOK, NoRecord, Silence, Pc, Replies

\* A step that only moves a request to a place before the reservation, or ends
\* it without an answer, preserves the invariant.
LEMMA Harmless ==
    ASSUME KeyIndInv, NEW r \in Request,
           NEW pc \in {"insert", "select", "done"},
           NEW answer \in Replies,
           MovedTo(r, pc, answer),
           pc # "done" => req[r].pc \in {"new", "insert", "select"},
           answer = req[r].answer \/ answer.kind # "created",
           UNCHANGED <<record, made, epoch, lost, sweeps, failures>>
    PROVE  KeyIndInv'
<1>1. KeyTypeOK'
  BY DEF KeyIndInv, KeyTypeOK, MovedTo, Req
<1>2. ASSUME NEW q \in Request PROVE RequestOK(q)'
  <2>1. CASE q = r
    BY <2>1 DEF KeyIndInv, RequestOK, MovedTo
  <2>2. CASE q # r
    BY <2>2 DEF KeyIndInv, RequestOK, MovedTo
  <2> QED BY <2>1, <2>2
<1> QED BY <1>1, <1>2 DEF KeyIndInv

\* Insert: the key is free, so nobody is at work and no work is remembered.
LEMMA InsertOK ==
    ASSUME KeyIndInv, NEW r \in Request, Insert(r)
    PROVE  KeyIndInv'
<1> USE IdempotencyAssumption
<1>t. req \in [Request -> Req]
  BY DEF KeyIndInv, KeyTypeOK, Req
<1>1. CASE record = NoRecord
  <2>0. /\ record' = [id |-> r, status |-> "IN_PROGRESS"]
        /\ Goto(r, "work")
        /\ UNCHANGED <<made, epoch, lost, sweeps, failures>>
    BY <1>1 DEF Insert
  <2>m. MovedTo(r, "work", req[r].answer)
    BY <1>t, <2>0, GotoMoves DEF Pc
  <2>1. KeyTypeOK'
    BY <2>0, <2>m DEF KeyIndInv, KeyTypeOK, MovedTo, Req
  <2>2. ASSUME NEW q \in Request PROVE RequestOK(q)'
    <3>n. ~(sweeps = 0 /\ req[q].answer.kind = "created")
      BY <1>1 DEF KeyIndInv, RequestOK, NoRecord
    <3>1. CASE q = r
      BY <3>1, <3>n, <2>0, <2>m DEF KeyIndInv, RequestOK, MovedTo, Insert, At
    <3>2. CASE q # r
      <4>1. req'[q] = req[q]
        BY <3>2, <2>m DEF MovedTo
      <4>2. req[q].pc \notin {"work", "complete", "abandon"}
        BY <1>1 DEF KeyIndInv, RequestOK, NoRecord
      <4> QED BY <4>1, <4>2, <3>n, <2>0 DEF KeyIndInv, RequestOK
    <3> QED BY <3>1, <3>2
  <2>3. epoch \subseteq lost
    BY <1>1 DEF KeyIndInv, KeyTypeOK, NoRecord
  <2> QED BY <2>0, <2>1, <2>2, <2>3 DEF KeyIndInv
<1>2. CASE record # NoRecord
  <2>1. MovedTo(r, "select", req[r].answer)
    BY <1>t, <1>2, GotoMoves DEF Insert, Pc
  <2>2. req[r].answer \in Replies
    BY DEF KeyIndInv, KeyTypeOK
  <2> QED BY <1>2, <2>1, <2>2, Harmless DEF Insert, At
<1> QED BY <1>1, <1>2

\* Select: a replay is of a completed record with the same body.
LEMMA SelectOK ==
    ASSUME KeyIndInv, NEW r \in Request, Select(r)
    PROVE  KeyIndInv'
<1> USE IdempotencyAssumption
<1>t. req \in [Request -> Req] /\ req[r].answer \in Replies
  BY DEF KeyIndInv, KeyTypeOK, Req
<1>u. req[r].pc = "select" /\ UNCHANGED <<record, made, epoch, lost, sweeps, failures>>
  BY DEF Select, At
<1>a. ASSUME NEW kind \in {"race", "keyReused"}, Reply(r, kind, NoRequest)
      PROVE  KeyIndInv'
  <2> DEFINE a == [kind |-> kind, of |-> NoRequest]
  <2>1. MovedTo(r, "done", a)
    BY <1>t, <1>a, ReplyMoves
  <2>2. a \in Replies /\ a.kind # "created"
    BY DEF Replies
  <2> QED BY <1>u, <2>1, <2>2, Harmless
<1>p. ASSUME NEW pass \in 1..2,
             req' = [req EXCEPT ![r].pc = "insert", ![r].pass = pass]
      PROVE  KeyIndInv'
  <2>1. MovedTo(r, "insert", req[r].answer)
    BY <1>t, <1>p, PassMoves
  <2> QED BY <1>t, <1>u, <2>1, Harmless
<1>1. CASE record = NoRecord
  <2>1. CASE MayTryAgain(r)
    <3>1. req[r].pass + 1 \in 1..2
      BY <2>1, <1>t DEF MayTryAgain, Req
    <3>2. req' = [req EXCEPT ![r].pc = "insert", ![r].pass = req[r].pass + 1]
      BY <1>1, <2>1 DEF Select
    <3> QED BY <3>1, <3>2, <1>p
  <2>2. CASE ~MayTryAgain(r)
    BY <1>1, <2>2, <1>a DEF Select
  <2> QED BY <2>1, <2>2
<1>2. CASE record # NoRecord /\ ~SameBody(r, record.id)
  BY <1>2, <1>a DEF Select
<1>3. CASE record # NoRecord /\ SameBody(r, record.id) /\ record.status = "COMPLETED"
  <2>i. record = [id |-> record.id, status |-> "COMPLETED"] /\ record.id \in Request
    BY <1>3 DEF KeyIndInv, KeyTypeOK, NoRecord
  <2>1. Reply(r, "created", record.id)
    BY <1>3 DEF Select
  <2>m. MovedTo(r, "done", [kind |-> "created", of |-> record.id])
    BY <1>t, <2>i, <2>1, ReplyMoves
  <2>2. KeyTypeOK'
    BY <1>u, <2>m DEF KeyIndInv, KeyTypeOK, MovedTo, Req
  <2>3. ASSUME NEW q \in Request PROVE RequestOK(q)'
    <3>1. CASE q = r
      BY <3>1, <1>3, <1>u, <2>i, <2>m DEF KeyIndInv, RequestOK, MovedTo, SameBody
    <3>2. CASE q # r
      BY <3>2, <1>u, <2>m DEF KeyIndInv, RequestOK, MovedTo
    <3> QED BY <3>1, <3>2
  <2> QED BY <1>u, <2>2, <2>3 DEF KeyIndInv
<1>4. CASE record # NoRecord /\ SameBody(r, record.id) /\ record.status = "IN_PROGRESS"
  <2>1. \/ req' = [req EXCEPT ![r].pc = "insert", ![r].pass = 1]
        \/ Reply(r, "race", NoRequest)
    BY <1>4 DEF Select
  <2> QED BY <2>1, <1>a, <1>p
<1>5. record \in [id : Request, status : {"IN_PROGRESS", "COMPLETED"}] \cup {NoRecord}
  BY DEF KeyIndInv, KeyTypeOK
<1> QED BY <1>1, <1>2, <1>3, <1>4, <1>5

\* DoWork: the request still owns the reservation when its work commits.
LEMMA DoWorkOK ==
    ASSUME KeyIndInv, NEW r \in Request, DoWork(r)
    PROVE  KeyIndInv'
<1>t. req \in [Request -> Req]
  BY DEF KeyIndInv, KeyTypeOK, Req
<1>o. /\ req[r].pc = "work"
      /\ record = [id |-> r, status |-> "IN_PROGRESS"]
      /\ UNCHANGED <<record, sweeps>>
  BY DEF DoWork, At, KeyIndInv, RequestOK
<1>n. \A q \in Request \ {r} : req[q].pc \notin {"work", "complete", "abandon"}
  BY <1>o DEF KeyIndInv, RequestOK
<1>s. made \subseteq made' /\ lost \subseteq lost'
  BY DEF DoWork
<1>1. PICK pc \in {"complete", "abandon"} :
         /\ MovedTo(r, pc, req[r].answer)
         /\ pc = "complete" => r \in made'
         /\ pc = "abandon" => r \notin made' \/ r \in lost'
  <2>1. CASE Goto(r, "complete") /\ made' = made \cup {r}
    BY <1>t, <2>1, GotoMoves DEF Pc
  <2>2. CASE Goto(r, "abandon") /\ UNCHANGED <<made, lost>>
    BY <1>t, <1>o, <2>2, GotoMoves DEF Pc, KeyIndInv, RequestOK
  <2>3. CASE Goto(r, "abandon") /\ lost' = lost \cup {r}
    BY <1>t, <2>3, GotoMoves DEF Pc
  <2> QED BY <2>1, <2>2, <2>3 DEF DoWork
<1>2. KeyTypeOK'
  BY <1>1, <1>o, IdempotencyAssumption DEF DoWork, KeyIndInv, KeyTypeOK, MovedTo, Req
<1>m. made' \subseteq made \cup {r}
  BY DEF DoWork
<1>3. ASSUME NEW q \in Request PROVE RequestOK(q)'
  <2>1. CASE q = r
    BY <2>1, <1>1, <1>o, <1>s DEF KeyIndInv, RequestOK, MovedTo
  <2>2. CASE q # r
    <3>1. req'[q] = req[q]
      BY <2>2, <1>1 DEF MovedTo
    <3>2. q \in made' => q \in made
      BY <2>2, <1>m
    <3> QED BY <2>2, <3>1, <3>2, <1>n, <1>o, <1>s DEF KeyIndInv, RequestOK
  <2> QED BY <2>1, <2>2
<1>4. epoch' \subseteq {record'.id} \cup lost'
  BY <1>o, <1>s DEF DoWork, KeyIndInv
<1>5. record'.status = "COMPLETED" => record'.id \in made'
  BY <1>o
<1> QED BY <1>2, <1>3, <1>4, <1>5 DEF KeyIndInv

\* Complete: the reservation becomes the response that replays will get.
LEMMA CompleteOK ==
    ASSUME KeyIndInv, NEW r \in Request, Complete(r)
    PROVE  KeyIndInv'
<1>t. req \in [Request -> Req]
  BY DEF KeyIndInv, KeyTypeOK, Req
<1>o. /\ req[r].pc = "complete" /\ r \in made
      /\ record = [id |-> r, status |-> "IN_PROGRESS"]
      /\ UNCHANGED <<made, epoch, lost, sweeps, failures>>
  BY DEF Complete, At, KeyIndInv, RequestOK
<1>r. record' = [id |-> r, status |-> "COMPLETED"]
  BY <1>o DEF Complete
<1>n. \A q \in Request \ {r} :
         /\ req[q].pc \notin {"work", "complete", "abandon"}
         /\ ~(sweeps = 0 /\ req[q].answer.kind = "created")
  BY <1>o DEF KeyIndInv, RequestOK
<1>m. MovedTo(r, "done", [kind |-> "created", of |-> r])
  BY <1>t, ReplyMoves DEF Complete
<1>1. KeyTypeOK'
  BY <1>m, <1>o, <1>r DEF KeyIndInv, KeyTypeOK, MovedTo, Req
<1>2. ASSUME NEW q \in Request PROVE RequestOK(q)'
  <2>1. CASE q = r
    BY <2>1, <1>m, <1>o, <1>r DEF KeyIndInv, RequestOK, MovedTo
  <2>2. CASE q # r
    BY <2>2, <1>m, <1>n, <1>o DEF KeyIndInv, RequestOK, MovedTo
  <2> QED BY <2>1, <2>2
<1> QED BY <1>o, <1>r, <1>1, <1>2 DEF KeyIndInv

\* CompleteFails: the record stays in progress, and nobody is told "created".
LEMMA CompleteFailsOK ==
    ASSUME KeyIndInv, NEW r \in Request, CompleteFails(r)
    PROVE  KeyIndInv'
<1>t. req \in [Request -> Req]
  BY DEF KeyIndInv, KeyTypeOK, Req
<1>m. MovedTo(r, "done", [kind |-> "internal", of |-> NoRequest])
  BY <1>t, ReplyMoves DEF CompleteFails
<1>u. UNCHANGED <<record, made, epoch, lost, sweeps>>
  BY DEF CompleteFails
<1>1. KeyTypeOK'
  BY <1>m, <1>u, IdempotencyAssumption DEF CompleteFails, KeyIndInv, KeyTypeOK, MovedTo, Req
<1>2. ASSUME NEW q \in Request PROVE RequestOK(q)'
  <2>1. CASE q = r
    BY <2>1, <1>m, <1>u DEF KeyIndInv, RequestOK, MovedTo
  <2>2. CASE q # r
    BY <2>2, <1>m, <1>u DEF KeyIndInv, RequestOK, MovedTo
  <2> QED BY <2>1, <2>2
<1> QED BY <1>u, <1>1, <1>2 DEF KeyIndInv

\* Abandon: the key is released only by a request that leaves no trace, but for
\* the commit whose answer was lost.
LEMMA AbandonOK ==
    ASSUME KeyIndInv, NEW r \in Request, Abandon(r)
    PROVE  KeyIndInv'
<1>t. req \in [Request -> Req]
  BY DEF KeyIndInv, KeyTypeOK, Req
<1>o. /\ req[r].pc = "abandon" /\ (r \notin made \/ r \in lost)
      /\ record = [id |-> r, status |-> "IN_PROGRESS"]
      /\ UNCHANGED <<made, epoch, lost, sweeps>>
  BY DEF Abandon, At, KeyIndInv, RequestOK
<1>r. record' = NoRecord \/ record' = record
  BY DEF Abandon
<1>n. \A q \in Request \ {r} :
         /\ req[q].pc \notin {"work", "complete", "abandon"}
         /\ ~(sweeps = 0 /\ req[q].answer.kind = "created")
  BY <1>o DEF KeyIndInv, RequestOK
<1>m. MovedTo(r, "done", [kind |-> "error", of |-> NoRequest])
  BY <1>t, ReplyMoves DEF Abandon
<1>1. KeyTypeOK'
  BY <1>m, <1>o, <1>r, IdempotencyAssumption
  DEF Abandon, KeyIndInv, KeyTypeOK, MovedTo, Req
<1>2. ASSUME NEW q \in Request PROVE RequestOK(q)'
  <2>1. CASE q = r
    BY <2>1, <1>m, <1>o DEF KeyIndInv, RequestOK, MovedTo
  <2>2. CASE q # r
    BY <2>2, <1>m, <1>n, <1>o DEF KeyIndInv, RequestOK, MovedTo
  <2> QED BY <2>1, <2>2
<1>3. epoch \subseteq lost
  BY <1>o DEF KeyIndInv, KeyTypeOK
<1>4. record'.status # "COMPLETED"
  BY <1>o, <1>r DEF NoRecord
<1> QED BY <1>o, <1>1, <1>2, <1>3, <1>4 DEF KeyIndInv

\* Sweep: the key is free again, and a new count begins.
LEMMA SweepOK ==
    ASSUME KeyIndInv, Sweep
    PROVE  KeyIndInv'
<1>u. /\ record' = NoRecord /\ epoch' = {} /\ sweeps' = sweeps + 1
      /\ sweeps < MaxSweeps
      /\ UNCHANGED <<req, made, lost, failures>>
      /\ req[record.id].pc = "done"
  BY DEF Sweep
<1>1. KeyTypeOK'
  BY <1>u, IdempotencyAssumption DEF KeyIndInv, KeyTypeOK
<1>s. sweeps' # 0
  BY <1>u DEF KeyIndInv, KeyTypeOK
<1>2. ASSUME NEW q \in Request PROVE RequestOK(q)'
  <2>1. req[q].pc \notin {"work", "complete", "abandon"}
    BY <1>u DEF KeyIndInv, RequestOK
  <2> QED BY <1>u, <1>s, <2>1 DEF KeyIndInv, RequestOK
<1> QED BY <1>u, <1>1, <1>2 DEF KeyIndInv, NoRecord

-----------------------------------------------------------------------------
\* Every step preserves the invariant.
LEMMA KeyNextOK == KeyIndInv /\ [KeyNext]_keyVars => KeyIndInv'
<1> SUFFICES ASSUME KeyIndInv, [KeyNext]_keyVars PROVE KeyIndInv'
  OBVIOUS
<1>t. \A r \in Request : req \in [Request -> Req] /\ req[r].answer \in Replies
  BY DEF KeyIndInv, KeyTypeOK, Req
<1>1. ASSUME NEW r \in Request, Arrive(r) PROVE KeyIndInv'
  <2>1. MovedTo(r, "insert", req[r].answer)
    BY <1>t, <1>1, GotoMoves DEF Arrive, Pc
  <2> QED BY <1>t, <1>1, <2>1, Harmless DEF Arrive, At
<1>2. ASSUME NEW r \in Request, Step(r) PROVE KeyIndInv'
  BY <1>2, InsertOK, SelectOK, DoWorkOK, CompleteOK, AbandonOK DEF Step
<1>3. ASSUME NEW r \in Request, CompleteFails(r) PROVE KeyIndInv'
  BY <1>3, CompleteFailsOK
<1>4. ASSUME NEW r \in Request, Drop(r) PROVE KeyIndInv'
  <2>1. MovedTo(r, "done", req[r].answer)
    BY <1>t, <1>4, GotoMoves DEF Drop, Pc
  <2> QED BY <1>t, <1>4, <2>1, Harmless DEF Drop
<1>5. ASSUME Sweep PROVE KeyIndInv'
  BY <1>5, SweepOK
<1>6. CASE UNCHANGED keyVars
  BY <1>6 DEF keyVars, KeyIndInv, KeyTypeOK, RequestOK
<1> QED BY <1>1, <1>2, <1>3, <1>4, <1>5, <1>6 DEF KeyNext

\* A request between its reservation and its end owns the record, a completed
\* record describes committed work, and every replay so far describes it, too.
THEOREM KeyInvariant == KeySpec => []KeyIndInv
BY KeyInitOK, KeyNextOK, PTL DEF KeySpec

\* Types are respected, for every number of requests.
THEOREM KeyTypeCorrect == KeySpec => []KeyTypeOK
<1>1. KeyIndInv => KeyTypeOK
  BY DEF KeyIndInv
<1> QED BY <1>1, KeyInvariant, PTL

\* Whatever is retried, dropped or raced, the work behind one key commits once
\* per retention period, unless the answer to a COMMIT was lost.
THEOREM WorkDoneOnce == KeySpec => []AtMostOnce
<1>1. KeyIndInv => AtMostOnce
  BY DEF KeyIndInv, AtMostOnce
<1> QED BY <1>1, KeyInvariant, PTL

\* Nobody is told "created" about work that did not commit, or about the work
\* of another body.
THEOREM ReplayIsTrue == KeySpec => []ReplaysTheOriginal
<1>1. KeyIndInv => ReplaysTheOriginal
  BY DEF KeyIndInv, RequestOK, ReplaysTheOriginal
<1> QED BY <1>1, KeyInvariant, PTL

\* Within the retention period all who are told "created" are told the same.
THEOREM AnswersAgree == KeySpec => []SameAnswer
<1>1. KeyIndInv => SameAnswer
  <2> SUFFICES ASSUME KeyIndInv, sweeps = 0,
                      NEW r \in Request, NEW q \in Request,
                      req[r].answer.kind = "created",
                      req[q].answer.kind = "created"
               PROVE  req[r].answer.of = req[q].answer.of
    BY DEF SameAnswer
  <2>1. record = [id |-> req[r].answer.of, status |-> "COMPLETED"]
    BY DEF KeyIndInv, RequestOK
  <2>2. record = [id |-> req[q].answer.of, status |-> "COMPLETED"]
    BY DEF KeyIndInv, RequestOK
  <2>3. record.id = req[r].answer.of
    BY <2>1
  <2>4. record.id = req[q].answer.of
    BY <2>2
  <2> QED BY <2>3, <2>4
<1> QED BY <1>1, KeyInvariant, PTL

-----------------------------------------------------------------------------
(* The second factor (Mfa): what a request has read it has locked, so it   *)
(* stays as it read it until the request writes (OtherRequests,            *)
(* CommitStep).                                                            *)

Points == {"idle", "first", "second", "third"}

\* A TOTP code is no recovery code, and a factor is neither.
LEMMA KindsDiffer ==
    /\ Factor \cap Code = {}
    /\ Totp \cap Code = {}
    /\ NoCaller \notin Caller
<1>1. Factor \cap Code = {} /\ Factor \cap Batch = {} /\ NoCaller \notin Caller
    BY MfaAssumption
<1>2. ASSUME NEW p \in Totp, p \in Code PROVE FALSE
    <2>1. p[1] \in Factor /\ p[1] \in Batch
        BY <1>2 DEF Totp, Code
    <2> QED
        BY <1>1, <2>1
<1> QED
    BY <1>1, <1>2

LEMMA IdleFields ==
    /\ Idle.op = "idle" /\ Idle.pc = "idle" /\ Idle.retired = {} /\ Idle.spent = {}
    /\ LastStep \in Nat \ {0} => Idle \in Transaction
<1>1. Idle.op = "idle" /\ Idle.pc = "idle" /\ Idle.retired = {} /\ Idle.spent = {}
    BY DEF Idle
<1>2. <<>> \in Proof
    BY DEF Proof
<1>3. LastStep \in Nat \ {0} => Idle \in Transaction
    BY <1>2 DEF Idle, Transaction, TimeStep
<1> QED
    BY <1>1, <1>3

LEMMA RowFields ==
    ASSUME MfaTypeOK
    PROVE  /\ \A f \in Factor : /\ factor[f] \in FactorRow
                                /\ factor[f].status \in {"none", "PENDING", "ACTIVE", "DISABLED"}
                                /\ factor[f].used \in 0..LastStep
           /\ \A c \in Code : code[c] \in {"none", "live", "consumed"}
           /\ \A w \in Caller : tx[w] \in Transaction
BY DEF MfaTypeOK, FactorRow

LEMMA TransactionFields ==
    ASSUME NEW t \in Transaction
    PROVE  /\ t.op \in Operation \cup {"idle"} /\ t.pc \in Points
           /\ t.presented \in Proof /\ t.retired \subseteq Factor /\ t.spent \subseteq Code
BY DEF Transaction, Points

\* A step of a request that only moves on.
LEMMA MovedFields ==
    ASSUME MfaTypeOK, NEW w \in Caller, NEW pc \in Points
    PROVE  /\ Moved(w, pc) \in Transaction
           /\ Moved(w, pc).pc = pc
           /\ Moved(w, pc).op = tx[w].op
           /\ Moved(w, pc).presented = tx[w].presented
           /\ Moved(w, pc).retired = tx[w].retired
           /\ Moved(w, pc).spent = tx[w].spent
           /\ Moved(w, pc).steppedUp = tx[w].steppedUp
           /\ Moved(w, pc).mandated = tx[w].mandated
<1>1. tx[w] \in Transaction
    BY RowFields
<1> QED
    BY <1>1 DEF Moved, Transaction, Points

LEMMA RetireFields ==
    ASSUME NEW t \in Transaction, NEW rows \in SUBSET Factor
    PROVE  LET r == [t EXCEPT !.retired = rows]
           IN  /\ r \in Transaction
               /\ r.retired = rows
               /\ r.op = t.op /\ r.pc = t.pc /\ r.presented = t.presented /\ r.spent = t.spent
               /\ r.steppedUp = t.steppedUp /\ r.mandated = t.mandated
BY DEF Transaction

LEMMA SpendFields ==
    ASSUME NEW t \in Transaction, NEW rows \in SUBSET Code
    PROVE  LET r == [t EXCEPT !.spent = rows]
           IN  /\ r \in Transaction
               /\ r.spent = rows
               /\ r.op = t.op /\ r.pc = t.pc /\ r.presented = t.presented
               /\ r.retired = t.retired
               /\ r.steppedUp = t.steppedUp /\ r.mandated = t.mandated
BY DEF Transaction

LEMMA SelectedRows ==
    ASSUME MfaTypeOK, NEW w \in Caller
    PROVE  /\ Selected(w) \subseteq Factor \cup Code
           /\ Rows(w) \subseteq Selected(w)
           /\ Doing(w, {"setup", "verify"}, "first") => Selected(w) = InStatus({"ACTIVE"})
           /\ Doing(w, {"setup"}, "second") => Selected(w) = InStatus({"PENDING"})
           /\ Doing(w, {"activate"}, "first") => Selected(w) = InStatus({"PENDING"})
           /\ Doing(w, {"disable"}, "first") => Selected(w) = Live
           /\ Doing(w, {"recover"}, "first") => Selected(w) = LiveCodes \cap {tx[w].presented}
           /\ Doing(w, {"activate", "disable"}, "second") => Selected(w) = LiveCodes
           /\ Doing(w, {"regenerate"}, "first") => Selected(w) = LiveCodes
<1>1. /\ Doing(w, {"setup", "verify"}, "first") => Selected(w) = InStatus({"ACTIVE"})
      /\ Doing(w, {"setup"}, "second") => Selected(w) = InStatus({"PENDING"})
      /\ Doing(w, {"activate"}, "first") => Selected(w) = InStatus({"PENDING"})
      /\ Doing(w, {"disable"}, "first") => Selected(w) = Live
      /\ Doing(w, {"recover"}, "first") => Selected(w) = LiveCodes \cap {tx[w].presented}
      /\ Doing(w, {"activate", "disable"}, "second") => Selected(w) = LiveCodes
      /\ Doing(w, {"regenerate"}, "first") => Selected(w) = LiveCodes
    BY DEF Selected, Doing
<1>2. /\ InStatus({"ACTIVE"}) \subseteq Factor /\ InStatus({"PENDING"}) \subseteq Factor
      /\ Live \subseteq Factor /\ LiveCodes \subseteq Code
    BY DEF InStatus, Live, LiveCodes
<1>3. Selected(w) \subseteq Factor \cup Code
    BY <1>2 DEF Selected
<1>4. Rows(w) \subseteq Selected(w)
    BY DEF Rows
<1> QED
    BY <1>1, <1>3, <1>4

-----------------------------------------------------------------------------
(* Steps that write nothing: what they lock, and what they go on with.     *)

\* What another request has locked stays as that request read it.
LEMMA OtherRequests ==
    ASSUME MfaIndInv, NEW w \in Caller, NEW v \in Caller, v # w, tx'[v] = tx[v],
           \A f \in Factor : factorLock[f] = v => factorLock'[f] = v /\ factor'[f] = factor[f],
           \A c \in Code : codeLock[c] = v =>
              codeLock'[c] = v /\ (code[c] = "live" => code'[c] = "live")
    PROVE  CallerOK(v)'
<1>1. CallerOK(v) /\ tx[v].retired \subseteq Factor /\ tx[v].spent \subseteq Code
    BY RowFields, TransactionFields DEF MfaIndInv
<1> DEFINE t == tx[v]
<1> HIDE DEF t
<1>2. tx'[v] = t /\ tx[v] = t
    BY DEF t
<1>3. \A f \in t.retired : factorLock'[f] = v
    BY <1>1, <1>2 DEF CallerOK
<1>4. \A c \in t.spent : codeLock'[c] = v /\ code'[c] = "live"
    BY <1>1, <1>2 DEF CallerOK
<1>5. t.op = "setup" => \A f \in t.retired : factor'[f].status = "PENDING"
    BY <1>1, <1>2 DEF CallerOK
<1>6. t.op \in {"activate", "verify"} =>
          /\ t.presented \in Totp
          /\ t.pc # "first" =>
                LET f == t.presented[1]
                IN  /\ factorLock'[f] = v
                    /\ factor'[f].status = IF t.op = "activate" THEN "PENDING" ELSE "ACTIVE"
                    /\ t.presented[2] > factor'[f].used
    <2> SUFFICES ASSUME t.op \in {"activate", "verify"}
                 PROVE  /\ t.presented \in Totp
                        /\ t.pc # "first" =>
                              LET f == t.presented[1]
                              IN  /\ factorLock'[f] = v
                                  /\ factor'[f].status = IF t.op = "activate" THEN "PENDING" ELSE "ACTIVE"
                                  /\ t.presented[2] > factor'[f].used
        OBVIOUS
    <2>1. t.presented \in Totp
        BY <1>1, <1>2 DEF CallerOK
    <2>2. t.presented[1] \in Factor
        BY <2>1 DEF Totp
    <2>3. t.pc # "first" =>
             /\ factorLock[t.presented[1]] = v
             /\ factor[t.presented[1]].status = IF t.op = "activate" THEN "PENDING" ELSE "ACTIVE"
             /\ t.presented[2] > factor[t.presented[1]].used
        BY <1>1, <1>2 DEF CallerOK
    <2> QED
        BY <2>1, <2>2, <2>3
<1>7. t.op = "recover" =>
          /\ t.presented \in Code
          /\ t.pc # "first" => t.spent = {t.presented}
    BY <1>1, <1>2 DEF CallerOK
<1>8. t.op = "disable" => t.steppedUp /\ ~t.mandated
    BY <1>1, <1>2 DEF CallerOK
<1> QED
    BY <1>2, <1>3, <1>4, <1>5, <1>6, <1>7, <1>8 DEF CallerOK

\* A request that locks more, or releases what it has, and writes nothing.
LEMMA QuietStep ==
    ASSUME MfaIndInv, NEW w \in Caller, NEW t \in Transaction,
           tx' = [tx EXCEPT ![w] = t], CallerOK(w)',
           UNCHANGED <<tables, now, uses>>, requests' \in 0..MaxRequests,
           factorLock' \in [Factor -> Caller \cup {NoCaller}],
           codeLock' \in [Code -> Caller \cup {NoCaller}],
           userLock' \in Caller \cup {NoCaller},
           \A f \in Factor : /\ factorLock[f] \notin {w, NoCaller} => factorLock'[f] = factorLock[f]
                             /\ factorLock'[f] # NoCaller => f \in Live,
           \A c \in Code : codeLock[c] \notin {w, NoCaller} => codeLock'[c] = codeLock[c]
    PROVE  MfaIndInv'
<1>1. UNCHANGED <<factor, code, user, session, now, uses>>
    BY DEF tables
<1>2. MfaTypeOK'
    BY <1>1 DEF MfaIndInv, MfaTypeOK
<1>3. FactorsOK'
    BY <1>1 DEF MfaIndInv, FactorsOK, Live, InStatus
<1>4. ASSUME NEW v \in Caller PROVE CallerOK(v)'
    <2>1. CASE v = w
        BY <2>1
    <2>2. CASE v # w
        <3>1. tx'[v] = tx[v]
            BY <2>2 DEF MfaIndInv, MfaTypeOK
        <3>2. v # NoCaller
            BY KindsDiffer
        <3> QED
            BY <1>1, <2>2, <3>1, <3>2, OtherRequests
    <2> QED
        BY <2>1, <2>2
<1>5. UsesOK'
    BY <1>1 DEF MfaIndInv, UsesOK
<1>6. EnrolledHasFactor'
    BY <1>1 DEF MfaIndInv, EnrolledHasFactor, InStatus
<1> QED
    BY <1>2, <1>3, <1>4, <1>5, <1>6 DEF MfaIndInv

\* A request that is over has locked nothing.
LEMMA UnlockFacts ==
    ASSUME MfaIndInv, NEW w \in Caller, Unlock(w)
    PROVE  /\ factorLock' \in [Factor -> Caller \cup {NoCaller}]
           /\ codeLock' \in [Code -> Caller \cup {NoCaller}]
           /\ userLock' \in Caller \cup {NoCaller}
           /\ \A f \in Factor : factorLock'[f] = IF factorLock[f] = w THEN NoCaller ELSE factorLock[f]
           /\ \A c \in Code : codeLock'[c] = IF codeLock[c] = w THEN NoCaller ELSE codeLock[c]
<1>1. /\ factorLock \in [Factor -> Caller \cup {NoCaller}]
      /\ codeLock \in [Code -> Caller \cup {NoCaller}]
      /\ userLock \in Caller \cup {NoCaller}
    BY DEF MfaIndInv, MfaTypeOK
<1> QED
    BY <1>1 DEF Unlock, Released

LEMMA IdleRequest ==
    ASSUME NEW w \in Caller, tx'[w] = Idle
    PROVE  CallerOK(w)'
BY IdleFields DEF CallerOK

LEMMA RefuseOK ==
    ASSUME MfaIndInv, NEW w \in Caller, Refuse(w)
    PROVE  MfaIndInv'
<1>1. tx' = [tx EXCEPT ![w] = Idle] /\ Unlock(w) /\ UNCHANGED <<tables, now, uses, requests>>
    BY DEF Refuse
<1>2. tx'[w] = Idle /\ Idle \in Transaction
    BY <1>1, IdleFields, MfaAssumption DEF MfaIndInv, MfaTypeOK
<1>3. requests' \in 0..MaxRequests
    BY <1>1 DEF MfaIndInv, MfaTypeOK
<1>4. \A f \in Factor : /\ factorLock[f] \notin {w, NoCaller} => factorLock'[f] = factorLock[f]
                        /\ factorLock'[f] # NoCaller => f \in Live
    BY <1>1, UnlockFacts DEF MfaIndInv, FactorsOK
<1>5. /\ factorLock' \in [Factor -> Caller \cup {NoCaller}]
      /\ codeLock' \in [Code -> Caller \cup {NoCaller}]
      /\ userLock' \in Caller \cup {NoCaller}
      /\ \A c \in Code : codeLock[c] \notin {w, NoCaller} => codeLock'[c] = codeLock[c]
    BY <1>1, UnlockFacts
<1>6. CallerOK(w)'
    BY <1>2, IdleRequest
<1> QED
    BY <1>1, <1>2, <1>3, <1>4, <1>5, <1>6, QuietStep

LEMMA WaitOK ==
    ASSUME MfaIndInv, NEW w \in Caller, Wait(w)
    PROVE  MfaIndInv'
<1> DEFINE t == [tx[w] EXCEPT !.waits = TRUE, !.snapshot = Selected(w)]
<1>1. tx[w] \in Transaction /\ Selected(w) \subseteq Factor \cup Code
    BY RowFields, SelectedRows DEF MfaIndInv
<1>2. /\ t \in Transaction
      /\ t.op = tx[w].op /\ t.pc = tx[w].pc /\ t.presented = tx[w].presented
      /\ t.retired = tx[w].retired /\ t.spent = tx[w].spent
      /\ t.steppedUp = tx[w].steppedUp /\ t.mandated = tx[w].mandated
    BY <1>1 DEF Transaction
<1>3. tx' = [tx EXCEPT ![w] = t] /\ UNCHANGED <<tables, now, locks, uses, requests>>
    BY DEF Wait
<1> HIDE DEF t
<1>4. tx'[w] = t /\ UNCHANGED <<factor, code, factorLock, codeLock, userLock>>
    BY <1>3 DEF MfaIndInv, MfaTypeOK, tables, locks
<1>5. CallerOK(w)
    BY DEF MfaIndInv
<1>6. CallerOK(w)'
    BY <1>2, <1>4, <1>5 DEF CallerOK, InStatus
<1>7. /\ factorLock' \in [Factor -> Caller \cup {NoCaller}]
      /\ codeLock' \in [Code -> Caller \cup {NoCaller}]
      /\ userLock' \in Caller \cup {NoCaller}
      /\ requests' \in 0..MaxRequests
    BY <1>3, <1>4 DEF MfaIndInv, MfaTypeOK
<1>8. \A f \in Factor : factorLock'[f] # NoCaller => f \in Live
    BY <1>4 DEF MfaIndInv, FactorsOK
<1> QED
    BY <1>2, <1>3, <1>4, <1>6, <1>7, <1>8, QuietStep

\* The principal is read, and nothing is locked yet.
LEMMA BeginOK ==
    ASSUME MfaIndInv, NEW w \in Caller, NEW op \in Operation, NEW s \in Session, NEW p \in Proof,
           Begin(w, op, s, p)
    PROVE  MfaIndInv'
<1> DEFINE t == [Idle EXCEPT !.op = op, !.by = s, !.pc = "first", !.presented = p, !.at = now,
                             !.steppedUp = session[s].fresh, !.mandated = user.required]
<1>1. /\ tx' = [tx EXCEPT ![w] = t]
      /\ requests < MaxRequests /\ requests' = requests + 1
      /\ UNCHANGED <<tables, now, locks, uses>>
      /\ op = "disable" => session[s].fresh /\ ~user.required
      /\ p \in CASE op \in {"activate", "verify"} -> Shown \X TimeStep
                 [] op = "recover"                -> Issued
                 [] OTHER                         -> {<<>>}
    BY DEF Begin
<1>2. /\ now \in TimeStep /\ session[s].fresh \in BOOLEAN /\ user.required \in BOOLEAN
      /\ Idle \in Transaction /\ requests \in 0..MaxRequests
    BY IdleFields, MfaAssumption DEF MfaIndInv, MfaTypeOK, SessionRow
<1>3. /\ t \in Transaction
      /\ t.op = op /\ t.pc = "first" /\ t.presented = p /\ t.retired = {} /\ t.spent = {}
      /\ t.steppedUp = session[s].fresh /\ t.mandated = user.required
    BY <1>2, IdleFields DEF Transaction
<1> HIDE DEF t
<1>4. op \in {"activate", "verify"} => p \in Totp
    BY <1>1 DEF Shown, Totp
<1>5. op = "recover" => p \in Code
    BY <1>1 DEF Issued
<1>6. tx'[w] = t /\ UNCHANGED <<factor, code, factorLock, codeLock, userLock>>
    BY <1>1 DEF MfaIndInv, MfaTypeOK, tables, locks
<1>7. CallerOK(w)'
    BY <1>1, <1>3, <1>4, <1>5, <1>6 DEF CallerOK
<1>8. /\ factorLock' \in [Factor -> Caller \cup {NoCaller}]
      /\ codeLock' \in [Code -> Caller \cup {NoCaller}]
      /\ userLock' \in Caller \cup {NoCaller}
      /\ requests' \in 0..MaxRequests
    BY <1>1, <1>2, <1>6, MfaAssumption DEF MfaIndInv, MfaTypeOK
<1>9. \A f \in Factor : factorLock'[f] # NoCaller => f \in Live
    BY <1>6 DEF MfaIndInv, FactorsOK
<1> QED
    BY <1>1, <1>3, <1>6, <1>7, <1>8, <1>9, QuietStep

\* Factors that are retired are live and nobody else's, and stay locked.
LEMMA RetireOK ==
    ASSUME MfaIndInv, NEW w \in Caller, NEW rows \in SUBSET Live, NEW pc \in Points,
           \A f \in rows : factorLock[f] \in {w, NoCaller},
           tx[w].op \in {"setup", "disable"},
           tx[w].op = "setup" => \A f \in rows : factor[f].status = "PENDING",
           Retire(w, rows, pc)
    PROVE  MfaIndInv'
<1> DEFINE t == [Moved(w, pc) EXCEPT !.retired = rows]
<1>1. /\ tx' = [tx EXCEPT ![w] = t]
      /\ factorLock' = Held(w, factorLock, rows)
      /\ UNCHANGED <<tables, now, codeLock, userLock, uses, requests>>
    BY DEF Retire
<1>2. rows \in SUBSET Factor
    BY DEF Live, InStatus
<1>3. /\ t \in Transaction
      /\ t.op = tx[w].op /\ t.retired = rows /\ t.spent = tx[w].spent
      /\ t.steppedUp = tx[w].steppedUp /\ t.mandated = tx[w].mandated
    BY <1>2, MovedFields, RetireFields DEF MfaIndInv
<1> HIDE DEF t
<1>4. /\ factorLock' \in [Factor -> Caller \cup {NoCaller}]
      /\ \A f \in Factor : factorLock'[f] = IF f \in rows THEN w ELSE factorLock[f]
    BY <1>1 DEF MfaIndInv, MfaTypeOK, Held
<1>5. tx'[w] = t /\ UNCHANGED <<factor, code>>
    BY <1>1 DEF MfaIndInv, MfaTypeOK, tables
<1>6. CallerOK(w)
    BY DEF MfaIndInv
<1>7. CallerOK(w)'
    BY <1>1, <1>2, <1>3, <1>4, <1>5, <1>6 DEF CallerOK
<1>8. /\ codeLock' \in [Code -> Caller \cup {NoCaller}]
      /\ userLock' \in Caller \cup {NoCaller}
      /\ requests' \in 0..MaxRequests
    BY <1>1 DEF MfaIndInv, MfaTypeOK
<1>9. \A f \in Factor : /\ factorLock[f] \notin {w, NoCaller} => factorLock'[f] = factorLock[f]
                        /\ factorLock'[f] # NoCaller => f \in Live
    BY <1>4 DEF MfaIndInv, FactorsOK
<1> QED
    BY <1>1, <1>3, <1>4, <1>7, <1>8, <1>9, QuietStep

\* Codes that are spent are live and nobody else's, and stay locked.
LEMMA SpendOK ==
    ASSUME MfaIndInv, NEW w \in Caller, NEW rows \in SUBSET LiveCodes,
           \A c \in rows : codeLock[c] \in {w, NoCaller},
           tx[w].op \in {"activate", "recover", "regenerate", "disable"},
           tx[w].op = "activate" => tx[w].pc = "second",
           tx[w].op = "recover" => rows = {tx[w].presented},
           userLock' \in Caller \cup {NoCaller},
           Spend(w, rows)
    PROVE  MfaIndInv'
<1> DEFINE t == [Moved(w, "third") EXCEPT !.spent = rows]
<1>1. /\ tx' = [tx EXCEPT ![w] = t]
      /\ codeLock' = Held(w, codeLock, rows)
      /\ UNCHANGED <<tables, now, factorLock, uses, requests>>
    BY DEF Spend
<1>2. rows \in SUBSET Code /\ "third" \in Points
    BY DEF LiveCodes, Points
<1>3. /\ t \in Transaction
      /\ t.op = tx[w].op /\ t.pc = "third" /\ t.presented = tx[w].presented
      /\ t.retired = tx[w].retired /\ t.spent = rows
      /\ t.steppedUp = tx[w].steppedUp /\ t.mandated = tx[w].mandated
    BY <1>2, MovedFields, SpendFields DEF MfaIndInv
<1> HIDE DEF t
<1>4. /\ codeLock' \in [Code -> Caller \cup {NoCaller}]
      /\ \A c \in Code : codeLock'[c] = IF c \in rows THEN w ELSE codeLock[c]
    BY <1>1 DEF MfaIndInv, MfaTypeOK, Held
<1>5. tx'[w] = t /\ UNCHANGED <<factor, code>>
    BY <1>1 DEF MfaIndInv, MfaTypeOK, tables
<1>6. CallerOK(w) /\ \A c \in rows : c \in Code /\ code[c] = "live"
    BY DEF MfaIndInv, LiveCodes
<1>7. CallerOK(w)'
    BY <1>1, <1>2, <1>3, <1>4, <1>5, <1>6 DEF CallerOK
<1>8. /\ factorLock' \in [Factor -> Caller \cup {NoCaller}]
      /\ requests' \in 0..MaxRequests
      /\ \A f \in Factor : factorLock'[f] # NoCaller => f \in Live
    BY <1>1 DEF MfaIndInv, MfaTypeOK, FactorsOK
<1>9. \A c \in Code : codeLock[c] \notin {w, NoCaller} => codeLock'[c] = codeLock[c]
    BY <1>4, <1>6
<1> QED
    BY <1>1, <1>3, <1>4, <1>7, <1>8, <1>9, QuietStep

LEMMA ReachedFactors ==
    ASSUME NEW w \in Caller, Reached(w), Rows(w) \subseteq Factor
    PROVE  \A f \in Rows(w) : factorLock[f] \in {w, NoCaller}
BY DEF Reached, Locked

LEMMA ReachedCodes ==
    ASSUME NEW w \in Caller, Reached(w), Rows(w) \subseteq Code
    PROVE  \A c \in Rows(w) : codeLock[c] \in {w, NoCaller}
BY KindsDiffer DEF Reached, Locked

LEMMA CheckNoneActiveOK ==
    ASSUME MfaIndInv, NEW w \in Caller, CheckNoneActive(w)
    PROVE  MfaIndInv'
<1>1. CASE Refuse(w)
    BY <1>1, RefuseOK
<1>2. CASE Goes(w, "second") /\ UNCHANGED <<tables, now, locks, uses, requests>>
    <2> DEFINE t == Moved(w, "second")
    <2>1. /\ t \in Transaction
          /\ t.op = tx[w].op /\ t.retired = tx[w].retired /\ t.spent = tx[w].spent
          /\ t.steppedUp = tx[w].steppedUp /\ t.mandated = tx[w].mandated
        BY MovedFields DEF MfaIndInv, Points
    <2>2. tx' = [tx EXCEPT ![w] = t] /\ tx[w].op = "setup"
        BY <1>2 DEF Goes, CheckNoneActive, Doing
    <2> HIDE DEF t
    <2>3. tx'[w] = t /\ UNCHANGED <<factor, code, factorLock, codeLock, userLock, requests>>
        BY <1>2, <2>2 DEF MfaIndInv, MfaTypeOK, tables, locks
    <2>4. CallerOK(w)
        BY DEF MfaIndInv
    <2>5. CallerOK(w)'
        BY <2>1, <2>2, <2>3, <2>4 DEF CallerOK
    <2>6. /\ factorLock' \in [Factor -> Caller \cup {NoCaller}]
          /\ codeLock' \in [Code -> Caller \cup {NoCaller}]
          /\ userLock' \in Caller \cup {NoCaller}
          /\ requests' \in 0..MaxRequests
          /\ \A f \in Factor : factorLock'[f] # NoCaller => f \in Live
        BY <2>3 DEF MfaIndInv, MfaTypeOK, FactorsOK
    <2> QED
        BY <1>2, <2>1, <2>2, <2>3, <2>5, <2>6, QuietStep
<1> QED
    BY <1>1, <1>2 DEF CheckNoneActive

LEMMA DropPendingOK ==
    ASSUME MfaIndInv, NEW w \in Caller, DropPending(w)
    PROVE  MfaIndInv'
<1>1. /\ tx[w].op = "setup" /\ Doing(w, {"setup"}, "second") /\ Reached(w)
      /\ Retire(w, Rows(w), "third") /\ "third" \in Points
    BY DEF DropPending, Doing, Points
<1>2. Rows(w) \subseteq InStatus({"PENDING"})
    BY <1>1, SelectedRows DEF MfaIndInv
<1>3. /\ Rows(w) \in SUBSET Live /\ Rows(w) \subseteq Factor
      /\ \A f \in Rows(w) : factor[f].status = "PENDING"
    BY <1>2 DEF Live, InStatus
<1>4. \A f \in Rows(w) : factorLock[f] \in {w, NoCaller}
    BY <1>1, <1>3, ReachedFactors
<1> QED
    BY <1>1, <1>3, <1>4, RetireOK

LEMMA RetireFactorsOK ==
    ASSUME MfaIndInv, NEW w \in Caller, RetireFactors(w)
    PROVE  MfaIndInv'
<1>1. /\ tx[w].op = "disable" /\ Doing(w, {"disable"}, "first") /\ Reached(w)
      /\ Retire(w, Rows(w), "second") /\ "second" \in Points
    BY DEF RetireFactors, Doing, Points
<1>2. Rows(w) \in SUBSET Live /\ Rows(w) \subseteq Factor
    BY <1>1, SelectedRows DEF MfaIndInv, Live, InStatus
<1>3. \A f \in Rows(w) : factorLock[f] \in {w, NoCaller}
    BY <1>1, <1>2, ReachedFactors
<1> QED
    BY <1>1, <1>2, <1>3, RetireOK

\* A code is judged right for the one live factor there is, and that is locked.
LEMMA JudgeCodeOK ==
    ASSUME MfaIndInv, NEW w \in Caller, JudgeCode(w)
    PROVE  MfaIndInv'
<1>1. CASE Refuse(w)
    BY <1>1, RefuseOK
<1>2. CASE ~Refuse(w)
    <2> DEFINE pc == IF tx[w].op = "activate" THEN "second" ELSE "third"
               t  == Moved(w, pc)
               status == IF tx[w].op = "activate" THEN "PENDING" ELSE "ACTIVE"
    <2>1. /\ tx[w].op \in {"activate", "verify"} /\ tx[w].pc = "first" /\ Reached(w)
          /\ Doing(w, {"activate", "verify"}, "first")
          /\ Goes(w, pc)
          /\ UNCHANGED <<tables, now, codeLock, userLock, uses, requests>>
        BY <1>2 DEF JudgeCode, Doing
    <2>2. PICK f \in Rows(w) : Valid(w, f)
        BY <1>2 DEF JudgeCode
    <2>3. PICK g \in Rows(w) : LockFactor(w, g)
        BY <1>2 DEF JudgeCode
    <2>4. Rows(w) \subseteq InStatus({status})
        BY <2>1, SelectedRows DEF MfaIndInv, Doing
    <2>5. /\ f \in Live /\ g \in Live /\ f \in Factor /\ factor[f].status = status
          /\ Rows(w) \subseteq Factor
        BY <2>2, <2>3, <2>4 DEF Live, InStatus
    <2>6. f = g
        BY <2>5 DEF MfaIndInv, FactorsOK
    <2>7. factorLock[f] \in {w, NoCaller}
        BY <2>1, <2>2, <2>5, ReachedFactors
    <2>8. factorLock' = [factorLock EXCEPT ![f] = w]
        BY <2>3, <2>6 DEF LockFactor
    <2>9. tx[w].presented \in Totp /\ tx[w].presented[1] = f /\ tx[w].presented[2] > factor[f].used
        BY <2>1, <2>2 DEF MfaIndInv, CallerOK, Valid
    <2>10. pc \in Points /\ pc # "first"
        BY DEF Points
    <2>11. /\ t \in Transaction
           /\ t.op = tx[w].op /\ t.pc = pc /\ t.presented = tx[w].presented
           /\ t.retired = tx[w].retired /\ t.spent = tx[w].spent
        BY <2>10, MovedFields DEF MfaIndInv
    <2>12. tx' = [tx EXCEPT ![w] = t]
        BY <2>1 DEF Goes
    <2> HIDE DEF pc, t
    <2>13. tx'[w] = t /\ UNCHANGED <<factor, code>>
        BY <2>1, <2>12 DEF MfaIndInv, MfaTypeOK, tables
    <2>14. /\ factorLock' \in [Factor -> Caller \cup {NoCaller}]
           /\ \A h \in Factor : factorLock'[h] = IF h = f THEN w ELSE factorLock[h]
        BY <2>5, <2>8 DEF MfaIndInv, MfaTypeOK
    <2>15. CallerOK(w) /\ tx[w].retired \subseteq Factor
        BY RowFields, TransactionFields DEF MfaIndInv
    <2>16. CallerOK(w)'
        <3>1. \A h \in t.retired : factorLock'[h] = w
            BY <2>11, <2>14, <2>15 DEF CallerOK
        <3>2. \A c \in t.spent : codeLock'[c] = w /\ code'[c] = "live"
            BY <2>1, <2>11, <2>13, <2>15 DEF CallerOK
        <3>3. /\ t.presented \in Totp /\ t.presented[1] = f
              /\ factorLock'[f] = w
              /\ factor'[f].status = IF t.op = "activate" THEN "PENDING" ELSE "ACTIVE"
              /\ t.presented[2] > factor'[f].used
            BY <2>5, <2>9, <2>11, <2>13, <2>14
        <3>4. t.op \in {"activate", "verify"}
            BY <2>1, <2>11
        <3> QED
            BY <2>13, <3>1, <3>2, <3>3, <3>4 DEF CallerOK
    <2>17. /\ codeLock' \in [Code -> Caller \cup {NoCaller}]
           /\ userLock' \in Caller \cup {NoCaller}
           /\ requests' \in 0..MaxRequests
        BY <2>1 DEF MfaIndInv, MfaTypeOK
    <2>18. \A h \in Factor : /\ factorLock[h] \notin {w, NoCaller} => factorLock'[h] = factorLock[h]
                             /\ factorLock'[h] # NoCaller => h \in Live
        BY <2>5, <2>7, <2>14 DEF MfaIndInv, FactorsOK
    <2> QED
        BY <2>1, <2>11, <2>12, <2>14, <2>16, <2>17, <2>18, QuietStep
<1> QED
    BY <1>1, <1>2

LEMMA ConsumeCodeOK ==
    ASSUME MfaIndInv, NEW w \in Caller, ConsumeCode(w)
    PROVE  MfaIndInv'
<1>1. CASE Refuse(w)
    BY <1>1, RefuseOK
<1>2. CASE Rows(w) # {} /\ Spend(w, Rows(w)) /\ UNCHANGED userLock
    <2>1. tx[w].op = "recover" /\ Doing(w, {"recover"}, "first") /\ Reached(w)
        BY DEF ConsumeCode, Doing
    <2>2. Rows(w) \subseteq LiveCodes \cap {tx[w].presented}
        BY <2>1, SelectedRows DEF MfaIndInv
    <2>3. /\ Rows(w) \in SUBSET LiveCodes /\ Rows(w) \subseteq Code
          /\ Rows(w) = {tx[w].presented}
        BY <1>2, <2>2 DEF LiveCodes
    <2>4. \A c \in Rows(w) : codeLock[c] \in {w, NoCaller}
        BY <2>1, <2>3, ReachedCodes
    <2>5. userLock' \in Caller \cup {NoCaller}
        BY <1>2 DEF MfaIndInv, MfaTypeOK
    <2> QED
        BY <1>2, <2>1, <2>3, <2>4, <2>5, SpendOK
<1> QED
    BY <1>1, <1>2 DEF ConsumeCode

LEMMA ConsumeBatchOK ==
    ASSUME MfaIndInv, NEW w \in Caller, ConsumeBatch(w)
    PROVE  MfaIndInv'
<1>1. /\ Reached(w) /\ Spend(w, Rows(w))
      /\ \/ Doing(w, {"activate", "disable"}, "second") /\ userLock' = w
         \/ Doing(w, {"regenerate"}, "first") /\ UNCHANGED userLock
    BY DEF ConsumeBatch
<1>2. /\ tx[w].op \in {"activate", "regenerate", "disable"}
      /\ tx[w].op = "activate" => tx[w].pc = "second"
    BY <1>1 DEF Doing
<1>3. Rows(w) \in SUBSET LiveCodes /\ Rows(w) \subseteq Code
    BY <1>1, SelectedRows DEF MfaIndInv, LiveCodes
<1>4. \A c \in Rows(w) : codeLock[c] \in {w, NoCaller}
    BY <1>1, <1>3, ReachedCodes
<1>5. userLock' \in Caller \cup {NoCaller}
    BY <1>1 DEF MfaIndInv, MfaTypeOK
<1> QED
    BY <1>1, <1>2, <1>3, <1>4, <1>5, SpendOK

-----------------------------------------------------------------------------
(* Steps that write, which end the request.                                *)

\* A request that commits has locked what it changes, or makes it.
LEMMA CommitStep ==
    ASSUME MfaIndInv, NEW w \in Caller,
           tx' = [tx EXCEPT ![w] = Idle], Unlock(w), UNCHANGED <<now, requests>>,
           factor' \in [Factor -> FactorRow],
           code' \in [Code -> {"none", "live", "consumed"}],
           user' \in [enrolled : BOOLEAN, required : BOOLEAN],
           session' \in [Session -> SessionRow],
           uses' \in [Totp \cup Code -> Nat],
           \A f \in Factor :
              factor'[f] = factor[f] \/ factorLock[f] = w \/ factor[f].status = "none",
           \A c \in Code : code'[c] = code[c] \/ codeLock[c] = w \/ code[c] = "none",
           \A f, g \in Live' : f = g, UsesOK', EnrolledHasFactor'
    PROVE  MfaIndInv'
<1>1. Idle \in Transaction /\ tx'[w] = Idle
    BY IdleFields, MfaAssumption DEF MfaIndInv, MfaTypeOK
<1>2. MfaTypeOK'
    <2>1. tx' \in [Caller -> Transaction]
        BY <1>1 DEF MfaIndInv, MfaTypeOK
    <2>2. now' \in TimeStep /\ requests' \in 0..MaxRequests
        BY DEF MfaIndInv, MfaTypeOK
    <2> QED
        BY <2>1, <2>2, UnlockFacts DEF MfaTypeOK
<1>3. \A f \in Factor : factorLock[f] # NoCaller => f \in Live /\ factor[f].status # "none"
    BY DEF MfaIndInv, FactorsOK, Live, InStatus
<1>4. FactorsOK'
    <2>1. ASSUME NEW f \in Factor, factorLock'[f] # NoCaller PROVE f \in Live'
        <3>1. factorLock[f] # NoCaller /\ factorLock[f] # w
            BY <2>1, UnlockFacts
        <3>2. f \in Live /\ factor'[f] = factor[f]
            BY <1>3, <3>1
        <3> QED
            BY <3>2 DEF Live, InStatus
    <2> QED
        BY <2>1 DEF FactorsOK
<1>5. ASSUME NEW v \in Caller PROVE CallerOK(v)'
    <2>1. CASE v = w
        BY <1>1, <2>1, IdleRequest
    <2>2. CASE v # w
        <3>1. tx'[v] = tx[v]
            BY <2>2 DEF MfaIndInv, MfaTypeOK
        <3>2. \A f \in Factor :
                 factorLock[f] = v => factorLock'[f] = v /\ factor'[f] = factor[f]
            BY <1>3, <2>2, KindsDiffer, UnlockFacts
        <3>3. \A c \in Code : codeLock[c] = v =>
                 codeLock'[c] = v /\ (code[c] = "live" => code'[c] = "live")
            BY <2>2, UnlockFacts
        <3> QED
            BY <2>2, <3>1, <3>2, <3>3, OtherRequests
    <2> QED
        BY <2>1, <2>2
<1> QED
    BY <1>2, <1>4, <1>5 DEF MfaIndInv

\* setup: the pending factor it makes is the only one that is live.
LEMMA InsertPendingOK ==
    ASSUME MfaIndInv, NEW w \in Caller, NEW f \in Factor, InsertPending(w, f)
    PROVE  MfaIndInv'
<1>1. CASE Refuse(w)
    BY <1>1, RefuseOK
<1>2. CASE ~Refuse(w)
    <2>1. /\ tx[w].op = "setup" /\ factor[f].status = "none"
          /\ Live \ tx[w].retired = {}
          /\ factor' = [g \in Factor |->
                IF g = f THEN [status |-> "PENDING", used |-> 0]
                ELSE IF g \in tx[w].retired
                  THEN [factor[g] EXCEPT !.status = "DISABLED"] ELSE factor[g]]
          /\ tx' = [tx EXCEPT ![w] = Idle]
          /\ Unlock(w)
          /\ UNCHANGED <<code, user, session, now, uses, requests>>
        BY <1>2, Zenon DEF InsertPending, Doing
    <2>2. /\ \A g \in Factor : /\ factor[g] \in FactorRow
                               /\ factor[g].status \in {"none", "PENDING", "ACTIVE", "DISABLED"}
                               /\ factor[g].used \in 0..LastStep
          /\ CallerOK(w) /\ tx[w].retired \subseteq Factor /\ LastStep \in Nat
        BY RowFields, TransactionFields, MfaAssumption DEF MfaIndInv
    <2>3. \A g \in tx[w].retired : factor[g].status = "PENDING" /\ factorLock[g] = w
        BY <2>1, <2>2 DEF CallerOK
    <2> DEFINE fresh == [status |-> "PENDING", used |-> 0]
               gone(g) == [factor[g] EXCEPT !.status = "DISABLED"]
    <2>4. fresh \in FactorRow /\ fresh.status = "PENDING" /\ fresh.used = 0
        BY <2>2 DEF FactorRow
    <2>5. \A g \in Factor : /\ gone(g) \in FactorRow
                            /\ gone(g).status = "DISABLED" /\ gone(g).used = factor[g].used
        BY <2>2 DEF FactorRow
    <2>6. factor' = [g \in Factor |-> IF g = f THEN fresh
                                      ELSE IF g \in tx[w].retired THEN gone(g) ELSE factor[g]]
        BY <2>1
    <2> HIDE DEF fresh, gone
    <2>7. /\ factor' \in [Factor -> FactorRow]
          /\ factor'[f] = fresh
          /\ \A g \in Factor \ {f} :
                factor'[g] = IF g \in tx[w].retired THEN gone(g) ELSE factor[g]
        BY <2>2, <2>4, <2>5, <2>6
    <2>8. \A g \in Factor :
             factor'[g] = factor[g] \/ factorLock[g] = w \/ factor[g].status = "none"
        BY <2>1, <2>3, <2>7
    <2>9. \A g, h \in Live' : g = h
        <3>1. \A g \in Factor \ {f} : g \notin Live'
            BY <2>1, <2>5, <2>7 DEF Live, InStatus
        <3> QED
            BY <3>1 DEF Live, InStatus
    <2>10. UsesOK'
        <3>1. UsesOK
            BY DEF MfaIndInv
        <3>2. \A g \in Factor : factor[g].status # "none" =>
                 factor'[g].status # "none" /\ factor'[g].used = factor[g].used
            BY <2>1, <2>5, <2>7
        <3> QED
            BY <2>1, <3>1, <3>2 DEF UsesOK
    <2>11. EnrolledHasFactor'
        <3>1. \A g \in Factor : factor[g].status = "ACTIVE" => factor'[g].status = "ACTIVE"
            BY <2>1, <2>3, <2>7
        <3> QED
            BY <2>1, <3>1 DEF MfaIndInv, EnrolledHasFactor, InStatus
    <2>12. /\ code' \in [Code -> {"none", "live", "consumed"}]
           /\ user' \in [enrolled : BOOLEAN, required : BOOLEAN]
           /\ session' \in [Session -> SessionRow]
           /\ uses' \in [Totp \cup Code -> Nat]
           /\ \A c \in Code : code'[c] = code[c]
        BY <2>1 DEF MfaIndInv, MfaTypeOK
    <2> QED
        BY <2>1, <2>7, <2>8, <2>9, <2>10, <2>11, <2>12, CommitStep
<1> QED
    BY <1>1, <1>2

\* Only live codes are consumed and only new ones are issued.
LEMMA CodesFacts ==
    ASSUME MfaIndInv, NEW w \in Caller, NEW issued \in SUBSET Unissued,
           code' = Codes(tx[w].spent, issued)
    PROVE  /\ code' \in [Code -> {"none", "live", "consumed"}]
           /\ \A c \in Code : code'[c] = code[c] \/ codeLock[c] = w \/ code[c] = "none"
           /\ \A c \in Code : code[c] = "consumed" => code'[c] = "consumed"
           /\ \A c \in tx[w].spent : c \in Code /\ code'[c] = "consumed"
<1>1. /\ \A c \in Code : code[c] \in {"none", "live", "consumed"}
      /\ CallerOK(w) /\ tx[w].spent \subseteq Code
    BY RowFields, TransactionFields DEF MfaIndInv
<1>2. \A c \in tx[w].spent : codeLock[c] = w
    BY <1>1 DEF CallerOK
<1>3. \A c \in Code : c[1] \in issued => code[c] = "none"
    <2> SUFFICES ASSUME NEW c \in Code, c[1] \in issued PROVE code[c] = "none"
        OBVIOUS
    <2>1. c[2] \in 1..CodesPerBatch /\ c = <<c[1], c[2]>>
        BY DEF Code
    <2>2. code[<<c[1], c[2]>>] = "none"
        BY <2>1 DEF Unissued
    <2> QED
        BY <2>1, <2>2
<1>4. \A c \in Code : code'[c] = IF c \in tx[w].spent THEN "consumed"
                                 ELSE IF c[1] \in issued THEN "live" ELSE code[c]
    BY DEF Codes
<1>5. code' \in [Code -> {"none", "live", "consumed"}]
    BY <1>1 DEF Codes
<1> QED
    BY <1>1, <1>2, <1>3, <1>4, <1>5

LEMMA SessionMarked ==
    ASSUME MfaIndInv, NEW s, MarkVerified(s)
    PROVE  session' \in [Session -> SessionRow]
<1>1. session \in [Session -> SessionRow]
    BY DEF MfaIndInv, MfaTypeOK
<1>2. CASE s \in Session /\ session[s].live
    <2> DEFINE r == [session[s] EXCEPT !.pending = FALSE, !.fresh = TRUE]
    <2>1. session[s] \in SessionRow
        BY <1>1, <1>2
    <2>2. r \in SessionRow
        BY <2>1 DEF SessionRow
    <2>3. session' = [session EXCEPT ![s] = r]
        BY <1>2 DEF MarkVerified
    <2> HIDE DEF r
    <2> QED
        BY <1>1, <2>2, <2>3
<1>3. CASE s \in Session /\ ~session[s].live
    BY <1>1, <1>3 DEF MarkVerified
<1>4. CASE s \notin Session
    <2>1. \A r : [session EXCEPT ![s] = r] = session
        BY <1>1, <1>4
    <2> QED
        BY <1>1, <2>1 DEF MarkVerified
<1> QED
    BY <1>2, <1>3, <1>4

\* A code that is accepted moves the watermark up to it.
LEMMA TotpAccepted ==
    ASSUME MfaIndInv, NEW f \in Factor, NEW n \in TimeStep, n > factor[f].used,
           uses' = [uses EXCEPT ![<<f, n>>] = @ + 1],
           \A g \in Factor \ {f} : factor'[g] = factor[g],
           factor'[f].used = n, factor'[f].status # "none",
           \A c \in Code : code[c] = "consumed" => code'[c] = "consumed"
    PROVE  UsesOK' /\ uses' \in [Totp \cup Code -> Nat]
<1>1. <<f, n>> \in Totp /\ <<f, n>> \notin Code
    BY KindsDiffer DEF Totp
<1>2. uses \in [Totp \cup Code -> Nat] /\ UsesOK /\ factor[f].used \in Nat /\ n \in Nat
    BY RowFields DEF MfaIndInv, MfaTypeOK, TimeStep
<1>3. uses[<<f, n>>] = 0
    BY <1>2 DEF UsesOK
<1>4. /\ uses' \in [Totp \cup Code -> Nat]
      /\ \A p \in Totp \cup Code : uses'[p] = IF p = <<f, n>> THEN 1 ELSE uses[p]
    <2> DEFINE k == <<f, n>>
    <2>1. k \in Totp \cup Code /\ uses[k] = 0 /\ uses' = [uses EXCEPT ![k] = @ + 1]
        BY <1>1, <1>3
    <2> HIDE DEF k
    <2>2. /\ uses' \in [Totp \cup Code -> Nat]
          /\ \A p \in Totp \cup Code : uses'[p] = IF p = k THEN 1 ELSE uses[p]
        BY <1>2, <2>1
    <2> QED
        BY <2>2 DEF k
<1>5. ASSUME NEW g \in Factor, NEW m \in TimeStep
      PROVE  /\ uses'[<<g, m>>] \in {0, 1}
             /\ uses'[<<g, m>>] = 1 => factor'[g].used >= m /\ factor'[g].status # "none"
    <2>1. <<g, m>> \in Totp /\ m \in Nat
        BY DEF Totp, TimeStep
    <2>2. CASE <<g, m>> = <<f, n>>
        BY <1>2, <1>4, <2>1, <2>2
    <2>3. CASE <<g, m>> # <<f, n>>
        <3>1. uses'[<<g, m>>] = uses[<<g, m>>]
            BY <1>4, <2>1, <2>3
        <3>2. /\ uses[<<g, m>>] \in {0, 1}
              /\ uses[<<g, m>>] = 1 => factor[g].used >= m /\ factor[g].status # "none"
            BY <1>2 DEF UsesOK
        <3>3. factor[g].used >= m => factor'[g].used >= m
            BY <1>2, <2>1
        <3> QED
            BY <3>1, <3>2, <3>3
    <2> QED
        BY <2>2, <2>3
<1>6. ASSUME NEW c \in Code
      PROVE  uses'[c] \in {0, 1} /\ (uses'[c] = 1 => code'[c] = "consumed")
    <2>1. uses'[c] = uses[c]
        BY <1>1, <1>4
    <2> QED
        BY <1>2, <2>1 DEF UsesOK
<1> QED
    BY <1>4, <1>5, <1>6 DEF UsesOK

\* What a request has found out about the code it was given.
LEMMA Judged ==
    ASSUME MfaIndInv, NEW w \in Caller, tx[w].op \in {"activate", "verify"}, tx[w].pc # "first"
    PROVE  LET f == tx[w].presented[1]
               n == tx[w].presented[2]
           IN  /\ f \in Factor /\ n \in TimeStep /\ n \in 0..LastStep
               /\ tx[w].presented = <<f, n>>
               /\ factorLock[f] = w
               /\ factor[f].status = IF tx[w].op = "activate" THEN "PENDING" ELSE "ACTIVE"
               /\ n > factor[f].used
<1> DEFINE p == tx[w].presented
<1>1. /\ p \in Totp
      /\ factorLock[p[1]] = w
      /\ factor[p[1]].status = IF tx[w].op = "activate" THEN "PENDING" ELSE "ACTIVE"
      /\ p[2] > factor[p[1]].used
    BY DEF MfaIndInv, CallerOK
<1>2. p[1] \in Factor /\ p[2] \in TimeStep /\ p = <<p[1], p[2]>>
    BY <1>1 DEF Totp
<1>3. p[2] \in 0..LastStep
    BY <1>2, MfaAssumption DEF TimeStep
<1> QED
    BY <1>1, <1>2, <1>3

LEMMA CommitActivateOK ==
    ASSUME MfaIndInv, NEW w \in Caller, CommitActivate(w)
    PROVE  MfaIndInv'
<1> DEFINE f == tx[w].presented[1]
           n == tx[w].presented[2]
           entry == [status |-> "ACTIVE", used |-> n]
<1>1. /\ tx[w].op = "activate" /\ tx[w].pc = "third"
      /\ factor' = [factor EXCEPT ![f] = entry]
      /\ user' = [user EXCEPT !.enrolled = TRUE]
      /\ MarkVerified(tx[w].by)
      /\ uses' = [uses EXCEPT ![tx[w].presented] = @ + 1]
      /\ tx' = [tx EXCEPT ![w] = Idle] /\ Unlock(w) /\ UNCHANGED <<now, requests>>
    BY DEF CommitActivate, Doing, SetEnrolled, Accept, Done
<1>2. PICK b \in Unissued : code' = Codes(tx[w].spent, {b})
    BY DEF CommitActivate
<1>3. /\ f \in Factor /\ n \in TimeStep /\ n \in 0..LastStep
      /\ tx[w].presented = <<f, n>>
      /\ factorLock[f] = w /\ factor[f].status = "PENDING" /\ n > factor[f].used
    BY <1>1, Judged
<1>4. entry \in FactorRow /\ entry.status = "ACTIVE" /\ entry.used = n
    BY <1>3 DEF FactorRow
<1> HIDE DEF f, n, entry
<1>5. /\ factor' \in [Factor -> FactorRow]
      /\ factor'[f] = entry
      /\ \A g \in Factor \ {f} : factor'[g] = factor[g]
    BY <1>1, <1>3, <1>4 DEF MfaIndInv, MfaTypeOK
<1>6. {b} \in SUBSET Unissued
    OBVIOUS
<1>7. /\ code' \in [Code -> {"none", "live", "consumed"}]
      /\ \A c \in Code : code'[c] = code[c] \/ codeLock[c] = w \/ code[c] = "none"
      /\ \A c \in Code : code[c] = "consumed" => code'[c] = "consumed"
    BY <1>2, <1>6, CodesFacts
<1>8. uses' = [uses EXCEPT ![<<f, n>>] = @ + 1]
    BY <1>1, <1>3
<1>9. factor'[f].used = n /\ factor'[f].status = "ACTIVE"
    BY <1>4, <1>5
<1>10. UsesOK' /\ uses' \in [Totp \cup Code -> Nat]
    BY <1>3, <1>5, <1>7, <1>8, <1>9, TotpAccepted
<1>11. \A g, h \in Live' : g = h
    <2>1. f \in Live
        BY <1>3 DEF Live, InStatus
    <2>2. \A g \in Live' : g \in Live
        BY <1>5, <2>1 DEF Live, InStatus
    <2> QED
        BY <2>2 DEF MfaIndInv, FactorsOK
<1>12. EnrolledHasFactor'
    BY <1>3, <1>9 DEF EnrolledHasFactor, InStatus
<1>13. user' \in [enrolled : BOOLEAN, required : BOOLEAN]
    BY <1>1 DEF MfaIndInv, MfaTypeOK
<1>14. \A g \in Factor : factor'[g] = factor[g] \/ factorLock[g] = w \/ factor[g].status = "none"
    BY <1>3, <1>5
<1>15. session' \in [Session -> SessionRow]
    BY <1>1, SessionMarked
<1> QED
    BY <1>1, <1>5, <1>7, <1>10, <1>11, <1>12, <1>13, <1>14, <1>15, CommitStep

LEMMA CommitVerifyOK ==
    ASSUME MfaIndInv, NEW w \in Caller, CommitVerify(w)
    PROVE  MfaIndInv'
<1> DEFINE f == tx[w].presented[1]
           n == tx[w].presented[2]
           entry == [factor[f] EXCEPT !.used = Raise(@, n)]
<1>1. /\ tx[w].op = "verify" /\ tx[w].pc = "third"
      /\ factor' = [factor EXCEPT ![f] = entry]
      /\ MarkVerified(tx[w].by)
      /\ uses' = [uses EXCEPT ![tx[w].presented] = @ + 1]
      /\ tx' = [tx EXCEPT ![w] = Idle] /\ Unlock(w)
      /\ UNCHANGED <<user, code, now, requests>>
    BY DEF CommitVerify, Doing, Accept, Done
<1>2. /\ f \in Factor /\ n \in TimeStep /\ n \in 0..LastStep
      /\ tx[w].presented = <<f, n>>
      /\ factorLock[f] = w /\ factor[f].status = "ACTIVE" /\ n > factor[f].used
    BY <1>1, Judged
<1>3. entry \in FactorRow /\ entry.status = "ACTIVE" /\ entry.used = n
    <2>1. factor[f] \in FactorRow /\ factor[f].status = "ACTIVE" /\ Raise(factor[f].used, n) = n
        BY <1>2, RowFields DEF MfaIndInv, Raise
    <2> QED
        BY <1>2, <2>1 DEF FactorRow
<1> HIDE DEF f, n, entry
<1>4. /\ factor' \in [Factor -> FactorRow]
      /\ factor'[f] = entry
      /\ \A g \in Factor \ {f} : factor'[g] = factor[g]
    BY <1>1, <1>2, <1>3 DEF MfaIndInv, MfaTypeOK
<1>5. factor'[f].used = n /\ factor'[f].status = "ACTIVE"
    BY <1>3, <1>4
<1>6. uses' = [uses EXCEPT ![<<f, n>>] = @ + 1]
    BY <1>1, <1>2
<1>7. \A c \in Code : code'[c] = code[c]
    BY <1>1
<1>8. UsesOK' /\ uses' \in [Totp \cup Code -> Nat]
    BY <1>2, <1>4, <1>5, <1>6, <1>7, TotpAccepted
<1>9. \A g \in Factor : factor'[g].status = factor[g].status
    BY <1>2, <1>4, <1>5
<1>10. \A g, h \in Live' : g = h
    BY <1>9 DEF MfaIndInv, FactorsOK, Live, InStatus
<1>11. EnrolledHasFactor'
    BY <1>1, <1>9 DEF MfaIndInv, EnrolledHasFactor, InStatus
<1>12. /\ user' \in [enrolled : BOOLEAN, required : BOOLEAN]
       /\ code' \in [Code -> {"none", "live", "consumed"}]
    BY <1>1 DEF MfaIndInv, MfaTypeOK
<1>13. \A g \in Factor : factor'[g] = factor[g] \/ factorLock[g] = w \/ factor[g].status = "none"
    BY <1>2, <1>4
<1>14. session' \in [Session -> SessionRow]
    BY <1>1, SessionMarked
<1> QED
    BY <1>1, <1>4, <1>7, <1>8, <1>10, <1>11, <1>12, <1>13, <1>14, CommitStep

\* A recovery code is accepted when it goes from live to consumed.
LEMMA CommitRecoverOK ==
    ASSUME MfaIndInv, NEW w \in Caller, CommitRecover(w)
    PROVE  MfaIndInv'
<1> DEFINE p == tx[w].presented
<1>1. /\ tx[w].op = "recover" /\ tx[w].pc = "third"
      /\ code' = Codes(tx[w].spent, {})
      /\ MarkVerified(tx[w].by)
      /\ uses' = [uses EXCEPT ![p] = @ + 1]
      /\ tx' = [tx EXCEPT ![w] = Idle] /\ Unlock(w)
      /\ UNCHANGED <<factor, user, now, requests>>
    BY DEF CommitRecover, Doing, Accept, Done
<1>2. CallerOK(w)
    BY DEF MfaIndInv
<1>3. p \in Code /\ tx[w].spent = {p} /\ code[p] = "live"
    BY <1>1, <1>2 DEF CallerOK
<1> HIDE DEF p
<1>4. {} \in SUBSET Unissued
    OBVIOUS
<1>5. /\ code' \in [Code -> {"none", "live", "consumed"}]
      /\ \A c \in Code : code'[c] = code[c] \/ codeLock[c] = w \/ code[c] = "none"
      /\ \A c \in Code : code[c] = "consumed" => code'[c] = "consumed"
      /\ code'[p] = "consumed"
    <2>1. code' = Codes(tx[w].spent, {})
        BY <1>1
    <2>2. /\ code' \in [Code -> {"none", "live", "consumed"}]
          /\ \A c \in Code : code'[c] = code[c] \/ codeLock[c] = w \/ code[c] = "none"
          /\ \A c \in Code : code[c] = "consumed" => code'[c] = "consumed"
          /\ \A c \in tx[w].spent : c \in Code /\ code'[c] = "consumed"
        BY <1>4, <2>1, CodesFacts
    <2>3. p \in tx[w].spent
        BY <1>3
    <2> QED
        BY <2>2, <2>3
<1>6. uses \in [Totp \cup Code -> Nat] /\ UsesOK
    BY DEF MfaIndInv, MfaTypeOK
<1>7. uses[p] = 0
    BY <1>3, <1>6 DEF UsesOK
<1>8. /\ uses' \in [Totp \cup Code -> Nat]
      /\ \A q \in Totp \cup Code : uses'[q] = IF q = p THEN 1 ELSE uses[q]
    BY <1>1, <1>3, <1>6, <1>7
<1>9. UsesOK'
    <2>1. ASSUME NEW g \in Factor, NEW m \in TimeStep
          PROVE  /\ uses'[<<g, m>>] \in {0, 1}
                 /\ uses'[<<g, m>>] = 1 => factor'[g].used >= m /\ factor'[g].status # "none"
        <3>1. <<g, m>> \in Totp /\ <<g, m>> # p
            BY <1>3, KindsDiffer DEF Totp
        <3>2. uses'[<<g, m>>] = uses[<<g, m>>] /\ factor' = factor
            BY <1>1, <1>8, <3>1
        <3> QED
            BY <1>6, <3>2 DEF UsesOK
    <2>2. ASSUME NEW c \in Code
          PROVE  uses'[c] \in {0, 1} /\ (uses'[c] = 1 => code'[c] = "consumed")
        <3>1. uses[c] \in {0, 1} /\ (uses[c] = 1 => code[c] = "consumed")
            BY <1>6 DEF UsesOK
        <3> QED
            BY <1>5, <1>8, <3>1
    <2> QED
        BY <2>1, <2>2 DEF UsesOK
<1>10. /\ factor' \in [Factor -> FactorRow]
       /\ user' \in [enrolled : BOOLEAN, required : BOOLEAN]
       /\ \A f \in Factor : factor'[f] = factor[f]
       /\ \A f, g \in Live' : f = g
       /\ EnrolledHasFactor'
    BY <1>1 DEF MfaIndInv, MfaTypeOK, FactorsOK, EnrolledHasFactor, Live, InStatus
<1>11. session' \in [Session -> SessionRow]
    BY <1>1, SessionMarked
<1> QED
    BY <1>1, <1>5, <1>8, <1>9, <1>10, <1>11, CommitStep

\* What is used up stays used up when only codes change, and only from live or none.
LEMMA UsesKept ==
    ASSUME MfaIndInv, UNCHANGED uses,
           \A f \in Factor : factor[f].status # "none" =>
              factor'[f].status # "none" /\ factor'[f].used = factor[f].used,
           \A c \in Code : code[c] = "consumed" => code'[c] = "consumed"
    PROVE  UsesOK' /\ uses' \in [Totp \cup Code -> Nat]
BY DEF MfaIndInv, MfaTypeOK, UsesOK

LEMMA CommitRegenerateOK ==
    ASSUME MfaIndInv, NEW w \in Caller, CommitRegenerate(w)
    PROVE  MfaIndInv'
<1>1. PICK b \in Unissued : code' = Codes(tx[w].spent, {b})
    BY DEF CommitRegenerate
<1>2. /\ tx' = [tx EXCEPT ![w] = Idle] /\ Unlock(w)
      /\ UNCHANGED <<factor, user, session, uses, now, requests>>
    BY DEF CommitRegenerate, Done
<1>3. {b} \in SUBSET Unissued
    OBVIOUS
<1>4. /\ code' \in [Code -> {"none", "live", "consumed"}]
      /\ \A c \in Code : code'[c] = code[c] \/ codeLock[c] = w \/ code[c] = "none"
      /\ \A c \in Code : code[c] = "consumed" => code'[c] = "consumed"
    BY <1>1, <1>3, CodesFacts
<1>5. UsesOK' /\ uses' \in [Totp \cup Code -> Nat]
    BY <1>2, <1>4, UsesKept
<1>6. /\ factor' \in [Factor -> FactorRow]
      /\ user' \in [enrolled : BOOLEAN, required : BOOLEAN]
      /\ session' \in [Session -> SessionRow]
      /\ \A f \in Factor : factor'[f] = factor[f]
      /\ \A f, g \in Live' : f = g
      /\ EnrolledHasFactor'
    BY <1>2 DEF MfaIndInv, MfaTypeOK, FactorsOK, EnrolledHasFactor, Live, InStatus
<1> QED
    BY <1>2, <1>4, <1>5, <1>6, CommitStep

\* The factors and the mark of the enrolment go together.
LEMMA CommitDisableOK ==
    ASSUME MfaIndInv, NEW w \in Caller, CommitDisable(w)
    PROVE  MfaIndInv'
<1> DEFINE gone(g) == [factor[g] EXCEPT !.status = "DISABLED"]
<1>1. /\ factor' = [f \in Factor |-> IF f \in tx[w].retired THEN gone(f) ELSE factor[f]]
      /\ code' = Codes(tx[w].spent, {})
      /\ user' = [user EXCEPT !.enrolled = FALSE]
      /\ tx' = [tx EXCEPT ![w] = Idle] /\ Unlock(w)
      /\ UNCHANGED <<session, uses, now, requests>>
    BY DEF CommitDisable, SetEnrolled, Done
<1>2. /\ \A g \in Factor : /\ factor[g] \in FactorRow
                           /\ factor[g].status \in {"none", "PENDING", "ACTIVE", "DISABLED"}
      /\ CallerOK(w) /\ tx[w].retired \subseteq Factor
    BY RowFields, TransactionFields DEF MfaIndInv
<1>3. \A g \in tx[w].retired : factorLock[g] = w
    BY <1>2 DEF CallerOK
<1>4. \A g \in Factor : /\ gone(g) \in FactorRow
                        /\ gone(g).status = "DISABLED" /\ gone(g).used = factor[g].used
    BY <1>2 DEF FactorRow
<1> HIDE DEF gone
<1>5. /\ factor' \in [Factor -> FactorRow]
      /\ \A g \in Factor : factor'[g] = IF g \in tx[w].retired THEN gone(g) ELSE factor[g]
    BY <1>1, <1>2, <1>4
<1>6. {} \in SUBSET Unissued
    OBVIOUS
<1>7. /\ code' \in [Code -> {"none", "live", "consumed"}]
      /\ \A c \in Code : code'[c] = code[c] \/ codeLock[c] = w \/ code[c] = "none"
      /\ \A c \in Code : code[c] = "consumed" => code'[c] = "consumed"
    BY <1>1, <1>6, CodesFacts
<1>8. UsesOK' /\ uses' \in [Totp \cup Code -> Nat]
    <2>1. \A f \in Factor : factor[f].status # "none" =>
             factor'[f].status # "none" /\ factor'[f].used = factor[f].used
        BY <1>4, <1>5
    <2> QED
        BY <1>1, <1>7, <2>1, UsesKept
<1>9. \A f, g \in Live' : f = g
    <2>1. \A f \in Live' : f \in Live
        BY <1>4, <1>5 DEF Live, InStatus
    <2> QED
        BY <2>1 DEF MfaIndInv, FactorsOK
<1>10. user' \in [enrolled : BOOLEAN, required : BOOLEAN] /\ user'.enrolled = FALSE
    BY <1>1 DEF MfaIndInv, MfaTypeOK
<1>11. EnrolledHasFactor'
    BY <1>10 DEF EnrolledHasFactor
<1>12. \A f \in Factor : factor'[f] = factor[f] \/ factorLock[f] = w \/ factor[f].status = "none"
    BY <1>3, <1>5
<1>13. session' \in [Session -> SessionRow]
    BY <1>1 DEF MfaIndInv, MfaTypeOK
<1> QED
    BY <1>1, <1>5, <1>7, <1>8, <1>9, <1>10, <1>11, <1>12, <1>13, CommitStep

-----------------------------------------------------------------------------
(* What happens beside the requests.                                       *)

LEMMA BesideOK ==
    ASSUME MfaIndInv, UNCHANGED <<factor, code, locks, tx, uses, requests>>,
           user'.enrolled = user.enrolled,
           user' \in [enrolled : BOOLEAN, required : BOOLEAN],
           session' \in [Session -> SessionRow], now' \in TimeStep
    PROVE  MfaIndInv'
<1>1. UNCHANGED <<factor, code, factorLock, codeLock, userLock, tx, uses, requests>>
    BY DEF locks
<1>2. MfaTypeOK'
    BY <1>1 DEF MfaIndInv, MfaTypeOK
<1>3. FactorsOK' /\ UsesOK' /\ EnrolledHasFactor'
    BY <1>1 DEF MfaIndInv, FactorsOK, UsesOK, EnrolledHasFactor, Live, InStatus
<1>4. ASSUME NEW w \in Caller PROVE CallerOK(w)'
    BY <1>1 DEF MfaIndInv, CallerOK
<1> QED
    BY <1>2, <1>3, <1>4 DEF MfaIndInv

LEMMA SessionsOK ==
    ASSUME MfaIndInv, NEW s \in Session, Login(s) \/ Revoke(s) \/ StepUpLapses(s)
    PROVE  MfaIndInv'
<1> DEFINE new == [live |-> TRUE, pending |-> user.required \/ user.enrolled, fresh |-> FALSE]
           out == [session[s] EXCEPT !.live = FALSE]
           old == [session[s] EXCEPT !.fresh = FALSE]
<1>1. /\ session' \in {[session EXCEPT ![s] = new], [session EXCEPT ![s] = out],
                       [session EXCEPT ![s] = old]}
      /\ UNCHANGED <<factor, code, user, now, locks, tx, uses, requests>>
    BY DEF Login, Revoke, StepUpLapses
<1>2. session \in [Session -> SessionRow] /\ user \in [enrolled : BOOLEAN, required : BOOLEAN]
      /\ now \in TimeStep
    BY DEF MfaIndInv, MfaTypeOK
<1>3. session[s] \in SessionRow
    BY <1>2
<1>4. new \in SessionRow /\ out \in SessionRow /\ old \in SessionRow
    BY <1>2, <1>3 DEF SessionRow
<1> HIDE DEF new, out, old
<1>5. session' \in [Session -> SessionRow]
    BY <1>1, <1>2, <1>4
<1> QED
    BY <1>1, <1>2, <1>5, BesideOK

LEMMA MandateOK == ASSUME MfaIndInv, Mandate PROVE MfaIndInv'
<1>1. /\ user' = [user EXCEPT !.required = TRUE]
      /\ UNCHANGED <<factor, code, session, now, locks, tx, uses, requests>>
    BY DEF Mandate
<1>2. /\ user \in [enrolled : BOOLEAN, required : BOOLEAN]
      /\ session \in [Session -> SessionRow] /\ now \in TimeStep
    BY DEF MfaIndInv, MfaTypeOK
<1>3. user' \in [enrolled : BOOLEAN, required : BOOLEAN] /\ user'.enrolled = user.enrolled
    BY <1>1, <1>2
<1> QED
    BY <1>1, <1>2, <1>3, BesideOK

LEMMA TimePassesOK == ASSUME MfaIndInv, TimePasses PROVE MfaIndInv'
<1>1. now < LastStep /\ now' = now + 1 /\ UNCHANGED <<tables, locks, tx, uses, requests>>
    BY DEF TimePasses
<1>2. /\ user \in [enrolled : BOOLEAN, required : BOOLEAN]
      /\ session \in [Session -> SessionRow] /\ now \in TimeStep
    BY DEF MfaIndInv, MfaTypeOK
<1>3. now' \in TimeStep
    BY <1>1, <1>2, MfaAssumption DEF TimeStep
<1>4. UNCHANGED <<factor, code, user, session>>
    BY <1>1 DEF tables
<1> QED
    BY <1>1, <1>2, <1>3, <1>4, BesideOK

-----------------------------------------------------------------------------
LEMMA MfaInitOK == MfaInit => MfaIndInv
<1> SUFFICES ASSUME MfaInit PROVE MfaIndInv
    OBVIOUS
<1>1. PICK enrolled \in BOOLEAN, proved \in BOOLEAN, f0 \in Factor, b0 \in Batch :
          /\ factor = [f \in Factor |->
                IF enrolled /\ f = f0 THEN [status |-> "ACTIVE", used |-> 0]
                                      ELSE [status |-> "none", used |-> 0]]
          /\ code = [c \in Code |-> IF enrolled /\ c[1] = b0 THEN "live" ELSE "none"]
          /\ user = [enrolled |-> enrolled, required |-> FALSE]
          /\ session = [s \in Session |->
                [live |-> TRUE, pending |-> enrolled /\ ~proved,
                 fresh |-> enrolled /\ proved]]
    BY DEF MfaInit
<1>2. /\ now = 1 /\ requests = 0 /\ userLock = NoCaller
      /\ factorLock = [f \in Factor |-> NoCaller]
      /\ codeLock = [c \in Code |-> NoCaller]
      /\ tx = [w \in Caller |-> Idle]
      /\ uses = [p \in Totp \cup Code |-> 0]
    BY DEF MfaInit
<1>3. /\ \A f \in Factor : factor[f].status \in {"none", "ACTIVE"} /\ factor[f].used = 0
      /\ \A f \in Factor : factor[f].status = "ACTIVE" <=> enrolled /\ f = f0
      /\ factor \in [Factor -> FactorRow]
    BY <1>1, MfaAssumption DEF FactorRow
<1>4. /\ code \in [Code -> {"none", "live", "consumed"}]
      /\ user \in [enrolled : BOOLEAN, required : BOOLEAN] /\ user.enrolled = enrolled
    BY <1>1
<1>5. session \in [Session -> SessionRow]
    <2>1. [live |-> TRUE, pending |-> enrolled /\ ~proved, fresh |-> enrolled /\ proved]
             \in SessionRow
        BY DEF SessionRow
    <2> QED
        BY <1>1, <2>1
<1>6. /\ now \in TimeStep /\ requests \in 0..MaxRequests
      /\ userLock \in Caller \cup {NoCaller}
      /\ factorLock \in [Factor -> Caller \cup {NoCaller}]
      /\ codeLock \in [Code -> Caller \cup {NoCaller}]
      /\ uses \in [Totp \cup Code -> Nat]
    BY <1>2, MfaAssumption DEF TimeStep
<1>7. tx \in [Caller -> Transaction]
    BY <1>2, IdleFields, MfaAssumption
<1>8. MfaTypeOK
    BY <1>3, <1>4, <1>5, <1>6, <1>7 DEF MfaTypeOK
<1>9. FactorsOK /\ EnrolledHasFactor
    BY <1>2, <1>3, <1>4 DEF FactorsOK, EnrolledHasFactor, Live, InStatus
<1>10. \A w \in Caller : CallerOK(w)
    BY <1>2, IdleFields DEF CallerOK
<1>11. UsesOK
    BY <1>2 DEF UsesOK, Totp
<1> QED
    BY <1>8, <1>9, <1>10, <1>11 DEF MfaIndInv

\* Every step preserves the invariant.
LEMMA MfaNextOK == MfaIndInv /\ [MfaNext]_mfaVars => MfaIndInv'
<1> SUFFICES ASSUME MfaIndInv, [MfaNext]_mfaVars PROVE MfaIndInv'
    OBVIOUS
<1>1. ASSUME NEW w \in Caller, NEW op \in Operation, NEW s \in Session, NEW p \in Proof,
             Begin(w, op, s, p)
      PROVE  MfaIndInv'
    BY <1>1, BeginOK
<1>2. ASSUME NEW w \in Caller, Handler(w) PROVE MfaIndInv'
    <2>1. ASSUME NEW f \in Factor, InsertPending(w, f) PROVE MfaIndInv'
        BY <2>1, InsertPendingOK
    <2>2. CASE Wait(w) \/ CheckNoneActive(w) \/ DropPending(w) \/ JudgeCode(w)
        BY <2>2, WaitOK, CheckNoneActiveOK, DropPendingOK, JudgeCodeOK
    <2>3. CASE ConsumeCode(w) \/ RetireFactors(w) \/ ConsumeBatch(w)
        BY <2>3, ConsumeCodeOK, RetireFactorsOK, ConsumeBatchOK
    <2>4. CASE Commit(w)
        BY <2>4, CommitActivateOK, CommitVerifyOK, CommitRecoverOK, CommitRegenerateOK,
           CommitDisableOK DEF Commit
    <2> QED
        BY <1>2, <2>1, <2>2, <2>3, <2>4 DEF Handler
<1>3. ASSUME NEW s \in Session, Login(s) \/ Revoke(s) \/ StepUpLapses(s) PROVE MfaIndInv'
    BY <1>3, SessionsOK
<1>4. CASE Mandate \/ TimePasses
    BY <1>4, MandateOK, TimePassesOK
<1>5. CASE UNCHANGED mfaVars
    <2>1. UNCHANGED <<factor, code, user, session, now, locks, tx, uses, requests>>
        BY <1>5 DEF mfaVars, tables
    <2>2. /\ user \in [enrolled : BOOLEAN, required : BOOLEAN]
          /\ session \in [Session -> SessionRow] /\ now \in TimeStep
        BY DEF MfaIndInv, MfaTypeOK
    <2> QED
        BY <2>1, <2>2, BesideOK
<1> QED
    BY <1>1, <1>2, <1>3, <1>4, <1>5 DEF MfaNext

\* There is one live factor at most, what a request has locked stays as it read it, and
\* what was accepted cannot be accepted again.
THEOREM MfaInvariant == MfaSpec => []MfaIndInv
BY MfaInitOK, MfaNextOK, PTL DEF MfaSpec

\* A TOTP code or a recovery code opens one session at most.
THEOREM OneUsePerCode == MfaSpec => []CodesWorkOnce
<1>1. MfaIndInv => CodesWorkOnce
    <2> SUFFICES ASSUME MfaIndInv, NEW p \in Totp \cup Code PROVE uses[p] <= 1
        BY DEF CodesWorkOnce
    <2>1. CASE p \in Code
        BY <2>1 DEF MfaIndInv, UsesOK
    <2>2. CASE p \in Totp
        <3>1. p[1] \in Factor /\ p[2] \in TimeStep /\ p = <<p[1], p[2]>>
            BY <2>2 DEF Totp
        <3>2. uses[<<p[1], p[2]>>] \in {0, 1}
            BY <3>1 DEF MfaIndInv, UsesOK
        <3>3. uses[p] \in {0, 1}
            BY <3>1, <3>2
        <3> QED
            BY <3>3
    <2> QED
        BY <2>1, <2>2
<1> QED
    BY <1>1, MfaInvariant, PTL

\* An account marked as enrolled is never without an active factor.
THEOREM NobodyLockedOut == MfaSpec => []EnrolledHasFactor
<1>1. MfaIndInv => EnrolledHasFactor
    BY DEF MfaIndInv
<1> QED
    BY <1>1, MfaInvariant, PTL

\* An active factor goes by a disablement that was stepped up and found no mandate, and
\* by nothing else.
THEOREM OnlyDisablementRemoves == MfaSpec => ActiveFactorIsNotReplaced
<1> DEFINE Disabling == \E w \in Caller : /\ Doing(w, {"disable"}, "third")
                                          /\ tx[w].steppedUp /\ ~tx[w].mandated
           Kept == \A f \in InStatus({"ACTIVE"}) : factor'[f].status # "ACTIVE" => Disabling
<1>1. MfaIndInv /\ [MfaNext]_mfaVars => Kept
    <2> SUFFICES ASSUME MfaIndInv, [MfaNext]_mfaVars,
                        NEW f \in Factor, factor[f].status = "ACTIVE", factor'[f].status # "ACTIVE"
                 PROVE  Disabling
        BY DEF InStatus
    <2>1. factor' # factor
        OBVIOUS
    <2>2. ~UNCHANGED mfaVars
        BY <2>1 DEF mfaVars, tables
    <2>3. ASSUME NEW w \in Caller, Handler(w) PROVE Disabling
        <3>1. ~(Refuse(w) \/ Wait(w) \/ CheckNoneActive(w) \/ DropPending(w) \/ JudgeCode(w))
            BY <2>1 DEF Refuse, Wait, CheckNoneActive, DropPending, JudgeCode, Retire, tables
        <3>2. ~(ConsumeCode(w) \/ RetireFactors(w) \/ ConsumeBatch(w))
            BY <2>1, <3>1 DEF ConsumeCode, RetireFactors, ConsumeBatch, Spend, Retire, tables
        <3>3. ~(CommitRecover(w) \/ CommitRegenerate(w))
            BY <2>1 DEF CommitRecover, CommitRegenerate
        <3>4. ASSUME NEW g \in Factor, InsertPending(w, g) PROVE FALSE
            <4>1. /\ tx[w].op = "setup" /\ factor[g].status = "none"
                  /\ factor' = [h \in Factor |->
                        IF h = g THEN [status |-> "PENDING", used |-> 0]
                        ELSE IF h \in tx[w].retired
                          THEN [factor[h] EXCEPT !.status = "DISABLED"] ELSE factor[h]]
                BY <3>1, <3>4, Zenon DEF InsertPending, Doing
            <4>2. \A h \in tx[w].retired : factor[h].status = "PENDING"
                BY <4>1 DEF MfaIndInv, CallerOK
            <4>3. f # g /\ f \notin tx[w].retired
                BY <4>1, <4>2
            <4> QED
                BY <4>1, <4>3
        <3>5. ASSUME CommitActivate(w) PROVE FALSE
            <4>1. /\ tx[w].op = "activate" /\ tx[w].pc # "first"
                  /\ factor' = [factor EXCEPT ![tx[w].presented[1]] =
                                   [status |-> "ACTIVE", used |-> tx[w].presented[2]]]
                BY <3>5 DEF CommitActivate, Doing
            <4>2. factor[tx[w].presented[1]].status = "PENDING"
                BY <4>1, Judged
            <4>3. tx[w].presented[1] # f
                BY <4>2
            <4>4. factor'[f] = factor[f]
                BY <4>1, <4>3 DEF MfaIndInv, MfaTypeOK
            <4> QED
                BY <4>4
        <3>6. ASSUME CommitVerify(w) PROVE FALSE
            <4> DEFINE g == tx[w].presented[1]
                       entry == [factor[g] EXCEPT !.used = Raise(@, tx[w].presented[2])]
            <4>1. factor' = [factor EXCEPT ![g] = entry]
                BY <3>6 DEF CommitVerify
            <4>2. factor[f] \in FactorRow /\ (f = g => entry.status = factor[f].status)
                BY RowFields DEF MfaIndInv, FactorRow
            <4> HIDE DEF entry, g
            <4>3. factor'[f].status = factor[f].status
                BY <4>1, <4>2 DEF MfaIndInv, MfaTypeOK
            <4> QED
                BY <4>3
        <3>7. ASSUME CommitDisable(w) PROVE Disabling
            <4>1. Doing(w, {"disable"}, "third") /\ tx[w].op = "disable"
                BY <3>7 DEF CommitDisable, Doing
            <4>2. tx[w].steppedUp /\ ~tx[w].mandated
                BY <4>1 DEF MfaIndInv, CallerOK
            <4> QED
                BY <4>1, <4>2
        <3> QED
            BY <2>3, <3>1, <3>2, <3>3, <3>4, <3>5, <3>6, <3>7 DEF Handler, Commit
    <2>4. ASSUME NEW w \in Caller, NEW op \in Operation, NEW s \in Session, NEW p \in Proof,
                 Begin(w, op, s, p)
          PROVE  Disabling
        BY <2>1, <2>4 DEF Begin, tables
    <2>5. ASSUME NEW s \in Session, Login(s) \/ Revoke(s) \/ StepUpLapses(s) PROVE Disabling
        BY <2>1, <2>5 DEF Login, Revoke, StepUpLapses
    <2>6. ASSUME Mandate \/ TimePasses PROVE Disabling
        BY <2>1, <2>6 DEF Mandate, TimePasses, tables
    <2> QED
        BY <2>2, <2>3, <2>4, <2>5, <2>6 DEF MfaNext
<1> HIDE DEF Disabling
<1>2. MfaIndInv /\ [MfaNext]_mfaVars => [Kept]_mfaVars
    BY <1>1
<1>3. MfaSpec => [][Kept]_mfaVars
    BY <1>2, MfaInvariant, PTL DEF MfaSpec
<1> QED
    BY <1>3 DEF ActiveFactorIsNotReplaced, Disabling

=============================================================================
