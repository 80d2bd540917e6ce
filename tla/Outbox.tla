-------------------------------- MODULE Outbox --------------------------------
(***************************************************************************)
(* The transactional outbox and the workers that deliver its mail, one per *)
(* replica (src/backend/src/modules/outbox/mod.rs; the table is in         *)
(* migrations/0006_platform.sql).                                          *)
(*                                                                         *)
(* Every statement of a worker is a transaction of its own, so each is one *)
(* step; between two of them the worker may crash, or its statement fail.  *)
(* Time is what the claims depend on: it is kept as the time that REMAINS  *)
(* until a row is due, until its lease lapses and until the provider's     *)
(* timeout, so that it needs no bound.  Statements take no time, deliveries *)
(* up to SendTime.  Nothing relates the lease to the batch it is taken for: *)
(* it may lapse under a worker that is still at work (an overrun).         *)
(*                                                                         *)
(* Abstracted: payloads and the mails made of them (build_mail refuses an  *)
(* unknown or malformed one for good, which is a "permanent" answer here), *)
(* the growth and jitter of the retry delay, the order in which due rows   *)
(* are taken, last_error, claimed_by, metrics.                             *)
(***************************************************************************)
EXTENDS Naturals, FiniteSets

CONSTANTS
    Worker, Msg, NoMsg,
    BatchSize,      \* RB_OUTBOX_BATCH_SIZE
    MaxAttempts,    \* outbox_events.max_attempts
    LeaseTime,      \* CLAIM_LEASE_SECONDS
    SendTime,       \* the longest delivery: the provider's timeout
    RetryDelay,     \* next_delay_seconds
    MaxFaults,      \* bound on crashes, failed statements and lost answers
    MaxShutdowns    \* bound on clean shutdowns

ASSUME OutboxAssumption ==
    /\ NoMsg \notin Msg
    /\ IsFiniteSet(Msg)
    /\ IsFiniteSet(Worker)
    /\ BatchSize \in Nat \ {0}
    /\ MaxAttempts \in Nat \ {0}
    /\ LeaseTime \in Nat \ {0}
    /\ SendTime \in Nat
    /\ RetryDelay \in Nat
    /\ MaxFaults \in Nat
    /\ MaxShutdowns \in Nat

VARIABLES
    row,        \* outbox_events
    worker,     \* what each worker is doing
    accepted,   \* how often the provider has accepted each message
    faults,     \* history: the faults so far
    shutdowns,  \* history: the clean shutdowns so far
    overruns    \* history: how often each message's lease lapsed under a worker

vars == <<row, worker, accepted, faults, shutdowns, overruns>>

Terminal == {"SENT", "DEAD"}

Row ==
    [status   : {"none", "PENDING", "FAILED"} \cup Terminal,
     attempts : Nat,
     due      : Nat,      \* time until next_attempt_at
     lease    : Nat]      \* time until claimed_at lapses; 0 when it is NULL

WorkerState ==
    [pc       : {"down", "idle", "next", "send", "mark"},
     batch    : SUBSET Msg,           \* the rows it claimed and has not marked
     cur      : Msg \cup {NoMsg},     \* the one it is delivering
     left     : Nat,                  \* time until the provider's timeout
     answer   : {"none", "ok", "transient", "permanent"},
     stopping : BOOLEAN]

TypeOK ==
    /\ row \in [Msg -> Row]
    /\ worker \in [Worker -> WorkerState]
    /\ accepted \in [Msg -> Nat]
    /\ faults \in 0..MaxFaults
    /\ shutdowns \in 0..MaxShutdowns
    /\ overruns \in [Msg -> Nat]

NoRow   == [status |-> "none", attempts |-> 0, due |-> 0, lease |-> 0]
Stopped == [pc |-> "down", batch |-> {}, cur |-> NoMsg, left |-> 0,
            answer |-> "none", stopping |-> FALSE]
Waiting == [Stopped EXCEPT !.pc = "idle"]

Init ==
    /\ row = [m \in Msg |-> NoRow]
    /\ worker = [w \in Worker |-> Waiting]
    /\ accepted = [m \in Msg |-> 0]
    /\ faults = 0
    /\ shutdowns = 0
    /\ overruns = [m \in Msg |-> 0]

Fault == faults < MaxFaults /\ faults' = faults + 1

-----------------------------------------------------------------------------
\* enqueue, at the commit of the caller's transaction.
Enqueue(m) ==
    /\ row[m].status = "none"
    /\ row' = [row EXCEPT ![m].status = "PENDING"]
    /\ UNCHANGED <<worker, accepted, faults, shutdowns, overruns>>

\* Slip: only simultaneous claims exclude one another.
ClaimableUnleased ==
    {m \in Msg : row[m].status \in {"PENDING", "FAILED"} /\ row[m].due = 0}

\* The rows the claim's inner SELECT may take; a lease is over when it was
\* released or has lapsed.
Claimable ==
    {m \in Msg : /\ row[m].status \in {"PENDING", "FAILED"}
                 /\ row[m].due = 0
                 /\ row[m].lease = 0}

\* claim: as many of them as the batch holds.
Claim(w) ==
    /\ worker[w].pc = "idle"
    /\ ~worker[w].stopping
    /\ \E B \in SUBSET Claimable :
         /\ B # {}
         /\ \/ Cardinality(B) = BatchSize
            \/ Cardinality(B) < BatchSize /\ B = Claimable
         /\ row' = [m \in Msg |->
                      IF m \in B THEN [row[m] EXCEPT !.status = "PENDING",
                                                     !.lease = LeaseTime]
                                 ELSE row[m]]
         /\ worker' = [worker EXCEPT ![w].pc = "next", ![w].batch = B]
    /\ UNCHANGED <<accepted, faults, shutdowns, overruns>>

\* attempt: the next message of the batch is handed to the provider.
Attempt(w) ==
    /\ worker[w].pc = "next"
    /\ ~worker[w].stopping
    /\ \E m \in worker[w].batch :
         worker' = [worker EXCEPT ![w].pc = "send", ![w].cur = m,
                                  ![w].left = SendTime]
    /\ UNCHANGED <<row, accepted, faults, shutdowns, overruns>>

\* The provider accepts, rejects the recipient, or fails in a way a retry may
\* cure.  A failure after the message was accepted (its answer was lost) looks
\* the same to the worker: it counts as a fault.
Answer(w, answer) ==
    /\ worker[w].pc = "send"
    /\ worker' = [worker EXCEPT ![w].pc = "mark", ![w].answer = answer]
    /\ \/ /\ answer = "ok"
          /\ accepted' = [accepted EXCEPT ![worker[w].cur] = @ + 1]
          /\ UNCHANGED faults
       \/ /\ answer \in {"transient", "permanent"}
          /\ UNCHANGED <<accepted, faults>>
       \/ /\ answer = "transient"
          /\ accepted' = [accepted EXCEPT ![worker[w].cur] = @ + 1]
          /\ Fault
    /\ UNCHANGED <<row, shutdowns, overruns>>

-----------------------------------------------------------------------------
(* mark_sent and mark_failed: by id alone, whatever the row says by now.   *)

\* Slip: the status is forgotten.
SentRowStillPending(r) == r

SentRow(r) == [r EXCEPT !.status = "SENT"]

DeadRow(r) == [r EXCEPT !.status = "DEAD", !.attempts = @ + 1, !.lease = 0]

\* Slip: the attempt being recorded is not counted.
FailedRowOneMore(r) ==
    IF r.attempts >= MaxAttempts THEN DeadRow(r)
    ELSE [r EXCEPT !.status = "FAILED", !.attempts = @ + 1,
                   !.due = RetryDelay, !.lease = 0]

FailedRow(r) ==
    IF r.attempts + 1 >= MaxAttempts THEN DeadRow(r)
    ELSE [r EXCEPT !.status = "FAILED", !.attempts = @ + 1,
                   !.due = RetryDelay, !.lease = 0]

Marked(r, answer) ==
    CASE answer = "ok"        -> SentRow(r)
      [] answer = "permanent" -> DeadRow(r)
      [] answer = "transient" -> FailedRow(r)

\* The batch is over when its last row is marked: the loop polls again.
AfterMark(w) ==
    LET rest == worker[w].batch \ {worker[w].cur}
    IN  [worker[w] EXCEPT !.pc = IF rest = {} THEN "idle" ELSE "next",
                          !.batch = rest, !.cur = NoMsg, !.left = 0,
                          !.answer = "none"]

Mark(w) ==
    /\ worker[w].pc = "mark"
    /\ row' = [row EXCEPT ![worker[w].cur] = Marked(@, worker[w].answer)]
    /\ worker' = [worker EXCEPT ![w] = AfterMark(w)]
    /\ UNCHANGED <<accepted, faults, shutdowns, overruns>>

\* A mark that fails gives up the whole batch: nothing is released, the rows
\* wait for their leases to lapse.
MarkError(w) ==
    /\ worker[w].pc = "mark"
    /\ Fault
    /\ worker' = [worker EXCEPT ![w] = [Waiting EXCEPT
                                          !.stopping = worker[w].stopping]]
    /\ UNCHANGED <<row, accepted, shutdowns, overruns>>

-----------------------------------------------------------------------------
(* Shutdown, crash, restart.                                               *)

\* The token is cancelled: noticed between two rows, never within one.
Shutdown(w) ==
    /\ worker[w].pc # "down" /\ ~worker[w].stopping
    /\ shutdowns < MaxShutdowns
    /\ shutdowns' = shutdowns + 1
    /\ worker' = [worker EXCEPT ![w].stopping = TRUE]
    /\ UNCHANGED <<row, accepted, faults, overruns>>

\* release, then the loop ends.
Release(w) ==
    /\ worker[w].pc = "next" /\ worker[w].stopping
    /\ row' = [m \in Msg |->
                 IF m \in worker[w].batch /\ row[m].status = "PENDING"
                 THEN [row[m] EXCEPT !.lease = 0] ELSE row[m]]
    /\ worker' = [worker EXCEPT ![w] = Stopped]
    /\ UNCHANGED <<accepted, faults, shutdowns, overruns>>

Stop(w) ==
    /\ worker[w].pc = "idle" /\ worker[w].stopping
    /\ worker' = [worker EXCEPT ![w] = Stopped]
    /\ UNCHANGED <<row, accepted, faults, shutdowns, overruns>>

\* Killed, or not done within the grace period of the shutdown.
Crash(w) ==
    /\ worker[w].pc # "down"
    /\ Fault
    /\ worker' = [worker EXCEPT ![w] = Stopped]
    /\ UNCHANGED <<row, accepted, shutdowns, overruns>>

Restart(w) ==
    /\ worker[w].pc = "down"
    /\ worker' = [worker EXCEPT ![w] = Waiting]
    /\ UNCHANGED <<row, accepted, faults, shutdowns, overruns>>

-----------------------------------------------------------------------------
(* Time passes while every worker waits: for a row, or for the provider.   *)

Less(n) == IF n = 0 THEN 0 ELSE n - 1

\* Slip: a claim is only ever given back.
AgedForgetsLease(r) == [r EXCEPT !.due = Less(@)]

\* A row that is settled does not age: nothing reads its times any more.
Aged(r) == IF r.status \in Terminal THEN r
           ELSE [r EXCEPT !.due = Less(@), !.lease = Less(@)]

\* The lease of m is about to lapse under a worker that is not done with it.
Overrun(m) ==
    /\ row[m].status \notin Terminal /\ row[m].lease = 1
    /\ \E w \in Worker : m \in worker[w].batch

Tick ==
    /\ \A w \in Worker : \/ worker[w].pc \in {"down", "idle"}
                         \/ worker[w].pc = "send" /\ worker[w].left > 0
    /\ row' = [m \in Msg |-> Aged(row[m])]
    /\ worker' = [w \in Worker |-> [worker[w] EXCEPT !.left = Less(@)]]
    /\ overruns' = [m \in Msg |-> IF Overrun(m) THEN overruns[m] + 1
                                              ELSE overruns[m]]
    /\ UNCHANGED <<accepted, faults, shutdowns>>

Work(w) ==
    \/ Claim(w) \/ Attempt(w)
    \/ \E answer \in {"ok", "transient", "permanent"} : Answer(w, answer)
    \/ Mark(w) \/ Release(w) \/ Stop(w) \/ Restart(w)

Next ==
    \/ \E m \in Msg : Enqueue(m)
    \/ \E w \in Worker : Work(w) \/ MarkError(w) \/ Shutdown(w) \/ Crash(w)
    \/ Tick

Spec == Init /\ [][Next]_vars

\* The loop of run polls for ever, logs its errors and tries again; a replica
\* is restarted; a delivery ends at the provider's timeout; time passes.
FairSpec ==
    /\ Spec
    /\ \A w \in Worker : WF_vars(Work(w))
    /\ WF_vars(Tick)

-----------------------------------------------------------------------------
(* Properties.                                                             *)

\* A claim is exclusive: no two workers have the same row in hand, whatever
\* crashed, stopped or timed out before (what the comment in mark_failed says);
\* it is, where the lease exceeds the deliveries of a batch.
ClaimsAreExclusive ==
    \A v, w \in Worker : v # w => worker[v].batch \cap worker[w].batch = {}

\* Two workers have a row in hand only after its lease lapsed under a worker
\* that was still at its batch: a crash, a shutdown, a failed mark or a retry
\* never is enough (claim, release, mark_failed).
SharedOnlyAfterOverrun ==
    \A v, w \in Worker : v # w =>
        \A m \in worker[v].batch \cap worker[w].batch : overruns[m] > 0

\* A recipient gets a mail again only for a reason, and each reason once: a
\* crash, a failed mark, a lost answer, or a lease that lapsed under a worker
\* (the at-least-once trade-off of the module's doc).  A clean shutdown, which
\* releases the rows it had not attempted, is none.
DuplicatesNeedACause ==
    \A m \in Msg : accepted[m] <= 1 + faults + overruns[m]

\* No mail is lost or left behind: one that was committed is sent or
\* dead-lettered, even if every worker that claimed it died (claim's lease) or
\* two workers overwrite each other's marks.
Settles ==
    \A m \in Msg : row[m].status = "PENDING" ~> row[m].status \in Terminal

AbstractState(m) ==
    CASE row[m].status \in {"PENDING", "FAILED"} -> "queued"
      [] row[m].status = "none" -> "none"
      [] row[m].status = "SENT" -> "sent"
      [] row[m].status = "DEAD" -> "dead"

Box == INSTANCE Mailbox WITH
    Budget  <- MaxAttempts,
    state   <- [m \in Msg |-> AbstractState(m)],
    reached <- {m \in Msg : accepted[m] > 0},
    tries   <- [m \in Msg |-> row[m].attempts],
    late    <- {m \in Msg : overruns[m] > 0}

\* The workers implement at-least-once delivery: outcomes are final and the
\* budget is kept, up to the first time a claim is outlived.
ImplementsMailbox == Box!Spec

(***************************************************************************)
(* Why a claim is exclusive until it is outlived, and what it takes to     *)
(* outlive it: a batch whose deliveries need as long as the lease.         *)
(***************************************************************************)

\* How long w may still be at its batch.
Need(w) ==
    LET n == Cardinality(worker[w].batch)
    IN  CASE worker[w].pc = "next" -> n * SendTime
          [] worker[w].pc = "send" -> (n - 1) * SendTime + worker[w].left
          [] worker[w].pc = "mark" -> (n - 1) * SendTime
          [] OTHER -> 0

\* The claim of w on m as it took it: nobody else has written the row.
Covered(w, m) ==
    /\ row[m].status = "PENDING"
    /\ row[m].lease > 0
    /\ Need(w) + LeaseTime <= row[m].lease + BatchSize * SendTime

ClaimOK(w) ==
    /\ worker[w].pc \in {"down", "idle"} => worker[w].batch = {}
    /\ worker[w].pc \in {"send", "mark"} => worker[w].cur \in worker[w].batch
    /\ worker[w].pc = "mark" =>
          /\ worker[w].answer # "none"
          /\ worker[w].answer = "ok" => accepted[worker[w].cur] > 0
    /\ \A m \in worker[w].batch :
          /\ row[m].status # "none"
          /\ overruns[m] = 0 => Covered(w, m)

\* Inductive for every lease, batch and timeout.
IndInv ==
    /\ TypeOK
    /\ \A w \in Worker : ClaimOK(w)
    /\ SharedOnlyAfterOverrun
    /\ \A m \in Msg : overruns[m] > 0 => LeaseTime <= BatchSize * SendTime
=============================================================================
