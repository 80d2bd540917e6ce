------------------------------ MODULE Idempotency ------------------------------
(***************************************************************************)
(* The requests that carry ONE Idempotency-Key of one principal for one    *)
(* operation: the reservation of the key, the creation it guards, the      *)
(* replay of its response, the release after a failure and the retention   *)
(* sweep (src/backend/src/platform/http/idempotency.rs: create;            *)
(* src/backend/src/modules/outbox/idempotency.rs: begin, complete,         *)
(* abandon, sweep_expired; the unique index on principal, operation and    *)
(* key in migrations/0006_platform.sql).                                   *)
(*                                                                         *)
(* Each statement runs on the pool as a transaction of its own, the        *)
(* handler's work is one more, and between any two of them the request may *)
(* be dropped: by the 30 s request timeout, by the client going away, by a *)
(* crash.  What was committed stays; what remained to be done is not done. *)
(*                                                                         *)
(* Abstracted: the key's syntax, the response (named by the request whose  *)
(* work it describes), its size limit, the length of the waits.            *)
(*                                                                         *)
(* The names of the specification carry the word Key, so that one module   *)
(* can extend this one and Outbox.                                         *)
(***************************************************************************)
EXTENDS Naturals

CONSTANTS
    Request,        \* the requests with this key, retries included
    NoRequest,
    Body,           \* request bodies (their fingerprints)
    BodyOf,         \* the body each request carries
    MaxFailures,    \* bound on the commits, completes and abandons that fail
    MaxSweeps       \* bound on the times the key expires

ASSUME IdempotencyAssumption ==
    /\ NoRequest \notin Request
    /\ BodyOf \in [Request -> Body]
    /\ MaxFailures \in Nat
    /\ MaxSweeps \in Nat

VARIABLES
    record,     \* the row of idempotency_records with this key
    req,        \* what each request is doing
    made,       \* the requests whose work has committed
    epoch,      \* history: those of them since the key was last swept
    lost,       \* history: those of them whose COMMIT was not answered
    sweeps,
    failures

keyVars == <<record, req, made, epoch, lost, sweeps, failures>>

NoRecord == [id |-> NoRequest, status |-> "none"]

Pc == {"new", "insert", "select", "work", "complete", "abandon", "done"}

\* What the client has been told, if anything: 201 with the response of a
\* request, an error of the handler, a 500 after the work, 409s.
Replies ==
    [kind : {"none", "created", "error", "internal", "keyReused", "race"},
     of   : Request \cup {NoRequest}]

KeyTypeOK ==
    /\ record \in [id : Request, status : {"IN_PROGRESS", "COMPLETED"}] \cup {NoRecord}
    /\ req \in [Request -> [pc : Pc, pass : 1..2, answer : Replies]]
    /\ made \subseteq Request
    /\ epoch \subseteq made
    /\ lost \subseteq made
    /\ sweeps \in 0..MaxSweeps
    /\ failures \in 0..MaxFailures

Silence == [kind |-> "none", of |-> NoRequest]

KeyInit ==
    /\ record = NoRecord
    /\ req = [r \in Request |-> [pc |-> "new", pass |-> 1, answer |-> Silence]]
    /\ made = {}
    /\ epoch = {}
    /\ lost = {}
    /\ sweeps = 0
    /\ failures = 0

At(r, pc) == req[r].pc = pc

Goto(r, pc) == req' = [req EXCEPT ![r].pc = pc]

\* The request is answered.
Reply(r, kind, of) ==
    req' = [req EXCEPT ![r].pc = "done",
                       ![r].answer = [kind |-> kind, of |-> of]]

-----------------------------------------------------------------------------
(* begin.                                                                  *)

Arrive(r) ==
    /\ At(r, "new")
    /\ Goto(r, "insert")
    /\ UNCHANGED <<record, made, epoch, lost, sweeps, failures>>

\* Slip: a record in progress is taken over instead of being waited for.
InsertTakesOver(r) ==
    /\ At(r, "insert")
    /\ \/ /\ record = NoRecord \/ record.status = "IN_PROGRESS"
          /\ record' = [id |-> r, status |-> "IN_PROGRESS"]
          /\ Goto(r, "work")
       \/ /\ record # NoRecord
          /\ Goto(r, "select")
          /\ UNCHANGED record
    /\ UNCHANGED <<made, epoch, lost, sweeps, failures>>

\* INSERT ... ON CONFLICT DO NOTHING: the unique index lets one request in.
Insert(r) ==
    /\ At(r, "insert")
    /\ \/ /\ record = NoRecord
          /\ record' = [id |-> r, status |-> "IN_PROGRESS"]
          /\ Goto(r, "work")
       \/ /\ record # NoRecord
          /\ Goto(r, "select")
          /\ UNCHANGED record
    /\ UNCHANGED <<made, epoch, lost, sweeps, failures>>

\* Slip: the fingerprint is not compared.
SameBodyUnchecked(r, q) == TRUE

SameBody(r, q) == BodyOf[r] = BodyOf[q]

\* Slip: the statements are tried for as long as the record keeps going.
TriesForEver(r) == TRUE

\* The two statements of begin are tried twice.
MayTryAgain(r) == req[r].pass < 2

\* The SELECT after a lost INSERT.  The record may have gone in between, and
\* the key is then free again.  A request that meets one in progress polls,
\* with a fresh begin each time, until its deadline.
Select(r) ==
    /\ At(r, "select")
    /\ \/ /\ record = NoRecord
          /\ IF MayTryAgain(r)
             THEN req' = [req EXCEPT ![r].pc = "insert", ![r].pass = @ + 1]
             ELSE Reply(r, "race", NoRequest)
       \/ /\ record # NoRecord
          /\ ~SameBody(r, record.id)
          /\ Reply(r, "keyReused", NoRequest)
       \/ /\ record # NoRecord
          /\ SameBody(r, record.id)
          /\ record.status = "COMPLETED"
          /\ Reply(r, "created", record.id)
       \/ /\ record # NoRecord
          /\ SameBody(r, record.id)
          /\ record.status = "IN_PROGRESS"
          /\ \/ req' = [req EXCEPT ![r].pc = "insert", ![r].pass = 1]
             \/ Reply(r, "race", NoRequest)
    /\ UNCHANGED <<record, made, epoch, lost, sweeps, failures>>

-----------------------------------------------------------------------------
(* The work, and what becomes of the key.                                  *)

\* The handler's transaction commits, or the handler fails without a trace; or
\* it commits and the answer to the COMMIT is lost, which looks like a failure.
DoWork(r) ==
    /\ At(r, "work")
    /\ \/ /\ made' = made \cup {r}
          /\ epoch' = epoch \cup {r}
          /\ Goto(r, "complete")
          /\ UNCHANGED <<lost, failures>>
       \/ /\ Goto(r, "abandon")
          /\ UNCHANGED <<made, epoch, lost, failures>>
       \/ /\ failures < MaxFailures
          /\ failures' = failures + 1
          /\ made' = made \cup {r}
          /\ epoch' = epoch \cup {r}
          /\ lost' = lost \cup {r}
          /\ Goto(r, "abandon")
    /\ UNCHANGED <<record, sweeps>>

\* Slip: the key is released after a success, too.
CompleteDeletes(r) ==
    /\ At(r, "complete")
    /\ record' = IF record.id = r THEN NoRecord ELSE record
    /\ Reply(r, "created", r)
    /\ UNCHANGED <<made, epoch, lost, sweeps, failures>>

\* complete: a record that has gone is only a warning.
Complete(r) ==
    /\ At(r, "complete")
    /\ record' = IF record = [id |-> r, status |-> "IN_PROGRESS"]
                 THEN [record EXCEPT !.status = "COMPLETED"] ELSE record
    /\ Reply(r, "created", r)
    /\ UNCHANGED <<made, epoch, lost, sweeps, failures>>

\* The UPDATE fails: create propagates it, and the record stays in progress.
CompleteFails(r) ==
    /\ At(r, "complete")
    /\ failures < MaxFailures
    /\ failures' = failures + 1
    /\ Reply(r, "internal", NoRequest)
    /\ UNCHANGED <<record, made, epoch, lost, sweeps>>

\* abandon deletes the reservation, or fails with no more than a warning.
Abandon(r) ==
    /\ At(r, "abandon")
    /\ \/ /\ record' = IF record = [id |-> r, status |-> "IN_PROGRESS"]
                       THEN NoRecord ELSE record
          /\ UNCHANGED failures
       \/ /\ failures < MaxFailures
          /\ failures' = failures + 1
          /\ UNCHANGED record
    /\ Reply(r, "error", NoRequest)
    /\ UNCHANGED <<made, epoch, lost, sweeps>>

\* The request is dropped wherever it is, without an answer.
Drop(r) ==
    /\ req[r].pc \notin {"new", "done"}
    /\ Goto(r, "done")
    /\ UNCHANGED <<record, made, epoch, lost, sweeps, failures>>

\* Slip: only completed records are swept.
SweepCompletedOnly ==
    /\ record # NoRecord /\ record.status = "COMPLETED"
    /\ req[record.id].pc = "done"
    /\ sweeps < MaxSweeps
    /\ sweeps' = sweeps + 1
    /\ record' = NoRecord
    /\ epoch' = {}
    /\ UNCHANGED <<req, made, lost, failures>>

\* sweep_expired, a day later, whatever the record's status: the request that
\* reserved the key has ended (a request lives 30 s), others may be waiting.
Sweep ==
    /\ record # NoRecord
    /\ req[record.id].pc = "done"
    /\ sweeps < MaxSweeps
    /\ sweeps' = sweeps + 1
    /\ record' = NoRecord
    /\ epoch' = {}
    /\ UNCHANGED <<req, made, lost, failures>>

Step(r) == Insert(r) \/ Select(r) \/ DoWork(r) \/ Complete(r) \/ Abandon(r)

KeyNext ==
    \/ \E r \in Request : Arrive(r) \/ Step(r) \/ CompleteFails(r) \/ Drop(r)
    \/ Sweep

KeySpec == KeyInit /\ [][KeyNext]_keyVars

\* A request is driven until it ends; the worker's loop keeps sweeping.
KeyFairSpec ==
    /\ KeySpec
    /\ \A r \in Request : WF_keyVars(Step(r) \/ Drop(r))
    /\ WF_keyVars(Sweep)

-----------------------------------------------------------------------------
(* Properties.                                                             *)

\* However many requests carry the key, at once or one after the other, and
\* whichever are dropped, its work is done at most once before the key
\* expires, save for a commit whose answer was lost (begin's unique index;
\* abandon only after the work failed).
AtMostOnce == \A r, q \in epoch \ lost : r = q

\* A client is told "created" only about work that was committed for its own
\* body: a replay is never the response of a failed request nor of another
\* body (begin's fingerprint test, complete after the commit).
ReplaysTheOriginal ==
    \A r \in Request :
        req[r].answer.kind = "created" =>
            /\ req[r].answer.of \in made
            /\ BodyOf[r] = BodyOf[req[r].answer.of]

\* Two clients told "created" were told about the same thing, unless the key
\* expired in between.
SameAnswer ==
    sweeps = 0 =>
        \A r, q \in Request :
            req[r].answer.kind = "created" /\ req[q].answer.kind = "created" =>
                req[r].answer.of = req[q].answer.of

\* A reservation does not outlive its request for ever: it is completed,
\* released or swept (abandon, sweep_expired).
NotReservedForEver ==
    (record # NoRecord /\ record.status = "IN_PROGRESS" /\ sweeps < MaxSweeps) ~>
        (record = NoRecord \/ record.status = "COMPLETED")

\* A failure to complete the key does not turn work that was done into a 500
\* (http/idempotency.rs: "deliberately not propagated").
NoFailureAfterTheWork ==
    \A r \in Request : req[r].answer.kind = "internal" => r \notin made

(***************************************************************************)
(* Why they hold: the invariant that the steps preserve.                   *)
(***************************************************************************)

\* Where a request is, and what it has done by then.
RequestOK(r) ==
    /\ req[r].pc \in {"work", "complete", "abandon"} =>
          record = [id |-> r, status |-> "IN_PROGRESS"]
    /\ req[r].pc = "complete" => r \in made
    /\ req[r].pc \in {"new", "insert", "select", "work", "abandon"} =>
          r \notin made \/ r \in lost
    /\ req[r].answer.kind = "created" =>
          /\ req[r].answer.of \in made
          /\ BodyOf[r] = BodyOf[req[r].answer.of]
          /\ sweeps = 0 => record = [id |-> req[r].answer.of, status |-> "COMPLETED"]

KeyIndInv ==
    /\ KeyTypeOK
    /\ \A r \in Request : RequestOK(r)
    /\ epoch \subseteq {record.id} \cup lost
    /\ record.status = "COMPLETED" => record.id \in made
=============================================================================
