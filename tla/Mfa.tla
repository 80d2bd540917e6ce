--------------------------------- MODULE Mfa ---------------------------------
(***************************************************************************)
(* The second factor of one account: enrolment, verification, recovery     *)
(* codes and disablement (src/backend/src/modules/authentication/mfa.rs    *)
(* with its statements in repo.rs, and platform/crypto/totp.rs verify).    *)
(*                                                                         *)
(* A request is authenticated first, and what it decides by the principal  *)
(* (the mandate, the enrolment, the step-up, the clock) it decides by that *)
(* reading.  Its transaction runs at READ COMMITTED: a statement sees what *)
(* is committed when it begins, waits for those of its rows that another   *)
(* transaction has written, and then looks at them, and at no others,      *)
(* again.  Writes are visible at commit; until then the rows are locked.   *)
(*                                                                         *)
(* Abstracted: secrets and their sealing (the code of a factor at a step   *)
(* is the pair of them), the rate limits, which only refuse, audit.        *)
(*                                                                         *)
(* A caller is somebody's request under way.  This name and some others    *)
(* avoid those of Outbox and Idempotency: one module proves about the      *)
(* three.                                                                  *)
(***************************************************************************)
EXTENDS Naturals, FiniteSets

CONSTANTS
    Caller, NoCaller,
    Session, NoSession,
    Factor,         \* rows of mfa_factors, one for each enrolment
    Batch,          \* recovery-code batches
    CodesPerBatch,  \* RECOVERY_CODE_COUNT
    LastStep,       \* bound on the clock, in TOTP steps, for TLC
    MaxRequests     \* bound on the requests, for TLC

Code == Batch \X (1..CodesPerBatch)
TimeStep == 1..LastStep
Skew == 1           \* SKEW_STEPS
Totp == Factor \X TimeStep

Operation == {"setup", "activate", "verify", "recover", "regenerate", "disable"}

ASSUME MfaAssumption ==
    /\ NoCaller \notin Caller
    /\ NoSession \notin Session
    /\ Factor \cap (Batch \cup Code) = {}    \* they are ids of rows of different tables
    /\ CodesPerBatch \in Nat \ {0}
    /\ LastStep \in Nat \ {0}
    /\ MaxRequests \in Nat

VARIABLES
    factor,     \* mfa_factors: status and last_used_step
    code,       \* recovery_codes: not issued, live or consumed
    user,       \* users.mfa_enrolled and mfa_required
    session,    \* sessions: live, pending_mfa, and mfa_verified_at inside the window
    now,        \* the TOTP step of the clock
    factorLock, codeLock, userLock,
    tx,         \* what each handler is doing
    uses,       \* how often each code was accepted
    requests    \* how many there have been

tables  == <<factor, code, user, session>>
locks   == <<factorLock, codeLock, userLock>>
mfaVars == <<tables, now, locks, tx, uses, requests>>

FactorRow  == [status : {"none", "PENDING", "ACTIVE", "DISABLED"}, used : 0..LastStep]
SessionRow == [live : BOOLEAN, pending : BOOLEAN, fresh : BOOLEAN]
Proof      == Totp \cup Code \cup {<<>>}

Transaction ==
    [op : Operation \cup {"idle"}, pc : {"idle", "first", "second", "third"},
     by : Session \cup {NoSession}, presented : Proof,
     at : TimeStep, steppedUp : BOOLEAN, mandated : BOOLEAN,
     retired : SUBSET Factor, spent : SUBSET Code,
     waits : BOOLEAN, snapshot : SUBSET (Factor \cup Code)]

MfaTypeOK ==
    /\ factor \in [Factor -> FactorRow]
    /\ code \in [Code -> {"none", "live", "consumed"}]
    /\ user \in [enrolled : BOOLEAN, required : BOOLEAN]
    /\ session \in [Session -> SessionRow]
    /\ now \in TimeStep
    /\ factorLock \in [Factor -> Caller \cup {NoCaller}]
    /\ codeLock \in [Code -> Caller \cup {NoCaller}]
    /\ userLock \in Caller \cup {NoCaller}
    /\ tx \in [Caller -> Transaction]
    /\ uses \in [Totp \cup Code -> Nat]
    /\ requests \in 0..MaxRequests

InStatus(set) == {f \in Factor : factor[f].status \in set}
Live          == InStatus({"PENDING", "ACTIVE"})
LiveCodes     == {c \in Code : code[c] = "live"}

----------------------------------------------------------------------------
(* Locks.                                                                  *)

Held(w, lock, rows)    == [r \in DOMAIN lock |-> IF r \in rows THEN w ELSE lock[r]]
Released(w, lock)      == [r \in DOMAIN lock |-> IF lock[r] = w THEN NoCaller ELSE lock[r]]

Doing(w, ops, pc) == tx[w].op \in ops /\ tx[w].pc = pc
Moved(w, pc)   == [tx[w] EXCEPT !.pc = pc, !.waits = FALSE, !.snapshot = {}]
Goes(w, pc)    == tx' = [tx EXCEPT ![w] = Moved(w, pc)]

Unlock(w) ==
    /\ factorLock' = Released(w, factorLock)
    /\ codeLock' = Released(w, codeLock)
    /\ userLock' = IF userLock = w THEN NoCaller ELSE userLock

Idle == [op |-> "idle", pc |-> "idle", by |-> NoSession, presented |-> <<>>, at |-> 1,
         steppedUp |-> FALSE, mandated |-> FALSE, retired |-> {}, spent |-> {},
         waits |-> FALSE, snapshot |-> {}]

\* The rows that the WHERE clause of w's next statement selects, of those committed.
Selected(w) ==
    CASE Doing(w, {"setup", "verify"}, "first")      -> InStatus({"ACTIVE"})
      [] Doing(w, {"setup"}, "second")               -> InStatus({"PENDING"})
      [] Doing(w, {"activate"}, "first")             -> InStatus({"PENDING"})
      [] Doing(w, {"disable"}, "first")              -> Live
      [] Doing(w, {"recover"}, "first")              -> LiveCodes \cap {tx[w].presented}
      [] Doing(w, {"activate", "disable"}, "second") -> LiveCodes
      [] Doing(w, {"regenerate"}, "first")           -> LiveCodes
      [] OTHER                                    -> {}

Locked(w, r) == IF r \in Factor THEN factorLock[r] \notin {w, NoCaller}
                                ELSE codeLock[r] \notin {w, NoCaller}

\* A statement that meets a locked row keeps to the rows it saw when it began; one that
\* meets none is a single step.
Wait(w) ==
    /\ ~tx[w].waits
    /\ \E r \in Selected(w) : Locked(w, r)
    /\ tx' = [tx EXCEPT ![w].waits = TRUE, ![w].snapshot = Selected(w)]
    /\ UNCHANGED <<tables, now, locks, uses, requests>>

Rows(w) == IF tx[w].waits THEN tx[w].snapshot \cap Selected(w) ELSE Selected(w)

\* The rows are there to be locked.
Reached(w) == \A r \in Rows(w) : ~Locked(w, r)

\* A refusal: the transaction writes an audit entry at most.
Refuse(w) ==
    /\ tx' = [tx EXCEPT ![w] = Idle]
    /\ Unlock(w)
    /\ UNCHANGED <<tables, now, uses, requests>>

----------------------------------------------------------------------------
(* Requests.                                                               *)

\* What somebody may know: the code of a secret that was shown, or a recovery code.
Shown  == {f \in Factor : factor[f].status # "none"}
Issued == {c \in Code : code[c] # "none"}

\* The principal, and what is decided by it before the transaction: the step-up for
\* regenerate and disable, the enrolment for the one, the mandate for the other.
Begin(w, op, s, presented) ==
    /\ tx[w].pc = "idle"
    /\ requests < MaxRequests
    /\ session[s].live
    /\ op \in {"regenerate", "disable"} => session[s].fresh
    /\ op = "regenerate" => user.enrolled
    /\ op = "disable" => ~user.required
    /\ presented \in CASE op \in {"activate", "verify"} -> Shown \X TimeStep
                       [] op = "recover"                -> Issued
                       [] OTHER                         -> {<<>>}
    /\ tx' = [tx EXCEPT ![w] =
                [Idle EXCEPT !.op = op, !.by = s, !.pc = "first", !.presented = presented,
                    !.at = now, !.steppedUp = session[s].fresh, !.mandated = user.required]]
    /\ requests' = requests + 1
    /\ UNCHANGED <<tables, now, locks, uses>>

\* totp.rs verify: which step of the window the code is for, and whether the
\* watermark has passed it.
Valid(w, f) ==
    LET p == tx[w].presented
    IN  /\ p[1] = f
        /\ p[2] + Skew >= tx[w].at /\ p[2] <= tx[w].at + Skew
        /\ p[2] > factor[f].used

\* Slip: a factor is read without FOR UPDATE.
LockFactorUnlocked(w, f) == UNCHANGED factorLock

LockFactor(w, f) == factorLock' = [factorLock EXCEPT ![f] = w]

\* totp_setup: no active factor may be there.
CheckNoneActive(w) ==
    /\ Doing(w, {"setup"}, "first")
    /\ Reached(w)
    /\ IF Rows(w) = {}
         THEN Goes(w, "second") /\ UNCHANGED <<tables, now, locks, uses, requests>>
         ELSE Refuse(w)

\* UPDATE of factors: what it changes it keeps locked.
Retire(w, rows, pc) ==
    /\ factorLock' = Held(w, factorLock, rows)
    /\ tx' = [tx EXCEPT ![w] = [Moved(w, pc) EXCEPT !.retired = rows]]
    /\ UNCHANGED <<tables, now, codeLock, userLock, uses, requests>>

\* Slip: whatever is live is cleared away, as disable does it.
DropLive(w) ==
    /\ Doing(w, {"setup"}, "second")
    /\ \A r \in Live : ~Locked(w, r)
    /\ Retire(w, Live, "third")

\* disable_factors(Some(PENDING)).
DropPending(w) ==
    /\ Doing(w, {"setup"}, "second")
    /\ Reached(w)
    /\ Retire(w, Rows(w), "third")

\* insert_pending_factor and the commit.  The unique index on live factors waits for
\* a row that is being retired, and refuses beside one that is not.
InsertPending(w, f) ==
    LET others == Live \ tx[w].retired
    IN  /\ Doing(w, {"setup"}, "third")
        /\ \A v \in Caller \ {w} : others \cap tx[v].retired = {}
        /\ factor[f].status = "none"
        /\ IF others # {}
             THEN Refuse(w)
             ELSE /\ factor' = [g \in Factor |->
                        IF g = f THEN [status |-> "PENDING", used |-> 0]
                        ELSE IF g \in tx[w].retired
                          THEN [factor[g] EXCEPT !.status = "DISABLED"] ELSE factor[g]]
                  /\ tx' = [tx EXCEPT ![w] = Idle]
                  /\ Unlock(w)
                  /\ UNCHANGED <<code, user, session, now, uses, requests>>

\* totp_activate and verify: the factor is locked and the code judged.
JudgeCode(w) ==
    /\ Doing(w, {"activate", "verify"}, "first")
    /\ Reached(w)
    /\ IF \E f \in Rows(w) : Valid(w, f)
         THEN /\ \E f \in Rows(w) : LockFactor(w, f)
              /\ Goes(w, IF tx[w].op = "activate" THEN "second" ELSE "third")
              /\ UNCHANGED <<tables, now, codeLock, userLock, uses, requests>>
         ELSE Refuse(w)

\* UPDATE of codes.
Spend(w, rows) ==
    /\ codeLock' = Held(w, codeLock, rows)
    /\ tx' = [tx EXCEPT ![w] = [Moved(w, "third") EXCEPT !.spent = rows]]
    /\ UNCHANGED <<tables, now, factorLock, uses, requests>>

\* consume_recovery_code: one row or none.
ConsumeCode(w) ==
    /\ Doing(w, {"recover"}, "first")
    /\ Reached(w)
    /\ \/ Rows(w) # {} /\ Spend(w, Rows(w)) /\ UNCHANGED userLock
       \/ Rows(w) = {} /\ Refuse(w)

\* disable_factors(None).
RetireFactors(w) ==
    /\ Doing(w, {"disable"}, "first")
    /\ Reached(w)
    /\ Retire(w, Rows(w), "second")

\* consume_recovery_batch, and set_mfa_enrolled, which is next to it.
ConsumeBatch(w) ==
    /\ \/ Doing(w, {"activate", "disable"}, "second")
          /\ userLock \in {w, NoCaller} /\ userLock' = w
       \/ Doing(w, {"regenerate"}, "first") /\ UNCHANGED userLock
    /\ Reached(w)
    /\ Spend(w, Rows(w))

\* mark_mfa_verified: no row when the session was revoked, and nobody looks.
MarkVerified(s) ==
    session' = IF session[s].live
                 THEN [session EXCEPT ![s].pending = FALSE, ![s].fresh = TRUE]
                 ELSE session

\* advance_last_used_step and activate_factor.
Raise(used, step) == IF step > used THEN step ELSE used

Unissued == {b \in Batch : \A n \in 1..CodesPerBatch : code[<<b, n>>] = "none"}

Codes(spent, issued) ==
    [c \in Code |-> IF c \in spent THEN "consumed"
                    ELSE IF c[1] \in issued THEN "live" ELSE code[c]]

Accept(p) == uses' = [uses EXCEPT ![p] = @ + 1]

SetEnrolled(b) == user' = [user EXCEPT !.enrolled = b]

Done(w) ==
    /\ tx' = [tx EXCEPT ![w] = Idle]
    /\ Unlock(w)
    /\ UNCHANGED <<now, requests>>

CommitActivate(w) ==
    LET f == tx[w].presented[1]
    IN  /\ Doing(w, {"activate"}, "third")
        /\ factor' = [factor EXCEPT ![f] = [status |-> "ACTIVE", used |-> tx[w].presented[2]]]
        /\ SetEnrolled(TRUE)
        /\ MarkVerified(tx[w].by)
        /\ \E b \in Unissued : code' = Codes(tx[w].spent, {b})
        /\ Accept(tx[w].presented)
        /\ Done(w)

CommitVerify(w) ==
    LET f == tx[w].presented[1]
    IN  /\ Doing(w, {"verify"}, "third")
        /\ factor' = [factor EXCEPT ![f].used = Raise(@, tx[w].presented[2])]
        /\ MarkVerified(tx[w].by)
        /\ Accept(tx[w].presented)
        /\ Done(w)
        /\ UNCHANGED <<user, code>>

CommitRecover(w) ==
    /\ Doing(w, {"recover"}, "third")
    /\ code' = Codes(tx[w].spent, {})
    /\ MarkVerified(tx[w].by)
    /\ Accept(tx[w].presented)
    /\ Done(w)
    /\ UNCHANGED <<factor, user>>

CommitRegenerate(w) ==
    /\ Doing(w, {"regenerate"}, "third")
    /\ \E b \in Unissued : code' = Codes(tx[w].spent, {b})
    /\ Done(w)
    /\ UNCHANGED <<factor, user, session, uses>>

\* Slip: the enrolment is left as it was.
CommitDisableFactorsOnly(w) ==
    /\ Doing(w, {"disable"}, "third")
    /\ factor' = [f \in Factor |-> IF f \in tx[w].retired
                    THEN [factor[f] EXCEPT !.status = "DISABLED"] ELSE factor[f]]
    /\ code' = Codes(tx[w].spent, {})
    /\ Done(w)
    /\ UNCHANGED <<user, session, uses>>

CommitDisable(w) ==
    /\ Doing(w, {"disable"}, "third")
    /\ factor' = [f \in Factor |-> IF f \in tx[w].retired
                    THEN [factor[f] EXCEPT !.status = "DISABLED"] ELSE factor[f]]
    /\ code' = Codes(tx[w].spent, {})
    /\ SetEnrolled(FALSE)
    /\ Done(w)
    /\ UNCHANGED <<session, uses>>

----------------------------------------------------------------------------
(* What happens beside these requests.                                     *)

\* service.rs login: a session that owes its second factor is pending.
Login(s) ==
    /\ ~session[s].live
    /\ session' = [session EXCEPT ![s] =
            [live |-> TRUE, pending |-> user.required \/ user.enrolled, fresh |-> FALSE]]
    /\ UNCHANGED <<factor, code, user, now, locks, tx, uses, requests>>

Revoke(s) ==
    /\ session[s].live
    /\ session' = [session EXCEPT ![s].live = FALSE]
    /\ UNCHANGED <<factor, code, user, now, locks, tx, uses, requests>>

\* The step-up window passes.
StepUpLapses(s) ==
    /\ session[s].fresh
    /\ session' = [session EXCEPT ![s].fresh = FALSE]
    /\ UNCHANGED <<factor, code, user, now, locks, tx, uses, requests>>

\* A dangerous role is given (authorization/repo.rs mandate_mfa); it updates the
\* row of the user, and waits for it.
Mandate ==
    /\ ~user.required
    /\ userLock = NoCaller
    /\ user' = [user EXCEPT !.required = TRUE]
    /\ UNCHANGED <<factor, code, session, now, locks, tx, uses, requests>>

TimePasses ==
    /\ now < LastStep
    /\ now' = now + 1
    /\ UNCHANGED <<tables, locks, tx, uses, requests>>

----------------------------------------------------------------------------
\* An account that has no second factor yet, or one that enrolled some time ago.
MfaInit ==
    /\ \E enrolled, proved \in BOOLEAN, f0 \in Factor, b0 \in Batch :
          /\ factor = [f \in Factor |->
                IF enrolled /\ f = f0 THEN [status |-> "ACTIVE", used |-> 0]
                                      ELSE [status |-> "none", used |-> 0]]
          /\ code = [c \in Code |-> IF enrolled /\ c[1] = b0 THEN "live" ELSE "none"]
          /\ user = [enrolled |-> enrolled, required |-> FALSE]
          /\ session = [s \in Session |->
                [live |-> TRUE, pending |-> enrolled /\ ~proved,
                 fresh |-> enrolled /\ proved]]
    /\ now = 1
    /\ factorLock = [f \in Factor |-> NoCaller]
    /\ codeLock = [c \in Code |-> NoCaller]
    /\ userLock = NoCaller
    /\ tx = [w \in Caller |-> Idle]
    /\ uses = [p \in Totp \cup Code |-> 0]
    /\ requests = 0

Commit(w) ==
    \/ CommitActivate(w) \/ CommitVerify(w) \/ CommitRecover(w)
    \/ CommitRegenerate(w) \/ CommitDisable(w)

Handler(w) ==
    \/ Wait(w)
    \/ CheckNoneActive(w) \/ DropPending(w) \/ \E f \in Factor : InsertPending(w, f)
    \/ JudgeCode(w) \/ ConsumeCode(w) \/ RetireFactors(w) \/ ConsumeBatch(w)
    \/ Commit(w)

MfaNext ==
    \/ \E w \in Caller, op \in Operation, s \in Session, p \in Proof : Begin(w, op, s, p)
    \/ \E w \in Caller : Handler(w)
    \/ \E s \in Session : Login(s) \/ Revoke(s) \/ StepUpLapses(s)
    \/ Mandate \/ TimePasses

MfaSpec == MfaInit /\ [][MfaNext]_mfaVars

----------------------------------------------------------------------------
(* Properties.                                                             *)

\* A code opens one session at most: neither two requests that present one TOTP code
\* at once, nor one recovery code, nor a code again after a later one moved the
\* watermark (repo.rs lock_factor, advance_last_used_step, consume_recovery_code).
CodesWorkOnce == \A p \in Totp \cup Code : uses[p] <= 1

\* An account marked as enrolled has an active factor, so that a login that is left
\* pending can be completed: however setup, activation and disablement meet, none of
\* them leaves the mark on an account whose factor is gone (mfa.rs totp_setup: an
\* enrolment can never leave an account locked behind a factor nobody has).
EnrolledHasFactor == user.enrolled => InStatus({"ACTIVE"}) # {}

\* An active factor goes only by a disablement whose session had proved the second
\* factor recently, and that found no mandate, when it was authenticated; a setup
\* that overlaps an activation does not replace what it activated (mfa.rs totp_setup).
ActiveFactorIsNotReplaced ==
    [][\A f \in InStatus({"ACTIVE"}) : factor'[f].status # "ACTIVE" =>
          \E w \in Caller : /\ Doing(w, {"disable"}, "third")
                            /\ tx[w].steppedUp /\ ~tx[w].mandated]_mfaVars

\* What comments say and the code does not keep (see the README): a new batch
\* invalidates the previous one; no code outlives the factor; an account under a
\* mandate keeps its factor; whoever has an active factor is enrolled.
OneLiveBatch == \A c, d \in LiveCodes : c[1] = d[1]
CodesDieWithTheFactor == InStatus({"ACTIVE"}) = {} => LiveCodes = {}
MandateHolds ==
    [][user.required => \A f \in InStatus({"ACTIVE"}) : factor'[f].status = "ACTIVE"]_mfaVars
ActiveMeansEnrolled == InStatus({"ACTIVE"}) # {} => user.enrolled

(***************************************************************************)
(* Why they hold: the invariant that the steps preserve.                   *)
(***************************************************************************)

\* mfa_factors has a unique index on the user over the live rows, and only live
\* rows are ever locked.
FactorsOK ==
    /\ \A f, g \in Live : f = g
    /\ \A f \in Factor : factorLock[f] # NoCaller => f \in Live

\* A row stays as the request that locked it read it.
CallerOK(w) ==
    /\ \A f \in tx[w].retired : factorLock[f] = w
    /\ \A c \in tx[w].spent : codeLock[c] = w /\ code[c] = "live"
    /\ tx[w].op = "setup" => \A f \in tx[w].retired : factor[f].status = "PENDING"
    /\ tx[w].op \in {"activate", "verify"} =>
          /\ tx[w].presented \in Totp
          /\ tx[w].pc # "first" =>
                LET f == tx[w].presented[1]
                IN  /\ factorLock[f] = w
                    /\ factor[f].status = IF tx[w].op = "activate" THEN "PENDING" ELSE "ACTIVE"
                    /\ tx[w].presented[2] > factor[f].used
    /\ tx[w].op = "recover" =>
          /\ tx[w].presented \in Code
          /\ tx[w].pc # "first" => tx[w].spent = {tx[w].presented}
    /\ tx[w].op = "disable" => tx[w].steppedUp /\ ~tx[w].mandated

\* What was accepted cannot be accepted again: the watermark has passed the step, or
\* the recovery code is consumed.
UsesOK ==
    /\ \A f \in Factor, n \in TimeStep :
          /\ uses[<<f, n>>] \in {0, 1}
          /\ uses[<<f, n>>] = 1 => factor[f].used >= n /\ factor[f].status # "none"
    /\ \A c \in Code :
          /\ uses[c] \in {0, 1}
          /\ uses[c] = 1 => code[c] = "consumed"

MfaIndInv ==
    /\ MfaTypeOK
    /\ FactorsOK
    /\ \A w \in Caller : CallerOK(w)
    /\ UsesOK
    /\ EnrolledHasFactor

=============================================================================
