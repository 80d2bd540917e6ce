-------------------------------- MODULE Mailbox --------------------------------
(***************************************************************************)
(* What the transactional outbox promises about the mail a committed       *)
(* transaction asked for, with no workers, claims or leases in sight: it   *)
(* is delivered at least once before it is reported sent, it is given up   *)
(* only after Budget failed deliveries or a refusal by the provider, and   *)
(* once it is settled it is settled for good, unless it became late: then  *)
(* an attempt that should have ended may still report its own outcome.     *)
(***************************************************************************)
EXTENDS Naturals

CONSTANTS Msg, Budget

VARIABLES
    state,      \* for each message, how far it is
    reached,    \* the messages the provider has accepted at least once
    tries,      \* for each message, the failed deliveries
    late        \* the messages an attempt took too long over

vars == <<state, reached, tries, late>>

Init ==
    /\ state = [m \in Msg |-> "none"]
    /\ reached = {}
    /\ tries = [m \in Msg |-> 0]
    /\ late = {}

Enqueue(m) ==
    /\ state[m] = "none"
    /\ state' = [state EXCEPT ![m] = "queued"]
    /\ UNCHANGED <<reached, tries, late>>

\* Something may still become of m.
Open(m) == state[m] = "queued" \/ (m \in late /\ state[m] # "none")

\* The provider takes the message; nobody else may know yet.
Reach(m) ==
    /\ Open(m)
    /\ reached' = reached \cup {m}
    /\ UNCHANGED <<state, tries, late>>

Settle(m) ==
    /\ Open(m)
    /\ m \in reached
    /\ state' = [state EXCEPT ![m] = "sent"]
    /\ UNCHANGED <<reached, tries, late>>

Fail(m) ==
    /\ Open(m)
    /\ tries' = [tries EXCEPT ![m] = @ + 1]
    /\ state' = [state EXCEPT ![m] = IF tries[m] + 1 >= Budget THEN "dead"
                                                               ELSE "queued"]
    /\ UNCHANGED <<reached, late>>

Refuse(m) ==
    /\ Open(m)
    /\ tries' = [tries EXCEPT ![m] = @ + 1]
    /\ state' = [state EXCEPT ![m] = "dead"]
    /\ UNCHANGED <<reached, late>>

\* Some attempts outlast what was granted them.
Overdue(M) ==
    /\ \A m \in M : state[m] = "queued"
    /\ late' = late \cup M
    /\ UNCHANGED <<state, reached, tries>>

Next ==
    \/ \E m \in Msg : Enqueue(m) \/ Reach(m) \/ Settle(m) \/ Fail(m) \/ Refuse(m)
    \/ \E M \in SUBSET Msg : Overdue(M)

Spec == Init /\ [][Next]_vars
=============================================================================
