------------------------------ MODULE TokenFamily ------------------------------
(***************************************************************************)
(* What refresh rotation promises about the sessions of an account, with   *)
(* no transactions and no locks in sight (ADR-005): a session opens with   *)
(* one exchangeable refresh token; exchanging it replaces it by its one    *)
(* successor in the same instant; a session that is closed has no          *)
(* exchangeable token ever again.                                          *)
(***************************************************************************)
EXTENDS Naturals

CONSTANTS Session, MaxGen

VARIABLES
    opened,         \* the sessions that have been created
    exchangeable    \* for each session, the generations that can be exchanged

vars == <<opened, exchangeable>>

Init ==
    /\ opened = {}
    /\ exchangeable = [s \in Session |-> {}]

\* Sessions end together: logout-all, a suspension, an eviction.
Close(C) ==
    /\ exchangeable' = [s \in Session |-> IF s \in C THEN {} ELSE exchangeable[s]]
    /\ UNCHANGED opened

\* A login may close other sessions in the same instant.
Open(s, C) ==
    /\ s \notin opened \cup C
    /\ opened' = opened \cup {s}
    /\ exchangeable' = [r \in Session |-> IF r = s THEN {0}
                                          ELSE IF r \in C THEN {}
                                          ELSE exchangeable[r]]

Exchange(s, g) ==
    /\ g < MaxGen
    /\ exchangeable[s] = {g}
    /\ exchangeable' = [exchangeable EXCEPT ![s] = {g + 1}]
    /\ UNCHANGED opened

Next ==
    \/ \E C \in SUBSET Session : Close(C)
    \/ \E s \in Session, C \in SUBSET Session : Open(s, C)
    \/ \E s \in Session, g \in 0..MaxGen : Exchange(s, g)

Spec == Init /\ [][Next]_vars
=============================================================================
