----------------------------- MODULE MCCredentials -----------------------------
(* Small instances of Credentials for TLC.                                   *)
EXTENDS Credentials, TLC

CONSTANTS w1, w2, w3, s1, s2, l1, l2, l3

Workers2 == {w1, w2}
Workers3 == {w1, w2, w3}
Sessions == {s1, s2}
Links    == {l1, l2, l3}
OneLink  == {l1}

LoginsAndResets == [w \in Worker |-> {"login", "request", "confirm"}]
\* The third handler signs in and changes the password, the others reset it.
Divided == [w \in Worker |-> IF w = w3 THEN {"login", "change"}
                             ELSE {"login", "request", "confirm"}]

Symmetry == Permutations({w1, w2}) \cup Permutations(Sessions) \cup Permutations(Links)
=============================================================================
