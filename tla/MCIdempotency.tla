----------------------------- MODULE MCIdempotency -----------------------------
(* Small instances of Idempotency for TLC.                                   *)
EXTENDS Idempotency, TLC

CONSTANTS r1, r2, r3, r4, b1, b2

Requests == {r1, r2, r3, r4}
Bodies   == {b1, b2}
\* Three tries of the same request, and one that reuses the key.
Carries  == [r \in Requests |-> IF r = r4 THEN b2 ELSE b1]
=============================================================================
