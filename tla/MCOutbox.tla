-------------------------------- MODULE MCOutbox --------------------------------
(* Small instances of Outbox for TLC.                                        *)
EXTENDS Outbox, TLC

CONSTANTS w1, w2, m1, m2

Workers == {w1, w2}
Msgs    == {m1, m2}
=============================================================================
