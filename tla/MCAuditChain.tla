----------------------------- MODULE MCAuditChain -----------------------------
(* Small instances of AuditChain for TLC.                                    *)
EXTENDS AuditChain, TLC

CONSTANTS w1, w2, u1, u2

Workers2 == {w1, w2}
Users2   == {u1, u2}
Windows2 == {1, 2}
=============================================================================
