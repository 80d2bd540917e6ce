------------------------------ MODULE MCSessions ------------------------------
(* Small instances of Sessions for TLC.                                      *)
EXTENDS Sessions

CONSTANTS w1, w2, s1, s2, s3

Workers2  == {w1, w2}
Sessions2 == {s1, s2}
Sessions3 == {s1, s2, s3}

Sent(ops)   == [w \in Worker |-> ops]
LoginSent   == Sent({"login"})
SuspendSent == Sent({"login", "suspend"})
\* One handler signs in; what the other is sent races it.
LoginAndRest == [w \in Worker |-> IF w = w1 THEN {"login", "refresh"}
    ELSE {"refresh", "revokeOwn", "logout", "logoutAll", "suspend", "reactivate"}]
=============================================================================
