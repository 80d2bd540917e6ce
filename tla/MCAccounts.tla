------------------------------ MODULE MCAccounts ------------------------------
(* Small instances of Accounts for TLC.                                      *)
EXTENDS Accounts, TLC

CONSTANTS w1, w2, a1, a2, a3, a4, i1, e1, e2, e3

Workers2     == {w1, w2}
Accounts4    == {a1, a2, a3, a4}
Invitations1 == {i1}
Emails3      == {e1, e2, e3}
Staff2       == {a1, a2}
Mail2        == a1 :> e1 @@ a2 :> e2
=============================================================================
