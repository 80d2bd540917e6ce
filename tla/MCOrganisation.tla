----------------------------- MODULE MCOrganisation -----------------------------
(* Small instances of Organisation for TLC.                                  *)
EXTENDS Organisation, TLC

CONSTANTS w1, w2, u1, u2, u3, u4, d1, d2, a1, p1, p2

Workers2  == {w1, w2}
Users4    == {u1, u2, u3, u4}
Clients   == {u2, u4}
Newcomer2 == {u3, u4}
Offices   == {d1, d2}
Clients1  == {a1}
Projects2 == {p1, p2}

\* The workers are alike, and no definition picks one.
Alike == Permutations(Workers2)
=============================================================================
