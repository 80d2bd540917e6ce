------------------------------ MODULE MCProjects ------------------------------
(* Small instances of Projects for TLC.                                      *)
EXTENDS Projects, TLC

CONSTANTS w1, w2, boss, ann, d1, d2, p1, p2, t1, t2, c1

Workers2  == {w1, w2}
Users2    == {boss, ann}
Projects2 == {p1, p2}
Tasks2    == {t1, t2}

InP1     == [t \in Tasks2 |-> p1]
FirstIs  == {p1}
AllInD1  == [p \in Projects2 |-> d1]
AnnIsOn  == [p \in Projects2 |-> {ann}]
T1Is     == {t1}
AnnHasIt == [t \in Tasks2 |-> {ann}]

\* boss manages everything; ann works in d1 and edits, cancels and assigns by
\* department or as an assignee, and adds tasks to the projects she is on.
Held ==
    [u \in Users2 |->
        IF u = boss THEN Permission \X {"GLOBAL"}
        ELSE {<<"projects.update", "DEPARTMENT">>, <<"tasks.create", "ASSIGNED">>,
              <<"tasks.update", "ASSIGNED">>, <<"tasks.delete", "DEPARTMENT">>,
              <<"tasks.assign", "ASSIGNED">>}]
Offices == [u \in Users2 |-> IF u = ann THEN {d1} ELSE {}]

Statuses == {"COMPLETED", "ARCHIVED", "TODO", "DONE"}
Offices2 == {d1, d2}

Several ==
    ({boss} \X (Operation \ {"edit"})) \cup ({ann} \X {"update", "open", "edit"})
=============================================================================
