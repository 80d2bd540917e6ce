------------------------------ MODULE MCReading ------------------------------
(* Reading over three records and one department: two records made at the  *)
(* same instant, and one that may be inserted while the listing is read.   *)
EXTENDS Reading

Record(at, home, mine, here) ==
    [here |-> here, gone |-> FALSE, created |-> at, updated |-> at, home |-> home, mine |-> mine,
     open |-> TRUE]

TheRows ==
    {[t \in Thing |-> CASE t = 1 -> Record(1, 10, TRUE, TRUE)
                        [] t = 2 -> Record(1, NoDepartment, FALSE, TRUE)
                        [] t = 3 -> Record(2, 10, FALSE, here)] : here \in BOOLEAN}

TheActors ==
    {[root |-> root, allows |-> allows, denies |-> {},
      parentAllows |-> {Simple("ASSIGNED")}, parentDenies |-> {}, departments |-> {10}] :
        root \in BOOLEAN, allows \in {{s} : s \in Scope}}

==============================================================================
