------------------------------- MODULE MCRoles -------------------------------
(* Small instances of Roles for TLC.                                         *)
EXTENDS Roles, TLC

CONSTANTS w1, w2, root, ann, bob, admin, custom

Workers2 == {w1, w2}
Users3   == {root, ann, bob}
Roles2   == {admin, custom}
BuiltIn  == {admin}

\* The five that the module needs, and one to hand on.
Read  == "projects.read"
Perms == {RolesCreate, RolesUpdate, RolesDelete, RolesAssign,
          PermissionsDelegate, Read}

\* As in catalog.rs.
IsDangerous == {RolesAssign, PermissionsDelegate}

AtScope(p, s) == [p |-> p, s |-> s]

\* ann administers roles, and reads the projects of her department.
AdminContents ==
    {AtScope(p, "GLOBAL") : p \in Perms \ {Read}} \cup {AtScope(Read, "DEPARTMENT")}

AdminOnly   == (admin :> AdminContents)
AnnIsAdmin  == [u \in Users3 |-> IF u = ann THEN {admin} ELSE {}]

ReadSome    == {{AtScope(Read, "ASSIGNED")}, {}}
ReadSelf    == {AtScope(Read, "SELF")}

Symmetric == Permutations(Workers2)

\* The owner and one delegate change roles while bob looks at what he may do.
Several ==
    ({root} \X {"create", "update"})
        \cup ({ann} \X (Operation \ {"me", "create"}))
        \cup {<<bob, "me">>}

Assigning == {AtScope(RolesAssign, "GLOBAL")}
EmptyOrAssigning == {{}, Assigning}
OwnerOnly == {root} \X {"create", "update", "assign"}
=============================================================================
