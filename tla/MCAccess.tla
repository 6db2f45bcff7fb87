------------------------------ MODULE MCAccess ------------------------------
(***************************************************************************)
(* A small instance of Access: requests about one user, made by an owner,    *)
(* by an observer of the one role group, and by the user.                    *)
(***************************************************************************)
EXTENDS Access

CONSTANTS boss, guide, ann, t1, t2, g1, hq, org, w1, w2

Roles == [u \in User |-> CASE u = boss -> "owner" [] u = ann -> "absent" [] OTHER -> "member"]
Tokens == [t \in Token |-> NoToken]

Nowhere == [t \in Team |-> 0]
In(team, role) == [Nowhere EXCEPT ![team] = role]
Moves == [u \in User |-> IF u = ann THEN {Nowhere, In(org, 1), In(org, 2), In(hq, 2)} ELSE {Nowhere}]

ForMembers == [team |-> org, min |-> 1, grants |-> "member"]
ForAdmins == [team |-> org, min |-> 2, grants |-> "admin"]
Mappings == {{}, {ForMembers, ForAdmins}}
=============================================================================
