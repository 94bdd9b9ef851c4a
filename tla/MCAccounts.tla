------------------------------- MODULE MCAccounts ------------------------------
(***************************************************************************)
(* Accounts with one tenant that is there, two that can be set up, and the *)
(* one that registration names, which is none of them.                     *)
(***************************************************************************)
EXTENDS Accounts, TLC

CONSTANTS td, t0, t1, t2, root, u1, u2, k1, p1, n0, n1, e0, e1, e2, h1, h2

Request(by, op, id) ==
    [by |-> by, op |-> op, id |-> id, name |-> n1, email |-> e1, tenant |-> NULL, role |-> "user",
     revoked |-> "asis"]

OfRoot ==
    {Request(root, "onboard", NULL),
     Request(root, "updateTenant", t0),
     Request(root, "removeTenant", t1),
     [Request(root, "updateUser", u1) EXCEPT !.email = NULL, !.tenant = t1, !.role = "tenant_admin"],
     Request(root, "removeUser", u1),
     Request(root, "createProject", p1),
     [Request(root, "updateProject", p1) EXCEPT !.name = n0],
     Request(root, "removeProject", p1)}

OfOther ==
    {[Request(u1, "createUser", NULL) EXCEPT !.tenant = t1, !.email = e2],
     Request(u1, "createKey", NULL),
     Request(u1, "updateKey", k1),
     Request(u1, "revokeKey", k1),
     [Request(u1, "updateKey", k1) EXCEPT !.revoked = "no"],
     Request(u1, "createProject", p1),
     Request(NULL, "register", NULL)}

MCRequests == OfRoot \cup OfOther

Symmetry == Permutations(Handlers)
===============================================================================
