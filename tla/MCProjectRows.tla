----------------------------- MODULE MCProjectRows -----------------------------
(***************************************************************************)
(* ProjectRows with a slug that two tenants may have one after the other,  *)
(* and a project of the second.                                            *)
(***************************************************************************)
EXTENDS ProjectRows, TLC

CONSTANTS a, b, p1, p2, i1, i2, i3, n1, n2, h1, h2

MCClaims == {<<p1, a>>, <<p1, b>>, <<p2, b>>}

Request(tenant, project, op, kind, key, name) ==
    [tenant |-> tenant, project |-> project, op |-> op, kind |-> kind, key |-> key, name |-> name,
     region |-> IF kind = "region" THEN NULL ELSE "asis"]

OfRegions ==
    {Request(a, p1, "create", "region", NULL, n1),
     [Request(a, p1, "create", "region", NULL, n2) EXCEPT !.region = n1],
     [Request(a, p1, "update", "region", n2, n2) EXCEPT !.region = n1],
     Request(a, p1, "remove", "region", n1, NULL),
     Request(b, p2, "create", "region", NULL, n1)}

OfData ==
    {[Request(a, p1, "create", "culturalData", NULL, n1) EXCEPT !.region = n1],
     Request(a, p1, "remove", "culturalData", n1, NULL)}

OfOthers ==
    {Request(b, p1, "create", "ragDocument", NULL, n1),
     Request(a, p1, "update", "ragDocument", i1, n2)}

OfLists ==
    {Request(a, p1, "list", "region", NULL, NULL)}

MCRequests == OfRegions \cup OfData \cup OfOthers \cup OfLists

\* No request names i2 or i3.
Symmetry == Permutations(Handlers) \cup Permutations({i2, i3})
===============================================================================
