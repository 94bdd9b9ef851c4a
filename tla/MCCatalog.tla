------------------------------- MODULE MCCatalog -------------------------------
(***************************************************************************)
(* Catalog with one slug, two projects, one key of each kind that requests *)
(* name, and another tag that versions are given.                          *)
(***************************************************************************)
EXTENDS Catalog, TLC

CONSTANTS slug, p, q, tp, h1, h2

MCProjectOf == [t \in Tags |-> p]

Request(op, kind, project, keys) ==
    [op |-> op, kind |-> kind, project |-> project, slug |-> slug, keys |-> keys, key |-> First]

\* The first n keys of a path.
Path(n) == [i \in 1..n |-> First]

OfRows(kinds) ==
    UNION {{Request("create", kind, p, Path(Len(Chain[kind]) - 1)),
            Request("update", kind, p, Path(Len(Chain[kind]))),
            Request("remove", kind, p, Path(Len(Chain[kind])))} : kind \in kinds}

OfPrompts == {Request("create", "prompt", q, <<>>), Request("remove", "prompt", q, <<>>)}
                \cup {Request(op, "prompt", p, <<>>) : op \in {"create", "update", "remove"}}

\* One project asks for everything, the other creates and removes prompts.
MCRequests == OfPrompts \cup (OfRows(Kinds \ {"prompt"}) \ {Request("remove", "asset", p, Path(1))})

\* Only new versions, with a tag of their own.
MCNewVersions == OfPrompts \cup {[Request("create", "version", p, <<>>) EXCEPT !.key = "1.1.0"]}

\* Requests are interchangeable, and no property names one of them.
Symmetry == Permutations(Handlers)
===============================================================================
