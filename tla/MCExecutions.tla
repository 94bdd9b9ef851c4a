----------------------------- MODULE MCExecutions ------------------------------
(***************************************************************************)
(* Executions with two system prompts, one file and two models.            *)
(***************************************************************************)
EXTENDS Executions, TLC

CONSTANTS i1, i2, gen, n1, x, f, m1, m2, k, h1, h2

Request(op, name) == [op |-> op, name |-> name, to |-> "asis", text |-> "asis", model |-> m1]

Create(name, text) == [Request("create", name) EXCEPT !.to = name, !.text = text]

MCRequests ==
    {Create(gen, f), Create(n1, x),
     [Request("update", n1) EXCEPT !.to = gen],
     [Request("update", gen) EXCEPT !.to = n1],
     [Request("update", gen) EXCEPT !.text = x],
     Request("remove", gen),
     Request("find", n1), Request("list", n1),
     Request("raw", n1), Request("generate", gen),
     Request("execute", n1), [Request("execute", n1) EXCEPT !.text = x]}

MCModelRows ==
    {[fits |-> TRUE, provider |-> "openai", key |-> k],
     [fits |-> FALSE, provider |-> "anthropic", key |-> NULL]}

Symmetry == Permutations(Handlers) \cup Permutations(Ids)
===============================================================================
