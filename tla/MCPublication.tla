----------------------------- MODULE MCPublication -----------------------------
(***************************************************************************)
(* Publication with named requests, versions and users.                    *)
(***************************************************************************)
EXTENDS Publication, TLC

CONSTANTS p, a, owner, editor, h1, h2

\* Requests are interchangeable, and no property names one of them.
Symmetry == Permutations(Handlers)
===============================================================================
