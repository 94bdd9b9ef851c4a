----------------------------- MODULE MCDeployment -----------------------------
(***************************************************************************)
(* Deployment on small instances.  Handlers, deployment ids and (where none*)
(* of them is singled out as removable) environments are interchangeable.  *)
(***************************************************************************)
EXTENDS Deployment, TLC

SymmetryOfHandlers == Permutations(Handlers)

SymmetryOfPlaces ==
    Permutations(Handlers) \cup Permutations(Deployments) \cup Permutations(Environments)
===============================================================================
