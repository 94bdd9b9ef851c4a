------------------------- MODULE DeploymentGovernance -------------------------
(***************************************************************************)
(* What the deployment service promises, with the request handling, the    *)
(* status column and the database transactions left out.                   *)
(*                                                                         *)
(* A deployment is a plan: who asked for it, for which environment, and    *)
(* which entities it brings.  A plan is approved by somebody else than its *)
(* requester, and only an approved plan may be activated.  Activating adds *)
(* every version of the plan to the environment at once.  A version leaves *)
(* an environment only when the version itself is removed.                 *)
(***************************************************************************)
CONSTANTS Deployments, Users, Environments, Versions, Models, NULL

VARIABLES
    catalog,    \* entities (versions and models) that exist
    active,     \* [Environments -> SUBSET Versions]
    plans,      \* [Deployments -> a plan, or NULL while the id is unused]
    approver,   \* [Deployments -> the user on record as approver, or NULL]
    approved,   \* deployments that were approved at least once
    activated   \* deployments that were activated at least once

vars == <<catalog, active, plans, approver, approved, activated>>

Entities == Versions \cup Models

Plan == [requester : Users, environment : Environments, items : SUBSET Entities]

Init ==
    /\ catalog = Entities
    /\ active = [e \in Environments |-> {}]
    /\ plans = [d \in Deployments |-> NULL]
    /\ approver = [d \in Deployments |-> NULL]
    /\ approved = {}
    /\ activated = {}

\* A plan can only name entities that exist when it is recorded.
Request(d, plan) ==
    /\ plans[d] = NULL
    /\ plan.items \subseteq catalog
    /\ plans' = [plans EXCEPT ![d] = plan]
    /\ UNCHANGED <<catalog, active, approver, approved, activated>>

\* The four-eyes principle.
Approve(d, u) ==
    /\ plans[d] # NULL
    /\ u # plans[d].requester
    /\ approver' = [approver EXCEPT ![d] = u]
    /\ approved' = approved \cup {d}
    /\ UNCHANGED <<catalog, active, plans, activated>>

\* All the versions of an approved plan enter its environment, or none does.
Activate(d) ==
    /\ d \in approved
    /\ plans[d].items \cap Versions \subseteq catalog
    /\ active' = [active EXCEPT ![plans[d].environment] =
                                    @ \cup (plans[d].items \cap Versions)]
    /\ activated' = activated \cup {d}
    /\ UNCHANGED <<catalog, plans, approver, approved>>

\* Removing an entity takes it out of every environment.
RemoveEntity(v) ==
    /\ v \in catalog
    /\ catalog' = catalog \ {v}
    /\ active' = [e \in Environments |-> active[e] \ {v}]
    /\ UNCHANGED <<plans, approver, approved, activated>>

\* Removing an approver's account blanks the name, not the approval.
RemoveApprover(u) ==
    /\ approver' = [d \in Deployments |->
                        IF approver[d] = u THEN NULL ELSE approver[d]]
    /\ UNCHANGED <<catalog, active, plans, approved, activated>>

Next ==
    \/ \E d \in Deployments, plan \in Plan : Request(d, plan)
    \/ \E d \in Deployments, u \in Users : Approve(d, u)
    \/ \E d \in Deployments : Activate(d)
    \/ \E v \in Entities : RemoveEntity(v)
    \/ \E u \in Users : RemoveApprover(u)

Spec == Init /\ [][Next]_vars
===============================================================================
