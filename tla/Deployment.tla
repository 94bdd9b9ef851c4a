------------------------------ MODULE Deployment ------------------------------
(***************************************************************************)
(* DeploymentService (src/src/deployment): deployments of prompt versions, *)
(* asset versions and AI models into an environment, with approval by a    *)
(* second person.                                                          *)
(*                                                                         *)
(* Every operation is an HTTP handler that reads the database, checks what *)
(* it read and writes in a later call, with no lock and no version check   *)
(* in between.  One step of a handler here is one database call together   *)
(* with the code up to the next await; a request that its first reads      *)
(* refuse changes nothing and is not a step.  deployDeployment writes      *)
(* inside an interactive transaction: its writes stay private to the       *)
(* handler and reach the tables at the commit, and the row it updated is   *)
(* locked until then.                                                      *)
(***************************************************************************)
CONSTANTS
    Deployments,    \* ids the database may hand out: bounds the deployments
    Users,          \* ADMIN and TENANT_ADMIN accounts of the tenant
    Environments,   \* environments of the project
    Versions,       \* prompt versions and prompt asset versions
    Models,         \* AI models
    Handlers,       \* requests in flight at the same time
    Removable,      \* rows that other services may delete
    NULL

Entities == Versions \cup Models

ASSUME KindsAssumption == Versions \cap Models = {}
ASSUME NullAssumption == NULL \notin Deployments \cup Users \cup Environments

VARIABLES
    users,          \* rows of User
    environments,   \* rows of Environment
    catalog,        \* rows of PromptVersion, PromptAssetVersion and AIModel
    active,         \* Environment.activePromptVersions and .activeAssetVersions
    deployments,    \* rows of Deployment with their DeploymentItems
    handlers        \* what each request holds between two database calls

tables == <<users, environments, catalog, active, deployments>>
vars == <<users, environments, catalog, active, deployments, handlers>>

\* The statuses another transaction can read: DEPLOYING and the FAILED of an
\* item are only ever written inside a transaction that overwrites or undoes
\* them, and no code writes CANCELLED.
Status == {"PENDING", "APPROVED", "DEPLOYED", "ROLLED_BACK"}

\* approvedAt, deployedAt and rolledBackAt only matter as "was it ever set";
\* rolledBackAt is set exactly when rollbackTo is.  done is the set of items
\* whose status is DEPLOYED; the others are PENDING.
Row == [status      : Status,
        environment : Environments,
        requestedBy : Users,
        approvedBy  : Users \cup {NULL},
        approvedAt  : BOOLEAN,
        deployedAt  : BOOLEAN,
        rollbackTo  : Deployments \cup {NULL},
        items       : SUBSET Entities,
        done        : SUBSET Entities]

ASSUME NullIsNoRow == NULL \notin Row

Handler == [pc     : {"idle", "create", "approve", "deploy", "transaction", "rollback"},
            user   : Users \cup {NULL},
            dep    : Deployments \cup {NULL},
            target : Deployments \cup {NULL},
            env    : Environments \cup {NULL},
            items  : SUBSET Entities,
            todo   : SUBSET Entities,   \* items the loop has not reached
            links  : SUBSET Entities]   \* items the open transaction deployed

Idle == [pc |-> "idle", user |-> NULL, dep |-> NULL, target |-> NULL,
         env |-> NULL, items |-> {}, todo |-> {}, links |-> {}]

Exists(d) == deployments[d] # NULL

At(h, pc) == handlers[h].pc = pc

Return(h) == handlers' = [handlers EXCEPT ![h] = Idle]

\* The row lock of an open transaction that has updated deployment d.
Locked(d) == \E h \in Handlers : At(h, "transaction") /\ handlers[h].dep = d

TypeOK ==
    /\ users \subseteq Users
    /\ environments \subseteq Environments
    /\ catalog \subseteq Entities
    /\ active \in [Environments -> SUBSET Versions]
    /\ deployments \in [Deployments -> Row \cup {NULL}]
    /\ handlers \in [Handlers -> Handler]

Init ==
    /\ users = Users
    /\ environments = Environments
    /\ catalog = Entities
    /\ active = [e \in Environments |-> {}]
    /\ deployments = [d \in Deployments |-> NULL]
    /\ handlers = [h \in Handlers |-> Idle]

-------------------------------------------------------------------------------
(***************************************************************************)
(* createDeployment.  The id is taken here, not at the insert, so that the *)
(* bound on ids never holds up a request that is already running.          *)
(***************************************************************************)
StartCreate(h, u, e, items, d) ==
    /\ At(h, "idle")
    /\ u \in users
    /\ e \in environments
    /\ ~Exists(d)
    /\ \A g \in Handlers : handlers[g].dep # d
    /\ handlers' = [handlers EXCEPT ![h] =
                      [Idle EXCEPT !.pc = "create", !.user = u, !.env = e,
                                   !.dep = d, !.items = items, !.todo = items]]
    /\ UNCHANGED tables

\* validateDeploymentItems: one lookup per item.
ValidateItem(h, v) ==
    /\ At(h, "create")
    /\ v \in handlers[h].todo
    /\ v \in catalog
    /\ handlers' = [handlers EXCEPT ![h].todo = @ \ {v}]
    /\ UNCHANGED tables

\* The item is missing, or it exists and the request named another tag for it.
RejectItem(h) ==
    /\ At(h, "create")
    /\ handlers[h].todo # {}
    /\ Return(h)
    /\ UNCHANGED tables

NewRow(env, user, items) ==
    [status      |-> "PENDING",
     environment |-> env,
     requestedBy |-> user,
     approvedBy  |-> NULL,
     approvedAt  |-> FALSE,
     deployedAt  |-> FALSE,
     rollbackTo  |-> NULL,
     items       |-> items,
     done        |-> {}]

\* The foreign keys of the rows that the insert would write.
ReferencesExist(h) ==
    /\ handlers[h].user \in users
    /\ handlers[h].env \in environments
    /\ handlers[h].items \subseteq catalog

\* Mutant of InsertDeployment: relies on the validation, no foreign keys.
InsertUnchecked(h) ==
    /\ At(h, "create")
    /\ handlers[h].todo = {}
    /\ deployments' = [deployments EXCEPT ![handlers[h].dep] =
                         NewRow(handlers[h].env, handlers[h].user, handlers[h].items)]
    /\ Return(h)
    /\ UNCHANGED <<users, environments, catalog, active>>

InsertDeployment(h) ==
    /\ At(h, "create")
    /\ handlers[h].todo = {}
    /\ ReferencesExist(h)
    /\ deployments' = [deployments EXCEPT ![handlers[h].dep] =
                         NewRow(handlers[h].env, handlers[h].user, handlers[h].items)]
    /\ Return(h)
    /\ UNCHANGED <<users, environments, catalog, active>>

\* A foreign key fails, or the environment has a deployment of that name.
RefuseInsert(h) ==
    /\ At(h, "create")
    /\ handlers[h].todo = {}
    /\ \/ ~ReferencesExist(h)
       \/ \E d \in Deployments : Exists(d) /\ deployments[d].environment = handlers[h].env
    /\ Return(h)
    /\ UNCHANGED tables

-------------------------------------------------------------------------------
(***************************************************************************)
(* approveDeployment: both checks are made on the row as it was read.      *)
(***************************************************************************)
\* Mutant of MayApprove: only the status is checked.
MayApproveOwn(u, d) == deployments[d].status = "PENDING"

MayApprove(u, d) ==
    /\ deployments[d].status = "PENDING"
    /\ deployments[d].requestedBy # u

ReadToApprove(h, u, d) ==
    /\ At(h, "idle")
    /\ u \in users
    /\ Exists(d)
    /\ MayApprove(u, d)
    /\ handlers' = [handlers EXCEPT ![h] =
                      [Idle EXCEPT !.pc = "approve", !.user = u, !.dep = d]]
    /\ UNCHANGED tables

WriteApproval(h) ==
    /\ At(h, "approve")
    /\ ~Locked(handlers[h].dep)
    /\ handlers[h].user \in users
    /\ deployments' = [deployments EXCEPT ![handlers[h].dep] =
                         [@ EXCEPT !.status = "APPROVED",
                                   !.approvedBy = handlers[h].user,
                                   !.approvedAt = TRUE]]
    /\ Return(h)
    /\ UNCHANGED <<users, environments, catalog, active>>

\* The approver's account is gone: the foreign key of approvedById fails.
RefuseApproval(h) ==
    /\ At(h, "approve")
    /\ handlers[h].user \notin users
    /\ Return(h)
    /\ UNCHANGED tables

-------------------------------------------------------------------------------
(***************************************************************************)
(* deployDeployment: the status is checked before the transaction and not  *)
(* looked at again inside it.                                              *)
(***************************************************************************)
\* Mutant of ReadToDeploy: the status check is gone.
ReadToDeployAny(h, d) ==
    /\ At(h, "idle")
    /\ Exists(d)
    /\ handlers' = [handlers EXCEPT ![h] =
                      [Idle EXCEPT !.pc = "deploy", !.dep = d,
                                   !.todo = deployments[d].items]]
    /\ UNCHANGED tables

ReadToDeploy(h, d) ==
    /\ At(h, "idle")
    /\ Exists(d)
    /\ deployments[d].status = "APPROVED"
    /\ handlers' = [handlers EXCEPT ![h] =
                      [Idle EXCEPT !.pc = "deploy", !.dep = d,
                                   !.todo = deployments[d].items]]
    /\ UNCHANGED tables

\* Mutant of BeginDeploy: DEPLOYING is written before the transaction opens.
BeginInTheOpen(h) ==
    /\ At(h, "deploy")
    /\ ~Locked(handlers[h].dep)
    /\ handlers' = [handlers EXCEPT ![h].pc = "transaction"]
    /\ deployments' = [deployments EXCEPT ![handlers[h].dep].status = "DEPLOYING"]
    /\ UNCHANGED <<users, environments, catalog, active>>

\* The first statement of the transaction, status DEPLOYING, takes the row.
BeginDeploy(h) ==
    /\ At(h, "deploy")
    /\ ~Locked(handlers[h].dep)
    /\ handlers' = [handlers EXCEPT ![h].pc = "transaction"]
    /\ UNCHANGED tables

\* What the loop knows once item v is done.
Linked(handler, v) == [handler EXCEPT !.todo = @ \ {v}, !.links = @ \cup {v}]

\* Mutant of DeployItem: the version is connected outside the transaction.
DeployItemInTheOpen(h, v) ==
    /\ At(h, "transaction")
    /\ v \in handlers[h].todo
    /\ v \in Versions => v \in catalog
    /\ active' = [active EXCEPT ![deployments[handlers[h].dep].environment] =
                             @ \cup ({v} \cap Versions)]
    /\ handlers' = [handlers EXCEPT ![h] = Linked(handlers[h], v)]
    /\ UNCHANGED <<users, environments, catalog, deployments>>

\* deployItem and the item's DEPLOYED.  A version must exist to be connected
\* to the environment; a model is only noted.
DeployItem(h, v) ==
    /\ At(h, "transaction")
    /\ v \in handlers[h].todo
    /\ v \in Versions => v \in catalog
    /\ handlers' = [handlers EXCEPT ![h] = Linked(handlers[h], v)]
    /\ UNCHANGED tables

\* Mutant of FailItem: the error is not rethrown and the loop goes on.
SwallowItemError(h, v) ==
    /\ At(h, "transaction")
    /\ v \in handlers[h].todo
    /\ v \in Versions \ catalog
    /\ handlers' = [handlers EXCEPT ![h].todo = @ \ {v}]
    /\ UNCHANGED tables

\* Mutant of FailItem: the failed item is tried again.
RetryItem(h, v) ==
    /\ At(h, "transaction")
    /\ v \in handlers[h].todo
    /\ v \in Versions \ catalog
    /\ UNCHANGED vars

\* The version is gone: the error is written on the item and rethrown, and
\* the whole transaction is rolled back, the item's FAILED with it.
FailItem(h, v) ==
    /\ At(h, "transaction")
    /\ v \in handlers[h].todo
    /\ v \in Versions \ catalog
    /\ Return(h)
    /\ UNCHANGED tables

\* Mutant of CommitDeploy: "set" where the code has "connect".
CommitReplacing(h) ==
    LET d == handlers[h].dep
    IN  /\ At(h, "transaction")
        /\ handlers[h].todo = {}
        /\ deployments' = [deployments EXCEPT ![d] =
                             [@ EXCEPT !.status = "DEPLOYED", !.deployedAt = TRUE,
                                       !.done = handlers[h].links]]
        /\ active' = [active EXCEPT ![deployments[d].environment] =
                             handlers[h].links \cap Versions]
        /\ Return(h)
        /\ UNCHANGED <<users, environments, catalog>>

CommitDeploy(h) ==
    LET d == handlers[h].dep
    IN  /\ At(h, "transaction")
        /\ handlers[h].todo = {}
        /\ deployments' = [deployments EXCEPT ![d] =
                             [@ EXCEPT !.status = "DEPLOYED", !.deployedAt = TRUE,
                                       !.done = handlers[h].links]]
        /\ active' = [active EXCEPT ![deployments[d].environment] =
                             @ \cup (handlers[h].links \cap Versions)]
        /\ Return(h)
        /\ UNCHANGED <<users, environments, catalog>>

-------------------------------------------------------------------------------
(***************************************************************************)
(* rollbackDeployment: any deployment of the same environment may be the   *)
(* target.  The two reads are one step, because the columns they use never *)
(* change and a deployment is never deleted.                               *)
(***************************************************************************)
ReadToRollback(h, d, target) ==
    /\ At(h, "idle")
    /\ Exists(d)
    /\ Exists(target)
    /\ deployments[target].environment = deployments[d].environment
    /\ handlers' = [handlers EXCEPT ![h] =
                      [Idle EXCEPT !.pc = "rollback", !.dep = d, !.target = target]]
    /\ UNCHANGED tables

\* The foreign key of rollbackToDeploymentId waits for the target's row too.
WriteRollback(h) ==
    /\ At(h, "rollback")
    /\ ~Locked(handlers[h].dep)
    /\ ~Locked(handlers[h].target)
    /\ deployments' = [deployments EXCEPT ![handlers[h].dep] =
                         [@ EXCEPT !.status = "ROLLED_BACK",
                                   !.rollbackTo = handlers[h].target]]
    /\ Return(h)
    /\ UNCHANGED <<users, environments, catalog, active>>

-------------------------------------------------------------------------------
(***************************************************************************)
(* Failures, and the other services that delete rows a deployment uses.    *)
(***************************************************************************)
\* A database call fails (transaction timeout, deadlock victim, connection
\* lost): the handler throws and an open transaction is rolled back.
DatabaseError(h) ==
    /\ ~At(h, "idle")
    /\ Return(h)
    /\ UNCHANGED tables

\* The process dies: every request in flight is lost.
Restart ==
    /\ \E h \in Handlers : ~At(h, "idle")
    /\ handlers' = [h \in Handlers |-> Idle]
    /\ UNCHANGED tables

\* PromptVersionService.remove, its asset version and AI model counterparts
\* and the cascades onto them.  The links of environments go with the version;
\* the items of deployments stay and lose their reference.  A version that an
\* open transaction has connected is locked.
RemoveEntity(v) ==
    /\ v \in catalog \cap Removable
    /\ \A h \in Handlers : v \notin handlers[h].links
    /\ catalog' = catalog \ {v}
    /\ active' = [e \in Environments |-> active[e] \ {v}]
    /\ UNCHANGED <<users, environments, deployments, handlers>>

\* UserService.remove: refused while the user has requested a deployment;
\* approvals by the user lose their approvedById.
RemoveUser(u) ==
    /\ u \in users \cap Removable
    /\ \A d \in Deployments : Exists(d) =>
          /\ deployments[d].requestedBy # u
          /\ deployments[d].approvedBy = u => ~Locked(d)
    /\ users' = users \ {u}
    /\ deployments' = [d \in Deployments |->
                         IF Exists(d) /\ deployments[d].approvedBy = u
                         THEN [deployments[d] EXCEPT !.approvedBy = NULL]
                         ELSE deployments[d]]
    /\ UNCHANGED <<environments, catalog, active, handlers>>

\* EnvironmentService.remove: refused while the environment has deployments.
RemoveEnvironment(e) ==
    /\ e \in environments \cap Removable
    /\ \A d \in Deployments : Exists(d) => deployments[d].environment # e
    /\ environments' = environments \ {e}
    /\ active' = [active EXCEPT ![e] = {}]
    /\ UNCHANGED <<users, catalog, deployments, handlers>>

-------------------------------------------------------------------------------
NewRequest(h) ==
    \/ \E u \in Users, e \in Environments, items \in SUBSET Entities, d \in Deployments :
          StartCreate(h, u, e, items, d)
    \/ \E u \in Users, d \in Deployments : ReadToApprove(h, u, d)
    \/ \E d \in Deployments : ReadToDeploy(h, d)
    \/ \E d, target \in Deployments : ReadToRollback(h, d, target)

\* What the server does for a request it has taken on.
Continue(h) ==
    \/ \E v \in Entities : ValidateItem(h, v) \/ DeployItem(h, v) \/ FailItem(h, v)
    \/ RejectItem(h)
    \/ InsertDeployment(h)
    \/ RefuseInsert(h)
    \/ WriteApproval(h)
    \/ RefuseApproval(h)
    \/ BeginDeploy(h)
    \/ CommitDeploy(h)
    \/ WriteRollback(h)

Elsewhere ==
    \/ \E v \in Entities : RemoveEntity(v)
    \/ \E u \in Users : RemoveUser(u)
    \/ \E e \in Environments : RemoveEnvironment(e)

Next ==
    \/ \E h \in Handlers : NewRequest(h) \/ Continue(h) \/ DatabaseError(h)
    \/ Restart
    \/ Elsewhere

Spec == Init /\ [][Next]_vars

\* The event loop keeps serving a request, and the row lock it waits for is
\* granted in the order it was asked for.
FairSpec == Spec /\ \A h \in Handlers : SF_vars(Continue(h))

-------------------------------------------------------------------------------
(***************************************************************************)
(* Safety.                                                                 *)
(***************************************************************************)
\* Four eyes, under every interleaving of two approvals, a rollback and the
\* removal of an account: a deployment that got past PENDING by approval keeps
\* the mark of an approval, and whoever is on record for it is not its
\* requester (approveDeployment checks a row that may have changed since).
FourEyes ==
    \A d \in Deployments : Exists(d) =>
        /\ deployments[d].approvedBy # deployments[d].requestedBy
        /\ deployments[d].status \in {"APPROVED", "DEPLOYED"} => deployments[d].approvedAt
        /\ deployments[d].deployedAt => deployments[d].approvedAt

\* d was deployed, after an approval, and brought v into environment e.
Brought(d, v, e) ==
    /\ Exists(d)
    /\ deployments[d].environment = e
    /\ deployments[d].deployedAt
    /\ deployments[d].approvedAt
    /\ v \in deployments[d].items

\* Nothing is active that no approved deployment brought: no transaction that
\* failed half way leaves a version connected, whatever else runs meanwhile.
ActiveWasApproved ==
    \A e \in Environments : \A v \in active[e] :
        \E d \in Deployments : Brought(d, v, e)

\* The items of a deployment are deployed together or not at all, also when
\* the loop fails at a later item, the process dies or a version disappears
\* between the approval and the transaction.
AllOrNothing ==
    \A d \in Deployments : Exists(d) =>
        deployments[d].done = IF deployments[d].deployedAt THEN deployments[d].items ELSE {}

\* What a deployment brought stays active as long as the version exists, even
\* if the environment is deployed to again or other rows are removed.
DeployedIsActive ==
    \A d \in Deployments : Exists(d) /\ deployments[d].deployedAt =>
        deployments[d].items \cap Versions \cap catalog
            \subseteq active[deployments[d].environment]

\* The columns of the relations never point at a missing row, although every
\* handler checks its references well before it writes them.
NoDanglingReference ==
    /\ \A e \in Environments : active[e] \subseteq catalog
    /\ \A d \in Deployments : Exists(d) =>
          /\ deployments[d].environment \in environments
          /\ deployments[d].requestedBy \in users
          /\ deployments[d].approvedBy \in users \cup {NULL}
          /\ deployments[d].rollbackTo # NULL => Exists(deployments[d].rollbackTo)

\* What is still true of the row when a handler acts on a read it made before:
\* an approver is not the requester, a deployment about to be executed has been
\* approved, an open transaction has linked existing items of its deployment.
\* (The status it read may have changed: the life cycle below.)
SnapshotOf(h) ==
    LET handler == handlers[h]
        d == handlers[h].dep
    IN  /\ handler.pc # "idle" => d \in Deployments
        /\ handler.pc = "create" =>
              /\ ~Exists(d)
              /\ \A g \in Handlers \ {h} : handlers[g].dep # d
              /\ handler.todo \subseteq handler.items
        /\ handler.pc \in {"approve", "deploy", "transaction", "rollback"} => Exists(d)
        /\ handler.pc = "approve" => handler.user # deployments[d].requestedBy
        /\ handler.pc \in {"deploy", "transaction"} =>
              /\ deployments[d].approvedAt
              /\ handler.todo \cup handler.links = deployments[d].items
        /\ handler.pc = "transaction" => handler.links \cap Versions \subseteq catalog
        /\ handler.pc # "transaction" => handler.links = {}
        /\ handler.pc = "rollback" => handler.target \in Deployments /\ Exists(handler.target)

SnapshotsHold == \A h \in Handlers : SnapshotOf(h)

(***************************************************************************)
(* Refinement: with the request handling hidden this is the abstract       *)
(* governance of plans.                                                    *)
(***************************************************************************)
PlanOf(d) ==
    IF Exists(d)
    THEN [requester   |-> deployments[d].requestedBy,
          environment |-> deployments[d].environment,
          items       |-> deployments[d].items]
    ELSE NULL

ApproverOf(d) == IF Exists(d) THEN deployments[d].approvedBy ELSE NULL

Governance == INSTANCE DeploymentGovernance WITH
    plans     <- [d \in Deployments |-> PlanOf(d)],
    approver  <- [d \in Deployments |-> ApproverOf(d)],
    approved  <- {d \in Deployments : Exists(d) /\ deployments[d].approvedAt},
    activated <- {d \in Deployments : Exists(d) /\ deployments[d].deployedAt}

ASSUME NullIsNoPlan == NULL \notin Governance!Plan

\* Every step of the service is a step of the governance or invisible to it:
\* environments gain exactly the versions of a whole approved plan, plans are
\* never edited, and no approval is by the requester.
Governed == Governance!Spec

(***************************************************************************)
(* Liveness.                                                               *)
(***************************************************************************)
\* Every request is answered: no handler waits for ever on a row lock, on an
\* item whose version is gone or on a user who was removed meanwhile.
RequestsReturn == \A h \in Handlers : ~At(h, "idle") ~> At(h, "idle")
===============================================================================
