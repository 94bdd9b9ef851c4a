------------------------------ MODULE Publication ------------------------------
(***************************************************************************)
(* The marketplace life cycle of prompt versions (prompt-version.service)  *)
(* and of prompt asset versions (prompt-asset-version.service).            *)
(*                                                                         *)
(* A prompt version is published at once or left pending, as the tenant    *)
(* wants it; nothing approves it afterwards.  An asset version is always   *)
(* left pending and then approved or rejected.  Each handler reads, checks *)
(* what it read, writes in a later call without looking again, and those   *)
(* of asset versions log what they did after they have written it.         *)
(*                                                                         *)
(* One step is one database call with the code up to the next await; a     *)
(* request that its first read refuses changes nothing and is not a step.  *)
(* The row of a version never comes back under the same id.                *)
(***************************************************************************)
CONSTANTS
    Prompts,        \* prompt versions
    Assets,         \* prompt asset versions
    Users,
    Owner,          \* of the prompts; a user with prompts cannot be removed
    Approvers,      \* users who approve and reject
    Handlers,       \* requests in flight at the same time
    Failing,        \* those whose database calls may fail
    NULL

Versions == Prompts \cup Assets

ASSUME KindsAssumption == Prompts \cap Assets = {}
ASSUME UsersAssumption == Owner \in Users /\ Approvers \subseteq Users
ASSUME NullAssumption == NULL \notin Versions \cup Users

VARIABLES
    requiresApproval,   \* Tenant.marketplaceRequiresApproval
    users,              \* rows of User
    rows,               \* marketplace columns of PromptVersion and PromptAssetVersion
    handlers,           \* what each request holds between two database calls
    log,                \* rows of ActivityLog
    written,            \* history: which of the logged actions have been written
    failed              \* history: those whose request then ended with an error

tables == <<requiresApproval, users, rows, log>>
vars == <<requiresApproval, users, rows, handlers, log, written, failed>>

\* requested, approved, published: the time stamp is set.  The requester is in
\* no row: controllers hand on req.user.userId, which JwtStrategy never sets.
Row == [status    : {"NOT_PUBLISHED", "PENDING_APPROVAL", "PUBLISHED", "REJECTED"},
        requested : BOOLEAN,
        approved  : BOOLEAN,
        published : BOOLEAN,
        approver  : Users \cup {NULL},
        reason    : BOOLEAN]

ASSUME NullIsNoRow == NULL \notin Row

Unlisted == [status |-> "NOT_PUBLISHED", requested |-> FALSE, approved |-> FALSE,
             published |-> FALSE, approver |-> NULL, reason |-> FALSE]

Actions == {"PUBLISH", "UNPUBLISH", "APPROVE", "REJECT"}

Entry == [action : Actions, version : Assets, user : Users \cup {NULL}]

Handler == [pc       : {"idle", "project", "setting", "publish", "unpublish", "check", "submit",
                        "withdraw", "approve", "reject", "log"},
            version  : Versions \cup {NULL},
            user     : Users \cup {NULL},
            action   : Actions \cup {NULL},     \* to be logged
            required : BOOLEAN,                 \* requiresApproval
            waived   : BOOLEAN]                 \* history: not required at some time so far

Idle == [pc |-> "idle", version |-> NULL, user |-> NULL, action |-> NULL,
         required |-> TRUE, waived |-> FALSE]

Init ==
    /\ requiresApproval \in BOOLEAN
    /\ users = Users
    /\ rows = [v \in Versions |-> Unlisted]
    /\ handlers = [h \in Handlers |-> Idle]
    /\ log = {}
    /\ written = {}
    /\ failed = {}

At(h, pc) == handlers[h].pc = pc

Exists(v) == rows[v] # NULL

Start(h, pc, v, u) ==
    /\ At(h, "idle")
    /\ Exists(v)
    /\ handlers' = [handlers EXCEPT ![h] =
          [Idle EXCEPT !.pc = pc, !.version = v, !.user = u, !.waived = ~requiresApproval]]
    /\ UNCHANGED <<tables, written, failed>>

Return(h) == handlers' = [handlers EXCEPT ![h] = Idle]

Answer(h) == Return(h) /\ UNCHANGED <<tables, written, failed>>

\* The update of the row that handler h has read before.
Update(h, row) ==
    /\ Exists(handlers[h].version)
    /\ rows' = [rows EXCEPT ![handlers[h].version] = row]
    /\ UNCHANGED <<requiresApproval, users, log, failed>>

Held(h) == rows[handlers[h].version]

-------------------------------------------------------------------------------
(***************************************************************************)
(* Prompt versions.                                                        *)
(***************************************************************************)
\* requestPublish asks for no particular status.
ReadToPublish(h, v) == v \in Prompts /\ Start(h, "project", v, NULL)

\* The project of the prompt; with the prompt its versions would be gone too.
ReadProject(h) ==
    /\ At(h, "project")
    /\ handlers' = [handlers EXCEPT ![h].pc = "setting"]
    /\ UNCHANGED <<tables, written, failed>>

RefuseProject(h) ==
    /\ At(h, "project")
    /\ ~Exists(handlers[h].version)
    /\ Answer(h)

\* getMarketplaceRequiresApproval; a tenant with prompts cannot be removed.
ReadSetting(h) ==
    /\ At(h, "setting")
    /\ handlers' = [handlers EXCEPT ![h].pc = "publish", ![h].required = requiresApproval]
    /\ UNCHANGED <<tables, written, failed>>

\* Mutant of WritePublish: the setting is not asked.
WritePublishAtOnce(h) ==
    /\ At(h, "publish")
    /\ Update(h, [Unlisted EXCEPT !.status = "PUBLISHED", !.requested = TRUE, !.published = TRUE])
    /\ Return(h)
    /\ UNCHANGED written

WritePublish(h) ==
    /\ At(h, "publish")
    /\ Update(h, IF handlers[h].required
                 THEN [Unlisted EXCEPT !.status = "PENDING_APPROVAL", !.requested = TRUE]
                 ELSE [Unlisted EXCEPT !.status = "PUBLISHED", !.requested = TRUE,
                                       !.published = TRUE])
    /\ Return(h)
    /\ UNCHANGED written

ReadToUnpublish(h, v) ==
    /\ v \in Prompts
    /\ Start(h, "unpublish", v, NULL)
    /\ rows[v].status # "NOT_PUBLISHED"

WriteUnpublish(h) ==
    /\ At(h, "unpublish")
    /\ Update(h, Unlisted)
    /\ Return(h)
    /\ UNCHANGED written

-------------------------------------------------------------------------------
(***************************************************************************)
(* Prompt asset versions.  approvePublish and rejectPublish have no HTTP   *)
(* caller yet.                                                             *)
(***************************************************************************)
\* The controller looks for the version by its tag, the service by its id.
ReadToSubmit(h, v) == v \in Assets /\ Start(h, "check", v, NULL)

CheckSubmit(h) ==
    /\ At(h, "check")
    /\ Exists(handlers[h].version)
    /\ Held(h).status \notin {"PUBLISHED", "PENDING_APPROVAL"}
    /\ handlers' = [handlers EXCEPT ![h].pc = "submit"]
    /\ UNCHANGED <<tables, written, failed>>

RefuseSubmit(h) ==
    /\ At(h, "check")
    /\ Exists(handlers[h].version) => Held(h).status \in {"PUBLISHED", "PENDING_APPROVAL"}
    /\ Answer(h)

\* From the update to the activity log, with the user to be named there.
GoOnToLog(h, action, user) ==
    /\ handlers' = [handlers EXCEPT ![h].pc = "log", ![h].action = action, ![h].user = user]
    /\ written' = written \cup
          {[action |-> action, version |-> handlers[h].version, user |-> user]}

\* The user is undefined: the requester's column is not touched.
WriteSubmit(h) ==
    /\ At(h, "submit")
    /\ Update(h, [Held(h) EXCEPT !.status = "PENDING_APPROVAL", !.requested = TRUE])
    /\ GoOnToLog(h, "PUBLISH", NULL)

ReadToWithdraw(h, v) ==
    /\ v \in Assets
    /\ Start(h, "withdraw", v, NULL)
    /\ rows[v].status = "PUBLISHED"

WriteWithdraw(h) ==
    /\ At(h, "withdraw")
    /\ Update(h, [Held(h) EXCEPT !.status = "NOT_PUBLISHED", !.published = FALSE])
    /\ GoOnToLog(h, "UNPUBLISH", Owner)

ReadToApprove(h, v, u) ==
    /\ v \in Assets
    /\ Start(h, "approve", v, u)
    /\ rows[v].status = "PENDING_APPROVAL"

\* Mutant of WriteApprove: the approver is not recorded.
WriteApproveAnonymously(h) ==
    /\ At(h, "approve")
    /\ handlers[h].user \in users
    /\ Update(h, [Held(h) EXCEPT !.status = "PUBLISHED", !.approved = TRUE])
    /\ GoOnToLog(h, "APPROVE", handlers[h].user)

\* publishedAt stays as it is.
WriteApprove(h) ==
    /\ At(h, "approve")
    /\ handlers[h].user \in users
    /\ Update(h, [Held(h) EXCEPT !.status = "PUBLISHED", !.approved = TRUE,
                                 !.approver = handlers[h].user])
    /\ GoOnToLog(h, "APPROVE", handlers[h].user)

ReadToReject(h, v, u) ==
    /\ v \in Assets
    /\ Start(h, "reject", v, u)
    /\ rows[v].status = "PENDING_APPROVAL"

\* Mutant of WriteReject: answers without a word in the activity log.
WriteRejectUnlogged(h) ==
    /\ At(h, "reject")
    /\ handlers[h].user \in users
    /\ Update(h, [Held(h) EXCEPT !.status = "REJECTED", !.approved = FALSE,
                                 !.approver = handlers[h].user, !.reason = TRUE])
    /\ written' = written \cup
          {[action |-> "REJECT", version |-> handlers[h].version, user |-> handlers[h].user]}
    /\ Return(h)

WriteReject(h) ==
    /\ At(h, "reject")
    /\ handlers[h].user \in users
    /\ Update(h, [Held(h) EXCEPT !.status = "REJECTED", !.approved = FALSE,
                                 !.approver = handlers[h].user, !.reason = TRUE])
    /\ GoOnToLog(h, "REJECT", handlers[h].user)

\* An update of a row that is gone, or naming a user who is.
RefuseWrite(h) ==
    /\ \/ handlers[h].pc \in {"publish", "unpublish", "submit", "withdraw"}
             /\ ~Exists(handlers[h].version)
       \/ handlers[h].pc \in {"approve", "reject"}
             /\ ~(Exists(handlers[h].version) /\ handlers[h].user \in users)
    /\ Answer(h)

-------------------------------------------------------------------------------
(***************************************************************************)
(* ActivityLogService.logActivity: ActivityLog.userId is a foreign key and *)
(* must be given; the error reaches the client.                            *)
(***************************************************************************)
EntryOf(h) ==
    [action |-> handlers[h].action, version |-> handlers[h].version, user |-> handlers[h].user]

LogActivity(h) ==
    /\ At(h, "log")
    /\ handlers[h].user \in users
    /\ log' = log \cup {EntryOf(h)}
    /\ Return(h)
    /\ UNCHANGED <<requiresApproval, users, rows, written, failed>>

FailToLog(h) ==
    /\ At(h, "log")
    /\ handlers[h].user \notin users
    /\ failed' = failed \cup {EntryOf(h)}
    /\ Return(h)
    /\ UNCHANGED <<tables, written>>

\* Any call may fail; a restart is a failure of every request.
DatabaseError(h) ==
    /\ h \in Failing
    /\ ~At(h, "idle")
    /\ failed' = failed \cup (IF At(h, "log") THEN {EntryOf(h)} ELSE {})
    /\ Return(h)
    /\ UNCHANGED <<tables, written>>

-------------------------------------------------------------------------------
(***************************************************************************)
(* What other services do meanwhile.                                       *)
(***************************************************************************)
\* TenantService.update.
SetRequiresApproval ==
    /\ requiresApproval' = ~requiresApproval
    /\ handlers' = [h \in Handlers |->
          IF At(h, "idle") \/ requiresApproval' THEN handlers[h]
          ELSE [handlers[h] EXCEPT !.waived = TRUE]]
    /\ UNCHANGED <<users, rows, log, written, failed>>

\* The version itself, its prompt or its asset.
RemoveVersion(v) ==
    /\ Exists(v)
    /\ rows' = [rows EXCEPT ![v] = NULL]
    /\ UNCHANGED <<requiresApproval, users, handlers, log, written, failed>>

\* Mutant of RemoveUser: the approver's column is forgotten.
RemoveUserOnly(u) ==
    /\ u \in users
    /\ u # Owner
    /\ \A entry \in log : entry.user # u
    /\ users' = users \ {u}
    /\ UNCHANGED <<requiresApproval, rows, handlers, log, written, failed>>

\* The keys of ActivityLog and Prompt forbid it, those of the rows are set null.
RemoveUser(u) ==
    /\ u \in users
    /\ u # Owner
    /\ \A entry \in log : entry.user # u
    /\ users' = users \ {u}
    /\ rows' = [v \in Versions |->
          IF Exists(v) /\ rows[v].approver = u THEN [rows[v] EXCEPT !.approver = NULL] ELSE rows[v]]
    /\ UNCHANGED <<requiresApproval, handlers, log, written, failed>>

NewRequest(h) ==
    \E v \in Versions :
        \/ ReadToPublish(h, v)
        \/ ReadToUnpublish(h, v)
        \/ ReadToSubmit(h, v)
        \/ ReadToWithdraw(h, v)
        \/ \E u \in Approvers : ReadToApprove(h, v, u) \/ ReadToReject(h, v, u)

Continue(h) ==
    \/ ReadProject(h)
    \/ RefuseProject(h)
    \/ ReadSetting(h)
    \/ WritePublish(h)
    \/ WriteUnpublish(h)
    \/ CheckSubmit(h)
    \/ RefuseSubmit(h)
    \/ WriteSubmit(h)
    \/ WriteWithdraw(h)
    \/ WriteApprove(h)
    \/ WriteReject(h)
    \/ RefuseWrite(h)
    \/ LogActivity(h)
    \/ FailToLog(h)
    \/ DatabaseError(h)

Elsewhere ==
    \/ SetRequiresApproval
    \/ \E v \in Versions : RemoveVersion(v)
    \/ \E u \in Users : RemoveUser(u)

Next == (\E h \in Handlers : NewRequest(h) \/ Continue(h)) \/ Elsewhere

Spec == Init /\ [][Next]_vars

-------------------------------------------------------------------------------
\* MarketplaceService: what the tenant's marketplace lists.
PublishedPrompts == {v \in Prompts : Exists(v) /\ rows[v].status = "PUBLISHED"}

PublishedAssets == {v \in Assets : Exists(v) /\ rows[v].status = "PUBLISHED"}

\* Types; the users that rows of the database name are there.
TypeOK ==
    /\ requiresApproval \in BOOLEAN
    /\ users \subseteq Users
    /\ rows \in [Versions -> Row \cup {NULL}]
    /\ handlers \in [Handlers -> Handler]
    /\ log \subseteq Entry /\ written \subseteq Entry /\ failed \subseteq Entry
    /\ \A entry \in log : entry.user \in users
    /\ \A v \in Versions : Exists(v) => rows[v].approver \in users \cup {NULL}

\* The request of a prompt version reads the tenant's setting and publishes in a
\* later call: a version appears in the marketplace only by a request in whose
\* time the setting asked for no approval, although no longer perhaps.
PublishedOnlyWaived ==
    [][\A v \in PublishedPrompts' \ PublishedPrompts :
          \E h \in Handlers : /\ At(h, "publish")
                              /\ handlers[h].version = v
                              /\ handlers[h].waived]_vars

\* Whatever order requests, approvals, rejections and removals come in, an asset
\* version in the marketplace has been approved, and its row names the last who
\* did so for as long as that user exists.
ListedIsApproved ==
    \A v \in PublishedAssets :
        /\ rows[v].requested /\ rows[v].approved
        /\ \E u \in Users :
              /\ [action |-> "APPROVE", version |-> v, user |-> u] \in written
              /\ rows[v].approver = IF u \in users THEN u ELSE NULL

\* The activity log is written after the rows and not with them.  Nothing is in
\* it that has not been done, and what is missing from it is still to be logged
\* or its request was answered with an error.
LogIsAccountable ==
    /\ log \subseteq written
    /\ written \subseteq log \cup failed \cup {EntryOf(h) : h \in {g \in Handlers : At(g, "log")}}
===============================================================================
