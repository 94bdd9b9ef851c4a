-------------------------------- MODULE Accounts -------------------------------
(***************************************************************************)
(* Tenants, their users, the users' API keys and the projects: who may ask *)
(* for what, and what is left when a request fails half-way.               *)
(*                                                                         *)
(* A new tenant is set up in three calls without a transaction: look for   *)
(* the name, insert the tenant, insert its first administrator.  When the  *)
(* last one fails, a compensating call deletes the tenant again.  Other    *)
(* requests go on in between, and the process may die.                     *)
(*                                                                         *)
(* One step is one database call with the code up to the next await.  The  *)
(* first step of a request authenticates it: the row of the user is read,  *)
(* by the id in the token or through the API key, and the request acts as  *)
(* what was read until it is answered.  The ids of tenants, users and keys *)
(* are never used twice; the id of a project is the slug of its name.      *)
(* Passwords, signatures and the time a token lives are left out.          *)
(*                                                                         *)
(* Registration names its tenant by an id fixed in the code, which is to   *)
(* be replaced by that of a real one (auth.service.ts:13): no tenant is    *)
(* ever given it, and until it is replaced registration fails.             *)
(***************************************************************************)
EXTENDS Naturals, FiniteSets

CONSTANTS
    Tenants, Users, Keys,   \* ids
    Projects,               \* slugs
    Names, Emails,
    Requests,               \* what is asked for
    Handlers,               \* requests in flight at the same time
    Default,                \* DEFAULT_TENANT_ID, the tenant of who registers
    Seeded,                 \* the tenant the seed creates, with an id of its own
    Root, RootEmail,        \* the user the seed creates, and its email
    RootName,               \* the name of the seeded tenant
    NULL

Roles == {"admin", "tenant_admin", "user"}

OfTenant == {"onboard", "updateTenant", "removeTenant"}
OfUser == {"createUser", "updateUser", "removeUser"}
OfKey == {"createKey", "updateKey", "revokeKey"}
OfProject == {"createProject", "updateProject", "removeProject"}

Ops == OfTenant \cup OfUser \cup OfKey \cup OfProject \cup {"register"}

\* by: the user who asks; id: the row that is asked for; the other fields are what the body gives,
\* NULL when it does not give them.
IsRequest(q) ==
    /\ q.op \in Ops
    /\ q.by \in (IF q.op = "register" THEN {NULL} ELSE Users)
    /\ q.op \in {"updateTenant", "removeTenant"} => q.id \in Tenants
    /\ q.op \in {"updateUser", "removeUser"} => q.id \in Users
    /\ q.op \in {"updateKey", "revokeKey"} => q.id \in Keys
    /\ q.op \in OfProject => q.id \in Projects
    /\ q.name \in Names
    /\ q.email \in Emails \cup (IF q.op = "updateUser" THEN {NULL} ELSE {})
    /\ q.tenant \in Tenants \cup {NULL}
    /\ q.role \in Roles \cup (IF q.op = "updateUser" THEN {NULL} ELSE {})
    /\ q.revoked \in {"yes", "no", "asis"}

ASSUME RequestsAssumption == \A q \in Requests : IsRequest(q)
ASSUME RootAssumption ==
    {Default, Seeded} \subseteq Tenants /\ Root \in Users /\ RootEmail \in Emails /\ RootName \in Names
ASSUME NullAssumption ==
    NULL \notin Tenants \cup Users \cup Keys \cup Projects \cup Names \cup Emails \cup Roles

VARIABLES
    tenants,    \* names of the rows of Tenant
    users,      \* rows of User
    keys,       \* rows of ApiKey
    projects,   \* rows of Project
    used,       \* ids that have been handed out
    handlers,   \* what each request holds between two database calls
    settled,    \* history: how the setting up of each tenant ended
    peopled,    \* history: tenants that have had a user
    shut        \* history: keys that were revoked, and that nobody enabled again

vars == <<tenants, users, keys, projects, used, handlers, settled, peopled, shut>>

User == [email : Emails, tenant : Tenants, role : Roles]
Key == [user : Users, revoked : BOOLEAN, expired : BOOLEAN]
Project == [tenant : Tenants, owner : Users, name : Names]

ASSUME NullIsNoRow == NULL \notin User \cup Key \cup Project \cup Requests

Handler == [pc      : {"idle", "read", "name", "write", "user", "undo"},
            request : Requests \cup {NULL},
            home    : Tenants \cup {NULL},      \* req.user.tenantId
            tenant  : Tenants \cup {NULL},      \* that is being set up, or that a new user goes to
            seen    : Key \cup {NULL},          \* the key as it was read
            true    : Tenants \cup {NULL},      \* history: the tenant of the user at authentication
            barred  : BOOLEAN]                  \* history: came with a key that was revoked

Idle == [pc |-> "idle", request |-> NULL, home |-> NULL, tenant |-> NULL,
         seen |-> NULL, true |-> NULL, barred |-> FALSE]

\* What the seed leaves behind: one tenant with one administrator.  The id that
\* registration names is not handed out.
Init ==
    /\ tenants = [t \in Tenants |-> IF t = Seeded THEN RootName ELSE NULL]
    /\ users = [u \in Users |->
          IF u = Root THEN [email |-> RootEmail, tenant |-> Seeded, role |-> "admin"] ELSE NULL]
    /\ keys = [k \in Keys |-> NULL]
    /\ projects = [p \in Projects |-> NULL]
    /\ used = {Default, Seeded, Root}
    /\ handlers = [h \in Handlers |-> Idle]
    /\ settled = [t \in Tenants |-> "not"]
    /\ peopled = {Seeded}
    /\ shut = {}

-------------------------------------------------------------------------------
At(h, pc) == handlers[h].pc = pc

Asked(h) == handlers[h].request

Calls(h, pc, op) == At(h, pc) /\ Asked(h).op = op

Row(h) == Asked(h).id

GoTo(h, pc) == handlers' = [handlers EXCEPT ![h].pc = pc]

Answer(h) == handlers' = [handlers EXCEPT ![h] = Idle]

Fresh(ids) == ids \ used

\* Users with an email; the column is unique.
Having(email) == {u \in Users : users[u] # NULL /\ users[u].email = email}

OwnedBy(owners) == {p \in Projects : projects[p] # NULL /\ projects[p].owner \in owners}

Settle(t, how) == settled' = [settled EXCEPT ![t] = how]

-------------------------------------------------------------------------------
(***************************************************************************)
(* Who asks.                                                               *)
(***************************************************************************)
FirstCall(q) ==
    CASE q.op = "onboard" -> "name"
      [] q.op \in {"register", "createUser", "createKey"} -> "write"
      [] OTHER -> "read"

\* The endpoints that only administrators may call.
NeedsAdmin == OfTenant \cup OfUser \cup {"createProject"}

\* RolesGuard.
Admits(q) == q.op \in NeedsAdmin => users[q.by].role \in {"admin", "tenant_admin"}

\* Where a new user goes: a tenant administrator may name another tenant.
TenantOfNew(q) ==
    CASE q.op = "register" -> Default
      [] q.op = "createUser" ->
            IF users[q.by].role = "tenant_admin" /\ q.tenant # NULL THEN q.tenant ELSE users[q.by].tenant
      [] OTHER -> NULL

Begin(h, q, home, barred) ==
    /\ At(h, "idle")
    /\ handlers' = [handlers EXCEPT ![h] =
          [Idle EXCEPT !.pc = FirstCall(q), !.request = q, !.home = home,
                       !.tenant = TenantOfNew(q),
                       !.true = IF q.by = NULL THEN NULL ELSE users[q.by].tenant,
                       !.barred = barred]]
    /\ UNCHANGED <<tenants, users, keys, projects, used, settled, peopled, shut>>

\* Anybody may register, in the default tenant if there is one.
Register(h, q) ==
    /\ q.op = "register"
    /\ Begin(h, q, NULL, FALSE)

\* Mutant of ByToken: the request acts for a tenant its token was made for.
ByTokenAlone(h, q) ==
    /\ q.op # "register"
    /\ users[q.by] # NULL
    /\ Admits(q)
    /\ \E t \in peopled : Begin(h, q, t, FALSE)

\* Of the token only the id of the user is believed.
ByToken(h, q) ==
    /\ q.op # "register"
    /\ users[q.by] # NULL
    /\ Admits(q)
    /\ Begin(h, q, users[q.by].tenant, FALSE)

\* Mutant of Opens: revoked is not looked at.
OpensUntilExpired(k) == keys[k] # NULL /\ ~keys[k].expired

\* ApiKeyService.findUserByApiKey returns the user of the key.
Opens(k) == keys[k] # NULL /\ ~keys[k].revoked /\ ~keys[k].expired

\* Tenants and projects want a token.
ByKey(h, q, k) ==
    /\ q.op \in OfUser \cup OfKey
    /\ Opens(k)
    /\ keys[k].user = q.by
    /\ Admits(q)
    /\ Begin(h, q, users[q.by].tenant, k \in shut)

-------------------------------------------------------------------------------
(***************************************************************************)
(* Tenants.                                                                *)
(***************************************************************************)
OfHome(h) == projects[Row(h)] # NULL /\ projects[Row(h)].tenant = handlers[h].home

\* The rows a request looks up before it writes.
Readable(h) ==
    CASE Asked(h).op \in OfTenant -> tenants[Row(h)] # NULL
      [] Asked(h).op \in OfUser -> users[Row(h)] # NULL
      [] Asked(h).op \in OfKey -> keys[Row(h)] # NULL /\ keys[Row(h)].user = Asked(h).by
      [] Asked(h).op = "createProject" -> ~OfHome(h)
      [] OTHER -> OfHome(h)

Read(h) ==
    /\ At(h, "read")
    /\ Readable(h)
    /\ handlers' = [handlers EXCEPT
          ![h].pc = IF Asked(h).op = "updateTenant" /\ Asked(h).name # tenants[Row(h)]
                    THEN "name" ELSE "write",
          ![h].seen = IF Asked(h).op \in OfKey THEN keys[Row(h)] ELSE NULL]
    /\ UNCHANGED <<tenants, users, keys, projects, used, settled, peopled, shut>>

\* findFirst finds no tenant with the name, or the one that is renamed.
CheckName(h) ==
    /\ At(h, "name")
    /\ \/ \A t \in Tenants : tenants[t] # Asked(h).name
       \/ Asked(h).op = "updateTenant" /\ tenants[Row(h)] = Asked(h).name
    /\ GoTo(h, "write")
    /\ UNCHANGED <<tenants, users, keys, projects, used, settled, peopled, shut>>

InsertTenant(h) ==
    /\ Calls(h, "write", "onboard")
    /\ \E t \in Fresh(Tenants) :
          /\ tenants' = [tenants EXCEPT ![t] = Asked(h).name]
          /\ used' = used \cup {t}
          /\ Settle(t, "open")
          /\ handlers' = [handlers EXCEPT ![h].pc = "user", ![h].tenant = t]
    /\ UNCHANGED <<users, keys, projects, peopled, shut>>

\* Deleting a tenant takes its users, their keys and its projects with it.  The
\* database refuses when one of the users owns a project of another tenant; of
\* its own projects it may refuse as well, by the order it follows.
Members(t) == {u \in Users : users[u] # NULL /\ users[u].tenant = t}

Deletable(t) == tenants[t] # NULL /\ \A p \in OwnedBy(Members(t)) : projects[p].tenant = t

\* Mutant of Cascade: as if the relation of a key to its user had no onDelete and
\* no foreign key.
CascadeToUsers(gone) ==
    /\ tenants' = [t \in Tenants |-> IF t \in gone THEN NULL ELSE tenants[t]]
    /\ users' = [u \in Users |-> IF \E t \in gone : u \in Members(t) THEN NULL ELSE users[u]]
    /\ projects' = [p \in Projects |->
          IF projects[p] # NULL /\ projects[p].tenant \in gone THEN NULL ELSE projects[p]]
    /\ UNCHANGED keys

Cascade(gone) ==
    /\ tenants' = [t \in Tenants |-> IF t \in gone THEN NULL ELSE tenants[t]]
    /\ users' = [u \in Users |-> IF \E t \in gone : u \in Members(t) THEN NULL ELSE users[u]]
    /\ keys' = [k \in Keys |->
          IF keys[k] # NULL /\ (\E t \in gone : keys[k].user \in Members(t)) THEN NULL ELSE keys[k]]
    /\ projects' = [p \in Projects |->
          IF projects[p] # NULL /\ projects[p].tenant \in gone THEN NULL ELSE projects[p]]

\* Mutant of Undo: the tenant is looked for by its name.
UndoByName(h) ==
    /\ At(h, "undo")
    /\ \E t \in Tenants :
          /\ tenants[t] = Asked(h).name
          /\ Deletable(t)
          /\ Cascade({t})
    /\ Settle(handlers[h].tenant, "undone")
    /\ Answer(h)
    /\ UNCHANGED <<used, peopled, shut>>

\* The compensating call; then the error of the insertion is thrown on.
Undo(h) ==
    /\ At(h, "undo")
    /\ Deletable(handlers[h].tenant)
    /\ Cascade({handlers[h].tenant})
    /\ Settle(handlers[h].tenant, "undone")
    /\ Answer(h)
    /\ UNCHANGED <<used, peopled, shut>>

\* It fails: the tenant is gone already, cannot be deleted, or the call fails.
UndoFails(h) ==
    /\ At(h, "undo")
    /\ Settle(handlers[h].tenant, "left")
    /\ Answer(h)
    /\ UNCHANGED <<tenants, users, keys, projects, used, peopled, shut>>

UpdateTenant(h) ==
    /\ Calls(h, "write", "updateTenant")
    /\ tenants[Row(h)] # NULL
    /\ tenants' = [tenants EXCEPT ![Row(h)] = Asked(h).name]
    /\ Answer(h)
    /\ UNCHANGED <<users, keys, projects, used, settled, peopled, shut>>

RemoveTenant(h) ==
    /\ Calls(h, "write", "removeTenant")
    /\ Deletable(Row(h))
    /\ Cascade({Row(h)})
    /\ Settle(Row(h), "removed")
    /\ Answer(h)
    /\ UNCHANGED <<used, peopled, shut>>

-------------------------------------------------------------------------------
(***************************************************************************)
(* Users.                                                                  *)
(***************************************************************************)
\* UserService.create inserts a row, unless the email is taken or the tenant gone.
InsertUser(email, tenant, role) ==
    /\ tenants[tenant] # NULL
    /\ Having(email) = {}
    /\ \E u \in Fresh(Users) :
          /\ users' = [users EXCEPT ![u] = [email |-> email, tenant |-> tenant, role |-> role]]
          /\ used' = used \cup {u}
    /\ peopled' = peopled \cup {tenant}

\* The last call of the setting up of a tenant.
InsertAdmin(h) ==
    /\ At(h, "user")
    /\ InsertUser(Asked(h).email, handlers[h].tenant, "tenant_admin")
    /\ Settle(handlers[h].tenant, "done")
    /\ Answer(h)
    /\ UNCHANGED <<tenants, keys, projects, shut>>

\* Mutant of AdminFails: the error is answered and the tenant stays.
AdminFailsQuietly(h) ==
    /\ At(h, "user")
    /\ Settle(handlers[h].tenant, "undone")
    /\ Answer(h)
    /\ UNCHANGED <<tenants, users, keys, projects, used, peopled, shut>>

\* The email is taken, the tenant was removed, or the call fails.
AdminFails(h) ==
    /\ At(h, "user")
    /\ GoTo(h, "undo")
    /\ UNCHANGED <<tenants, users, keys, projects, used, settled, peopled, shut>>

CreateUser(h) ==
    /\ At(h, "write")
    /\ Asked(h).op \in {"register", "createUser"}
    /\ InsertUser(Asked(h).email, handlers[h].tenant,
                  IF Asked(h).op = "register" THEN "user" ELSE Asked(h).role)
    /\ Answer(h)
    /\ UNCHANGED <<tenants, keys, projects, settled, shut>>

Given(new, old) == IF new = NULL THEN old ELSE new

\* The body may move the user to another tenant.
UpdateUser(h) ==
    /\ Calls(h, "write", "updateUser")
    /\ users[Row(h)] # NULL
    /\ Asked(h).email # NULL => Having(Asked(h).email) \subseteq {Row(h)}
    /\ Asked(h).tenant # NULL => tenants[Asked(h).tenant] # NULL
    /\ users' = [users EXCEPT ![Row(h)] =
          [email  |-> Given(Asked(h).email, @.email),
           tenant |-> Given(Asked(h).tenant, @.tenant),
           role   |-> Given(Asked(h).role, @.role)]]
    /\ peopled' = peopled \cup ({Asked(h).tenant} \ {NULL})
    /\ Answer(h)
    /\ UNCHANGED <<tenants, keys, projects, used, settled, shut>>

\* Not of a user who owns a project; the keys go with the user.
RemoveUser(h) ==
    /\ Calls(h, "write", "removeUser")
    /\ users[Row(h)] # NULL
    /\ OwnedBy({Row(h)}) = {}
    /\ users' = [users EXCEPT ![Row(h)] = NULL]
    /\ keys' = [k \in Keys |->
          IF keys[k] # NULL /\ keys[k].user = Row(h) THEN NULL ELSE keys[k]]
    /\ Answer(h)
    /\ UNCHANGED <<tenants, projects, used, settled, peopled, shut>>

-------------------------------------------------------------------------------
(***************************************************************************)
(* API keys.                                                               *)
(***************************************************************************)
CreateKey(h) ==
    /\ Calls(h, "write", "createKey")
    /\ users[Asked(h).by] # NULL
    /\ \E k \in Fresh(Keys) :
          /\ keys' = [keys EXCEPT ![k] =
                [user |-> Asked(h).by, revoked |-> FALSE, expired |-> FALSE]]
          /\ used' = used \cup {k}
    /\ Answer(h)
    /\ UNCHANGED <<tenants, users, projects, settled, peopled, shut>>

\* What the owner has been told about revocation.
Told(h, revoked) ==
    shut' = CASE revoked = "yes" -> shut \cup {Row(h)}
              [] revoked = "no" -> shut \ {Row(h)}
              [] revoked = "asis" -> shut

\* Mutant of UpdateKey: the whole row is written back as it was read.
WriteBackKey(h) ==
    /\ Calls(h, "write", "updateKey")
    /\ keys[Row(h)] # NULL
    /\ keys' = [keys EXCEPT ![Row(h)] =
          [handlers[h].seen EXCEPT !.revoked =
              IF Asked(h).revoked = "asis" THEN @ ELSE Asked(h).revoked = "yes"]]
    /\ Told(h, Asked(h).revoked)
    /\ Answer(h)
    /\ UNCHANGED <<tenants, users, projects, used, settled, peopled>>

\* An update writes what the body gives: it may revoke, or enable again, and give
\* expiresAt any time, past or to come.
UpdateKey(h) ==
    /\ Calls(h, "write", "updateKey")
    /\ keys[Row(h)] # NULL
    /\ \E expired \in BOOLEAN :
          keys' = [keys EXCEPT
              ![Row(h)].revoked = IF Asked(h).revoked = "asis" THEN @ ELSE Asked(h).revoked = "yes",
              ![Row(h)].expired = expired]
    /\ Told(h, Asked(h).revoked)
    /\ Answer(h)
    /\ UNCHANGED <<tenants, users, projects, used, settled, peopled>>

RevokeKey(h) ==
    /\ Calls(h, "write", "revokeKey")
    /\ keys[Row(h)] # NULL
    /\ keys' = [keys EXCEPT ![Row(h)].revoked = TRUE]
    /\ Told(h, "yes")
    /\ Answer(h)
    /\ UNCHANGED <<tenants, users, projects, used, settled, peopled>>

\* expiresAt passes.
Expire(k) ==
    /\ keys[k] # NULL /\ ~keys[k].expired
    /\ keys' = [keys EXCEPT ![k].expired = TRUE]
    /\ UNCHANGED <<tenants, users, projects, used, handlers, settled, peopled, shut>>

-------------------------------------------------------------------------------
(***************************************************************************)
(* Projects.                                                               *)
(***************************************************************************)
\* The slug is taken by whatever tenant has it.
CreateProject(h) ==
    /\ Calls(h, "write", "createProject")
    /\ projects[Row(h)] = NULL
    /\ tenants[handlers[h].home] # NULL
    /\ users[Asked(h).by] # NULL
    /\ projects' = [projects EXCEPT ![Row(h)] =
          [tenant |-> handlers[h].home, owner |-> Asked(h).by, name |-> Asked(h).name]]
    /\ Answer(h)
    /\ UNCHANGED <<tenants, users, keys, used, settled, peopled, shut>>

\* Mutant of Mine: by its primary key alone.
MineBySlug(h) == projects[Row(h)] # NULL

\* The row is written where id and tenantId are those of the request.
Mine(h) == projects[Row(h)] # NULL /\ projects[Row(h)].tenant = handlers[h].home

UpdateProject(h) ==
    /\ Calls(h, "write", "updateProject")
    /\ Mine(h)
    /\ projects' = [projects EXCEPT ![Row(h)].name = Asked(h).name]
    /\ Answer(h)
    /\ UNCHANGED <<tenants, users, keys, used, settled, peopled, shut>>

RemoveProject(h) ==
    /\ Calls(h, "write", "removeProject")
    /\ Mine(h)
    /\ projects' = [projects EXCEPT ![Row(h)] = NULL]
    /\ Answer(h)
    /\ UNCHANGED <<tenants, users, keys, used, settled, peopled, shut>>

-------------------------------------------------------------------------------
\* A check fails, a row is gone, a key is taken or a call fails: an error is
\* answered and nothing was written.
Refuse(h) ==
    /\ handlers[h].pc \in {"read", "name", "write"}
    /\ Answer(h)
    /\ UNCHANGED <<tenants, users, keys, projects, used, settled, peopled, shut>>

\* The process dies; what is set up half-way stays.
Crash ==
    /\ \E h \in Handlers : ~At(h, "idle")
    /\ handlers' = [h \in Handlers |-> Idle]
    /\ settled' = [t \in Tenants |-> IF settled[t] = "open" THEN "left" ELSE settled[t]]
    /\ UNCHANGED <<tenants, users, keys, projects, used, peopled, shut>>

NewRequest(h) ==
    \E q \in Requests :
        \/ Register(h, q)
        \/ ByToken(h, q)
        \/ \E k \in Keys : ByKey(h, q, k)

Call(h) ==
    \/ Read(h) \/ CheckName(h)
    \/ InsertTenant(h) \/ InsertAdmin(h) \/ AdminFails(h) \/ Undo(h) \/ UndoFails(h)
    \/ UpdateTenant(h) \/ RemoveTenant(h)
    \/ CreateUser(h) \/ UpdateUser(h) \/ RemoveUser(h)
    \/ CreateKey(h) \/ UpdateKey(h) \/ RevokeKey(h)
    \/ CreateProject(h) \/ UpdateProject(h) \/ RemoveProject(h)
    \/ Refuse(h)

Next ==
    \/ \E h \in Handlers : NewRequest(h) \/ Call(h)
    \/ \E k \in Keys : Expire(k)
    \/ Crash

Spec == Init /\ [][Next]_vars

-------------------------------------------------------------------------------
(***************************************************************************)
(* Properties.                                                             *)
(***************************************************************************)
\* What the foreign keys promise: a user has its tenant, a key its user, a
\* project its tenant and its owner.
References ==
    /\ \A u \in Users : users[u] # NULL => tenants[users[u].tenant] # NULL
    /\ \A k \in Keys : keys[k] # NULL => users[keys[k].user] # NULL
    /\ \A p \in Projects : projects[p] # NULL =>
          tenants[projects[p].tenant] # NULL /\ users[projects[p].owner] # NULL

\* The types of the tables and of what requests hold; cascading deletes leave no
\* row behind that refers to one that is gone.
TypeOK ==
    /\ tenants \in [Tenants -> Names \cup {NULL}]
    /\ users \in [Users -> User \cup {NULL}]
    /\ keys \in [Keys -> Key \cup {NULL}]
    /\ projects \in [Projects -> Project \cup {NULL}]
    /\ used \subseteq Tenants \cup Users \cup Keys
    /\ handlers \in [Handlers -> Handler]
    /\ settled \in [Tenants -> {"not", "open", "done", "undone", "left", "removed"}]
    /\ peopled \subseteq Tenants
    /\ shut \subseteq Keys
    /\ References

\* Setting up a tenant is all or nothing, whatever other requests do meanwhile to
\* the tenant, its name or the email: one that was answered with success keeps its
\* tenant until it is removed, one that was answered with an error has none left,
\* and a tenant that never had a user is being set up, or was left behind by a
\* crash or by a compensating call that failed.
SetUpWhole ==
    \A t \in Tenants :
        /\ settled[t] = "done" => tenants[t] # NULL /\ t \in peopled
        /\ settled[t] = "undone" => tenants[t] = NULL
        /\ tenants[t] # NULL /\ t \notin peopled => settled[t] \in {"open", "left"}

\* Once a revocation of an API key is answered, no request gets in with the key
\* unless its owner enabled it again, even if an update of the key that began
\* before the revocation is written after it.
RevokedIsRefused == \A h \in Handlers : ~handlers[h].barred

\* A project is changed or removed only by a request of a user who was of its
\* tenant when authenticated, or with its tenant; wherever the user is moved, and
\* whoever takes the slug, in between.
ProjectsAreTheirTenants ==
    [][\A p \in Projects :
          projects[p] # NULL /\ projects'[p] # projects[p] =>
              \/ tenants'[projects[p].tenant] = NULL
              \/ \E h \in Handlers : handlers'[h] # handlers[h] /\ handlers[h].true = projects[p].tenant]_vars
===============================================================================
