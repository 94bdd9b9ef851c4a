------------------------------ MODULE ProjectRows ------------------------------
(***************************************************************************)
(* What a project configures: regions, cultural data, environments, tags,  *)
(* AI models and the metadata of RAG documents; with the guard in front of *)
(* their endpoints, the cached lists, and the activity log that the        *)
(* interceptor around them writes.                                         *)
(*                                                                         *)
(* One step is one database call, or one call of the cache, with the code  *)
(* up to the next await.  A request goes by the slug of the project from   *)
(* the guard to the last call, although the project can be removed in      *)
(* between and another tenant can take the slug.  Ids are never used       *)
(* twice.  Of a row only its unique name and the region it refers to are   *)
(* kept; of a cached list, the rows of the table itself; of the activity   *)
(* log, which is only written here, the entry that the last step wrote.    *)
(***************************************************************************)
EXTENDS Naturals, FiniteSets

CONSTANTS
    Tenants,
    Projects,       \* slugs
    Ids,
    Names,          \* languageCode of a region, key of cultural data, name of the others
    Requests, Handlers,
    Claims,         \* which tenants create which projects
    NULL

Kinds == {"region", "culturalData", "environment", "tag", "aiModel", "ragDocument"}

\* GET of all rows is cached for these kinds; after a write, the first two are invalidated.
Invalidated == {"region", "environment"}
Cached == Invalidated \cup {"aiModel"}

\* The row a request is about is named in the URL by its name or by its id.
ByName == {"region", "culturalData"}

\* region: languageCode of the parent of a region, or of the region of cultural
\* data; "asis" when the body does not give it.
IsRequest(q) ==
    /\ q.tenant \in Tenants /\ q.project \in Projects /\ q.kind \in Kinds
    /\ q.op \in {"create", "update", "remove"} \cup (IF q.kind \in Cached THEN {"list"} ELSE {})
    /\ q.op \in {"update", "remove"} => q.key \in (IF q.kind \in ByName THEN Names ELSE Ids)
    /\ q.op \in {"create", "update"} => q.name \in Names
    /\ CASE q.kind = "region" -> q.region \in Names \cup {NULL, "asis"}
         [] q.kind = "culturalData" /\ q.op = "create" -> q.region \in Names
         [] OTHER -> q.region = "asis"

ASSUME RequestsAssumption == \A q \in Requests : IsRequest(q)
ASSUME ClaimsAssumption == Claims \subseteq Projects \X Tenants
ASSUME NullAssumption == NULL \notin Tenants \cup Ids \cup Names \cup Requests
ASSUME AsisAssumption == "asis" \notin Names

VARIABLES
    owner,      \* tenantId of the rows of Project
    rows,       \* the six tables
    used,       \* ids that were given to a row
    log,        \* the entry of ActivityLog that the last step wrote
    lists,      \* the entries of the cache
    handlers    \* what each request holds between two calls

vars == <<owner, rows, used, log, lists, handlers>>

Row == [kind : Kinds, project : Projects, name : Names, region : Ids \cup {NULL}]
Entry == [action : {"create", "update", "remove"}, id : Ids, project : Projects]
List == SUBSET (Ids \X Names)

\* late: history, the rows were written between their reading and the setting of
\* the entry, or the project was removed.
Cache == [list : List, late : BOOLEAN]

ASSUME NullIsNoRow == NULL \notin Row \cup Entry \cup Cache

Handler == [pc      : {"idle", "find", "name", "region", "write", "wipe", "wiped",
                       "list", "set", "forget", "log"},
            request : Requests \cup {NULL},
            id      : Ids \cup {NULL},      \* the row that was found
            region  : Ids \cup {NULL},      \* the region that was found
            entry   : Entry \cup {NULL},    \* to be logged
            wiped   : SUBSET Ids,           \* what its transaction has deleted
            seen    : List,
            late    : BOOLEAN,              \* history: the rows were written since they were read
            moved   : BOOLEAN]              \* history: the project was removed between guard and finding

Idle == [pc |-> "idle", request |-> NULL, id |-> NULL, region |-> NULL, entry |-> NULL,
         wiped |-> {}, seen |-> {}, late |-> FALSE, moved |-> FALSE]

Init ==
    /\ owner = [p \in Projects |-> NULL]
    /\ rows = [i \in Ids |-> NULL]
    /\ used = {}
    /\ log = NULL
    /\ lists = [p \in Projects |-> [k \in Cached |-> NULL]]
    /\ handlers = [h \in Handlers |-> Idle]

-------------------------------------------------------------------------------
At(h, pc) == handlers[h].pc = pc

Asked(h) == handlers[h].request

Calls(h, pc, op) == At(h, pc) /\ Asked(h).op = op

Answer(h) == handlers' = [handlers EXCEPT ![h] = Idle]

\* The rows of a kind in a project, and those with a name; names are unique.
Of(project, kind) ==
    {i \in Ids : rows[i] # NULL /\ rows[i].project = project /\ rows[i].kind = kind}

Named(project, kind, name) == {i \in Of(project, kind) : rows[i].name = name}

ListOf(project, kind) == {<<i, rows[i].name>> : i \in Of(project, kind)}

\* Cultural data of a region.
DataOf(region) == {i \in Ids : rows[i] # NULL /\ rows[i].kind = "culturalData" /\ rows[i].region = region}

\* Rows that open transactions have deleted: nobody else sees that, and who would
\* write them waits.
Locked == UNION {handlers[h].wiped : h \in Handlers}

\* A write to rows of the project overtakes those who have read its lists.
Overtake(hs, project) ==
    [g \in Handlers |->
        IF hs[g].pc = "set" /\ hs[g].request.project = project
        THEN [hs[g] EXCEPT !.late = TRUE] ELSE hs[g]]

-------------------------------------------------------------------------------
(***************************************************************************)
(* The guard and the lookups.                                              *)
(***************************************************************************)
FirstCall(q) ==
    CASE q.op = "list" -> "list"
      [] q.op \in {"update", "remove"} -> "find"
      [] q.op = "create" /\ q.kind = "ragDocument" -> "name"
      [] q.op = "create" /\ q.kind \in {"region", "culturalData"} /\ q.region \in Names -> "region"
      [] OTHER -> "write"

\* ProjectGuard compares the tenant of the user with that of the project.  A
\* list that is in the cache is answered from there, which changes nothing.
Guard(h, q) ==
    /\ At(h, "idle")
    /\ owner[q.project] = q.tenant
    /\ q.op = "list" => lists[q.project][q.kind] = NULL
    /\ handlers' = [handlers EXCEPT ![h] = [Idle EXCEPT !.pc = FirstCall(q), !.request = q]]
    /\ log' = NULL
    /\ UNCHANGED <<owner, rows, used, lists>>

\* Mutant of Found: the row is not compared with the project.
FoundAnywhere(q) ==
    {i \in Ids : rows[i] # NULL /\ rows[i].kind = q.kind /\ q.key \in {i, rows[i].name}}

\* findOne: by the unique name in the project, or by the id and then the project.
Found(q) == IF q.kind \in ByName THEN Named(q.project, q.kind, q.key) ELSE Of(q.project, q.kind) \cap {q.key}

\* What comes after a row was found: a removed region is found in the transaction.
AfterFind(q, i) ==
    CASE q.op = "remove" /\ q.kind = "region" -> "wipe"
      [] q.op = "update" /\ q.kind = "region" /\ q.region \in Names -> "region"
      [] q.op = "update" /\ q.kind = "ragDocument" /\ q.name # rows[i].name -> "name"
      [] OTHER -> "write"

Find(h) ==
    /\ At(h, "find")
    /\ \E i \in Found(Asked(h)) :
          handlers' = [handlers EXCEPT ![h].pc = AfterFind(Asked(h), i), ![h].id = i]
    /\ log' = NULL
    /\ UNCHANGED <<owner, rows, used, lists>>

\* No other RAG document has the name.
CheckName(h) ==
    /\ At(h, "name")
    /\ Named(Asked(h).project, "ragDocument", Asked(h).name) = {}
    /\ handlers' = [handlers EXCEPT ![h].pc = "write"]
    /\ log' = NULL
    /\ UNCHANGED <<owner, rows, used, lists>>

\* Mutant of RegionsCalled: by languageCode alone.
RegionsCalledAnywhere(q) ==
    {i \in Ids : rows[i] # NULL /\ rows[i].kind = "region" /\ rows[i].name = q.region}

RegionsCalled(q) == Named(q.project, "region", q.region)

FindRegion(h) ==
    /\ At(h, "region")
    /\ \E i \in RegionsCalled(Asked(h)) :
          handlers' = [handlers EXCEPT ![h].pc = "write", ![h].region = i]
    /\ log' = NULL
    /\ UNCHANGED <<owner, rows, used, lists>>

-------------------------------------------------------------------------------
(***************************************************************************)
(* The writes.                                                             *)
(***************************************************************************)
Telling(h, i) == [action |-> Asked(h).op, id |-> i, project |-> Asked(h).project]

\* The controllers that cache a list forget it before they answer, and the
\* interceptor logs what the controller answers: the removal of a region answers nothing.
AfterWrite(h, i, forgets) ==
    [Idle EXCEPT !.request = Asked(h),
                 !.pc = IF forgets THEN "forget" ELSE "log",
                 !.entry = IF Calls(h, "wiped", "remove") THEN NULL ELSE Telling(h, i)]

\* Mutant of Done: the cache is left alone.
DoneKeepingLists(h, i) ==
    /\ handlers' = Overtake([handlers EXCEPT ![h] = AfterWrite(h, i, FALSE)], Asked(h).project)
    /\ log' = NULL
    /\ UNCHANGED <<owner, lists>>

Done(h, i) ==
    /\ handlers' = Overtake([handlers EXCEPT ![h] = AfterWrite(h, i, Asked(h).kind \in Invalidated)],
                            Asked(h).project)
    /\ log' = NULL
    /\ UNCHANGED <<owner, lists>>

\* The region that is connected is there; a transaction that has only deleted the
\* cultural data of it so far is not in the way.
Connects(region) == region # NULL => rows[region] # NULL

Create(h) ==
    /\ Calls(h, "write", "create")
    /\ owner[Asked(h).project] # NULL
    /\ Named(Asked(h).project, Asked(h).kind, Asked(h).name) = {}
    /\ Connects(handlers[h].region)
    /\ \E i \in Ids \ used :
          /\ rows' = [rows EXCEPT ![i] =
                [kind |-> Asked(h).kind, project |-> Asked(h).project, name |-> Asked(h).name,
                 region |-> handlers[h].region]]
          /\ used' = used \cup {i}
          /\ Done(h, i)

\* The languageCode of a region and the key and region of cultural data stay.
Updated(h) ==
    LET q == Asked(h) old == rows[handlers[h].id] IN
    [old EXCEPT !.name = IF q.kind \in ByName THEN @ ELSE q.name,
                !.region = IF q.kind # "region" \/ q.region = "asis" THEN @ ELSE handlers[h].region]

Update(h) ==
    /\ Calls(h, "write", "update")
    /\ rows[handlers[h].id] # NULL
    /\ Named(rows[handlers[h].id].project, Asked(h).kind, Updated(h).name) \subseteq {handlers[h].id}
    /\ Connects(handlers[h].region)
    /\ handlers[h].id \notin Locked
    /\ rows' = [rows EXCEPT ![handlers[h].id] = Updated(h)]
    /\ Done(h, handlers[h].id)
    /\ UNCHANGED used

Remove(h) ==
    /\ Calls(h, "write", "remove")
    /\ rows[handlers[h].id] # NULL
    /\ handlers[h].id \notin Locked
    /\ rows' = [rows EXCEPT ![handlers[h].id] = NULL]
    /\ Done(h, handlers[h].id)
    /\ UNCHANGED used

\* Mutant of Wipe: it is no part of the transaction.
WipeAtOnce(h) ==
    /\ At(h, "wipe")
    /\ rows' = [i \in Ids |-> IF i \in DataOf(handlers[h].id) THEN NULL ELSE rows[i]]
    /\ handlers' = [handlers EXCEPT ![h].pc = "wiped"]
    /\ log' = NULL
    /\ UNCHANGED <<owner, used, lists>>

\* The transaction of RegionService.remove deletes the cultural data of the region.
Wipe(h) ==
    /\ At(h, "wipe")
    /\ DataOf(handlers[h].id) \cap Locked = {}
    /\ handlers' = [handlers EXCEPT ![h].pc = "wiped", ![h].wiped = DataOf(handlers[h].id)]
    /\ log' = NULL
    /\ UNCHANGED <<owner, rows, used, lists>>

\* Mutant of RemoveRegion: regions below it keep their parent.
RemoveRegionAlone(h) ==
    /\ At(h, "wiped")
    /\ rows[handlers[h].id] # NULL
    /\ DataOf(handlers[h].id) \subseteq handlers[h].wiped
    /\ rows' = [i \in Ids |-> IF i \in {handlers[h].id} \cup handlers[h].wiped THEN NULL ELSE rows[i]]
    /\ Done(h, handlers[h].id)
    /\ UNCHANGED used

\* Then it deletes the region, which the database refuses when cultural data has
\* been added meanwhile, and commits; regions below it lose their parent.
RemoveRegion(h) ==
    /\ At(h, "wiped")
    /\ rows[handlers[h].id] # NULL
    /\ DataOf(handlers[h].id) \subseteq handlers[h].wiped
    /\ rows' = [i \in Ids |->
          IF i \in {handlers[h].id} \cup handlers[h].wiped THEN NULL
          ELSE IF rows[i] # NULL /\ rows[i].region = handlers[h].id THEN [rows[i] EXCEPT !.region = NULL]
          ELSE rows[i]]
    /\ Done(h, handlers[h].id)
    /\ UNCHANGED used

-------------------------------------------------------------------------------
(***************************************************************************)
(* Lists and log.                                                          *)
(***************************************************************************)
ReadList(h) ==
    /\ At(h, "list")
    /\ handlers' = [handlers EXCEPT ![h].pc = "set",
                                    ![h].seen = ListOf(Asked(h).project, Asked(h).kind)]
    /\ log' = NULL
    /\ UNCHANGED <<owner, rows, used, lists>>

\* CacheInterceptor keeps what was answered.
SetList(h) ==
    /\ At(h, "set")
    /\ lists' = [lists EXCEPT ![Asked(h).project][Asked(h).kind] =
          [list |-> handlers[h].seen, late |-> handlers[h].late]]
    /\ Answer(h)
    /\ log' = NULL
    /\ UNCHANGED <<owner, rows, used>>

Forget(h) ==
    /\ At(h, "forget")
    /\ lists' = [lists EXCEPT ![Asked(h).project][Asked(h).kind] = NULL]
    /\ handlers' = [handlers EXCEPT ![h] =
          IF handlers[h].entry = NULL THEN Idle ELSE [@ EXCEPT !.pc = "log"]]
    /\ log' = NULL
    /\ UNCHANGED <<owner, rows, used>>

\* The time of an entry is over.
Expire(p, k) ==
    /\ lists[p][k] # NULL
    /\ lists' = [lists EXCEPT ![p][k] = NULL]
    /\ log' = NULL
    /\ UNCHANGED <<owner, rows, used, handlers>>

\* The answer has gone out, and nobody waits for the entry of the log.
Log(h) ==
    /\ At(h, "log")
    /\ owner[Asked(h).project] # NULL
    /\ log' = handlers[h].entry
    /\ Answer(h)
    /\ UNCHANGED <<owner, rows, used, lists>>

-------------------------------------------------------------------------------
\* Mutant of Refuse: a request that fails is logged as well.
RefuseTelling(h) ==
    /\ handlers[h].pc \notin {"idle", "forget"}
    /\ log' = IF At(h, "write") /\ handlers[h].id # NULL THEN Telling(h, handlers[h].id) ELSE NULL
    /\ Answer(h)
    /\ UNCHANGED <<owner, rows, used, lists>>

\* Something was not found, is taken, waits too long or fails: an error is answered,
\* or swallowed when only the entry of the log is lost.  An open transaction is undone.
Refuse(h) ==
    /\ handlers[h].pc \notin {"idle", "forget"}
    /\ Answer(h)
    /\ log' = NULL
    /\ UNCHANGED <<owner, rows, used, lists>>

\* The process dies, and the cache with it.
Crash ==
    /\ \E h \in Handlers : ~At(h, "idle")
    /\ handlers' = [h \in Handlers |-> Idle]
    /\ lists' = [p \in Projects |-> [k \in Cached |-> NULL]]
    /\ log' = NULL
    /\ UNCHANGED <<owner, rows, used>>

\* A project comes and goes by requests that module Accounts models; all its
\* rows and log entries go with it, and a removal waits for the rows of open
\* transactions.
CreateProject(p, t) ==
    /\ <<p, t>> \in Claims
    /\ owner[p] = NULL
    /\ owner' = [owner EXCEPT ![p] = t]
    /\ log' = NULL
    /\ UNCHANGED <<rows, used, lists, handlers>>

RemoveProject(p) ==
    /\ owner[p] # NULL
    /\ \A i \in Locked : rows[i].project # p
    /\ owner' = [owner EXCEPT ![p] = NULL]
    /\ rows' = [i \in Ids |-> IF rows[i] # NULL /\ rows[i].project = p THEN NULL ELSE rows[i]]
    /\ log' = NULL
    /\ handlers' = [h \in Handlers |->
          IF ~At(h, "idle") /\ Asked(h).project = p
          THEN [handlers[h] EXCEPT !.moved = @ \/ At(h, "find"), !.late = At(h, "set")] ELSE handlers[h]]
    /\ lists' = [lists EXCEPT ![p] = [k \in Cached |->
          IF @[k] = NULL THEN NULL ELSE [@[k] EXCEPT !.late = TRUE]]]
    /\ UNCHANGED <<used>>

Call(h) ==
    \/ Find(h) \/ CheckName(h) \/ FindRegion(h)
    \/ Create(h) \/ Update(h) \/ Remove(h) \/ Wipe(h) \/ RemoveRegion(h)
    \/ ReadList(h) \/ SetList(h) \/ Forget(h) \/ Log(h)
    \/ Refuse(h)

Next ==
    \/ \E h \in Handlers : Call(h) \/ \E q \in Requests : Guard(h, q)
    \/ \E p \in Projects : RemoveProject(p) \/ \E t \in Tenants : CreateProject(p, t)
    \/ \E p \in Projects, k \in Cached : Expire(p, k)
    \/ Crash

Spec == Init /\ [][Next]_vars

-------------------------------------------------------------------------------
(***************************************************************************)
(* Properties.                                                             *)
(***************************************************************************)
\* The tables: rows are of a project that is there, names are unique, and a
\* region that is referred to is there.
Tables ==
    \A i \in Ids : rows[i] # NULL =>
        /\ owner[rows[i].project] # NULL
        /\ Named(rows[i].project, rows[i].kind, rows[i].name) = {i}
        /\ rows[i].region # NULL => rows[rows[i].region] # NULL
        /\ rows[i].kind = "culturalData" => rows[i].region # NULL

\* The types of tables, cache and log, and what keys and foreign keys promise.
TypeOK ==
    /\ owner \in [Projects -> Tenants \cup {NULL}]
    /\ rows \in [Ids -> Row \cup {NULL}]
    /\ used \subseteq Ids
    /\ log \in Entry \cup {NULL}
    /\ lists \in [Projects -> [Cached -> Cache \cup {NULL}]]
    /\ handlers \in [Handlers -> Handler]
    /\ Tables

\* A region below another one, and cultural data, are of the same project as the
\* region they refer to, although the lookup and the writing are two calls and
\* the slug may pass to another tenant between them.
RegionsStayInProject ==
    \A i \in Ids : rows[i] # NULL /\ rows[i].region # NULL =>
        /\ rows[rows[i].region].kind = "region"
        /\ rows[rows[i].region].project = rows[i].project

\* A cached list that shows other rows than the table is about to be forgotten by
\* the request that wrote, or was read before a write and put in the cache after it, or shows a
\* list that no writer forgets.
StaleIsExplained ==
    \A p \in Projects, k \in Invalidated :
        lists[p][k] # NULL /\ lists[p][k].list # ListOf(p, k) =>
            \/ lists[p][k].late
            \/ \E h \in Handlers : At(h, "forget") /\ Asked(h).project = p /\ Asked(h).kind = k

\* What the interceptor logs has happened, whatever was done to the row before the
\* entry is written: a row that is said to be created or changed was there, in
\* that project, and one that is said to be removed is gone.
LogIsTrue ==
    log # NULL =>
        /\ log.id \in used
        /\ rows[log.id] # NULL => log.action # "remove" /\ rows[log.id].project = log.project

\* Cultural data goes by a request to remove it, with its project or in one step
\* with its region; a removal of a region that fails or dies loses none.
DataGoesWithItsRegion ==
    [][\A i \in Ids :
          rows[i] # NULL /\ rows[i].kind = "culturalData" /\ rows'[i] = NULL =>
              \/ rows'[rows[i].region] = NULL
              \/ \E h \in Handlers :
                    Calls(h, "write", "remove") /\ handlers[h].id = i /\ handlers'[h] # handlers[h]]_vars

\* A row is changed or removed by a request of the tenant its project belongs to.
\* A slug may change hands after the row was found, but not between the guard and
\* the finding: then the request finds, and changes, the row of another tenant.
OnlyItsTenant ==
    [][\A i \in Ids :
          rows[i] # NULL /\ rows'[i] # rows[i] /\ owner'[rows[i].project] # NULL =>
              \E h \in Handlers :
                  /\ handlers'[h] # handlers[h]
                  /\ handlers[h].moved \/ Asked(h).tenant = owner[rows[i].project]]_vars
===============================================================================
