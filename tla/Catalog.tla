-------------------------------- MODULE Catalog --------------------------------
(***************************************************************************)
(* The catalog: prompts with their versions, translations and assets, and  *)
(* the requests that create, update and remove them.                       *)
(*                                                                         *)
(* A prompt is found by the slug of its name, the primary key of its       *)
(* table: no two projects have the same one at the same time.  The other   *)
(* rows have ids that never come back, hang below a prompt, a version or   *)
(* an asset, and go with it.  A request names a row by its path: it looks  *)
(* up one element after the other, each in a call of its own, and writes   *)
(* what it found by id.                                                    *)
(*                                                                         *)
(* One step is one database call with the code up to the next await; a     *)
(* request that its first lookup refuses changes nothing and is not a      *)
(* step.  `latest' stands for the tag it finds.  What a row says is left   *)
(* out: an update finds its row or does not, and changes at most the tag   *)
(* of a version.  Translations that are created together with their        *)
(* version are created after it.                                           *)
(***************************************************************************)
EXTENDS Naturals, Sequences

CONSTANTS
    Slugs,
    Projects,
    Tags,
    ProjectOf,      \* Tag.projectId
    Requests,       \* what is asked for
    Keys,           \* version tags, languages and keys of assets
    First,          \* the version tag 1.0.0
    Handlers,       \* requests in flight at the same time
    MaxRow,         \* bound: so many rows are ever created below prompts
    NULL

\* The tables below a prompt, from the top.
Chain == [prompt           |-> <<>>,
          version          |-> <<"version">>,
          translation      |-> <<"version", "translation">>,
          asset            |-> <<"asset">>,
          assetVersion     |-> <<"asset", "assetVersion">>,
          assetTranslation |-> <<"asset", "assetVersion", "assetTranslation">>]

Kinds == DOMAIN Chain

PromptKinds == {"version", "translation"}

\* keys: of the rows above the new row, or down to the row itself; key: of the
\* new row.  The removal of an asset is no request: its controller hands on the
\* key and its service looks for an id, so that every one is refused.
IsRequest(q) ==
    /\ q.op \in {"create", "update", "remove"}
    /\ q.kind \in Kinds
    /\ q.kind = "asset" => q.op # "remove"
    /\ q.project \in Projects
    /\ q.slug \in Slugs
    /\ q.key \in Keys
    /\ q.keys \in Seq(Keys)
    /\ Len(q.keys) = Len(Chain[q.kind]) - (IF q.op = "create" /\ q.kind # "prompt" THEN 1 ELSE 0)

ASSUME RequestsAssumption == \A q \in Requests : IsRequest(q)
ASSUME FirstAssumption == First \in Keys
ASSUME TagsAssumption == ProjectOf \in [Tags -> Projects]
ASSUME SlugsAssumption == Slugs \cap Nat = {}
ASSUME BoundAssumption == MaxRow \in Nat
ASSUME NullAssumption == NULL \notin Requests /\ NULL \notin Slugs /\ NULL \notin Nat

VARIABLES
    prompts,    \* rows of Prompt by slug
    rows,       \* rows of the tables below
    next,       \* the id of the next row
    tags,       \* rows of Tag
    log,        \* rows of ActivityLog about rows with an id
    handlers    \* what each request holds between two database calls

vars == <<prompts, rows, next, tags, log, handlers>>
tables == <<prompts, rows, next, tags, log>>

Prompt == [project : Projects, tags : SUBSET Tags]

ASSUME NullIsNoPrompt == NULL \notin Prompt

Ids == 1..MaxRow

\* slug is no column: the prompt at the top.
Row == [id : Ids, kind : Kinds \ {"prompt"}, parent : Slugs \cup Ids, key : Keys, slug : Slugs]

Handler == [request : Requests \cup {NULL},
            pc      : {"idle", "tags", "walk", "write", "readback", "log"},
            held    : Slugs \cup Ids \cup {NULL},  \* the row found last
            depth   : 0..3,                         \* how many keys have been followed
            tags    : SUBSET SUBSET Tags,           \* {ts}: to be written; {}: none given
            absent  : BOOLEAN,  \* history: at some time the path has led nowhere
            told    : BOOLEAN]  \* history: the answer said that it leads nowhere

Over(told, absent) == [request |-> NULL, pc |-> "idle", held |-> NULL, depth |-> 0, tags |-> {},
                       absent |-> absent, told |-> told]

Idle == Over(FALSE, FALSE)

Init ==
    /\ prompts = [s \in Slugs |-> NULL]
    /\ rows = {}
    /\ next = 1
    /\ tags = Tags
    /\ log = {}
    /\ handlers = [h \in Handlers |-> Idle]

-------------------------------------------------------------------------------
InProject(ps, slug, project) == ps[slug] # NULL /\ ps[slug].project = project

\* The rows of a table with this key below one of the parents.
Below(rs, parents, kind, key) == {r \in rs : r.parent \in parents /\ r.kind = kind /\ r.key = key}

IdsOf(rs) == {r.id : r \in rs}

\* The next key of a path.
Following(rs, q, parents, depth) == IdsOf(Below(rs, parents, Chain[q.kind][depth], q.keys[depth]))

\* Where depth keys of the path of a request lead to: one id, or none.
Reached(rs, q, depth) ==
    LET one == Following(rs, q, {q.slug}, 1)
        two == Following(rs, q, one, 2)
    IN  CASE depth = 0 -> {q.slug}
          [] depth = 1 -> one
          [] depth = 2 -> two
          [] depth = 3 -> Following(rs, q, two, 3)

\* The path of a request leads to a row.
Present(ps, rs, q) ==
    /\ InProject(ps, q.slug, q.project)
    /\ \A depth \in 1..Len(q.keys) : Reached(rs, q, depth) # {}

\* onDelete: Cascade, three tables deep.
WithChildren(gone) == gone \cup IdsOf({r \in rows : r.parent \in gone})

\* Mutant of Remaining: as before the translations of assets had their cascade.
RemainingTwoDeep(gone) == {r \in rows : r.id \notin WithChildren(WithChildren(gone))}

Remaining(gone) == {r \in rows : r.id \notin WithChildren(WithChildren(WithChildren(gone)))}

Asked(h) == handlers[h].request

TagsOf(h) == UNION handlers[h].tags

At(h, pc) == handlers[h].pc = pc

Writing(h, op, kinds) == At(h, "write") /\ Asked(h).op = op /\ Asked(h).kind \in kinds

\* Every request in flight notices when its path leads nowhere.
Noticed ==
    [h \in Handlers |->
        IF At(h, "idle") THEN handlers[h]
        ELSE [handlers[h] EXCEPT !.absent = @ \/ ~Present(prompts', rows', Asked(h))]]

GoTo(h, pc) == handlers' = [Noticed EXCEPT ![h].pc = pc]

\* The answer: told when it says that there is no such row (any more).
Answer(h, told) ==
    handlers' = [Noticed EXCEPT ![h] = IF told THEN Over(TRUE, Noticed[h].absent) ELSE Idle]

\* The first call of a request finds the row with id held, and depth keys are done.
Begin(h, q, pc, held, depth, ts) ==
    /\ At(h, "idle")
    /\ handlers' = [handlers EXCEPT ![h] =
          [request |-> q, pc |-> pc, held |-> held, depth |-> depth, tags |-> ts,
           absent |-> ~Present(prompts, rows, q), told |-> FALSE]]
    /\ UNCHANGED tables

Found(q, depth) == IF depth = Len(q.keys) THEN "write" ELSE "walk"

-------------------------------------------------------------------------------
(***************************************************************************)
(* Prompts.                                                                *)
(***************************************************************************)
\* After the project and the tenant, the tags to connect are looked up by name.
BeginCreatePrompt(h, q, ts) ==
    /\ q.kind = "prompt" /\ q.op = "create"
    /\ ts \subseteq tags
    /\ \A t \in ts : ProjectOf[t] = q.project
    /\ Begin(h, q, "write", q.slug, 0, {ts})

\* The transaction: the prompt, its tags and its first version.
CreatePrompt(h) ==
    /\ Writing(h, "create", {"prompt"})
    /\ prompts[Asked(h).slug] = NULL
    /\ TagsOf(h) \subseteq tags
    /\ next <= MaxRow
    /\ prompts' = [prompts EXCEPT ![Asked(h).slug] =
          [project |-> Asked(h).project, tags |-> TagsOf(h)]]
    /\ rows' = rows \cup {[id |-> next, kind |-> "version", parent |-> Asked(h).slug,
                           key |-> First, slug |-> Asked(h).slug]}
    /\ next' = next + 1
    /\ GoTo(h, "readback")
    /\ UNCHANGED <<tags, log>>

ReadBack(h) ==
    /\ At(h, "readback")
    /\ UNCHANGED tables
    /\ \/ InProject(prompts, Asked(h).slug, Asked(h).project) /\ GoTo(h, "log")
       \/ ~InProject(prompts, Asked(h).slug, Asked(h).project) /\ Answer(h, TRUE)

BeginWithPrompt(h, q) ==
    /\ q.kind = "prompt" /\ q.op # "create"
    /\ InProject(prompts, q.slug, q.project)
    /\ Begin(h, q, IF q.op = "update" THEN "tags" ELSE "write", q.slug, 0, {})

\* The tags of the prompt are replaced by those with the ids given, or are kept.
ReadTags(h) ==
    /\ At(h, "tags")
    /\ \E given \in {{}} \cup {{ts} : ts \in SUBSET {t \in tags : ProjectOf[t] = Asked(h).project}} :
          handlers' = [handlers EXCEPT ![h].pc = "write", ![h].tags = given]
    /\ UNCHANGED tables

\* Mutant of UpdatePrompt: the prompt is updated by its primary key alone.
UpdatePromptBySlug(h) ==
    /\ Writing(h, "update", {"prompt"})
    /\ prompts[Asked(h).slug] # NULL
    /\ prompts' = IF handlers[h].tags = {} THEN prompts
                  ELSE [prompts EXCEPT ![Asked(h).slug].tags = TagsOf(h) \cap tags]
    /\ UNCHANGED <<rows, next, tags, log>>
    /\ GoTo(h, "log")

\* A tag that has gone since is not connected.
UpdatePrompt(h) ==
    /\ Writing(h, "update", {"prompt"})
    /\ InProject(prompts, Asked(h).slug, Asked(h).project)
    /\ prompts' = IF handlers[h].tags = {} THEN prompts
                  ELSE [prompts EXCEPT ![Asked(h).slug].tags = TagsOf(h) \cap tags]
    /\ UNCHANGED <<rows, next, tags, log>>
    /\ GoTo(h, "log")

RemovePrompt(h) ==
    /\ Writing(h, "remove", {"prompt"})
    /\ InProject(prompts, Asked(h).slug, Asked(h).project)
    /\ prompts' = [prompts EXCEPT ![Asked(h).slug] = NULL]
    /\ rows' = Remaining({Asked(h).slug})
    /\ UNCHANGED <<next, tags, log>>
    /\ GoTo(h, "log")

PromptIsGone(h) ==
    /\ Writing(h, "update", {"prompt"}) \/ Writing(h, "remove", {"prompt"})
    /\ ~InProject(prompts, Asked(h).slug, Asked(h).project)
    /\ UNCHANGED tables
    /\ Answer(h, TRUE)

-------------------------------------------------------------------------------
(***************************************************************************)
(* The rows below a prompt.                                                *)
(***************************************************************************)
\* Versions and translations of a prompt: the prompt is read by its slug, and
\* then its project is compared.
BeginBelowPrompt(h, q) ==
    /\ q.kind \in PromptKinds
    /\ InProject(prompts, q.slug, q.project)
    /\ Begin(h, q, Found(q, 0), q.slug, 0, {})

\* A new asset: the prompt is read by its slug.
BeginCreateAsset(h, q) ==
    /\ q.kind = "asset" /\ q.op = "create"
    /\ prompts[q.slug] # NULL
    /\ Begin(h, q, "write", q.slug, 0, {})

\* Everything else of assets: the asset is read by project, prompt and key.
BeginBelowAsset(h, q) ==
    /\ q.kind \notin PromptKinds /\ q.keys # <<>>
    /\ InProject(prompts, q.slug, q.project)
    /\ \E r \in Below(rows, {q.slug}, "asset", q.keys[1]) :
          Begin(h, q, Found(q, 1), r.id, 1, {})

\* The rows that the next key leads to: one, or none.
Ahead(h) ==
    LET depth == handlers[h].depth + 1
    IN  Below(rows, {handlers[h].held}, Chain[Asked(h).kind][depth], Asked(h).keys[depth])

Walk(h) ==
    /\ At(h, "walk")
    /\ \E r \in Ahead(h) :
          LET depth == handlers[h].depth + 1
          IN  handlers' = [handlers EXCEPT ![h].pc = Found(Asked(h), depth),
                                           ![h].held = r.id, ![h].depth = depth]
    /\ UNCHANGED tables

\* 404, or the success of an idempotent removal.
NothingAhead(h) ==
    /\ At(h, "walk")
    /\ Ahead(h) = {}
    /\ UNCHANGED tables
    /\ Answer(h, TRUE)

\* The rows with the id that was found, unless it is gone.
Held(h) == {r \in rows : r.id = handlers[h].held}

\* The prompt above a new row: asked for by its slug, or that of the row above.
Tops(h) == {s \in Slugs : prompts[s] # NULL /\ handlers[h].held = s} \cup {r.slug : r \in Held(h)}

\* All kinds but assets; the key of the row above must be there.
InsertRow(h) ==
    /\ Writing(h, "create", PromptKinds \cup {"assetVersion", "assetTranslation"})
    /\ Below(rows, {handlers[h].held}, Asked(h).kind, Asked(h).key) = {}
    /\ next <= MaxRow
    /\ \E s \in Tops(h) :
          rows' = rows \cup {[id |-> next, kind |-> Asked(h).kind, parent |-> handlers[h].held,
                             key |-> Asked(h).key, slug |-> s]}
    /\ next' = next + 1
    /\ UNCHANGED <<prompts, tags, log>>
    /\ \/ Asked(h).kind = "assetVersion"
             /\ handlers' = [Noticed EXCEPT ![h].pc = "log", ![h].held = next]
       \/ Asked(h).kind # "assetVersion" /\ Answer(h, FALSE)

ParentIsGone(h) ==
    /\ Writing(h, "create", PromptKinds \cup {"assetVersion", "assetTranslation"})
    /\ Tops(h) = {}
    /\ UNCHANGED tables
    /\ Answer(h, TRUE)

Entry(action, id) == [action |-> action, id |-> id]

\* Mutant of InsertAsset: the key to the prompt is not composite.
InsertAssetBySlug(h) ==
    /\ Writing(h, "create", {"asset"})
    /\ prompts[Asked(h).slug] # NULL
    /\ Below(rows, {Asked(h).slug}, "asset", Asked(h).key) = {}
    /\ next < MaxRow
    /\ rows' = rows \cup
          {[id |-> next, kind |-> "asset", parent |-> Asked(h).slug, key |-> Asked(h).key,
            slug |-> Asked(h).slug],
           [id |-> next + 1, kind |-> "assetVersion", parent |-> next, key |-> First,
            slug |-> Asked(h).slug]}
    /\ next' = next + 2
    /\ log' = log \cup {Entry("CREATE", next)}
    /\ UNCHANGED <<prompts, tags>>
    /\ Answer(h, FALSE)

\* The transaction: the asset, whose key to the prompt is slug and project, its
\* first version and the entry of the activity log.  The entry is written on a
\* connection of its own and stays when the transaction cannot be committed.
InsertAsset(h) ==
    /\ Writing(h, "create", {"asset"})
    /\ InProject(prompts, Asked(h).slug, Asked(h).project)
    /\ Below(rows, {Asked(h).slug}, "asset", Asked(h).key) = {}
    /\ next < MaxRow
    /\ \/ rows' = rows \cup
             {[id |-> next, kind |-> "asset", parent |-> Asked(h).slug, key |-> Asked(h).key,
               slug |-> Asked(h).slug],
              [id |-> next + 1, kind |-> "assetVersion", parent |-> next, key |-> First,
               slug |-> Asked(h).slug]}
       \/ UNCHANGED rows
    /\ next' = next + 2
    /\ log' = log \cup {Entry("CREATE", next)}
    /\ UNCHANGED <<prompts, tags>>
    /\ Answer(h, FALSE)

\* What the row says is not modelled; but the update of a version may give it
\* another tag, one that no other version of its prompt has.
Retag(h) ==
    /\ Asked(h).kind = "version"
    /\ \E r \in Held(h), key \in Keys :
          /\ Below(rows, {r.parent}, "version", key) = {}
          /\ rows' = (rows \ {r}) \cup {[r EXCEPT !.key = key]}

UpdateRow(h) ==
    /\ Writing(h, "update", Kinds \ {"prompt"})
    /\ Held(h) # {}
    /\ UNCHANGED rows \/ Retag(h)
    /\ UNCHANGED <<prompts, next, tags, log>>
    /\ \/ Asked(h).kind \in {"asset", "assetVersion"} /\ GoTo(h, "log")
       \/ Asked(h).kind \notin {"asset", "assetVersion"} /\ Answer(h, FALSE)

\* Mutant of DeleteRow: the activity is logged first.
LogBeforeDelete(h) ==
    /\ Writing(h, "remove", {"assetVersion"})
    /\ Held(h) # {}
    /\ log' = log \cup {Entry("DELETE", handlers[h].held)}
    /\ UNCHANGED <<prompts, rows, next, tags, handlers>>

DeleteRow(h) ==
    /\ Writing(h, "remove", Kinds \ {"prompt"})
    /\ Held(h) # {}
    /\ rows' = Remaining({handlers[h].held})
    /\ UNCHANGED <<prompts, next, tags, log>>
    /\ \/ Asked(h).kind = "assetVersion" /\ GoTo(h, "log")
       \/ Asked(h).kind # "assetVersion" /\ Answer(h, TRUE)

\* Mutant of RowIsGone: any error of the call counts as P2025.
AnyErrorIsGone(h) ==
    /\ Writing(h, "update", Kinds \ {"prompt"}) \/ Writing(h, "remove", Kinds \ {"prompt"})
    /\ UNCHANGED tables
    /\ Answer(h, TRUE)

\* P2025: 404, or the success of an idempotent removal.
RowIsGone(h) ==
    /\ Writing(h, "update", Kinds \ {"prompt"}) \/ Writing(h, "remove", Kinds \ {"prompt"})
    /\ Held(h) = {}
    /\ UNCHANGED tables
    /\ Answer(h, TRUE)

-------------------------------------------------------------------------------
Action == [create |-> "CREATE", update |-> "UPDATE", remove |-> "DELETE"]

\* Of the update of an asset version the user is undefined: it cannot be logged.
LogActivity(h) ==
    /\ At(h, "log")
    /\ ~(Asked(h).kind = "assetVersion" /\ Asked(h).op = "update")
    /\ log' = IF Asked(h).kind = "prompt" THEN log
              ELSE log \cup {Entry(Action[Asked(h).op], handlers[h].held)}
    /\ UNCHANGED <<prompts, rows, next, tags>>
    /\ Answer(h, Asked(h).op = "remove")

\* A call fails, a key is taken (409) or the prompt is another project's (403):
\* an error that does not say that there is no such row.
Refuse(h) ==
    /\ ~At(h, "idle")
    /\ UNCHANGED tables
    /\ Answer(h, FALSE)

\* TagService.remove: the tag leaves its prompts.
RemoveTag(t) ==
    /\ t \in tags
    /\ tags' = tags \ {t}
    /\ prompts' = [s \in Slugs |->
          IF prompts[s] = NULL THEN NULL ELSE [prompts[s] EXCEPT !.tags = @ \ {t}]]
    /\ UNCHANGED <<rows, next, log, handlers>>

NewRequest(h) ==
    \E q \in Requests :
        \/ \E ts \in SUBSET tags : BeginCreatePrompt(h, q, ts)
        \/ BeginWithPrompt(h, q)
        \/ BeginBelowPrompt(h, q)
        \/ BeginCreateAsset(h, q)
        \/ BeginBelowAsset(h, q)

Continue(h) ==
    \/ CreatePrompt(h)
    \/ ReadBack(h)
    \/ ReadTags(h)
    \/ UpdatePrompt(h)
    \/ RemovePrompt(h)
    \/ PromptIsGone(h)
    \/ Walk(h)
    \/ NothingAhead(h)
    \/ InsertRow(h)
    \/ ParentIsGone(h)
    \/ InsertAsset(h)
    \/ UpdateRow(h)
    \/ DeleteRow(h)
    \/ RowIsGone(h)
    \/ LogActivity(h)
    \/ Refuse(h)

Next ==
    \/ \E h \in Handlers : NewRequest(h) \/ Continue(h)
    \/ \E t \in Tags : RemoveTag(t)

Spec == Init /\ [][Next]_vars

-------------------------------------------------------------------------------
\* Types; what names a row names one that is there, with the top it hangs below,
\* and among the rows of a table below one row the key is unique, also when a version
\* is given another tag.
TypeOK ==
    /\ prompts \in [Slugs -> Prompt \cup {NULL}]
    /\ rows \subseteq Row
    /\ next \in 1..(MaxRow + 1)
    /\ tags \subseteq Tags
    /\ log \subseteq [action : {"CREATE", "UPDATE", "DELETE"}, id : Ids]
    /\ handlers \in [Handlers -> Handler]
    /\ \A r \in rows :
          /\ r.id < next
          /\ prompts[r.slug] # NULL
          /\ r.parent = r.slug \/ \E above \in rows : above.id = r.parent /\ above.slug = r.slug
          /\ \A other \in Below(rows, {r.parent}, r.kind, r.key) : other = r

\* A prompt is tagged by two calls, one that reads the tags and one that writes
\* them, while slugs go from one project to another: every tag of a prompt is a
\* tag of its project, and there.
TagsStayInProject ==
    \A s \in Slugs :
        prompts[s] # NULL =>
            \A t \in prompts[s].tags : t \in tags /\ ProjectOf[t] = prompts[s].project

\* A request finds rows one after the other while others remove them, create new
\* ones with the same keys, and give versions other tags.  When it is answered that
\* there is no such row, by 404 or by the success of a removal, then at some time of
\* the request there was none.
AbsenceIsTrue == \A h \in Handlers : handlers[h].told => handlers[h].absent

\* The activity is logged in a call of its own: what is logged of rows has been
\* done, except for an asset whose transaction failed after its entry.
LogIsTrue ==
    \A entry \in log :
        /\ entry.id < next
        /\ entry.action = "DELETE" => entry.id \notin IdsOf(rows)

\* What the write of a request of one of these kinds changes is its project's.
StaysInProject(kinds) ==
    \A h \in Handlers :
        (At(h, "write") /\ handlers'[h].pc # "write" /\ Asked(h).kind \in kinds) =>
            /\ \A r \in rows \ rows' : prompts[r.slug].project = Asked(h).project
            /\ \A r \in rows' \ rows : prompts'[r.slug].project = Asked(h).project
            /\ \A s \in Slugs : prompts'[s] # prompts[s] =>
                  \A row \in {prompts[s], prompts'[s]} \ {NULL} : row.project = Asked(h).project

\* A slug can be free again and taken by another project between the lookups of a
\* request and its write.  The requests of prompts and of assets never write into
\* another project, because their keys name the project again.
PromptsAndAssetsStay == [][StaysInProject(Kinds \ PromptKinds)]_vars

\* PromptVersionService.create says of its check "Ensure prompt exists in project":
\* the requests of versions and translations write into their project as well.
VersionsStay == [][StaysInProject(PromptKinds)]_vars
===============================================================================
