# japm: a verification project

japm is a NestJS server (TypeScript, Prisma, MySQL) that keeps the prompts of
LLM applications: prompts, their versions and translations, the assets they
embed, the environments they are deployed to and the marketplace they can be
published on.  This directory holds TLA+ modules of its core logic, the TLC
runs that check them on small instances, and proofs that TLAPS checks.  Line
numbers refer to the sources under `src/`; file names below are relative to
`src/src/` unless they say otherwise.

## The system and its parts

Every operation is an HTTP handler: it reads the database, checks what it
read, and writes in later calls.  Handlers of one process interleave at every
`await`; there is no lock and no version column.  What two handlers share is
the database, where unique keys, foreign keys and a few transactions are all
that keeps them apart.  MySQL runs at REPEATABLE READ, Prisma's default there.

| Part | State | Operations | What is hard | What makes it correct |
|---|---|---|---|---|
| Deployment (`deployment/`) | Deployment and DeploymentItem rows, the active versions of an Environment | create, approve, deploy (a transaction), rollback | checks on rows read earlier, the row lock of the transaction, removals by other services between two steps | four eyes, only whole approved plans reach an environment, no dangling reference, every request is answered |
| Prompt serving (`serve-prompt/`, `prompt/prompt-resolver.service.ts`) | none of its own; reads prompts, versions, translations, assets | resolveAssets, then the recursion executePromptVersion / resolvePromptReferences | a search that goes on over a text it changes, inserted texts that are read for patterns, circles and depth, catalog edits between two reads, swallowed errors | bounded recursion, the spliced text is the right one, failures are reported |
| Publication (`prompt-version/`, `prompt-asset-version/`, `marketplace/`) | marketplace columns of the versions, Tenant.marketplaceRequiresApproval | request, unpublish, approve, reject; listing | the tenant's setting and the status are read before they are used; activity is logged after the write | a version is public only by the tenant's rule; what is listed is published |
| Catalog (`prompt/`, `prompt-version/`, `prompt-translation/`, `prompt-asset*/`, `asset-translation/`) | rows of seven tables with cascading keys | CRUD, creation of a prompt with its first version, idempotent removal | two removals of one row, a removal between a read and a write | who is told that a row is gone is told the truth; nothing outlives its parent; writes stay in their project |
| Backup (`common/services/prompt-backup.service.ts`) | JSON files | a snapshot before a removal | the removal is not in one transaction with it | what was removed is in a snapshot |
| Accounts (`tenant/`, `user/`, `auth/`, `api-key/`, `project/`) | Tenant, User, ApiKey, Project | setting a tenant up with a compensating delete, CRUD, revocation and expiry of keys, the guards | the compensation fails or never comes, requests act for the tenant their user was in, names and owners are checked one call early | a tenant is set up whole or not at all, a revoked key admits nobody, projects are written by their tenant |
| Rows of a project (`region/`, `cultural-data/`, `environment/`, `tag/`, `ai-model/`, `rag-document-metadata/`, `common/guards/project.guard.ts`) | six tables, a cache of lists | CRUD behind the project guard, cached listings | the slug of a project changes hands between two calls, a list is cached after it was invalidated | rows stay with their project and region, stale lists are explained |
| Activity log (`services/`, `interceptors/`) | ActivityLog | logged by handlers, or by an interceptor after the response | the interceptor's write is not awaited and its failure is swallowed | what is logged has happened |
| Executions (`system-prompt/`, `raw-execution/`, `llm-execution/`, generateStructure of `prompt/`) | SystemPrompt, files of the installation | CRUD by name, execution with a model | three rows and a file are read one after the other, looking up needs the file | what is sent is what the name stood for; what is illegible stays as it is |
| Seeds (`src/seed/`) | the whole database | three scripts without a transaction | stopped anywhere, run again, in any order, on prompts with the same ids | a script that ends has seeded all of its data, none blocks the next |
| Dashboard, health, execution log, audit and structured logs, throttling | none that the program reads again | calls, listings, output | | |

`PROJECT.json` lists the parts with their files, and the hazards at their
lines with the properties that watch them.

## Deployment

`DeploymentGovernance.tla` is the abstract promise: plans are recorded with
entities that exist, approved by somebody else than their requester, and only
approved plans are activated, all their versions at once.  A version leaves an
environment only when the version itself is removed.

`Deployment.tla` is the service.  A handler is a record (`pc` and what it holds
between two awaits); one step is one database call with the code up to the next
`await`.

| Code (`deployment/deployment.service.ts`) | Action |
|---|---|
| createDeployment 14-41, validateDeploymentItems 392-432 | `StartCreate`, `ValidateItem` per lookup, `RejectItem` |
| the nested create 41-98, the foreign keys and unique name | `InsertDeployment`, `RefuseInsert` |
| approveDeployment: reads and checks 165-191, update 193-223 | `ReadToApprove`, `WriteApproval`, `RefuseApproval` |
| deployDeployment: read and check 225-247 | `ReadToDeploy` |
| its transaction 250-329: DEPLOYING, loop, deployItem 434-468, DEPLOYED | `BeginDeploy` (takes the row lock), `DeployItem`, `FailItem` (rolls back), `CommitDeploy` |
| rollbackDeployment 331-390 | `ReadToRollback`, `WriteRollback` |
| removals in other services, foreign keys, cascades | `RemoveEntity`, `RemoveUser`, `RemoveEnvironment` |
| a failing call, a dying process | `DatabaseError`, `Restart` |

The writes of the open transaction are private (`links`) until `CommitDeploy`;
its row is `Locked`.  What other transactions can read are the four statuses
of `Status`: DEPLOYING and FAILED never become visible, which is what the type
invariant says.

Runs.  `deploy_governance` (2 deployments, 2 environments, 2 users, 1 version,
2 requests at a time; handlers, deployments and environments are symmetric
and no property singles one out) checks the type, `ActiveWasApproved`,
`DeployedIsActive` and that the service implements the governance
(`Governed`).  `deploy_answers` (1 deployment of 2 versions and a model, 2
requests at a time, 3 users, removals of a version, a user and an environment)
checks `FourEyes`, `SnapshotsHold`, `AllOrNothing` and `NoDanglingReference`,
and `RequestsReturn` under fairness.  Two requests are enough for a race of
three, two approvals around an execution say, because one of them can finish
several times while the other stands between two awaits.

Two statements of the documentation are not what the code does, and no run is
spent on them.  A failed execution leaves no FAILED row
(docs/DEPLOYMENT_MANAGEMENT.md:20): the status is written inside the transaction
that the error aborts (:286), so that the row is APPROVED again, which is what
`TypeOK` says.  A rollback writes its row and leaves the environment as it is
(:360), where docs/DEPLOYMENT_MANAGEMENT.md:191 lets the system revert to the
configuration of the other deployment.

Fairness.  `FairSpec` is strong fairness of `Continue(h)` per handler: the
event loop goes on with every promise that settles, and a wait for a row lock
is enabled again and again only while others take the lock in turn; InnoDB
grants row locks in the order of request, so a waiter gets its turn.  Nothing
is assumed of new requests, removals, failures and restarts.

Proved in `DeploymentProofs.tla`, for all values of the constants (with the
assumptions that versions and models are disjoint and NULL is none of the
ids and rows): `TypeOK`, `FourEyes`, `SnapshotsHold`, `AllOrNothing`,
`ActiveWasApproved`, `DeployedIsActive`, `NoDanglingReference`.  None of
them is inductive alone.  The core (`Inductive`) is the type, `FourEyes` and
`SnapshotsHold`: what a handler has read and still relies on.  That a deploy
was approved follows only from the snapshot of its handler, whose
`approvedAt` no other handler can take back although it can change the status
meanwhile.  The same module proves that the service implements the
governance (`Refinement`): the plan of a row is its requester,
environment and items, and every step maps to one abstract step or a stutter.

## Prompt serving

`ServePrompt.tla` models `serve-prompt/serve-prompt.service.ts` 207-527.  The
recursion of executePromptVersion and resolvePromptReferences is an explicit
stack of frames, one per call in progress, because every call reads the
database when it starts and the catalog may change before the next one does.

| Code | In the model |
|---|---|
| the version that a call uses 375-399, its text 404-417 | `Candidates`, `TextOf`, `Found` |
| the regular expression 223-227 and its lastIndex | `Width`, `Start`, `Pending`, `Match` |
| key, project and circularity check 229-243 | `Key`, `ProjectOf`, `Circular`, `Advanced` |
| depth check 329-336 | `TooDeep` |
| the nested call 245-263 | `Enter` with `Child`; `RefuseCircular`, `RefuseDepth`, `RefuseMissing` |
| replacing the reference and merging metadata 264-279 | `Return` with `Splice` (`Reading` of ReplacementPatterns), `Resumed` |
| the catch clause 280-299 | `Refuse` for an HttpException, `NestedCallFails` for the rest |
| the answer 491-527, and with `processed=false` 421-454 | `Finish`, `RequestRaw` |
| a write by another request | `Edit` |

A text is a sequence of tokens: literals and references, each with a length,
because lastIndex counts characters and is kept while a text of another length
is spliced in.  All references have the same length, which suffices for a
replacement to be shorter, as long or longer than what it replaces.  The texts
of the catalog stand for what resolveAssets (below) makes of them; a request with
`processed=false` is answered with the text before that, which the model does not
tell apart.  Left out: the formatting of the metadata and the assets.

A nested text is not inserted as it stands: it is the replacement string of
String.replace (264-267), in which `$$` means one dollar and `$&`, `` $` `` and
`$'` mean the reference, what stands before it and what stands behind it.
`ReplacementPatterns.tla` is that reading (`Active`, `Reading`), of a text in which
the four characters are tokens of their own; `Splice` here and `Replace` of
AssetResolution insert what it makes of a text.  So a nested text with `$$5` is served
with `$5`, and one with `$&` brings its own reference back; a text that ends in a
dollar may make a pattern with what is nested behind it.  The properties about
the text of an answer take texts in which this cannot happen: `InertBelow` asks of
every text that may be nested that a word follows each dollar which makes no pattern
of it.  What the text of the root says is free.

PromptResolverService keeps a set of its own that it never hands on, so it adds
nothing to a call of executePromptVersion.

Runs.  `serve_texts` starts from every catalog of three prompts whose texts
have at most three, two and one tokens, with one-character words and sentences
twice the length of a reference, and some texts with patterns, with a dollar that is
none and with one that becomes one further up, unedited: `SubstitutionSound` (whatever is
left unresolved, up to all of it, resolving it gives the full expansion) and `SimpleIsServed`
(a prompt written the usual way is served, completely), both for nested texts that
hold no patterns.  The reference definition is `Expansion`, level by level, which knows nothing of lastIndex.
`serve_edits` has two projects, tags, active versions, circles and edits
between two reads: `BoundedDepth`, `NoSilentFailure`.  MaxDepth is 3
(5 in the code): with three prompts, a circle that runs through the root is
cut by the depth and one below it by the set, so both checks work.  Four statements
of the documentation are not what the code does, and no run is spent on them.
References are resolved recursively (docs/prompting.md:135), but one that the
search has passed, because lastIndex (:264) is kept while a longer or shorter text
is spliced in before it, stays in the answer; that is why `SubstitutionSound`
speaks of what is left.  A prompt that is named twice is refused as circular (:238)
although there is no circle, because a key stays in the set when its call has
returned; `SimpleIsServed` leaves such prompts out, and what is answered of them is
`SubstitutionSound`'s.  A reference to a prompt that is missing is not skipped
(docs/prompting.md:132) but ends the request with 404.  A language at the end of
a reference (docs/prompting.md:50) is read as a part of the version tag.

Proved in `ServePromptProofs.tla`, for every catalog, edit and depth:
`RecursionIsBounded` (`BoundedDepth`), `FailuresAreReported`
(`NoSilentFailure`), and, when the catalog is not edited and there are finitely
many prompts, `AnswersAreSound` (`SubstitutionSound`) and `SimplePromptsAreServed`
(`SimpleIsServed`, for which NULL must not be a project).  The first needs `PathsAreSeen`: every nested call has in
its set the keys of all the nested calls it runs inside of; because keys are
project and prompt and a prompt has one project, distinct keys found in the
database are distinct prompts.  The second needs `FailuresAreNoted`: what has
failed is exactly what the frames of the stack have noted.

The third is about `Expansion`, a function that is defined level by level.  The
module proves first that there is such a function (`WholeIs`, `ExpansionIs`): there
are towers of every finite height, they agree where they overlap, and their tops
make up the function.  It proves by the same induction what FlattenSeq does to two
texts one after the other, so that splicing a text over a reference changes nothing
of what the whole expands to, when the two expand to the same (`SpliceSpreads`), that
the reading of a text without patterns is the text itself,
and that a text that has been expanded all the way does not change on further
levels (`ClosedIsStable`).  The invariant is `StackSound`: the text of every call in
progress expands to what it was called for, and what a nested call was made for
stands in the text of its caller until it returns.  Where the search goes on does
not matter to it, so the proof holds although references are passed.

The fourth is about just that.  A simple prompt and what is met below it form a
tree (`Tree`, `NeatIsTree`): every reference stands in one text, there once, and
none leads back to the root.  The invariant is `Served`, of the calls in progress for
such a root: every reference left in a text is one of its version, once, and stands at
or behind lastIndex, except the one that the nested call is for (`Held`, `Waits`,
`Runs`), and every key in a set belongs to a reference that has been taken up
(`SeenIs`).  So the next reference is a new one (`NextIsNew`) and is not taken for a circle; the
calls are for different references of the tree, which has no more of them than the
depth allows (`NextIsFound`, from a counting of injections); and a spliced text is not
narrower than the reference, so what follows moves to the right and stays ahead of
the search (`SplicedRuns`, from the offsets, `StartIs` to `StartBehind`).  A call
that is done has no references left, so by `StackSound` its text is the whole expansion
(`DoneIsExpanded`).  Every hypothesis of `Simple` is used: `SubstitutionSound` is what
remains without them.

## Asset resolution

`AssetResolution.tla` is `resolveAssets` (`serve-prompt/serve-prompt.service.ts`
38-205): what happens to one text before its references to prompts are
followed.  It walks over the matches of each pass, one action per match; the
catalog it reads is an input.

| Code | In the model |
|---|---|
| the placeholders of the text handed in 54-66, 151-154 | `Current`, `Reached`, `PassOver` |
| the keys of assetContext and variableContext, in the order they were set 134, 158 | `Plainly`, `Again` |
| the assets that are looked up 57-100 | `Resolvable`, `SkipAsset` |
| the version by tag, newest active, newest 101-116 | `Chosen` |
| its value or translation 117-134 | `ValueOf` |
| the global replacements of the first two passes 167-184, by a replacement string | `ReplaceAsset`, `ReplaceVariable` with `Replace`, `Inserted` |
| those of the third 189-195, by split and join | `ReplacePlain` with `ReplaceVerbatim` |
| the unresolved names 159-164, 195-203 | `Report` |
| the third pass searches the text as it is by then 186-187 | `NextPass` |

A text is a sequence of words and placeholders.  A placeholder is `padded` when
it is written with blanks inside its braces: the first two passes trim the name
and put the placeholder together again without blanks, so a padded one is looked
up and never replaced; the third replaces what it matched.

The values of the first two passes are replacement strings (171-174, 180-183) and read
as such (module ReplacementPatterns, above): `$$` in the value of an asset is one
dollar in the text, and the other patterns bring the placeholder, or what stands
before or behind it, along.  The third pass inserts the value as it is (194).

`assets_passes` runs every text of at most two tokens over assets with none, one
or two versions whose values and translations may hold placeholders themselves, an
escaped dollar or `$&`, with variables that may hold `$$&` or `$'`.
Two tokens suffice: each replacement is global and looks at one token at a time,
so what happens to a token depends on which placeholders the text holds, which
names are provided and what the values bring, not on a third neighbour.
`FlatIsParallel` compares with a reference definition (`Meaning`, `Preferred`)
that replaces all tokens at once, for values without placeholders and without
patterns but `$$`, which is a single dollar for assets and variables and stays
two for plain placeholders (`Unescaped`).
`NothingIsForgotten` says what is kept, and what of it is reported, with any
placeholders in the values; but a value with `$&`, `` $` `` or `$'` may put the very
placeholder it replaces back into the text, so that it takes values without
(`SelfContainedValues`).  The model is
not composed with ServePrompt, whose texts are those after the passes.

Both are proved in `ServePromptProofs.tla` for every text, every asset and every
value that they speak of.  A placeholder is `Handled` when its turn has come in its pass.
`NothingLost` says that what was handled and can be replaced is gone from the text
(`Gone`), that a token of the text in the last pass was there before it or came with
the value of a variable (`Brought`), and that what could not be replaced was noted
(`Reported`).  `FlatSoFar` says that, where the values are flat, the text of the
moment is the parallel substitution of the placeholders handled so far: replacing
one more by a text without placeholders is the substitution of one more
(`Combined`, `SpreadSpread`), and what is inserted for a value is the same wherever it
is inserted, because such a value brings nothing of its surroundings along.

## Publication

`Publication.tla` is the marketplace life cycle of a version.  The two kinds
follow different rules.  A prompt version that is requested is published at once
or left pending, as `Tenant.marketplaceRequiresApproval` says, whatever its status
was; nothing approves a pending one.  An asset version is always left pending,
whatever the tenant says, and approved or rejected by service methods that no
controller calls yet.

| Code | Action |
|---|---|
| prompt-version.service requestPublish 370-447 | `ReadToPublish`, `ReadProject`, `ReadSetting`, `WritePublish` |
| its unpublish 449-495 | `ReadToUnpublish`, `WriteUnpublish` |
| prompt-asset-version requestPublish: controller 263-285, service 320-350 | `ReadToSubmit`, `CheckSubmit`, `WriteSubmit` |
| unpublish 367, approvePublish 428, rejectPublish 491 | `ReadToWithdraw`, `ReadToApprove`, `ReadToReject` and the writes |
| activityLogService.logActivity 95-125 | `LogActivity`, `FailToLog` |
| an answer of 404 or 409, or an update that finds no row or user | `Refuse...` |
| a failing call, a dying process | `DatabaseError` |
| tenant.service update, removals of versions and users | `SetRequiresApproval`, `RemoveVersion`, `RemoveUser` |

A lookup that only finds the parent of a version is part of the step that reads
the version.  The requester is in no row: controllers pass `req.user.userId`, and
JwtStrategy.validate returns the id under another name.  For a request to publish
an asset version this makes the activity log fail after the row was written, on
every call (`prompt-asset-version/prompt-asset-version.controller.ts`:254
documents 200).

`publication` (one version of each kind, two requests, an owner and an approver;
any call may fail) checks `PublishedOnlyWaived`: the setting may have changed by
the time of the write, but in the time of the request there was a moment without
it; `ListedIsApproved`: after any race of requests, decisions and removals, what
is listed was approved and names who did; and `LogIsAccountable`.  Two requests
are enough for a decision on a row that has moved on, because the second request
can finish several times while the first holds what it read; versions share
nothing but users and the setting.

Proved in `PublicationProofs.tla`, for all values of the constants: these three
and `TypeOK`.  The invariant (`Inductive`) adds `Waivers` (a request notices each
moment at which no approval is asked for), `Carried` (the entry about to be logged
has been written) and `Requested` (whoever decides late decides on a version that
was requested, because nothing takes `requestedAt` back).

## Catalog

`Catalog.tla` is what requests do to prompts and to the five tables below them.
A prompt is found by the slug of its name, which is its primary key: two projects
never have the same one at the same time, but one can take what the other has
freed.  The rows below have ids that never come back.  A request names a row by
its path (prompt, version tag, language; prompt, asset key, version tag,
language), finds one element after the other in a call each, and writes by id.
All eighteen handlers have this shape, so they are one set of actions over the
kinds of rows: `Chain` lists the tables a path leads through, and what differs
between kinds is a guard.

| Code | Action |
|---|---|
| prompt.service create 111-241: tags, transaction, reading back | `BeginCreatePrompt`, `CreatePrompt`, `ReadBack` |
| its update 291-402 and remove 404-475 | `BeginWithPrompt`, `ReadTags`, `UpdatePrompt`, `RemovePrompt`, `PromptIsGone` |
| verifyPromptAccess 32-49, getByTagOrLatest 500-526 of prompt-version | `BeginBelowPrompt`, `Walk`, `NothingAhead` |
| getParentAsset 35-62, findOneByTag 156-213 of prompt-asset-version, findOneByLanguage | `BeginBelowAsset`, `Walk`, `NothingAhead` |
| create of versions, translations and asset versions | `InsertRow`, `ParentIsGone` |
| prompt-asset create 47-125 | `BeginCreateAsset`, `InsertAsset` |
| the updates and removals by id | `UpdateRow`, `DeleteRow`, `RowIsGone` |
| the body of prompt-version update, which may set versionTag 224-262 | `Retag` |
| onDelete: Cascade in the schema | `Remaining` |
| activityLogService.logActivity 95-125 | `LogActivity` |
| 409, 403, a failing call | `Refuse` |
| tag.service remove 94-112 | `RemoveTag` |

An update or removal by id that finds nothing is Prisma's P2025, which is 404
(`common/filters/prisma-exception.filter.ts`) or, in the removals of versions and
translations, the same success as that of the one who removed the row.  Two
history variables per request serve one property: `absent` notes that at some
time since its first lookup its path led nowhere, `told` that its answer said so.
The column `slug` of a row is a ghost: the prompt at its top.

An update writes what a row says, which is not modelled, and one of them a key: the
body of prompt-version's update is a partial body of its creation and holds the tag
(`prompt-version/dto/create-prompt-version.dto.ts`:51), which the update writes
(prompt-version.service.ts:242-247).  So the tag that a path names may belong to
another version at each of its lookups.  The unique index lets no two versions of a prompt have the
same; an update that would is refused.  The bodies of the other updates hold no key.

`catalog` (one slug, two projects, two keys, two requests at a time, four rows) checks the type with what the foreign and unique keys promise
together; `TagsStayInProject`; `AbsenceIsTrue`; `LogIsTrue`; and
`PromptsAndAssetsStay`.  Two requests are enough because one of them can finish
many times while the other stands between two lookups; with four rows a chain
of three below a prompt can be removed and begun anew.  Two keys are what a
version needs that leaves its tag to another; more would add rows beside the path,
which no lookup of the path reads.

`doc_version_in_project` is a counterexample to the same property for versions:
their check is a call of its own and the insertion connects them by the slug
alone, so that a version can land in another project's prompt.  Assets are safe
because their foreign key is slug and project together.

More that the code does, seen while modelling and with no run: the removal of an
asset always ends in 404, since its controller hands on the key
(`prompt-asset/prompt-asset.controller.ts:201`) where the service looks for an id;
no backup is ever made, since the controller that removes a prompt gives no
backup options (docs/PROMPT_BACKUP_SYSTEM.md:62 says it is automatic); the
update of an asset version writes the row and then fails to log, as does the
request to publish one; and no controller calls loadStructure, createVersion and
addOrUpdateTranslation of PromptService, which are not modelled.

Proved in `CatalogProofs.tla`, for all values of the constants: all five
properties of the run.  `Core` is the invariant: the tables are `Tidy` (every row
hangs below a row of the right table and shares its top, `Rooted`; ids and keys
are unique, `Distinct`), and a request that has found a row holds one which, if it
is still there, is of the right table and below the prompt it was asked for
(`Holding`).  A cascade of three levels suffices because the deepest chain has
three tables (`Cascade`).  `Tagged` and `Logging` add what a request is about to
write.  For `AbsenceIsTrue`, `Located` says that as long as the path has led
somewhere all the time, the request holds the row it leads to now: a step either
adds rows, which takes no path away, or removes some, or gives one
version another tag, whose old tag then leads nowhere.  In each case what was found on
a path that still leads somewhere is still on it (`OneChange`, `StillThere`), because
a path leads to one row at most (`ReachedOne`).

## Accounts

`Accounts.tla` is who may ask for what, and what a request that fails half-way
leaves behind: tenants, users, API keys and projects.  A handler is a record that
advances by one database call per step.  The first call authenticates: JwtStrategy
reads the user whose id is in the token, ApiKeyService the user of the key, and the
request acts as what was read until it is answered (`home`).

| Code | Action |
|---|---|
| jwt.strategy validate 47-91, roles.guard 16-65 | `ByToken`, `Admits` |
| api-key.service findUserByApiKey 63-128, api-key-or-jwt.guard | `ByKey`, `Opens` |
| tenant.service create: name 39-45, tenant 46-58, administrator 59-85, compensation 86-113 | `CheckName`, `InsertTenant`, `InsertAdmin` or `AdminFails`, `Undo` or `UndoFails` |
| its update 132-206 and remove 208-251, with onDelete in the schema | `Read`, `CheckName`, `UpdateTenant`, `RemoveTenant` (`Deletable`, `Cascade`) |
| auth.service register 46-65, user.service create 20-74, update 100-159, remove 161-204, the controller's choice of a tenant 78-128 | `Register`, `CreateUser` (`TenantOfNew`), `UpdateUser`, `RemoveUser` |
| api-key.service create 13, update 45, revoke 54; expiresAt | `CreateKey`, `UpdateKey`, `RevokeKey`, `Expire` |
| project.service create 46-108, update 146-193, remove 195-212 | `CreateProject`, `UpdateProject`, `RemoveProject` (`Mine`) |
| an error answered before anything is written, a dying process | `Refuse`, `Crash` |

What is written is unconditional but for the where clause, the unique columns and
the foreign keys; everything else was decided on rows read a call or more before.
Three history variables serve the properties: `settled`, how the setting up of a
tenant ended; `peopled`, tenants that ever had a user; `shut`, keys that were
revoked and not enabled again.  An update of a key writes what its body gives: it may
revoke or enable it, and set the time at which it expires.

The tenant of those who register is fixed in the code as 'default-tenant-id', to be
replaced by the id of a real one (auth.service.ts:13), while the seeded tenant has
an id of its own (`src/seed/seed.ts`:95).  `Default` and `Seeded` are therefore different
tenants here, and `Default` is given to none: until it is replaced, registration fails.

`accounts` (the seeded tenant, two that may be set up and the one that registration names, the seeded
administrator and two more users, one key, one slug, two requests at a time)
checks the type with what the foreign keys promise together, and `SetUpWhole`,
`RevokedIsRefused` and `ProjectsAreTheirTenants`.  Two setting-ups of one name, or
a setting-up and a removal or a rename, need two tenants and two requests.  One
key is enough, because a key is only looked for by itself and by its user.

The proofs in `AccountsProofs.tla` are of the same four, for all constants.  The
invariant has four parts.  `Tables` is the type and the foreign keys.  `ShutKeys`: a
key that is shut stays revoked as long as it is there, and its id is not given to
another; this is what makes the update of a key harmless, which writes only what the
body gives.  `Settled` is `SetUpWhole` with what is known of tenants that were
removed or that nobody set up.  `Flight`: between its second and its last call a
request holds a tenant that is open, or that was removed meanwhile, and no two
requests hold the same.

Seen while modelling: the names of tenants are not unique, because the check is a call of
its own and the column has no key (tenant.controller.ts:69 documents the conflict);
and a tenant administrator may create users in any tenant (user.controller.ts:78-128).

## The rows of a project

`ProjectRows.tla` is what a project configures: regions, cultural data,
environments, tags, AI models and the metadata of RAG documents.  All have the same
shape: the project guard, a lookup by slug and name or id, a write by id, the
deletion of a cached list, and the interceptor's entry in the log after the answer.
They are one set of actions over six kinds; what differs between kinds is a guard.

| Code | Action |
|---|---|
| common/guards/project.guard 30-137 | `Guard` |
| findOne of the services | `Find` (`Found`: by the unique name, or by the id and then the project) |
| rag-document-metadata update 130-146 | `CheckName` |
| region create 19-44, cultural-data create 19-40: the region by its languageCode | `FindRegion` |
| create, update, remove of the six services | `Create`, `Update`, `Remove` |
| region remove 196-242, a transaction | `Wipe` (private until it commits, `Locked`), `RemoveRegion` |
| findAll with CacheInterceptor | `Guard` (a hit), `ReadList`, `SetList`, `Expire` |
| the controllers' deletion of the cached list | `Forget` |
| interceptors/activity-log.interceptor 100-174 | `Log` |
| an error, a failed entry of the log, a dying process | `Refuse`, `Crash` |
| projects come and go | `CreateProject`, `RemoveProject` |

A request goes by the slug from the guard to its last call.  The slug may be freed
and taken by another tenant at any time; `moved` notes that this may have happened
between guard and lookup, which is the one window that stays open: then the request
finds, and changes, a row of the tenant that has the slug now.

`project_rows` (a slug two tenants may have in turn, a second project, three rows,
two names, two requests at a time) checks the type, `RegionsStayInProject`,
`LogIsTrue`, `DataGoesWithItsRegion`, `OnlyItsTenant` and `StaleIsExplained`.  Its
requests are on regions, cultural data and RAG documents, which between them have
all that the other kinds have: found by name or by id, with and without a list, with
and without a second lookup.  Three rows are a region with another
below it and one of its cultural data, or a row that goes and comes again while a
request holds its id.  Ids are never given out again, so the run ends when they
are used up; that is a bound on what one behaviour creates.

`ProjectRowsProofs.tla` proves all six for every value of the constants.  The
argument is that ids are never used twice: what is still there under an id that a
request holds is of the kind and the project it was when it was found (`Knows`), and
a project that still has it has not changed hands (`Admitted`).  Lemmas about how a
table may change (rows come, change within their kind and project, or go) carry
this over each step; each action adds which change it is.  `SInv`, for the cached
lists, says of each request between `list` and `set` that what it has read is the
table or that it is marked late.

Seen while modelling: the list of AI models is cached and never deleted from the
cache, so that it is old until it expires; cached lists outlive the project; region lists
show cultural data but writes of cultural data do not delete them; the removal of a
region answers nothing and is therefore not logged; a region may be made its own
ancestor, which nothing forbids and nothing walks up; and the region of RAG metadata
is refused by validation, because the DTO wants a UUID
(rag-document-metadata/dto/create-rag-document-metadata.dto.ts:9) where regions have
cuids (`src/prisma/schema.prisma`:149), so that it is always NULL in the model.

## Executions

`Executions.tla` is system prompts and what goes to a language model.  The text of a
system prompt may be a directive that names a file; whoever looks one up by its name reads
the file as well (system-prompt.service findOneByName 67-78 and _resolvePromptText
130-182), also to change or remove it.  `Plan` is the list of awaits of each
operation, and a handler is a position in it.

| Code | Action |
|---|---|
| system-prompt.service create 20, findOneByName 67, findAll 38, update 80, remove 108 | `Insert`, `Find`, `FindAll`, `Update`, `Delete` |
| _resolvePromptText 130-182 | `ReadFile` |
| raw-execution.service executeRaw 62-70, 72-153 | `ReadModel`, `InvokeRaw` |
| prompt.service generateStructure 655-681 | `Choose`, then as a raw execution |
| llm-execution.service execute 62-228 | `ResolvePrompt` or `SubstituteText`, `ReadModel`, `Invoke` |
| an error or a failing call, a dying process | `Refuse`, `Crash` |
| files of the installation, requests that change models | `Install`, `SetModel` |

`executions` (two system prompts, two names of which one is the generator's, one
text, one file, two models, two requests at a time) checks `SentIsCurrent` and
`BrokenStays`.  With two prompts and two names, a name is taken by the other prompt
while a request stands between row and file.

Both, and the type, are proved in `ExecutionsProofs.tla`.  `Watched` says that what a
request has noted in `under` covers the texts that have its name now, `FoundToSend`
at which steps what it has found will be sent, `Illegible` that a row which is still
called broken is, and `Elsewhere` that a request between its reading of the file
and its write asks for another name than a broken row has: a broken row with that
name has stopped it at the file.

Seen while modelling: creation does not look at the file, so that a directive with a
typing error makes a row that only SQL can remove; an update to such a text is
committed and then answered with an error; one missing file fails the whole listing;
raw execution takes a model of any project, supports one provider and answers
others with 500, because the BadRequestException is thrown in its own try block
(raw-execution.service.ts:115, documented as 400 in raw-execution.controller.ts:55);
and no call of a language model has a timeout.

## Seeding

`Seeding.tla` is the three scripts under `src/seed/`, call by call.  `Program` has
the phases of each script and `Calls` what a phase awaits, once or for each element
of an array (`ArgsOf`; in any order, which the code's arrays fix); `run` is where
the script is.  Any call may be the last
(`Stop`), errors inside the try block of a prompt are printed and passed over
(`PromptFails`), and between two runs the system is used (`Deploy`, `Edit`,
`RemovePrompt`).  `Edit` is what requests do to the version 1.0.0 of a prompt: they
create and remove it, give it another tag, and change its text, its language and its
translation.

The language matters to one script.  The invoice example translates the versions of
its project that are not Spanish already (seed.invoice-extraction.ts:530-533), and its upsert
writes the text alone into a version that is there (:753-755), so that a version
which a user has made Spanish stays Spanish, gets the English text and no translation.
The codegen example sets the language back and translates without looking at it
(seed.codegen.ts:621-674).  `SeededIsWhole` makes the exception for the one and not for the
other (`Seeded`).

| Code | In the model |
|---|---|
| seed.ts 42-87, the deletions, with what the foreign keys restrict | `Emptying`, `DeleteAll`, `Deletable` |
| seed.ts 90-309 | `Base`: `PutTenant`, `PutUser`, `PutProject`, `PutScoped` |
| seed.codegen.ts 440-573 | `Codegen`, the same calls with its own rows |
| the loops over prompts and assets, seed.codegen.ts 578-779 | `PutPrompt`, `PutVersion`, `PutSpanish`, `PutAsset`, `PutAssetVersion`, `PutAssetSpanish`, `PassOver` |
| seed.invoice-extraction.ts 502-577, 579-701 | `Invoice`: `FindUser`, `Translate` (`Translated`), `TranslateAsset` |

`seeding` (one prompt and one asset that both examples have, one more of each that only
codegen has, at most three mishaps: stops, swallowed errors, deployments, edits,
removals) checks the type with what the foreign keys promise, `SeededIsWhole`,
`BaseIsAlone` and `RerunIsPossible`.  The number of runs is not bounded.  Three
mishaps are one before, one in and one after a run.

`SeedingProofs.tla` proves the four for any sets of prompts and assets and any number
of mishaps.  The invariant says of each phase of the running script what it has left
behind so far: `BaseInv` what the deletions have emptied, `ProjectInv` what each call
of the project phase was for (`Effect`), `PromptsInv` and `AssetsInv` that what a loop
is through with was missed or is as the script writes it, and what the call before
has done for the one element in hand.  `SeededIsWhole` alone is not inductive: it
speaks of scripts that have ended.  That no earlier run is in the way of the next
follows from the order of the deletions: at each of them, what restricts it has been
deleted before.

Seen while modelling: one row of Deployment stops the base seed at the environments
(seed.ts:73), when the prompts are gone already; after the base and the
codegen seed there are two tenants called Default Tenant (seed.ts:93,
seed.codegen.ts:450), and the project of codegen belongs to another tenant than
its owner; the invoice script takes the shared prompts with their assets
from the codegen project; a prompt whose error was swallowed has no Spanish
translation, and a shared prompt that failed costs the assets
(docs/prompting.md:88 says all have one); and the base seed verifies users it never
creates (docs/PROMPT_CONSUMER_ROLE.md:78 has one of them in it).

## What is proved and what is only model-checked

Proofs cover every property of the passing runs but one.  `RequestsReturn` is liveness:
fairness and ENABLED are not for the prover, and TLC checks it.  The run that expects
a violation, `doc_version_in_project`, is a counterexample found by TLC.

The proofs assume what the modules declare with ASSUME: that requests are well formed,
that NULL is none of the ids and rows, and that constants which the code
distinguishes are distinct.  `AnswersAreSound` and `SimplePromptsAreServed` assume besides
that the catalog is not edited, as their properties say, and that there are finitely
many prompts; the second also that NULL, which stands for a reference without a project,
is no project.

The induction theorems of the library take an operator, which the provers cannot
instantiate.  Induction over the numbers is proved once instead, about a set
(`Induct`), from the numbers being well founded; texts are taken apart at their last
token (`InductOverTexts`), and of a function that is defined by recursion the modules
prove that it exists before they use its equation.

## Not modelled

- Prompt backup: written only when options ask for it, and the one caller gives none.
- Dashboard, health, execution log: they read; nobody calls the writer of the
  execution log.
- Audit and structured logging: output, which the program never reads again.
- Throttling: the counters live in a library; the repository configures them.
- Passwords, the signing and expiry of tokens, the guard of prompt consumers, which
  compares a role and reads no state, and `lastUsedAt` of a key, which decides nothing.
- The formatting of the metadata and the assets of an answer.
- Methods of PromptService that no controller calls (loadStructure, createVersion,
  addOrUpdateTranslation), and upsertTranslation and removeTranslation.
- What a language model answers.

## Plan

All of the plan is done: Deployment with its governance; ServePrompt and
AssetResolution with ReplacementPatterns; Publication; Catalog; Accounts; ProjectRows;
Executions; Seeding.
What could still be added is a composition of Accounts and ProjectRows, in which
the project guard's tenant is the one that authentication found.
