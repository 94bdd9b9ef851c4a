-------------------------------- MODULE Seeding --------------------------------
(***************************************************************************)
(* The seed scripts: the base data, and the example projects of code       *)
(* generation and of invoice extraction.                                   *)
(*                                                                         *)
(* A script is a sequence of database calls without a transaction.  It may *)
(* fail or be stopped at any of them and be run again, and scripts may be  *)
(* run in any order, one at a time.  Both examples use prompts with the    *)
(* same ids, and an id is unique over all projects: each script moves such *)
(* a prompt into its own project, and the foreign key (ON UPDATE CASCADE)  *)
(* moves the assets below it along.                                        *)
(*                                                                         *)
(* A text is its author: the script that wrote it, or a user.  Execution   *)
(* logs and RAG documents, which are deleted first and never seeded, and   *)
(* the system prompts, which no script shares, are left out.               *)
(***************************************************************************)
EXTENDS Naturals, Sequences

CONSTANTS
    Prompts,    \* for each script, the ids of its prompts
    Assets,     \* for each script, the keys of its assets
    Shared,     \* the prompt all assets are below: system-base
    MaxMishaps, \* bound: runs that stop, swallowed errors, deployments, edits, removals
    NULL

Scripts == {"base", "codegen", "invoice"}
Examples == Scripts \ {"base"}

PromptIds == UNION {Prompts[s] : s \in Scripts}
Keys == UNION {Assets[s] : s \in Scripts}

ASSUME PromptsAssumption ==
    /\ DOMAIN Prompts = Scripts /\ Prompts["base"] = {}
    /\ DOMAIN Assets = Scripts /\ Assets["base"] = {}
    /\ \A e \in Examples : Shared \in Prompts[e] /\ Assets[e] # {}

ASSUME MishapsAssumption == MaxMishaps \in Nat

\* Rows that belong to a project and are only looked for there.
Kinds == {"region", "culturalData", "environment", "aiModel", "tag"}

KindsOf(s) == IF s = "base" THEN Kinds ELSE Kinds \ {"tag"}

\* The default tenant of the base seed is found by its name, that of the codegen
\* seed by an id of its own.
Tenants == {"uuid", "default-tenant"}

VARIABLES
    tenants,    \* ids of the rows of Tenant
    user,       \* tenant of test@example.com
    projects,   \* for each script, the tenant of its project
    scoped,     \* <<script, kind>>: the project of the script has its rows of the kind
    prompts,    \* rows of Prompt, each with its version 1.0.0 and the translation of that
    assets,     \* rows of PromptAsset below the shared prompt, with version and translation
    deployed,   \* projects that have rows of Deployment
    run,        \* the script that is running
    mishaps,    \* how many there were
    done        \* history: how the last run ended, if nothing was done since

tables == <<tenants, user, projects, scoped, prompts, assets, deployed>>

vars == <<tables, run, mishaps, done>>

Author == Scripts \cup {"user", NULL}

\* The languages of versions.
Languages == {"en-US", "es-ES"}

Prompt == [project : Scripts, version : Author, language : Languages, spanish : Author]
Asset == [version : Author, spanish : Author]

\* phase: the part of the script; handled: what its loop is through with; call: the
\* next call of the loop's body, for arg unless it is the first; made: prompts that were
\* created or updated; missed: those whose error was swallowed.
Run == [script : Scripts, phase : 1..6, handled : SUBSET (PromptIds \cup Keys), call : Nat \ {0},
        arg : PromptIds \cup Keys \cup {NULL}, made : SUBSET PromptIds, missed : SUBSET PromptIds]

ASSUME NullAssumption == NULL \notin Tenants \cup Scripts \cup PromptIds \cup Keys

ASSUME NullIsNoRow == NULL \notin Prompt \cup Asset \cup Run

Init ==
    /\ tenants = {}
    /\ user = NULL
    /\ projects = [s \in Scripts |-> NULL]
    /\ scoped = {}
    /\ prompts = [i \in PromptIds |-> NULL]
    /\ assets = [k \in Keys |-> NULL]
    /\ deployed = {}
    /\ run = NULL
    /\ mishaps = 0
    /\ done = NULL

-------------------------------------------------------------------------------
(***************************************************************************)
(* The scripts.                                                            *)
(***************************************************************************)
\* Mutant of Emptying: projects before what refers to them.
EmptyingProjectsFirst ==
    <<"assetTranslation", "promptTranslation", "promptVersion", "promptAssetVersion",
      "project", "tag", "prompt", "culturalData", "region", "environment", "promptAsset",
      "aiModel", "user", "tenant">>

\* Mutant of Emptying: tenants are left.
EmptyingButTenants ==
    <<"assetTranslation", "promptTranslation", "promptVersion", "promptAssetVersion",
      "tag", "prompt", "culturalData", "region", "environment", "promptAsset",
      "aiModel", "project", "user">>

Emptying ==
    <<"assetTranslation", "promptTranslation", "promptVersion", "promptAssetVersion",
      "tag", "prompt", "culturalData", "region", "environment", "promptAsset",
      "aiModel", "project", "user", "tenant">>

Base ==
    [empty |-> Emptying,
     project |-> <<"tenant", "user", "project", "region", "culturalData", "tag", "aiModel", "environment">>]

Codegen ==
    [project |-> <<"tenant", "user", "project", "region", "culturalData", "environment", "aiModel">>,
     prompts |-> <<"prompt", "version", "spanish">>,
     assets |-> <<"asset", "assetVersion", "assetSpanish">>]

Invoice ==
    [project |-> <<"findUser", "project", "region", "culturalData", "environment", "aiModel">>,
     prompts |-> <<"prompt", "version">>,
     assets |-> <<"asset", "assetVersion">>,
     translate |-> <<"translate">>,
     translateAssets |-> <<"translateAsset">>]

\* The phases of a script, in their order, and the calls that each makes.
Program ==
    [base |-> <<"empty", "project">>,
     codegen |-> <<"project", "prompts", "assets">>,
     invoice |-> <<"project", "prompts", "assets", "translate", "translateAssets">>]

Calls == [base |-> Base, codegen |-> Codegen, invoice |-> Invoice]

\* What a phase is repeated for; the translations are for whatever is in the project.
ArgsOf(script, phase) ==
    CASE phase = "prompts" -> Prompts[script]
      [] phase = "assets" -> Assets[script]
      [] phase = "translate" -> PromptIds
      [] phase = "translateAssets" -> Keys
      [] phase \in {"empty", "project"} -> {NULL}

s == run.script

Running == run # NULL /\ run.phase <= Len(Program[s])

Phase == Program[s][run.phase]
Body == Calls[s][Phase]
Args == ArgsOf(s, Phase)

\* The arguments the next call may be for: any that is left, in the first call.
Taken(a) == IF run.call = 1 THEN a \in Args \ run.handled ELSE a = run.arg

\* The next call is this one.
At(phase, call, a) == Running /\ Phase = phase /\ Body[run.call] = call /\ Taken(a)

\* Where the script is after an iteration for the argument, and after one call of it.
Passed(a) ==
    IF run.handled \cup {a} = Args
    THEN [run EXCEPT !.phase = @ + 1, !.handled = {}, !.call = 1, !.arg = NULL]
    ELSE [run EXCEPT !.handled = @ \cup {a}, !.call = 1, !.arg = NULL]

Following(a) == IF run.call < Len(Body) THEN [run EXCEPT !.call = @ + 1, !.arg = a] ELSE Passed(a)

Advance(a) == run' = Following(a) /\ UNCHANGED <<mishaps, done>>

Mishap == mishaps < MaxMishaps /\ mishaps' = mishaps + 1

-------------------------------------------------------------------------------
(***************************************************************************)
(* Deleting everything.                                                    *)
(***************************************************************************)
Without(kind) == scoped \ (Scripts \X {kind})

Untranslated(rows) == [i \in DOMAIN rows |-> IF rows[i] = NULL THEN NULL ELSE [rows[i] EXCEPT !.spanish = NULL]]

\* A prompt, or an asset, without version.
Bare(project) == [project |-> project, version |-> NULL, language |-> "en-US", spanish |-> NULL]

BareAsset == [version |-> NULL, spanish |-> NULL]

None(rows) == [i \in DOMAIN rows |-> NULL]

\* What restricts the deletion: cultural data a region, deployments an environment,
\* deployments and prompts a project, prompts and projects a user.  Everything else goes
\* along.
Deletable(table) ==
    CASE table = "region" -> Without("culturalData") = scoped
      [] table = "environment" -> deployed = {}
      [] table = "project" -> deployed = {} /\ prompts = None(prompts)
      [] table = "user" -> projects = None(projects) /\ prompts = None(prompts)
      [] OTHER -> TRUE

\* The table whose rows are deleted next.
Emptied == Emptying[run.call]

DeleteAll ==
    /\ Running /\ Phase = "empty"
    /\ Deletable(Emptied)
    /\ assets' = CASE Emptied = "assetTranslation" -> Untranslated(assets)
                   [] Emptied = "promptAssetVersion" ->
                         [k \in Keys |-> IF assets[k] = NULL THEN NULL ELSE BareAsset]
                   [] Emptied \in {"promptAsset", "prompt"} -> None(assets)
                   [] OTHER -> assets
    /\ prompts' = CASE Emptied = "promptTranslation" -> Untranslated(prompts)
                    [] Emptied = "promptVersion" ->
                          [i \in PromptIds |-> IF prompts[i] = NULL THEN NULL ELSE Bare(prompts[i].project)]
                    [] Emptied = "prompt" -> None(prompts)
                    [] OTHER -> prompts
    /\ scoped' = CASE Emptied \in Kinds -> Without(Emptied)
                   [] Emptied = "project" -> {}
                   [] OTHER -> scoped
    /\ projects' = IF Emptied \in {"project", "tenant"} THEN None(projects) ELSE projects
    /\ user' = IF Emptied \in {"user", "tenant"} THEN NULL ELSE user
    /\ tenants' = IF Emptied = "tenant" THEN {} ELSE tenants
    /\ Advance(NULL)
    /\ UNCHANGED deployed

-------------------------------------------------------------------------------
(***************************************************************************)
(* Seeding a project.                                                      *)
(***************************************************************************)
\* The tenant the script goes on with.
Own == CASE s = "base" -> IF "uuid" \in tenants \/ tenants = {} THEN "uuid" ELSE "default-tenant"
         [] s = "codegen" -> "default-tenant"
         [] s = "invoice" -> user

PutTenant ==
    /\ At("project", "tenant", NULL)
    /\ tenants' = tenants \cup {Own}
    /\ Advance(NULL)
    /\ UNCHANGED <<user, projects, scoped, prompts, assets, deployed>>

\* A user that is there stays in its tenant.
PutUser ==
    /\ At("project", "user", NULL)
    /\ user' = IF user = NULL THEN Own ELSE user
    /\ Advance(NULL)
    /\ UNCHANGED <<tenants, projects, scoped, prompts, assets, deployed>>

FindUser ==
    /\ At("project", "findUser", NULL)
    /\ user # NULL
    /\ Advance(NULL)
    /\ UNCHANGED tables

PutProject ==
    /\ At("project", "project", NULL)
    /\ projects' = [projects EXCEPT ![s] = IF @ = NULL THEN Own ELSE @]
    /\ Advance(NULL)
    /\ UNCHANGED <<tenants, user, scoped, prompts, assets, deployed>>

PutScoped(kind) ==
    /\ At("project", kind, NULL)
    /\ scoped' = scoped \cup {<<s, kind>>}
    /\ Advance(NULL)
    /\ UNCHANGED <<tenants, user, projects, prompts, assets, deployed>>

\* Mutant of PutPrompt: a prompt that is there stays where it is.
PutPromptWhereItIs(i) ==
    /\ At("prompts", "prompt", i)
    /\ prompts' = [prompts EXCEPT ![i] =
          IF @ = NULL THEN Bare(s) ELSE @]
    /\ run' = [Following(i) EXCEPT !.made = @ \cup {i}]
    /\ UNCHANGED <<tenants, user, projects, scoped, assets, deployed, mishaps, done>>

\* A prompt that is there is moved into the project of the script.
PutPrompt(i) ==
    /\ At("prompts", "prompt", i)
    /\ prompts' = [prompts EXCEPT ![i] =
          IF @ = NULL THEN Bare(s) ELSE [@ EXCEPT !.project = s]]
    /\ run' = [Following(i) EXCEPT !.made = @ \cup {i}]
    /\ UNCHANGED <<tenants, user, projects, scoped, assets, deployed, mishaps, done>>

\* The invoice example leaves the language of a version that is there as it is.
PutVersion(i) ==
    /\ At("prompts", "version", i)
    /\ prompts' = [prompts EXCEPT ![i].version = s,
                                  ![i].language = IF s = "codegen" THEN "en-US" ELSE @]
    /\ Advance(i)
    /\ UNCHANGED <<tenants, user, projects, scoped, assets, deployed>>

PutSpanish(i) ==
    /\ At("prompts", "spanish", i)
    /\ prompts' = [prompts EXCEPT ![i].spanish = s]
    /\ Advance(i)
    /\ UNCHANGED <<tenants, user, projects, scoped, assets, deployed>>

\* Without the shared prompt an asset is passed over.
PassOver(k) ==
    /\ At("assets", "asset", k)
    /\ Shared \notin run.made
    /\ run' = Passed(k)
    /\ UNCHANGED <<tables, mishaps, done>>

PutAsset(k) ==
    /\ At("assets", "asset", k)
    /\ Shared \in run.made
    /\ assets' = [assets EXCEPT ![k] = IF @ = NULL THEN BareAsset ELSE @]
    /\ Advance(k)
    /\ UNCHANGED <<tenants, user, projects, scoped, prompts, deployed>>

PutAssetVersion(k) ==
    /\ At("assets", "assetVersion", k)
    /\ assets' = [assets EXCEPT ![k].version = s]
    /\ Advance(k)
    /\ UNCHANGED <<tenants, user, projects, scoped, prompts, deployed>>

PutAssetSpanish(k) ==
    /\ At("assets", "assetSpanish", k)
    /\ assets' = [assets EXCEPT ![k].spanish = s]
    /\ Advance(k)
    /\ UNCHANGED <<tenants, user, projects, scoped, prompts, deployed>>

\* A text the script has no translation for is repeated, by whoever it is.
TranslatedBy(own, text) == IF own THEN s ELSE text

\* The versions that are translated: not those whose language is Spanish.
Translated(i) ==
    /\ prompts[i] # NULL
    /\ prompts[i].project = s
    /\ prompts[i].version # NULL
    /\ prompts[i].language # "es-ES"

Translate(i) ==
    /\ At("translate", "translate", i)
    /\ prompts' =
          IF ~Translated(i) THEN prompts
          ELSE [prompts EXCEPT ![i].spanish = TranslatedBy(i \in Prompts[s], prompts[i].version)]
    /\ Advance(i)
    /\ UNCHANGED <<tenants, user, projects, scoped, assets, deployed>>

TranslateAsset(k) ==
    /\ At("translateAssets", "translateAsset", k)
    /\ assets' =
          IF assets[k] = NULL \/ prompts[Shared].project # s \/ assets[k].version = NULL THEN assets
          ELSE [assets EXCEPT ![k].spanish = TranslatedBy(k \in Assets[s], assets[k].version)]
    /\ Advance(k)
    /\ UNCHANGED <<tenants, user, projects, scoped, prompts, deployed>>

-------------------------------------------------------------------------------
(***************************************************************************)
(* Runs.                                                                   *)
(***************************************************************************)
Start(script) ==
    /\ run = NULL
    /\ run' = [script |-> script, phase |-> 1, handled |-> {}, call |-> 1, arg |-> NULL,
               made |-> {}, missed |-> {}]
    /\ done' = NULL
    /\ UNCHANGED <<tables, mishaps>>

Finish ==
    /\ run # NULL /\ ~Running
    /\ run' = NULL
    /\ done' = run
    /\ UNCHANGED <<tables, mishaps>>

\* The calls for one prompt are in a try block: the error is printed, and the loop goes
\* on with the next prompt.
PromptFails(i) ==
    /\ Running /\ Phase = "prompts" /\ Taken(i)
    /\ Mishap
    /\ run' = [Passed(i) EXCEPT !.missed = @ \cup {i}]
    /\ UNCHANGED <<tables, done>>

\* The calls the database refuses.
Refused ==
    \/ Running /\ Phase = "empty" /\ ~Deletable(Emptied)
    \/ At("project", "findUser", NULL) /\ user = NULL

\* A refused call ends the run, and so does any other error or the end of the
\* process.
Refuse ==
    /\ Refused
    /\ run' = NULL
    /\ UNCHANGED <<tables, mishaps, done>>

Stop ==
    /\ Running
    /\ Mishap
    /\ run' = NULL
    /\ UNCHANGED <<tables, done>>

\* Between two runs the system is used: a deployment is made, a version 1.0.0 edited
\* or a prompt removed.
Deploy(project) ==
    /\ run = NULL
    /\ Mishap
    /\ <<project, "environment">> \in scoped
    /\ deployed' = deployed \cup {project}
    /\ done' = NULL
    /\ UNCHANGED <<tenants, user, projects, scoped, prompts, assets, run>>

\* Users create the version 1.0.0 of a prompt, remove it, change its text and its
\* language, and give versions other tags; and the same of its translation.
Edit(i) ==
    /\ run = NULL
    /\ Mishap
    /\ prompts[i] # NULL
    /\ \E version \in {NULL, "user", prompts[i].version}, spanish \in {NULL, "user", prompts[i].spanish},
          language \in Languages :
          prompts' = [prompts EXCEPT ![i] =
              IF version = NULL THEN Bare(@.project)
              ELSE [project |-> @.project, version |-> version, language |-> language,
                    spanish |-> spanish]]
    /\ done' = NULL
    /\ UNCHANGED <<tenants, user, projects, scoped, assets, deployed, run>>

\* Mutant of RemovePrompt: the assets of the prompt stay.
RemovePromptAlone(i) ==
    /\ run = NULL
    /\ Mishap
    /\ prompts[i] # NULL
    /\ prompts' = [prompts EXCEPT ![i] = NULL]
    /\ done' = NULL
    /\ UNCHANGED <<tenants, user, projects, scoped, assets, deployed, run>>

RemovePrompt(i) ==
    /\ run = NULL
    /\ Mishap
    /\ prompts[i] # NULL
    /\ prompts' = [prompts EXCEPT ![i] = NULL]
    /\ assets' = IF i = Shared THEN None(assets) ELSE assets
    /\ done' = NULL
    /\ UNCHANGED <<tenants, user, projects, scoped, deployed, run>>

Next ==
    \/ \E script \in Scripts : Start(script) \/ Deploy(script)
    \/ DeleteAll
    \/ PutTenant \/ PutUser \/ FindUser \/ PutProject
    \/ \E kind \in Kinds : PutScoped(kind)
    \/ \E i \in PromptIds :
          PutPrompt(i) \/ PutVersion(i) \/ PutSpanish(i) \/ PromptFails(i) \/ Translate(i)
    \/ \E k \in Keys :
          PassOver(k) \/ PutAsset(k) \/ PutAssetVersion(k) \/ PutAssetSpanish(k) \/ TranslateAsset(k)
    \/ Finish \/ Refuse \/ Stop
    \/ \E i \in PromptIds : Edit(i) \/ RemovePrompt(i)

Spec == Init /\ [][Next]_vars

-------------------------------------------------------------------------------
(***************************************************************************)
(* Properties.                                                             *)
(***************************************************************************)
\* The types of the tables and of the run, and what the foreign keys promise.
TypeOK ==
    /\ tenants \subseteq Tenants
    /\ user \in tenants \cup {NULL}
    /\ projects \in [Scripts -> tenants \cup {NULL}]
    /\ scoped \subseteq Scripts \X Kinds
    /\ \A r \in scoped : projects[r[1]] # NULL
    /\ prompts \in [PromptIds -> Prompt \cup {NULL}]
    /\ \A i \in PromptIds : prompts[i] # NULL => projects[prompts[i].project] # NULL /\ user # NULL
    /\ assets \in [Keys -> Asset \cup {NULL}]
    /\ prompts[Shared] = NULL => assets = None(assets)
    /\ \A p \in deployed : <<p, "environment">> \in scoped
    /\ run \in Run \cup {NULL}
    /\ done \in Run \cup {NULL}
    /\ mishaps \in 0..MaxMishaps

HasAll(script) ==
    /\ user # NULL
    /\ projects[script] # NULL
    /\ {script} \X KindsOf(script) \subseteq scoped

\* What the script makes of its prompts.  The invoice example writes its text into a
\* version that a user has made Spanish, and gives it no translation.
Seeded(script, row) ==
    \/ row = [project |-> script, version |-> script, language |-> "en-US", spanish |-> script]
    \/ /\ script = "invoice"
       /\ row # NULL
       /\ row.project = script /\ row.version = script /\ row.language = "es-ES"

\* A script that ended without an error has left all that it is to seed, in its
\* project and as it writes it, whatever was there before: other scripts, earlier
\* runs that stopped somewhere, edited texts, and languages but for Spanish.  An
\* error that was swallowed costs the prompt it was about, and the assets if that
\* is the shared one, but nothing else.
SeededIsWhole ==
    done # NULL =>
        /\ HasAll(done.script)
        /\ \A i \in Prompts[done.script] \ done.missed : Seeded(done.script, prompts[i])
        /\ Shared \in done.made =>
              \A k \in Assets[done.script] :
                  assets[k] = [version |-> done.script, spanish |-> done.script]

\* The base seed starts from nothing: neither example survives it.
BaseIsAlone ==
    done # NULL /\ done.script = "base" =>
        /\ tenants = {"uuid"} /\ projects["base"] = user
        /\ \A script \in Examples : projects[script] = NULL
        /\ prompts = None(prompts)

\* However earlier runs ended, none of them is in the way of the next: a call is
\* refused only when the invoice example finds no user, or the base seed meets a
\* deployment, which it does not delete.
RerunIsPossible ==
    Refused =>
        \/ s = "invoice" /\ user = NULL
        \/ s = "base" /\ deployed # {}
===============================================================================
