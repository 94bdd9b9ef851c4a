------------------------------ MODULE Executions ------------------------------
(***************************************************************************)
(* System prompts, and what is sent to a language model: the raw execution *)
(* of a text under a system prompt, the generation of the structure of a   *)
(* prompt, which is one, and the execution of a prompt or a text.          *)
(*                                                                         *)
(* The text of a system prompt may be a directive that names a file.       *)
(* Whoever looks a system prompt up by its name reads the file as well,    *)
(* and fails when it cannot, also when all he wants is to change or remove *)
(* it.  One step is one database call, one reading of a file or one call   *)
(* of the language model, with the code up to the next await.              *)
(*                                                                         *)
(* The resolution of a prompt is that of ServePrompt and AssetResolution;  *)
(* here it succeeds or fails.  Of a model only what decides about a call   *)
(* is kept.  What the models answer is left out.                           *)
(***************************************************************************)
EXTENDS Naturals, Sequences, FiniteSets

CONSTANTS
    Ids,            \* of rows of SystemPrompt
    Names, Texts,
    Files,          \* what directives name; a file has one content
    Models,         \* ids of rows of AIModel
    Global,         \* those that belong to default-project
    ModelRows,      \* what a row may say
    Keys, KeysSet,  \* environment variables, and those that are set
    Requests, Handlers,
    Generator,      \* the name prompt-generator
    NULL

Ops == {"create", "find", "list", "update", "remove", "raw", "generate", "execute"}

\* to and text: what a creation or an update gives, "asis" when it does not; the
\* text to execute, "asis" when it is that of a prompt.
IsRequest(q) ==
    /\ q.op \in Ops
    /\ q.name \in Names
    /\ q.op = "generate" => q.name = Generator
    /\ q.to \in Names \cup (IF q.op = "create" THEN {} ELSE {"asis"})
    /\ q.text \in Texts \cup Files \cup (IF q.op = "create" THEN {} ELSE {"asis"})
    /\ q.model \in Models

ASSUME RequestsAssumption == Generator \in Names /\ \A q \in Requests : IsRequest(q)
ASSUME KeysAssumption == KeysSet \subseteq Keys
ASSUME TextsAssumption == Texts \cap Files = {} /\ "asis" \notin Names \cup Texts \cup Files

\* fits: its name or its identifier is that of the model that structures are generated with.
Model == [fits : BOOLEAN, provider : {"openai", "anthropic", "other"}, key : Keys \cup {NULL}]

ASSUME ModelsAssumption == Global \subseteq Models /\ ModelRows \subseteq Model

Row == [name : Names, text : Texts \cup Files]

ASSUME NullAssumption == NULL \notin Row \cup Requests
ASSUME NullIsNoModel == NULL \notin Model \cup Models

VARIABLES
    rows,       \* SystemPrompt
    files,      \* that are there
    models,     \* AIModel
    handlers    \* what each request holds between two steps

vars == <<rows, files, models, handlers>>

Steps == {"insert", "find", "all", "file", "write", "delete", "choose", "model", "prompt", "invoke"}

Handler == [request : Requests \cup {NULL},
            step    : Nat,
            texts   : SUBSET (Texts \cup Files),    \* that were found
            chosen  : Models \cup {NULL},           \* the id of the model to use
            model   : Model \cup {NULL},            \* its row, as it was read
            under   : SUBSET (Texts \cup Files),    \* history: texts that had the name since the request began
            broken  : SUBSET Ids]                   \* history: rows that have been as they are since then, illegible

Idle == [request |-> NULL, step |-> 0, texts |-> {}, chosen |-> NULL, model |-> NULL,
         under |-> {}, broken |-> {}]

Init ==
    /\ rows = [i \in Ids |-> NULL]
    /\ files = {}
    /\ models = [m \in Models |-> NULL]
    /\ handlers = [h \in Handlers |-> Idle]

-------------------------------------------------------------------------------
\* Mutant of Plan: an update looks for the row only.
PlanWithoutFile(op) ==
    CASE op = "create" -> <<"insert">>
      [] op = "find" -> <<"find", "file">>
      [] op = "list" -> <<"all", "file">>
      [] op = "update" -> <<"find", "write", "file">>
      [] op = "remove" -> <<"find", "file", "find", "file", "delete">>
      [] op = "raw" -> <<"find", "file", "model", "invoke">>
      [] op = "generate" -> <<"choose", "find", "file", "model", "invoke">>
      [] op = "execute" -> <<"prompt", "model", "invoke">>

\* What the handlers await, one after the other.
Plan(op) ==
    CASE op = "create" -> <<"insert">>
      [] op = "find" -> <<"find", "file">>
      [] op = "list" -> <<"all", "file">>
      [] op = "update" -> <<"find", "file", "write", "file">>
      [] op = "remove" -> <<"find", "file", "find", "file", "delete">>
      [] op = "raw" -> <<"find", "file", "model", "invoke">>
      [] op = "generate" -> <<"choose", "find", "file", "model", "invoke">>
      [] op = "execute" -> <<"prompt", "model", "invoke">>

Busy(h) == handlers[h].request # NULL

Asked(h) == handlers[h].request

At(h, step) == Busy(h) /\ Plan(Asked(h).op)[handlers[h].step] = step

\* A directive needs its file to be there.
Legible(text, there) == text \in Texts \cup there

NamedIn(table, name) == {i \in Ids : table[i] # NULL /\ table[i].name = name}

Named(name) == NamedIn(rows, name)

\* The next step of a request; after the last one it is answered.
Forth(handler) ==
    IF handler.step = Len(Plan(handler.request.op)) THEN Idle
    ELSE [handler EXCEPT !.step = @ + 1]

Advance(h) == handlers' = [handlers EXCEPT ![h] = Forth(@)]

Answer(h) == handlers' = [handlers EXCEPT ![h] = Idle]

\* What requests in flight see happen to rows and files.
Watch(hs, table, there) ==
    [h \in Handlers |->
        IF hs[h].request = NULL THEN Idle
        ELSE [hs[h] EXCEPT
                !.under = @ \cup {table[i].text : i \in NamedIn(table, hs[h].request.name)},
                !.broken = {i \in @ : table[i] = rows[i] /\ ~Legible(rows[i].text, there)}]]

Begin(h, q) ==
    /\ ~Busy(h)
    /\ handlers' = [handlers EXCEPT ![h] =
          [Idle EXCEPT !.request = q, !.step = 1,
                       !.chosen = IF q.op = "generate" THEN NULL ELSE q.model,
                       !.under = {rows[i].text : i \in Named(q.name)},
                       !.broken = {i \in Ids : rows[i] # NULL /\ ~Legible(rows[i].text, files)}]]
    /\ UNCHANGED <<rows, files, models>>

-------------------------------------------------------------------------------
(***************************************************************************)
(* System prompts.                                                         *)
(***************************************************************************)
\* The text is stored as it comes, without a look at the file.
Insert(h) ==
    /\ At(h, "insert")
    /\ UNCHANGED <<files, models>>
    /\ Named(Asked(h).to) = {}
    /\ \E i \in Ids :
          /\ rows[i] = NULL
          /\ rows' = [rows EXCEPT ![i] = [name |-> Asked(h).to, text |-> Asked(h).text]]
    /\ handlers' = Watch([handlers EXCEPT ![h] = Forth(@)], rows', files)

\* Mutant of Find: whatever row there is.
FindAny(h) ==
    /\ At(h, "find")
    /\ \E i \in Ids :
          /\ rows[i] # NULL
          /\ handlers' = [handlers EXCEPT ![h] = [Forth(@) EXCEPT !.texts = {rows[i].text}]]
    /\ UNCHANGED <<rows, files, models>>

Find(h) ==
    /\ At(h, "find")
    /\ \E i \in Named(Asked(h).name) :
          handlers' = [handlers EXCEPT ![h] = [Forth(@) EXCEPT !.texts = {rows[i].text}]]
    /\ UNCHANGED <<rows, files, models>>

FindAll(h) ==
    /\ At(h, "all")
    /\ handlers' = [handlers EXCEPT ![h] =
          [Forth(@) EXCEPT !.texts = {rows[i].text : i \in {j \in Ids : rows[j] # NULL}}]]
    /\ UNCHANGED <<rows, files, models>>

\* All files that were named are read: one that is missing fails the whole list.
ReadFile(h) ==
    /\ At(h, "file")
    /\ \A text \in handlers[h].texts : Legible(text, files)
    /\ Advance(h)
    /\ UNCHANGED <<rows, files, models>>

Given(new, old) == IF new = "asis" THEN old ELSE new

\* The row that has the name by now is written, and then the file that is named now is read.
Update(h) ==
    /\ At(h, "write")
    /\ UNCHANGED <<files, models>>
    /\ Named(Given(Asked(h).to, Asked(h).name)) \subseteq Named(Asked(h).name)
    /\ \E i \in Named(Asked(h).name) :
          LET row == [name |-> Given(Asked(h).to, rows[i].name), text |-> Given(Asked(h).text, rows[i].text)] IN
          /\ rows' = [rows EXCEPT ![i] = row]
          /\ handlers' = Watch([handlers EXCEPT ![h] = [Forth(@) EXCEPT !.texts = {row.text}]], rows', files)

Delete(h) ==
    /\ At(h, "delete")
    /\ UNCHANGED <<files, models>>
    /\ \E i \in Named(Asked(h).name) : rows' = [rows EXCEPT ![i] = NULL]
    /\ handlers' = Watch([handlers EXCEPT ![h] = Forth(@)], rows', files)

-------------------------------------------------------------------------------
(***************************************************************************)
(* Executions.                                                             *)
(***************************************************************************)
\* findFirst in default-project, by apiIdentifier or name.
Choose(h) ==
    /\ At(h, "choose")
    /\ \E m \in Models :
          /\ m \in Global
          /\ models[m] # NULL /\ models[m].fits
          /\ handlers' = [handlers EXCEPT ![h] = [Forth(@) EXCEPT !.chosen = m]]
    /\ UNCHANGED <<rows, files, models>>

\* By its id, in whatever project.
ReadModel(h) ==
    /\ At(h, "model")
    /\ models[handlers[h].chosen] # NULL
    /\ handlers' = [handlers EXCEPT ![h] = [Forth(@) EXCEPT !.model = models[handlers[h].chosen]]]
    /\ UNCHANGED <<rows, files, models>>

\* The prompt with that id, by ServePrompt; one that cannot be resolved is an error.
ResolvePrompt(h) ==
    /\ At(h, "prompt")
    /\ Asked(h).text = "asis"
    /\ Advance(h)
    /\ UNCHANGED <<rows, files, models>>

\* The text of the request, by AssetResolution; when that fails, or without a
\* project, its variables are substituted and nothing can fail.
SubstituteText(h) ==
    /\ At(h, "prompt")
    /\ Asked(h).text # "asis"
    /\ Advance(h)
    /\ UNCHANGED <<rows, files, models>>

\* The model answers the system prompt with the text of the user.
InvokeRaw(h) ==
    /\ At(h, "invoke")
    /\ Asked(h).op \in {"raw", "generate"}
    /\ handlers[h].model.key \in KeysSet
    /\ handlers[h].model.provider = "openai"
    /\ Advance(h)
    /\ UNCHANGED <<rows, files, models>>

\* It answers what was resolved.
Invoke(h) ==
    /\ At(h, "invoke")
    /\ Asked(h).op = "execute"
    /\ handlers[h].model.key \in KeysSet
    /\ handlers[h].model.provider \in {"openai", "anthropic"}
    /\ Advance(h)
    /\ UNCHANGED <<rows, files, models>>

-------------------------------------------------------------------------------
\* Something is not there, is taken or fails: an error is answered.
Refuse(h) ==
    /\ Busy(h)
    /\ Answer(h)
    /\ UNCHANGED <<rows, files, models>>

\* The process dies.
Crash ==
    /\ \E h \in Handlers : Busy(h)
    /\ handlers' = [h \in Handlers |-> Idle]
    /\ UNCHANGED <<rows, files, models>>

\* Files come and go with the installation.
Install(some) ==
    /\ files' = some
    /\ UNCHANGED <<rows, models>>
    /\ handlers' = Watch(handlers, rows, some)

\* Models come, change and go by requests that ProjectRows models.
SetModel(m, row) ==
    /\ models[m] # row
    /\ models' = [models EXCEPT ![m] = row]
    /\ UNCHANGED <<rows, files, handlers>>

Call(h) ==
    \/ Insert(h) \/ Find(h) \/ FindAll(h) \/ ReadFile(h) \/ Update(h) \/ Delete(h)
    \/ Choose(h) \/ ReadModel(h) \/ ResolvePrompt(h) \/ SubstituteText(h)
    \/ InvokeRaw(h) \/ Invoke(h)
    \/ Refuse(h)

Next ==
    \/ \E h \in Handlers : Call(h) \/ \E q \in Requests : Begin(h, q)
    \/ \E some \in SUBSET Files : Install(some)
    \/ \E m \in Models, row \in ModelRows \cup {NULL} : SetModel(m, row)
    \/ Crash

Spec == Init /\ [][Next]_vars

-------------------------------------------------------------------------------
(***************************************************************************)
(* Properties.                                                             *)
(***************************************************************************)
\* The types of tables and requests; names are unique.
TypeOK ==
    /\ rows \in [Ids -> Row \cup {NULL}]
    /\ files \subseteq Files
    /\ models \in [Models -> Model \cup {NULL}]
    /\ handlers \in [Handlers -> Handler]
    /\ \A h \in Handlers : Busy(h) => handlers[h].step \in 1..Len(Plan(Asked(h).op))
    /\ \A i, j \in Ids : rows[i] # NULL /\ rows[j] # NULL /\ rows[i].name = rows[j].name => i = j

\* A system prompt whose file cannot be read is out of reach: no request that began
\* after it became so, and while it stays so, changes or removes it, however
\* other prompts are renamed meanwhile.
BrokenStays ==
    [][\A h \in Handlers :
          (At(h, "write") \/ At(h, "delete")) /\ handlers'[h].step # handlers[h].step =>
              \A i \in handlers[h].broken : rows'[i] = rows[i]]_vars

\* What goes to a language model under the name of a system prompt had that name
\* at some time since the request began, although it may have been renamed,
\* rewritten or removed before it goes.
SentIsCurrent ==
    \A h \in Handlers :
        Busy(h) /\ Asked(h).op \in {"raw", "generate"} /\ At(h, "invoke") =>
            handlers[h].texts \subseteq handlers[h].under
===============================================================================
