----------------------------- MODULE CatalogProofs -----------------------------
(***************************************************************************)
(* Proofs about Catalog, for all slugs, projects, tags, requests, handlers *)
(* and bounds.                                                             *)
(***************************************************************************)
EXTENDS Catalog, TLAPS

-------------------------------------------------------------------------------
(***************************************************************************)
(* The inductive invariants.                                               *)
(***************************************************************************)
\* What the state of a request says of its place in the code.
Placed(h) ==
    /\ ~At(h, "idle") => Asked(h) \in Requests
    /\ At(h, "tags") => Asked(h).kind = "prompt" /\ Asked(h).op = "update" /\ handlers[h].depth = 0
    /\ At(h, "readback") => Asked(h).kind = "prompt" /\ Asked(h).op = "create"
    /\ At(h, "log") /\ Asked(h).kind # "prompt" => handlers[h].held \in Ids
    /\ At(h, "walk") => Asked(h).kind # "prompt" /\ handlers[h].depth < Len(Asked(h).keys)
    /\ At(h, "write") => handlers[h].depth = Len(Asked(h).keys)

\* The tables above the tables that do not hang below prompts.
Parent == [translation |-> "version", assetVersion |-> "asset", assetTranslation |-> "assetVersion"]

\* Rows hang below rows of the right table, down from a prompt that is there.
Rooted ==
    \A r \in rows :
        /\ r.id < next
        /\ prompts[r.slug] # NULL
        /\ r.kind \in {"version", "asset"} => r.parent = r.slug
        /\ r.kind \notin {"version", "asset"} =>
              \E above \in rows :
                  above.id = r.parent /\ above.slug = r.slug /\ above.kind = Parent[r.kind]

\* Ids are keys, and so are parent, table and key together.
Distinct ==
    \A r, s \in rows :
        (r.id = s.id \/ (r.parent = s.parent /\ r.kind = s.kind /\ r.key = s.key)) => r = s

\* What a request has found and still relies on: if the row is still there, it
\* is of the table it looked in and below the prompt that it was asked for, and
\* if assets are concerned, that prompt is still the project's.
Holding(h) ==
    (handlers[h].pc \in {"walk", "write"} /\ Asked(h).kind # "prompt") =>
        /\ handlers[h].depth = 0 =>
              /\ handlers[h].held = Asked(h).slug
              /\ Asked(h).kind \in PromptKinds \/ (Asked(h).kind = "asset" /\ Asked(h).op = "create")
        /\ handlers[h].depth # 0 =>
              /\ handlers[h].held \in Ids
              /\ handlers[h].held < next
              /\ \A r \in rows :
                    r.id = handlers[h].held =>
                        /\ r.kind = Chain[Asked(h).kind][handlers[h].depth]
                        /\ r.slug = Asked(h).slug
                        /\ Asked(h).kind \notin PromptKinds =>
                              prompts[r.slug].project = Asked(h).project

\* The tables.
Tidy ==
    /\ prompts \in [Slugs -> Prompt \cup {NULL}]
    /\ rows \subseteq Row
    /\ next \in 1..(MaxRow + 1)
    /\ tags \subseteq Tags
    /\ log \subseteq [action : {"CREATE", "UPDATE", "DELETE"}, id : Ids]
    /\ Rooted
    /\ Distinct

Core ==
    /\ Tidy
    /\ handlers \in [Handlers -> Handler]
    /\ \A h \in Handlers : Placed(h) /\ Holding(h)

\* The tags a request is about to write are its project's.
Tagged ==
    /\ TagsStayInProject
    /\ \A h \in Handlers :
          (At(h, "write") /\ Asked(h).kind = "prompt") =>
              \A t \in TagsOf(h) : ProjectOf[t] = Asked(h).project

\* What is about to be logged has been done.
Logging ==
    /\ LogIsTrue
    /\ \A h \in Handlers :
          (At(h, "log") /\ Asked(h).kind # "prompt") =>
              /\ handlers[h].held \in Ids
              /\ handlers[h].held < next
              /\ Asked(h).op = "remove" => handlers[h].held \notin IdsOf(rows)

\* As long as the path has led somewhere all the time, the request holds the row
\* to which as much of the path as it has followed leads now.
Located(h) ==
    /\ (~At(h, "idle") /\ ~handlers[h].absent) => Present(prompts, rows, Asked(h))
    /\ (handlers[h].pc \in {"walk", "write"} /\ Asked(h).kind # "prompt" /\ ~handlers[h].absent) =>
          handlers[h].held \in Reached(rows, Asked(h), handlers[h].depth)
    /\ (At(h, "log") /\ Asked(h).op = "remove") => handlers[h].absent
    /\ handlers[h].told => handlers[h].absent

-------------------------------------------------------------------------------
(***************************************************************************)
(* What a step does to the requests.                                       *)
(***************************************************************************)
\* The fields in which Noticed leaves a request alone.
Same(u, w) ==
    /\ u.request = w.request /\ u.pc = w.pc /\ u.held = w.held
    /\ u.depth = w.depth /\ u.tags = w.tags /\ u.told = w.told

\* A request that changes only its history variable keeps its type.
LEMMA NoticingKeepsType ==
    ASSUME NEW u \in Handler, NEW b
    PROVE  /\ [u EXCEPT !.absent = @ \/ b] \in Handler
           /\ Same(u, [u EXCEPT !.absent = @ \/ b])
  BY DEF Handler, Same

\* Noticing changes no more of any request.
LEMMA NoticedType ==
    ASSUME handlers \in [Handlers -> Handler]
    PROVE  /\ Noticed \in [Handlers -> Handler]
           /\ \A h \in Handlers : Same(handlers[h], Noticed[h])
<1>1. ASSUME NEW h \in Handlers
      PROVE  Noticed[h] \in Handler /\ Same(handlers[h], Noticed[h])
  <2>1. CASE At(h, "idle")
    BY <2>1 DEF Noticed, Same
  <2>2. CASE ~At(h, "idle")
    <3>1. Noticed[h] = [handlers[h] EXCEPT !.absent = @ \/ ~Present(prompts', rows', Asked(h))]
      BY <2>2 DEF Noticed
    <3> QED BY <3>1, NoticingKeepsType
  <2> QED BY <2>1, <2>2
<1> QED BY <1>1 DEF Noticed

\* The states of a request that is over.
LEMMA OverKeepsType ==
    ASSUME NEW b \in BOOLEAN, NEW c \in BOOLEAN
    PROVE  /\ Over(b, c) \in Handler
           /\ Over(b, c).pc = "idle"
           /\ Over(b, c).told = b
           /\ Over(b, c).absent = c
  BY DEF Handler, Over

\* Going on leaves the others alone.
LEMMA GoToEffect ==
    ASSUME handlers \in [Handlers -> Handler], NEW h \in Handlers,
           NEW pc \in {"log", "readback"}, GoTo(h, pc)
    PROVE  /\ handlers' \in [Handlers -> Handler]
           /\ \A g \in Handlers \ {h} : handlers'[g] = Noticed[g]
           /\ handlers'[h] = [Noticed[h] EXCEPT !.pc = pc]
<1>1. Noticed \in [Handlers -> Handler]
  BY NoticedType
<1>2. handlers' = [Noticed EXCEPT ![h] = [Noticed[h] EXCEPT !.pc = pc]]
  BY <1>1 DEF GoTo
<1>3. [Noticed[h] EXCEPT !.pc = pc] \in Handler
  BY <1>1 DEF Handler
<1> QED BY <1>1, <1>2, <1>3

\* So does an answer, after which the request is over.
LEMMA AnswerEffect ==
    ASSUME handlers \in [Handlers -> Handler], NEW h \in Handlers,
           NEW told \in BOOLEAN, Answer(h, told)
    PROVE  /\ handlers' \in [Handlers -> Handler]
           /\ \A g \in Handlers \ {h} : handlers'[g] = Noticed[g]
           /\ handlers'[h].pc = "idle"
           /\ told => handlers'[h].absent = Noticed[h].absent
           /\ ~told => handlers'[h] = Idle
<1>1. Noticed \in [Handlers -> Handler]
  BY NoticedType
<1>2. PICK w : /\ w = (IF told THEN Over(TRUE, Noticed[h].absent) ELSE Idle)
               /\ handlers' = [Noticed EXCEPT ![h] = w]
  BY DEF Answer
<1>3. Noticed[h].absent \in BOOLEAN
  BY <1>1 DEF Handler
<1>4. Idle \in Handler /\ Idle.pc = "idle"
  BY OverKeepsType DEF Idle
<1>5. w \in Handler /\ w.pc = "idle" /\ (told => w.absent = Noticed[h].absent)
  <2>1. CASE told
    BY <1>2, <1>3, <2>1, OverKeepsType
  <2>2. CASE ~told
    BY <1>2, <1>4, <2>2, OverKeepsType
  <2> QED BY <2>1, <2>2
<1> QED BY <1>1, <1>2, <1>5

-------------------------------------------------------------------------------
(***************************************************************************)
(* The cascade.                                                            *)
(***************************************************************************)
\* The tables.
LEMMA KindsAre ==
    /\ Kinds = {"prompt", "version", "translation", "asset", "assetVersion", "assetTranslation"}
    /\ Parent["translation"] = "version"
    /\ Parent["assetVersion"] = "asset"
    /\ Parent["assetTranslation"] = "assetVersion"
  BY DEF Kinds, Chain, Parent

\* One level of the cascade.
LEMMA OneLevel ==
    ASSUME Tidy, NEW gone
    PROVE  /\ gone \subseteq WithChildren(gone)
           /\ \A r \in rows : r.parent \in gone => r.id \in WithChildren(gone)
           /\ \A r \in rows : (r.id \in WithChildren(gone) /\ r.id \notin gone) => r.parent \in gone
           /\ \A s \in Slugs : s \in WithChildren(gone) => s \in gone
<1>1. \A r \in rows : r.id \in Nat
  BY DEF Tidy, Row, Ids
<1> QED BY <1>1, SlugsAssumption DEF WithChildren, IdsOf, Tidy, Distinct

\* Three levels remove all that hangs below what is removed, and no more than
\* that of anything: what remains hangs below what remains.
LEMMA Cascade ==
    ASSUME Tidy, NEW gone
    PROVE  /\ Remaining(gone) \subseteq rows
           /\ \A r \in Remaining(gone) :
                 /\ r.id \notin gone
                 /\ r.slug \notin gone
                 /\ r.kind \notin {"version", "asset"} =>
                       \E above \in Remaining(gone) :
                           above.id = r.parent /\ above.slug = r.slug /\ above.kind = Parent[r.kind]
<1> DEFINE W1 == WithChildren(gone)
           W2 == WithChildren(W1)
           W3 == WithChildren(W2)
<1>1. /\ gone \subseteq W1
      /\ \A r \in rows : r.parent \in gone => r.id \in W1
      /\ \A r \in rows : (r.id \in W1 /\ r.id \notin gone) => r.parent \in gone
      /\ \A s \in Slugs : s \in W1 => s \in gone
  BY OneLevel
<1>2. /\ W1 \subseteq W2
      /\ \A r \in rows : r.parent \in W1 => r.id \in W2
      /\ \A r \in rows : (r.id \in W2 /\ r.id \notin W1) => r.parent \in W1
      /\ \A s \in Slugs : s \in W2 => s \in W1
  BY OneLevel
<1>3. /\ W2 \subseteq W3
      /\ \A r \in rows : r.parent \in W2 => r.id \in W3
      /\ \A r \in rows : (r.id \in W3 /\ r.id \notin W2) => r.parent \in W2
      /\ \A s \in Slugs : s \in W3 => s \in W2
  BY OneLevel
<1>4. Remaining(gone) = {r \in rows : r.id \notin W3}
  BY DEF Remaining
<1> HIDE DEF W1, W2, W3
<1>5. \A r \in rows : r.kind \in Kinds \ {"prompt"} /\ r.slug \in Slugs
  BY DEF Tidy, Row
<1>6. ASSUME NEW r \in rows, r.kind \in {"version", "asset"}
      PROVE  /\ r.id \in W3 => r.id \in W1
             /\ r.slug \in gone => r.id \in W1
  BY <1>1, <1>2, <1>3, <1>5, <1>6 DEF Tidy, Rooted
<1>7. ASSUME NEW r \in rows, r.kind \in {"translation", "assetVersion"}
      PROVE  /\ r.id \in W3 => r.id \in W2
             /\ r.slug \in gone => r.id \in W2
             /\ r.id \notin W3 => \E above \in Remaining(gone) :
                    above.id = r.parent /\ above.slug = r.slug /\ above.kind = Parent[r.kind]
  <2>1. PICK above \in rows :
          above.id = r.parent /\ above.slug = r.slug /\ above.kind = Parent[r.kind]
    BY <1>7 DEF Tidy, Rooted
  <2>2. above.kind \in {"version", "asset"}
    BY <1>7, <2>1, KindsAre
  <2>3. /\ above.id \in W3 => above.id \in W1
        /\ above.slug \in gone => above.id \in W1
    BY <2>2, <1>6
  <2> QED BY <1>2, <1>3, <1>4, <2>1, <2>3
<1>8. ASSUME NEW r \in rows, r.kind = "assetTranslation"
      PROVE  /\ r.slug \in gone => r.id \in W3
             /\ r.id \notin W3 => \E above \in Remaining(gone) :
                    above.id = r.parent /\ above.slug = r.slug /\ above.kind = Parent[r.kind]
  <2>1. PICK above \in rows :
          above.id = r.parent /\ above.slug = r.slug /\ above.kind = Parent[r.kind]
    BY <1>8 DEF Tidy, Rooted
  <2>2. above.kind = "assetVersion"
    BY <1>8, <2>1, KindsAre
  <2>3. /\ above.id \in W3 => above.id \in W2
        /\ above.slug \in gone => above.id \in W2
    BY <2>2, <1>7
  <2> QED BY <1>3, <1>4, <2>1, <2>3
<1>9. ASSUME NEW r \in Remaining(gone)
      PROVE  /\ r.id \notin gone
             /\ r.slug \notin gone
             /\ r.kind \notin {"version", "asset"} =>
                   \E above \in Remaining(gone) :
                       above.id = r.parent /\ above.slug = r.slug /\ above.kind = Parent[r.kind]
  <2>1. r \in rows /\ r.id \notin W3 /\ r.id \notin W2 /\ r.id \notin W1 /\ r.id \notin gone
    BY <1>1, <1>2, <1>3, <1>4
  <2>2. CASE r.kind \in {"version", "asset"}
    BY <2>1, <2>2, <1>6
  <2>3. CASE r.kind \in {"translation", "assetVersion"}
    BY <2>1, <2>3, <1>7
  <2>4. CASE r.kind = "assetTranslation"
    BY <2>1, <2>4, <1>8
  <2> QED BY <2>1, <2>2, <2>3, <2>4, <1>5, KindsAre
<1> QED BY <1>4, <1>9

-------------------------------------------------------------------------------
(***************************************************************************)
(* What a step does to what requests hold.                                 *)
(***************************************************************************)
\* Ids do not come back, and a row that stays stays its project's and in its table.
Stable ==
    /\ next <= next'
    /\ \A r \in rows' :
          \/ next <= r.id
          \/ \E s \in rows :
                /\ s.id = r.id /\ s.kind = r.kind /\ s.slug = r.slug
                /\ prompts'[r.slug].project = prompts[r.slug].project

\* The other requests at most notice.
Others(h) ==
    /\ handlers' \in [Handlers -> Handler]
    /\ \A g \in Handlers \ {h} : Same(handlers[g], handlers'[g])

\* The request is over but for its log, or for the prompt it reads back.
Ends(h) ==
    /\ Others(h)
    /\ \/ handlers'[h].pc = "idle"
       \/ /\ handlers'[h].pc \in {"log", "readback"}
          /\ handlers'[h].request = Asked(h)
          /\ Asked(h) \in Requests
          /\ handlers'[h].pc = "readback" => Asked(h).kind = "prompt" /\ Asked(h).op = "create"
          /\ handlers'[h].pc = "log" /\ Asked(h).kind # "prompt" => handlers'[h].held \in Ids

\* What is true of a request remains true of it while others go on.
LEMMA SameKeeps ==
    ASSUME Tidy, Tidy', Stable, NEW g \in Handlers, Placed(g), Holding(g),
           Same(handlers[g], handlers'[g])
    PROVE  Placed(g)' /\ Holding(g)'
<1>1. Placed(g)'
  BY DEF Placed, Same, At, Asked
<1>2. Holding(g)'
  <2>1. /\ next \in Nat /\ next' \in Nat
        /\ \A r \in rows' : r.id \in Nat
    BY DEF Tidy, Row, Ids
  <2>2. SUFFICES ASSUME handlers[g].pc \in {"walk", "write"}, Asked(g).kind # "prompt",
                        handlers[g].depth # 0
                 PROVE  /\ handlers[g].held < next'
                        /\ \A r \in rows' :
                              r.id = handlers[g].held =>
                                  /\ r.kind = Chain[Asked(g).kind][handlers[g].depth]
                                  /\ r.slug = Asked(g).slug
                                  /\ Asked(g).kind \notin PromptKinds =>
                                        prompts'[r.slug].project = Asked(g).project
    BY DEF Holding, Same, Asked
  <2>3. handlers[g].held \in Nat /\ handlers[g].held < next
    BY <2>2 DEF Holding, Ids
  <2>4. ASSUME NEW r \in rows', r.id = handlers[g].held
        PROVE  \E s \in rows :
                  /\ s.id = r.id /\ s.kind = r.kind /\ s.slug = r.slug
                  /\ prompts'[r.slug].project = prompts[r.slug].project
    BY <2>1, <2>3, <2>4 DEF Stable
  <2> QED BY <2>1, <2>2, <2>3, <2>4 DEF Holding, Stable
<1> QED BY <1>1, <1>2

\* The end of a request keeps the invariant if the tables do.
LEMMA EndsKeeps ==
    ASSUME Core, NEW h \in Handlers, Ends(h), Tidy', Stable
    PROVE  Core'
<1>1. ASSUME NEW g \in Handlers, g # h
      PROVE  Placed(g)' /\ Holding(g)'
  BY <1>1, SameKeeps DEF Core, Ends, Others
<1>2. Placed(h)' /\ Holding(h)'
  BY DEF Ends, Placed, Holding, At, Asked
<1> QED BY <1>1, <1>2 DEF Core, Ends, Others

\* Steps that leave the tables alone.
LEMMA TablesKept ==
    ASSUME Tidy, UNCHANGED tables
    PROVE  Tidy' /\ Stable
  BY DEF Tidy, Stable, tables, Rooted, Distinct

\* Going on to log or read back, and answering, are ends.
LEMMA GoToEnds ==
    ASSUME Core, NEW h \in Handlers, NEW pc \in {"log", "readback"}, GoTo(h, pc), ~At(h, "idle"),
           pc = "readback" => Asked(h).kind = "prompt" /\ Asked(h).op = "create",
           pc = "log" /\ Asked(h).kind # "prompt" => handlers[h].held \in Ids
    PROVE  Ends(h)
<1>1. Asked(h) \in Requests
  BY DEF Core, Placed
<1>2. Same(handlers[h], Noticed[h]) /\ Noticed[h] \in Handler
  BY NoticedType DEF Core
<1>3. /\ handlers' \in [Handlers -> Handler]
      /\ \A g \in Handlers \ {h} : Same(handlers[g], handlers'[g])
      /\ handlers'[h] = [Noticed[h] EXCEPT !.pc = pc]
  BY GoToEffect, NoticedType DEF Core
<1>4. handlers'[h].pc = pc /\ handlers'[h].request = Asked(h) /\ handlers'[h].held = handlers[h].held
  BY <1>2, <1>3 DEF Same, Handler, Asked
<1> QED BY <1>1, <1>3, <1>4 DEF Ends, Others

\* An answer is one.
LEMMA AnswerEnds ==
    ASSUME Core, NEW h \in Handlers, NEW told \in BOOLEAN, Answer(h, told)
    PROVE  Ends(h)
  BY AnswerEffect, NoticedType DEF Core, Ends, Others

\* All steps of a request but reads of tags and rows are ends.
LEMMA ContinueEnds ==
    ASSUME Core, NEW h \in Handlers, Continue(h), ~ReadTags(h), ~Walk(h)
    PROVE  Ends(h)
<1>1. CASE CreatePrompt(h)
  BY <1>1, GoToEnds DEF CreatePrompt, Writing, At
<1>2. CASE ReadBack(h)
  <2>1. ~At(h, "idle") /\ Asked(h).kind = "prompt"
    BY <1>2 DEF ReadBack, At, Core, Placed
  <2>2. CASE GoTo(h, "log")
    BY <2>1, <2>2, GoToEnds
  <2>3. CASE Answer(h, TRUE)
    BY <2>3, AnswerEnds
  <2> QED BY <1>2, <2>2, <2>3 DEF ReadBack
<1>3. CASE UpdatePrompt(h)
  BY <1>3, GoToEnds DEF UpdatePrompt, Writing, At
<1>4. CASE RemovePrompt(h)
  BY <1>4, GoToEnds DEF RemovePrompt, Writing, At
<1>5. CASE PromptIsGone(h) \/ NothingAhead(h) \/ ParentIsGone(h) \/ InsertAsset(h) \/ RowIsGone(h)
             \/ Refuse(h)
  BY <1>5, AnswerEnds DEF PromptIsGone, NothingAhead, ParentIsGone, InsertAsset, RowIsGone, Refuse
<1>6. CASE InsertRow(h)
  <2>1. CASE Answer(h, FALSE)
    BY <2>1, AnswerEnds
  <2>2. CASE handlers' = [Noticed EXCEPT ![h].pc = "log", ![h].held = next]
    <3>1. /\ Noticed \in [Handlers -> Handler]
          /\ \A g \in Handlers : Same(handlers[g], Noticed[g])
      BY NoticedType DEF Core
    <3>2. next \in Ids
      BY <1>6 DEF InsertRow, Core, Tidy, Ids
    <3>3. [Noticed[h] EXCEPT !.pc = "log", !.held = next] \in Handler
      BY <3>1, <3>2 DEF Handler
    <3>4. /\ handlers'[h] = [Noticed[h] EXCEPT !.pc = "log", !.held = next]
          /\ handlers' \in [Handlers -> Handler]
          /\ \A g \in Handlers \ {h} : handlers'[g] = Noticed[g]
      BY <2>2, <3>1, <3>3
    <3>5. handlers'[h].pc = "log" /\ handlers'[h].request = Asked(h) /\ handlers'[h].held = next
      BY <3>1, <3>4 DEF Handler, Same, Asked
    <3>6. Asked(h) \in Requests
      BY <1>6 DEF InsertRow, Writing, At, Core, Placed
    <3> QED BY <3>1, <3>2, <3>4, <3>5, <3>6 DEF Ends, Others
  <2> QED BY <1>6, <2>1, <2>2 DEF InsertRow
<1>7. CASE UpdateRow(h)
  <2>1. handlers[h].held \in Ids
    BY <1>7 DEF UpdateRow, Held, Core, Tidy, Row
  <2> QED BY <1>7, <2>1, GoToEnds, AnswerEnds DEF UpdateRow, Writing, At
<1>8. CASE DeleteRow(h)
  <2>1. handlers[h].held \in Ids
    BY <1>8 DEF DeleteRow, Held, Core, Tidy, Row
  <2> QED BY <1>8, <2>1, GoToEnds, AnswerEnds DEF DeleteRow, Writing, At
<1>9. CASE LogActivity(h)
  <2>1. (Asked(h).op = "remove") \in BOOLEAN
    OBVIOUS
  <2> QED BY <1>9, <2>1, AnswerEnds DEF LogActivity
<1> QED BY <1>1, <1>2, <1>3, <1>4, <1>5, <1>6, <1>7, <1>8, <1>9 DEF Continue

-------------------------------------------------------------------------------
(***************************************************************************)
(* Requests that begin and look up.                                        *)
(***************************************************************************)
\* The lengths of paths.
LEMMA Paths ==
    ASSUME NEW q \in Requests
    PROVE  /\ q.keys \in Seq(Keys)
           /\ q.kind \in Kinds /\ q.slug \in Slugs /\ q.project \in Projects
           /\ q.kind = "prompt" => Len(q.keys) = 0
           /\ q.kind = "version" => Len(q.keys) = (IF q.op = "create" THEN 0 ELSE 1)
           /\ q.kind = "translation" => Len(q.keys) = (IF q.op = "create" THEN 1 ELSE 2)
           /\ q.kind = "asset" => Len(q.keys) = (IF q.op = "create" THEN 0 ELSE 1)
           /\ q.kind = "assetVersion" => Len(q.keys) = (IF q.op = "create" THEN 1 ELSE 2)
           /\ q.kind = "assetTranslation" => Len(q.keys) = (IF q.op = "create" THEN 2 ELSE 3)
<1>1. IsRequest(q)
  BY RequestsAssumption
<1>2. /\ Len(Chain["prompt"]) = 0
      /\ Len(Chain["version"]) = 1
      /\ Len(Chain["translation"]) = 2
      /\ Len(Chain["asset"]) = 1
      /\ Len(Chain["assetVersion"]) = 2
      /\ Len(Chain["assetTranslation"]) = 3
  BY DEF Chain
<1>3. /\ q.keys \in Seq(Keys)
      /\ q.kind \in Kinds /\ q.slug \in Slugs /\ q.project \in Projects
  BY <1>1 DEF IsRequest
<1>4. Len(q.keys) = Len(Chain[q.kind]) - (IF q.op = "create" /\ q.kind # "prompt" THEN 1 ELSE 0)
  BY <1>1 DEF IsRequest
<1> HIDE DEF Chain
<1>5. CASE q.op = "create"
  <2>1. CASE q.kind = "prompt"
    BY <1>2, <1>3, <1>4, <2>1
  <2>2. CASE q.kind # "prompt"
    <3>1. Len(q.keys) = Len(Chain[q.kind]) - 1
      BY <1>4, <1>5, <2>2
    <3> QED BY <1>2, <1>3, <1>5, <2>2, <3>1
  <2> QED BY <2>1, <2>2
<1>6. CASE q.op # "create"
  BY <1>2, <1>3, <1>4, <1>6
<1> QED BY <1>5, <1>6

\* The beginning of a request.
LEMMA BeginEffect ==
    ASSUME Core, NEW h \in Handlers, NEW q \in Requests, NEW pc \in {"tags", "walk", "write"},
           NEW held \in Slugs \cup Ids, NEW depth \in 0..1, NEW ts \in SUBSET SUBSET Tags,
           Begin(h, q, pc, held, depth, ts)
    PROVE  /\ Others(h)
           /\ handlers'[h].request = q /\ handlers'[h].pc = pc /\ handlers'[h].held = held
           /\ handlers'[h].depth = depth /\ handlers'[h].tags = ts
           /\ UNCHANGED tables
<1> DEFINE w == [request |-> q, pc |-> pc, held |-> held, depth |-> depth, tags |-> ts,
                 absent |-> ~Present(prompts, rows, q), told |-> FALSE]
<1>1. w \in Handler
  BY DEF Handler
<1>2. handlers' = [handlers EXCEPT ![h] = w] /\ UNCHANGED tables
  BY DEF Begin
<1> QED BY <1>1, <1>2 DEF Core, Others, Same

\* Requests that begin with a prompt.
LEMMA BeginAtPrompt ==
    ASSUME Core, NEW h \in Handlers, NEW q \in Requests, NEW pc, NEW ts \in SUBSET SUBSET Tags,
           Begin(h, q, pc, q.slug, 0, ts),
           \/ pc = "tags" /\ q.kind = "prompt" /\ q.op = "update"
           \/ pc = "write" /\ q.kind = "prompt"
           \/ pc = "walk" /\ q.kind \in PromptKinds /\ Len(q.keys) # 0
           \/ pc = "write" /\ q.kind \in PromptKinds /\ Len(q.keys) = 0
           \/ pc = "write" /\ q.kind = "asset" /\ q.op = "create"
    PROVE  Core'
<1>1. pc \in {"tags", "walk", "write"} /\ q.slug \in Slugs /\ q.keys \in Seq(Keys)
  BY Paths
<1>2. /\ Others(h)
      /\ handlers'[h].request = q /\ handlers'[h].pc = pc /\ handlers'[h].held = q.slug
      /\ handlers'[h].depth = 0
      /\ UNCHANGED tables
  BY <1>1, BeginEffect
<1>3. Tidy' /\ Stable
  BY <1>2, TablesKept DEF Core
<1>4. ASSUME NEW g \in Handlers, g # h
      PROVE  Placed(g)' /\ Holding(g)'
  BY <1>2, <1>3, <1>4, SameKeeps DEF Core, Others
<1>5. Len(q.keys) \in Nat /\ (q.kind = "prompt" => Len(q.keys) = 0)
      /\ (q.kind = "asset" /\ q.op = "create" => Len(q.keys) = 0)
  BY Paths
<1>6. Placed(h)'
  BY <1>2, <1>5 DEF Placed, At, Asked, PromptKinds
<1>7. Holding(h)'
  BY <1>2 DEF Holding, At, Asked, PromptKinds
<1> QED BY <1>2, <1>3, <1>4, <1>6, <1>7 DEF Core, Others

\* Requests that begin with an asset.
LEMMA BeginAtAsset ==
    ASSUME Core, NEW h \in Handlers, NEW q \in Requests, BeginBelowAsset(h, q)
    PROVE  Core'
<1>1. PICK r \in Below(rows, {q.slug}, "asset", q.keys[1]) : Begin(h, q, Found(q, 1), r.id, 1, {})
  BY DEF BeginBelowAsset
<1>2. /\ q.kind \notin PromptKinds /\ q.keys # <<>> /\ q.keys \in Seq(Keys) /\ q.kind \in Kinds
      /\ InProject(prompts, q.slug, q.project)
      /\ q.kind = "prompt" => Len(q.keys) = 0
  BY Paths DEF BeginBelowAsset
<1>3. q.kind \in {"asset", "assetVersion", "assetTranslation"} /\ Len(q.keys) \in Nat /\ Len(q.keys) >= 1
  BY <1>2, KindsAre DEF PromptKinds
<1>4. Found(q, 1) \in {"walk", "write"} /\ (Found(q, 1) = "write" <=> Len(q.keys) = 1)
  BY <1>3 DEF Found
<1>5. r \in rows /\ r.parent = q.slug /\ r.kind = "asset"
  BY DEF Below
<1>6. /\ r.slug = q.slug /\ r.id \in Ids /\ r.id < next
      /\ \A s \in rows : s.id = r.id => s = r
  BY <1>5 DEF Core, Tidy, Rooted, Distinct, Row
<1>7. {} \in SUBSET SUBSET Tags
  OBVIOUS
<1>8. /\ Others(h)
      /\ handlers'[h].request = q /\ handlers'[h].pc = Found(q, 1) /\ handlers'[h].held = r.id
      /\ handlers'[h].depth = 1
      /\ UNCHANGED tables
  BY <1>1, <1>4, <1>6, <1>7, BeginEffect
<1>9. Tidy' /\ Stable
  BY <1>8, TablesKept DEF Core
<1>10. ASSUME NEW g \in Handlers, g # h
      PROVE  Placed(g)' /\ Holding(g)'
  BY <1>8, <1>9, <1>10, SameKeeps DEF Core, Others
<1>11. Placed(h)'
  <2>1. CASE Found(q, 1) = "walk"
    <3>1. Len(q.keys) # 1
      BY <2>1 DEF Found
    <3>2. \A n \in Nat : n >= 1 /\ n # 1 => 1 < n
      OBVIOUS
    <3>3. 1 < Len(q.keys)
      BY <1>3, <3>1, <3>2
    <3> QED BY <1>3, <1>8, <2>1, <3>3 DEF Placed, At, Asked
  <2>2. CASE Found(q, 1) = "write"
    BY <1>4, <1>8, <2>2 DEF Placed, At, Asked
  <2> QED BY <1>4, <2>1, <2>2
<1>12. Holding(h)'
  <2>1. Chain[q.kind][1] = "asset"
    BY <1>3 DEF Chain
  <2>2. UNCHANGED <<prompts, rows, next>>
    BY <1>8 DEF tables
  <2> QED BY <1>2, <1>5, <1>6, <1>8, <2>1, <2>2 DEF Holding, Asked, InProject
<1> QED BY <1>8, <1>9, <1>10, <1>11, <1>12 DEF Core, Others

\* Every request begins like that.
LEMMA NewRequestKeeps ==
    ASSUME Core, NEW h \in Handlers, NewRequest(h)
    PROVE  Core'
<1>1. PICK q \in Requests :
         \/ \E ts \in SUBSET tags : BeginCreatePrompt(h, q, ts)
         \/ BeginWithPrompt(h, q)
         \/ BeginBelowPrompt(h, q)
         \/ BeginCreateAsset(h, q)
         \/ BeginBelowAsset(h, q)
  BY DEF NewRequest
<1>2. {} \in SUBSET SUBSET Tags
  OBVIOUS
<1>3. CASE \E ts \in SUBSET tags : BeginCreatePrompt(h, q, ts)
  <2>1. PICK ts \in SUBSET tags : BeginCreatePrompt(h, q, ts)
    BY <1>3
  <2>2. {ts} \in SUBSET SUBSET Tags
    BY DEF Core, Tidy
  <2>3. q.kind = "prompt" /\ Begin(h, q, "write", q.slug, 0, {ts})
    BY <2>1 DEF BeginCreatePrompt
  <2> QED BY <2>2, <2>3, BeginAtPrompt
<1>4. CASE BeginWithPrompt(h, q)
  <2>1. CASE q.op = "update"
    <3>1. q.kind = "prompt" /\ Begin(h, q, "tags", q.slug, 0, {})
      BY <1>4, <2>1 DEF BeginWithPrompt
    <3> QED BY <1>2, <2>1, <3>1, BeginAtPrompt
  <2>2. CASE q.op # "update"
    <3>1. q.kind = "prompt" /\ Begin(h, q, "write", q.slug, 0, {})
      BY <1>4, <2>2 DEF BeginWithPrompt
    <3> QED BY <1>2, <3>1, BeginAtPrompt
  <2> QED BY <2>1, <2>2
<1>5. CASE BeginBelowPrompt(h, q)
  <2>1. CASE Len(q.keys) = 0
    <3>1. q.kind \in PromptKinds /\ Begin(h, q, "write", q.slug, 0, {})
      BY <1>5, <2>1 DEF BeginBelowPrompt, Found
    <3> QED BY <1>2, <2>1, <3>1, BeginAtPrompt
  <2>2. CASE Len(q.keys) # 0
    <3>1. q.kind \in PromptKinds /\ Begin(h, q, "walk", q.slug, 0, {})
      BY <1>5, <2>2 DEF BeginBelowPrompt, Found
    <3> QED BY <1>2, <2>2, <3>1, BeginAtPrompt
  <2> QED BY <2>1, <2>2
<1>6. CASE BeginCreateAsset(h, q)
  <2>1. q.kind = "asset" /\ q.op = "create" /\ Begin(h, q, "write", q.slug, 0, {})
    BY <1>6 DEF BeginCreateAsset
  <2> QED BY <1>2, <2>1, BeginAtPrompt
<1>7. CASE BeginBelowAsset(h, q)
  BY <1>7, BeginAtAsset
<1> QED BY <1>1, <1>3, <1>4, <1>5, <1>6, <1>7

\* The tables that a path leads through.
LEMMA Tables ==
    ASSUME NEW q \in Requests, q.kind # "prompt"
    PROVE  /\ Len(q.keys) \in 0..3
           /\ Len(q.keys) # 0 => Chain[q.kind][1] = (IF q.kind \in PromptKinds THEN "version" ELSE "asset")
           /\ \A depth \in 2..3 :
                 depth <= Len(q.keys) =>
                     /\ Chain[q.kind][depth] \in {"translation", "assetVersion", "assetTranslation"}
                     /\ Parent[Chain[q.kind][depth]] = Chain[q.kind][depth - 1]
           /\ q.op # "create" => Len(q.keys) # 0 /\ Chain[q.kind][Len(q.keys)] = q.kind
           /\ (q.op = "create" /\ q.kind \notin {"version", "asset"}) =>
                 Len(q.keys) # 0 /\ Parent[q.kind] = Chain[q.kind][Len(q.keys)]
<1>1. /\ Chain["version"][1] = "version"
      /\ Chain["translation"][1] = "version" /\ Chain["translation"][2] = "translation"
      /\ Chain["asset"][1] = "asset"
      /\ Chain["assetVersion"][1] = "asset" /\ Chain["assetVersion"][2] = "assetVersion"
      /\ Chain["assetTranslation"][1] = "asset" /\ Chain["assetTranslation"][2] = "assetVersion"
      /\ Chain["assetTranslation"][3] = "assetTranslation"
  BY DEF Chain
<1>2. Len(q.keys) \in 0..3
  <2>1. Len(q.keys) \in {0, 1, 2, 3}
    BY Paths, KindsAre
  <2>2. {0, 1, 2, 3} \subseteq 0..3
    OBVIOUS
  <2> QED BY <2>1, <2>2
<1>3. Len(q.keys) # 0 => Chain[q.kind][1] = (IF q.kind \in PromptKinds THEN "version" ELSE "asset")
  BY <1>1, Paths, KindsAre DEF PromptKinds
<1>4. 2 <= Len(q.keys) =>
         /\ Chain[q.kind][2] \in {"translation", "assetVersion"}
         /\ Parent[Chain[q.kind][2]] = Chain[q.kind][1]
  BY <1>1, Paths, KindsAre
<1>5. 3 <= Len(q.keys) =>
         /\ Chain[q.kind][3] = "assetTranslation"
         /\ Parent[Chain[q.kind][3]] = Chain[q.kind][2]
  BY <1>1, Paths, KindsAre
<1>6. q.op # "create" => Len(q.keys) # 0 /\ Chain[q.kind][Len(q.keys)] = q.kind
  BY <1>1, Paths, KindsAre
<1>7. (q.op = "create" /\ q.kind \notin {"version", "asset"}) =>
         Len(q.keys) # 0 /\ Parent[q.kind] = Chain[q.kind][Len(q.keys)]
  BY <1>1, Paths, KindsAre
<1>8. ASSUME NEW depth \in 2..3, depth <= Len(q.keys)
      PROVE  /\ Chain[q.kind][depth] \in {"translation", "assetVersion", "assetTranslation"}
             /\ Parent[Chain[q.kind][depth]] = Chain[q.kind][depth - 1]
  <2>1. CASE depth = 2
    BY <1>4, <1>8, <2>1
  <2>2. CASE depth = 3
    BY <1>5, <1>8, <2>2
  <2> QED BY <2>1, <2>2
<1> QED BY <1>2, <1>3, <1>6, <1>7, <1>8

\* Where a request goes when it finds the next row.
LEMMA WalkEffect ==
    ASSUME Core, NEW h \in Handlers, Walk(h)
    PROVE  /\ Others(h)
           /\ \A g \in Handlers \ {h} : handlers'[g] = handlers[g]
           /\ UNCHANGED tables
           /\ Asked(h) \in Requests /\ Asked(h).kind # "prompt"
           /\ handlers[h].depth + 1 \in 1..Len(Asked(h).keys)
           /\ \E r \in rows :
                 /\ r.parent = handlers[h].held
                 /\ r.kind = Chain[Asked(h).kind][handlers[h].depth + 1]
                 /\ r.key = Asked(h).keys[handlers[h].depth + 1]
                 /\ handlers'[h] = [handlers[h] EXCEPT !.pc = Found(Asked(h), handlers[h].depth + 1),
                                                       !.held = r.id, !.depth = handlers[h].depth + 1]
<1> DEFINE d == handlers[h].depth + 1
<1>1. /\ Asked(h) \in Requests /\ Asked(h).kind # "prompt"
      /\ handlers[h] \in Handler
      /\ handlers[h].depth < Len(Asked(h).keys)
  BY DEF Walk, At, Core, Placed
<1>2. d \in 1..Len(Asked(h).keys) /\ d \in 0..3
  <2>1. handlers[h].depth \in 0..3 /\ Len(Asked(h).keys) \in 0..3
    BY <1>1, Tables DEF Handler
  <2>2. \A m, n \in 0..3 : m < n => m + 1 \in 1..n /\ m + 1 \in 0..3
    OBVIOUS
  <2> QED BY <1>1, <2>1, <2>2
<1>3. PICK r \in Ahead(h) :
          handlers' = [handlers EXCEPT ![h].pc = Found(Asked(h), d), ![h].held = r.id, ![h].depth = d]
  BY DEF Walk
<1>4. r \in rows /\ r.parent = handlers[h].held /\ r.kind = Chain[Asked(h).kind][d]
      /\ r.key = Asked(h).keys[d]
  BY DEF Ahead, Below
<1>5. r.id \in Ids /\ Found(Asked(h), d) \in {"walk", "write"}
  BY <1>4 DEF Core, Tidy, Row, Found
<1> HIDE DEF d
<1>6. [handlers[h] EXCEPT !.pc = Found(Asked(h), d), !.held = r.id, !.depth = d] \in Handler
  BY <1>1, <1>2, <1>5 DEF Handler
<1>7. /\ handlers' \in [Handlers -> Handler]
      /\ \A g \in Handlers \ {h} : handlers'[g] = handlers[g]
      /\ handlers'[h] = [handlers[h] EXCEPT !.pc = Found(Asked(h), d), !.held = r.id, !.depth = d]
  BY <1>3, <1>6 DEF Core
<1>8. UNCHANGED tables
  BY DEF Walk
<1> QED BY <1>1, <1>2, <1>4, <1>7, <1>8 DEF Others, Same, d

\* What a request finds is below what it has found before.
LEMMA WalkKeeps ==
    ASSUME Core, NEW h \in Handlers, Walk(h)
    PROVE  Core'
<1> DEFINE q == Asked(h)
           d == handlers[h].depth + 1
<1>1. /\ Others(h) /\ UNCHANGED tables
      /\ \A g \in Handlers \ {h} : handlers'[g] = handlers[g]
      /\ q \in Requests /\ q.kind # "prompt" /\ q.kind \in Kinds
      /\ d \in 1..Len(q.keys) /\ Len(q.keys) \in 0..3
  BY WalkEffect, Tables, Paths
<1>2. PICK r \in rows :
          /\ r.parent = handlers[h].held
          /\ r.kind = Chain[q.kind][d]
          /\ handlers'[h] = [handlers[h] EXCEPT !.pc = Found(q, d), !.held = r.id, !.depth = d]
  BY WalkEffect
<1>3. /\ handlers'[h].request = q /\ handlers'[h].pc = Found(q, d)
      /\ handlers'[h].held = r.id /\ handlers'[h].depth = d
  BY <1>2 DEF Core, Handler, Asked
<1>4. handlers[h].depth \in 0..3 /\ handlers[h].pc = "walk" /\ Holding(h)
  BY DEF Walk, At, Core, Handler
<1>5. Tidy' /\ Stable
  BY <1>1, TablesKept DEF Core
<1>6. ASSUME NEW g \in Handlers, g # h
      PROVE  Placed(g)' /\ Holding(g)'
  BY <1>1, <1>5, <1>6, SameKeeps DEF Core, Others
<1>7. Placed(h)'
  <2>1. CASE d = Len(q.keys)
    <3>1. Found(q, d) = "write"
      BY <2>1 DEF Found
    <3> HIDE DEF d, q
    <3> QED BY <1>1, <1>3, <2>1, <3>1 DEF Placed, At, Asked
  <2>2. CASE d # Len(q.keys)
    <3>1. Found(q, d) = "walk"
      BY <2>2 DEF Found
    <3>2. \A m, n \in 0..3 : m \in 1..n /\ m # n => m < n
      OBVIOUS
    <3>3. \A n \in 0..3 : \A m \in 1..n : m \in 0..3
      OBVIOUS
    <3> HIDE DEF d, q
    <3>4. d < Len(q.keys)
      BY <1>1, <2>2, <3>2, <3>3
    <3> QED BY <1>1, <1>3, <3>1, <3>4 DEF Placed, At, Asked
  <2> QED BY <2>1, <2>2
<1>8. /\ r.slug = q.slug
      /\ q.kind \notin PromptKinds => prompts[r.slug].project = q.project
  <2>1. CASE handlers[h].depth = 0
    <3>1. Len(q.keys) # 0
      BY <1>1
    <3>2. q.kind \in PromptKinds /\ handlers[h].held = q.slug
      BY <1>1, <1>4, <2>1, <3>1, Paths DEF Holding
    <3>3. r.kind = "version"
      BY <1>1, <1>2, <2>1, <3>1, <3>2, Tables
    <3> QED BY <1>2, <3>2, <3>3 DEF Core, Tidy, Rooted
  <2>2. CASE handlers[h].depth # 0
    <3>0. \A m, n \in 0..3 : (m # 0 /\ m + 1 \in 1..n) =>
              m + 1 \in 2..3 /\ m + 1 <= n /\ (m + 1) - 1 = m
      OBVIOUS
    <3>1. d \in 2..3 /\ d <= Len(q.keys) /\ d - 1 = handlers[h].depth
      BY <1>1, <1>4, <2>2, <3>0
    <3> HIDE DEF d, q
    <3>2. /\ r.kind \notin {"version", "asset"}
          /\ Parent[r.kind] = Chain[q.kind][handlers[h].depth]
      BY <1>1, <1>2, <3>1, Tables
    <3>3. PICK above \in rows : above.id = handlers[h].held /\ above.slug = r.slug
      BY <1>2, <3>2 DEF Core, Tidy, Rooted
    <3> QED BY <1>1, <1>4, <2>2, <3>3 DEF Holding, q
  <2> QED BY <2>1, <2>2
<1>9. Holding(h)'
  <2>1. r.id \in Ids /\ r.id < next /\ \A s \in rows : s.id = r.id => s = r
    BY DEF Core, Tidy, Row, Rooted, Distinct
  <2>2. UNCHANGED <<prompts, rows, next>>
    BY <1>1 DEF tables
  <2>3. d # 0
    BY <1>1
  <2> HIDE DEF d, q
  <2> QED BY <1>2, <1>3, <1>8, <2>1, <2>2, <2>3 DEF Holding, Asked
<1> QED BY <1>1, <1>5, <1>6, <1>7, <1>9 DEF Core, Others

\* Which tags were read is no matter here.
LEMMA ReadTagsKeeps ==
    ASSUME Core, NEW h \in Handlers, ReadTags(h)
    PROVE  Core'
<1>1. PICK given \in {{}} \cup {{ts} : ts \in SUBSET {t \in tags : ProjectOf[t] = Asked(h).project}} :
          handlers' = [handlers EXCEPT ![h].pc = "write", ![h].tags = given]
  BY DEF ReadTags
<1>2. given \in SUBSET SUBSET Tags
  BY DEF Core, Tidy
<1>3. handlers[h] \in Handler
  BY DEF Core
<1>4. [handlers[h] EXCEPT !.pc = "write", !.tags = given] \in Handler
  BY <1>2, <1>3 DEF Handler
<1>5. /\ handlers' \in [Handlers -> Handler]
      /\ \A g \in Handlers \ {h} : handlers'[g] = handlers[g]
      /\ handlers'[h] = [handlers[h] EXCEPT !.pc = "write", !.tags = given]
  BY <1>1, <1>4 DEF Core
<1>6. Tidy' /\ Stable
  BY TablesKept DEF Core, ReadTags
<1>7. ASSUME NEW g \in Handlers, g # h
      PROVE  Placed(g)' /\ Holding(g)'
  BY <1>5, <1>6, <1>7, SameKeeps DEF Core, Same
<1>8. Placed(h)' /\ Holding(h)'
  <2>1. /\ handlers'[h].request = Asked(h) /\ handlers'[h].pc = "write"
        /\ handlers'[h].depth = handlers[h].depth
    BY <1>3, <1>5 DEF Handler, Asked
  <2>2. /\ Asked(h) \in Requests /\ Asked(h).kind = "prompt" /\ Len(Asked(h).keys) = 0
        /\ handlers[h].depth = 0
    BY Paths DEF ReadTags, At, Core, Placed
  <2> QED BY <2>1, <2>2 DEF Placed, Holding, At, Asked
<1> QED BY <1>5, <1>6, <1>7, <1>8 DEF Core

-------------------------------------------------------------------------------
(***************************************************************************)
(* Writes to the tables.                                                   *)
(***************************************************************************)
Logs == SUBSET [action : {"CREATE", "UPDATE", "DELETE"}, id : Ids]

\* Only tags of prompts and the log change.
LEMMA Retagging ==
    ASSUME Tidy, prompts' \in [Slugs -> Prompt \cup {NULL}], UNCHANGED <<rows, next>>,
           tags' \subseteq tags, log' \in Logs,
           \A s \in Slugs : prompts[s] # NULL =>
               prompts'[s] # NULL /\ prompts'[s].project = prompts[s].project
    PROVE  Tidy' /\ Stable
<1>1. \A r \in rows : r.slug \in Slugs
  BY DEF Tidy, Row
<1>2. Rooted' /\ Distinct'
  BY <1>1 DEF Tidy, Rooted, Distinct
<1>3. next \in Nat
  BY DEF Tidy
<1>4. Stable
  BY <1>1, <1>3 DEF Stable, Tidy, Rooted
<1> QED BY <1>2, <1>4 DEF Tidy, Logs

\* New rows with new ids, below what is there.
LEMMA Inserting ==
    ASSUME Tidy, NEW new \in SUBSET Row, rows' = rows \cup new, UNCHANGED tags, log' \in Logs,
           prompts' \in [Slugs -> Prompt \cup {NULL}],
           \A s \in Slugs : prompts[s] # NULL => prompts'[s] = prompts[s],
           next' \in 1..(MaxRow + 1), next <= next',
           \A r \in new :
               /\ next <= r.id /\ r.id < next'
               /\ prompts'[r.slug] # NULL
               /\ Below(rows, {r.parent}, r.kind, r.key) = {}
               /\ r.kind \in {"version", "asset"} => r.parent = r.slug
               /\ r.kind \notin {"version", "asset"} =>
                     \E above \in rows \cup new :
                         above.id = r.parent /\ above.slug = r.slug /\ above.kind = Parent[r.kind],
           \A r, s \in new :
               (r.id = s.id \/ (r.parent = s.parent /\ r.kind = s.kind /\ r.key = s.key)) => r = s
    PROVE  Tidy' /\ Stable
<1>1. /\ next \in Nat /\ next' \in Nat
      /\ \A r \in rows \cup new : r.id \in Nat /\ r.slug \in Slugs
      /\ \A r \in rows : r.id < next
  BY DEF Tidy, Rooted, Row, Ids
<1>2. Rooted'
  <2>1. ASSUME NEW r \in rows
        PROVE  /\ r.id < next'
               /\ prompts'[r.slug] # NULL
               /\ r.kind \in {"version", "asset"} => r.parent = r.slug
               /\ r.kind \notin {"version", "asset"} =>
                     \E above \in rows' :
                         above.id = r.parent /\ above.slug = r.slug /\ above.kind = Parent[r.kind]
    BY <1>1 DEF Tidy, Rooted
  <2> QED BY <2>1 DEF Rooted
<1>3. Distinct'
  <2>1. ASSUME NEW r \in rows', NEW s \in rows',
               r.id = s.id \/ (r.parent = s.parent /\ r.kind = s.kind /\ r.key = s.key)
        PROVE  r = s
    <3>1. CASE r \in rows /\ s \in rows
      BY <2>1, <3>1 DEF Tidy, Distinct
    <3>2. CASE r \in new /\ s \in new
      BY <2>1, <3>2
    <3>3. CASE r \in rows /\ s \in new
      BY <1>1, <2>1, <3>3 DEF Below
    <3>4. CASE r \in new /\ s \in rows
      BY <1>1, <2>1, <3>4 DEF Below
    <3> QED BY <3>1, <3>2, <3>3, <3>4
  <2> QED BY <2>1 DEF Distinct
<1>4. Stable
  BY <1>1 DEF Stable, Tidy, Rooted
<1> QED BY <1>2, <1>3, <1>4 DEF Tidy, Logs

\* The cascade of a prompt or of a row.
LEMMA Removing ==
    ASSUME Tidy, NEW gone, rows' = Remaining(gone), UNCHANGED <<next, tags, log>>,
           prompts' \in [Slugs -> Prompt \cup {NULL}],
           \A s \in Slugs \ gone : prompts'[s] = prompts[s]
    PROVE  Tidy' /\ Stable
<1>1. /\ rows' \subseteq rows
      /\ \A r \in rows' :
            /\ r.slug \notin gone
            /\ r.kind \notin {"version", "asset"} =>
                  \E above \in rows' :
                      above.id = r.parent /\ above.slug = r.slug /\ above.kind = Parent[r.kind]
  BY Cascade
<1>2. \A r \in rows' : r.slug \in Slugs /\ prompts'[r.slug] = prompts[r.slug]
  BY <1>1 DEF Tidy, Row
<1>3. Rooted' /\ Distinct'
  BY <1>1, <1>2 DEF Tidy, Rooted, Distinct
<1>4. next \in Nat
  BY DEF Tidy
<1> QED BY <1>1, <1>2, <1>3, <1>4 DEF Tidy, Stable

\* Creating a prompt: its slug was free, so that no row was below it.
LEMMA CreatePromptKeeps ==
    ASSUME Core, NEW h \in Handlers, CreatePrompt(h)
    PROVE  Tidy' /\ Stable
<1> DEFINE q == Asked(h)
           new == [id |-> next, kind |-> "version", parent |-> q.slug, key |-> First, slug |-> q.slug]
           p == [project |-> q.project, tags |-> TagsOf(h)]
<1>1. q \in Requests /\ q.slug \in Slugs /\ q.project \in Projects
  BY Paths DEF CreatePrompt, Writing, At, Core, Placed
<1>2. /\ prompts[q.slug] = NULL /\ next \in Ids /\ next + 1 \in 1..(MaxRow + 1) /\ next <= next + 1
      /\ prompts' = [prompts EXCEPT ![q.slug] = p]
      /\ rows' = rows \cup {new} /\ next' = next + 1 /\ UNCHANGED <<tags, log>>
  BY BoundAssumption DEF CreatePrompt, Core, Tidy, Ids
<1>3. p \in Prompt
  BY <1>1 DEF Prompt, CreatePrompt, Core, Tidy
<1>4. new \in Row
  BY <1>1, <1>2, KindsAre, FirstAssumption DEF Row
<1>5. /\ prompts' \in [Slugs -> Prompt \cup {NULL}]
      /\ prompts'[q.slug] # NULL
      /\ \A s \in Slugs : prompts[s] # NULL => prompts'[s] = prompts[s]
  BY <1>1, <1>2, <1>3, NullIsNoPrompt DEF Core, Tidy
<1>6. /\ new.id = next /\ new.kind = "version" /\ new.parent = q.slug /\ new.slug = q.slug
      /\ new.id < next + 1
  BY <1>2 DEF Ids
<1> HIDE DEF p, new
<1>7. \A r \in rows : r.parent = q.slug => r.kind # "version"
  BY <1>1, <1>2 DEF Core, Tidy, Rooted
<1>8. Below(rows, {new.parent}, new.kind, new.key) = {}
  BY <1>6, <1>7 DEF Below
<1>9. log' \in Logs /\ next <= new.id /\ {new} \in SUBSET Row
  BY <1>2, <1>4, <1>6 DEF Core, Tidy, Logs, Ids
<1>10. \A r \in {new} :
          /\ next <= r.id /\ r.id < next'
          /\ prompts'[r.slug] # NULL
          /\ Below(rows, {r.parent}, r.kind, r.key) = {}
          /\ r.kind \in {"version", "asset"} => r.parent = r.slug
          /\ r.kind \notin {"version", "asset"} =>
                \E above \in rows \cup {new} :
                    above.id = r.parent /\ above.slug = r.slug /\ above.kind = Parent[r.kind]
  BY <1>2, <1>5, <1>6, <1>8, <1>9
<1>11. \A r, s \in {new} :
          (r.id = s.id \/ (r.parent = s.parent /\ r.kind = s.kind /\ r.key = s.key)) => r = s
  OBVIOUS
<1>12. Tidy /\ next' \in 1..(MaxRow + 1) /\ next <= next' /\ UNCHANGED tags
  BY <1>2 DEF Core
<1> QED BY <1>2, <1>5, <1>9, <1>10, <1>11, <1>12, Inserting

\* Updating or removing a prompt.
LEMMA ChangePromptKeeps ==
    ASSUME Core, NEW h \in Handlers, UpdatePrompt(h) \/ RemovePrompt(h)
    PROVE  Tidy' /\ Stable
<1> DEFINE q == Asked(h)
<1>1. q \in Requests /\ q.slug \in Slugs
  BY Paths DEF UpdatePrompt, RemovePrompt, Writing, At, Core, Placed
<1>2. prompts[q.slug] \in Prompt
  BY <1>1 DEF UpdatePrompt, RemovePrompt, InProject, Core, Tidy
<1>3. CASE UpdatePrompt(h)
  <2>1. [prompts[q.slug] EXCEPT !.tags = TagsOf(h) \cap tags] \in Prompt
        /\ [prompts[q.slug] EXCEPT !.tags = TagsOf(h) \cap tags].project = prompts[q.slug].project
    BY <1>2 DEF Prompt, Core, Tidy
  <2>2. /\ prompts' \in [Slugs -> Prompt \cup {NULL}]
        /\ \A s \in Slugs : prompts[s] # NULL =>
              prompts'[s] # NULL /\ prompts'[s].project = prompts[s].project
    <3>1. CASE handlers[h].tags = {}
      BY <1>3, <3>1 DEF UpdatePrompt, Core, Tidy
    <3>2. CASE handlers[h].tags # {}
      <4>1. prompts' = [prompts EXCEPT ![q.slug] = [prompts[q.slug] EXCEPT !.tags = TagsOf(h) \cap tags]]
        BY <1>3, <3>2 DEF UpdatePrompt
      <4> HIDE DEF q
      <4> QED BY <1>1, <2>1, <4>1, NullIsNoPrompt DEF Core, Tidy
    <3> QED BY <3>1, <3>2
  <2>3. UNCHANGED <<rows, next>> /\ tags' \subseteq tags /\ log' \in Logs
    BY <1>3 DEF UpdatePrompt, Core, Tidy, Logs
  <2> QED BY <2>2, <2>3, Retagging DEF Core
<1>4. CASE RemovePrompt(h)
  <2>1. /\ prompts' = [prompts EXCEPT ![q.slug] = NULL]
        /\ rows' = Remaining({q.slug})
        /\ UNCHANGED <<next, tags, log>>
    BY <1>4 DEF RemovePrompt
  <2>2. /\ prompts' \in [Slugs -> Prompt \cup {NULL}]
        /\ \A s \in Slugs \ {q.slug} : prompts'[s] = prompts[s]
    BY <1>1, <2>1 DEF Core, Tidy
  <2> QED BY <2>1, <2>2, Removing DEF Core
<1> QED BY <1>3, <1>4

\* One row, of a version, has got another key, which no row beside it had.
Retagged ==
    \E r \in rows, key \in Keys :
        /\ r.kind = "version"
        /\ Below(rows, {r.parent}, "version", key) = {}
        /\ rows' = (rows \ {r}) \cup {[r EXCEPT !.key = key]}

\* A version with another tag: no more than that changes.
LEMMA RetagIsRetagged ==
    ASSUME Core, NEW h \in Handlers, UpdateRow(h), Retag(h)
    PROVE  Retagged /\ UNCHANGED <<prompts, next, tags, log>>
<1>1. Asked(h) \in Requests /\ Asked(h).kind = "version" /\ Asked(h).op = "update" /\ At(h, "write")
      /\ UNCHANGED <<prompts, next, tags, log>>
  BY DEF UpdateRow, Retag, Writing, At, Core, Placed
<1>2. /\ Len(Asked(h).keys) # 0 /\ Chain[Asked(h).kind][Len(Asked(h).keys)] = "version"
      /\ handlers[h].depth = Len(Asked(h).keys)
  BY <1>1, Tables DEF Core, Placed
<1>3. \A r \in rows : r.id = handlers[h].held => r.kind = "version"
  BY <1>1, <1>2 DEF Core, Holding, At
<1>4. PICK r \in Held(h), key \in Keys :
          /\ Below(rows, {r.parent}, "version", key) = {}
          /\ rows' = (rows \ {r}) \cup {[r EXCEPT !.key = key]}
  BY DEF Retag
<1>5. r \in rows /\ r.kind = "version"
  BY <1>3 DEF Held
<1> QED BY <1>1, <1>4, <1>5 DEF Retagged

\* Another tag leaves rows below rows and keys distinct.
LEMMA RetagKeeps ==
    ASSUME Core, NEW h \in Handlers, UpdateRow(h), Retag(h)
    PROVE  Tidy' /\ Stable
<1>1. Retagged /\ UNCHANGED <<prompts, next, tags, log>>
  BY RetagIsRetagged
<1>2. PICK r \in rows, key \in Keys :
          /\ r.kind = "version"
          /\ Below(rows, {r.parent}, "version", key) = {}
          /\ rows' = (rows \ {r}) \cup {[r EXCEPT !.key = key]}
  BY <1>1 DEF Retagged
<1> DEFINE n == [r EXCEPT !.key = key]
<1>3. /\ n \in Row /\ n.id = r.id /\ n.kind = r.kind /\ n.parent = r.parent /\ n.slug = r.slug
      /\ n.key = key
  BY DEF Core, Tidy, Row
<1>4. rows' = (rows \ {r}) \cup {n}
  BY <1>2
<1> HIDE DEF n
<1>5. \A s \in rows' :
          /\ s \in Row
          /\ \E o \in rows : o.id = s.id /\ o.kind = s.kind /\ o.slug = s.slug /\ o.parent = s.parent
  BY <1>3, <1>4 DEF Core, Tidy
<1>6. \A o \in rows :
          \E s \in rows' : o.id = s.id /\ o.kind = s.kind /\ o.slug = s.slug
  BY <1>3, <1>4
<1>7. Rooted'
  <2>1. ASSUME NEW s \in rows'
        PROVE  /\ s.id < next
               /\ prompts[s.slug] # NULL
               /\ s.kind \in {"version", "asset"} => s.parent = s.slug
               /\ s.kind \notin {"version", "asset"} =>
                     \E above \in rows' :
                         above.id = s.parent /\ above.slug = s.slug /\ above.kind = Parent[s.kind]
    <3>1. PICK o \in rows : o.id = s.id /\ o.kind = s.kind /\ o.slug = s.slug /\ o.parent = s.parent
      BY <1>5
    <3>2. /\ o.id < next
          /\ prompts[o.slug] # NULL
          /\ o.kind \in {"version", "asset"} => o.parent = o.slug
          /\ o.kind \notin {"version", "asset"} =>
                \E above \in rows :
                    above.id = o.parent /\ above.slug = o.slug /\ above.kind = Parent[o.kind]
      BY DEF Core, Tidy, Rooted
    <3> QED BY <1>6, <3>1, <3>2
  <2> QED BY <1>1, <2>1 DEF Rooted
<1>8. Distinct'
  <2>1. ASSUME NEW s \in rows \ {r}
        PROVE  /\ s.id # r.id
               /\ ~(s.parent = r.parent /\ s.kind = r.kind /\ s.key = key)
    BY <1>2 DEF Core, Tidy, Distinct, Below
  <2> QED BY <1>3, <1>4, <2>1 DEF Core, Tidy, Distinct
<1>9. Stable
  <2>1. next <= next'
    BY <1>1 DEF Core, Tidy
  <2> QED BY <1>1, <1>5, <2>1 DEF Stable
<1> QED BY <1>1, <1>5, <1>7, <1>8, <1>9 DEF Core, Tidy

\* Removing a row.
LEMMA DeleteRowKeeps ==
    ASSUME Core, NEW h \in Handlers, DeleteRow(h)
    PROVE  Tidy' /\ Stable
<1>1. /\ rows' = Remaining({handlers[h].held})
      /\ UNCHANGED <<prompts, next, tags, log>>
  BY DEF DeleteRow
<1> QED BY <1>1, Removing DEF Core, Tidy

\* Removing a tag.
LEMMA RemoveTagKeeps ==
    ASSUME Core, NEW t \in Tags, RemoveTag(t)
    PROVE  Core'
<1>1. ASSUME NEW s \in Slugs, prompts[s] # NULL
      PROVE  /\ prompts'[s] \in Prompt
             /\ prompts'[s].project = prompts[s].project
  <2>1. prompts[s] \in Prompt
    BY <1>1 DEF Core, Tidy
  <2>2. prompts'[s] = [prompts[s] EXCEPT !.tags = @ \ {t}]
    BY <1>1 DEF RemoveTag
  <2> QED BY <2>1, <2>2 DEF Prompt
<1>2. /\ prompts' \in [Slugs -> Prompt \cup {NULL}]
      /\ UNCHANGED <<rows, next, handlers, log>> /\ tags' \subseteq tags
  <2>1. \A s \in Slugs : prompts'[s] \in Prompt \cup {NULL}
    BY <1>1 DEF RemoveTag
  <2> QED BY <2>1 DEF RemoveTag
<1>3. Tidy' /\ Stable
  BY <1>1, <1>2, Retagging, NullIsNoPrompt DEF Core, Tidy, Logs
<1>4. ASSUME NEW g \in Handlers
      PROVE  Placed(g)' /\ Holding(g)'
  BY <1>2, <1>3, SameKeeps DEF Core, Same
<1> QED BY <1>2, <1>3, <1>4 DEF Core

\* Logging.
LEMMA LogActivityKeeps ==
    ASSUME Core, NEW h \in Handlers, LogActivity(h)
    PROVE  Tidy' /\ Stable
<1>1. Asked(h).op \in {"create", "update", "remove"}
  BY RequestsAssumption DEF LogActivity, At, Core, Placed, IsRequest
<1>2. Action[Asked(h).op] \in {"CREATE", "UPDATE", "DELETE"}
  BY <1>1 DEF Action
<1>3. log' \in Logs
  <2>1. CASE Asked(h).kind = "prompt"
    BY <2>1 DEF LogActivity, Core, Tidy, Logs
  <2>2. CASE Asked(h).kind # "prompt"
    <3>1. handlers[h].held \in Ids
      BY <2>2 DEF LogActivity, At, Core, Placed
    <3> QED BY <1>2, <2>2, <3>1 DEF LogActivity, Core, Tidy, Logs, Entry
  <2> QED BY <2>1, <2>2
<1>4. UNCHANGED <<prompts, rows, next, tags>>
  BY DEF LogActivity
<1> QED BY <1>3, <1>4, Retagging DEF Core, Tidy

\* Creating a row: it goes below the row or the prompt that was found.
LEMMA InsertRowKeeps ==
    ASSUME Core, NEW h \in Handlers, InsertRow(h)
    PROVE  Tidy' /\ Stable
<1> DEFINE q == Asked(h)
<1>1. /\ q \in Requests /\ q.slug \in Slugs /\ q.key \in Keys
      /\ q.op = "create" /\ q.kind \in PromptKinds \cup {"assetVersion", "assetTranslation"}
      /\ handlers[h].depth = Len(q.keys)
      /\ At(h, "write")
  BY Paths, RequestsAssumption DEF InsertRow, Writing, At, Core, Placed, IsRequest
<1>2. PICK s \in Tops(h) :
          rows' = rows \cup {[id |-> next, kind |-> q.kind, parent |-> handlers[h].held,
                              key |-> q.key, slug |-> s]}
  BY DEF InsertRow
<1> DEFINE new == [id |-> next, kind |-> q.kind, parent |-> handlers[h].held, key |-> q.key, slug |-> s]
<1>3. /\ Below(rows, {handlers[h].held}, q.kind, q.key) = {}
      /\ next \in Ids /\ next' \in 1..(MaxRow + 1) /\ next < next' /\ next <= next'
      /\ UNCHANGED <<prompts, tags, log>>
  <2>1. /\ Below(rows, {handlers[h].held}, q.kind, q.key) = {}
        /\ next <= MaxRow /\ next' = next + 1
        /\ UNCHANGED <<prompts, tags, log>>
    BY DEF InsertRow
  <2>2. next \in 1..(MaxRow + 1)
    BY DEF Core, Tidy
  <2>3. next \in Ids /\ next + 1 \in 1..(MaxRow + 1) /\ next < next + 1 /\ next <= next + 1
    BY <2>1, <2>2, BoundAssumption DEF Ids
  <2> QED BY <2>1, <2>3
<1>4. /\ handlers[h].held \in Slugs \cup Ids
      /\ s \in Slugs /\ prompts[s] # NULL
      /\ q.kind = "version" => handlers[h].held = s
      /\ q.kind # "version" => \E above \in rows :
            above.id = handlers[h].held /\ above.slug = s /\ above.kind = Parent[q.kind]
  <2>1. CASE q.kind = "version"
    <3>1. Len(q.keys) = 0
      BY <1>1, <2>1, Paths
    <3>2. handlers[h].depth = 0 /\ handlers[h].held = q.slug
      BY <1>1, <2>1, <3>1 DEF Core, Holding, At
    <3>3. Held(h) = {}
      BY <1>1, <3>2, SlugsAssumption DEF Held, Core, Tidy, Row, Ids
    <3> QED BY <1>1, <2>1, <3>2, <3>3 DEF Tops
  <2>2. CASE q.kind # "version"
    <3>1. q.kind \notin {"version", "asset", "prompt"}
      BY <1>1, <2>2 DEF PromptKinds
    <3>2. Len(q.keys) # 0 /\ Parent[q.kind] = Chain[q.kind][Len(q.keys)]
      BY <1>1, <3>1, Tables
    <3>3. /\ handlers[h].held \in Ids
          /\ \A r \in rows : r.id = handlers[h].held => r.kind = Parent[q.kind]
      BY <1>1, <3>1, <3>2 DEF Core, Holding, At
    <3>4. PICK r \in rows : r.id = handlers[h].held /\ r.slug = s
      BY <3>3, SlugsAssumption DEF Tops, Held, Ids
    <3>5. s \in Slugs /\ prompts[s] # NULL
      BY <3>4 DEF Core, Tidy, Rooted, Row
    <3> QED BY <2>2, <3>3, <3>4, <3>5
  <2> QED BY <2>1, <2>2
<1>5. q.kind \in Kinds \ {"prompt"} /\ q.kind # "asset"
  BY <1>1, KindsAre DEF PromptKinds
<1>6. new \in Row
  BY <1>1, <1>3, <1>4, <1>5 DEF Row
<1>7. /\ new.id = next /\ new.kind = q.kind /\ new.parent = handlers[h].held /\ new.slug = s
      /\ new.key = q.key
  OBVIOUS
<1>8. /\ rows' = rows \cup {new} /\ {new} \in SUBSET Row
      /\ prompts' \in [Slugs -> Prompt \cup {NULL}] /\ UNCHANGED tags /\ log' \in Logs
      /\ \A t \in Slugs : prompts[t] # NULL => prompts'[t] = prompts[t]
  BY <1>2, <1>3, <1>6 DEF Core, Tidy, Logs
<1> HIDE DEF new, q
<1>9. \A r \in {new} :
          /\ next <= r.id /\ r.id < next'
          /\ prompts'[r.slug] # NULL
          /\ Below(rows, {r.parent}, r.kind, r.key) = {}
          /\ r.kind \in {"version", "asset"} => r.parent = r.slug
          /\ r.kind \notin {"version", "asset"} =>
                \E above \in rows \cup {new} :
                    above.id = r.parent /\ above.slug = r.slug /\ above.kind = Parent[r.kind]
  <2>1. next <= new.id /\ new.id < next'
    BY <1>3, <1>7 DEF Ids
  <2> QED BY <1>3, <1>4, <1>5, <1>7, <2>1
<1>10. \A r, t \in {new} :
          (r.id = t.id \/ (r.parent = t.parent /\ r.kind = t.kind /\ r.key = t.key)) => r = t
  OBVIOUS
<1> QED BY <1>3, <1>8, <1>9, <1>10, Inserting DEF Core

\* Creating an asset and its first version.
LEMMA InsertAssetKeeps ==
    ASSUME Core, NEW h \in Handlers, InsertAsset(h)
    PROVE  Tidy' /\ Stable
<1> DEFINE q == Asked(h)
           asset == [id |-> next, kind |-> "asset", parent |-> q.slug, key |-> q.key, slug |-> q.slug]
           version == [id |-> next + 1, kind |-> "assetVersion", parent |-> next, key |-> First,
                       slug |-> q.slug]
<1>1. q \in Requests /\ q.slug \in Slugs /\ q.key \in Keys
  BY Paths, RequestsAssumption DEF InsertAsset, Writing, At, Core, Placed, IsRequest
<1>2. /\ prompts[q.slug] # NULL
      /\ Below(rows, {q.slug}, "asset", q.key) = {}
      /\ next \in Ids /\ next + 1 \in Ids /\ next' \in 1..(MaxRow + 1)
      /\ next' = next + 2 /\ next <= next'
      /\ log' = log \cup {Entry("CREATE", next)}
      /\ UNCHANGED <<prompts, tags>>
  <2>1. /\ prompts[q.slug] # NULL
        /\ Below(rows, {q.slug}, "asset", q.key) = {}
        /\ next < MaxRow /\ next' = next + 2
        /\ log' = log \cup {Entry("CREATE", next)}
        /\ UNCHANGED <<prompts, tags>>
    BY DEF InsertAsset, InProject
  <2>2. next \in 1..(MaxRow + 1)
    BY DEF Core, Tidy
  <2>3. next \in Ids /\ next + 1 \in Ids /\ next + 2 \in 1..(MaxRow + 1) /\ next <= next + 2
    BY <2>1, <2>2, BoundAssumption DEF Ids
  <2> QED BY <2>1, <2>3
<1>3. log' \in Logs
  BY <1>2 DEF Core, Tidy, Logs, Entry
<1>4. /\ prompts' \in [Slugs -> Prompt \cup {NULL}] /\ UNCHANGED tags
      /\ \A t \in Slugs : prompts[t] # NULL => prompts'[t] = prompts[t]
  BY <1>2 DEF Core, Tidy
<1>5. CASE rows' = rows \cup {asset, version}
  <2>1. asset \in Row /\ version \in Row
    BY <1>1, <1>2, KindsAre, FirstAssumption DEF Row
  <2>2. /\ asset.id = next /\ asset.kind = "asset" /\ asset.parent = q.slug /\ asset.slug = q.slug
        /\ asset.key = q.key
        /\ version.id = next + 1 /\ version.kind = "assetVersion" /\ version.parent = next
        /\ version.slug = q.slug
    OBVIOUS
  <2> HIDE DEF asset, version, q
  <2>3. ASSUME NEW r \in rows
        PROVE  r.parent # next
    <3>1. r.id < next /\ next \in Nat /\ (\A above \in rows : above.id < next /\ above.id \in Nat)
      BY DEF Core, Tidy, Rooted, Row, Ids
    <3>2. r.parent \in Slugs \/ r.parent \in IdsOf(rows)
      BY DEF Core, Tidy, Rooted, Row, IdsOf
    <3> QED BY <3>1, <3>2, SlugsAssumption DEF IdsOf
  <2>4. Below(rows, {version.parent}, version.kind, version.key) = {}
    BY <2>2, <2>3 DEF Below
  <2>5. \A r \in {asset, version} :
            /\ next <= r.id /\ r.id < next'
            /\ prompts'[r.slug] # NULL
            /\ Below(rows, {r.parent}, r.kind, r.key) = {}
            /\ r.kind \in {"version", "asset"} => r.parent = r.slug
            /\ r.kind \notin {"version", "asset"} =>
                  \E above \in rows \cup {asset, version} :
                      above.id = r.parent /\ above.slug = r.slug /\ above.kind = Parent[r.kind]
    <3>1. /\ next <= asset.id /\ asset.id < next'
          /\ next <= version.id /\ version.id < next'
      BY <1>2, <2>2 DEF Ids
    <3>2. asset.id = version.parent /\ asset.slug = version.slug /\ asset.kind = Parent[version.kind]
      BY <2>2, KindsAre
    <3> QED BY <1>2, <2>2, <2>4, <3>1, <3>2
  <2>6. \A r, t \in {asset, version} :
            (r.id = t.id \/ (r.parent = t.parent /\ r.kind = t.kind /\ r.key = t.key)) => r = t
    BY <1>2, <2>2 DEF Ids
  <2>7. {asset, version} \in SUBSET Row
    BY <2>1
  <2> QED BY <1>2, <1>3, <1>4, <1>5, <2>5, <2>6, <2>7, Inserting DEF Core
<1>6. CASE UNCHANGED rows
  <2>1. /\ rows' = rows \cup {} /\ {} \in SUBSET Row
        /\ \A r \in {} :
            /\ next <= r.id /\ r.id < next'
            /\ prompts'[r.slug] # NULL
            /\ Below(rows, {r.parent}, r.kind, r.key) = {}
            /\ r.kind \in {"version", "asset"} => r.parent = r.slug
            /\ r.kind \notin {"version", "asset"} =>
                  \E above \in rows \cup {} :
                      above.id = r.parent /\ above.slug = r.slug /\ above.kind = Parent[r.kind]
        /\ \A r, t \in {} :
            (r.id = t.id \/ (r.parent = t.parent /\ r.kind = t.kind /\ r.key = t.key)) => r = t
    BY <1>6
  <2> QED BY <1>2, <1>3, <1>4, <2>1, Inserting DEF Core
<1>7. rows' = rows \cup {asset, version} \/ UNCHANGED rows
  BY DEF InsertAsset
<1> QED BY <1>5, <1>6, <1>7

-------------------------------------------------------------------------------
(***************************************************************************)
(* Core is inductive.                                                      *)
(***************************************************************************)
\* All steps keep it.
LEMMA CoreStep ==
    ASSUME Core, [Next]_vars
    PROVE  Core'
<1>1. ASSUME NEW h \in Handlers, Continue(h), ~ReadTags(h), ~Walk(h)
      PROVE  Core'
  <2>1. Ends(h)
    BY <1>1, ContinueEnds
  <2>2. Tidy
    BY DEF Core
  <2>3. CASE \/ ReadBack(h) \/ PromptIsGone(h) \/ NothingAhead(h) \/ ParentIsGone(h)
             \/ (UpdateRow(h) /\ UNCHANGED rows) \/ RowIsGone(h) \/ Refuse(h)
    <3>1. UNCHANGED tables
      BY <2>3 DEF ReadBack, PromptIsGone, NothingAhead, ParentIsGone, UpdateRow, RowIsGone, Refuse,
         tables
    <3> QED BY <2>1, <2>2, <3>1, TablesKept, EndsKeeps
  <2>4. CASE CreatePrompt(h)
    BY <2>1, <2>4, CreatePromptKeeps, EndsKeeps
  <2>5. CASE UpdatePrompt(h) \/ RemovePrompt(h)
    BY <2>1, <2>5, ChangePromptKeeps, EndsKeeps
  <2>6. CASE InsertRow(h)
    BY <2>1, <2>6, InsertRowKeeps, EndsKeeps
  <2>7. CASE InsertAsset(h)
    BY <2>1, <2>7, InsertAssetKeeps, EndsKeeps
  <2>8. CASE DeleteRow(h)
    BY <2>1, <2>8, DeleteRowKeeps, EndsKeeps
  <2>9. CASE LogActivity(h)
    BY <2>1, <2>9, LogActivityKeeps, EndsKeeps
  <2>10. CASE UpdateRow(h) /\ Retag(h)
    BY <2>1, <2>10, RetagKeeps, EndsKeeps
  <2>11. UpdateRow(h) => UNCHANGED rows \/ Retag(h)
    BY DEF UpdateRow
  <2> QED BY <1>1, <2>3, <2>4, <2>5, <2>6, <2>7, <2>8, <2>9, <2>10, <2>11 DEF Continue
<1>2. CASE UNCHANGED vars
  <2>1. UNCHANGED <<tables, handlers>>
    BY <1>2 DEF vars, tables
  <2>2. Tidy' /\ Stable
    BY <2>1, TablesKept DEF Core
  <2>3. ASSUME NEW g \in Handlers
        PROVE  Placed(g)' /\ Holding(g)'
    BY <2>1, <2>2, SameKeeps DEF Core, Same
  <2> QED BY <2>1, <2>2, <2>3 DEF Core
<1> QED BY <1>1, <1>2, NewRequestKeeps, WalkKeeps, ReadTagsKeeps, RemoveTagKeeps DEF Next

\* At the start nothing is there and nothing is under way.
LEMMA CoreInit == Init => Core
<1> SUFFICES ASSUME Init PROVE Core
  OBVIOUS
<1>1. prompts \in [Slugs -> Prompt \cup {NULL}] /\ next \in 1..(MaxRow + 1)
  BY BoundAssumption DEF Init
<1>2. Tidy
  BY <1>1 DEF Init, Tidy, Rooted, Distinct
<1>3. Idle \in Handler /\ Idle.pc = "idle"
  BY OverKeepsType DEF Idle
<1>4. /\ handlers \in [Handlers -> Handler]
      /\ \A h \in Handlers : handlers[h].pc = "idle"
  BY <1>3 DEF Init
<1> QED BY <1>2, <1>4 DEF Core, Placed, Holding, At

\* It says all that TypeOK says.
LEMMA CoreIsTypeOK == Core => TypeOK
<1> SUFFICES ASSUME Core PROVE TypeOK
  OBVIOUS
<1>1. ASSUME NEW r \in rows
      PROVE  /\ r.id < next
             /\ prompts[r.slug] # NULL
             /\ r.parent = r.slug \/ \E above \in rows : above.id = r.parent /\ above.slug = r.slug
             /\ \A other \in Below(rows, {r.parent}, r.kind, r.key) : other = r
  BY DEF Core, Tidy, Rooted, Distinct, Below
<1> QED BY <1>1 DEF Core, Tidy, TypeOK

\* Core is an invariant.
LEMMA CoreInvariant == Spec => []Core
  BY CoreInit, CoreStep, PTL DEF Spec

\* Every row hangs below one that is there, down from a prompt that is there, and
\* no key is taken twice below one row, whatever is removed, created and retagged
\* meanwhile.
THEOREM TypeCorrect == Spec => []TypeOK
  BY CoreInvariant, CoreIsTypeOK, PTL

-------------------------------------------------------------------------------
(***************************************************************************)
(* What steps have in common.                                              *)
(***************************************************************************)
\* The steps of a request that leave the tables alone.
Reads(h) ==
    \/ NewRequest(h) \/ ReadTags(h) \/ Walk(h) \/ ReadBack(h) \/ PromptIsGone(h) \/ NothingAhead(h)
    \/ ParentIsGone(h) \/ (UpdateRow(h) /\ UNCHANGED rows) \/ RowIsGone(h) \/ Refuse(h)

\* They do.
LEMMA ReadsTables ==
    ASSUME NEW h \in Handlers, Reads(h)
    PROVE  UNCHANGED tables
<1>1. CASE NewRequest(h)
  BY <1>1 DEF NewRequest, BeginCreatePrompt, BeginWithPrompt, BeginBelowPrompt, BeginCreateAsset,
     BeginBelowAsset, Begin
<1>2. CASE ~NewRequest(h)
  BY <1>2 DEF Reads, ReadTags, Walk, ReadBack, PromptIsGone, NothingAhead, ParentIsGone, UpdateRow,
     RowIsGone, Refuse, tables
<1> QED BY <1>1, <1>2

\* Whose step it is.
LEMMA StepOf ==
    ASSUME Next
    PROVE  \/ \E h \in Handlers :
                 \/ Reads(h)
                 \/ CreatePrompt(h) \/ UpdatePrompt(h) \/ RemovePrompt(h) \/ InsertRow(h)
                 \/ InsertAsset(h) \/ DeleteRow(h) \/ LogActivity(h)
                 \/ (UpdateRow(h) /\ Retag(h))
           \/ \E t \in Tags : RemoveTag(t)
<1>1. \A h \in Handlers : UpdateRow(h) => (UpdateRow(h) /\ UNCHANGED rows) \/ (UpdateRow(h) /\ Retag(h))
  BY DEF UpdateRow
<1> QED BY <1>1 DEF Next, Continue, Reads

\* What the beginning of a request has set.
Started(h) ==
    /\ At(h, "idle")
    /\ \A g \in Handlers \ {h} : handlers'[g] = handlers[g]
    /\ handlers'[h].request \in Requests
    /\ handlers'[h].pc \in {"tags", "walk", "write"}
    /\ handlers'[h].absent = ~Present(prompts, rows, handlers'[h].request)
    /\ ~handlers'[h].told
    /\ handlers'[h].depth = 0 => handlers'[h].held = handlers'[h].request.slug
    /\ handlers'[h].depth # 0 =>
          /\ handlers'[h].depth = 1
          /\ handlers'[h].held \in Reached(rows, handlers'[h].request, 1)
    /\ handlers'[h].request.kind = "prompt" =>
          \A t \in UNION handlers'[h].tags : ProjectOf[t] = handlers'[h].request.project

\* Begin sets it.
LEMMA BeginStarts ==
    ASSUME Core, NEW h \in Handlers, NEW q \in Requests, NEW pc, NEW held, NEW depth, NEW ts,
           Begin(h, q, pc, held, depth, ts), pc = "tags" \/ pc = "walk" \/ pc = "write",
           \/ depth = 0 /\ held = q.slug
           \/ depth = 1 /\ held \in Reached(rows, q, 1),
           \A t \in UNION ts : ProjectOf[t] = q.project
    PROVE  Started(h)
<1> DEFINE w == [request |-> q, pc |-> pc, held |-> held, depth |-> depth, tags |-> ts,
                 absent |-> ~Present(prompts, rows, q), told |-> FALSE]
<1>1. /\ At(h, "idle") /\ handlers'[h] = w
      /\ \A g \in Handlers \ {h} : handlers'[g] = handlers[g]
  BY DEF Begin, Core
<1>2. /\ w.request = q /\ w.pc = pc /\ w.held = held /\ w.depth = depth /\ w.tags = ts
      /\ w.absent = ~Present(prompts, rows, q) /\ w.told = FALSE
  OBVIOUS
<1> HIDE DEF w
<1> QED BY <1>1, <1>2 DEF Started

\* So does every new request.
LEMMA NewRequestStarts ==
    ASSUME Core, NEW h \in Handlers, NewRequest(h)
    PROVE  Started(h)
<1>1. PICK q \in Requests :
         \/ \E ts \in SUBSET tags : BeginCreatePrompt(h, q, ts)
         \/ BeginWithPrompt(h, q)
         \/ BeginBelowPrompt(h, q)
         \/ BeginCreateAsset(h, q)
         \/ BeginBelowAsset(h, q)
  BY DEF NewRequest
<1>2. \A t \in UNION {} : ProjectOf[t] = q.project
  OBVIOUS
<1>3. CASE \E ts \in SUBSET tags : BeginCreatePrompt(h, q, ts)
  <2>1. PICK ts \in SUBSET tags : BeginCreatePrompt(h, q, ts)
    BY <1>3
  <2>2. Begin(h, q, "write", q.slug, 0, {ts}) /\ \A t \in UNION {ts} : ProjectOf[t] = q.project
    BY <2>1 DEF BeginCreatePrompt
  <2> QED BY <2>2, BeginStarts
<1>4. CASE BeginWithPrompt(h, q)
  <2>1. Begin(h, q, "tags", q.slug, 0, {}) \/ Begin(h, q, "write", q.slug, 0, {})
    BY <1>4 DEF BeginWithPrompt
  <2> QED BY <1>2, <2>1, BeginStarts
<1>5. CASE BeginBelowPrompt(h, q)
  <2>1. Begin(h, q, "walk", q.slug, 0, {}) \/ Begin(h, q, "write", q.slug, 0, {})
    BY <1>5 DEF BeginBelowPrompt, Found
  <2> QED BY <1>2, <2>1, BeginStarts
<1>6. CASE BeginCreateAsset(h, q)
  <2>1. Begin(h, q, "write", q.slug, 0, {})
    BY <1>6 DEF BeginCreateAsset
  <2> QED BY <1>2, <2>1, BeginStarts
<1>7. CASE BeginBelowAsset(h, q)
  <2>1. PICK r \in Below(rows, {q.slug}, "asset", q.keys[1]) : Begin(h, q, Found(q, 1), r.id, 1, {})
    BY <1>7 DEF BeginBelowAsset
  <2>2. Found(q, 1) \in {"walk", "write"}
    BY DEF Found
  <2>3. q.kind \in {"asset", "assetVersion", "assetTranslation"}
    BY <1>7, Paths, KindsAre DEF BeginBelowAsset, PromptKinds
  <2>4. Chain[q.kind][1] = "asset"
    BY <2>3 DEF Chain
  <2>5. r.id \in Reached(rows, q, 1)
    BY <2>4 DEF Reached, Following, IdsOf
  <2> QED BY <1>2, <2>1, <2>2, <2>5, BeginStarts
<1> QED BY <1>1, <1>3, <1>4, <1>5, <1>6, <1>7

\* A request does not begin anew nor go on: what it holds is what it held.
LEMMA OthersSame ==
    ASSUME Core, [Next]_vars, NEW g \in Handlers
    PROVE  NewRequest(g) \/ Continue(g) \/ Same(handlers[g], handlers'[g])
<1>1. CASE UNCHANGED handlers
  BY <1>1 DEF Same
<1>2. ASSUME NEW h \in Handlers, h # g, NewRequest(h)
      PROVE  Same(handlers[g], handlers'[g])
  BY <1>2, NewRequestStarts DEF Started, Same
<1>3. ASSUME NEW h \in Handlers, h # g, Continue(h)
      PROVE  Same(handlers[g], handlers'[g])
  <2>1. CASE ReadTags(h)
    BY <1>3, <2>1 DEF ReadTags, Same, Core
  <2>2. CASE Walk(h)
    BY <1>3, <2>2, WalkEffect DEF Others
  <2>3. CASE ~ReadTags(h) /\ ~Walk(h)
    BY <1>3, <2>3, ContinueEnds DEF Ends, Others
  <2> QED BY <2>1, <2>2, <2>3
<1> QED BY <1>1, <1>2, <1>3 DEF Next, RemoveTag, vars

-------------------------------------------------------------------------------
(***************************************************************************)
(* Tags.                                                                   *)
(***************************************************************************)
\* The tags that a request is about to write do not change while others go on.
LEMMA TaggedStep ==
    ASSUME Core, Tagged, [Next]_vars
    PROVE  Tagged'
<1>1. ASSUME NEW g \in Handlers, handlers'[g].pc = "write", handlers'[g].request.kind = "prompt",
             NEW t \in UNION handlers'[g].tags
      PROVE  ProjectOf[t] = handlers'[g].request.project
  <2>1. CASE Same(handlers[g], handlers'[g])
    BY <1>1, <2>1 DEF Tagged, Same, At, Asked, TagsOf
  <2>2. CASE NewRequest(g)
    BY <1>1, <2>2, NewRequestStarts DEF Started
  <2>3. CASE ReadTags(g)
    <3>1. PICK given \in {{}} \cup {{ts} : ts \in SUBSET {u \in tags : ProjectOf[u] = Asked(g).project}} :
              handlers' = [handlers EXCEPT ![g].pc = "write", ![g].tags = given]
      BY <2>3 DEF ReadTags
    <3>2. handlers'[g].tags = given /\ handlers'[g].request = Asked(g)
      BY <3>1 DEF Core, Handler, Asked
    <3> QED BY <1>1, <3>1, <3>2
  <2>4. CASE Walk(g)
    <3>1. handlers'[g].request = Asked(g) /\ Asked(g).kind # "prompt"
      BY <2>4 DEF Walk, At, Core, Placed, Handler, Asked
    <3> QED BY <1>1, <3>1
  <2>5. CASE Continue(g) /\ ~ReadTags(g) /\ ~Walk(g)
    BY <1>1, <2>5, ContinueEnds DEF Ends
  <2> QED BY <2>1, <2>2, <2>3, <2>4, <2>5, OthersSame
<1>2. TagsStayInProject'
  <2>1. CASE UNCHANGED <<prompts, tags>>
    BY <2>1 DEF Tagged, TagsStayInProject
  <2>2. ASSUME NEW h \in Handlers, CreatePrompt(h)
        PROVE  TagsStayInProject'
    <3>1. /\ prompts' = [prompts EXCEPT ![Asked(h).slug] =
                            [project |-> Asked(h).project, tags |-> TagsOf(h)]]
          /\ tags' = tags /\ TagsOf(h) \subseteq tags
          /\ \A t \in TagsOf(h) : ProjectOf[t] = Asked(h).project
      BY <2>2 DEF CreatePrompt, Writing, Tagged
    <3>2. ASSUME NEW s \in Slugs, prompts'[s] # NULL, NEW t \in prompts'[s].tags
          PROVE  t \in tags' /\ ProjectOf[t] = prompts'[s].project
      <4>1. CASE s = Asked(h).slug
        BY <3>1, <3>2, <4>1 DEF Core, Tidy
      <4>2. CASE s # Asked(h).slug
        BY <3>1, <3>2, <4>2 DEF Core, Tidy, Tagged, TagsStayInProject
      <4> QED BY <4>1, <4>2
    <3> QED BY <3>2 DEF TagsStayInProject
  <2>3. ASSUME NEW h \in Handlers, UpdatePrompt(h), handlers[h].tags # {}
        PROVE  TagsStayInProject'
    <3>1. /\ prompts' = [prompts EXCEPT ![Asked(h).slug] =
                            [prompts[Asked(h).slug] EXCEPT !.tags = TagsOf(h) \cap tags]]
          /\ tags' = tags
          /\ prompts[Asked(h).slug].project = Asked(h).project
          /\ prompts[Asked(h).slug] # NULL
          /\ \A t \in TagsOf(h) : ProjectOf[t] = Asked(h).project
      BY <2>3 DEF UpdatePrompt, Writing, Tagged, InProject
    <3>2. ASSUME NEW s \in Slugs, prompts'[s] # NULL, NEW t \in prompts'[s].tags
          PROVE  t \in tags' /\ ProjectOf[t] = prompts'[s].project
      <4>1. CASE s = Asked(h).slug
        <5>1. prompts[s] \in Prompt
          BY <3>1, <4>1 DEF Core, Tidy
        <5>2. prompts'[s] = [prompts[s] EXCEPT !.tags = TagsOf(h) \cap tags]
          BY <3>1, <4>1 DEF Core, Tidy
        <5>3. prompts'[s].tags = TagsOf(h) \cap tags /\ prompts'[s].project = prompts[s].project
          BY <5>1, <5>2 DEF Prompt
        <5> QED BY <3>1, <3>2, <4>1, <5>3
      <4>2. CASE s # Asked(h).slug
        BY <3>1, <3>2, <4>2 DEF Core, Tidy, Tagged, TagsStayInProject
      <4> QED BY <4>1, <4>2
    <3> QED BY <3>2 DEF TagsStayInProject
  <2>4. ASSUME NEW h \in Handlers, RemovePrompt(h)
        PROVE  TagsStayInProject'
    BY <2>4 DEF RemovePrompt, Core, Tidy, Tagged, TagsStayInProject
  <2>5. ASSUME NEW u \in Tags, RemoveTag(u)
        PROVE  TagsStayInProject'
    <3>1. ASSUME NEW s \in Slugs, prompts'[s] # NULL, NEW t \in prompts'[s].tags
          PROVE  t \in tags' /\ ProjectOf[t] = prompts'[s].project
      <4>1. prompts[s] \in Prompt /\ prompts'[s] = [prompts[s] EXCEPT !.tags = @ \ {u}]
        BY <2>5, <3>1 DEF RemoveTag, Core, Tidy
      <4>2. prompts'[s].tags = prompts[s].tags \ {u} /\ prompts'[s].project = prompts[s].project
        BY <4>1 DEF Prompt
      <4>3. prompts[s] # NULL
        BY <4>1, NullIsNoPrompt
      <4> QED BY <2>5, <3>1, <4>2, <4>3 DEF RemoveTag, Tagged, TagsStayInProject
    <3> QED BY <3>1 DEF TagsStayInProject
  <2>6. ASSUME NEW h \in Handlers, UpdatePrompt(h), handlers[h].tags = {}
        PROVE  UNCHANGED <<prompts, tags>>
    BY <2>6 DEF UpdatePrompt
  <2>7. ASSUME NEW h \in Handlers, Reads(h)
        PROVE  UNCHANGED <<prompts, tags>>
    BY <2>7, ReadsTables DEF tables
  <2>8. ASSUME NEW h \in Handlers,
               InsertRow(h) \/ InsertAsset(h) \/ DeleteRow(h) \/ LogActivity(h) \/ UpdateRow(h)
        PROVE  UNCHANGED <<prompts, tags>>
    BY <2>8 DEF InsertRow, InsertAsset, DeleteRow, LogActivity, UpdateRow
  <2>9. CASE UNCHANGED vars
    BY <2>1, <2>9 DEF vars
  <2> QED BY <2>1, <2>2, <2>3, <2>4, <2>5, <2>6, <2>7, <2>8, <2>9, StepOf
<1> QED BY <1>1, <1>2 DEF Tagged, At, Asked, TagsOf

\* At the start no prompt has tags.
LEMMA TaggedInit == Init => Tagged
<1> SUFFICES ASSUME Init PROVE Tagged
  OBVIOUS
<1>1. \A h \in Handlers : handlers[h].pc = "idle"
  BY OverKeepsType DEF Init, Idle
<1> QED BY <1>1 DEF Init, Tagged, TagsStayInProject, At

\* Every tag of a prompt is a tag of its project and there, although the request
\* that wrote them has read them before and the slug may have changed hands since.
THEOREM TagsStay == Spec => []TagsStayInProject
<1>1. Core /\ Tagged /\ [Next]_vars => Tagged'
  BY TaggedStep
<1>2. Tagged => TagsStayInProject
  BY DEF Tagged
<1> QED BY <1>1, <1>2, CoreInvariant, TaggedInit, PTL DEF Spec

-------------------------------------------------------------------------------
(***************************************************************************)
(* The activity log.                                                       *)
(***************************************************************************)
\* Every step is stable.
LEMMA StableStep ==
    ASSUME Core, [Next]_vars
    PROVE  Stable
<1>1. CASE UNCHANGED tables
  BY <1>1, TablesKept DEF Core
<1>2. ASSUME NEW h \in Handlers, Reads(h)
      PROVE  UNCHANGED tables
  BY <1>2, ReadsTables
<1>3. ASSUME NEW t \in Tags, RemoveTag(t)
      PROVE  Stable
  <2>1. next \in Nat /\ UNCHANGED <<rows, next>> /\ \A r \in rows : r.slug \in Slugs
    BY <1>3 DEF RemoveTag, Core, Tidy, Row
  <2>2. ASSUME NEW r \in rows
        PROVE  prompts'[r.slug].project = prompts[r.slug].project
    <3>1. prompts[r.slug] # NULL /\ prompts[r.slug] \in Prompt
      BY <2>1 DEF Core, Tidy, Rooted
    <3>2. prompts'[r.slug] = [prompts[r.slug] EXCEPT !.tags = @ \ {t}]
      BY <1>3, <2>1, <3>1 DEF RemoveTag
    <3> QED BY <3>1, <3>2 DEF Prompt
  <2> QED BY <2>1, <2>2 DEF Stable
<1>4. UNCHANGED vars => UNCHANGED tables
  BY DEF vars, tables
<1> QED BY <1>1, <1>2, <1>3, <1>4, StepOf, CreatePromptKeeps, ChangePromptKeeps, InsertRowKeeps,
       InsertAssetKeeps, DeleteRowKeeps, LogActivityKeeps, RetagKeeps

\* What is logged, and what is about to be.
LEMMA LoggingStep ==
    ASSUME Core, Logging, [Next]_vars
    PROVE  Logging'
<1>1. Stable /\ Core'
  BY StableStep, CoreStep
<1>2. /\ next \in Nat /\ next' \in Nat /\ next <= next'
      /\ \A i \in Ids : i < next => i < next'
      /\ \A i \in Ids : i < next /\ i \in IdsOf(rows') => i \in IdsOf(rows)
  BY <1>1 DEF Core, Tidy, Stable, IdsOf, Ids
<1>3. \A entry \in log : entry.id \in Ids
  BY DEF Core, Tidy
<1>4. ASSUME NEW entry \in log
      PROVE  /\ entry.id < next'
             /\ entry.action = "DELETE" => entry.id \notin IdsOf(rows')
  BY <1>2, <1>3 DEF Logging, LogIsTrue
<1>5. ASSUME NEW entry \in log', entry \notin log
      PROVE  /\ entry.id < next'
             /\ entry.action = "DELETE" => entry.id \notin IdsOf(rows')
  <2>1. ASSUME NEW h \in Handlers, InsertAsset(h)
        PROVE  entry = [action |-> "CREATE", id |-> next] /\ next < next'
    <3>1. log' = log \cup {Entry("CREATE", next)} /\ next' = next + 2
      BY <2>1 DEF InsertAsset
    <3> QED BY <1>2, <1>5, <3>1 DEF Entry
  <2>2. ASSUME NEW h \in Handlers, LogActivity(h)
        PROVE  /\ entry.id < next'
               /\ entry.action = "DELETE" => entry.id \notin IdsOf(rows')
    <3>1. /\ Asked(h).kind # "prompt" /\ At(h, "log")
          /\ entry = [action |-> Action[Asked(h).op], id |-> handlers[h].held]
          /\ UNCHANGED <<rows, next>>
      BY <1>5, <2>2 DEF LogActivity, Entry
    <3>2. Asked(h).op \in {"create", "update", "remove"}
      BY <3>1, RequestsAssumption DEF At, Core, Placed, IsRequest
    <3>3. entry.action = "DELETE" => Asked(h).op = "remove"
      BY <3>1, <3>2 DEF Action
    <3> QED BY <3>1, <3>3 DEF Logging, IdsOf
  <2>3. ASSUME NEW h \in Handlers, Reads(h)
        PROVE  log' = log
    BY <2>3, ReadsTables DEF tables
  <2>4. ASSUME NEW h \in Handlers,
               \/ CreatePrompt(h) \/ UpdatePrompt(h) \/ RemovePrompt(h) \/ InsertRow(h)
               \/ DeleteRow(h) \/ UpdateRow(h)
        PROVE  log' = log
    BY <2>4 DEF CreatePrompt, UpdatePrompt, RemovePrompt, InsertRow, DeleteRow, UpdateRow
  <2>5. CASE UNCHANGED vars
    BY <1>5, <2>5 DEF vars
  <2>6. ASSUME NEW t \in Tags, RemoveTag(t)
        PROVE  log' = log
    BY <2>6 DEF RemoveTag
  <2> QED BY <1>5, <2>1, <2>2, <2>3, <2>4, <2>5, <2>6, StepOf
<1>6. ASSUME NEW g \in Handlers, handlers'[g].pc = "log", handlers'[g].request.kind # "prompt"
      PROVE  /\ handlers'[g].held \in Ids
             /\ handlers'[g].held < next'
             /\ handlers'[g].request.op = "remove" => handlers'[g].held \notin IdsOf(rows')
  <2>1. CASE Same(handlers[g], handlers'[g])
    BY <1>2, <1>6, <2>1 DEF Logging, Same, At, Asked
  <2>2. CASE NewRequest(g)
    BY <1>6, <2>2, NewRequestStarts DEF Started
  <2>3. CASE ReadTags(g) \/ Walk(g)
    <3>1. handlers'[g].pc # "log"
      <4>1. CASE ReadTags(g)
        BY <4>1 DEF ReadTags, Core, Handler
      <4>2. CASE Walk(g)
        <5>1. PICK r : handlers'[g] = [handlers[g] EXCEPT !.pc = Found(Asked(g), handlers[g].depth + 1),
                                          !.held = r.id, !.depth = handlers[g].depth + 1]
          BY <4>2, WalkEffect
        <5>2. handlers'[g].pc = Found(Asked(g), handlers[g].depth + 1)
          BY <5>1 DEF Core, Handler
        <5> QED BY <5>2 DEF Found
      <4> QED BY <2>3, <4>1, <4>2
    <3> QED BY <1>6, <3>1
  <2>4. CASE Continue(g) /\ ~ReadTags(g) /\ ~Walk(g)
    <3>1. /\ handlers'[g].request = Asked(g) /\ Asked(g) \in Requests /\ Asked(g).kind # "prompt"
          /\ handlers'[g].held \in Ids
      BY <1>6, <2>4, ContinueEnds DEF Ends
    <3>2. ASSUME NEW told, Answer(g, told)
          PROVE  handlers'[g].pc = "idle"
      BY <3>2, NoticedType, OverKeepsType DEF Answer, Idle, Over, Core
    <3>3. ASSUME GoTo(g, "log")
          PROVE  handlers'[g].held = handlers[g].held
      <4>1. handlers'[g] = [Noticed[g] EXCEPT !.pc = "log"] /\ Same(handlers[g], Noticed[g])
        BY <3>3, GoToEffect, NoticedType DEF Core
      <4> QED BY <4>1, NoticedType DEF Core, Same, Handler
    <3>4. CASE CreatePrompt(g) \/ ReadBack(g) \/ UpdatePrompt(g) \/ RemovePrompt(g)
      BY <3>1, <3>4 DEF CreatePrompt, ReadBack, UpdatePrompt, RemovePrompt, Writing, At, Core, Placed
    <3>5. CASE PromptIsGone(g) \/ NothingAhead(g) \/ ParentIsGone(g) \/ InsertAsset(g)
                 \/ RowIsGone(g) \/ LogActivity(g) \/ Refuse(g)
      BY <1>6, <3>2, <3>5 DEF PromptIsGone, NothingAhead, ParentIsGone, InsertAsset, RowIsGone,
         LogActivity, Refuse
    <3>6. CASE InsertRow(g)
      <4>1. handlers' = [Noticed EXCEPT ![g].pc = "log", ![g].held = next] /\ Asked(g).op = "create"
        BY <1>6, <3>2, <3>6 DEF InsertRow, Writing
      <4>2. handlers'[g].held = next
        BY <4>1, NoticedType DEF Core, Handler
      <4>3. next' = next + 1
        BY <3>6 DEF InsertRow
      <4> QED BY <1>2, <3>1, <4>1, <4>2, <4>3
    <3>7. CASE UpdateRow(g)
      <4>1. GoTo(g, "log") /\ Held(g) # {} /\ next' = next /\ Asked(g).op = "update"
        BY <1>6, <3>2, <3>7 DEF UpdateRow, Writing
      <4>2. handlers[g].held < next /\ next' = next
        BY <4>1 DEF Held, Core, Tidy, Rooted
      <4> QED BY <3>1, <3>3, <4>1, <4>2
    <3>8. CASE DeleteRow(g)
      <4>1. GoTo(g, "log") /\ Held(g) # {} /\ rows' = Remaining({handlers[g].held}) /\ next' = next
        BY <1>6, <3>2, <3>8 DEF DeleteRow
      <4>2. handlers[g].held < next
        BY <4>1 DEF Held, Core, Tidy, Rooted
      <4>3. handlers[g].held \notin IdsOf(rows')
        BY <4>1, Cascade DEF Core, IdsOf
      <4> QED BY <3>1, <3>3, <4>1, <4>2, <4>3
    <3> QED BY <2>4, <3>4, <3>5, <3>6, <3>7, <3>8 DEF Continue
  <2> QED BY <2>1, <2>2, <2>3, <2>4, OthersSame
<1>7. LogIsTrue'
  BY <1>4, <1>5 DEF LogIsTrue
<1> QED BY <1>6, <1>7 DEF Logging, At, Asked, IdsOf

\* At the start nothing is logged.
LEMMA LoggingInit == Init => Logging
<1> SUFFICES ASSUME Init PROVE Logging
  OBVIOUS
<1>1. \A h \in Handlers : handlers[h].pc = "idle"
  BY OverKeepsType DEF Init, Idle
<1> QED BY <1>1 DEF Init, Logging, LogIsTrue, At

\* What is logged as removed is not there, and nothing is logged of rows to come,
\* although the log is written in a call of its own.
THEOREM LogStaysTrue == Spec => []LogIsTrue
<1>1. Core /\ Logging /\ [Next]_vars => Logging'
  BY LoggingStep
<1>2. Logging => LogIsTrue
  BY DEF Logging
<1> QED BY <1>1, <1>2, CoreInvariant, LoggingInit, PTL DEF Spec

-------------------------------------------------------------------------------
(***************************************************************************)
(* Whose prompts and rows a request changes.                               *)
(***************************************************************************)
\* All that is to go is the prompt s, or is below it.
Under(gone, s) ==
    /\ gone \cap Slugs \subseteq {s}
    /\ \A r \in rows : r.id \in gone => r.slug = s

\* The cascade stays below the prompt where it starts.
LEMMA CascadeStaysUnder ==
    ASSUME Tidy, NEW gone, NEW s, Under(gone, s)
    PROVE  \A r \in rows \ Remaining(gone) : r.slug = s
<1>1. ASSUME NEW g, Under(g, s)
      PROVE  Under(WithChildren(g), s)
  <2>1. ASSUME NEW r \in rows, r.id \in WithChildren(g)
        PROVE  r.slug = s
    <3>1. CASE r.id \in g
      BY <1>1, <3>1 DEF Under
    <3>2. CASE r.parent \in g
      <4>1. r.slug \in Slugs
        BY DEF Tidy, Row
      <4>2. r.parent = r.slug \/ \E above \in rows : above.id = r.parent /\ above.slug = r.slug
        BY DEF Tidy, Rooted
      <4> QED BY <1>1, <3>2, <4>1, <4>2 DEF Under
    <3> QED BY <2>1, <3>1, <3>2, OneLevel
  <2>2. \A t \in Slugs : t \in WithChildren(g) => t \in g
    BY OneLevel
  <2> QED BY <1>1, <2>1, <2>2 DEF Under
<1>2. Under(WithChildren(WithChildren(WithChildren(gone))), s)
  BY <1>1
<1> QED BY <1>2 DEF Under, Remaining

\* Each write of a request of a prompt or of assets is in its project.
LEMMA StayStep ==
    ASSUME Core, [Next]_vars
    PROVE  StaysInProject(Kinds \ PromptKinds)
<1> SUFFICES ASSUME NEW h \in Handlers, At(h, "write"), handlers'[h].pc # "write",
                    Asked(h).kind \in Kinds \ PromptKinds
             PROVE  /\ \A r \in rows \ rows' : prompts[r.slug].project = Asked(h).project
                    /\ \A r \in rows' \ rows : prompts'[r.slug].project = Asked(h).project
                    /\ \A s \in Slugs : prompts'[s] # prompts[s] =>
                          \A row \in {prompts[s], prompts'[s]} \ {NULL} :
                              row.project = Asked(h).project
  BY DEF StaysInProject
<1> DEFINE q == Asked(h)
<1>1. ~Same(handlers[h], handlers'[h])
  BY DEF Same, At
<1>2. Continue(h)
  <2>1. ~NewRequest(h)
    BY NewRequestStarts DEF Started, At
  <2> QED BY <1>1, <2>1, OthersSame
<1>3. /\ q \in Requests /\ q.slug \in Slugs /\ q.kind \notin PromptKinds
      /\ handlers[h].depth = Len(q.keys) /\ Holding(h)
  BY Paths DEF Core, Placed, At
<1>4. CASE UNCHANGED tables
  BY <1>4 DEF tables
<1>5. CASE CreatePrompt(h)
  <2>1. /\ rows' = rows \cup {[id |-> next, kind |-> "version", parent |-> q.slug, key |-> First,
                               slug |-> q.slug]}
        /\ prompts[q.slug] = NULL
        /\ prompts' = [prompts EXCEPT ![q.slug] = [project |-> q.project, tags |-> TagsOf(h)]]
    BY <1>5 DEF CreatePrompt
  <2>2. prompts'[q.slug].project = q.project
    BY <1>3, <2>1 DEF Core, Tidy
  <2>3. \A s \in Slugs : s # q.slug => prompts'[s] = prompts[s]
    BY <2>1 DEF Core, Tidy
  <2> HIDE DEF q
  <2>4. \A r \in rows' \ rows : r.slug = q.slug
    BY <2>1
  <2>5. rows \ rows' = {}
    BY <2>1
  <2> QED BY <2>1, <2>2, <2>3, <2>4, <2>5 DEF q
<1>6. CASE UpdatePrompt(h)
  <2>1. rows' = rows /\ prompts[q.slug] # NULL /\ prompts[q.slug].project = q.project
    BY <1>6 DEF UpdatePrompt, InProject
  <2>2. /\ \A s \in Slugs \ {q.slug} : prompts'[s] = prompts[s]
        /\ prompts'[q.slug] # prompts[q.slug] =>
              prompts'[q.slug] = [prompts[q.slug] EXCEPT !.tags = TagsOf(h) \cap tags]
    BY <1>3, <1>6 DEF UpdatePrompt, Core, Tidy
  <2>3. prompts[q.slug] \in Prompt
    BY <1>3, <2>1 DEF Core, Tidy
  <2>4. [prompts[q.slug] EXCEPT !.tags = TagsOf(h) \cap tags].project = q.project
    BY <2>1, <2>3 DEF Prompt
  <2> QED BY <2>1, <2>2, <2>4
<1>7. CASE RemovePrompt(h)
  <2>1. /\ rows' = Remaining({q.slug}) /\ prompts[q.slug].project = q.project
        /\ prompts' = [prompts EXCEPT ![q.slug] = NULL]
    BY <1>7 DEF RemovePrompt, InProject
  <2>2. Under({q.slug}, q.slug)
    BY <1>3, SlugsAssumption DEF Under, Core, Tidy, Row, Ids
  <2>3. \A r \in rows \ rows' : r.slug = q.slug
    BY <2>1, <2>2, CascadeStaysUnder DEF Core
  <2>4. rows' \ rows = {}
    BY <2>1, Cascade DEF Core
  <2>5. prompts'[q.slug] = NULL /\ \A s \in Slugs \ {q.slug} : prompts'[s] = prompts[s]
    BY <1>3, <2>1 DEF Core, Tidy
  <2> QED BY <2>1, <2>3, <2>4, <2>5
<1>8. CASE InsertRow(h)
  <2>1. q.kind \in {"assetVersion", "assetTranslation"} /\ q.op = "create"
    BY <1>3, <1>8 DEF InsertRow, Writing, PromptKinds
  <2>2. handlers[h].depth # 0
    BY <1>3, <2>1, Paths
  <2>3. /\ handlers[h].held \in Ids
        /\ \A r \in rows : r.id = handlers[h].held => prompts[r.slug].project = q.project
    BY <1>3, <2>1, <2>2 DEF Holding, At
  <2>4. \A s \in Tops(h) : prompts[s].project = q.project
    BY <2>3, SlugsAssumption DEF Tops, Held, Ids
  <2>5. PICK s \in Tops(h) :
            rows' = rows \cup {[id |-> next, kind |-> q.kind, parent |-> handlers[h].held,
                                key |-> q.key, slug |-> s]}
    BY <1>8 DEF InsertRow
  <2>6. prompts' = prompts
    BY <1>8 DEF InsertRow
  <2> QED BY <2>4, <2>5, <2>6
<1>9. CASE InsertAsset(h)
  <2>1. /\ prompts[q.slug].project = q.project /\ prompts' = prompts
        /\ \A r \in rows' \ rows : r.slug = q.slug
        /\ rows \ rows' = {}
    BY <1>9 DEF InsertAsset, InProject
  <2> QED BY <2>1
<1>10. CASE DeleteRow(h)
  <2>1. q.op # "create" /\ rows' = Remaining({handlers[h].held}) /\ prompts' = prompts
        /\ q.kind # "prompt"
    BY <1>10 DEF DeleteRow, Writing
  <2>2. handlers[h].depth # 0
    BY <1>3, <2>1, Tables
  <2>3. /\ handlers[h].held \in Ids
        /\ \A r \in rows : r.id = handlers[h].held => r.slug = q.slug
        /\ \A r \in rows : r.id = handlers[h].held => prompts[r.slug].project = q.project
    BY <1>3, <2>1, <2>2 DEF Holding, At
  <2>4. Under({handlers[h].held}, q.slug)
    BY <2>3, SlugsAssumption DEF Under, Ids
  <2>5. \A r \in rows \ rows' : r.slug = q.slug
    BY <2>1, <2>4, CascadeStaysUnder DEF Core
  <2>6. rows' \ rows = {}
    BY <2>1, Cascade DEF Core
  <2>7. prompts[q.slug].project = q.project
    <3>1. Held(h) # {}
      BY <1>10 DEF DeleteRow
    <3> QED BY <2>3, <3>1 DEF Held
  <2> QED BY <2>1, <2>5, <2>6, <2>7
<1>11. CASE LogActivity(h)
  BY <1>11 DEF LogActivity, At
<1>12. Reads(h) => UNCHANGED tables
  BY ReadsTables
<1>13. UpdateRow(h) => UpdateRow(h) /\ UNCHANGED rows
  BY <1>3 DEF UpdateRow, Retag, PromptKinds
<1> QED BY <1>2, <1>4, <1>5, <1>6, <1>7, <1>8, <1>9, <1>10, <1>11, <1>12, <1>13 DEF Continue, Reads

\* The requests of prompts and of assets never write into another project, though
\* their slug may change hands between their lookups and their write.
THEOREM PromptsAndAssetsAreKept == Spec => PromptsAndAssetsStay
<1>1. Core /\ [Next]_vars => [StaysInProject(Kinds \ PromptKinds)]_vars
  BY StayStep
<1> QED BY <1>1, CoreInvariant, PTL DEF Spec, PromptsAndAssetsStay

-------------------------------------------------------------------------------
(***************************************************************************)
(* Where paths lead to.                                                    *)
(***************************************************************************)
\* One key further.
LEMMA ReachedNext ==
    ASSUME NEW rs, NEW q, NEW depth \in 0..2
    PROVE  Reached(rs, q, depth + 1) = Following(rs, q, Reached(rs, q, depth), depth + 1)
<1>1. CASE depth = 0
  BY <1>1 DEF Reached
<1>2. CASE depth = 1
  BY <1>2 DEF Reached
<1>3. CASE depth = 2
  BY <1>3 DEF Reached
<1> QED BY <1>1, <1>2, <1>3

\* A key leads to rows.
LEMMA ReachedIds ==
    ASSUME NEW rs, NEW q, NEW depth \in 1..3
    PROVE  Reached(rs, q, depth) \subseteq IdsOf(rs)
<1>1. ASSUME NEW parents, NEW d
      PROVE  Following(rs, q, parents, d) \subseteq IdsOf(rs)
  BY DEF Following, Below, IdsOf
<1>2. CASE depth = 1
  BY <1>1, <1>2 DEF Reached
<1>3. CASE depth = 2
  BY <1>1, <1>3 DEF Reached
<1>4. CASE depth = 3
  BY <1>1, <1>4 DEF Reached
<1> QED BY <1>2, <1>3, <1>4

\* More rows lead no less far.
LEMMA ReachedGrows ==
    ASSUME NEW rs, NEW more, rs \subseteq more, NEW q, NEW depth \in 0..3
    PROVE  Reached(rs, q, depth) \subseteq Reached(more, q, depth)
<1>1. ASSUME NEW parents, NEW others, parents \subseteq others, NEW d
      PROVE  Following(rs, q, parents, d) \subseteq Following(more, q, others, d)
  BY <1>1 DEF Following, Below, IdsOf
<1>2. /\ Reached(rs, q, 0) \subseteq Reached(more, q, 0)
      /\ Reached(rs, q, 1) = Following(rs, q, Reached(rs, q, 0), 1)
      /\ Reached(more, q, 1) = Following(more, q, Reached(more, q, 0), 1)
      /\ Reached(rs, q, 2) = Following(rs, q, Reached(rs, q, 1), 2)
      /\ Reached(more, q, 2) = Following(more, q, Reached(more, q, 1), 2)
      /\ Reached(rs, q, 3) = Following(rs, q, Reached(rs, q, 2), 3)
      /\ Reached(more, q, 3) = Following(more, q, Reached(more, q, 2), 3)
  BY DEF Reached
<1>3. Reached(rs, q, 1) \subseteq Reached(more, q, 1)
  BY <1>1, <1>2
<1>4. Reached(rs, q, 2) \subseteq Reached(more, q, 2)
  BY <1>1, <1>2, <1>3
<1>5. Reached(rs, q, 3) \subseteq Reached(more, q, 3)
  BY <1>1, <1>2, <1>4
<1>6. depth \in {0, 1, 2, 3}
  OBVIOUS
<1> QED BY <1>2, <1>3, <1>4, <1>5, <1>6

\* A path leads to one row at most.
LEMMA ReachedOne ==
    ASSUME Distinct, NEW q, NEW depth \in 0..3,
           NEW x \in Reached(rows, q, depth), NEW y \in Reached(rows, q, depth)
    PROVE  x = y
<1>1. ASSUME NEW parents, NEW d, \A u, w \in parents : u = w,
             NEW u \in Following(rows, q, parents, d), NEW w \in Following(rows, q, parents, d)
      PROVE  u = w
  BY <1>1 DEF Following, Below, IdsOf, Distinct
<1>2. /\ Reached(rows, q, 0) = {q.slug}
      /\ Reached(rows, q, 1) = Following(rows, q, Reached(rows, q, 0), 1)
      /\ Reached(rows, q, 2) = Following(rows, q, Reached(rows, q, 1), 2)
      /\ Reached(rows, q, 3) = Following(rows, q, Reached(rows, q, 2), 3)
  BY DEF Reached
<1>3. \A u, w \in Reached(rows, q, 0) : u = w
  BY <1>2
<1>4. \A u, w \in Reached(rows, q, 1) : u = w
  BY <1>1, <1>2, <1>3
<1>5. \A u, w \in Reached(rows, q, 2) : u = w
  BY <1>1, <1>2, <1>4
<1>6. \A u, w \in Reached(rows, q, 3) : u = w
  BY <1>1, <1>2, <1>5
<1>7. depth \in {0, 1, 2, 3}
  OBVIOUS
<1> QED BY <1>3, <1>4, <1>5, <1>6, <1>7

\* Rows are added, rows are removed, or one version gets another tag.
OneChange == rows \subseteq rows' \/ rows' \subseteq rows \/ Retagged

\* If a version gets another tag, its old tag leads nowhere: what was reached and
\* does not lead nowhere is still reached.
LEMMA RetaggedReaches ==
    ASSUME Tidy, Retagged, NEW q \in Requests, q.kind # "prompt", NEW depth \in 0..Len(q.keys),
           \A d \in 1..Len(q.keys) : Reached(rows', q, d) # {}
    PROVE  Reached(rows, q, depth) \subseteq Reached(rows', q, depth)
<1>1. PICK r \in rows, key \in Keys :
          /\ r.kind = "version"
          /\ Below(rows, {r.parent}, "version", key) = {}
          /\ rows' = (rows \ {r}) \cup {[r EXCEPT !.key = key]}
  BY DEF Retagged
<1> DEFINE n == [r EXCEPT !.key = key]
<1>2. n.id = r.id /\ n.kind = "version" /\ n.parent = r.parent /\ n.key = key
  BY <1>1 DEF Tidy, Row
<1>3. rows' = (rows \ {r}) \cup {n}
  BY <1>1
<1> HIDE DEF n
<1>4. Len(q.keys) \in 0..3 /\ depth \in 0..3
  <2>1. \A k \in 0..3 : \A m \in 0..k : m \in 0..3
    OBVIOUS
  <2> QED BY <2>1, Tables
\* Only versions are affected.
<1>5. ASSUME NEW parents, NEW more, parents \subseteq more, NEW d, Chain[q.kind][d] # "version"
      PROVE  Following(rows, q, parents, d) \subseteq Following(rows', q, more, d)
  <2>1. \A s \in rows : s.kind # "version" => s \in rows'
    BY <1>1, <1>3
  <2> QED BY <1>5, <2>1 DEF Following, Below, IdsOf
\* The first key.
<1>6. ASSUME NEW k, NEW parent, Chain[q.kind][1] = "version", k = q.keys[1], parent = q.slug,
             Reached(rows', q, 1) # {}
      PROVE  Reached(rows, q, 1) \subseteq Reached(rows', q, 1)
  <2>1. /\ Reached(rows, q, 1) = IdsOf(Below(rows, {parent}, "version", k))
        /\ Reached(rows', q, 1) = IdsOf(Below(rows', {parent}, "version", k))
    BY <1>6 DEF Reached, Following
  <2>2. PICK s \in rows' : s.parent = parent /\ s.kind = "version" /\ s.key = k
    BY <1>6, <2>1 DEF IdsOf, Below
  <2>3. ~(r.parent = parent /\ r.key = k)
    <3>1. SUFFICES ASSUME r.parent = parent, r.key = k PROVE FALSE
      OBVIOUS
    <3>2. key # k
      BY <1>1, <3>1 DEF Below
    <3>3. s # n
      BY <1>2, <2>2, <3>2
    <3>4. s \in rows /\ s # r
      BY <1>3, <3>3
    <3> QED BY <1>1, <2>2, <3>1, <3>4 DEF Tidy, Distinct
  <2>4. \A t \in Below(rows, {parent}, "version", k) : t \in Below(rows', {parent}, "version", k)
    BY <1>3, <2>3 DEF Below
  <2> QED BY <2>1, <2>4 DEF IdsOf
<1>7. Reached(rows, q, 0) \subseteq Reached(rows', q, 0)
  BY DEF Reached
<1>8. 1 <= Len(q.keys) => Reached(rows, q, 1) \subseteq Reached(rows', q, 1)
  <2>1. SUFFICES ASSUME 1 <= Len(q.keys) PROVE Reached(rows, q, 1) \subseteq Reached(rows', q, 1)
    OBVIOUS
  <2>2. 1 \in 1..Len(q.keys)
    BY <1>4, <2>1
  <2>3. CASE Chain[q.kind][1] = "version"
    BY <1>6, <2>2, <2>3
  <2>4. CASE Chain[q.kind][1] # "version"
    <3>1. Following(rows, q, {q.slug}, 1) \subseteq Following(rows', q, {q.slug}, 1)
      BY <1>5, <2>4
    <3> QED BY <3>1 DEF Reached
  <2> QED BY <2>3, <2>4
<1>9. \A d \in 2..3 : d <= Len(q.keys) => Chain[q.kind][d] # "version"
  BY Tables
<1>10. 2 <= Len(q.keys) => Reached(rows, q, 2) \subseteq Reached(rows', q, 2)
  <2>1. SUFFICES ASSUME 2 <= Len(q.keys) PROVE Reached(rows, q, 2) \subseteq Reached(rows', q, 2)
    OBVIOUS
  <2>2. Chain[q.kind][2] # "version" /\ Reached(rows, q, 1) \subseteq Reached(rows', q, 1)
    BY <1>4, <1>8, <1>9, <2>1
  <2>3. Following(rows, q, Reached(rows, q, 1), 2) \subseteq Following(rows', q, Reached(rows', q, 1), 2)
    BY <1>5, <2>2
  <2> QED BY <2>3 DEF Reached
<1>11. 3 <= Len(q.keys) => Reached(rows, q, 3) \subseteq Reached(rows', q, 3)
  <2>1. SUFFICES ASSUME 3 <= Len(q.keys) PROVE Reached(rows, q, 3) \subseteq Reached(rows', q, 3)
    OBVIOUS
  <2>2. Chain[q.kind][3] # "version" /\ Reached(rows, q, 2) \subseteq Reached(rows', q, 2)
    BY <1>4, <1>9, <1>10, <2>1
  <2>3. Following(rows, q, Reached(rows, q, 2), 3) \subseteq Following(rows', q, Reached(rows', q, 2), 3)
    BY <1>5, <2>2
  <2> QED BY <2>3 DEF Reached
<1>12. \/ depth = 0
       \/ depth = 1 /\ 1 <= Len(q.keys)
       \/ depth = 2 /\ 2 <= Len(q.keys)
       \/ depth = 3 /\ 3 <= Len(q.keys)
  <2>1. \A k \in 0..3 : \A m \in 0..k :
            m = 0 \/ (m = 1 /\ 1 <= k) \/ (m = 2 /\ 2 <= k) \/ (m = 3 /\ 3 <= k)
    OBVIOUS
  <2> QED BY <1>4, <2>1
<1> QED BY <1>7, <1>8, <1>10, <1>11, <1>12

\* What is left of the way that led to a row still leads there, or nowhere.
LEMMA StillThere ==
    ASSUME Tidy, Tidy', OneChange,
           NEW q \in Requests, q.kind # "prompt", NEW depth \in 0..Len(q.keys),
           NEW held \in Reached(rows, q, depth), Present(prompts', rows', q)
    PROVE  held \in Reached(rows', q, depth)
<1>1. depth \in 0..3 /\ Len(q.keys) \in 0..3
  <2>1. \A n \in 0..3 : \A m \in 0..n : m \in 0..3
    OBVIOUS
  <2> QED BY <2>1, Tables
<1>2. CASE rows \subseteq rows'
  BY <1>1, <1>2, ReachedGrows
<1>3. CASE rows' \subseteq rows
  <2>1. Reached(rows', q, depth) # {}
    <3>1. CASE depth = 0
      BY <3>1 DEF Reached
    <3>2. CASE depth # 0
      <4>1. \A n \in 0..3 : \A m \in 0..n : m # 0 => m \in 1..n
        OBVIOUS
      <4>2. depth \in 1..Len(q.keys)
        BY <1>1, <3>2, <4>1
      <4> QED BY <4>2 DEF Present
    <3> QED BY <3>1, <3>2
  <2>2. Reached(rows', q, depth) \subseteq Reached(rows, q, depth)
    BY <1>1, <1>3, ReachedGrows
  <2> QED BY <1>1, <2>1, <2>2, ReachedOne DEF Tidy
<1>4. CASE Retagged
  BY <1>4, RetaggedReaches DEF Present
<1> QED BY <1>2, <1>3, <1>4 DEF OneChange

\* A step adds rows, removes some or gives one version another tag.
LEMMA OneWay ==
    ASSUME Core, [Next]_vars
    PROVE  OneChange
<1>1. CASE rows' = rows
  BY <1>1 DEF OneChange
<1>2. ASSUME NEW h \in Handlers, RemovePrompt(h) \/ DeleteRow(h)
      PROVE  rows' \subseteq rows
  BY <1>2 DEF RemovePrompt, DeleteRow, Remaining
<1>3. ASSUME NEW h \in Handlers, CreatePrompt(h) \/ InsertRow(h) \/ InsertAsset(h)
      PROVE  rows \subseteq rows'
  BY <1>3 DEF CreatePrompt, InsertRow, InsertAsset
<1>4. ASSUME NEW h \in Handlers, Reads(h) \/ UpdatePrompt(h) \/ LogActivity(h)
      PROVE  rows' = rows
  BY <1>4, ReadsTables DEF tables, UpdatePrompt, LogActivity
<1>5. ASSUME NEW t \in Tags, RemoveTag(t)
      PROVE  rows' = rows
  BY <1>5 DEF RemoveTag
<1>6. UNCHANGED vars => rows' = rows
  BY DEF vars
<1>7. ASSUME NEW h \in Handlers, UpdateRow(h), Retag(h)
      PROVE  Retagged
  BY <1>7, RetagIsRetagged
<1> QED BY <1>1, <1>2, <1>3, <1>4, <1>5, <1>6, <1>7, StepOf DEF OneChange

-------------------------------------------------------------------------------
(***************************************************************************)
(* What requests know of their rows.                                       *)
(***************************************************************************)
\* A request in flight notices when its path leads nowhere, and does not forget.
LEMMA NoticedAbsent ==
    ASSUME handlers \in [Handlers -> Handler], NEW h \in Handlers
    PROVE  /\ handlers[h].absent => Noticed[h].absent
           /\ ~At(h, "idle") /\ ~Noticed[h].absent => Present(prompts', rows', Asked(h))
<1>1. CASE At(h, "idle")
  BY <1>1 DEF Noticed
<1>2. CASE ~At(h, "idle")
  <2> DEFINE b == ~Present(prompts', rows', Asked(h))
  <2>1. Noticed[h] = [handlers[h] EXCEPT !.absent = @ \/ b]
    BY <1>2 DEF Noticed
  <2>2. "absent" \in DOMAIN handlers[h]
    BY DEF Handler
  <2> HIDE DEF b
  <2>3. Noticed[h].absent = (handlers[h].absent \/ b)
    BY <2>1, <2>2, Zenon
  <2> QED BY <2>3 DEF b
<1> QED BY <1>1, <1>2

\* Requests that only notice.
LEMMA OthersNotice ==
    ASSUME Core, [Next]_vars, NEW g \in Handlers, Located(g), ~NewRequest(g), ~Continue(g)
    PROVE  /\ Same(handlers[g], handlers'[g])
           /\ handlers[g].absent => handlers'[g].absent
           /\ ~At(g, "idle") /\ ~handlers'[g].absent => Present(prompts', rows', Asked(g))
<1>1. Same(handlers[g], handlers'[g])
  BY OthersSame
<1>2. CASE handlers'[g] = handlers[g] /\ UNCHANGED tables
  BY <1>1, <1>2 DEF Located, tables
<1>3. CASE handlers'[g] = Noticed[g]
  BY <1>1, <1>3, NoticedAbsent DEF Core
<1>4. CASE UNCHANGED vars
  BY <1>2, <1>4 DEF vars, tables
<1>5. ASSUME NEW t \in Tags, RemoveTag(t)
      PROVE  /\ handlers'[g] = handlers[g]
             /\ ~At(g, "idle") /\ ~handlers'[g].absent => Present(prompts', rows', Asked(g))
  <2>1. handlers' = handlers /\ rows' = rows
    BY <1>5 DEF RemoveTag
  <2>2. ASSUME ~At(g, "idle"), ~handlers[g].absent
        PROVE  Present(prompts', rows', Asked(g))
    <3>1. Asked(g) \in Requests /\ Asked(g).slug \in Slugs
      BY <2>2, Paths DEF Core, Placed
    <3>2. Present(prompts, rows, Asked(g))
      BY <2>2 DEF Located
    <3>3. prompts[Asked(g).slug] \in Prompt
      BY <3>1, <3>2 DEF Present, InProject, Core, Tidy
    <3>4. prompts'[Asked(g).slug] = [prompts[Asked(g).slug] EXCEPT !.tags = @ \ {t}]
      BY <1>5, <3>1, <3>2 DEF RemoveTag, Present, InProject
    <3>5. prompts'[Asked(g).slug] \in Prompt
          /\ prompts'[Asked(g).slug].project = prompts[Asked(g).slug].project
      BY <3>3, <3>4 DEF Prompt
    <3> QED BY <2>1, <3>2, <3>5, NullIsNoPrompt DEF Present, InProject
  <2> QED BY <2>1, <2>2
<1>6. ASSUME NEW h \in Handlers, h # g, NewRequest(h)
      PROVE  handlers'[g] = handlers[g] /\ UNCHANGED tables
  BY <1>6, NewRequestStarts, ReadsTables DEF Started, Reads
<1>7. ASSUME NEW h \in Handlers, h # g, ReadTags(h)
      PROVE  handlers'[g] = handlers[g] /\ UNCHANGED tables
  BY <1>7 DEF ReadTags, Core
<1>8. ASSUME NEW h \in Handlers, h # g, Walk(h)
      PROVE  handlers'[g] = handlers[g] /\ UNCHANGED tables
  BY <1>8, WalkEffect
<1>9. ASSUME NEW h \in Handlers, h # g, Continue(h), ~ReadTags(h), ~Walk(h)
      PROVE  handlers'[g] = Noticed[g]
  <2>1. \A pc : GoTo(h, pc) => handlers'[g] = Noticed[g]
    BY <1>9, NoticedType DEF GoTo, Core
  <2>2. \A told : Answer(h, told) => handlers'[g] = Noticed[g]
    BY <1>9, NoticedType DEF Answer, Core
  <2>3. CASE InsertRow(h)
    <3>1. handlers' = [Noticed EXCEPT ![h].pc = "log", ![h].held = next] \/ Answer(h, FALSE)
      BY <2>3 DEF InsertRow
    <3>2. handlers' = [Noticed EXCEPT ![h].pc = "log", ![h].held = next] => handlers'[g] = Noticed[g]
      BY <1>9, NoticedType DEF Core
    <3> QED BY <2>2, <3>1, <3>2
  <2>4. CASE ~InsertRow(h)
    <3>1. (\E pc : GoTo(h, pc)) \/ (\E told : Answer(h, told))
      BY <1>9, <2>4 DEF Continue, CreatePrompt, ReadBack, UpdatePrompt, RemovePrompt, PromptIsGone,
         NothingAhead, ParentIsGone, InsertAsset, UpdateRow, DeleteRow, RowIsGone, LogActivity, Refuse
    <3> QED BY <2>1, <2>2, <3>1
  <2> QED BY <2>3, <2>4
<1> QED BY <1>1, <1>2, <1>3, <1>4, <1>5, <1>6, <1>7, <1>8, <1>9 DEF Next

\* They stay located.
LEMMA OthersLocated ==
    ASSUME Core, [Next]_vars, NEW g \in Handlers, Located(g), ~NewRequest(g), ~Continue(g)
    PROVE  Located(g)'
<1>1. /\ Same(handlers[g], handlers'[g])
      /\ handlers[g].absent => handlers'[g].absent
      /\ ~At(g, "idle") /\ ~handlers'[g].absent => Present(prompts', rows', Asked(g))
  BY OthersNotice
<1>2. ASSUME handlers[g].pc \in {"walk", "write"}, Asked(g).kind # "prompt", ~handlers'[g].absent
      PROVE  handlers[g].held \in Reached(rows', Asked(g), handlers[g].depth)
  <2>1. Tidy /\ Tidy' /\ OneChange
    BY CoreStep, OneWay DEF Core
  <2>2. Asked(g) \in Requests /\ Present(prompts', rows', Asked(g))
        /\ handlers[g].held \in Reached(rows, Asked(g), handlers[g].depth)
    BY <1>1, <1>2 DEF Core, Placed, At, Located
  <2>3. handlers[g].depth \in 0..Len(Asked(g).keys)
    <3>1. handlers[g].depth \in 0..3 /\ Len(Asked(g).keys) \in 0..3
      BY <1>2, <2>2, Tables DEF Core, Handler
    <3>2. handlers[g].depth < Len(Asked(g).keys) \/ handlers[g].depth = Len(Asked(g).keys)
      BY <1>2 DEF Core, Placed, At
    <3>3. \A m, n \in 0..3 : (m < n \/ m = n) => m \in 0..n
      OBVIOUS
    <3> QED BY <3>1, <3>2, <3>3
  <2> QED BY <1>2, <2>1, <2>2, <2>3, StillThere
<1> QED BY <1>1, <1>2 DEF Located, Same, At, Asked

\* Requests that begin or find the next row.
LEMMA ReadsLocated ==
    ASSUME Core, NEW h \in Handlers, Located(h), NewRequest(h) \/ ReadTags(h) \/ Walk(h)
    PROVE  Located(h)'
<1>1. CASE NewRequest(h)
  <2>1. Started(h) /\ UNCHANGED <<prompts, rows>>
    BY <1>1, NewRequestStarts, ReadsTables DEF Reads, tables
  <2>2. Reached(rows, handlers'[h].request, 0) = {handlers'[h].request.slug}
    BY DEF Reached
  <2>3. ~handlers'[h].absent => Present(prompts', rows', handlers'[h].request)
    BY <2>1 DEF Started
  <2>4. handlers'[h].held \in Reached(rows', handlers'[h].request, handlers'[h].depth)
    BY <2>1, <2>2 DEF Started
  <2>5. handlers'[h].pc # "log" /\ ~handlers'[h].told
    BY <2>1 DEF Started
  <2> QED BY <2>3, <2>4, <2>5 DEF Located, At, Asked
<1>2. CASE ReadTags(h)
  <2>1. PICK given : handlers' = [handlers EXCEPT ![h].pc = "write", ![h].tags = given]
    BY <1>2 DEF ReadTags
  <2>2. handlers'[h] = [handlers[h] EXCEPT !.pc = "write", !.tags = given]
    BY <2>1 DEF Core
  <2>3. /\ handlers'[h].request = handlers[h].request /\ handlers'[h].pc = "write"
        /\ handlers'[h].absent = handlers[h].absent /\ handlers'[h].told = handlers[h].told
    BY <2>2 DEF Core, Handler
  <2>4. UNCHANGED <<prompts, rows>> /\ Asked(h).kind = "prompt" /\ ~At(h, "idle")
    BY <1>2 DEF ReadTags, tables, Core, Placed, At
  <2> QED BY <2>3, <2>4 DEF Located, At, Asked
<1>3. CASE Walk(h)
  <2> DEFINE q == Asked(h)
             d == handlers[h].depth
  <2>1. /\ UNCHANGED tables /\ q \in Requests /\ q.kind # "prompt" /\ d + 1 \in 1..Len(q.keys)
        /\ At(h, "walk")
    BY <1>3, WalkEffect DEF Walk
  <2>2. PICK r \in rows :
            /\ r.parent = handlers[h].held
            /\ r.kind = Chain[q.kind][d + 1]
            /\ r.key = q.keys[d + 1]
            /\ handlers'[h] = [handlers[h] EXCEPT !.pc = Found(q, d + 1), !.held = r.id, !.depth = d + 1]
    BY <1>3, WalkEffect
  <2>3. /\ handlers'[h].request = q /\ handlers'[h].pc = Found(q, d + 1)
        /\ handlers'[h].held = r.id /\ handlers'[h].depth = d + 1
        /\ handlers'[h].absent = handlers[h].absent /\ handlers'[h].told = handlers[h].told
    BY <2>2 DEF Core, Handler, Asked
  <2>4. d \in 0..2
    <3>1. d \in 0..3 /\ Len(q.keys) \in 0..3
      BY <2>1, Tables DEF Core, Handler
    <3>2. \A m, n \in 0..3 : m + 1 \in 1..n => m \in 0..2
      OBVIOUS
    <3> QED BY <2>1, <3>1, <3>2
  <2>5. ~handlers[h].absent => r.id \in Reached(rows, q, d + 1)
    <3>1. SUFFICES ASSUME ~handlers[h].absent PROVE r.id \in Reached(rows, q, d + 1)
      OBVIOUS
    <3>2. handlers[h].held \in Reached(rows, q, d)
      BY <2>1, <3>1 DEF Located, At
    <3> HIDE DEF d, q
    <3>3. r.id \in Following(rows, q, Reached(rows, q, d), d + 1)
      BY <2>2, <3>2 DEF Following, Below, IdsOf
    <3> QED BY <2>4, <3>3, ReachedNext
  <2>6. Found(q, d + 1) \in {"walk", "write"} /\ UNCHANGED <<prompts, rows>>
    BY <2>1 DEF Found, tables
  <2>7. ~handlers[h].absent => Present(prompts, rows, q)
    BY <2>1 DEF Located, At
  <2>8. handlers[h].told => handlers[h].absent
    BY DEF Located
  <2> HIDE DEF d, q
  <2> QED BY <2>3, <2>5, <2>6, <2>7, <2>8 DEF Located, At, Asked
<1> QED BY <1>1, <1>2, <1>3

\* A request that has missed nothing holds a row that is there.
LEMMA HeldIsThere ==
    ASSUME Core, NEW h \in Handlers, Located(h), handlers[h].pc \in {"walk", "write"},
           Asked(h).kind # "prompt", ~handlers[h].absent
    PROVE  /\ Present(prompts, rows, Asked(h))
           /\ handlers[h].depth = 0 => handlers[h].held = Asked(h).slug
           /\ handlers[h].depth # 0 => Held(h) # {}
<1>1. Asked(h) \in Requests /\ handlers[h].depth \in 0..3 /\ Present(prompts, rows, Asked(h))
      /\ handlers[h].held \in Reached(rows, Asked(h), handlers[h].depth)
  BY DEF Core, Placed, At, Located, Handler
<1>2. CASE handlers[h].depth = 0
  BY <1>1, <1>2 DEF Reached
<1>3. CASE handlers[h].depth # 0
  <2>1. handlers[h].held \in IdsOf(rows)
    BY <1>1, <1>3, ReachedIds
  <2> QED BY <1>1, <1>3, <2>1 DEF IdsOf, Held
<1> QED BY <1>2, <1>3

\* Only removals and requests that find nothing are told of absence: it has been so.
LEMMA ToldOfAbsence ==
    ASSUME Core, NEW h \in Handlers, Located(h), Core', OneChange,
           \/ ReadBack(h) /\ ~InProject(prompts, Asked(h).slug, Asked(h).project)
           \/ PromptIsGone(h)
           \/ NothingAhead(h)
           \/ ParentIsGone(h)
           \/ RowIsGone(h)
           \/ RemovePrompt(h)
           \/ DeleteRow(h)
           \/ LogActivity(h) /\ Asked(h).op = "remove"
    PROVE  Noticed[h].absent
<1> SUFFICES ASSUME ~Noticed[h].absent PROVE FALSE
  OBVIOUS
<1> DEFINE q == Asked(h)
<1>1. ~At(h, "idle")
  BY DEF ReadBack, PromptIsGone, NothingAhead, ParentIsGone, RowIsGone, RemovePrompt, DeleteRow,
     LogActivity, Writing, At
<1>2. ~handlers[h].absent /\ Present(prompts', rows', q) /\ Present(prompts, rows, q) /\ q \in Requests
  BY <1>1, NoticedAbsent DEF Core, Placed, Located
<1>3. InProject(prompts, q.slug, q.project) /\ prompts'[q.slug] # NULL
  BY <1>2 DEF Present, InProject
<1>4. ~PromptIsGone(h) /\ ~(ReadBack(h) /\ ~InProject(prompts, Asked(h).slug, Asked(h).project))
  BY <1>3 DEF PromptIsGone
<1>5. ~RemovePrompt(h)
  <2>1. q.slug \in Slugs
    BY <1>2, Paths
  <2> QED BY <1>3, <2>1 DEF RemovePrompt, Core, Tidy
<1>6. ~(LogActivity(h) /\ Asked(h).op = "remove")
  BY <1>2 DEF LogActivity, Located
<1>7. ~NothingAhead(h)
  <2>1. SUFFICES ASSUME NothingAhead(h) PROVE FALSE
    OBVIOUS
  <2> DEFINE d == handlers[h].depth
  <2>2. /\ At(h, "walk") /\ Ahead(h) = {} /\ q.kind # "prompt" /\ d < Len(q.keys)
        /\ d \in 0..3 /\ Len(q.keys) \in 0..3
    BY <1>2, <2>1, Tables DEF NothingAhead, Core, Placed, Handler
  <2>3. d \in 0..2 /\ d + 1 \in 1..Len(q.keys)
    <3>1. \A m, n \in 0..3 : m < n => m \in 0..2 /\ m + 1 \in 1..n
      OBVIOUS
    <3> QED BY <2>2, <3>1
  <2>4. handlers[h].held \in Reached(rows, q, d)
    BY <1>2, <2>2 DEF Located, At
  <2>5. Below(rows, {handlers[h].held}, Chain[q.kind][d + 1], q.keys[d + 1]) = {}
    BY <2>2 DEF Ahead
  <2> HIDE DEF d, q
  <2>6. \A x \in Reached(rows, q, d) : x = handlers[h].held
    BY <2>3, <2>4, ReachedOne DEF Core, Tidy
  <2>7. Following(rows, q, Reached(rows, q, d), d + 1) = {}
    BY <2>5, <2>6 DEF Following, Below, IdsOf
  <2>8. Reached(rows, q, d + 1) = {}
    BY <2>3, <2>7, ReachedNext
  <2>9. Reached(rows, q, d + 1) # {}
    BY <1>2, <2>3 DEF Present
  <2> QED BY <2>8, <2>9
<1>8. ~ParentIsGone(h)
  <2>1. SUFFICES ASSUME ParentIsGone(h) PROVE FALSE
    OBVIOUS
  <2>2. At(h, "write") /\ q.kind # "prompt" /\ Tops(h) = {}
    BY <2>1 DEF ParentIsGone, Writing, PromptKinds
  <2>3. handlers[h].held = q.slug \/ Held(h) # {}
    BY <1>2, <2>2, HeldIsThere DEF At
  <2>4. q.slug \in Slugs /\ prompts[q.slug] # NULL
    BY <1>2, <1>3, Paths DEF InProject
  <2>5. Tops(h) # {}
    BY <2>3, <2>4 DEF Tops
  <2> QED BY <2>2, <2>5
<1>9. ASSUME RowIsGone(h) \/ DeleteRow(h)
      PROVE  /\ At(h, "write") /\ q.kind # "prompt" /\ handlers[h].depth = Len(q.keys)
             /\ Len(q.keys) # 0 /\ Len(q.keys) \in 0..3 /\ Held(h) # {}
             /\ handlers[h].held \in Reached(rows, q, Len(q.keys))
  <2>1. At(h, "write") /\ q.kind # "prompt" /\ q.op # "create"
    BY <1>9 DEF RowIsGone, DeleteRow, Writing
  <2>2. handlers[h].depth = Len(q.keys) /\ Len(q.keys) # 0 /\ Len(q.keys) \in 0..3
    BY <1>2, <2>1, Tables DEF Core, Placed
  <2>3. Held(h) # {}
    BY <1>2, <2>1, <2>2, HeldIsThere DEF At
  <2> QED BY <1>2, <2>1, <2>2, <2>3 DEF Located, At
<1>10. ~RowIsGone(h)
  BY <1>9 DEF RowIsGone
<1>11. ~DeleteRow(h)
  <2>1. SUFFICES ASSUME DeleteRow(h) PROVE FALSE
    OBVIOUS
  <2>2. rows' = Remaining({handlers[h].held})
    BY <2>1 DEF DeleteRow
  <2>3. Len(q.keys) \in 0..Len(q.keys) /\ Len(q.keys) \in 1..3
    BY <1>9, <2>1
  <2>4. handlers[h].held \in Reached(rows', q, Len(q.keys))
    BY <1>2, <1>9, <2>1, <2>3, StillThere DEF Core
  <2>5. handlers[h].held \in IdsOf(rows')
    BY <2>3, <2>4, ReachedIds
  <2> QED BY <2>2, <2>5, Cascade DEF IdsOf, Core
<1> QED BY <1>4, <1>5, <1>6, <1>7, <1>8, <1>10, <1>11

\* A request that goes on to log, or back, knows what it has noticed.
LEMMA GoToLocated ==
    ASSUME Core, NEW h \in Handlers, Located(h), NEW pc \in {"log", "readback"}, GoTo(h, pc),
           ~At(h, "idle"), pc = "log" /\ Asked(h).op = "remove" => Noticed[h].absent
    PROVE  Located(h)'
<1>1. Noticed[h] \in Handler /\ Same(handlers[h], Noticed[h])
  BY NoticedType DEF Core
<1>2. handlers'[h] = [Noticed[h] EXCEPT !.pc = pc]
  BY GoToEffect DEF Core
<1>3. /\ handlers'[h].pc = pc
      /\ handlers'[h].request = Noticed[h].request
      /\ handlers'[h].absent = Noticed[h].absent
      /\ handlers'[h].told = Noticed[h].told
  BY <1>1, <1>2 DEF Handler
<1>4. handlers'[h].request = Asked(h)
  BY <1>1, <1>3 DEF Same, Asked
<1>5. ~handlers'[h].absent => Present(prompts', rows', handlers'[h].request)
  BY <1>3, <1>4, NoticedAbsent DEF Core
<1>6. handlers'[h].told => handlers'[h].absent
  <2>1. handlers'[h].told => handlers[h].told
    BY <1>1, <1>3 DEF Same
  <2>2. handlers[h].told => handlers[h].absent
    BY DEF Located
  <2> QED BY <1>3, <2>1, <2>2, NoticedAbsent DEF Core
<1>7. pc = "log" /\ handlers'[h].request.op = "remove" => handlers'[h].absent
  BY <1>3, <1>4
<1> QED BY <1>3, <1>5, <1>6, <1>7 DEF Located, At, Asked

\* A request that is over has been told the truth.
LEMMA AnswerLocated ==
    ASSUME Core, NEW h \in Handlers, NEW told \in BOOLEAN, Answer(h, told),
           told => Noticed[h].absent
    PROVE  Located(h)'
<1>1. CASE told
  <2>1. handlers'[h].pc = "idle" /\ handlers'[h].absent
    BY <1>1, AnswerEffect DEF Core
  <2> QED BY <2>1 DEF Located, At, Asked
<1>2. CASE ~told
  <2>1. handlers'[h] = Idle
    BY <1>2, AnswerEffect DEF Core
  <2>2. handlers'[h].pc = "idle" /\ ~handlers'[h].told
    BY <2>1, OverKeepsType DEF Idle
  <2> QED BY <2>2 DEF Located, At, Asked
<1> QED BY <1>1, <1>2

\* All steps keep requests located.
LEMMA LocatedStep ==
    ASSUME Core, [Next]_vars, NEW h \in Handlers, Located(h)
    PROVE  Located(h)'
<1>1. Core' /\ OneChange
  BY CoreStep, OneWay
<1>2. CASE ~NewRequest(h) /\ ~Continue(h)
  BY <1>2, OthersLocated
<1>3. CASE NewRequest(h) \/ ReadTags(h) \/ Walk(h)
  BY <1>3, ReadsLocated
<1>4. CASE CreatePrompt(h)
  BY <1>4, GoToLocated DEF CreatePrompt, Writing, At
<1>5. CASE ReadBack(h)
  <2>1. ~At(h, "idle") /\ Asked(h).op = "create"
    BY <1>5 DEF ReadBack, At, Core, Placed
  <2>2. CASE InProject(prompts, Asked(h).slug, Asked(h).project)
    <3>1. GoTo(h, "log")
      BY <1>5, <2>2 DEF ReadBack
    <3> QED BY <2>1, <3>1, GoToLocated
  <2>3. CASE ~InProject(prompts, Asked(h).slug, Asked(h).project)
    <3>1. Answer(h, TRUE)
      BY <1>5, <2>3 DEF ReadBack
    <3>2. Noticed[h].absent
      BY <1>1, <1>5, <2>3, ToldOfAbsence
    <3> QED BY <3>1, <3>2, AnswerLocated
  <2> QED BY <2>2, <2>3
<1>6. CASE UpdatePrompt(h)
  <2>1. GoTo(h, "log") /\ ~At(h, "idle") /\ Asked(h).op = "update"
    BY <1>6 DEF UpdatePrompt, Writing, At
  <2> QED BY <2>1, GoToLocated
<1>7. CASE RemovePrompt(h)
  <2>1. GoTo(h, "log") /\ ~At(h, "idle")
    BY <1>7 DEF RemovePrompt, Writing, At
  <2>2. Noticed[h].absent
    BY <1>1, <1>7, ToldOfAbsence
  <2> QED BY <2>1, <2>2, GoToLocated
<1>8. CASE PromptIsGone(h) \/ NothingAhead(h) \/ ParentIsGone(h) \/ RowIsGone(h)
  <2>1. Answer(h, TRUE)
    BY <1>8 DEF PromptIsGone, NothingAhead, ParentIsGone, RowIsGone
  <2>2. Noticed[h].absent
    BY <1>1, <1>8, ToldOfAbsence
  <2> QED BY <2>1, <2>2, AnswerLocated
<1>9. CASE InsertRow(h)
  <2>1. CASE Answer(h, FALSE)
    BY <2>1, AnswerLocated
  <2>2. CASE handlers' = [Noticed EXCEPT ![h].pc = "log", ![h].held = next]
    <3>1. Noticed[h] \in Handler /\ Same(handlers[h], Noticed[h]) /\ Noticed \in [Handlers -> Handler]
      BY NoticedType DEF Core
    <3>2. handlers'[h] = [Noticed[h] EXCEPT !.pc = "log", !.held = next]
      BY <2>2, <3>1
    <3>3. /\ handlers'[h].pc = "log"
          /\ handlers'[h].request = Noticed[h].request
          /\ handlers'[h].absent = Noticed[h].absent
          /\ handlers'[h].told = Noticed[h].told
      BY <3>1, <3>2 DEF Handler
    <3>4. handlers'[h].request = Asked(h) /\ Asked(h).op = "create" /\ ~At(h, "idle")
      BY <1>9, <3>1, <3>3 DEF Same, Asked, InsertRow, Writing, At
    <3>5. ~handlers'[h].absent => Present(prompts', rows', handlers'[h].request)
      BY <3>3, <3>4, NoticedAbsent DEF Core
    <3>6. handlers'[h].told => handlers'[h].absent
      <4>1. handlers'[h].told => handlers[h].told
        BY <3>1, <3>3 DEF Same
      <4>2. handlers[h].told => handlers[h].absent
        BY DEF Located
      <4> QED BY <3>3, <4>1, <4>2, NoticedAbsent DEF Core
    <3> QED BY <3>3, <3>4, <3>5, <3>6 DEF Located, At, Asked
  <2> QED BY <1>9, <2>1, <2>2 DEF InsertRow
<1>10. CASE InsertAsset(h) \/ Refuse(h)
  <2>1. Answer(h, FALSE)
    BY <1>10 DEF InsertAsset, Refuse
  <2> QED BY <2>1, AnswerLocated
<1>11. CASE UpdateRow(h)
  <2>1. Asked(h).op = "update" /\ ~At(h, "idle") /\ (GoTo(h, "log") \/ Answer(h, FALSE))
    BY <1>11 DEF UpdateRow, Writing, At
  <2>2. CASE GoTo(h, "log")
    BY <2>1, <2>2, GoToLocated
  <2>3. CASE Answer(h, FALSE)
    BY <2>3, AnswerLocated
  <2> QED BY <2>1, <2>2, <2>3
<1>12. CASE DeleteRow(h)
  <2>1. Noticed[h].absent
    BY <1>1, <1>12, ToldOfAbsence
  <2>2. ~At(h, "idle") /\ (GoTo(h, "log") \/ Answer(h, TRUE))
    BY <1>12 DEF DeleteRow, Writing, At
  <2>3. CASE GoTo(h, "log")
    BY <2>1, <2>2, <2>3, GoToLocated
  <2>4. CASE Answer(h, TRUE)
    BY <2>1, <2>4, AnswerLocated
  <2> QED BY <2>2, <2>3, <2>4
<1>13. CASE LogActivity(h)
  <2>1. Asked(h).op = "remove" => Noticed[h].absent
    BY <1>1, <1>13, ToldOfAbsence
  <2>2. Answer(h, Asked(h).op = "remove") /\ (Asked(h).op = "remove") \in BOOLEAN
    BY <1>13 DEF LogActivity
  <2> QED BY <2>1, <2>2, AnswerLocated
<1> QED BY <1>2, <1>3, <1>4, <1>5, <1>6, <1>7, <1>8, <1>9, <1>10, <1>11, <1>12, <1>13 DEF Continue

\* At the start no request is under way.
LEMMA LocatedInit == Init => \A h \in Handlers : Located(h)
<1> SUFFICES ASSUME Init, NEW h \in Handlers PROVE Located(h)
  OBVIOUS
<1>1. handlers[h].pc = "idle" /\ ~handlers[h].told
  BY OverKeepsType DEF Init, Idle
<1> QED BY <1>1 DEF Located, At

\* A request that is answered that there is no such row has lived through a time
\* when there was none, although it finds rows one after the other while others
\* remove them, create new ones with the same keys, and give versions other tags.
THEOREM AbsenceStaysTrue == Spec => []AbsenceIsTrue
<1> DEFINE Everywhere == \A h \in Handlers : Located(h)
<1>1. Core /\ Everywhere /\ [Next]_vars => Everywhere'
  <2> SUFFICES ASSUME Core, Everywhere, [Next]_vars, NEW h \in Handlers PROVE Located(h)'
    OBVIOUS
  <2> QED BY LocatedStep
<1>2. Everywhere => AbsenceIsTrue
  BY DEF Located, AbsenceIsTrue
<1>3. Init => Everywhere
  BY LocatedInit
<1> QED BY <1>1, <1>2, <1>3, CoreInvariant, PTL DEF Spec
===============================================================================
