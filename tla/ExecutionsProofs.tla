---------------------------- MODULE ExecutionsProofs ---------------------------
(***************************************************************************)
(* Proofs about Executions, for every number of system prompts, files,     *)
(* models, requests and requests in flight.                                *)
(***************************************************************************)
EXTENDS Executions, TLAPS

(***************************************************************************)
(* Where the awaits are.                                                   *)
(***************************************************************************)
\* The plans, one by one.
LEMMA Plans ==
    /\ Plan("create") = <<"insert">>
    /\ Plan("find") = <<"find", "file">>
    /\ Plan("list") = <<"all", "file">>
    /\ Plan("update") = <<"find", "file", "write", "file">>
    /\ Plan("remove") = <<"find", "file", "find", "file", "delete">>
    /\ Plan("raw") = <<"find", "file", "model", "invoke">>
    /\ Plan("generate") = <<"choose", "find", "file", "model", "invoke">>
    /\ Plan("execute") = <<"prompt", "model", "invoke">>
  BY DEF Plan

\* How long they are.
LEMMA Lengths ==
    /\ Len(Plan("create")) = 1 /\ Len(Plan("find")) = 2 /\ Len(Plan("list")) = 2
    /\ Len(Plan("update")) = 4 /\ Len(Plan("remove")) = 5 /\ Len(Plan("raw")) = 4
    /\ Len(Plan("generate")) = 5 /\ Len(Plan("execute")) = 3
  BY Plans

\* Every request has a step.
LEMMA NotEmpty ==
    ASSUME NEW op \in Ops
    PROVE  1 \in 1..Len(Plan(op))
<1>1. \A n \in {1, 2, 3, 4, 5} : 1 \in 1..n
  OBVIOUS
<1>2. Len(Plan(op)) \in {1, 2, 3, 4, 5}
  BY Lengths DEF Ops
<1>3. QED
  BY <1>1, <1>2

\* Which request is at which step when it writes, removes, reads or sends.
LEMMA Where ==
    ASSUME NEW op \in Ops, NEW n \in 1..Len(Plan(op))
    PROVE  /\ Plan(op)[n] = "insert" => op = "create"
           /\ Plan(op)[n] = "write" => op = "update" /\ n = 3
           /\ Plan(op)[n] = "delete" => op = "remove" /\ n = 5
           /\ Plan(op)[n] = "all" => op = "list"
           /\ Plan(op)[n] = "choose" => op = "generate" /\ n = 1
           /\ Plan(op)[n] = "invoke" => \/ op = "raw" /\ n = 4
                                        \/ op = "generate" /\ n = 5
                                        \/ op = "execute" /\ n = 3
           /\ Plan(op)[n] = "find" => \/ op \in {"find", "update", "raw"} /\ n = 1
                                      \/ op = "remove" /\ n \in {1, 3}
                                      \/ op = "generate" /\ n = 2
           /\ op = "raw" /\ n = 1 => Plan(op)[n] = "find"
           /\ op = "generate" /\ n = 1 => Plan(op)[n] = "choose"
           /\ op = "generate" /\ n = 2 => Plan(op)[n] = "find"
           /\ op \in {"update", "remove"} /\ n = 1 => Plan(op)[n] = "find"
           /\ op \in {"update", "remove"} /\ n = 2 => Plan(op)[n] = "file"
           /\ op = "remove" /\ n = 4 => Plan(op)[n] = "file"
           /\ Len(Plan(op)) \in Nat
<1>1. CASE op = "create"
  <2>1. /\ Plan(op) = <<"insert">>
        /\ n \in {1}
        /\ Len(Plan(op)) = 1
    <3>1. Plan(op) = <<"insert">>
      BY <1>1, Plans
    <3>2. Len(Plan(op)) = 1
      BY <1>1, Lengths
    <3>3. n \in {1}
      BY <3>2
    <3>4. QED
      BY <3>1, <3>2, <3>3
  <2>2. n = 1 => Plan(op)[n] = "insert"
    BY <2>1
  <2>3. QED
    BY <1>1, <2>1, <2>2
<1>2. CASE op = "find"
  <2>1. /\ Plan(op) = <<"find", "file">>
        /\ n \in {1, 2}
        /\ Len(Plan(op)) = 2
    <3>1. Plan(op) = <<"find", "file">>
      BY <1>2, Plans
    <3>2. Len(Plan(op)) = 2
      BY <1>2, Lengths
    <3>3. n \in {1, 2}
      BY <3>2
    <3>4. QED
      BY <3>1, <3>2, <3>3
  <2>2. n = 1 => Plan(op)[n] = "find"
    BY <2>1
  <2>3. n = 2 => Plan(op)[n] = "file"
    BY <2>1
  <2>4. QED
    BY <1>2, <2>1, <2>2, <2>3
<1>3. CASE op = "list"
  <2>1. /\ Plan(op) = <<"all", "file">>
        /\ n \in {1, 2}
        /\ Len(Plan(op)) = 2
    <3>1. Plan(op) = <<"all", "file">>
      BY <1>3, Plans
    <3>2. Len(Plan(op)) = 2
      BY <1>3, Lengths
    <3>3. n \in {1, 2}
      BY <3>2
    <3>4. QED
      BY <3>1, <3>2, <3>3
  <2>2. n = 1 => Plan(op)[n] = "all"
    BY <2>1
  <2>3. n = 2 => Plan(op)[n] = "file"
    BY <2>1
  <2>4. QED
    BY <1>3, <2>1, <2>2, <2>3
<1>4. CASE op = "update"
  <2>1. /\ Plan(op) = <<"find", "file", "write", "file">>
        /\ n \in {1, 2, 3, 4}
        /\ Len(Plan(op)) = 4
    <3>1. Plan(op) = <<"find", "file", "write", "file">>
      BY <1>4, Plans
    <3>2. Len(Plan(op)) = 4
      BY <1>4, Lengths
    <3>3. n \in {1, 2, 3, 4}
      BY <3>2
    <3>4. QED
      BY <3>1, <3>2, <3>3
  <2>2. n = 1 => Plan(op)[n] = "find"
    BY <2>1
  <2>3. n = 2 => Plan(op)[n] = "file"
    BY <2>1
  <2>4. n = 3 => Plan(op)[n] = "write"
    BY <2>1
  <2>5. n = 4 => Plan(op)[n] = "file"
    BY <2>1
  <2>6. QED
    BY <1>4, <2>1, <2>2, <2>3, <2>4, <2>5
<1>5. CASE op = "remove"
  <2>1. /\ Plan(op) = <<"find", "file", "find", "file", "delete">>
        /\ n \in {1, 2, 3, 4, 5}
        /\ Len(Plan(op)) = 5
    <3>1. Plan(op) = <<"find", "file", "find", "file", "delete">>
      BY <1>5, Plans
    <3>2. Len(Plan(op)) = 5
      BY <1>5, Lengths
    <3>3. n \in {1, 2, 3, 4, 5}
      BY <3>2
    <3>4. QED
      BY <3>1, <3>2, <3>3
  <2>2. n = 1 => Plan(op)[n] = "find"
    BY <2>1
  <2>3. n = 2 => Plan(op)[n] = "file"
    BY <2>1
  <2>4. n = 3 => Plan(op)[n] = "find"
    BY <2>1
  <2>5. n = 4 => Plan(op)[n] = "file"
    BY <2>1
  <2>6. n = 5 => Plan(op)[n] = "delete"
    BY <2>1
  <2>7. QED
    BY <1>5, <2>1, <2>2, <2>3, <2>4, <2>5, <2>6
<1>6. CASE op = "raw"
  <2>1. /\ Plan(op) = <<"find", "file", "model", "invoke">>
        /\ n \in {1, 2, 3, 4}
        /\ Len(Plan(op)) = 4
    <3>1. Plan(op) = <<"find", "file", "model", "invoke">>
      BY <1>6, Plans
    <3>2. Len(Plan(op)) = 4
      BY <1>6, Lengths
    <3>3. n \in {1, 2, 3, 4}
      BY <3>2
    <3>4. QED
      BY <3>1, <3>2, <3>3
  <2>2. n = 1 => Plan(op)[n] = "find"
    BY <2>1
  <2>3. n = 2 => Plan(op)[n] = "file"
    BY <2>1
  <2>4. n = 3 => Plan(op)[n] = "model"
    BY <2>1
  <2>5. n = 4 => Plan(op)[n] = "invoke"
    BY <2>1
  <2>6. QED
    BY <1>6, <2>1, <2>2, <2>3, <2>4, <2>5
<1>7. CASE op = "generate"
  <2>1. /\ Plan(op) = <<"choose", "find", "file", "model", "invoke">>
        /\ n \in {1, 2, 3, 4, 5}
        /\ Len(Plan(op)) = 5
    <3>1. Plan(op) = <<"choose", "find", "file", "model", "invoke">>
      BY <1>7, Plans
    <3>2. Len(Plan(op)) = 5
      BY <1>7, Lengths
    <3>3. n \in {1, 2, 3, 4, 5}
      BY <3>2
    <3>4. QED
      BY <3>1, <3>2, <3>3
  <2>2. n = 1 => Plan(op)[n] = "choose"
    BY <2>1
  <2>3. n = 2 => Plan(op)[n] = "find"
    BY <2>1
  <2>4. n = 3 => Plan(op)[n] = "file"
    BY <2>1
  <2>5. n = 4 => Plan(op)[n] = "model"
    BY <2>1
  <2>6. n = 5 => Plan(op)[n] = "invoke"
    BY <2>1
  <2>7. QED
    BY <1>7, <2>1, <2>2, <2>3, <2>4, <2>5, <2>6
<1>8. CASE op = "execute"
  <2>1. /\ Plan(op) = <<"prompt", "model", "invoke">>
        /\ n \in {1, 2, 3}
        /\ Len(Plan(op)) = 3
    <3>1. Plan(op) = <<"prompt", "model", "invoke">>
      BY <1>8, Plans
    <3>2. Len(Plan(op)) = 3
      BY <1>8, Lengths
    <3>3. n \in {1, 2, 3}
      BY <3>2
    <3>4. QED
      BY <3>1, <3>2, <3>3
  <2>2. n = 1 => Plan(op)[n] = "prompt"
    BY <2>1
  <2>3. n = 2 => Plan(op)[n] = "model"
    BY <2>1
  <2>4. n = 3 => Plan(op)[n] = "invoke"
    BY <2>1
  <2>5. QED
    BY <1>8, <2>1, <2>2, <2>3, <2>4
<1>9. QED
  BY <1>1, <1>2, <1>3, <1>4, <1>5, <1>6, <1>7, <1>8 DEF Ops

-------------------------------------------------------------------------------
(***************************************************************************)
(* The inductive invariant.  A request in flight has watched the name it   *)
(* asks for; so what it found under that name it has watched, too, and a   *)
(* row it could not read never has that name once it has read the file.    *)
(***************************************************************************)
\* Rows of the right type, with unique names.
Rows(table) ==
    /\ table \in [Ids -> Row \cup {NULL}]
    /\ \A i, j \in Ids : table[i] # NULL /\ table[j] # NULL /\ table[i].name = table[j].name => i = j

\* The texts that have the name now are among those that were watched.
Watched(r, table) == \A i \in NamedIn(table, r.request.name) : table[i].text \in r.under

\* What will be sent has been found.
FoundToSend(r) ==
    \/ r.request.op = "raw" /\ r.step >= 2
    \/ r.request.op = "generate" /\ r.step >= 3

\* A generation chooses its model first, the others bring it along.
HasChosen(r) == r.chosen = NULL => r.request.op = "generate" /\ r.step = 1

\* Rows that are called broken are.
Illegible(r, table, there) ==
    \A i \in r.broken : table[i] # NULL /\ ~Legible(table[i].text, there)

\* Between reading the file and writing.
Passed(r) ==
    \/ r.request.op = "update" /\ r.step = 3
    \/ r.request.op = "remove" /\ r.step \in 3..5

\* A broken row with the name that is asked for stops the request at the file.
Elsewhere(r, table) ==
    \A i \in r.broken : table[i].name = r.request.name =>
        /\ ~Passed(r)
        /\ r.request.op \in {"update", "remove"} /\ r.step = 2 => r.texts = {table[i].text}

\* What a request in flight holds.
Right(r, table, there) ==
    r.request # NULL =>
        /\ r.step \in 1..Len(Plan(r.request.op))
        /\ Watched(r, table)
        /\ FoundToSend(r) => r.texts \subseteq r.under
        /\ HasChosen(r)
        /\ Illegible(r, table, there)
        /\ Elsewhere(r, table)

IInv ==
    /\ Rows(rows)
    /\ files \subseteq Files
    /\ models \in [Models -> Model \cup {NULL}]
    /\ handlers \in [Handlers -> Handler]
    /\ \A h \in Handlers : Right(handlers[h], rows, files)

\* It implies the type invariant.
LEMMA TypesFollow == IInv => TypeOK
  BY DEF IInv, TypeOK, Rows, Right, Busy, Asked

-------------------------------------------------------------------------------
(***************************************************************************)
(* One handler.                                                            *)
(***************************************************************************)
\* A request asks for a known operation and a name.
LEMMA RequestsAsk ==
    ASSUME NEW q \in Requests
    PROVE  q.op \in Ops /\ q.name \in Names /\ q # NULL
  BY RequestsAssumption, NullAssumption DEF IsRequest

\* Nobody asks.
LEMMA IdleIsRight ==
    ASSUME NEW table, NEW there
    PROVE  Idle \in Handler /\ Right(Idle, table, there)
  BY DEF Idle, Handler, Right

\* n is what r becomes when it goes one step forth, whatever it found.
Forward(r, n) ==
    \/ n.request = NULL
    \/ /\ n.request = r.request
       /\ n.step = r.step + 1
       /\ n.step \in 1..Len(Plan(r.request.op))
       /\ n.under = r.under
       /\ n.broken = r.broken
       /\ n.chosen \in {r.chosen} \cup Models

\* Forth goes one step forth, and so does what is found on the way.
LEMMA ForthIsForward ==
    ASSUME NEW r \in Handler, r.request # NULL, r.step \in 1..Len(Plan(r.request.op))
    PROVE  /\ Forth(r) \in Handler
           /\ Forward(r, Forth(r))
           /\ Forth(r).request # NULL => Forth(r).texts = r.texts
<1>1. r.request \in Requests /\ r.request.op \in Ops /\ r.step \in Nat
  BY RequestsAsk DEF Handler
<1>2. Len(Plan(r.request.op)) \in Nat
  BY <1>1, Where
<1>3. CASE r.step = Len(Plan(r.request.op))
  BY <1>3, IdleIsRight DEF Forth, Forward, Idle
<1>4. CASE r.step # Len(Plan(r.request.op))
  <2>1. Forth(r) = [r EXCEPT !.step = @ + 1]
    BY <1>4 DEF Forth
  <2>2. r.step + 1 \in 1..Len(Plan(r.request.op))
    BY <1>1, <1>2, <1>4
  <2>3. QED
    BY <1>1, <2>1, <2>2 DEF Forward, Handler
<1>5. QED
  BY <1>3, <1>4

\* One step forth keeps a request right, if at a lookup it found the row with the
\* name, and at a file it could read what it found.
LEMMA ForwardIsRight ==
    ASSUME NEW table, Rows(table), NEW there,
           NEW r \in Handler, r.request # NULL, Right(r, table, there),
           NEW n \in Handler, Forward(r, n),
           LET at == Plan(r.request.op)[r.step] IN
           \/ at \in {"all", "write"}
           \/ /\ at = "find"
              /\ \E i \in NamedIn(table, r.request.name) : n.texts = {table[i].text}
           \/ /\ at \notin {"find"}
              /\ n.request # NULL => n.texts = r.texts
              /\ at = "file" => \A text \in r.texts : Legible(text, there)
              /\ at = "choose" => n.chosen \in Models
    PROVE  Right(n, table, there)
<1> SUFFICES ASSUME n.request # NULL
             PROVE  Right(n, table, there)
  BY DEF Right
<1> DEFINE at == Plan(r.request.op)[r.step]
<1>1. /\ r.request \in Requests /\ r.request.op \in Ops
      /\ r.step \in 1..Len(Plan(r.request.op))
      /\ r.step \in Nat
  BY RequestsAsk DEF Handler, Right
<1>2. /\ n.request = r.request /\ n.step = r.step + 1 /\ n.under = r.under /\ n.broken = r.broken
      /\ n.step \in 1..Len(Plan(r.request.op))
  BY DEF Forward
<1>3. Watched(n, table) /\ Illegible(n, table, there)
  BY <1>2 DEF Right, Watched, Illegible
<1>4. ASSUME FoundToSend(n) PROVE n.texts \subseteq n.under
  <2>1. CASE at = "find"
    BY <1>2, <2>1 DEF Right, Watched
  <2>2. CASE at # "find"
    <3>1. r.request.op \in {"raw", "generate"}
      BY <1>2, <1>4 DEF FoundToSend
    <3>2. at \notin {"all", "write"}
      BY <1>1, <3>1, Where
    <3>3. FoundToSend(r)
      BY <1>1, <1>2, <1>4, <2>2, Where DEF FoundToSend
    <3>4. QED
      BY <1>2, <2>2, <3>2, <3>3 DEF Right
  <2>3. QED
    BY <2>1, <2>2
<1>5. ASSUME NEW i \in n.broken, table[i].name = n.request.name
      PROVE  ~Passed(n)
  <2>1. ~Passed(r) /\ table[i] # NULL /\ ~Legible(table[i].text, there)
    BY <1>2, <1>5 DEF Right, Elsewhere, Illegible
  <2>2. ASSUME Passed(n) PROVE FALSE
    <3>1. r.step = 2 /\ r.request.op \in {"update", "remove"}
      BY <1>1, <1>2, <2>1, <2>2 DEF Passed
    <3>2. at = "file"
      BY <1>1, <3>1, Where
    <3>3. r.texts = {table[i].text}
      BY <1>2, <1>5, <3>1 DEF Right, Elsewhere
    <3>4. QED
      BY <2>1, <3>2, <3>3
  <2>3. QED
    BY <2>2
<1>6. ASSUME NEW i \in n.broken, table[i].name = n.request.name,
             n.request.op \in {"update", "remove"}, n.step = 2
      PROVE  n.texts = {table[i].text}
  <2>1. at = "find"
    BY <1>1, <1>2, <1>6, Where
  <2>2. PICK j \in NamedIn(table, r.request.name) : n.texts = {table[j].text}
    BY <2>1
  <2>3. i \in Ids /\ table[i] # NULL
    BY <1>2, <1>6 DEF Right, Illegible, Handler
  <2>4. i = j
    BY <1>2, <1>6, <2>2, <2>3 DEF NamedIn, Rows
  <2>5. QED
    BY <2>2, <2>4
<1>7. HasChosen(n)
  <2>1. ASSUME n.chosen = NULL PROVE FALSE
    <3>1. r.chosen = NULL /\ at # "choose"
      BY <1>1, <1>2, <2>1, NullIsNoModel, Where DEF Forward
    <3>2. r.request.op = "generate" /\ r.step = 1
      BY <3>1 DEF Right, HasChosen
    <3>3. QED
      BY <1>1, <3>1, <3>2, Where
  <2>2. QED
    BY <2>1 DEF HasChosen
<1>8. QED
  BY <1>2, <1>3, <1>4, <1>5, <1>6, <1>7 DEF Right, Elsewhere

\* Whatever is written to the rows and installed, who watches it stays right.
LEMMA WatchIsRight ==
    ASSUME Rows(rows), NEW hs \in [Handlers -> Handler],
           \A h \in Handlers : Right(hs[h], rows, files),
           NEW table, Rows(table), NEW there
    PROVE  /\ Watch(hs, table, there) \in [Handlers -> Handler]
           /\ \A h \in Handlers : Right(Watch(hs, table, there)[h], table, there)
<1> SUFFICES ASSUME NEW h \in Handlers
             PROVE  /\ Watch(hs, table, there)[h] \in Handler
                    /\ Right(Watch(hs, table, there)[h], table, there)
  BY DEF Watch
<1> DEFINE r == hs[h]
           n == Watch(hs, table, there)[h]
<1>1. CASE r.request = NULL
  BY <1>1, IdleIsRight DEF Watch
<1>2. CASE r.request # NULL
  <2>1. n = [r EXCEPT !.under = @ \cup {table[i].text : i \in NamedIn(table, r.request.name)},
                      !.broken = {i \in @ : table[i] = rows[i] /\ ~Legible(rows[i].text, there)}]
    BY <1>2 DEF Watch
  <2>2. r \in Handler /\ r.request \in Requests /\ r.broken \subseteq Ids
    BY <1>2 DEF Handler
  <2>3. {table[i].text : i \in NamedIn(table, r.request.name)} \subseteq Texts \cup Files
    BY DEF NamedIn, Rows, Row
  <2>4. n \in Handler
    BY <2>1, <2>2, <2>3 DEF Handler
  <2>5. /\ n.request = r.request /\ n.step = r.step /\ n.texts = r.texts
        /\ n.under = r.under \cup {table[i].text : i \in NamedIn(table, r.request.name)}
        /\ n.broken = {i \in r.broken : table[i] = rows[i] /\ ~Legible(rows[i].text, there)}
    BY <2>1, <2>2 DEF Handler
  <2>6. Right(r, rows, files)
    OBVIOUS
  <2>7. Watched(n, table)
    BY <2>5 DEF Watched
  <2>8. FoundToSend(n) => n.texts \subseteq n.under
    BY <1>2, <2>5, <2>6 DEF Right, FoundToSend
  <2>9. Illegible(n, table, there)
    BY <1>2, <2>5, <2>6 DEF Right, Illegible
  <2>10. Elsewhere(n, table)
    BY <1>2, <2>5, <2>6 DEF Right, Elsewhere, Passed
  <2>11. HasChosen(n)
    BY <1>2, <2>1, <2>2, <2>6 DEF Right, HasChosen, Handler
  <2>12. QED
    BY <1>2, <2>4, <2>5, <2>6, <2>7, <2>8, <2>9, <2>10, <2>11 DEF Right
<1>3. QED
  BY <1>1, <1>2

-------------------------------------------------------------------------------
(***************************************************************************)
(* The steps.                                                              *)
(***************************************************************************)
\* What a request that is not idle is, given the invariant.
LEMMA BusyIs ==
    ASSUME IInv, NEW h \in Handlers, Busy(h)
    PROVE  /\ handlers[h] \in Handler
           /\ Asked(h) \in Requests /\ Asked(h).op \in Ops
           /\ handlers[h].request = Asked(h) /\ handlers[h].request # NULL
           /\ Right(handlers[h], rows, files)
           /\ handlers[h].step \in 1..Len(Plan(Asked(h).op))
           /\ Forth(handlers[h]) \in Handler
           /\ Forward(handlers[h], Forth(handlers[h]))
  BY RequestsAsk, ForthIsForward DEF IInv, Busy, Asked, Right, Handler

\* A step that goes on to n in one handler, and only that, keeps the invariant.
LEMMA HandlerStep ==
    ASSUME IInv, NEW h \in Handlers, NEW n \in Handler, Right(n, rows, files),
           handlers' = [handlers EXCEPT ![h] = n],
           UNCHANGED <<rows, files, models>>
    PROVE  IInv'
  BY DEF IInv, Rows, Right, Watched, Illegible, HasChosen, Elsewhere, Legible, NamedIn

\* So does one that writes as well and is watched.
LEMMA WatchedStep ==
    ASSUME IInv, NEW hs \in [Handlers -> Handler],
           \A h \in Handlers : Right(hs[h], rows, files),
           Rows(rows'), files' \subseteq Files, UNCHANGED models,
           handlers' = Watch(hs, rows', files')
    PROVE  IInv'
<1>1. /\ handlers' \in [Handlers -> Handler]
      /\ \A h \in Handlers : Right(handlers'[h], rows', files')
  BY WatchIsRight DEF IInv
<1>2. Rows(rows)'
  BY DEF Rows
<1>3. \A h \in Handlers : Right(handlers[h], rows, files)'
  BY <1>1 DEF Right, Watched, Illegible, HasChosen, Elsewhere, Legible, NamedIn
<1>4. QED
  BY <1>1, <1>2, <1>3 DEF IInv

\* A request begins.
LEMMA BeginKeeps ==
    ASSUME IInv, NEW h \in Handlers, NEW q \in Requests, Begin(h, q)
    PROVE  IInv'
<1> DEFINE n == [Idle EXCEPT !.request = q, !.step = 1,
                       !.chosen = IF q.op = "generate" THEN NULL ELSE q.model,
                       !.under = {rows[i].text : i \in Named(q.name)},
                       !.broken = {i \in Ids : rows[i] # NULL /\ ~Legible(rows[i].text, files)}]
<1>1. q.op \in Ops /\ q.name \in Names /\ q # NULL /\ q.model \in Models
  BY RequestsAsk, RequestsAssumption DEF IsRequest
<1>2. {rows[i].text : i \in Named(q.name)} \subseteq Texts \cup Files
  BY DEF IInv, Rows, Row, Named, NamedIn
<1>3. n \in Handler
  BY <1>1, <1>2 DEF Handler, Idle
<1>4. n.request = q /\ n.step = 1 /\ n.under = {rows[i].text : i \in NamedIn(rows, q.name)}
      /\ n.broken = {i \in Ids : rows[i] # NULL /\ ~Legible(rows[i].text, files)}
  BY DEF Idle, Named
<1>5. 1 \in 1..Len(Plan(q.op))
  BY <1>1, NotEmpty
<1>6. Right(n, rows, files)
  <2>1. Watched(n, rows)
    BY <1>4 DEF Watched
  <2>2. ~FoundToSend(n) /\ ~Passed(n) /\ n.step # 2
    BY <1>4 DEF FoundToSend, Passed
  <2>3. Illegible(n, rows, files) /\ Elsewhere(n, rows)
    BY <1>4, <2>2 DEF Illegible, Elsewhere
  <2>4. HasChosen(n)
    BY <1>1, <1>4, NullIsNoModel DEF HasChosen, Idle
  <2>5. QED
    BY <1>4, <1>5, <2>1, <2>2, <2>3, <2>4 DEF Right
<1>7. QED
  BY <1>3, <1>6, HandlerStep DEF Begin

\* A system prompt is inserted.
LEMMA InsertKeeps ==
    ASSUME IInv, NEW h \in Handlers, Insert(h)
    PROVE  IInv'
<1> DEFINE hs == [handlers EXCEPT ![h] = Forth(@)]
<1>1. Busy(h) /\ Asked(h).op = "create"
  BY BusyIs, Where DEF Insert, At
<1>2. Right(Forth(handlers[h]), rows, files)
  <2>1. handlers[h].step = Len(Plan(Asked(h).op))
    <3>1. handlers[h].step \in 1..Len(Plan("create"))
      BY <1>1, BusyIs
    <3>2. Len(Plan("create")) = 1
      BY Lengths
    <3>3. \A n \in 1..1 : n = 1
      OBVIOUS
    <3>4. QED
      BY <1>1, <3>1, <3>2, <3>3
  <2>2. QED
    BY <2>1, IdleIsRight DEF Forth, Asked
<1>3. hs \in [Handlers -> Handler] /\ \A g \in Handlers : Right(hs[g], rows, files)
  BY <1>1, <1>2, BusyIs DEF IInv
<1>4. Rows(rows')
  <2>1. Asked(h).to \in Names /\ Asked(h).text \in Texts \cup Files
    BY <1>1, BusyIs, RequestsAssumption DEF IsRequest
  <2>2. QED
    BY <2>1, NullAssumption DEF Insert, IInv, Rows, Row, Named, NamedIn
<1>5. QED
  BY <1>3, <1>4, WatchedStep DEF Insert, IInv

\* A system prompt is found.
LEMMA FindKeeps ==
    ASSUME IInv, NEW h \in Handlers, Find(h)
    PROVE  IInv'
<1>1. Busy(h) /\ Plan(Asked(h).op)[handlers[h].step] = "find"
  BY DEF Find, At
<1>2. PICK i \in Named(Asked(h).name) :
         handlers' = [handlers EXCEPT ![h] = [Forth(@) EXCEPT !.texts = {rows[i].text}]]
  BY DEF Find
<1> DEFINE n == [Forth(handlers[h]) EXCEPT !.texts = {rows[i].text}]
<1>3. rows[i].text \in Texts \cup Files /\ i \in NamedIn(rows, handlers[h].request.name)
  BY <1>2 DEF IInv, Rows, Row, Named, NamedIn, Asked
<1>4. n \in Handler /\ Forward(handlers[h], n) /\ n.texts = {rows[i].text}
  BY <1>1, <1>3, BusyIs DEF Handler, Forward
<1>5. Right(n, rows, files)
  BY <1>1, <1>3, <1>4, BusyIs, ForwardIsRight DEF IInv
<1>6. QED
  BY <1>2, <1>4, <1>5, HandlerStep DEF Find

\* All of them are.
LEMMA FindAllKeeps ==
    ASSUME IInv, NEW h \in Handlers, FindAll(h)
    PROVE  IInv'
<1> DEFINE T == {rows[i].text : i \in {j \in Ids : rows[j] # NULL}}
           n == [Forth(handlers[h]) EXCEPT !.texts = T]
<1>1. Busy(h) /\ Plan(Asked(h).op)[handlers[h].step] = "all"
  BY DEF FindAll, At
<1>2. T \subseteq Texts \cup Files
  BY DEF IInv, Rows, Row
<1> HIDE DEF T
<1>3. n \in Handler /\ Forward(handlers[h], n)
  BY <1>1, <1>2, BusyIs DEF Handler, Forward
<1>4. Right(n, rows, files)
  BY <1>1, <1>3, BusyIs, ForwardIsRight DEF IInv
<1>5. handlers' = [handlers EXCEPT ![h] = n] /\ UNCHANGED <<rows, files, models>>
  BY DEF FindAll, T
<1>6. QED
  BY <1>3, <1>4, <1>5, HandlerStep

\* The files are read.
LEMMA ReadFileKeeps ==
    ASSUME IInv, NEW h \in Handlers, ReadFile(h)
    PROVE  IInv'
<1>1. Busy(h) /\ Plan(Asked(h).op)[handlers[h].step] = "file"
  BY DEF ReadFile, At
<1>2. Forth(handlers[h]).request # NULL => Forth(handlers[h]).texts = handlers[h].texts
  BY <1>1, BusyIs, ForthIsForward
<1>3. Right(Forth(handlers[h]), rows, files)
  BY <1>1, <1>2, BusyIs, ForwardIsRight DEF ReadFile, IInv
<1>4. QED
  BY <1>1, <1>3, BusyIs, HandlerStep DEF ReadFile, Advance

\* A row is written.
LEMMA UpdateKeeps ==
    ASSUME IInv, NEW h \in Handlers, Update(h)
    PROVE  IInv'
<1>1. Busy(h) /\ Plan(Asked(h).op)[handlers[h].step] = "write"
  BY DEF Update, At
<1>2. PICK i \in Named(Asked(h).name) :
         LET row == [name |-> Given(Asked(h).to, rows[i].name), text |-> Given(Asked(h).text, rows[i].text)] IN
         /\ rows' = [rows EXCEPT ![i] = row]
         /\ handlers' = Watch([handlers EXCEPT ![h] = [Forth(@) EXCEPT !.texts = {row.text}]], rows', files)
  BY DEF Update
<1> DEFINE row == [name |-> Given(Asked(h).to, rows[i].name), text |-> Given(Asked(h).text, rows[i].text)]
           n == [Forth(handlers[h]) EXCEPT !.texts = {row.text}]
           hs == [handlers EXCEPT ![h] = n]
<1>3. i \in Ids /\ rows[i] \in Row /\ rows[i].name = Asked(h).name
  BY <1>2 DEF IInv, Rows, Named, NamedIn
<1>4. row \in Row
  BY <1>1, <1>3, BusyIs, RequestsAssumption DEF IsRequest, Row, Given
<1>5. n \in Handler /\ Forward(handlers[h], n)
  BY <1>1, <1>4, BusyIs DEF Handler, Forward, Row
<1>6. Right(n, rows, files)
  BY <1>1, <1>5, BusyIs, ForwardIsRight DEF IInv
<1>7. hs \in [Handlers -> Handler] /\ \A g \in Handlers : Right(hs[g], rows, files)
  BY <1>5, <1>6 DEF IInv
<1>8. Rows(rows')
  <2>1. rows' = [rows EXCEPT ![i] = row]
    BY <1>2
  <2>2. \A j \in Ids : rows[j] # NULL /\ rows[j].name = row.name => j = i
    BY <1>3 DEF Update, Named, NamedIn, IInv, Rows
  <2>3. QED
    BY <1>3, <1>4, <2>1, <2>2 DEF IInv, Rows
<1>9. handlers' = Watch(hs, rows', files') /\ UNCHANGED <<files, models>>
  BY <1>2 DEF Update
<1>10. QED
  BY <1>7, <1>8, <1>9, WatchedStep DEF IInv

\* A row is removed.
LEMMA DeleteKeeps ==
    ASSUME IInv, NEW h \in Handlers, Delete(h)
    PROVE  IInv'
<1> DEFINE hs == [handlers EXCEPT ![h] = Forth(@)]
<1>1. Busy(h) /\ Asked(h).op = "remove" /\ handlers[h].step = 5
  BY BusyIs, Where DEF Delete, At
<1>2. Right(Forth(handlers[h]), rows, files)
  BY <1>1, Lengths, IdleIsRight DEF Forth, Asked
<1>3. hs \in [Handlers -> Handler] /\ \A g \in Handlers : Right(hs[g], rows, files)
  BY <1>1, <1>2, BusyIs DEF IInv
<1>4. Rows(rows')
  BY DEF Delete, IInv, Rows, Named, NamedIn
<1>5. QED
  BY <1>3, <1>4, WatchedStep DEF Delete, IInv

\* A model is chosen or read.
LEMMA ModelKeeps ==
    ASSUME IInv, NEW h \in Handlers, Choose(h) \/ ReadModel(h)
    PROVE  IInv'
<1>1. Busy(h) /\ Plan(Asked(h).op)[handlers[h].step] \in {"choose", "model"}
  BY DEF Choose, ReadModel, At
<1>2. Forth(handlers[h]).request # NULL => Forth(handlers[h]).texts = handlers[h].texts
  BY <1>1, BusyIs, ForthIsForward
<1>3. CASE Choose(h)
  <2>1. PICK m \in Models : handlers' = [handlers EXCEPT ![h] = [Forth(@) EXCEPT !.chosen = m]]
    BY <1>3 DEF Choose
  <2> DEFINE n == [Forth(handlers[h]) EXCEPT !.chosen = m]
  <2>2. /\ n \in Handler /\ Forward(handlers[h], n) /\ (n.request # NULL => n.texts = handlers[h].texts)
        /\ n.chosen = m
    BY <1>1, <1>2, BusyIs DEF Handler, Forward
  <2>3. Right(n, rows, files)
    BY <1>1, <2>2, BusyIs, ForwardIsRight DEF IInv
  <2>4. QED
    BY <1>3, <2>1, <2>2, <2>3, HandlerStep DEF Choose
<1>4. CASE ReadModel(h)
  <2> DEFINE n == [Forth(handlers[h]) EXCEPT !.model = models[handlers[h].chosen]]
  <2>1. models[handlers[h].chosen] \in Model \cup {NULL}
    <3>1. handlers[h].chosen \in Models
      <4>1. ~(Asked(h).op = "generate" /\ handlers[h].step = 1)
        BY <1>1, <1>4, BusyIs, Where DEF ReadModel, At
      <4>2. QED
        BY <1>1, <4>1, BusyIs DEF Right, HasChosen, Handler
    <3>2. QED
      BY <3>1 DEF IInv
  <2>2. n \in Handler /\ Forward(handlers[h], n) /\ (n.request # NULL => n.texts = handlers[h].texts)
    BY <1>1, <1>2, <2>1, BusyIs DEF Handler, Forward
  <2>3. Right(n, rows, files)
    <3>1. Plan(Asked(h).op)[handlers[h].step] = "model"
      BY <1>4 DEF ReadModel, At
    <3>2. QED
      BY <1>1, <2>2, <3>1, BusyIs, ForwardIsRight DEF IInv
  <2>4. QED
    BY <1>4, <2>2, <2>3, HandlerStep DEF ReadModel
<1>5. QED
  BY <1>3, <1>4

\* A prompt is resolved, or a model answers.
LEMMA AdvanceKeeps ==
    ASSUME IInv, NEW h \in Handlers,
           ResolvePrompt(h) \/ SubstituteText(h) \/ InvokeRaw(h) \/ Invoke(h)
    PROVE  IInv'
<1>1. /\ Busy(h) /\ Plan(Asked(h).op)[handlers[h].step] \in {"prompt", "invoke"}
      /\ Advance(h) /\ UNCHANGED <<rows, files, models>>
  BY DEF ResolvePrompt, SubstituteText, InvokeRaw, Invoke, At
<1>2. Forth(handlers[h]).request # NULL => Forth(handlers[h]).texts = handlers[h].texts
  BY <1>1, BusyIs, ForthIsForward
<1>3. Right(Forth(handlers[h]), rows, files)
  BY <1>1, <1>2, BusyIs, ForwardIsRight DEF IInv
<1>4. QED
  BY <1>1, <1>3, BusyIs, HandlerStep DEF Advance

\* An error, or the death of the process.
LEMMA FailureKeeps ==
    ASSUME IInv, Crash \/ \E h \in Handlers : Refuse(h)
    PROVE  IInv'
<1>1. ASSUME NEW h \in Handlers, Refuse(h)
      PROVE  IInv'
  BY <1>1, IdleIsRight, HandlerStep DEF Refuse, Answer
<1>2. ASSUME Crash
      PROVE  IInv'
  <2>1. handlers' \in [Handlers -> Handler] /\ \A h \in Handlers : handlers'[h].request = NULL
    BY <1>2, IdleIsRight DEF Crash, Idle
  <2>2. \A h \in Handlers : Right(handlers[h], rows, files)'
    BY <2>1 DEF Right
  <2>3. QED
    BY <1>2, <2>1, <2>2 DEF Crash, IInv, Rows
<1>3. QED
  BY <1>1, <1>2

\* Files and models come and go.
LEMMA OutsideKeeps ==
    ASSUME IInv,
           \/ \E some \in SUBSET Files : Install(some)
           \/ \E m \in Models, row \in ModelRows \cup {NULL} : SetModel(m, row)
    PROVE  IInv'
<1>1. ASSUME NEW some \in SUBSET Files, Install(some)
      PROVE  IInv'
  <2>1. Rows(rows') /\ handlers' = Watch(handlers, rows', files')
    BY <1>1 DEF Install, IInv
  <2>2. QED
    BY <1>1, <2>1, WatchedStep DEF Install, IInv
<1>2. ASSUME NEW m \in Models, NEW row \in ModelRows \cup {NULL}, SetModel(m, row)
      PROVE  IInv'
  <2>1. models' \in [Models -> Model \cup {NULL}]
    BY <1>2, ModelsAssumption DEF SetModel, IInv
  <2>2. UNCHANGED <<rows, files, handlers>>
    BY <1>2 DEF SetModel
  <2>3. QED
    BY <2>1, <2>2 DEF IInv, Rows, Right, Watched, Illegible, HasChosen, Elsewhere, Legible, NamedIn
<1>3. QED
  BY <1>1, <1>2

\* Before the first request there is nothing.
LEMMA InitIsRight == Init => IInv
  BY IdleIsRight DEF Init, IInv, Rows

\* Every step keeps the invariant.
LEMMA NextKeeps == IInv /\ [Next]_vars => IInv'
<1> SUFFICES ASSUME IInv, [Next]_vars
             PROVE  IInv'
  OBVIOUS
<1>1. CASE UNCHANGED vars
  BY <1>1 DEF vars, IInv, Rows, Right, Watched, Illegible, HasChosen, Elsewhere, Legible, NamedIn
<1>2. ASSUME NEW h \in Handlers, Call(h)
      PROVE  IInv'
  BY <1>2, InsertKeeps, FindKeeps, FindAllKeeps, ReadFileKeeps, UpdateKeeps, DeleteKeeps,
     ModelKeeps, AdvanceKeeps, FailureKeeps DEF Call
<1>3. ASSUME NEW h \in Handlers, NEW q \in Requests, Begin(h, q)
      PROVE  IInv'
  BY <1>3, BeginKeeps
<1>4. QED
  BY <1>1, <1>2, <1>3, FailureKeeps, OutsideKeeps DEF Next

\* It is an invariant.
LEMMA Invariance == Spec => []IInv
  BY InitIsRight, NextKeeps, PTL DEF Spec

-------------------------------------------------------------------------------
(***************************************************************************)
(* The theorems.                                                           *)
(***************************************************************************)
\* The tables and the requests in flight have their types, and names of system
\* prompts are unique.
THEOREM TypesHold == Spec => []TypeOK
  BY Invariance, TypesFollow, PTL

\* What is sent to a model under the name of a system prompt had that name at some
\* time since the request began (executeRaw and generatePromptStructure read the
\* row, the file and the model one after the other).
THEOREM SentWasCurrent == Spec => []SentIsCurrent
<1>1. IInv => SentIsCurrent
  <2> SUFFICES ASSUME IInv, NEW h \in Handlers, Busy(h), Asked(h).op \in {"raw", "generate"}, At(h, "invoke")
               PROVE  handlers[h].texts \subseteq handlers[h].under
    BY DEF SentIsCurrent
  <2>1. FoundToSend(handlers[h])
    BY BusyIs, Where DEF At, FoundToSend, Asked
  <2>2. QED
    BY <2>1, BusyIs DEF Right
<1>2. QED
  BY <1>1, Invariance, PTL

\* Who writes a row does not write one that was broken all along.
LEMMA WriterSparesBroken ==
    ASSUME IInv, NEW h \in Handlers, At(h, "write") \/ At(h, "delete"), Update(h) \/ Delete(h),
           NEW i \in handlers[h].broken
    PROVE  rows'[i] = rows[i]
<1>1. Busy(h) /\ handlers[h] \in Handler /\ Right(handlers[h], rows, files)
  BY BusyIs DEF At
<1>2. Passed(handlers[h])
  BY BusyIs, Where DEF At, Passed, Asked
<1>3. i \in Ids /\ rows[i].name # Asked(h).name
  BY <1>1, <1>2 DEF Right, Elsewhere, Handler, Asked, Busy
<1>4. i \notin Named(Asked(h).name)
  BY <1>3 DEF Named, NamedIn
<1>5. QED
  BY <1>3, <1>4 DEF Update, Delete, IInv, Rows

\* What becomes of a handler while others work.
LEMMA OthersKeepStep ==
    ASSUME IInv, NEW h \in Handlers, Busy(h), NEW g \in Handlers, g # h, Update(g) \/ Delete(g) \/ Insert(g)
    PROVE  handlers'[h].step = handlers[h].step
<1>1. ASSUME NEW hs, NEW table, NEW there, handlers' = Watch(hs, table, there), hs[h] = handlers[h]
      PROVE  handlers'[h].step = handlers[h].step
  BY <1>1, BusyIs DEF Watch, Handler
<1>2. CASE Insert(g)
  <2>1. handlers' = Watch([handlers EXCEPT ![g] = Forth(@)], rows', files)
    BY <1>2 DEF Insert
  <2>2. [handlers EXCEPT ![g] = Forth(@)][h] = handlers[h]
    BY DEF IInv
  <2>3. QED
    BY <1>1, <2>1, <2>2
<1>3. CASE Delete(g)
  <2>1. handlers' = Watch([handlers EXCEPT ![g] = Forth(@)], rows', files)
    BY <1>3 DEF Delete
  <2>2. [handlers EXCEPT ![g] = Forth(@)][h] = handlers[h]
    BY DEF IInv
  <2>3. QED
    BY <1>1, <2>1, <2>2
<1>4. CASE Update(g)
  <2>1. PICK T : handlers' = Watch([handlers EXCEPT ![g] = [Forth(@) EXCEPT !.texts = T]], rows', files)
    BY <1>4 DEF Update
  <2>2. [handlers EXCEPT ![g] = [Forth(@) EXCEPT !.texts = T]][h] = handlers[h]
    BY DEF IInv
  <2>3. QED
    BY <1>1, <2>1, <2>2
<1>5. QED
  BY <1>2, <1>3, <1>4

\* A system prompt whose file cannot be read is neither changed nor removed by a
\* request that began after it became so and while it stays so (update and remove
\* of SystemPromptService look it up by findOne, which reads the file).
THEOREM BrokenIsOutOfReach == Spec => BrokenStays
<1> DEFINE Spared ==
      \A h \in Handlers :
          (At(h, "write") \/ At(h, "delete")) /\ handlers'[h].step # handlers[h].step =>
              \A i \in handlers[h].broken : rows'[i] = rows[i]
<1>1. IInv /\ [Next]_vars => Spared
  <2> SUFFICES ASSUME IInv, Next, NEW h \in Handlers, At(h, "write") \/ At(h, "delete"),
                      handlers'[h].step # handlers[h].step, rows' # rows,
                      NEW i \in handlers[h].broken
               PROVE  rows'[i] = rows[i]
    BY DEF vars
  <2>1. PICK g \in Handlers : Insert(g) \/ Update(g) \/ Delete(g)
    BY DEF Next, Call, Begin, Find, FindAll, ReadFile, Choose, ReadModel, ResolvePrompt, SubstituteText,
           InvokeRaw, Invoke, Refuse, Crash, Install, SetModel
  <2>2. g = h
    BY <2>1, OthersKeepStep DEF At
  <2>3. ~Insert(h)
    <3>1. Busy(h) /\ Asked(h).op # "create"
      BY BusyIs, Where DEF At
    <3>2. QED
      BY <3>1, BusyIs, Where DEF Insert, At
  <2>4. QED
    BY <2>1, <2>2, <2>3, WriterSparesBroken
<1>2. QED
  BY <1>1, Invariance, PTL DEF Spec, BrokenStays
===============================================================================
