--------------------------- MODULE ProjectRowsProofs ---------------------------
(***************************************************************************)
(* Proofs about ProjectRows, for every number of tenants, projects, rows,  *)
(* names, requests and requests in flight.                                 *)
(***************************************************************************)
EXTENDS ProjectRows, TLAPS

(***************************************************************************)
(* The inductive invariant.                                                *)
(*                                                                         *)
(* A request holds ids, of the row it found, of the region it found and of *)
(* the rows it deletes.  The rows may go at any time, and the slug may     *)
(* pass to another tenant, but an id is never given out again: what is     *)
(* still there under the id is of the kind and the project it was.         *)
(***************************************************************************)
\* The project of a row, and the region it refers to, are there.
Rooted(row, table, own) ==
    /\ own[row.project] # NULL
    /\ row.region # NULL =>
          /\ table[row.region] # NULL
          /\ table[row.region].kind = "region"
          /\ table[row.region].project = row.project
    /\ row.kind = "culturalData" => row.region # NULL

\* No two rows have the same name.
Unique(table) ==
    \A i, j \in Ids :
        /\ table[i] # NULL /\ table[j] # NULL
        /\ table[i].kind = table[j].kind
        /\ table[i].project = table[j].project
        /\ table[i].name = table[j].name
        => i = j

TablesOK(table, own, ids) ==
    /\ table \in [Ids -> Row \cup {NULL}]
    /\ ids \subseteq Ids
    /\ \A i \in Ids : table[i] # NULL => i \in ids /\ Rooted(table[i], table, own)
    /\ Unique(table)

\* Which requests are where.
Asks(r) ==
    /\ r.request \in Requests
    /\ r.pc = "find" => r.request.op \in {"update", "remove"}
    /\ r.pc = "name" => r.request.op \in {"create", "update"} /\ r.request.kind = "ragDocument"
    /\ r.pc = "region" => r.request.op \in {"create", "update"}
    /\ r.pc = "write" =>
          /\ r.request.op \in {"create", "update", "remove"}
          /\ r.request.op = "remove" => r.request.kind # "region"
          /\ r.request.op = "create" /\ r.request.kind = "culturalData" => r.region # NULL
    /\ r.pc \in {"wipe", "wiped"} => r.request.op = "remove" /\ r.request.kind = "region"
    /\ r.pc \in {"list", "set"} => r.request.op = "list"
    /\ r.pc = "forget" => r.request.kind \in Invalidated
    /\ r.pc = "log" => r.entry # NULL
    /\ r.wiped # {} => r.pc = "wiped"
    /\ r.pc \in {"name", "region", "write", "wipe", "wiped"} /\ r.request.op # "create" => r.id # NULL

\* What is still there of the rows a request holds the ids of.
Knows(r, table, ids) ==
    /\ r.id # NULL =>
          /\ r.id \in ids
          /\ table[r.id] # NULL =>
                table[r.id].kind = r.request.kind /\ table[r.id].project = r.request.project
    /\ r.region # NULL =>
          /\ r.region \in ids
          /\ table[r.region] # NULL =>
                table[r.region].kind = "region" /\ table[r.region].project = r.request.project
    /\ \A i \in r.wiped :
          /\ i \in ids
          /\ table[i] # NULL => table[i].kind = "culturalData" /\ table[i].region = r.id
    /\ r.entry # NULL =>
          /\ r.entry.id \in ids
          /\ table[r.entry.id] # NULL =>
                r.entry.action # "remove" /\ table[r.entry.id].project = r.entry.project

\* The tenant the guard let in has the project as long as the row is to be found or is there.
Admitted(r, table, own) ==
    \/ r.moved = TRUE
    \/ /\ r.pc = "find" => own[r.request.project] = r.request.tenant
       /\ r.id # NULL => (table[r.id] # NULL => own[r.request.project] = r.request.tenant)

Right(r, table, own, ids) ==
    r.pc # "idle" => Asks(r) /\ Knows(r, table, ids) /\ Admitted(r, table, own)

IInv ==
    /\ owner \in [Projects -> Tenants \cup {NULL}]
    /\ TablesOK(rows, owner, used)
    /\ log \in Entry \cup {NULL}
    /\ LogIsTrue
    /\ lists \in [Projects -> [Cached -> Cache \cup {NULL}]]
    /\ handlers \in [Handlers -> Handler]
    /\ \A h \in Handlers : Right(handlers[h], rows, owner, used)

\* It implies the type invariant.
LEMMA TypesFollow == IInv => TypeOK
<1> SUFFICES ASSUME IInv
             PROVE  Tables
  BY DEF IInv, TypeOK, TablesOK
<1> SUFFICES ASSUME NEW i \in Ids, rows[i] # NULL
             PROVE  /\ owner[rows[i].project] # NULL
                    /\ Named(rows[i].project, rows[i].kind, rows[i].name) = {i}
                    /\ rows[i].region # NULL => rows[rows[i].region] # NULL
                    /\ rows[i].kind = "culturalData" => rows[i].region # NULL
  BY DEF Tables
<1>1. Rooted(rows[i], rows, owner)
  BY DEF IInv, TablesOK
<1>2. Named(rows[i].project, rows[i].kind, rows[i].name) = {i}
  BY DEF IInv, TablesOK, Unique, Named, Of
<1>3. QED
  BY <1>1, <1>2 DEF Rooted

\* ... and that regions stay in their project.
LEMMA RegionsFollow == IInv => RegionsStayInProject
  BY DEF IInv, TablesOK, Rooted, RegionsStayInProject

-------------------------------------------------------------------------------
(***************************************************************************)
(* Requests.                                                               *)
(***************************************************************************)
\* What a request may ask for.
LEMMA RequestsAsk ==
    ASSUME NEW q \in Requests
    PROVE  /\ IsRequest(q)
           /\ q # NULL
           /\ q.tenant \in Tenants /\ q.project \in Projects /\ q.kind \in Kinds
           /\ q.op \in {"create", "update", "remove", "list"}
           /\ q.op = "list" => q.kind \in Cached
           /\ q.op \in {"create", "update"} => q.name \in Names
           /\ q.kind = "culturalData" /\ q.op = "create" => q.region \in Names
           /\ q.region \in Names \cup {NULL, "asis"}
  BY RequestsAssumption, NullAssumption DEF IsRequest

\* An idle handler.
LEMMA IdleIsRight ==
    ASSUME NEW table, NEW own, NEW ids
    PROVE  Idle \in Handler /\ Right(Idle, table, own, ids)
  BY DEF Idle, Handler, Right, List

\* What a request in flight is, given the invariant.
LEMMA BusyIs ==
    ASSUME IInv, NEW h \in Handlers, handlers[h].pc # "idle"
    PROVE  /\ handlers[h] \in Handler /\ Asked(h) \in Requests /\ handlers[h].request = Asked(h)
           /\ Asks(handlers[h]) /\ Knows(handlers[h], rows, used) /\ Admitted(handlers[h], rows, owner)
  BY DEF IInv, Right, Asks, Asked

\* A step of one handler that writes no table keeps the invariant, when the
\* handler is right after it.
LEMMA HandlerStep ==
    ASSUME IInv, NEW h \in Handlers, NEW n \in Handler, Right(n, rows, owner, used),
           handlers' = [handlers EXCEPT ![h] = n],
           UNCHANGED <<owner, rows, used>>,
           log' = NULL, lists' \in [Projects -> [Cached -> Cache \cup {NULL}]]
    PROVE  IInv'
<1>1. handlers' \in [Handlers -> Handler]
  BY DEF IInv
<1>2. \A g \in Handlers : Right(handlers'[g], rows, owner, used)
  BY DEF IInv
<1>3. \A g \in Handlers : Right(handlers[g], rows, owner, used)'
  BY <1>2 DEF Right, Knows, Admitted
<1>4. TablesOK(rows, owner, used)'
  BY DEF IInv, TablesOK, Rooted, Unique
<1>5. LogIsTrue'
  BY DEF LogIsTrue
<1>6. QED
  BY <1>1, <1>3, <1>4, <1>5 DEF IInv

-------------------------------------------------------------------------------
(***************************************************************************)
(* Steps that write no table.                                              *)
(***************************************************************************)
\* The guard lets a request in.
LEMMA GuardKeeps ==
    ASSUME IInv, NEW h \in Handlers, NEW q \in Requests, Guard(h, q)
    PROVE  IInv'
<1> DEFINE n == [Idle EXCEPT !.pc = FirstCall(q), !.request = q]
<1>1. FirstCall(q) \in {"list", "find", "name", "region", "write"}
  BY DEF FirstCall
<1>2. n \in Handler
  BY <1>1 DEF Handler, Idle, List
<1>3. /\ n.pc = FirstCall(q) /\ n.request = q /\ n.id = NULL /\ n.region = NULL
      /\ n.wiped = {} /\ n.entry = NULL
  BY DEF Idle
<1>4. Asks(n)
  <2>1. /\ FirstCall(q) = "find" => q.op \in {"update", "remove"}
        /\ FirstCall(q) = "name" => q.op = "create" /\ q.kind = "ragDocument"
        /\ FirstCall(q) = "region" => q.op = "create"
        /\ FirstCall(q) = "list" => q.op = "list"
        /\ FirstCall(q) = "write" => q.op = "create" /\ q.kind # "culturalData"
    BY RequestsAsk DEF FirstCall
  <2>2. QED
    BY <1>1, <1>3, <2>1 DEF Asks
<1>5. Knows(n, rows, used)
  BY <1>3 DEF Knows
<1>6. Admitted(n, rows, owner)
  BY <1>3 DEF Admitted, Guard
<1>7. Right(n, rows, owner, used)
  BY <1>4, <1>5, <1>6 DEF Right
<1>8. QED
  BY <1>2, <1>7, HandlerStep DEF Guard, IInv

\* findOne finds a row of the kind in the project.
LEMMA FoundIs ==
    ASSUME IInv, NEW q \in Requests, NEW i \in Found(q)
    PROVE  i \in Ids /\ i \in used /\ i # NULL
           /\ rows[i] # NULL /\ rows[i].kind = q.kind /\ rows[i].project = q.project
<1>1. i \in Of(q.project, q.kind)
  BY DEF Found, Named
<1>2. QED
  BY <1>1, NullAssumption DEF Of, IInv, TablesOK

\* The row is found.
LEMMA FindKeeps ==
    ASSUME IInv, NEW h \in Handlers, Find(h)
    PROVE  IInv'
<1> DEFINE q == Asked(h)
           r == handlers[h]
<1>1. PICK i \in Found(q) : handlers' = [handlers EXCEPT ![h].pc = AfterFind(q, i), ![h].id = i]
  BY DEF Find
<1> DEFINE n == [r EXCEPT !.pc = AfterFind(q, i), !.id = i]
<1>2. r.pc = "find" /\ r.pc # "idle"
  BY DEF Find, At
<1>3. r \in Handler /\ q \in Requests /\ r.request = q /\ Asks(r) /\ Knows(r, rows, used) /\ Admitted(r, rows, owner)
  BY <1>2, BusyIs
<1>4. i \in Ids /\ i \in used /\ i # NULL /\ rows[i] # NULL /\ rows[i].kind = q.kind /\ rows[i].project = q.project
  BY <1>1, <1>3, FoundIs
<1>5. q.op \in {"update", "remove"}
  BY <1>2, <1>3 DEF Asks
<1>6. /\ AfterFind(q, i) \in {"wipe", "region", "name", "write"}
      /\ AfterFind(q, i) = "wipe" => q.op = "remove" /\ q.kind = "region"
      /\ AfterFind(q, i) = "region" => q.op = "update"
      /\ AfterFind(q, i) = "name" => q.op = "update" /\ q.kind = "ragDocument"
      /\ AfterFind(q, i) = "write" /\ q.op = "remove" => q.kind # "region"
  BY DEF AfterFind
<1> HIDE DEF q
<1>7. /\ n \in Handler /\ n.pc = AfterFind(q, i) /\ n.id = i
      /\ n.request = q /\ n.region = r.region /\ n.wiped = r.wiped /\ n.entry = r.entry /\ n.moved = r.moved
  BY <1>3, <1>4, <1>6 DEF Handler
<1>8. Asks(n)
  <2>1. n.wiped = {}
    BY <1>2, <1>3, <1>7 DEF Asks
  <2>2. QED
    BY <1>3, <1>4, <1>5, <1>6, <1>7, <2>1 DEF Asks
<1>9. Knows(n, rows, used)
  <2>1. \A j \in n.wiped : FALSE
    BY <1>2, <1>3, <1>7 DEF Asks
  <2>2. QED
    BY <1>3, <1>4, <1>7, <2>1 DEF Knows
<1>10. Admitted(n, rows, owner)
  BY <1>2, <1>3, <1>7 DEF Admitted
<1>11. handlers' = [handlers EXCEPT ![h] = n]
  BY <1>1 DEF q, IInv
<1>12. QED
  BY <1>7, <1>8, <1>9, <1>10, <1>11, HandlerStep DEF Find, IInv, Right

\* The name is free, or the region is found.
LEMMA LookupKeeps ==
    ASSUME IInv, NEW h \in Handlers, CheckName(h) \/ FindRegion(h)
    PROVE  IInv'
<1> DEFINE r == handlers[h]
<1>1. r.pc \in {"name", "region"} /\ r.pc # "idle"
  BY DEF CheckName, FindRegion, At
<1>2. /\ r \in Handler /\ r.request \in Requests /\ r.request = Asked(h)
      /\ Asks(r) /\ Knows(r, rows, used) /\ Admitted(r, rows, owner)
  BY <1>1, BusyIs
<1>3. r.wiped = {}
  BY <1>1, <1>2 DEF Asks
<1>4. CASE CheckName(h)
  <2> DEFINE n == [r EXCEPT !.pc = "write"]
  <2>1. /\ n \in Handler /\ n.pc = "write" /\ n.id = r.id /\ n.request = r.request /\ n.region = r.region
        /\ n.wiped = r.wiped /\ n.entry = r.entry /\ n.moved = r.moved
    BY <1>2 DEF Handler
  <2>2. r.pc = "name"
    BY <1>4 DEF CheckName, At
  <2>3. Asks(n)
    BY <1>2, <1>3, <2>1, <2>2 DEF Asks
  <2>4. Knows(n, rows, used) /\ Admitted(n, rows, owner)
    BY <1>1, <1>2, <2>1 DEF Knows, Admitted
  <2>5. handlers' = [handlers EXCEPT ![h] = n]
    BY <1>4 DEF CheckName, IInv
  <2>6. QED
    BY <1>4, <2>1, <2>3, <2>4, <2>5, HandlerStep DEF CheckName, IInv, Right
<1>5. CASE FindRegion(h)
  <2>1. PICK i \in RegionsCalled(Asked(h)) :
           handlers' = [handlers EXCEPT ![h].pc = "write", ![h].region = i]
    BY <1>5 DEF FindRegion
  <2> DEFINE n == [r EXCEPT !.pc = "write", !.region = i]
  <2>2. /\ i \in Ids /\ i \in used /\ i # NULL
        /\ rows[i].kind = "region" /\ rows[i].project = r.request.project
    BY <1>2, <2>1, NullAssumption DEF RegionsCalled, Named, Of, IInv, TablesOK
  <2>3. /\ n \in Handler /\ n.pc = "write" /\ n.id = r.id /\ n.request = r.request /\ n.region = i
        /\ n.wiped = r.wiped /\ n.entry = r.entry /\ n.moved = r.moved
    BY <1>2, <2>2 DEF Handler
  <2>4. r.pc = "region"
    BY <1>5 DEF FindRegion, At
  <2>5. Asks(n)
    BY <1>2, <1>3, <2>2, <2>3, <2>4 DEF Asks
  <2>6. Knows(n, rows, used) /\ Admitted(n, rows, owner)
    BY <1>1, <1>2, <2>2, <2>3 DEF Knows, Admitted
  <2>7. handlers' = [handlers EXCEPT ![h] = n]
    BY <2>1 DEF IInv
  <2>8. QED
    BY <1>5, <2>3, <2>5, <2>6, <2>7, HandlerStep DEF FindRegion, IInv, Right
<1>6. QED
  BY <1>4, <1>5

\* Cultural data of a region is deleted in a transaction.
LEMMA WipeKeeps ==
    ASSUME IInv, NEW h \in Handlers, Wipe(h)
    PROVE  IInv'
<1> DEFINE r == handlers[h]
           n == [r EXCEPT !.pc = "wiped", !.wiped = DataOf(r.id)]
<1>1. r.pc = "wipe"
  BY DEF Wipe, At
<1>2. /\ r \in Handler /\ r.request \in Requests /\ r.request = Asked(h)
      /\ Asks(r) /\ Knows(r, rows, used) /\ Admitted(r, rows, owner)
  BY <1>1, BusyIs
<1>3. \A i \in DataOf(r.id) :
         i \in Ids /\ i \in used /\ rows[i].kind = "culturalData" /\ rows[i].region = r.id
  BY DEF DataOf, IInv, TablesOK
<1>4. /\ n \in Handler /\ n.pc = "wiped" /\ n.id = r.id /\ n.request = r.request /\ n.region = r.region
      /\ n.wiped = DataOf(r.id) /\ n.entry = r.entry /\ n.moved = r.moved
  BY <1>2, <1>3 DEF Handler
<1>5. Asks(n)
  BY <1>1, <1>2, <1>4 DEF Asks
<1>6. Knows(n, rows, used) /\ Admitted(n, rows, owner)
  BY <1>1, <1>2, <1>3, <1>4 DEF Knows, Admitted
<1>7. handlers' = [handlers EXCEPT ![h] = n]
  BY DEF Wipe, IInv
<1>8. QED
  BY <1>4, <1>5, <1>6, <1>7, HandlerStep DEF Wipe, IInv, Right

\* A list is read from the table.
LEMMA ReadListKeeps ==
    ASSUME IInv, NEW h \in Handlers, ReadList(h)
    PROVE  IInv'
<1> DEFINE r == handlers[h]
           L == ListOf(Asked(h).project, Asked(h).kind)
           n == [r EXCEPT !.pc = "set", !.seen = L]
<1>1. r.pc = "list"
  BY DEF ReadList, At
<1>2. /\ r \in Handler /\ r.request \in Requests /\ r.request = Asked(h)
      /\ Asks(r) /\ Knows(r, rows, used) /\ Admitted(r, rows, owner)
  BY <1>1, BusyIs
<1>3. L \in List
  BY DEF ListOf, Of, List, IInv, TablesOK, Row
<1> HIDE DEF L
<1>4. /\ n \in Handler /\ n.pc = "set" /\ n.id = r.id /\ n.request = r.request /\ n.region = r.region
      /\ n.wiped = r.wiped /\ n.entry = r.entry /\ n.moved = r.moved
  BY <1>2, <1>3 DEF Handler
<1>5. Asks(n)
  BY <1>1, <1>2, <1>4 DEF Asks
<1>6. Knows(n, rows, used) /\ Admitted(n, rows, owner)
  BY <1>1, <1>2, <1>4 DEF Knows, Admitted
<1>7. handlers' = [handlers EXCEPT ![h] = n]
  BY DEF ReadList, IInv, L
<1>8. QED
  BY <1>4, <1>5, <1>6, <1>7, HandlerStep DEF ReadList, IInv, Right

\* A list is put in the cache.
LEMMA SetListKeeps ==
    ASSUME IInv, NEW h \in Handlers, SetList(h)
    PROVE  IInv'
<1>1. handlers[h].pc = "set"
  BY DEF SetList, At
<1>2. handlers[h] \in Handler /\ Asked(h) \in Requests /\ Asked(h).op = "list"
  BY <1>1, BusyIs DEF Asks
<1>3. Asked(h).project \in Projects /\ Asked(h).kind \in Cached
  BY <1>2, RequestsAsk
<1> DEFINE c == [list |-> handlers[h].seen, late |-> handlers[h].late]
<1>4. c \in Cache
  BY <1>2 DEF Cache, Handler
<1> HIDE DEF c
<1>5. lists' = [lists EXCEPT ![Asked(h).project][Asked(h).kind] = c]
  BY DEF SetList, c
<1>6. lists' \in [Projects -> [Cached -> Cache \cup {NULL}]]
  BY <1>3, <1>4, <1>5 DEF IInv
<1>7. QED
  BY <1>6, IdleIsRight, HandlerStep DEF SetList, Answer

\* A list is forgotten.
LEMMA ForgetKeeps ==
    ASSUME IInv, NEW h \in Handlers, Forget(h)
    PROVE  IInv'
<1> DEFINE r == handlers[h]
           n == IF r.entry = NULL THEN Idle ELSE [r EXCEPT !.pc = "log"]
<1>1. r.pc = "forget"
  BY DEF Forget, At
<1>2. /\ r \in Handler /\ r.request \in Requests /\ r.request = Asked(h)
      /\ Asks(r) /\ Knows(r, rows, used) /\ Admitted(r, rows, owner)
  BY <1>1, BusyIs
<1>3. lists' \in [Projects -> [Cached -> Cache \cup {NULL}]]
  <2>1. Asked(h).project \in Projects /\ Asked(h).kind \in Cached
    BY <1>1, <1>2, RequestsAsk DEF Asks, Cached
  <2>2. QED
    BY <2>1 DEF Forget, IInv
<1>4. n \in Handler /\ Right(n, rows, owner, used)
  <2>1. CASE r.entry = NULL
    BY <2>1, IdleIsRight
  <2>2. CASE r.entry # NULL
    <3>1. /\ n \in Handler /\ n.pc = "log" /\ n.id = r.id /\ n.request = r.request /\ n.region = r.region
          /\ n.wiped = r.wiped /\ n.entry = r.entry /\ n.moved = r.moved
      BY <1>2, <2>2 DEF Handler
    <3>2. Asks(n)
      BY <1>1, <1>2, <2>2, <3>1 DEF Asks
    <3>3. Knows(n, rows, used) /\ Admitted(n, rows, owner)
      BY <1>1, <1>2, <3>1 DEF Knows, Admitted
    <3>4. QED
      BY <3>1, <3>2, <3>3 DEF Right
  <2>3. QED
    BY <2>1, <2>2
<1>5. handlers' = [handlers EXCEPT ![h] = n]
  BY DEF Forget, IInv
<1>6. QED
  BY <1>3, <1>4, <1>5, HandlerStep DEF Forget

\* The entry of the log is written.
LEMMA LogKeeps ==
    ASSUME IInv, NEW h \in Handlers, Log(h)
    PROVE  IInv'
<1> DEFINE r == handlers[h]
<1>1. r.pc = "log"
  BY DEF Log, At
<1>2. r \in Handler /\ Asks(r) /\ Knows(r, rows, used)
  BY <1>1, BusyIs
<1>3. log' = r.entry /\ r.entry # NULL /\ r.entry \in Entry
  BY <1>1, <1>2 DEF Log, Asks, Handler
<1>4. LogIsTrue'
  BY <1>2, <1>3 DEF Log, LogIsTrue, Knows
<1>5. /\ handlers' \in [Handlers -> Handler]
      /\ \A g \in Handlers : Right(handlers'[g], rows, owner, used)
  BY IdleIsRight DEF Log, Answer, IInv
<1>6. \A g \in Handlers : Right(handlers[g], rows, owner, used)'
  BY <1>5 DEF Log, Right, Knows, Admitted
<1>7. TablesOK(rows, owner, used)'
  BY DEF Log, IInv, TablesOK, Rooted, Unique
<1>8. QED
  BY <1>3, <1>4, <1>5, <1>6, <1>7 DEF Log, IInv

\* A request is refused, or the process dies.
LEMMA FailureKeeps ==
    ASSUME IInv, Crash \/ \E h \in Handlers : Refuse(h)
    PROVE  IInv'
<1>1. ASSUME NEW h \in Handlers, Refuse(h)
      PROVE  IInv'
  BY <1>1, IdleIsRight, HandlerStep DEF Refuse, Answer, IInv
<1>2. ASSUME Crash
      PROVE  IInv'
  <2>1. handlers' \in [Handlers -> Handler] /\ \A h \in Handlers : handlers'[h].pc = "idle"
    BY <1>2, IdleIsRight DEF Crash, Idle
  <2>2. \A h \in Handlers : Right(handlers[h], rows, owner, used)'
    BY <2>1 DEF Right
  <2>3. TablesOK(rows, owner, used)'
    BY <1>2 DEF Crash, IInv, TablesOK, Rooted, Unique
  <2>4. LogIsTrue'
    BY <1>2 DEF Crash, LogIsTrue
  <2>5. QED
    BY <1>2, <2>1, <2>2, <2>3, <2>4 DEF Crash, IInv
<1>3. QED
  BY <1>1, <1>2

-------------------------------------------------------------------------------
(***************************************************************************)
(* Steps that write a table.                                               *)
(***************************************************************************)
\* What writers do to rows whose ids were given out: they may go, and while one is
\* there it keeps its kind and its project, and the project keeps its tenant.
Evolves(table, own, ids) ==
    /\ used \subseteq ids
    /\ \A i \in used : table[i] # NULL =>
          /\ rows[i] # NULL
          /\ table[i].kind = rows[i].kind
          /\ table[i].project = rows[i].project
          /\ rows[i].kind = "culturalData" => table[i].region = rows[i].region
          /\ own[rows[i].project] = owner[rows[i].project]

\* That is all a request relies on.
LEMMA OthersStay ==
    ASSUME NEW r, Right(r, rows, owner, used),
           NEW table, NEW own, NEW ids, Evolves(table, own, ids),
           r.pc = "find" => r.moved = TRUE \/ own[r.request.project] = owner[r.request.project]
    PROVE  Right(r, table, own, ids)
<1> SUFFICES ASSUME r.pc # "idle"
             PROVE  Right(r, table, own, ids)
  BY DEF Right
<1>1. Asks(r) /\ Knows(r, rows, used) /\ Admitted(r, rows, owner)
  BY DEF Right
<1>2. r.id # NULL =>
          /\ r.id \in ids
          /\ table[r.id] # NULL =>
                table[r.id].kind = r.request.kind /\ table[r.id].project = r.request.project
  BY <1>1 DEF Knows, Evolves
<1>3. r.region # NULL =>
          /\ r.region \in ids
          /\ table[r.region] # NULL =>
                table[r.region].kind = "region" /\ table[r.region].project = r.request.project
  BY <1>1 DEF Knows, Evolves
<1>4. \A i \in r.wiped :
          /\ i \in ids
          /\ table[i] # NULL => table[i].kind = "culturalData" /\ table[i].region = r.id
  BY <1>1 DEF Knows, Evolves
<1>5. r.entry # NULL =>
          /\ r.entry.id \in ids
          /\ table[r.entry.id] # NULL =>
                r.entry.action # "remove" /\ table[r.entry.id].project = r.entry.project
  BY <1>1 DEF Knows, Evolves
<1>6. Knows(r, table, ids)
  BY <1>2, <1>3, <1>4, <1>5 DEF Knows
<1>7. Admitted(r, table, own)
  BY <1>1 DEF Knows, Evolves, Admitted
<1>8. QED
  BY <1>1, <1>6, <1>7 DEF Right

\* late is for the history only.
LEMMA LateIsNothing ==
    ASSUME NEW r \in Handler, NEW late \in BOOLEAN, NEW table, NEW own, NEW ids,
           Right(r, table, own, ids)
    PROVE  /\ [r EXCEPT !.late = late] \in Handler
           /\ Right([r EXCEPT !.late = late], table, own, ids)
<1> DEFINE n == [r EXCEPT !.late = late]
<1>1. /\ n \in Handler /\ n.pc = r.pc /\ n.id = r.id /\ n.request = r.request /\ n.region = r.region
      /\ n.wiped = r.wiped /\ n.entry = r.entry /\ n.moved = r.moved
  BY DEF Handler
<1>2. QED
  BY <1>1 DEF Right, Asks, Knows, Admitted

\* A write keeps the invariant.
LEMMA WriteStep ==
    ASSUME IInv, NEW h \in Handlers, NEW n \in Handler, NEW p,
           TablesOK(rows', owner, used'), Evolves(rows', owner, used'),
           Right(n, rows', owner, used'),
           handlers' = Overtake([handlers EXCEPT ![h] = n], p),
           log' = NULL, UNCHANGED <<owner, lists>>
    PROVE  IInv'
<1> DEFINE hs == [handlers EXCEPT ![h] = n]
<1>1. \A g \in Handlers : hs[g] \in Handler /\ Right(hs[g], rows', owner, used')
  BY OthersStay DEF IInv
<1> HIDE DEF hs
<1>2. ASSUME NEW g \in Handlers
      PROVE  handlers'[g] \in Handler /\ Right(handlers'[g], rows', owner, used')
  <2>1. handlers'[g] = hs[g] \/ handlers'[g] = [hs[g] EXCEPT !.late = TRUE]
    BY DEF Overtake, hs
  <2>2. hs[g] \in Handler /\ Right(hs[g], rows', owner, used')
    BY <1>1
  <2>3. [hs[g] EXCEPT !.late = TRUE] \in Handler /\ Right([hs[g] EXCEPT !.late = TRUE], rows', owner, used')
    BY <2>2, LateIsNothing
  <2>4. QED
    BY <2>1, <2>2, <2>3
<1>3. handlers' \in [Handlers -> Handler]
  BY <1>2 DEF Overtake
<1>4. \A g \in Handlers : Right(handlers[g], rows, owner, used)'
  BY <1>2 DEF Right, Knows, Admitted
<1>5. TablesOK(rows, owner, used)'
  BY DEF TablesOK, Rooted, Unique
<1>6. LogIsTrue'
  BY DEF LogIsTrue
<1>7. QED
  BY <1>3, <1>4, <1>5, <1>6 DEF IInv

\* Who has written is right.
LEMMA AfterWriteIsRight ==
    ASSUME IInv, NEW h \in Handlers, handlers[h].pc \in {"write", "wiped"},
           NEW i \in used', used' \subseteq Ids,
           IF Asked(h).op = "remove" THEN rows'[i] = NULL ELSE rows'[i].project = Asked(h).project
    PROVE  /\ AfterWrite(h, i, Asked(h).kind \in Invalidated) \in Handler
           /\ Right(AfterWrite(h, i, Asked(h).kind \in Invalidated), rows', owner, used')
<1> DEFINE n == AfterWrite(h, i, Asked(h).kind \in Invalidated)
           q == Asked(h)
<1>1. q \in Requests /\ q.op \in {"create", "update", "remove"} /\ q.project \in Projects
  <2>1. q \in Requests /\ Asks(handlers[h]) /\ handlers[h].request = q
    BY BusyIs
  <2>2. QED
    BY <2>1, RequestsAsk DEF Asks
<1>2. Telling(h, i) \in Entry /\ Telling(h, i) # NULL
      /\ Telling(h, i).id = i /\ Telling(h, i).action = q.op /\ Telling(h, i).project = q.project
  BY <1>1, NullIsNoRow DEF Telling, Entry
<1>3. Calls(h, "wiped", "remove") => q.kind = "region"
  BY BusyIs DEF Calls, At, Asks
<1>4. /\ n.request = q /\ n.pc = (IF q.kind \in Invalidated THEN "forget" ELSE "log")
      /\ n.entry = (IF Calls(h, "wiped", "remove") THEN NULL ELSE Telling(h, i))
      /\ n.id = NULL /\ n.region = NULL /\ n.wiped = {}
  BY DEF AfterWrite, Idle
<1>5. n \in Handler
  BY <1>1, <1>2 DEF AfterWrite, Idle, Handler, List
<1> HIDE DEF n, q
<1>6. Asks(n)
  <2>1. n.pc \in {"forget", "log"}
    BY <1>4
  <2>2. n.pc = "forget" => n.request.kind \in Invalidated
    BY <1>4
  <2>3. n.pc = "log" => n.entry # NULL
    BY <1>2, <1>3, <1>4 DEF Invalidated
  <2>4. QED
    BY <1>1, <1>4, <2>1, <2>2, <2>3 DEF Asks
<1>7. Knows(n, rows', used')
  BY <1>2, <1>4 DEF Knows, q
<1>8. Admitted(n, rows', owner)
  BY <1>4 DEF Admitted
<1>9. Right(n, rows', owner, used')
  BY <1>6, <1>7, <1>8 DEF Right
<1>10. QED
  BY <1>5, <1>9 DEF n

\* A row is inserted.
LEMMA CreateKeeps ==
    ASSUME IInv, NEW h \in Handlers, Create(h)
    PROVE  IInv'
<1> DEFINE q == Asked(h)
           r == handlers[h]
           row == [kind |-> q.kind, project |-> q.project, name |-> q.name, region |-> r.region]
<1>1. r.pc = "write" /\ q.op = "create"
  BY DEF Create, Calls, At
<1>2. /\ r \in Handler /\ q \in Requests /\ r.request = q
      /\ Asks(r) /\ Knows(r, rows, used)
  BY <1>1, BusyIs
<1>3. PICK i \in Ids \ used :
         /\ rows' = [rows EXCEPT ![i] = row]
         /\ used' = used \cup {i}
         /\ Done(h, i)
  BY DEF Create
<1>4. q.kind \in Kinds /\ q.project \in Projects /\ q.name \in Names
  BY <1>1, <1>2, RequestsAsk
<1>5. /\ row \in Row /\ row # NULL
      /\ row.kind = q.kind /\ row.project = q.project /\ row.name = q.name /\ row.region = r.region
  BY <1>2, <1>4, NullIsNoRow DEF Row, Handler
<1> HIDE DEF row, q
<1>6. rows[i] = NULL /\ \A j \in used : rows'[j] = rows[j]
  BY <1>3 DEF IInv, TablesOK
<1>7. \A j \in Ids : rows[j] # NULL => rows'[j] = rows[j]
  BY <1>3, <1>6 DEF IInv, TablesOK
<1>8. \A j \in Ids : rows'[j] # NULL => rows'[j] = rows[j] \/ j = i
  BY <1>3 DEF IInv, TablesOK
<1>9. rows'[i] = row
  BY <1>3 DEF IInv, TablesOK
<1>10. Rooted(row, rows', owner)
  <2>1. owner[row.project] # NULL
    BY <1>5 DEF Create, q
  <2>2. row.region # NULL => rows[row.region] # NULL /\ row.region \in Ids
    BY <1>2, <1>5 DEF Create, Connects, Handler
  <2>3. row.region # NULL => rows[row.region].kind = "region" /\ rows[row.region].project = row.project
    BY <1>2, <1>5, <2>2 DEF Knows
  <2>4. row.kind = "culturalData" => row.region # NULL
    BY <1>1, <1>2, <1>5 DEF Asks
  <2>5. QED
    BY <1>7, <2>1, <2>2, <2>3, <2>4 DEF Rooted
<1>11. ASSUME NEW j \in Ids, rows'[j] # NULL
       PROVE  j \in used' /\ Rooted(rows'[j], rows', owner)
  <2>1. CASE j = i
    BY <1>3, <1>9, <1>10, <2>1
  <2>2. CASE j # i
    <3>1. rows'[j] = rows[j] /\ Rooted(rows[j], rows, owner) /\ j \in used
      BY <1>8, <1>11, <2>2 DEF IInv, TablesOK
    <3>2. rows[j].region # NULL => rows[j].region \in Ids
      BY <1>11, <3>1 DEF IInv, TablesOK, Row
    <3>3. QED
      BY <1>3, <1>7, <3>1, <3>2 DEF Rooted
  <2>3. QED
    BY <2>1, <2>2
<1>12. Unique(rows')
  <2>1. ASSUME NEW j \in Ids, rows[j] # NULL, rows[j].kind = row.kind,
               rows[j].project = row.project, rows[j].name = row.name
        PROVE  FALSE
    BY <1>5, <2>1 DEF Create, Named, Of, q
  <2>2. QED
    BY <1>5, <1>8, <1>9, <2>1 DEF Unique, IInv, TablesOK
<1>13. TablesOK(rows', owner, used')
  BY <1>3, <1>5, <1>11, <1>12 DEF IInv, TablesOK
<1>14. Evolves(rows', owner, used')
  BY <1>3, <1>6 DEF Evolves
<1> DEFINE n == AfterWrite(h, i, q.kind \in Invalidated)
<1>15. n \in Handler /\ Right(n, rows', owner, used')
  BY <1>1, <1>3, <1>5, <1>9, <1>13, AfterWriteIsRight DEF q, TablesOK
<1>16. handlers' = Overtake([handlers EXCEPT ![h] = n], q.project) /\ log' = NULL /\ UNCHANGED <<owner, lists>>
  BY <1>3 DEF Done, q
<1>17. QED
  BY <1>13, <1>14, <1>15, <1>16, WriteStep

\* A row is changed.
LEMMA UpdateKeeps ==
    ASSUME IInv, NEW h \in Handlers, Update(h)
    PROVE  IInv'
<1> DEFINE q == Asked(h)
           r == handlers[h]
           row == Updated(h)
           i == r.id
<1>1. r.pc = "write" /\ q.op = "update"
  BY DEF Update, Calls, At
<1>2. /\ r \in Handler /\ q \in Requests /\ r.request = q
      /\ Asks(r) /\ Knows(r, rows, used)
  BY <1>1, BusyIs
<1>3. i \in Ids /\ i \in used /\ rows[i] # NULL /\ rows[i] \in Row
      /\ rows[i].kind = q.kind /\ rows[i].project = q.project
  BY <1>1, <1>2 DEF Update, Asks, Knows, IInv, TablesOK, Handler
<1>4. q.name \in Names
  BY <1>1, <1>2, RequestsAsk
<1>5. /\ row \in Row /\ row # NULL
      /\ row.kind = rows[i].kind /\ row.project = rows[i].project
      /\ row.region = rows[i].region \/ row.region = r.region
      /\ rows[i].kind = "culturalData" => row.region = rows[i].region
  BY <1>2, <1>3, <1>4, NullIsNoRow DEF Updated, Row, Handler
<1> HIDE DEF row, q, i
<1>6. rows' = [rows EXCEPT ![i] = row]
  BY DEF Update, row, i
<1>7. rows'[i] = row /\ \A j \in Ids \ {i} : rows'[j] = rows[j]
  BY <1>3, <1>6 DEF IInv, TablesOK
<1>8. \A j \in Ids : (rows[j] # NULL) <=> (rows'[j] # NULL)
  BY <1>3, <1>5, <1>7
<1>9. \A j \in Ids : rows[j] # NULL => rows'[j].kind = rows[j].kind /\ rows'[j].project = rows[j].project
  BY <1>5, <1>7
<1>10. Rooted(rows[i], rows, owner)
  BY <1>3 DEF IInv, TablesOK
<1>11. Rooted(row, rows, owner)
  <2>1. r.region # NULL => /\ rows[r.region] # NULL
                           /\ rows[r.region].kind = "region"
                           /\ rows[r.region].project = q.project
    BY <1>2 DEF Knows, Update, Connects
  <2>2. QED
    BY <1>3, <1>5, <1>10, <2>1 DEF Rooted
<1>12. ASSUME NEW j \in Ids, rows'[j] # NULL
       PROVE  j \in used /\ Rooted(rows'[j], rows', owner)
  <2>1. j \in used /\ Rooted(rows'[j], rows, owner) /\ rows'[j] \in Row
    BY <1>3, <1>5, <1>7, <1>8, <1>11, <1>12 DEF IInv, TablesOK
  <2>2. QED
    BY <1>8, <1>9, <2>1 DEF Rooted, Row
<1>13. Unique(rows')
  <2>1. ASSUME NEW j \in Ids, rows[j] # NULL, rows[j].kind = row.kind,
               rows[j].project = row.project, rows[j].name = row.name
        PROVE  j = i
    <3>1. j \in Named(rows[i].project, q.kind, row.name)
      BY <1>3, <1>5, <2>1 DEF Named, Of
    <3>2. QED
      BY <3>1 DEF Update, row, i, q
  <2>2. QED
    BY <1>7, <1>8, <2>1 DEF Unique, IInv, TablesOK
<1>14. used' = used
  BY DEF Update
<1>15. TablesOK(rows', owner, used')
  BY <1>5, <1>6, <1>12, <1>13, <1>14 DEF IInv, TablesOK
<1>16. Evolves(rows', owner, used')
  BY <1>5, <1>7, <1>8, <1>9, <1>14 DEF Evolves, IInv, TablesOK
<1> DEFINE n == AfterWrite(h, i, q.kind \in Invalidated)
<1>17. n \in Handler /\ Right(n, rows', owner, used')
  BY <1>1, <1>3, <1>5, <1>7, <1>14, <1>15, AfterWriteIsRight DEF q, TablesOK
<1>18. handlers' = Overtake([handlers EXCEPT ![h] = n], q.project) /\ log' = NULL /\ UNCHANGED <<owner, lists>>
  BY DEF Update, Done, q, i
<1>19. QED
  BY <1>15, <1>16, <1>17, <1>18, WriteStep

\* A row that is no region is removed: nothing refers to it.
LEMMA RemoveKeeps ==
    ASSUME IInv, NEW h \in Handlers, Remove(h)
    PROVE  IInv'
<1> DEFINE q == Asked(h)
           r == handlers[h]
           i == r.id
<1>1. r.pc = "write" /\ q.op = "remove"
  BY DEF Remove, Calls, At
<1>2. /\ r \in Handler /\ q \in Requests /\ r.request = q
      /\ Asks(r) /\ Knows(r, rows, used)
  BY <1>1, BusyIs
<1>3. i \in Ids /\ i \in used /\ rows[i] # NULL /\ rows[i].kind # "region"
  BY <1>1, <1>2 DEF Remove, Asks, Knows, Handler
<1>4. rows' = [rows EXCEPT ![i] = NULL] /\ used' = used
  BY DEF Remove
<1> HIDE DEF q, i
<1>5. rows'[i] = NULL /\ \A j \in Ids \ {i} : rows'[j] = rows[j]
  BY <1>3, <1>4 DEF IInv, TablesOK
<1>6. ASSUME NEW j \in Ids, rows'[j] # NULL
      PROVE  j \in used /\ Rooted(rows'[j], rows', owner)
  <2>1. rows'[j] = rows[j] /\ j \in used /\ Rooted(rows[j], rows, owner) /\ rows[j] \in Row
    BY <1>5, <1>6 DEF IInv, TablesOK
  <2>2. QED
    BY <1>3, <1>5, <2>1 DEF Rooted, Row
<1>7. Unique(rows')
  BY <1>5 DEF Unique, IInv, TablesOK
<1>8. TablesOK(rows', owner, used')
  BY <1>4, <1>6, <1>7 DEF IInv, TablesOK
<1>9. Evolves(rows', owner, used')
  BY <1>4, <1>5 DEF Evolves, IInv, TablesOK
<1> DEFINE n == AfterWrite(h, i, q.kind \in Invalidated)
<1>10. n \in Handler /\ Right(n, rows', owner, used')
  BY <1>1, <1>3, <1>4, <1>5, <1>8, AfterWriteIsRight DEF q, TablesOK
<1>11. handlers' = Overtake([handlers EXCEPT ![h] = n], q.project) /\ log' = NULL /\ UNCHANGED <<owner, lists>>
  BY DEF Remove, Done, q, i
<1>12. QED
  BY <1>8, <1>9, <1>10, <1>11, WriteStep

\* A region goes with its cultural data, and no other row refers to it any longer.
LEMMA RemoveRegionKeeps ==
    ASSUME IInv, NEW h \in Handlers, RemoveRegion(h)
    PROVE  IInv'
<1> DEFINE q == Asked(h)
           r == handlers[h]
           i == r.id
           gone == {i} \cup r.wiped
<1>1. r.pc = "wiped"
  BY DEF RemoveRegion, At
<1>2. /\ r \in Handler /\ q \in Requests /\ r.request = q
      /\ Asks(r) /\ Knows(r, rows, used) /\ q.op = "remove" /\ q.kind = "region"
  BY <1>1, BusyIs DEF Asks
<1>3. i \in Ids /\ i \in used /\ rows[i] # NULL /\ i # NULL
  BY <1>1, <1>2 DEF RemoveRegion, Asks, Knows, Handler
<1>4. used' = used
  BY DEF RemoveRegion
<1>5. rows' = [j \in Ids |->
          IF j \in gone THEN NULL
          ELSE IF rows[j] # NULL /\ rows[j].region = i THEN [rows[j] EXCEPT !.region = NULL]
          ELSE rows[j]]
  BY DEF RemoveRegion
<1>6. \A j \in r.wiped : rows[j] # NULL => rows[j].kind = "culturalData"
  BY <1>2 DEF Knows
<1>7. \A j \in Ids : rows[j] # NULL /\ rows[j].kind = "culturalData" /\ rows[j].region = i => j \in gone
  BY DEF RemoveRegion, DataOf
<1> HIDE DEF q, i, gone
<1>8. \A j \in Ids : /\ j \in gone => rows'[j] = NULL
                     /\ j \notin gone /\ rows[j] # NULL /\ rows[j].region = i =>
                           rows'[j] = [rows[j] EXCEPT !.region = NULL]
                     /\ j \notin gone /\ ~(rows[j] # NULL /\ rows[j].region = i) => rows'[j] = rows[j]
  BY <1>5
<1>9. ASSUME NEW j \in Ids, rows'[j] # NULL
      PROVE  /\ rows[j] # NULL /\ rows'[j] \in Row /\ rows[j] \in Row /\ j \notin gone
             /\ rows'[j].kind = rows[j].kind /\ rows'[j].project = rows[j].project
             /\ rows'[j].name = rows[j].name
             /\ rows'[j].region = (IF rows[j].region = i THEN NULL ELSE rows[j].region)
             /\ rows[j].kind = "culturalData" => rows[j].region # i
  <2>1. j \notin gone /\ rows[j] # NULL /\ rows[j] \in Row
    BY <1>8, <1>9 DEF IInv, TablesOK
  <2>2. CASE rows[j].region = i
    <3>1. rows'[j] = [rows[j] EXCEPT !.region = NULL]
      BY <1>8, <2>1, <2>2
    <3>2. QED
      BY <1>7, <2>1, <2>2, <3>1 DEF Row
  <2>3. CASE rows[j].region # i
    BY <1>8, <2>1, <2>3
  <2>4. QED
    BY <2>2, <2>3
<1>10. \A j \in Ids : rows[j] # NULL /\ rows[j].kind = "region" /\ j # i =>
          rows'[j] # NULL /\ rows'[j].kind = "region" /\ rows'[j].project = rows[j].project
  <2> SUFFICES ASSUME NEW j \in Ids, rows[j] # NULL, rows[j].kind = "region", j # i
               PROVE  rows'[j] # NULL /\ rows'[j].kind = "region" /\ rows'[j].project = rows[j].project
    OBVIOUS
  <2>1. j \notin gone
    BY <1>6 DEF gone
  <2>2. rows[j] \in Row
    BY DEF IInv, TablesOK
  <2>3. CASE rows[j].region = i
    <3>1. rows'[j] = [rows[j] EXCEPT !.region = NULL]
      BY <1>8, <2>1, <2>3
    <3>2. QED
      BY <2>2, <3>1, NullIsNoRow DEF Row
  <2>4. CASE rows[j].region # i
    BY <1>8, <2>1, <2>4
  <2>5. QED
    BY <2>3, <2>4
<1>11. ASSUME NEW j \in Ids, rows'[j] # NULL
       PROVE  j \in used /\ Rooted(rows'[j], rows', owner)
  <2>1. j \in used /\ Rooted(rows[j], rows, owner)
    BY <1>9, <1>11 DEF IInv, TablesOK
  <2>2. rows'[j].region # NULL => rows[j].region = rows'[j].region /\ rows'[j].region \in Ids /\ rows'[j].region # i
    BY <1>9, <1>11 DEF Row
  <2>3. rows'[j].kind = "culturalData" => rows'[j].region = rows[j].region
    BY <1>9, <1>11
  <2>4. QED
    BY <1>9, <1>10, <1>11, <2>1, <2>2, <2>3 DEF Rooted
<1>12. Unique(rows')
  BY <1>9 DEF Unique, IInv, TablesOK
<1>13. TablesOK(rows', owner, used')
  <2>1. rows' \in [Ids -> Row \cup {NULL}]
    BY <1>5, <1>9
  <2>2. QED
    BY <1>4, <1>11, <1>12, <2>1 DEF IInv, TablesOK
<1>14. Evolves(rows', owner, used')
  BY <1>4, <1>9 DEF Evolves, IInv, TablesOK
<1> DEFINE n == AfterWrite(h, i, q.kind \in Invalidated)
<1>15. n \in Handler /\ Right(n, rows', owner, used')
  <2>1. rows'[i] = NULL
    BY <1>3, <1>8 DEF gone
  <2>2. QED
    BY <1>1, <1>2, <1>3, <1>4, <1>13, <2>1, AfterWriteIsRight DEF q, TablesOK
<1>16. handlers' = Overtake([handlers EXCEPT ![h] = n], q.project) /\ log' = NULL /\ UNCHANGED <<owner, lists>>
  BY DEF RemoveRegion, Done, q, i
<1>17. QED
  BY <1>13, <1>14, <1>15, <1>16, WriteStep

-------------------------------------------------------------------------------
(***************************************************************************)
(* Projects, and the cache.                                                *)
(***************************************************************************)
\* A slug is taken: nobody who found a row, or may still find one, has it.
LEMMA CreateProjectKeeps ==
    ASSUME IInv, NEW p \in Projects, NEW t \in Tenants, CreateProject(p, t)
    PROVE  IInv'
<1>1. \A o \in Projects : owner[o] # NULL => owner'[o] = owner[o]
  BY DEF CreateProject, IInv
<1>2. owner' \in [Projects -> Tenants \cup {NULL}]
  BY DEF CreateProject, IInv
<1>3. \A j \in Ids : rows[j] # NULL => owner'[rows[j].project] = owner[rows[j].project]
  BY <1>1 DEF IInv, TablesOK, Rooted, Row
<1>4. Evolves(rows, owner', used)
  BY <1>3 DEF Evolves, IInv, TablesOK
<1>5. ASSUME NEW h \in Handlers
      PROVE  Right(handlers[h], rows, owner', used)
  <2>1. Right(handlers[h], rows, owner, used)
    BY DEF IInv
  <2>2. ASSUME handlers[h].pc = "find"
        PROVE  handlers[h].moved = TRUE \/ owner'[handlers[h].request.project] = owner[handlers[h].request.project]
    <3>1. Admitted(handlers[h], rows, owner) /\ handlers[h].request \in Requests
      BY <2>1, <2>2 DEF Right, Asks
    <3>2. handlers[h].request.project \in Projects /\ handlers[h].request.tenant # NULL
      BY <3>1, RequestsAsk, NullAssumption
    <3>3. QED
      BY <1>1, <2>2, <3>1, <3>2 DEF Admitted
  <2>3. QED
    BY <1>4, <2>1, <2>2, OthersStay
<1>6. \A h \in Handlers : Right(handlers[h], rows, owner, used)'
  BY <1>5 DEF CreateProject, Right, Knows, Admitted
<1>7. \A j \in Ids : rows[j] # NULL => j \in used /\ Rooted(rows[j], rows, owner')
  BY <1>3 DEF IInv, TablesOK, Rooted
<1>8. TablesOK(rows, owner, used)'
  BY <1>7 DEF CreateProject, IInv, TablesOK, Rooted, Unique
<1>9. LogIsTrue'
  BY DEF CreateProject, LogIsTrue
<1>10. QED
  BY <1>2, <1>6, <1>8, <1>9 DEF CreateProject, IInv

\* A project goes with its rows: who was about to find one is called moved.
LEMMA RemoveProjectKeeps ==
    ASSUME IInv, NEW p \in Projects, RemoveProject(p)
    PROVE  IInv'
<1>1. owner' = [owner EXCEPT ![p] = NULL] /\ owner' \in [Projects -> Tenants \cup {NULL}]
  BY DEF RemoveProject, IInv
<1>2. \A j \in Ids : rows'[j] = IF rows[j] # NULL /\ rows[j].project = p THEN NULL ELSE rows[j]
  BY DEF RemoveProject
<1>3. \A j \in Ids : rows'[j] # NULL => /\ rows'[j] = rows[j] /\ rows[j] # NULL
                                         /\ rows[j] \in Row /\ rows[j].project # p
                                         /\ owner'[rows[j].project] = owner[rows[j].project]
  BY <1>1, <1>2 DEF IInv, TablesOK, Row
<1>4. rows' \in [Ids -> Row \cup {NULL}] /\ used' = used
  BY DEF RemoveProject, IInv, TablesOK
<1>5. ASSUME NEW j \in Ids, rows'[j] # NULL
      PROVE  j \in used /\ Rooted(rows'[j], rows', owner')
  <2>1. rows'[j] = rows[j] /\ j \in used /\ Rooted(rows[j], rows, owner) /\ rows[j] \in Row
        /\ rows[j].project # p /\ owner'[rows[j].project] = owner[rows[j].project]
    BY <1>3, <1>5 DEF IInv, TablesOK
  <2>2. rows[j].region # NULL => rows'[rows[j].region] = rows[rows[j].region]
    BY <1>2, <2>1 DEF Rooted, Row
  <2>3. QED
    BY <2>1, <2>2 DEF Rooted
<1>6. Unique(rows')
  BY <1>3 DEF Unique, IInv, TablesOK
<1>7. TablesOK(rows, owner, used)'
  BY <1>4, <1>5, <1>6 DEF IInv, TablesOK, Rooted, Unique
<1>8. Evolves(rows', owner', used)
  BY <1>3 DEF Evolves, IInv, TablesOK
<1>9. ASSUME NEW h \in Handlers
      PROVE  handlers'[h] \in Handler /\ Right(handlers'[h], rows', owner', used)
  <2> DEFINE r == handlers[h]
             n == handlers'[h]
             in == ~At(h, "idle") /\ Asked(h).project = p
  <2>1. r \in Handler /\ Right(r, rows, owner, used)
    BY DEF IInv
  <2>2. CASE in
    <3>1. n = [r EXCEPT !.moved = @ \/ At(h, "find"), !.late = At(h, "set")]
      BY <2>2 DEF RemoveProject
    <3>2. /\ n.pc = r.pc /\ n.id = r.id /\ n.request = r.request /\ n.region = r.region
          /\ n.wiped = r.wiped /\ n.entry = r.entry
      BY <2>1, <3>1 DEF Handler
    <3>3. n.moved = (r.moved \/ At(h, "find")) /\ n \in Handler
      BY <2>1, <3>1, Zenon DEF Handler, At
    <3>4. r.moved = TRUE => n.moved = TRUE
      BY <3>3
    <3>5. r.pc = "find" => n.moved = TRUE
      BY <3>3 DEF At
    <3>6. Right(n, rows, owner, used)
      BY <2>1, <3>2, <3>4 DEF Right, Asks, Knows, Admitted
    <3>7. Right(n, rows', owner', used)
      <4> HIDE DEF n
      <4>1. QED
        BY <1>8, <3>2, <3>5, <3>6, OthersStay
    <3>8. QED
      BY <3>3, <3>7
  <2>3. CASE ~in
    <3>1. n = r
      BY <2>3 DEF RemoveProject
    <3>2. r.pc = "find" => owner'[r.request.project] = owner[r.request.project]
      BY <1>1, <2>1, <2>3, RequestsAsk DEF At, Asked, Right, Asks, IInv
    <3>3. QED
      BY <1>8, <2>1, <3>1, <3>2, OthersStay
  <2>4. QED
    BY <2>2, <2>3
<1>10. handlers' \in [Handlers -> Handler]
  BY <1>9 DEF RemoveProject
<1>11. \A h \in Handlers : Right(handlers[h], rows, owner, used)'
  BY <1>4, <1>9 DEF Right, Knows, Admitted
<1>12. lists' \in [Projects -> [Cached -> Cache \cup {NULL}]]
  <2> DEFINE L == [k \in Cached |-> IF lists[p][k] = NULL THEN NULL ELSE [lists[p][k] EXCEPT !.late = TRUE]]
  <2>1. L \in [Cached -> Cache \cup {NULL}]
    <3>1. \A c \in Cache : [c EXCEPT !.late = TRUE] \in Cache
      BY DEF Cache
    <3>2. \A k \in Cached : lists[p][k] \in Cache \cup {NULL}
      BY DEF IInv
    <3>3. QED
      BY <3>1, <3>2
  <2> HIDE DEF L
  <2>2. lists' = [lists EXCEPT ![p] = L]
    BY DEF RemoveProject, L, IInv
  <2>3. QED
    BY <2>1, <2>2 DEF IInv
<1>13. LogIsTrue'
  BY DEF RemoveProject, LogIsTrue
<1>14. QED
  BY <1>1, <1>7, <1>10, <1>11, <1>12, <1>13 DEF RemoveProject, IInv

\* An entry of the cache goes.
LEMMA ExpireKeeps ==
    ASSUME IInv, NEW p \in Projects, NEW k \in Cached, Expire(p, k)
    PROVE  IInv'
<1>1. lists' \in [Projects -> [Cached -> Cache \cup {NULL}]]
  BY DEF Expire, IInv
<1>2. \A h \in Handlers : Right(handlers[h], rows, owner, used)'
  BY DEF Expire, IInv, Right, Knows, Admitted
<1>3. TablesOK(rows, owner, used)' /\ LogIsTrue'
  BY DEF Expire, IInv, TablesOK, Rooted, Unique, LogIsTrue
<1>4. QED
  BY <1>1, <1>2, <1>3 DEF Expire, IInv

-------------------------------------------------------------------------------
(***************************************************************************)
(* The invariant.                                                          *)
(***************************************************************************)
\* At first there is nothing.
LEMMA InitIsRight == Init => IInv
<1> SUFFICES ASSUME Init
             PROVE  IInv
  OBVIOUS
<1>1. TablesOK(rows, owner, used)
  BY DEF Init, TablesOK, Unique
<1>2. \A h \in Handlers : handlers[h] \in Handler /\ Right(handlers[h], rows, owner, used)
  BY IdleIsRight DEF Init
<1>3. QED
  BY <1>1, <1>2 DEF Init, IInv, LogIsTrue

\* Every step keeps the invariant.
LEMMA NextKeeps == IInv /\ [Next]_vars => IInv'
<1> SUFFICES ASSUME IInv, [Next]_vars
             PROVE  IInv'
  OBVIOUS
<1>1. CASE UNCHANGED vars
  <2>1. \A h \in Handlers : Right(handlers[h], rows, owner, used)'
    BY <1>1 DEF vars, IInv, Right, Knows, Admitted
  <2>2. TablesOK(rows, owner, used)' /\ LogIsTrue'
    BY <1>1 DEF vars, IInv, TablesOK, Rooted, Unique, LogIsTrue
  <2>3. QED
    BY <1>1, <2>1, <2>2 DEF vars, IInv
<1>2. ASSUME NEW h \in Handlers, Call(h)
      PROVE  IInv'
  BY <1>2, FindKeeps, LookupKeeps, CreateKeeps, UpdateKeeps, RemoveKeeps, WipeKeeps, RemoveRegionKeeps,
     ReadListKeeps, SetListKeeps, ForgetKeeps, LogKeeps, FailureKeeps DEF Call
<1>3. ASSUME NEW h \in Handlers, NEW q \in Requests, Guard(h, q)
      PROVE  IInv'
  BY <1>3, GuardKeeps
<1>4. QED
  BY <1>1, <1>2, <1>3, RemoveProjectKeeps, CreateProjectKeeps, ExpireKeeps, FailureKeeps DEF Next

\* It is an invariant.
LEMMA Invariance == Spec => []IInv
  BY InitIsRight, NextKeeps, PTL DEF Spec

-------------------------------------------------------------------------------
(***************************************************************************)
(* The theorems about the tables and the log.                              *)
(***************************************************************************)
\* The types, and what unique names and foreign keys promise of the six tables.
THEOREM TypesHold == Spec => []TypeOK
  BY Invariance, TypesFollow, PTL

\* A region below another one, and cultural data, are of the project of the region
\* they refer to, although RegionService and CulturalDataService look the region up
\* in one call and write in another.
THEOREM RegionsStay == Spec => []RegionsStayInProject
  BY Invariance, RegionsFollow, PTL

\* The interceptor logs what has happened, however late it writes.
THEOREM LogHolds == Spec => []LogIsTrue
<1>1. IInv => LogIsTrue
  BY DEF IInv
<1>2. QED
  BY <1>1, Invariance, PTL

-------------------------------------------------------------------------------
(***************************************************************************)
(* Who writes rows.                                                        *)
(***************************************************************************)
\* All writers of rows.
LEMMA OnlyWritersWrite ==
    ASSUME Next, rows' # rows
    PROVE  \/ \E h \in Handlers : Create(h) \/ Update(h) \/ Remove(h) \/ RemoveRegion(h)
           \/ \E p \in Projects : RemoveProject(p)
  BY DEF Next, Call, Guard, Find, CheckName, FindRegion, Wipe, ReadList, SetList, Forget, Log, Refuse,
         CreateProject, Expire, Crash

\* Who has written goes on.
LEMMA WritersGoOn ==
    ASSUME IInv, NEW h \in Handlers, handlers[h].pc \in {"write", "wiped"}, NEW i, Done(h, i)
    PROVE  /\ handlers'[h] # handlers[h]
           /\ handlers'[h].request = Asked(h)
           /\ handlers'[h].pc = IF Asked(h).kind \in Invalidated THEN "forget" ELSE "log"
<1> DEFINE n == AfterWrite(h, i, Asked(h).kind \in Invalidated)
           hs == [handlers EXCEPT ![h] = n]
<1>1. n.pc = (IF Asked(h).kind \in Invalidated THEN "forget" ELSE "log") /\ n.request = Asked(h)
  BY DEF AfterWrite, Idle
<1>2. hs[h] = n
  BY DEF IInv
<1>3. handlers' = Overtake(hs, Asked(h).project)
  BY DEF Done
<1> HIDE DEF n, hs
<1>4. handlers'[h] = n
  BY <1>1, <1>2, <1>3 DEF Overtake
<1>5. QED
  BY <1>1, <1>4

\* Where the tenant of the request has the project of a row.
LEMMA TenantHas ==
    ASSUME IInv, NEW h \in Handlers, handlers[h].pc \in {"write", "wiped"},
           handlers[h].id # NULL, rows[handlers[h].id] # NULL
    PROVE  handlers[h].moved \/ Asked(h).tenant = owner[rows[handlers[h].id].project]
  BY BusyIs DEF Knows, Admitted

\* A row that is there is written by a request for it, by the removal of its
\* region, or with its project.
LEMMA WrittenBy ==
    ASSUME IInv, Next, NEW i \in Ids, rows[i] # NULL, rows'[i] # rows[i]
    PROVE  \/ \E h \in Handlers :
                 /\ Update(h) /\ rows'[i] # NULL
                 /\ handlers[h].id = i /\ handlers'[h] # handlers[h]
           \/ \E h \in Handlers :
                 /\ Remove(h)
                 /\ handlers[h].id = i /\ handlers'[h] # handlers[h]
           \/ \E h \in Handlers :
                 /\ RemoveRegion(h) /\ handlers'[h] # handlers[h]
                 /\ rows[handlers[h].id].project = rows[i].project
                 /\ rows'[i] = NULL => rows'[handlers[h].id] = NULL
                 /\ rows'[i] = NULL /\ rows[i].kind = "culturalData" => rows[i].region = handlers[h].id
           \/ \E p \in Projects : RemoveProject(p) /\ rows[i].project = p
<1>1. ASSUME NEW h \in Handlers, Create(h)
      PROVE  FALSE
  <2>1. PICK j \in Ids \ used :
           rows' = [rows EXCEPT ![j] = [kind |-> Asked(h).kind, project |-> Asked(h).project,
                                        name |-> Asked(h).name, region |-> handlers[h].region]]
    BY <1>1 DEF Create
  <2>2. i # j
    BY <2>1 DEF IInv, TablesOK
  <2>3. QED
    BY <2>1, <2>2 DEF IInv, TablesOK
<1>2. ASSUME NEW h \in Handlers, Update(h)
      PROVE  rows'[i] # NULL /\ handlers[h].id = i /\ handlers'[h] # handlers[h]
  <2>1. handlers[h].pc = "write" /\ Done(h, handlers[h].id) /\ rows' = [rows EXCEPT ![handlers[h].id] = Updated(h)]
    BY <1>2 DEF Update, Calls, At
  <2>2. handlers[h].id = i
    BY <2>1 DEF IInv, TablesOK
  <2>3. rows'[i] # NULL
    <3>1. rows[i] \in Row
      BY DEF IInv, TablesOK
    <3>2. Asked(h).name \in Names /\ handlers[h].region \in Ids \cup {NULL}
      BY <1>2, <2>1, BusyIs, RequestsAsk DEF Update, Calls, Handler
    <3>3. Updated(h) \in Row
      BY <2>2, <3>1, <3>2 DEF Updated, Row
    <3>4. QED
      BY <2>1, <2>2, <3>3, NullIsNoRow DEF IInv, TablesOK
  <2>4. QED
    BY <2>1, <2>2, <2>3, WritersGoOn
<1>3. ASSUME NEW h \in Handlers, Remove(h)
      PROVE  handlers[h].id = i /\ handlers'[h] # handlers[h]
  <2>1. handlers[h].pc = "write" /\ Done(h, handlers[h].id) /\ rows' = [rows EXCEPT ![handlers[h].id] = NULL]
    BY <1>3 DEF Remove, Calls, At
  <2>2. handlers[h].id = i
    BY <2>1 DEF IInv, TablesOK
  <2>3. QED
    BY <2>1, <2>2, WritersGoOn
<1>4. ASSUME NEW h \in Handlers, RemoveRegion(h)
      PROVE  /\ handlers'[h] # handlers[h]
             /\ rows[handlers[h].id].project = rows[i].project
             /\ rows'[i] = NULL => rows'[handlers[h].id] = NULL
             /\ rows'[i] = NULL /\ rows[i].kind = "culturalData" => rows[i].region = handlers[h].id
  <2> DEFINE r == handlers[h]
             gone == {r.id} \cup r.wiped
  <2>1. r.pc = "wiped" /\ Done(h, r.id) /\ rows[r.id] # NULL
    BY <1>4 DEF RemoveRegion, At
  <2>2. /\ r \in Handler /\ Asks(r) /\ Knows(r, rows, used) /\ r.id # NULL /\ r.request.kind = "region"
    BY <2>1, BusyIs DEF Asks
  <2>3. r.id \in Ids /\ rows[r.id].kind = "region"
    BY <2>1, <2>2 DEF Knows, Handler
  <2>4. rows' = [j \in Ids |->
          IF j \in gone THEN NULL
          ELSE IF rows[j] # NULL /\ rows[j].region = r.id THEN [rows[j] EXCEPT !.region = NULL]
          ELSE rows[j]]
    BY <1>4 DEF RemoveRegion
  <2>5. rows'[r.id] = NULL
    BY <2>3, <2>4
  <2>6. i = r.id \/ rows[i].region = r.id
    BY <2>2, <2>4 DEF Knows
  <2>7. rows[i].region = r.id => rows[r.id].project = rows[i].project
    BY <2>2 DEF IInv, TablesOK, Rooted
  <2>8. QED
    BY <2>1, <2>3, <2>5, <2>6, <2>7, WritersGoOn
<1>5. ASSUME NEW p \in Projects, RemoveProject(p)
      PROVE  rows[i].project = p
  BY <1>5 DEF RemoveProject
<1>6. QED
  BY <1>1, <1>2, <1>3, <1>4, <1>5, OnlyWritersWrite

\* Cultural data goes by a request for it, or in one step with its region or its
\* project: the transaction of RegionService.remove loses none when it fails.
THEOREM DataGoesAsAWhole == Spec => DataGoesWithItsRegion
<1> DEFINE Whole ==
      \A i \in Ids :
          rows[i] # NULL /\ rows[i].kind = "culturalData" /\ rows'[i] = NULL =>
              \/ rows'[rows[i].region] = NULL
              \/ \E h \in Handlers :
                    Calls(h, "write", "remove") /\ handlers[h].id = i /\ handlers'[h] # handlers[h]
<1>1. IInv /\ [Next]_vars => Whole
  <2> SUFFICES ASSUME IInv, Next,
                      NEW i \in Ids, rows[i] # NULL, rows[i].kind = "culturalData", rows'[i] = NULL
               PROVE  \/ rows'[rows[i].region] = NULL
                      \/ \E h \in Handlers :
                            Calls(h, "write", "remove") /\ handlers[h].id = i /\ handlers'[h] # handlers[h]
    BY DEF vars
  <2>1. \/ \E h \in Handlers : Remove(h) /\ handlers[h].id = i /\ handlers'[h] # handlers[h]
        \/ \E h \in Handlers : rows[i].region = handlers[h].id /\ rows'[handlers[h].id] = NULL
        \/ \E p \in Projects : RemoveProject(p) /\ rows[i].project = p
    BY WrittenBy
  <2>2. ASSUME NEW p \in Projects, RemoveProject(p), rows[i].project = p
        PROVE  rows'[rows[i].region] = NULL
    <3>1. rows[i].region \in Ids /\ rows[rows[i].region].project = p
      BY <2>2 DEF IInv, TablesOK, Rooted, Row
    <3>2. QED
      BY <2>2, <3>1 DEF RemoveProject
  <2>3. QED
    BY <2>1, <2>2 DEF Remove
<1>2. QED
  BY <1>1, Invariance, PTL DEF Spec, DataGoesWithItsRegion

\* A row is written by a request of the tenant its project belongs to, but for one
\* that passed ProjectGuard before the slug went to another tenant and looked the
\* row up after it.
THEOREM RowsAreTheirTenants == Spec => OnlyItsTenant
<1> DEFINE Theirs ==
      \A i \in Ids :
          rows[i] # NULL /\ rows'[i] # rows[i] /\ owner'[rows[i].project] # NULL =>
              \E h \in Handlers :
                  /\ handlers'[h] # handlers[h]
                  /\ handlers[h].moved \/ Asked(h).tenant = owner[rows[i].project]
<1>1. IInv /\ [Next]_vars => Theirs
  <2> SUFFICES ASSUME IInv, Next,
                      NEW i \in Ids, rows[i] # NULL, rows'[i] # rows[i], owner'[rows[i].project] # NULL
               PROVE  \E h \in Handlers :
                         /\ handlers'[h] # handlers[h]
                         /\ handlers[h].moved \/ Asked(h).tenant = owner[rows[i].project]
    BY DEF vars
  <2>1. ~\E p \in Projects : RemoveProject(p) /\ rows[i].project = p
    BY DEF RemoveProject, IInv
  <2>2. PICK h \in Handlers :
           /\ Update(h) \/ Remove(h) \/ RemoveRegion(h)
           /\ handlers'[h] # handlers[h]
           /\ rows[handlers[h].id].project = rows[i].project
    BY <2>1, WrittenBy
  <2>3. handlers[h].pc \in {"write", "wiped"} /\ rows[handlers[h].id] # NULL /\ handlers[h].id # NULL
    <3>1. handlers[h].pc \in {"write", "wiped"} /\ rows[handlers[h].id] # NULL
      BY <2>2 DEF Update, Remove, RemoveRegion, Calls, At
    <3>2. Asked(h).op # "create" /\ Asks(handlers[h]) /\ handlers[h].request = Asked(h)
      BY <2>2, <3>1, BusyIs DEF Update, Remove, RemoveRegion, Calls, At, Asks
    <3>3. QED
      BY <3>1, <3>2 DEF Asks
  <2>4. handlers[h].moved \/ Asked(h).tenant = owner[rows[handlers[h].id].project]
    BY <2>3, TenantHas
  <2>5. QED
    BY <2>2, <2>4
<1>2. QED
  BY <1>1, Invariance, PTL DEF Spec, OnlyItsTenant

-------------------------------------------------------------------------------
(***************************************************************************)
(* The cached lists.  Of a list that was read and is not in the cache yet, *)
(* the invariant says the same as of one that is: it is that of the table, *)
(* unless it is called late.                                               *)
(***************************************************************************)
Seen(h) ==
    handlers[h].pc = "set" =>
        \/ handlers[h].late = TRUE
        \/ handlers[h].seen = ListOf(handlers[h].request.project, handlers[h].request.kind)

AboutToForget(p, k) ==
    \E h \in Handlers :
        handlers[h].pc = "forget" /\ handlers[h].request.project = p /\ handlers[h].request.kind = k

Explained(p, k) ==
    lists[p][k] # NULL /\ lists[p][k].list # ListOf(p, k) =>
        lists[p][k].late = TRUE \/ AboutToForget(p, k)

SInv ==
    /\ \A h \in Handlers : Seen(h)
    /\ \A p \in Projects, k \in Invalidated : Explained(p, k)

\* A step of one handler that is not about to forget a list.
LEMMA QuietStep ==
    ASSUME IInv, SInv, NEW h \in Handlers, NEW n \in Handler, handlers[h].pc # "forget",
           handlers' = [handlers EXCEPT ![h] = n],
           UNCHANGED <<rows, lists>>,
           n.pc = "set" => n.seen = ListOf(n.request.project, n.request.kind)
    PROVE  SInv'
<1>1. \A g \in Handlers : handlers'[g] = IF g = h THEN n ELSE handlers[g]
  BY DEF IInv
<1>2. \A p, k : ListOf(p, k)' = ListOf(p, k)
  BY DEF ListOf, Of
<1>3. \A g \in Handlers : Seen(g)'
  BY <1>1, <1>2 DEF SInv, Seen
<1>4. \A p, k : AboutToForget(p, k) => AboutToForget(p, k)'
  BY <1>1 DEF AboutToForget
<1>5. \A p \in Projects, k \in Invalidated : Explained(p, k)'
  BY <1>2, <1>4 DEF SInv, Explained
<1>6. QED
  BY <1>3, <1>5 DEF SInv

\* What a writer of rows leaves alone: rows of another project or another kind
\* (but cultural data, which goes with its region, and is not cached).
Footprint(h) ==
    \A j \in Ids :
        \/ /\ rows[j] # NULL <=> rows'[j] # NULL
           /\ rows[j] # NULL =>
                 /\ rows'[j].kind = rows[j].kind
                 /\ rows'[j].project = rows[j].project
                 /\ rows'[j].name = rows[j].name
        \/ \A row \in {rows[j], rows'[j]} : row # NULL =>
              row.project = Asked(h).project /\ row.kind \in {Asked(h).kind, "culturalData"}

\* ... so lists of others stay as they are.
LEMMA OtherListsStay ==
    ASSUME NEW h \in Handlers, Footprint(h), NEW p, NEW k,
           p # Asked(h).project \/ k \notin {Asked(h).kind, "culturalData"}
    PROVE  ListOf(p, k)' = ListOf(p, k)
<1>1. ASSUME NEW j \in Ids
      PROVE  /\ j \in Of(p, k) <=> j \in Of(p, k)'
             /\ j \in Of(p, k) => rows'[j].name = rows[j].name
  BY DEF Footprint, Of
<1>2. Of(p, k) \subseteq Ids /\ Of(p, k)' \subseteq Ids
  BY DEF Of
<1>3. Of(p, k)' = Of(p, k)
  BY <1>1, <1>2
<1>4. \A j \in Of(p, k) : rows'[j].name = rows[j].name
  BY <1>1, <1>2
<1>5. ListOf(p, k) = {<<i, rows[i].name>> : i \in Of(p, k)} /\ ListOf(p, k)' = {<<i, rows'[i].name>> : i \in Of(p, k)}
  BY <1>3 DEF ListOf
<1>6. QED
  BY <1>4, <1>5

\* The writers keep to that.
LEMMA WritersFootprint ==
    ASSUME IInv, NEW h \in Handlers, Create(h) \/ Update(h) \/ Remove(h) \/ RemoveRegion(h)
    PROVE  /\ Footprint(h)
           /\ handlers[h].pc \in {"write", "wiped"}
           /\ \E i : Done(h, i)
<1> DEFINE r == handlers[h]
<1>1. r.pc \in {"write", "wiped"}
  BY DEF Create, Update, Remove, RemoveRegion, Calls, At
<1>2. /\ r \in Handler /\ Asked(h) \in Requests /\ r.request = Asked(h)
      /\ Asks(r) /\ Knows(r, rows, used)
  BY <1>1, BusyIs
<1>3. CASE Create(h)
  <2>1. PICK i \in Ids \ used :
           /\ rows' = [rows EXCEPT ![i] = [kind |-> Asked(h).kind, project |-> Asked(h).project,
                                           name |-> Asked(h).name, region |-> r.region]]
           /\ Done(h, i)
    BY <1>3 DEF Create
  <2>2. rows[i] = NULL
    BY DEF IInv, TablesOK
  <2>3. Footprint(h)
    BY <2>1, <2>2 DEF Footprint, IInv, TablesOK
  <2>4. QED
    BY <1>1, <2>1, <2>3
<1>4. CASE Update(h)
  <2>1. rows' = [rows EXCEPT ![r.id] = Updated(h)] /\ Done(h, r.id) /\ rows[r.id] # NULL /\ Asked(h).op = "update"
    BY <1>4 DEF Update, Calls
  <2>2. r.id \in Ids /\ rows[r.id] \in Row /\ rows[r.id].kind = Asked(h).kind /\ rows[r.id].project = Asked(h).project
    BY <1>1, <1>2, <1>4, <2>1 DEF Update, Calls, At, Asks, Knows, IInv, TablesOK, Handler
  <2>3. Updated(h).kind = rows[r.id].kind /\ Updated(h).project = rows[r.id].project
    BY <2>2 DEF Updated, Row
  <2>4. Footprint(h)
    BY <2>1, <2>2, <2>3 DEF Footprint, IInv, TablesOK
  <2>5. QED
    BY <1>1, <2>1, <2>4
<1>5. CASE Remove(h)
  <2>1. rows' = [rows EXCEPT ![r.id] = NULL] /\ Done(h, r.id) /\ rows[r.id] # NULL /\ Asked(h).op = "remove"
    BY <1>5 DEF Remove, Calls
  <2>2. r.id \in Ids /\ rows[r.id].kind = Asked(h).kind /\ rows[r.id].project = Asked(h).project
    BY <1>1, <1>2, <1>5, <2>1 DEF Remove, Calls, At, Asks, Knows, Handler
  <2>3. Footprint(h)
    BY <2>1, <2>2 DEF Footprint, IInv, TablesOK
  <2>4. QED
    BY <1>1, <2>1, <2>3
<1>6. CASE RemoveRegion(h)
  <2> DEFINE gone == {r.id} \cup r.wiped
  <2>1. r.pc = "wiped" /\ Done(h, r.id) /\ rows[r.id] # NULL
    BY <1>6 DEF RemoveRegion, At
  <2>2. r.id # NULL /\ Asked(h).kind = "region" /\ rows[r.id].kind = "region" /\ rows[r.id].project = Asked(h).project
    BY <1>2, <2>1 DEF Asks, Knows
  <2>3. rows' = [j \in Ids |->
          IF j \in gone THEN NULL
          ELSE IF rows[j] # NULL /\ rows[j].region = r.id THEN [rows[j] EXCEPT !.region = NULL]
          ELSE rows[j]]
    BY <1>6 DEF RemoveRegion
  <2>4. ASSUME NEW j \in gone, j \in Ids
        PROVE  /\ rows'[j] = NULL
               /\ rows[j] # NULL => rows[j].project = Asked(h).project /\ rows[j].kind \in {"region", "culturalData"}
    <3>1. rows'[j] = NULL
      BY <2>3, <2>4
    <3>2. CASE j \in r.wiped
      BY <1>2, <2>2, <3>1, <3>2 DEF Knows, IInv, TablesOK, Rooted
    <3>3. QED
      BY <2>2, <3>1, <3>2
  <2>5. ASSUME NEW j \in Ids, j \notin gone, rows[j] # NULL
        PROVE  /\ rows'[j] # NULL
               /\ rows'[j].kind = rows[j].kind
               /\ rows'[j].project = rows[j].project
               /\ rows'[j].name = rows[j].name
    <3>1. rows[j] \in Row
      BY <2>5 DEF IInv, TablesOK
    <3>2. [rows[j] EXCEPT !.region = NULL] \in Row
      BY <3>1 DEF Row
    <3>3. rows'[j] = rows[j] \/ rows'[j] = [rows[j] EXCEPT !.region = NULL]
      BY <2>3, <2>5
    <3>4. QED
      BY <3>1, <3>2, <3>3, NullIsNoRow DEF Row
  <2>6. \A j \in Ids : j \notin gone /\ rows[j] = NULL => rows'[j] = NULL
    BY <2>3
  <2>7. Footprint(h)
    <3> HIDE DEF gone
    <3>1. QED
      BY <2>2, <2>4, <2>5, <2>6 DEF Footprint
  <2>8. QED
    BY <1>1, <2>1, <2>7
<1>7. QED
  BY <1>3, <1>4, <1>5, <1>6

\* A write: whoever has read a list of the project is late, and the writer is about
\* to forget the list it made stale.
LEMMA WriteIsSeen ==
    ASSUME IInv, SInv, NEW h \in Handlers, Create(h) \/ Update(h) \/ Remove(h) \/ RemoveRegion(h)
    PROVE  SInv'
<1>1. Footprint(h) /\ handlers[h].pc \in {"write", "wiped"}
  BY WritersFootprint
<1>2. PICK i : Done(h, i)
  BY WritersFootprint
<1> DEFINE P == Asked(h).project
           n == AfterWrite(h, i, Asked(h).kind \in Invalidated)
<1>3. /\ handlers'[h].request = Asked(h)
      /\ handlers'[h].pc = IF Asked(h).kind \in Invalidated THEN "forget" ELSE "log"
  BY <1>1, <1>2, WritersGoOn
<1>4. ASSUME NEW g \in Handlers, g # h
      PROVE  /\ handlers'[g].pc = handlers[g].pc
             /\ handlers'[g].request = handlers[g].request
             /\ handlers'[g].seen = handlers[g].seen
             /\ handlers[g].late = TRUE => handlers'[g].late = TRUE
             /\ handlers[g].pc = "set" /\ handlers[g].request.project = P => handlers'[g].late = TRUE
  <2> DEFINE hs == [handlers EXCEPT ![h] = n]
  <2>1. hs[g] = handlers[g] /\ handlers[g] \in Handler
    BY <1>4 DEF IInv
  <2> HIDE DEF hs
  <2>2. handlers'[g] = IF hs[g].pc = "set" /\ hs[g].request.project = P
                       THEN [hs[g] EXCEPT !.late = TRUE] ELSE hs[g]
    BY <1>2 DEF Done, Overtake, hs
  <2>3. QED
    BY <2>1, <2>2 DEF Handler
<1>5. ASSUME NEW g \in Handlers
      PROVE  Seen(g)'
  <2>1. \A p, k : p # P => ListOf(p, k)' = ListOf(p, k)
    BY <1>1, OtherListsStay
  <2>2. CASE g = h
    BY <1>3, <2>2 DEF Seen
  <2>3. CASE g # h /\ handlers[g].request.project = P
    BY <1>4, <2>3 DEF Seen
  <2>4. CASE g # h /\ handlers[g].request.project # P
    <3>1. PICK p, k : p = handlers[g].request.project /\ k = handlers[g].request.kind
      OBVIOUS
    <3>2. handlers[g].pc = "set" => handlers[g].late = TRUE \/ handlers[g].seen = ListOf(p, k)
      BY <3>1 DEF SInv, Seen
    <3>3. p = handlers'[g].request.project /\ k = handlers'[g].request.kind
      BY <1>4, <2>4, <3>1
    <3>4. handlers'[g].pc = "set" => handlers'[g].late = TRUE \/ handlers'[g].seen = ListOf(p, k)'
      <4>1. ListOf(p, k)' = ListOf(p, k)
        BY <2>1, <2>4, <3>1
      <4>2. /\ handlers'[g].pc = handlers[g].pc
            /\ handlers'[g].seen = handlers[g].seen
            /\ handlers[g].late = TRUE => handlers'[g].late = TRUE
        BY <1>4, <2>4
      <4>3. QED
        BY <3>2, <4>1, <4>2
    <3>5. QED
      BY <3>3, <3>4 DEF Seen
  <2>5. QED
    BY <2>2, <2>3, <2>4
<1>6. ASSUME NEW p \in Projects, NEW k \in Invalidated
      PROVE  Explained(p, k)'
  <2>1. lists' = lists
    BY <1>2 DEF Done
  <2>2. CASE p = P /\ k = Asked(h).kind
    BY <1>3, <2>2 DEF Explained, AboutToForget
  <2>3. CASE p # P \/ k # Asked(h).kind
    <3>1. ListOf(p, k)' = ListOf(p, k)
      BY <1>1, <2>3, OtherListsStay DEF Invalidated
    <3>2. AboutToForget(p, k) => AboutToForget(p, k)'
      BY <1>1, <1>4 DEF AboutToForget
    <3>3. QED
      BY <2>1, <3>1, <3>2 DEF SInv, Explained
  <2>4. QED
    BY <2>2, <2>3
<1>7. QED
  BY <1>5, <1>6 DEF SInv

\* A list is put in the cache as it was read.
LEMMA SetListIsSeen ==
    ASSUME IInv, SInv, NEW h \in Handlers, SetList(h)
    PROVE  SInv'
<1> DEFINE P == Asked(h).project
           K == Asked(h).kind
           c == [list |-> handlers[h].seen, late |-> handlers[h].late]
<1>1. handlers[h].pc = "set" /\ handlers[h].request.project = P /\ handlers[h].request.kind = K
  BY DEF SetList, At, Asked
<1>2. P \in Projects /\ K \in Cached
  BY <1>1, BusyIs, RequestsAsk DEF Asks
<1>3. c.late = TRUE \/ c.list = ListOf(P, K)
  BY <1>1 DEF SInv, Seen
<1>4. lists' = [lists EXCEPT ![P][K] = c]
  BY DEF SetList
<1> HIDE DEF P, K, c
<1>5. \A p \in Projects, k \in Cached :
         lists'[p][k] = IF p = P /\ k = K THEN c ELSE lists[p][k]
  BY <1>4 DEF IInv
<1>6. \A p, k : ListOf(p, k)' = ListOf(p, k)
  BY DEF SetList, ListOf, Of
<1>7. \A g \in Handlers : handlers'[g] = IF g = h THEN Idle ELSE handlers[g]
  BY DEF SetList, Answer, IInv
<1>8. \A g \in Handlers : Seen(g)'
  BY <1>6, <1>7 DEF SInv, Seen, Idle
<1>9. \A p, k : AboutToForget(p, k) => AboutToForget(p, k)'
  BY <1>1, <1>7 DEF AboutToForget
<1>10. ASSUME NEW p \in Projects, NEW k \in Invalidated
       PROVE  Explained(p, k)'
  <2>1. CASE p = P /\ k = K
    BY <1>3, <1>5, <1>6, <2>1 DEF Explained, Cached
  <2>2. CASE ~(p = P /\ k = K)
    <3>1. lists'[p][k] = lists[p][k]
      BY <1>5, <2>2 DEF Cached
    <3>2. QED
      BY <1>6, <1>9, <3>1 DEF SInv, Explained
  <2>3. QED
    BY <2>1, <2>2
<1>11. QED
  BY <1>8, <1>10 DEF SInv

\* Who forgets a list leaves nothing to explain.
LEMMA ForgetIsSeen ==
    ASSUME IInv, SInv, NEW h \in Handlers, Forget(h)
    PROVE  SInv'
<1> DEFINE P == Asked(h).project
           K == Asked(h).kind
<1>1. handlers[h].pc = "forget" /\ handlers[h].request.project = P /\ handlers[h].request.kind = K
  BY DEF Forget, At, Asked
<1>2. lists' = [lists EXCEPT ![P][K] = NULL]
  BY DEF Forget
<1> HIDE DEF P, K
<1>3. \A p \in Projects, k \in Cached :
         lists'[p][k] = IF p = P /\ k = K THEN NULL ELSE lists[p][k]
  BY <1>2 DEF IInv
<1>4. \A p, k : ListOf(p, k)' = ListOf(p, k)
  BY DEF Forget, ListOf, Of
<1>5. /\ handlers'[h].pc \in {"idle", "log"}
      /\ \A g \in Handlers : g # h => handlers'[g] = handlers[g]
  BY DEF Forget, IInv, Idle, Handler
<1>6. \A g \in Handlers : Seen(g)'
  BY <1>4, <1>5 DEF SInv, Seen
<1>7. ASSUME NEW p \in Projects, NEW k \in Invalidated
      PROVE  Explained(p, k)'
  <2>1. CASE p = P /\ k = K
    BY <1>3, <2>1 DEF Explained, Cached
  <2>2. CASE ~(p = P /\ k = K)
    <3>1. lists'[p][k] = lists[p][k]
      BY <1>3, <2>2 DEF Cached
    <3>2. AboutToForget(p, k) => AboutToForget(p, k)'
      BY <1>1, <1>5, <2>2 DEF AboutToForget
    <3>3. QED
      BY <1>4, <3>1, <3>2 DEF SInv, Explained
  <2>3. QED
    BY <2>1, <2>2
<1>8. QED
  BY <1>6, <1>7 DEF SInv

\* Nobody reads the lists of a project that goes without being late.
LEMMA RemoveProjectIsSeen ==
    ASSUME IInv, SInv, NEW o \in Projects, RemoveProject(o)
    PROVE  SInv'
<1>1. ASSUME NEW p, NEW k, p # o
      PROVE  ListOf(p, k)' = ListOf(p, k)
  <2>1. \A j \in Ids : rows'[j] = IF rows[j] # NULL /\ rows[j].project = o THEN NULL ELSE rows[j]
    BY DEF RemoveProject
  <2>2. Of(p, k)' = Of(p, k)
    BY <1>1, <2>1 DEF Of
  <2>3. \A j \in Of(p, k) : rows'[j] = rows[j]
    BY <1>1, <2>1 DEF Of
  <2>4. ListOf(p, k) = {<<i, rows[i].name>> : i \in Of(p, k)} /\ ListOf(p, k)' = {<<i, rows'[i].name>> : i \in Of(p, k)}
    BY <2>2 DEF ListOf
  <2>5. QED
    BY <2>3, <2>4
<1>2. ASSUME NEW g \in Handlers
      PROVE  /\ handlers'[g].pc = handlers[g].pc
             /\ handlers'[g].request = handlers[g].request
             /\ handlers'[g].seen = handlers[g].seen
             /\ handlers[g].pc = "set" /\ handlers[g].request.project = o => handlers'[g].late = TRUE
             /\ handlers[g].request.project # o => handlers'[g] = handlers[g]
  <2>1. handlers[g] \in Handler
    BY DEF IInv
  <2>2. handlers'[g] = IF handlers[g].pc # "idle" /\ handlers[g].request.project = o
                       THEN [handlers[g] EXCEPT !.moved = @ \/ At(g, "find"), !.late = At(g, "set")]
                       ELSE handlers[g]
    BY DEF RemoveProject, At, Asked
  <2>3. CASE handlers[g].pc # "idle" /\ handlers[g].request.project = o
    <3>1. handlers'[g] = [handlers[g] EXCEPT !.moved = @ \/ At(g, "find"), !.late = At(g, "set")]
      BY <2>2, <2>3
    <3>2. /\ handlers'[g].pc = handlers[g].pc
          /\ handlers'[g].request = handlers[g].request
          /\ handlers'[g].seen = handlers[g].seen
      BY <2>1, <3>1 DEF Handler
    <3>3. handlers'[g].late = At(g, "set")
      BY <2>1, <3>1, Zenon DEF Handler
    <3>4. handlers[g].pc = "set" => handlers'[g].late = TRUE
      BY <3>3 DEF At
    <3>5. QED
      BY <2>3, <3>2, <3>4
  <2>4. CASE ~(handlers[g].pc # "idle" /\ handlers[g].request.project = o)
    BY <2>2, <2>4
  <2>5. QED
    BY <2>3, <2>4
<1>3. ASSUME NEW g \in Handlers
      PROVE  Seen(g)'
  <2>1. CASE handlers[g].request.project = o
    BY <1>2, <2>1 DEF Seen
  <2>2. CASE handlers[g].request.project # o
    <3>1. PICK p, k : p = handlers[g].request.project /\ k = handlers[g].request.kind
      OBVIOUS
    <3>2. handlers[g].pc = "set" => handlers[g].late = TRUE \/ handlers[g].seen = ListOf(p, k)
      BY <3>1 DEF SInv, Seen
    <3>3. ListOf(p, k)' = ListOf(p, k)
      BY <1>1, <2>2, <3>1
    <3>4. handlers'[g] = handlers[g]
      BY <1>2, <2>2
    <3>5. handlers'[g].pc = "set" => handlers'[g].late = TRUE \/ handlers'[g].seen = ListOf(p, k)'
      BY <3>2, <3>3, <3>4
    <3>6. QED
      BY <3>1, <3>4, <3>5 DEF Seen
  <2>3. QED
    BY <2>1, <2>2
<1>4. \A p, k : AboutToForget(p, k) => AboutToForget(p, k)'
  BY <1>2 DEF AboutToForget
<1>5. ASSUME NEW p \in Projects, NEW k \in Invalidated
      PROVE  Explained(p, k)'
  <2> DEFINE L == [l \in Cached |-> IF lists[o][l] = NULL THEN NULL ELSE [lists[o][l] EXCEPT !.late = TRUE]]
  <2>1. lists' = [lists EXCEPT ![o] = L]
    BY DEF RemoveProject, IInv
  <2>2. CASE p = o
    <3>1. lists'[o][k] = IF lists[o][k] = NULL THEN NULL ELSE [lists[o][k] EXCEPT !.late = TRUE]
      BY <2>1 DEF IInv, Cached
    <3>2. lists[o][k] = NULL \/ lists[o][k] \in Cache
      BY DEF IInv, Cached
    <3>3. lists'[o][k] = NULL \/ lists'[o][k].late = TRUE
      BY <3>1, <3>2 DEF Cache
    <3>4. QED
      BY <2>2, <3>3 DEF Explained
  <2>3. CASE p # o
    <3>1. lists'[p] = lists[p]
      <4> HIDE DEF L
      <4>1. QED
        BY <2>1, <2>3 DEF IInv
    <3>2. QED
      BY <1>1, <1>4, <2>3, <3>1 DEF SInv, Explained
  <2>4. QED
    BY <2>2, <2>3
<1>6. QED
  BY <1>3, <1>5 DEF SInv

\* The steps that neither write rows nor the cache.
LEMMA QuietSteps ==
    ASSUME IInv, SInv, NEW h \in Handlers,
           \/ Find(h) \/ CheckName(h) \/ FindRegion(h) \/ Wipe(h)
           \/ ReadList(h) \/ Log(h) \/ Refuse(h)
           \/ \E q \in Requests : Guard(h, q)
    PROVE  SInv'
<1> DEFINE n == handlers'[h]
           r == handlers[h]
<1>1. /\ IInv' /\ UNCHANGED <<rows, lists>> /\ r.pc # "forget"
      /\ \A g \in Handlers \ {h} : handlers'[g] = handlers[g]
  <2>1. IInv'
    BY FindKeeps, LookupKeeps, WipeKeeps, ReadListKeeps, LogKeeps, FailureKeeps, GuardKeeps
  <2>2. UNCHANGED <<rows, lists>> /\ r.pc # "forget"
    BY DEF Find, CheckName, FindRegion, Wipe, ReadList, Log, Refuse, Guard, At
  <2>3. \A g \in Handlers \ {h} : handlers'[g] = handlers[g]
    BY DEF Find, CheckName, FindRegion, Wipe, ReadList, Log, Refuse, Guard, Answer, IInv
  <2>4. QED
    BY <2>1, <2>2, <2>3
<1>2. n.pc = "set" => n.seen = ListOf(n.request.project, n.request.kind)
  <2>1. CASE ReadList(h)
    BY <2>1 DEF ReadList, IInv, Handler, Asked
  <2>2. CASE Log(h) \/ Refuse(h)
    BY <2>2 DEF Log, Refuse, Answer, IInv, Idle
  <2>3. CASE Find(h)
    <3>1. PICK i : n = [r EXCEPT !.pc = AfterFind(Asked(h), i), !.id = i]
      BY <2>3 DEF Find, IInv
    <3>2. AfterFind(Asked(h), i) # "set"
      BY DEF AfterFind
    <3>3. n.pc = AfterFind(Asked(h), i)
      BY <3>1 DEF IInv, Handler
    <3>4. QED
      BY <3>2, <3>3
  <2>4. CASE CheckName(h) \/ FindRegion(h) \/ Wipe(h)
    BY <2>4 DEF CheckName, FindRegion, Wipe, IInv, Handler
  <2>5. CASE \E q \in Requests : Guard(h, q)
    <3>1. PICK q \in Requests : n = [Idle EXCEPT !.pc = FirstCall(q), !.request = q]
      BY <2>5 DEF Guard, IInv
    <3>2. FirstCall(q) # "set"
      BY DEF FirstCall
    <3>3. n.pc = FirstCall(q)
      BY <3>1 DEF Idle
    <3>4. QED
      BY <3>2, <3>3
  <2>6. QED
    BY <2>1, <2>2, <2>3, <2>4, <2>5
<1>3. \A p, k : ListOf(p, k)' = ListOf(p, k)
  BY <1>1 DEF ListOf, Of
<1>4. \A g \in Handlers : Seen(g)'
  BY <1>1, <1>2, <1>3 DEF SInv, Seen
<1>5. \A p, k : AboutToForget(p, k) => AboutToForget(p, k)'
  BY <1>1 DEF AboutToForget
<1>6. \A p \in Projects, k \in Invalidated : Explained(p, k)'
  BY <1>1, <1>3, <1>5 DEF SInv, Explained
<1>7. QED
  BY <1>4, <1>6 DEF SInv

\* Every step keeps it.
LEMMA NextIsSeen == IInv /\ SInv /\ [Next]_vars => SInv'
<1> SUFFICES ASSUME IInv, SInv, [Next]_vars
             PROVE  SInv'
  OBVIOUS
<1>1. CASE UNCHANGED vars
  BY <1>1 DEF vars, SInv, Seen, Explained, AboutToForget, ListOf, Of
<1>2. ASSUME NEW h \in Handlers, Call(h)
      PROVE  SInv'
  BY <1>2, QuietSteps, WriteIsSeen, SetListIsSeen, ForgetIsSeen DEF Call
<1>3. ASSUME NEW h \in Handlers, NEW q \in Requests, Guard(h, q)
      PROVE  SInv'
  BY <1>3, QuietSteps
<1>4. ASSUME NEW p \in Projects, NEW t \in Tenants, CreateProject(p, t)
      PROVE  SInv'
  BY <1>4 DEF CreateProject, SInv, Seen, Explained, AboutToForget, ListOf, Of
<1>5. ASSUME NEW p \in Projects, NEW k \in Cached, Expire(p, k)
      PROVE  SInv'
  <2>1. \A o \in Projects, l \in Cached : lists'[o][l] = NULL \/ lists'[o][l] = lists[o][l]
    BY <1>5 DEF Expire, IInv
  <2>2. \A o, l : ListOf(o, l)' = ListOf(o, l)
    BY <1>5 DEF Expire, ListOf, Of
  <2>3. handlers' = handlers
    BY <1>5 DEF Expire
  <2>4. \A o \in Projects, l \in Invalidated : Explained(o, l)'
    BY <2>1, <2>2, <2>3 DEF SInv, Explained, AboutToForget, Cached
  <2>5. QED
    BY <2>2, <2>3, <2>4 DEF SInv, Seen
<1>6. CASE Crash
  <2>1. \A h \in Handlers : handlers'[h].pc = "idle"
    BY <1>6 DEF Crash, Idle
  <2>2. \A p \in Projects, k \in Invalidated : lists'[p][k] = NULL
    BY <1>6 DEF Crash, Cached
  <2>3. QED
    BY <2>1, <2>2 DEF SInv, Seen, Explained
<1>7. QED
  BY <1>1, <1>2, <1>3, <1>4, <1>5, <1>6, RemoveProjectIsSeen DEF Next

\* A list in the cache that is not that of the table was read before a write and
\* kept after it, or the writer is about to forget it (the controllers delete the
\* key of the cache after the service has written).
THEOREM StaleListsAreExplained == Spec => []StaleIsExplained
<1>1. Init => SInv
  BY DEF Init, SInv, Seen, Explained, Idle, Cached
<1>2. SInv => StaleIsExplained
  BY DEF SInv, Explained, AboutToForget, StaleIsExplained, At, Asked
<1>3. QED
  BY <1>1, <1>2, NextIsSeen, Invariance, PTL DEF Spec
===============================================================================
