----------------------------- MODULE AccountsProofs -----------------------------
(***************************************************************************)
(* Proofs about Accounts, for every number of tenants, users, keys,        *)
(* projects, requests and requests in flight.                              *)
(***************************************************************************)
EXTENDS Accounts, TLAPS

(***************************************************************************)
(* The inductive invariant, in four parts: the tables, the keys that are   *)
(* shut, how the setting up of tenants ended, and the requests in flight.  *)
(***************************************************************************)
Tables ==
    /\ tenants \in [Tenants -> Names \cup {NULL}]
    /\ users \in [Users -> User \cup {NULL}]
    /\ keys \in [Keys -> Key \cup {NULL}]
    /\ projects \in [Projects -> Project \cup {NULL}]
    /\ References

\* A key that is shut stays revoked as long as it is there, and its id is not
\* given to another one.
ShutKeys ==
    /\ shut \subseteq Keys
    /\ \A k \in Keys : keys[k] # NULL \/ k \in shut => k \in used
    /\ \A k \in shut : keys[k] # NULL => keys[k].revoked = TRUE

\* SetUpWhole, with what is known of tenants that were removed or that nobody set
\* up here, and of ids.
Settled ==
    /\ used \subseteq Tenants \cup Users \cup Keys
    /\ peopled \subseteq Tenants
    /\ settled \in [Tenants -> {"not", "open", "done", "undone", "left", "removed"}]
    /\ \A t \in Tenants :
          /\ settled[t] = "done" => tenants[t] # NULL /\ t \in peopled
          /\ settled[t] \in {"undone", "removed"} => tenants[t] = NULL
          /\ settled[t] = "not" /\ tenants[t] # NULL => t \in peopled
          /\ settled[t] # "not" \/ tenants[t] # NULL => t \in used

\* A request that sets a tenant up, between its second and its last call.
Holds(r) == r.pc \in {"user", "undo"}

\* Which requests are where, and what they hold.
Asks(r) ==
    /\ r.request \in Requests
    /\ r.pc = "name" => r.request.op \in {"onboard", "updateTenant"}
    /\ r.pc = "read" => r.request.op \notin {"onboard", "register", "createUser", "createKey"}
    /\ r.request.op # "register" =>
          r.request.by \in Users /\ r.home \in Tenants /\ r.true = r.home
    /\ r.request.op \in {"register", "createUser"} => r.tenant \in Tenants

\* The tenant that is set up has not been settled, unless somebody removed it.
SetsUp(r, ids, ends) ==
    /\ r.request.op = "onboard"
    /\ r.tenant \in Tenants /\ r.tenant \in ids
    /\ ends[r.tenant] \in {"open", "removed"}

Right(r, ids, ends) ==
    /\ r.pc # "idle" => Asks(r)
    /\ Holds(r) => SetsUp(r, ids, ends)
    /\ r.barred = FALSE

\* No two requests set up the same tenant.
Flight ==
    /\ handlers \in [Handlers -> Handler]
    /\ \A h \in Handlers : Right(handlers[h], used, settled)
    /\ \A g, h \in Handlers :
          Holds(handlers[g]) /\ Holds(handlers[h]) /\ handlers[g].tenant = handlers[h].tenant => g = h

IInv == Tables /\ ShutKeys /\ Settled /\ Flight

\* It implies the invariants that are checked.
LEMMA InvariantsFollow == IInv => TypeOK /\ SetUpWhole /\ RevokedIsRefused
<1> SUFFICES ASSUME IInv
             PROVE  TypeOK /\ SetUpWhole /\ RevokedIsRefused
  OBVIOUS
<1>1. TypeOK
  BY DEF IInv, TypeOK, Tables, ShutKeys, Settled, Flight
<1>2. SetUpWhole
  BY DEF IInv, SetUpWhole, Settled
<1>3. RevokedIsRefused
  BY DEF IInv, RevokedIsRefused, Flight, Right
<1>4. QED
  BY <1>1, <1>2, <1>3

-------------------------------------------------------------------------------
(***************************************************************************)
(* Requests.                                                               *)
(***************************************************************************)
\* What a request may ask for.
LEMMA RequestsAsk ==
    ASSUME NEW q \in Requests
    PROVE  /\ q.op \in Ops
           /\ q.op # "register" => q.by \in Users
           /\ q.op \in {"updateTenant", "removeTenant"} => q.id \in Tenants
           /\ q.op \in {"updateUser", "removeUser"} => q.id \in Users
           /\ q.op \in {"updateKey", "revokeKey"} => q.id \in Keys
           /\ q.op \in OfProject => q.id \in Projects
           /\ q.name \in Names
           /\ q.email \in Emails \cup {NULL} /\ (q.op # "updateUser" => q.email \in Emails)
           /\ q.tenant \in Tenants \cup {NULL}
           /\ q.role \in Roles \cup {NULL} /\ (q.op # "updateUser" => q.role \in Roles)
           /\ q.revoked \in {"yes", "no", "asis"}
<1>1. IsRequest(q)
  BY RequestsAssumption
<1>2. QED
  BY <1>1 DEF IsRequest

\* An idle handler.
LEMMA IdleIsRight ==
    ASSUME NEW ids, NEW ends
    PROVE  Idle \in Handler /\ Right(Idle, ids, ends) /\ ~Holds(Idle)
  BY DEF Idle, Handler, Right, Holds

\* What a request in flight is.
LEMMA BusyIs ==
    ASSUME IInv, NEW h \in Handlers, handlers[h].pc # "idle"
    PROVE  /\ handlers[h] \in Handler /\ Asked(h) \in Requests /\ handlers[h].request = Asked(h)
           /\ Asks(handlers[h]) /\ handlers[h].barred = FALSE
           /\ Holds(handlers[h]) => SetsUp(handlers[h], used, settled)
  BY DEF IInv, Flight, Right, Asks, Asked

\* A request is answered: the others go on, whatever happened to tenants they do
\* not hold.
LEMMA AnswerKeepsFlight ==
    ASSUME Flight, NEW h \in Handlers, Answer(h), used \subseteq used',
           \A g \in Handlers \ {h} :
              Holds(handlers[g]) => settled'[handlers[g].tenant] \in {settled[handlers[g].tenant], "removed"}
    PROVE  Flight'
<1>1. \A g \in Handlers : handlers'[g] = IF g = h THEN Idle ELSE handlers[g]
  BY DEF Answer, Flight
<1>2. handlers' \in [Handlers -> Handler]
  BY IdleIsRight DEF Answer, Flight
<1>3. ASSUME NEW g \in Handlers
      PROVE  Right(handlers'[g], used', settled')
  <2>1. CASE g = h
    BY <1>1, <2>1, IdleIsRight
  <2>2. CASE g # h
    BY <1>1, <2>2 DEF Flight, Right, SetsUp
  <2>3. QED
    BY <2>1, <2>2
<1>4. \A g \in Handlers : Right(handlers[g], used, settled)'
  BY <1>3 DEF Right, SetsUp
<1>5. \A f, g \in Handlers :
         Holds(handlers'[f]) /\ Holds(handlers'[g]) /\ handlers'[f].tenant = handlers'[g].tenant => f = g
  BY <1>1, IdleIsRight DEF Flight
<1>6. QED
  BY <1>2, <1>4, <1>5 DEF Flight, Holds

\* A request goes on, and holds no tenant it did not hold before.
LEMMA GoOnKeepsFlight ==
    ASSUME Flight, NEW h \in Handlers, NEW n \in Handler,
           handlers' = [handlers EXCEPT ![h] = n],
           Right(n, used, settled),
           Holds(n) => Holds(handlers[h]) /\ n.tenant = handlers[h].tenant,
           UNCHANGED <<used, settled>>
    PROVE  Flight'
<1>1. \A g \in Handlers : handlers'[g] = IF g = h THEN n ELSE handlers[g]
  BY DEF Flight
<1>2. handlers' \in [Handlers -> Handler]
  BY DEF Flight
<1>3. \A g \in Handlers : Right(handlers[g], used, settled)'
  BY <1>1 DEF Flight, Right, SetsUp
<1>4. \A f, g \in Handlers :
         Holds(handlers'[f]) /\ Holds(handlers'[g]) /\ handlers'[f].tenant = handlers'[g].tenant => f = g
  BY <1>1 DEF Flight
<1>5. QED
  BY <1>2, <1>3, <1>4 DEF Flight, Holds

\* Keys that go, or stay as they are, leave the keys that are shut alone.
LEMMA KeysStay ==
    ASSUME ShutKeys, UNCHANGED shut, used \subseteq used',
           \A k \in Keys : keys'[k] \in {keys[k], NULL}
    PROVE  ShutKeys'
  BY DEF ShutKeys

\* So do tenants that stay.
LEMMA TenantsStay ==
    ASSUME Settled, UNCHANGED settled, used \subseteq used',
           used' \subseteq Tenants \cup Users \cup Keys,
           peopled \subseteq peopled', peopled' \subseteq Tenants,
           \A t \in Tenants : tenants'[t] = NULL <=> tenants[t] = NULL
    PROVE  Settled'
  BY DEF Settled

-------------------------------------------------------------------------------
(***************************************************************************)
(* Authentication.                                                         *)
(***************************************************************************)
\* A request that is let in acts for the tenant of its user.
LEMMA BeginKeeps ==
    ASSUME IInv, NEW h \in Handlers, NEW q \in Requests, NEW home, NEW barred,
           Begin(h, q, home, barred), barred = FALSE,
           \/ q.op = "register" /\ home = NULL
           \/ q.op # "register" /\ users[q.by] # NULL /\ home = users[q.by].tenant
    PROVE  IInv'
<1> DEFINE true == IF q.by = NULL THEN NULL ELSE users[q.by].tenant
           n == [Idle EXCEPT !.pc = FirstCall(q), !.request = q, !.home = home,
                             !.tenant = TenantOfNew(q), !.true = true, !.barred = barred]
<1>1. q.op \in Ops /\ (q.op # "register" => q.by \in Users) /\ q.tenant \in Tenants \cup {NULL}
  BY RequestsAsk
<1>2. q.op # "register" => users[q.by].tenant \in Tenants /\ users[q.by].tenant # NULL
                           /\ home = users[q.by].tenant /\ q.by # NULL
  BY <1>1, NullAssumption DEF IInv, Tables, User
<1>3. q.op = "register" => q.by = NULL
  BY RequestsAssumption DEF IsRequest
<1>4. /\ true \in Tenants \cup {NULL} /\ home \in Tenants \cup {NULL}
      /\ q.op # "register" => true = home /\ home \in Tenants
  BY <1>2, <1>3
<1>5. /\ TenantOfNew(q) \in Tenants \cup {NULL}
      /\ q.op \in {"register", "createUser"} => TenantOfNew(q) \in Tenants
  BY <1>1, <1>2, RootAssumption DEF TenantOfNew
<1>6. /\ FirstCall(q) \in {"name", "write", "read"}
      /\ FirstCall(q) = "name" => q.op = "onboard"
      /\ FirstCall(q) = "read" => q.op \notin {"onboard", "register", "createUser", "createKey"}
  BY DEF FirstCall
<1> HIDE DEF true
<1>7. n \in Handler
  BY <1>4, <1>5, <1>6 DEF Idle, Handler
<1>8. /\ n.pc = FirstCall(q) /\ n.request = q /\ n.home = home /\ n.tenant = TenantOfNew(q)
      /\ n.true = true /\ n.barred = FALSE
  BY DEF Idle
<1>9. ~Holds(n) /\ Right(n, used, settled)
  BY <1>1, <1>4, <1>5, <1>6, <1>8 DEF Right, Asks, Holds
<1>10. handlers' = [handlers EXCEPT ![h] = n]
       /\ UNCHANGED <<tenants, users, keys, projects, used, settled, peopled, shut>>
  BY DEF Begin, true
<1>11. Flight'
  <2> HIDE DEF n
  <2>1. QED
    BY <1>7, <1>9, <1>10, GoOnKeepsFlight DEF IInv
<1>12. Tables' /\ ShutKeys' /\ Settled'
  BY <1>10 DEF IInv, Tables, References, ShutKeys, Settled
<1>13. QED
  BY <1>11, <1>12 DEF IInv

\* By registration, by a token or by a key that is not revoked.
LEMMA NewRequestKeeps ==
    ASSUME IInv, NEW h \in Handlers, NewRequest(h)
    PROVE  IInv'
<1>1. PICK q \in Requests : Register(h, q) \/ ByToken(h, q) \/ \E k \in Keys : ByKey(h, q, k)
  BY DEF NewRequest
<1>2. CASE Register(h, q)
  BY <1>2, BeginKeeps DEF Register
<1>3. CASE ByToken(h, q)
  BY <1>3, BeginKeeps DEF ByToken
<1>4. CASE \E k \in Keys : ByKey(h, q, k)
  <2>1. PICK k \in Keys : ByKey(h, q, k)
    BY <1>4
  <2>2. keys[k] # NULL /\ ~keys[k].revoked /\ keys[k].user = q.by /\ q.op \in OfUser \cup OfKey
        /\ Begin(h, q, users[q.by].tenant, k \in shut)
    BY <2>1 DEF ByKey, Opens
  <2>3. (k \in shut) = FALSE
    BY <2>2 DEF IInv, ShutKeys
  <2>4. users[q.by] # NULL /\ q.op # "register"
    BY <2>2 DEF IInv, Tables, References, OfUser, OfKey
  <2>5. QED
    BY <2>2, <2>3, <2>4, BeginKeeps
<1>5. QED
  BY <1>1, <1>2, <1>3, <1>4

-------------------------------------------------------------------------------
(***************************************************************************)
(* Steps that write no table.                                              *)
(***************************************************************************)
\* A row is read, or a name is free.
LEMMA ReadKeeps ==
    ASSUME IInv, NEW h \in Handlers, Read(h) \/ CheckName(h)
    PROVE  IInv'
<1> DEFINE r == handlers[h]
<1>1. r.pc \in {"read", "name"} /\ UNCHANGED <<tenants, users, keys, projects, used, settled, peopled, shut>>
  BY DEF Read, CheckName, At
<1>2. r \in Handler /\ Asked(h) \in Requests /\ r.request = Asked(h) /\ Asks(r) /\ r.barred = FALSE
  BY <1>1, BusyIs
<1>3. Tables' /\ ShutKeys' /\ Settled'
  BY <1>1 DEF IInv, Tables, References, ShutKeys, Settled
<1>4. CASE Read(h)
  <2> DEFINE pc == IF Asked(h).op = "updateTenant" /\ Asked(h).name # tenants[Row(h)] THEN "name" ELSE "write"
             seen == IF Asked(h).op \in OfKey THEN keys[Row(h)] ELSE NULL
             n == [r EXCEPT !.pc = pc, !.seen = seen]
  <2>1. seen \in Key \cup {NULL}
    <3>1. CASE Asked(h).op \in OfKey
      <4>1. Asked(h).op \in {"updateKey", "revokeKey"}
        BY <1>2, <1>4, <3>1 DEF Read, At, Asks, OfKey
      <4>2. Row(h) \in Keys
        BY <1>2, <4>1, RequestsAsk DEF Row
      <4>3. QED
        BY <4>2 DEF IInv, Tables
    <3>2. CASE Asked(h).op \notin OfKey
      BY <3>2
    <3>3. QED
      BY <3>1, <3>2
  <2>2. pc \in {"name", "write"} /\ (pc = "name" => Asked(h).op = "updateTenant")
    OBVIOUS
  <2>3. handlers' = [handlers EXCEPT ![h] = n]
    BY <1>4 DEF Read, IInv, Flight
  <2> HIDE DEF pc, seen
  <2>4. /\ n \in Handler /\ n.pc = pc /\ n.request = r.request /\ n.home = r.home /\ n.tenant = r.tenant
        /\ n.true = r.true
    BY <1>2, <2>1, <2>2 DEF Handler
  <2>5. n.barred = FALSE
    BY <1>2 DEF Handler
  <2>6. ~Holds(n) /\ Right(n, used, settled)
    BY <1>2, <2>2, <2>4, <2>5 DEF Right, Asks, Holds
  <2>7. Flight'
    <3> HIDE DEF n
    <3>1. QED
      BY <1>1, <2>3, <2>4, <2>6, GoOnKeepsFlight DEF IInv
  <2>8. QED
    BY <1>3, <2>7 DEF IInv
<1>5. CASE CheckName(h)
  <2> DEFINE n == [r EXCEPT !.pc = "write"]
  <2>1. handlers' = [handlers EXCEPT ![h] = n]
    BY <1>5 DEF CheckName, GoTo, IInv, Flight
  <2>2. r.request.op \in {"onboard", "updateTenant"}
    BY <1>2, <1>5 DEF CheckName, At, Asks
  <2>3. /\ n \in Handler /\ n.pc = "write" /\ n.request = r.request /\ n.home = r.home /\ n.tenant = r.tenant
        /\ n.true = r.true
    BY <1>2 DEF Handler
  <2>4. n.barred = FALSE
    BY <1>2 DEF Handler
  <2>5. ~Holds(n) /\ Right(n, used, settled)
    BY <1>2, <2>2, <2>3, <2>4 DEF Right, Asks, Holds
  <2>6. Flight'
    <3> HIDE DEF n
    <3>1. QED
      BY <1>1, <2>1, <2>3, <2>5, GoOnKeepsFlight DEF IInv
  <2>7. QED
    BY <1>3, <2>6 DEF IInv
<1>6. QED
  BY <1>4, <1>5

\* An administrator cannot be inserted.
LEMMA AdminFailsKeeps ==
    ASSUME IInv, NEW h \in Handlers, AdminFails(h)
    PROVE  IInv'
<1> DEFINE r == handlers[h]
           n == [r EXCEPT !.pc = "undo"]
<1>1. r.pc = "user" /\ UNCHANGED <<tenants, users, keys, projects, used, settled, peopled, shut>>
  BY DEF AdminFails, At
<1>2. r \in Handler /\ Asks(r) /\ r.barred = FALSE /\ SetsUp(r, used, settled) /\ Holds(r)
  BY <1>1, BusyIs DEF Holds
<1>3. Tables' /\ ShutKeys' /\ Settled'
  BY <1>1 DEF IInv, Tables, References, ShutKeys, Settled
<1>4. handlers' = [handlers EXCEPT ![h] = n]
  BY DEF AdminFails, GoTo, IInv, Flight
<1>5. /\ n \in Handler /\ n.pc = "undo" /\ n.request = r.request /\ n.home = r.home /\ n.tenant = r.tenant
      /\ n.true = r.true
  BY <1>2 DEF Handler
<1>6. n.barred = FALSE
  BY <1>2 DEF Handler
<1>7. Right(n, used, settled)
  BY <1>2, <1>5, <1>6 DEF Right, Asks, SetsUp
<1>8. Flight'
  <2> HIDE DEF n
  <2>1. QED
    BY <1>1, <1>2, <1>4, <1>5, <1>7, GoOnKeepsFlight DEF IInv
<1>9. QED
  BY <1>3, <1>8 DEF IInv

\* An error is answered.
LEMMA RefuseKeeps ==
    ASSUME IInv, NEW h \in Handlers, Refuse(h)
    PROVE  IInv'
<1>1. Answer(h) /\ UNCHANGED <<tenants, users, keys, projects, used, settled, peopled, shut>>
  BY DEF Refuse
<1>2. Flight'
  BY <1>1, AnswerKeepsFlight DEF IInv
<1>3. Tables' /\ ShutKeys' /\ Settled'
  BY <1>1 DEF IInv, Tables, References, ShutKeys, Settled
<1>4. QED
  BY <1>2, <1>3 DEF IInv

\* A compensating call fails: the tenant was not settled as done.
LEMMA UndoFailsKeeps ==
    ASSUME IInv, NEW h \in Handlers, UndoFails(h)
    PROVE  IInv'
<1> DEFINE t == handlers[h].tenant
<1>1. handlers[h].pc = "undo" /\ Answer(h) /\ UNCHANGED <<tenants, users, keys, projects, used, peopled, shut>>
  BY DEF UndoFails, At
<1>2. settled' = [settled EXCEPT ![t] = "left"]
  BY DEF UndoFails, Settle
<1>3. SetsUp(handlers[h], used, settled) /\ Holds(handlers[h])
  BY <1>1, BusyIs DEF Holds
<1>4. \A g \in Handlers \ {h} : Holds(handlers[g]) => handlers[g].tenant # t /\ handlers[g].tenant \in Tenants
  BY <1>3 DEF IInv, Flight, Right, SetsUp
<1>5. Flight'
  BY <1>1, <1>2, <1>4, AnswerKeepsFlight DEF IInv, Settled
<1>6. Settled'
  BY <1>1, <1>2, <1>3 DEF IInv, Settled, SetsUp
<1>7. Tables' /\ ShutKeys'
  BY <1>1 DEF IInv, Tables, References, ShutKeys
<1>8. QED
  BY <1>5, <1>6, <1>7 DEF IInv

-------------------------------------------------------------------------------
(***************************************************************************)
(* Tenants.                                                                *)
(***************************************************************************)
\* A tenant is inserted under an id that nobody holds.
LEMMA InsertTenantKeeps ==
    ASSUME IInv, NEW h \in Handlers, InsertTenant(h)
    PROVE  IInv'
<1> DEFINE r == handlers[h]
<1>1. r.pc = "write" /\ Asked(h).op = "onboard" /\ UNCHANGED <<users, keys, projects, peopled, shut>>
  BY DEF InsertTenant, Calls, At
<1>2. r \in Handler /\ Asked(h) \in Requests /\ r.request = Asked(h) /\ Asks(r) /\ r.barred = FALSE
  BY <1>1, BusyIs
<1>3. Asked(h).name \in Names /\ Asked(h).name # NULL
  BY <1>2, RequestsAsk, NullAssumption
<1>4. PICK t \in Tenants :
         /\ t \notin used
         /\ tenants' = [tenants EXCEPT ![t] = Asked(h).name]
         /\ used' = used \cup {t}
         /\ settled' = [settled EXCEPT ![t] = "open"]
         /\ handlers' = [handlers EXCEPT ![h].pc = "user", ![h].tenant = t]
  BY DEF InsertTenant, Fresh, Settle
<1> DEFINE n == [r EXCEPT !.pc = "user", !.tenant = t]
<1>5. handlers' = [handlers EXCEPT ![h] = n]
  BY <1>4 DEF IInv, Flight
<1>6. /\ n \in Handler /\ n.pc = "user" /\ n.request = r.request /\ n.home = r.home /\ n.tenant = t
      /\ n.true = r.true
  BY <1>2 DEF Handler
<1>7. n.barred = FALSE
  BY <1>2 DEF Handler
<1>8. t \in used' /\ settled'[t] = "open"
  BY <1>4 DEF IInv, Settled
<1>9. Right(n, used', settled') /\ Holds(n)
  BY <1>1, <1>2, <1>6, <1>7, <1>8 DEF Right, Asks, SetsUp, Holds
<1> HIDE DEF n
<1>10. ASSUME NEW g \in Handlers, g # h
       PROVE  /\ handlers'[g] = handlers[g]
              /\ Right(handlers'[g], used', settled')
              /\ Holds(handlers[g]) => handlers[g].tenant # t
  <2>1. handlers'[g] = handlers[g] /\ Right(handlers[g], used, settled)
    BY <1>5, <1>10 DEF IInv, Flight
  <2>2. Holds(handlers[g]) => handlers[g].tenant # t /\ settled'[handlers[g].tenant] = settled[handlers[g].tenant]
    BY <1>4, <2>1 DEF Right, SetsUp, IInv, Settled
  <2>3. Holds(handlers[g]) => SetsUp(handlers[g], used, settled)
    BY <2>1 DEF Right
  <2>4. Holds(handlers[g]) => SetsUp(handlers[g], used', settled')
    BY <1>4, <2>2, <2>3 DEF SetsUp
  <2>5. Right(handlers[g], used', settled')
    BY <2>1, <2>4 DEF Right
  <2>6. QED
    BY <2>1, <2>2, <2>5
<1>11. Flight'
  <2>1. handlers'[h] = n /\ handlers' \in [Handlers -> Handler]
    BY <1>5, <1>6 DEF IInv, Flight
  <2>2. \A g \in Handlers : Right(handlers'[g], used', settled')
    BY <1>9, <1>10, <2>1
  <2>3. \A g \in Handlers : Right(handlers[g], used, settled)'
    BY <2>2 DEF Right, SetsUp
  <2>4. \A f, g \in Handlers :
           Holds(handlers'[f]) /\ Holds(handlers'[g]) /\ handlers'[f].tenant = handlers'[g].tenant => f = g
    BY <1>6, <1>10, <2>1 DEF IInv, Flight
  <2>5. QED
    BY <2>1, <2>3, <2>4 DEF Flight, Holds
<1>12. Settled'
  BY <1>1, <1>3, <1>4 DEF IInv, Settled
<1>13. Tables'
  <2>1. \A o \in Tenants : tenants[o] # NULL => tenants'[o] # NULL
    BY <1>3, <1>4 DEF IInv, Tables
  <2>2. tenants' \in [Tenants -> Names \cup {NULL}]
    BY <1>3, <1>4 DEF IInv, Tables
  <2>3. References'
    BY <1>1, <2>1 DEF IInv, Tables, References, User, Project
  <2>4. QED
    BY <1>1, <2>2, <2>3 DEF IInv, Tables
<1>14. ShutKeys'
  BY <1>1, <1>4, KeysStay DEF IInv
<1>15. QED
  BY <1>11, <1>12, <1>13, <1>14 DEF IInv

\* A tenant goes with its users, their keys and its projects: what is left refers
\* to nothing that is gone.
LEMMA CascadeKeeps ==
    ASSUME IInv, NEW t \in Tenants, Deletable(t), Cascade({t})
    PROVE  /\ Tables'
           /\ \A k \in Keys : keys'[k] \in {keys[k], NULL}
           /\ tenants' = [tenants EXCEPT ![t] = NULL]
           /\ \A p \in Projects : projects'[p] # projects[p] => projects[p].tenant = t
<1>1. \A o \in Tenants : tenants'[o] = IF o = t THEN NULL ELSE tenants[o]
  BY DEF Cascade
<1>2. \A u \in Users : users'[u] = IF users[u] # NULL /\ users[u].tenant = t THEN NULL ELSE users[u]
  BY DEF Cascade, Members
<1>3. \A k \in Keys : keys'[k] = IF keys[k] # NULL /\ keys[k].user \in Members(t) THEN NULL ELSE keys[k]
  BY DEF Cascade
<1>4. \A p \in Projects : projects'[p] = IF projects[p] # NULL /\ projects[p].tenant = t THEN NULL ELSE projects[p]
  BY DEF Cascade
<1>5. /\ tenants' \in [Tenants -> Names \cup {NULL}]
      /\ users' \in [Users -> User \cup {NULL}]
      /\ keys' \in [Keys -> Key \cup {NULL}]
      /\ projects' \in [Projects -> Project \cup {NULL}]
  BY DEF Cascade, IInv, Tables
<1>6. \A u \in Users : users'[u] # NULL => tenants'[users'[u].tenant] # NULL
  BY <1>1, <1>2 DEF IInv, Tables, References, User
<1>7. \A k \in Keys : keys'[k] # NULL => users'[keys'[k].user] # NULL
  <2> SUFFICES ASSUME NEW k \in Keys, keys'[k] # NULL
               PROVE  users'[keys'[k].user] # NULL
    OBVIOUS
  <2>1. keys'[k] = keys[k] /\ keys[k] \in Key /\ keys[k].user \notin Members(t)
    BY <1>3 DEF IInv, Tables
  <2>2. keys[k].user \in Users /\ users[keys[k].user] # NULL
    BY <2>1 DEF IInv, Tables, References, Key
  <2>3. QED
    BY <1>2, <2>1, <2>2 DEF Members
<1>8. \A p \in Projects : projects'[p] # NULL =>
         tenants'[projects'[p].tenant] # NULL /\ users'[projects'[p].owner] # NULL
  <2> SUFFICES ASSUME NEW p \in Projects, projects'[p] # NULL
               PROVE  tenants'[projects'[p].tenant] # NULL /\ users'[projects'[p].owner] # NULL
    OBVIOUS
  <2>1. projects'[p] = projects[p] /\ projects[p] \in Project /\ projects[p].tenant # t
    BY <1>4 DEF IInv, Tables
  <2>2. /\ projects[p].owner \in Users /\ users[projects[p].owner] # NULL
        /\ projects[p].tenant \in Tenants /\ tenants[projects[p].tenant] # NULL
    BY <2>1 DEF IInv, Tables, References, Project
  <2>3. projects[p].owner \notin Members(t)
    BY <2>1 DEF Deletable, OwnedBy
  <2>4. QED
    BY <1>1, <1>2, <2>1, <2>2, <2>3 DEF Members
<1>9. tenants' = [tenants EXCEPT ![t] = NULL]
  BY <1>1, <1>5 DEF IInv, Tables, Cascade
<1>10. Tables'
  BY <1>5, <1>6, <1>7, <1>8 DEF Tables, References
<1>11. QED
  BY <1>3, <1>4, <1>9, <1>10

\* The compensating call deletes the tenant that is held.
LEMMA UndoKeeps ==
    ASSUME IInv, NEW h \in Handlers, Undo(h)
    PROVE  IInv'
<1> DEFINE t == handlers[h].tenant
<1>1. /\ handlers[h].pc = "undo" /\ Answer(h) /\ UNCHANGED <<used, peopled, shut>>
      /\ Deletable(t) /\ Cascade({t}) /\ settled' = [settled EXCEPT ![t] = "undone"]
  BY DEF Undo, At, Settle
<1>2. SetsUp(handlers[h], used, settled) /\ Holds(handlers[h])
  BY <1>1, BusyIs DEF Holds
<1>3. t \in Tenants /\ t \in used
  BY <1>2 DEF SetsUp
<1>4. \A g \in Handlers \ {h} : Holds(handlers[g]) => handlers[g].tenant # t /\ handlers[g].tenant \in Tenants
  BY <1>2 DEF IInv, Flight, Right, SetsUp
<1>5. Flight'
  BY <1>1, <1>4, AnswerKeepsFlight DEF IInv, Settled
<1>6. /\ Tables' /\ (\A k \in Keys : keys'[k] \in {keys[k], NULL})
      /\ tenants' = [tenants EXCEPT ![t] = NULL]
  BY <1>1, <1>3, CascadeKeeps
<1>7. ShutKeys'
  BY <1>1, <1>6, KeysStay DEF IInv
<1>8. Settled'
  BY <1>1, <1>3, <1>6 DEF IInv, Settled, Tables
<1>9. QED
  BY <1>5, <1>6, <1>7, <1>8 DEF IInv

\* Somebody removes a tenant, even one that is being set up.
LEMMA RemoveTenantKeeps ==
    ASSUME IInv, NEW h \in Handlers, RemoveTenant(h)
    PROVE  IInv'
<1> DEFINE t == Row(h)
<1>1. /\ handlers[h].pc = "write" /\ Asked(h).op = "removeTenant" /\ Answer(h)
      /\ UNCHANGED <<used, peopled, shut>>
      /\ Deletable(t) /\ Cascade({t}) /\ settled' = [settled EXCEPT ![t] = "removed"]
  BY DEF RemoveTenant, Calls, At, Settle
<1>2. t \in Tenants
  BY <1>1, BusyIs, RequestsAsk DEF Row
<1> HIDE DEF t
<1>3. t \in used
  BY <1>1, <1>2 DEF Deletable, IInv, Settled
<1>4. \A g \in Handlers \ {h} :
         Holds(handlers[g]) => settled'[handlers[g].tenant] \in {settled[handlers[g].tenant], "removed"}
  BY <1>1 DEF IInv, Flight, Right, SetsUp, Settled
<1>5. Flight'
  BY <1>1, <1>4, AnswerKeepsFlight DEF IInv
<1>6. /\ Tables' /\ (\A k \in Keys : keys'[k] \in {keys[k], NULL})
      /\ tenants' = [tenants EXCEPT ![t] = NULL]
  BY <1>1, <1>2, CascadeKeeps
<1>7. ShutKeys'
  BY <1>1, <1>6, KeysStay DEF IInv
<1>8. Settled'
  BY <1>1, <1>2, <1>3, <1>6 DEF IInv, Settled, Tables
<1>9. QED
  BY <1>5, <1>6, <1>7, <1>8 DEF IInv

\* A tenant is renamed.
LEMMA UpdateTenantKeeps ==
    ASSUME IInv, NEW h \in Handlers, UpdateTenant(h)
    PROVE  IInv'
<1>1. /\ handlers[h].pc = "write" /\ Asked(h).op = "updateTenant" /\ Answer(h)
      /\ UNCHANGED <<users, keys, projects, used, settled, peopled, shut>>
      /\ tenants[Row(h)] # NULL /\ tenants' = [tenants EXCEPT ![Row(h)] = Asked(h).name]
  BY DEF UpdateTenant, Calls, At
<1>2. Row(h) \in Tenants /\ Asked(h).name \in Names /\ Asked(h).name # NULL
  BY <1>1, BusyIs, RequestsAsk, NullAssumption DEF Row
<1>3. /\ tenants' \in [Tenants -> Names \cup {NULL}]
      /\ \A t \in Tenants : tenants'[t] = NULL <=> tenants[t] = NULL
  BY <1>1, <1>2 DEF IInv, Tables
<1>4. Tables'
  BY <1>1, <1>3 DEF IInv, Tables, References, User, Project
<1>5. Settled'
  BY <1>1, <1>3, TenantsStay DEF IInv, Settled
<1>6. Flight' /\ ShutKeys'
  BY <1>1, AnswerKeepsFlight, KeysStay DEF IInv
<1>7. QED
  BY <1>4, <1>5, <1>6 DEF IInv

-------------------------------------------------------------------------------
(***************************************************************************)
(* Users.                                                                  *)
(***************************************************************************)
\* A user is inserted into a tenant that is there.
LEMMA InsertUserKeeps ==
    ASSUME IInv, NEW email \in Emails, NEW tenant \in Tenants, NEW role \in Roles,
           InsertUser(email, tenant, role), UNCHANGED <<tenants, keys, projects, shut>>
    PROVE  /\ Tables' /\ ShutKeys'
           /\ used \subseteq used' /\ used' \subseteq Tenants \cup Users \cup Keys
           /\ peopled' = peopled \cup {tenant} /\ tenants[tenant] # NULL
<1> DEFINE row == [email |-> email, tenant |-> tenant, role |-> role]
<1>1. PICK u \in Users : users' = [users EXCEPT ![u] = row] /\ used' = used \cup {u}
  BY DEF InsertUser, Fresh
<1>2. row \in User /\ row # NULL /\ row.tenant = tenant
  BY NullIsNoRow DEF User
<1> HIDE DEF row
<1>3. /\ users' \in [Users -> User \cup {NULL}]
      /\ \A v \in Users : users[v] # NULL => users'[v] # NULL
      /\ \A v \in Users : users'[v] = users[v] \/ users'[v] = row
  BY <1>1, <1>2 DEF IInv, Tables
<1>4. tenants[tenant] # NULL /\ peopled' = peopled \cup {tenant}
  BY DEF InsertUser
<1>5. References'
  <2>1. \A v \in Users : users'[v] # NULL => tenants[users'[v].tenant] # NULL
    BY <1>2, <1>3, <1>4 DEF IInv, Tables, References
  <2>2. \A k \in Keys : keys[k] # NULL => users'[keys[k].user] # NULL
    BY <1>3 DEF IInv, Tables, References, Key
  <2>3. \A p \in Projects : projects[p] # NULL =>
           tenants[projects[p].tenant] # NULL /\ users'[projects[p].owner] # NULL
    BY <1>3 DEF IInv, Tables, References, Project
  <2>4. QED
    BY <2>1, <2>2, <2>3 DEF References
<1>6. Tables'
  BY <1>3, <1>5 DEF IInv, Tables
<1>7. ShutKeys'
  BY <1>1, KeysStay DEF IInv
<1>8. QED
  BY <1>1, <1>4, <1>6, <1>7 DEF IInv, Settled

\* The first administrator of a tenant.
LEMMA InsertAdminKeeps ==
    ASSUME IInv, NEW h \in Handlers, InsertAdmin(h)
    PROVE  IInv'
<1> DEFINE t == handlers[h].tenant
<1>1. /\ handlers[h].pc = "user" /\ Answer(h) /\ UNCHANGED <<tenants, keys, projects, shut>>
      /\ InsertUser(Asked(h).email, t, "tenant_admin") /\ settled' = [settled EXCEPT ![t] = "done"]
  BY DEF InsertAdmin, At, Settle
<1>2. /\ SetsUp(handlers[h], used, settled) /\ Holds(handlers[h])
      /\ Asked(h) \in Requests /\ Asked(h) = handlers[h].request
  BY <1>1, BusyIs DEF Holds
<1>3. t \in Tenants /\ t \in used /\ Asked(h).email \in Emails
  BY <1>2, RequestsAsk DEF SetsUp
<1>4. /\ Tables' /\ ShutKeys'
      /\ used \subseteq used' /\ used' \subseteq Tenants \cup Users \cup Keys
      /\ peopled' = peopled \cup {t} /\ tenants[t] # NULL
  BY <1>1, <1>3, InsertUserKeeps DEF Roles
<1>5. \A g \in Handlers \ {h} : Holds(handlers[g]) => handlers[g].tenant # t /\ handlers[g].tenant \in Tenants
  BY <1>2 DEF IInv, Flight, Right, SetsUp
<1>6. Flight'
  BY <1>1, <1>4, <1>5, AnswerKeepsFlight DEF IInv, Settled
<1>7. Settled'
  BY <1>1, <1>3, <1>4 DEF IInv, Settled
<1>8. QED
  BY <1>4, <1>6, <1>7 DEF IInv

\* Another user.
LEMMA CreateUserKeeps ==
    ASSUME IInv, NEW h \in Handlers, CreateUser(h)
    PROVE  IInv'
<1> DEFINE role == IF Asked(h).op = "register" THEN "user" ELSE Asked(h).role
<1>1. /\ handlers[h].pc = "write" /\ Answer(h) /\ UNCHANGED <<tenants, keys, projects, settled, shut>>
      /\ InsertUser(Asked(h).email, handlers[h].tenant, role) /\ Asked(h).op \in {"register", "createUser"}
  BY DEF CreateUser, At
<1>2. Asks(handlers[h]) /\ Asked(h) \in Requests /\ Asked(h) = handlers[h].request
  BY <1>1, BusyIs
<1>3. handlers[h].tenant \in Tenants /\ Asked(h).email \in Emails /\ role \in Roles
  BY <1>1, <1>2, RequestsAsk DEF Asks, Roles
<1>4. /\ Tables' /\ ShutKeys'
      /\ used \subseteq used' /\ used' \subseteq Tenants \cup Users \cup Keys
      /\ peopled' = peopled \cup {handlers[h].tenant}
  BY <1>1, <1>3, InsertUserKeeps
<1>5. Flight'
  BY <1>1, <1>4, AnswerKeepsFlight DEF IInv
<1>6. Settled'
  BY <1>1, <1>3, <1>4, TenantsStay DEF IInv, Settled
<1>7. QED
  BY <1>4, <1>5, <1>6 DEF IInv

\* A user is changed, and perhaps moved to a tenant that is there.
LEMMA UpdateUserKeeps ==
    ASSUME IInv, NEW h \in Handlers, UpdateUser(h)
    PROVE  IInv'
<1> DEFINE q == Asked(h)
           u == Row(h)
           row == [email  |-> Given(q.email, users[u].email),
                   tenant |-> Given(q.tenant, users[u].tenant),
                   role   |-> Given(q.role, users[u].role)]
<1>1. /\ handlers[h].pc = "write" /\ Asked(h).op = "updateUser" /\ Answer(h)
      /\ UNCHANGED <<tenants, keys, projects, used, settled, shut>>
      /\ users[u] # NULL /\ (q.tenant # NULL => tenants[q.tenant] # NULL)
      /\ users' = [users EXCEPT ![u] = row]
      /\ peopled' = peopled \cup ({q.tenant} \ {NULL})
  BY DEF UpdateUser, Calls, At
<1>2. /\ u \in Users /\ q.tenant \in Tenants \cup {NULL}
      /\ q.email \in Emails \cup {NULL} /\ q.role \in Roles \cup {NULL}
  BY <1>1, BusyIs, RequestsAsk DEF Row
<1>3. users[u] \in User /\ tenants[users[u].tenant] # NULL
  BY <1>1, <1>2 DEF IInv, Tables, References
<1>4. row \in User /\ row # NULL /\ tenants[row.tenant] # NULL
  BY <1>1, <1>2, <1>3, NullIsNoRow DEF User, Given
<1> HIDE DEF row, u, q
<1>5. /\ users' \in [Users -> User \cup {NULL}]
      /\ \A v \in Users : users[v] # NULL => users'[v] # NULL
      /\ \A v \in Users : users'[v] = users[v] \/ users'[v] = row
  BY <1>1, <1>2, <1>4 DEF IInv, Tables
<1>6. References'
  <2>1. \A v \in Users : users'[v] # NULL => tenants[users'[v].tenant] # NULL
    BY <1>4, <1>5 DEF IInv, Tables, References
  <2>2. \A k \in Keys : keys[k] # NULL => users'[keys[k].user] # NULL
    BY <1>5 DEF IInv, Tables, References, Key
  <2>3. \A p \in Projects : projects[p] # NULL =>
           tenants[projects[p].tenant] # NULL /\ users'[projects[p].owner] # NULL
    BY <1>5 DEF IInv, Tables, References, Project
  <2>4. QED
    BY <1>1, <2>1, <2>2, <2>3 DEF References
<1>7. Tables'
  BY <1>1, <1>5, <1>6 DEF IInv, Tables
<1>8. Settled'
  BY <1>1, <1>2, TenantsStay DEF IInv, Settled
<1>9. Flight' /\ ShutKeys'
  BY <1>1, AnswerKeepsFlight, KeysStay DEF IInv
<1>10. QED
  BY <1>7, <1>8, <1>9 DEF IInv

\* A user who owns no project goes, with the keys.
LEMMA RemoveUserKeeps ==
    ASSUME IInv, NEW h \in Handlers, RemoveUser(h)
    PROVE  IInv'
<1> DEFINE u == Row(h)
<1>1. /\ handlers[h].pc = "write" /\ Asked(h).op = "removeUser" /\ Answer(h)
      /\ UNCHANGED <<tenants, projects, used, settled, peopled, shut>>
      /\ OwnedBy({u}) = {}
      /\ users' = [users EXCEPT ![u] = NULL]
      /\ keys' = [k \in Keys |-> IF keys[k] # NULL /\ keys[k].user = u THEN NULL ELSE keys[k]]
  BY DEF RemoveUser, Calls, At
<1>2. u \in Users
  BY <1>1, BusyIs, RequestsAsk DEF Row
<1> HIDE DEF u
<1>3. /\ users' \in [Users -> User \cup {NULL}]
      /\ \A v \in Users : users'[v] = IF v = u THEN NULL ELSE users[v]
  BY <1>1, <1>2 DEF IInv, Tables
<1>4. /\ keys' \in [Keys -> Key \cup {NULL}]
      /\ \A k \in Keys : keys'[k] \in {keys[k], NULL}
      /\ \A k \in Keys : keys'[k] # NULL => keys'[k] = keys[k] /\ keys[k].user # u
  BY <1>1 DEF IInv, Tables
<1>5. References'
  <2>1. \A v \in Users : users'[v] # NULL => tenants[users'[v].tenant] # NULL
    BY <1>3 DEF IInv, Tables, References
  <2>2. \A k \in Keys : keys'[k] # NULL => users'[keys'[k].user] # NULL
    BY <1>3, <1>4 DEF IInv, Tables, References, Key
  <2>3. \A p \in Projects : projects[p] # NULL =>
           tenants[projects[p].tenant] # NULL /\ users'[projects[p].owner] # NULL
    BY <1>1, <1>3 DEF IInv, Tables, References, Project, OwnedBy
  <2>4. QED
    BY <1>1, <2>1, <2>2, <2>3 DEF References
<1>6. Tables'
  BY <1>1, <1>3, <1>4, <1>5 DEF IInv, Tables
<1>7. Settled'
  BY <1>1, TenantsStay DEF IInv, Settled
<1>8. Flight' /\ ShutKeys'
  BY <1>1, <1>4, AnswerKeepsFlight, KeysStay DEF IInv
<1>9. QED
  BY <1>6, <1>7, <1>8 DEF IInv

-------------------------------------------------------------------------------
(***************************************************************************)
(* API keys.                                                               *)
(***************************************************************************)
\* A key that is written keeps the tables when its user is there.
LEMMA KeyWritten ==
    ASSUME IInv, UNCHANGED <<tenants, users, projects>>,
           NEW k \in Keys, NEW row \in Key, users[row.user] # NULL,
           keys' = [keys EXCEPT ![k] = row]
    PROVE  Tables'
<1>1. keys' \in [Keys -> Key \cup {NULL}] /\ \A j \in Keys : keys'[j] = IF j = k THEN row ELSE keys[j]
  BY DEF IInv, Tables
<1>2. \A j \in Keys : keys'[j] # NULL => users[keys'[j].user] # NULL
  BY <1>1 DEF IInv, Tables, References
<1>3. QED
  BY <1>1, <1>2 DEF IInv, Tables, References

\* A key is made.
LEMMA CreateKeyKeeps ==
    ASSUME IInv, NEW h \in Handlers, CreateKey(h)
    PROVE  IInv'
<1>1. /\ handlers[h].pc = "write" /\ Asked(h).op = "createKey" /\ Answer(h)
      /\ UNCHANGED <<tenants, users, projects, settled, peopled, shut>>
      /\ users[Asked(h).by] # NULL
  BY DEF CreateKey, Calls, At
<1> DEFINE row == [user |-> Asked(h).by, revoked |-> FALSE, expired |-> FALSE]
<1>2. PICK k \in Keys : k \notin used /\ keys' = [keys EXCEPT ![k] = row] /\ used' = used \cup {k}
  BY DEF CreateKey, Fresh
<1>3. Asked(h).by \in Users
  BY <1>1, BusyIs, RequestsAsk
<1>4. row \in Key /\ row.user = Asked(h).by
  BY <1>3 DEF Key
<1> HIDE DEF row
<1>5. Tables'
  BY <1>1, <1>2, <1>4, KeyWritten
<1>6. ShutKeys'
  <2>1. \A j \in Keys : j # k => keys'[j] = keys[j]
    BY <1>2 DEF IInv, Tables
  <2>2. k \notin shut
    BY <1>2 DEF IInv, ShutKeys
  <2>3. QED
    BY <1>1, <1>2, <2>1, <2>2 DEF IInv, ShutKeys
<1>7. Settled'
  BY <1>1, <1>2, TenantsStay DEF IInv, Settled
<1>8. Flight'
  BY <1>1, <1>2, AnswerKeepsFlight DEF IInv
<1>9. QED
  BY <1>5, <1>6, <1>7, <1>8 DEF IInv

\* What the owner of a key says of revocation is what is written.
LEMMA SayingKeeps ==
    ASSUME IInv, NEW h \in Handlers, Answer(h), Row(h) \in Keys, keys[Row(h)] # NULL,
           NEW says \in {"yes", "no", "asis"}, Told(h, says),
           NEW revoked \in BOOLEAN, NEW expired \in BOOLEAN,
           keys' = [keys EXCEPT ![Row(h)].revoked = revoked, ![Row(h)].expired = expired],
           says = "yes" => revoked = TRUE,
           says = "asis" => revoked = keys[Row(h)].revoked,
           UNCHANGED <<tenants, users, projects, used, settled, peopled>>
    PROVE  IInv'
<1> DEFINE k == Row(h)
           row == [keys[k] EXCEPT !.revoked = revoked, !.expired = expired]
<1>1. keys[k] \in Key /\ users[keys[k].user] # NULL /\ k \in used
  BY DEF IInv, Tables, References, ShutKeys
<1>2. row \in Key /\ row.user = keys[k].user /\ row.revoked = revoked
  BY <1>1 DEF Key
<1>3. keys' = [keys EXCEPT ![k] = row]
  BY DEF IInv, Tables
<1> HIDE DEF row
<1>4. Tables'
  BY <1>1, <1>2, <1>3, KeyWritten
<1>5. \A j \in Keys : keys'[j] = IF j = k THEN row ELSE keys[j]
  BY <1>3 DEF IInv, Tables
<1>6. ShutKeys'
  <2>1. CASE says = "yes"
    <3>1. shut' = shut \cup {k}
      BY <2>1 DEF Told
    <3>2. QED
      BY <1>1, <1>2, <1>5, <2>1, <3>1 DEF IInv, ShutKeys
  <2>2. CASE says = "no"
    <3>1. shut' = shut \ {k}
      BY <2>2 DEF Told
    <3>2. QED
      BY <1>1, <1>5, <3>1 DEF IInv, ShutKeys
  <2>3. CASE says = "asis"
    <3>1. shut' = shut
      BY <2>3 DEF Told
    <3>2. QED
      BY <1>1, <1>2, <1>5, <2>3, <3>1 DEF IInv, ShutKeys
  <2>4. QED
    BY <2>1, <2>2, <2>3
<1>7. Settled'
  BY TenantsStay DEF IInv, Settled
<1>8. Flight'
  BY AnswerKeepsFlight DEF IInv
<1>9. QED
  BY <1>4, <1>6, <1>7, <1>8 DEF IInv

\* A key is changed or revoked.
LEMMA KeyKeeps ==
    ASSUME IInv, NEW h \in Handlers, UpdateKey(h) \/ RevokeKey(h)
    PROVE  IInv'
<1>1. /\ handlers[h].pc = "write" /\ Asked(h).op \in {"updateKey", "revokeKey"} /\ Answer(h)
      /\ UNCHANGED <<tenants, users, projects, used, settled, peopled>>
      /\ keys[Row(h)] # NULL
  BY DEF UpdateKey, RevokeKey, Calls, At
<1>2. Row(h) \in Keys /\ Asked(h).revoked \in {"yes", "no", "asis"}
  BY <1>1, BusyIs, RequestsAsk DEF Row
<1>3. keys[Row(h)].revoked \in BOOLEAN
  BY <1>1, <1>2 DEF IInv, Tables, Key
<1>4. CASE UpdateKey(h)
  <2> DEFINE revoked == IF Asked(h).revoked = "asis" THEN keys[Row(h)].revoked ELSE Asked(h).revoked = "yes"
  <2>1. /\ \E expired \in BOOLEAN :
              keys' = [keys EXCEPT ![Row(h)].revoked = revoked, ![Row(h)].expired = expired]
        /\ Told(h, Asked(h).revoked)
    BY <1>4 DEF UpdateKey
  <2>2. revoked \in BOOLEAN
    BY <1>3, Zenon
  <2>3. Asked(h).revoked = "yes" => revoked = TRUE
    <3>1. "yes" # "asis"
      OBVIOUS
    <3>2. ASSUME Asked(h).revoked = "yes" PROVE revoked = TRUE
      <4>1. revoked = (Asked(h).revoked = "yes")
        BY <3>1, <3>2, Zenon
      <4>2. QED
        BY <3>2, <4>1, Zenon
    <3>3. QED
      BY <3>2
  <2>4. Asked(h).revoked = "asis" => revoked = keys[Row(h)].revoked
    BY Zenon
  <2> HIDE DEF revoked
  <2>5. QED
    BY <1>1, <1>2, <2>1, <2>2, <2>3, <2>4, SayingKeeps
<1>5. CASE RevokeKey(h)
  <2>1. keys[Row(h)] \in Key /\ keys[Row(h)].expired \in BOOLEAN
    BY <1>1, <1>2 DEF IInv, Tables, Key
  <2>2. keys' = [keys EXCEPT ![Row(h)].revoked = TRUE, ![Row(h)].expired = keys[Row(h)].expired]
    BY <1>2, <1>5, <2>1 DEF RevokeKey, IInv, Tables, Key
  <2>3. Told(h, "yes")
    BY <1>5 DEF RevokeKey
  <2>4. QED
    BY <1>1, <1>2, <2>1, <2>2, <2>3, SayingKeeps
<1>6. QED
  BY <1>4, <1>5

\* A key expires.
LEMMA ExpireKeeps ==
    ASSUME IInv, NEW k \in Keys, Expire(k)
    PROVE  IInv'
<1> DEFINE row == [keys[k] EXCEPT !.expired = TRUE]
<1>1. keys[k] \in Key /\ users[keys[k].user] # NULL /\ k \in used
  BY DEF Expire, IInv, Tables, References, ShutKeys
<1>2. row \in Key /\ row.user = keys[k].user /\ row.revoked = keys[k].revoked
  BY <1>1 DEF Key
<1>3. keys' = [keys EXCEPT ![k] = row]
      /\ UNCHANGED <<tenants, users, projects, used, handlers, settled, peopled, shut>>
  BY DEF Expire, IInv, Tables
<1> HIDE DEF row
<1>4. Tables'
  BY <1>1, <1>2, <1>3, KeyWritten
<1>5. \A j \in Keys : keys'[j] = IF j = k THEN row ELSE keys[j]
  BY <1>3 DEF IInv, Tables
<1>6. ShutKeys'
  <2>1. \A j \in shut : keys'[j] # NULL => keys'[j].revoked = TRUE
    <3>1. SUFFICES ASSUME NEW j \in shut, keys'[j] # NULL
                   PROVE  keys'[j].revoked = TRUE
      OBVIOUS
    <3>2. j \in Keys /\ (keys[j] # NULL => keys[j].revoked = TRUE)
      BY <3>1 DEF IInv, ShutKeys
    <3>3. CASE j = k
      <4>1. keys[k] # NULL /\ keys'[j] = row
        BY <1>5, <3>2, <3>3 DEF Expire
      <4>2. keys[k].revoked = TRUE
        BY <3>2, <3>3, <4>1, Zenon
      <4>3. QED
        BY <1>2, <4>1, <4>2, Zenon
    <3>4. CASE j # k
      <4>1. keys'[j] = keys[j]
        BY <1>5, <3>2, <3>4
      <4>2. QED
        BY <3>1, <3>2, <4>1, Zenon
    <3>5. QED
      BY <3>3, <3>4
  <2>2. QED
    BY <1>1, <1>3, <1>5, <2>1 DEF IInv, ShutKeys
<1>7. Settled' /\ Flight'
  BY <1>3 DEF IInv, Settled, Flight, Right, Asks, SetsUp, Holds
<1>8. QED
  BY <1>4, <1>6, <1>7 DEF IInv

-------------------------------------------------------------------------------
(***************************************************************************)
(* Projects.                                                               *)
(***************************************************************************)
\* A project is created, changed or removed.
LEMMA ProjectKeeps ==
    ASSUME IInv, NEW h \in Handlers, CreateProject(h) \/ UpdateProject(h) \/ RemoveProject(h)
    PROVE  IInv'
<1>1. /\ handlers[h].pc = "write" /\ Asked(h).op \in OfProject /\ Answer(h)
      /\ UNCHANGED <<tenants, users, keys, used, settled, peopled, shut>>
  BY DEF CreateProject, UpdateProject, RemoveProject, Calls, At, OfProject
<1>2. /\ Row(h) \in Projects /\ Asked(h).name \in Names /\ Asked(h).by \in Users
      /\ handlers[h].home \in Tenants
  BY <1>1, BusyIs, RequestsAsk DEF Row, Asks, OfProject
<1>3. /\ projects' \in [Projects -> Project \cup {NULL}]
      /\ \A p \in Projects : projects'[p] # NULL =>
            tenants[projects'[p].tenant] # NULL /\ users[projects'[p].owner] # NULL
  <2>1. CASE CreateProject(h)
    <3> DEFINE row == [tenant |-> handlers[h].home, owner |-> Asked(h).by, name |-> Asked(h).name]
    <3>1. row \in Project /\ tenants[row.tenant] # NULL /\ users[row.owner] # NULL
      BY <1>2, <2>1 DEF CreateProject, Project
    <3>2. projects' = [projects EXCEPT ![Row(h)] = row]
      BY <2>1 DEF CreateProject
    <3> HIDE DEF row
    <3>3. QED
      BY <1>2, <3>1, <3>2 DEF IInv, Tables, References
  <2>2. CASE UpdateProject(h)
    <3> DEFINE row == [projects[Row(h)] EXCEPT !.name = Asked(h).name]
    <3>1. projects[Row(h)] \in Project /\ projects[Row(h)] # NULL
      BY <1>2, <2>2 DEF UpdateProject, Mine, IInv, Tables
    <3>2. row \in Project /\ row.tenant = projects[Row(h)].tenant /\ row.owner = projects[Row(h)].owner
      BY <1>2, <3>1 DEF Project
    <3>3. projects' = [projects EXCEPT ![Row(h)] = row]
      BY <2>2 DEF UpdateProject, IInv, Tables
    <3> HIDE DEF row
    <3>4. QED
      BY <1>2, <3>1, <3>2, <3>3 DEF IInv, Tables, References
  <2>3. CASE RemoveProject(h)
    BY <1>2, <2>3 DEF RemoveProject, IInv, Tables, References
  <2>4. QED
    BY <2>1, <2>2, <2>3
<1>4. Tables'
  BY <1>1, <1>3 DEF IInv, Tables, References
<1>5. ShutKeys' /\ Settled'
  BY <1>1, KeysStay, TenantsStay DEF IInv, Settled
<1>6. Flight'
  BY <1>1, AnswerKeepsFlight DEF IInv
<1>7. QED
  BY <1>4, <1>5, <1>6 DEF IInv

-------------------------------------------------------------------------------
(***************************************************************************)
(* The invariant.                                                          *)
(***************************************************************************)
\* The process dies.
LEMMA CrashKeeps ==
    ASSUME IInv, Crash
    PROVE  IInv'
<1>1. /\ UNCHANGED <<tenants, users, keys, projects, used, peopled, shut>>
      /\ handlers' = [h \in Handlers |-> Idle]
      /\ settled' = [t \in Tenants |-> IF settled[t] = "open" THEN "left" ELSE settled[t]]
  BY DEF Crash
<1>2. Flight'
  <2>1. handlers' \in [Handlers -> Handler]
        /\ \A h \in Handlers : handlers'[h].pc = "idle" /\ handlers'[h].barred = FALSE
    BY <1>1, IdleIsRight DEF Idle
  <2>2. QED
    BY <2>1 DEF Flight, Right, Holds
<1>3. Settled'
  BY <1>1 DEF IInv, Settled
<1>4. Tables' /\ ShutKeys'
  BY <1>1 DEF IInv, Tables, References, ShutKeys
<1>5. QED
  BY <1>2, <1>3, <1>4 DEF IInv

\* What the seed leaves behind is right.
LEMMA InitIsRight == Init => IInv
<1> SUFFICES ASSUME Init
             PROVE  IInv
  OBVIOUS
<1> DEFINE root == [email |-> RootEmail, tenant |-> Seeded, role |-> "admin"]
<1>1. root \in User /\ root.tenant = Seeded
  BY RootAssumption DEF User, Roles
<1>2. /\ {Default, Seeded} \subseteq Tenants /\ Root \in Users /\ RootName \in Names /\ RootName # NULL
  BY RootAssumption, NullAssumption
<1>3. users = [u \in Users |-> IF u = Root THEN root ELSE NULL]
  BY DEF Init
<1> HIDE DEF root
<1>4. Tables
  BY <1>1, <1>2, <1>3 DEF Init, Tables, References
<1>5. ShutKeys
  BY DEF Init, ShutKeys
<1>6. Settled
  BY <1>2 DEF Init, Settled
<1>7. Flight
  BY IdleIsRight DEF Init, Flight
<1>8. QED
  BY <1>4, <1>5, <1>6, <1>7 DEF IInv

\* Every step keeps the invariant.
LEMMA NextKeeps == IInv /\ [Next]_vars => IInv'
<1> SUFFICES ASSUME IInv, [Next]_vars
             PROVE  IInv'
  OBVIOUS
<1>1. CASE UNCHANGED vars
  BY <1>1 DEF vars, IInv, Tables, References, ShutKeys, Settled, Flight, Right, Asks, SetsUp, Holds
<1>2. ASSUME NEW h \in Handlers, Call(h)
      PROVE  IInv'
  BY <1>2, ReadKeeps, InsertTenantKeeps, InsertAdminKeeps, AdminFailsKeeps, UndoKeeps, UndoFailsKeeps,
     UpdateTenantKeeps, RemoveTenantKeeps, CreateUserKeeps, UpdateUserKeeps, RemoveUserKeeps,
     CreateKeyKeeps, KeyKeeps, ProjectKeeps, RefuseKeeps DEF Call
<1>3. QED
  BY <1>1, <1>2, NewRequestKeeps, ExpireKeeps, CrashKeeps DEF Next

\* It is an invariant.
LEMMA Invariance == Spec => []IInv
  BY InitIsRight, NextKeeps, PTL DEF Spec

-------------------------------------------------------------------------------
(***************************************************************************)
(* The theorems.                                                           *)
(***************************************************************************)
\* The types, and what the foreign keys promise: cascading deletes and refused
\* deletes leave no row that refers to one that is gone.
THEOREM TypesHold == Spec => []TypeOK
  BY Invariance, InvariantsFollow, PTL

\* Setting up a tenant (TenantService.create) is all or nothing, unless the process
\* dies or the compensating delete fails.
THEOREM SettingUpIsWhole == Spec => []SetUpWhole
  BY Invariance, InvariantsFollow, PTL

\* Nobody gets in with a key that was revoked and not enabled again
\* (ApiKeyService.findUserByApiKey reads the row, ApiKeyService.update writes only
\* what the body gives).
THEOREM RevokedKeysAreRefused == Spec => []RevokedIsRefused
  BY Invariance, InvariantsFollow, PTL

\* A project is written by a request of a user who was of its tenant when it was
\* authenticated (ProjectService writes where id and tenantId are those of the request).
THEOREM ProjectsStayTheirTenants == Spec => ProjectsAreTheirTenants
<1> DEFINE Theirs ==
      \A p \in Projects :
          projects[p] # NULL /\ projects'[p] # projects[p] =>
              \/ tenants'[projects[p].tenant] = NULL
              \/ \E h \in Handlers : handlers'[h] # handlers[h] /\ handlers[h].true = projects[p].tenant
<1>1. IInv /\ [Next]_vars => Theirs
  <2> SUFFICES ASSUME IInv, Next, NEW p \in Projects, projects[p] # NULL, projects'[p] # projects[p]
               PROVE  \/ tenants'[projects[p].tenant] = NULL
                      \/ \E h \in Handlers : handlers'[h] # handlers[h] /\ handlers[h].true = projects[p].tenant
    BY DEF vars
  <2>1. PICK h \in Handlers : \/ Undo(h) \/ RemoveTenant(h)
                              \/ CreateProject(h) \/ UpdateProject(h) \/ RemoveProject(h)
    BY DEF Next, NewRequest, Register, ByToken, ByKey, Begin, Call, Read, CheckName, InsertTenant, InsertAdmin,
           AdminFails, UndoFails, UpdateTenant, CreateUser, UpdateUser, RemoveUser, CreateKey, UpdateKey,
           RevokeKey, Refuse, Expire, Crash
  <2>2. ASSUME NEW t \in Tenants, Deletable(t), Cascade({t})
        PROVE  tenants'[projects[p].tenant] = NULL
    BY <2>2, CascadeKeeps DEF IInv, Tables
  <2>3. CASE Undo(h)
    <3>1. handlers[h].tenant \in Tenants
      BY <2>3, BusyIs DEF Undo, At, Holds, SetsUp
    <3>2. QED
      BY <2>2, <2>3, <3>1 DEF Undo
  <2>4. CASE RemoveTenant(h)
    <3>1. Row(h) \in Tenants
      BY <2>4, BusyIs, RequestsAsk DEF RemoveTenant, Calls, At, Row
    <3>2. QED
      BY <2>2, <2>4, <3>1 DEF RemoveTenant
  <2>5. CASE CreateProject(h)
    BY <2>5 DEF CreateProject, IInv, Tables
  <2>6. CASE UpdateProject(h) \/ RemoveProject(h)
    <3>1. handlers[h].pc = "write" /\ Answer(h) /\ Mine(h) /\ Row(h) = p /\ Asked(h).op \in OfProject
      BY <2>6 DEF UpdateProject, RemoveProject, Calls, At, OfProject, IInv, Tables
    <3>2. handlers[h].true = handlers[h].home
      BY <3>1, BusyIs DEF Asks, OfProject
    <3>3. handlers'[h] # handlers[h]
      BY <3>1 DEF Answer, IInv, Flight, Idle
    <3>4. QED
      BY <3>1, <3>2, <3>3 DEF Mine
  <2>7. QED
    BY <2>1, <2>3, <2>4, <2>5, <2>6
<1>2. QED
  BY <1>1, Invariance, PTL DEF Spec, ProjectsAreTheirTenants
===============================================================================
