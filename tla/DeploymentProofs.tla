--------------------------- MODULE DeploymentProofs ---------------------------
(***************************************************************************)
(* Proofs about Deployment, for every number of deployments, users,        *)
(* environments, versions and requests in flight.                          *)
(***************************************************************************)
EXTENDS Deployment, TLAPS

(***************************************************************************)
(* Which steps write the tables at all.  Every table invariant below is    *)
(* proved over these cases only.                                           *)
(***************************************************************************)
Writes ==
    \/ \E h \in Handlers :
          InsertDeployment(h) \/ WriteApproval(h) \/ CommitDeploy(h) \/ WriteRollback(h)
    \/ \E v \in Entities : RemoveEntity(v)
    \/ \E u \in Users : RemoveUser(u)
    \/ \E e \in Environments : RemoveEnvironment(e)

\* Requests that only read, and failures, leave every table alone.
LEMMA OnlyWritesChangeTables ==
    ASSUME [Next]_vars
    PROVE  Writes \/ UNCHANGED tables
<1>1. CASE UNCHANGED vars
  BY <1>1 DEF vars, tables
<1>2. ASSUME NEW h \in Handlers, NewRequest(h)
      PROVE  UNCHANGED tables
  BY <1>2 DEF NewRequest, StartCreate, ReadToApprove, ReadToDeploy, ReadToRollback
<1>3. ASSUME NEW h \in Handlers, Continue(h)
      PROVE  Writes \/ UNCHANGED tables
  BY <1>3 DEF Continue, Writes, ValidateItem, RejectItem, RefuseInsert, RefuseApproval,
              BeginDeploy, DeployItem, FailItem
<1>4. ASSUME NEW h \in Handlers, DatabaseError(h)
      PROVE  UNCHANGED tables
  BY <1>4 DEF DatabaseError
<1>5. CASE Restart
  BY <1>5 DEF Restart
<1>6. CASE Elsewhere
  BY <1>6 DEF Elsewhere, Writes
<1>7. QED
  BY <1>1, <1>2, <1>3, <1>4, <1>5, <1>6 DEF Next

-------------------------------------------------------------------------------
(***************************************************************************)
(* Type correctness needs SnapshotsHold: a handler writes to a row that it *)
(* read earlier, and the row must still be there.                          *)
(***************************************************************************)
\* A handler that returns is of the right type again.
LEMMA ReturnKeepsType ==
    ASSUME TypeOK, NEW h \in Handlers, Return(h)
    PROVE  handlers' \in [Handlers -> Handler]
  BY DEF TypeOK, Return, Idle, Handler

\* The step wrote row d of Deployment and no other row.
WroteOnly(d) ==
    /\ d \in Deployments
    /\ deployments' \in [Deployments -> Row \cup {NULL}]
    /\ deployments'[d] \in Row
    /\ \A c \in Deployments \ {d} : deployments'[c] = deployments[c]

\* ... and left the request in it alone.
KeptRequest(d) ==
    /\ Exists(d)
    /\ deployments[d] \in Row
    /\ deployments'[d].requestedBy = deployments[d].requestedBy
    /\ deployments'[d].environment = deployments[d].environment
    /\ deployments'[d].items = deployments[d].items

\* createDeployment inserts a row whose references exist.
LEMMA InsertWrites ==
    ASSUME TypeOK, SnapshotsHold, NEW h \in Handlers, InsertDeployment(h)
    PROVE  LET d == handlers[h].dep
           IN  /\ WroteOnly(d)
               /\ ~Exists(d)
               /\ deployments'[d] = NewRow(handlers[h].env, handlers[h].user, handlers[h].items)
               /\ handlers[h].env \in environments
               /\ handlers[h].user \in users
               /\ handlers[h].items \in SUBSET Entities
<1>1. handlers[h].dep \in Deployments /\ ~Exists(handlers[h].dep)
  BY DEF SnapshotsHold, SnapshotOf, InsertDeployment, At
<1>2. /\ handlers[h].env \in environments
      /\ handlers[h].user \in users
      /\ handlers[h].items \in SUBSET Entities
  BY DEF TypeOK, InsertDeployment, ReferencesExist, Handler
<1>3. NewRow(handlers[h].env, handlers[h].user, handlers[h].items) \in Row
  BY <1>2 DEF TypeOK, Row, NewRow, Status
<1>4. QED
  BY <1>1, <1>2, <1>3 DEF TypeOK, WroteOnly, InsertDeployment

\* approveDeployment: the writer is a user, and not the requester.
LEMMA ApprovalWrites ==
    ASSUME TypeOK, SnapshotsHold, NEW h \in Handlers, WriteApproval(h)
    PROVE  LET d == handlers[h].dep
           IN  /\ WroteOnly(d)
               /\ KeptRequest(d)
               /\ handlers[h].user \in users
               /\ handlers[h].user # deployments[d].requestedBy
               /\ deployments'[d].approvedBy = handlers[h].user
               /\ deployments'[d].approvedAt
               /\ deployments'[d].deployedAt = deployments[d].deployedAt
               /\ deployments'[d].rollbackTo = deployments[d].rollbackTo
               /\ deployments'[d].done = deployments[d].done
<1> DEFINE d == handlers[h].dep
           row == [deployments[d] EXCEPT !.status = "APPROVED",
                                         !.approvedBy = handlers[h].user,
                                         !.approvedAt = TRUE]
<1>1. d \in Deployments /\ Exists(d)
  BY DEF SnapshotsHold, SnapshotOf, WriteApproval, At
<1>2. deployments[d] \in Row
  BY <1>1 DEF TypeOK, Exists
<1>3. handlers[h].user \in users /\ handlers[h].user \in Users
  BY DEF TypeOK, WriteApproval
<1>4. handlers[h].user # deployments[d].requestedBy
  BY DEF SnapshotsHold, SnapshotOf, WriteApproval, At
<1>5. row \in Row
  BY <1>2, <1>3 DEF Row, Status
<1>6. deployments' = [deployments EXCEPT ![d] = row]
  BY DEF WriteApproval
<1>7. /\ deployments' \in [Deployments -> Row \cup {NULL}]
      /\ deployments'[d] = row
      /\ \A c \in Deployments \ {d} : deployments'[c] = deployments[c]
  <2> HIDE DEF d, row
  <2> QED BY <1>1, <1>5, <1>6 DEF TypeOK
<1>8. QED
  BY <1>1, <1>2, <1>3, <1>4, <1>5, <1>7 DEF WroteOnly, KeptRequest, Row

\* deployDeployment: the commit marks an approved deployment, all of whose
\* items were linked and whose versions still exist.
LEMMA CommitWrites ==
    ASSUME TypeOK, SnapshotsHold, NEW h \in Handlers, CommitDeploy(h)
    PROVE  LET d == handlers[h].dep
           IN  /\ WroteOnly(d)
               /\ KeptRequest(d)
               /\ deployments[d].approvedAt
               /\ handlers[h].links = deployments[d].items
               /\ handlers[h].links \cap Versions \subseteq catalog
               /\ deployments'[d].approvedBy = deployments[d].approvedBy
               /\ deployments'[d].approvedAt
               /\ deployments'[d].deployedAt
               /\ deployments'[d].rollbackTo = deployments[d].rollbackTo
               /\ deployments'[d].done = deployments[d].items
<1> DEFINE d == handlers[h].dep
           row == [deployments[d] EXCEPT !.status = "DEPLOYED",
                                         !.deployedAt = TRUE,
                                         !.done = handlers[h].links]
<1>1. /\ d \in Deployments
      /\ Exists(d)
      /\ deployments[d].approvedAt
      /\ handlers[h].todo \cup handlers[h].links = deployments[d].items
      /\ handlers[h].links \cap Versions \subseteq catalog
  BY DEF SnapshotsHold, SnapshotOf, CommitDeploy, At
<1>2. deployments[d] \in Row
  BY <1>1 DEF TypeOK, Exists
<1>3. handlers[h].links = deployments[d].items
  BY <1>1 DEF CommitDeploy
<1>4. row \in Row
  BY <1>2, <1>3 DEF Row, Status
<1>5. deployments' = [deployments EXCEPT ![d] = row]
  BY DEF CommitDeploy
<1>6. /\ deployments' \in [Deployments -> Row \cup {NULL}]
      /\ deployments'[d] = row
      /\ \A c \in Deployments \ {d} : deployments'[c] = deployments[c]
  <2> HIDE DEF d, row
  <2> QED BY <1>1, <1>4, <1>5 DEF TypeOK
<1>7. QED
  BY <1>1, <1>2, <1>3, <1>4, <1>6 DEF WroteOnly, KeptRequest, Row

\* rollbackDeployment: the row points to another row, nothing else changes.
LEMMA RollbackWrites ==
    ASSUME TypeOK, SnapshotsHold, NEW h \in Handlers, WriteRollback(h)
    PROVE  LET d == handlers[h].dep
           IN  /\ WroteOnly(d)
               /\ KeptRequest(d)
               /\ handlers[h].target \in Deployments
               /\ Exists(handlers[h].target)
               /\ deployments'[d].status = "ROLLED_BACK"
               /\ deployments'[d].approvedBy = deployments[d].approvedBy
               /\ deployments'[d].approvedAt = deployments[d].approvedAt
               /\ deployments'[d].deployedAt = deployments[d].deployedAt
               /\ deployments'[d].rollbackTo = handlers[h].target
               /\ deployments'[d].done = deployments[d].done
<1> DEFINE d == handlers[h].dep
           row == [deployments[d] EXCEPT !.status = "ROLLED_BACK",
                                         !.rollbackTo = handlers[h].target]
<1>1. /\ d \in Deployments
      /\ Exists(d)
      /\ handlers[h].target \in Deployments
      /\ Exists(handlers[h].target)
  BY DEF SnapshotsHold, SnapshotOf, WriteRollback, At
<1>2. deployments[d] \in Row
  BY <1>1 DEF TypeOK, Exists
<1>3. row \in Row
  BY <1>1, <1>2 DEF Row, Status
<1>4. deployments' = [deployments EXCEPT ![d] = row]
  BY DEF WriteRollback
<1>5. /\ deployments' \in [Deployments -> Row \cup {NULL}]
      /\ deployments'[d] = row
      /\ \A c \in Deployments \ {d} : deployments'[c] = deployments[c]
  <2> HIDE DEF d, row
  <2> QED BY <1>1, <1>3, <1>4 DEF TypeOK
<1>6. QED
  BY <1>1, <1>2, <1>3, <1>5 DEF WroteOnly, KeptRequest, Row

\* UserService.remove touches approvedBy and nothing else.
LEMMA RemoveUserWrites ==
    ASSUME TypeOK, NEW u \in Users, RemoveUser(u)
    PROVE  \A d \in Deployments :
             /\ ~Exists(d) => deployments'[d] = NULL
             /\ Exists(d) =>
                  /\ deployments[d] \in Row
                  /\ deployments'[d] \in Row
                  /\ KeptRequest(d)
                  /\ deployments[d].requestedBy # u
                  /\ deployments'[d].approvedBy \in {deployments[d].approvedBy, NULL} \ {u}
                  /\ deployments'[d].status = deployments[d].status
                  /\ deployments'[d].approvedAt = deployments[d].approvedAt
                  /\ deployments'[d].deployedAt = deployments[d].deployedAt
                  /\ deployments'[d].rollbackTo = deployments[d].rollbackTo
                  /\ deployments'[d].done = deployments[d].done
<1> SUFFICES ASSUME NEW d \in Deployments
             PROVE  /\ ~Exists(d) => deployments'[d] = NULL
                    /\ Exists(d) =>
                         /\ deployments[d] \in Row
                         /\ deployments'[d] \in Row
                         /\ KeptRequest(d)
                         /\ deployments[d].requestedBy # u
                         /\ deployments'[d].approvedBy \in {deployments[d].approvedBy, NULL} \ {u}
                         /\ deployments'[d].status = deployments[d].status
                         /\ deployments'[d].approvedAt = deployments[d].approvedAt
                         /\ deployments'[d].deployedAt = deployments[d].deployedAt
                         /\ deployments'[d].rollbackTo = deployments[d].rollbackTo
                         /\ deployments'[d].done = deployments[d].done
  OBVIOUS
<1>1. CASE ~Exists(d)
  BY <1>1 DEF RemoveUser, Exists
<1>2. CASE Exists(d)
  <2>1. deployments[d] \in Row
    BY <1>2 DEF TypeOK, Exists
  <2>2. CASE deployments[d].approvedBy = u
    <3>1. deployments'[d] = [deployments[d] EXCEPT !.approvedBy = NULL]
      BY <1>2, <2>2 DEF RemoveUser
    <3>2. NULL # u
      BY NullAssumption
    <3>3. QED
      BY <1>2, <2>1, <3>1, <3>2 DEF RemoveUser, Row, KeptRequest
  <2>3. CASE deployments[d].approvedBy # u
    <3>1. deployments'[d] = deployments[d]
      BY <1>2, <2>3 DEF RemoveUser
    <3>2. QED
      BY <1>2, <2>1, <2>3, <3>1 DEF RemoveUser, Row, KeptRequest
  <2>4. QED
    BY <2>2, <2>3
<1>3. QED
  BY <1>1, <1>2

\* Every step keeps the types.
LEMMA TypePreserved ==
    ASSUME TypeOK, SnapshotsHold, [Next]_vars
    PROVE  TypeOK'
<1>1. ASSUME UNCHANGED vars PROVE TypeOK'
  BY <1>1 DEF TypeOK, vars
<1>2. ASSUME NEW h \in Handlers, NewRequest(h) PROVE TypeOK'
  <2>1. handlers' \in [Handlers -> Handler]
    <3>1. ASSUME NEW u \in Users, NEW e \in Environments, NEW items \in SUBSET Entities,
                 NEW d \in Deployments, StartCreate(h, u, e, items, d)
          PROVE  handlers' \in [Handlers -> Handler]
      BY <3>1 DEF StartCreate, TypeOK, Idle, Handler
    <3>2. ASSUME NEW u \in Users, NEW d \in Deployments, ReadToApprove(h, u, d)
          PROVE  handlers' \in [Handlers -> Handler]
      BY <3>2 DEF ReadToApprove, TypeOK, Idle, Handler
    <3>3. ASSUME NEW d \in Deployments, ReadToDeploy(h, d)
          PROVE  handlers' \in [Handlers -> Handler]
      BY <3>3 DEF ReadToDeploy, TypeOK, Idle, Handler, Row, Exists
    <3>4. ASSUME NEW d \in Deployments, NEW t \in Deployments, ReadToRollback(h, d, t)
          PROVE  handlers' \in [Handlers -> Handler]
      BY <3>4 DEF ReadToRollback, TypeOK, Idle, Handler
    <3>5. QED
      BY <1>2, <3>1, <3>2, <3>3, <3>4 DEF NewRequest
  <2>2. UNCHANGED tables
    BY <1>2 DEF NewRequest, StartCreate, ReadToApprove, ReadToDeploy, ReadToRollback
  <2>3. QED
    BY <2>1, <2>2 DEF TypeOK, tables
<1>3. ASSUME NEW h \in Handlers, Continue(h) PROVE TypeOK'
  <2>1. ASSUME NEW v \in Entities, ValidateItem(h, v) PROVE TypeOK'
    BY <2>1 DEF ValidateItem, TypeOK, Handler, tables
  <2>2. ASSUME NEW v \in Entities, DeployItem(h, v) PROVE TypeOK'
    <3>1. Linked(handlers[h], v) \in Handler
      BY DEF TypeOK, Handler, Linked
    <3>2. QED
      BY <2>2, <3>1 DEF DeployItem, TypeOK, tables
  <2>3. ASSUME NEW v \in Entities, FailItem(h, v) PROVE TypeOK'
    BY <2>3, ReturnKeepsType DEF FailItem, TypeOK, tables
  <2>4. ASSUME RejectItem(h) \/ RefuseInsert(h) \/ RefuseApproval(h) PROVE TypeOK'
    BY <2>4, ReturnKeepsType DEF RejectItem, RefuseInsert, RefuseApproval, TypeOK, tables
  <2>5. ASSUME BeginDeploy(h) PROVE TypeOK'
    BY <2>5 DEF BeginDeploy, TypeOK, Handler, tables
  <2>6. ASSUME InsertDeployment(h) PROVE TypeOK'
    <3>1. handlers' \in [Handlers -> Handler]
      BY <2>6, ReturnKeepsType DEF InsertDeployment
    <3>2. deployments' \in [Deployments -> Row \cup {NULL}]
      BY <2>6, InsertWrites DEF WroteOnly
    <3>3. QED
      BY <2>6, <3>1, <3>2 DEF TypeOK, InsertDeployment
  <2>7. ASSUME WriteApproval(h) PROVE TypeOK'
    <3>1. handlers' \in [Handlers -> Handler]
      BY <2>7, ReturnKeepsType DEF WriteApproval
    <3>2. deployments' \in [Deployments -> Row \cup {NULL}]
      BY <2>7, ApprovalWrites DEF WroteOnly
    <3>3. QED
      BY <2>7, <3>1, <3>2 DEF TypeOK, WriteApproval
  <2>8. ASSUME CommitDeploy(h) PROVE TypeOK'
    <3>1. handlers' \in [Handlers -> Handler]
      BY <2>8, ReturnKeepsType DEF CommitDeploy
    <3>2. deployments' \in [Deployments -> Row \cup {NULL}]
      BY <2>8, CommitWrites DEF WroteOnly
    <3>3. active' \in [Environments -> SUBSET Versions]
      BY <2>8 DEF CommitDeploy, TypeOK
    <3>4. QED
      BY <2>8, <3>1, <3>2, <3>3 DEF TypeOK, CommitDeploy
  <2>9. ASSUME WriteRollback(h) PROVE TypeOK'
    <3>1. handlers' \in [Handlers -> Handler]
      BY <2>9, ReturnKeepsType DEF WriteRollback
    <3>2. deployments' \in [Deployments -> Row \cup {NULL}]
      BY <2>9, RollbackWrites DEF WroteOnly
    <3>3. QED
      BY <2>9, <3>1, <3>2 DEF TypeOK, WriteRollback
  <2>10. QED
    BY <1>3, <2>1, <2>2, <2>3, <2>4, <2>5, <2>6, <2>7, <2>8, <2>9 DEF Continue
<1>4. ASSUME NEW h \in Handlers, DatabaseError(h) PROVE TypeOK'
  BY <1>4, ReturnKeepsType DEF DatabaseError, TypeOK, tables
<1>5. ASSUME Restart PROVE TypeOK'
  BY <1>5 DEF Restart, TypeOK, tables, Idle, Handler
<1>6. ASSUME NEW v \in Entities, RemoveEntity(v) PROVE TypeOK'
  BY <1>6 DEF RemoveEntity, TypeOK
<1>7. ASSUME NEW u \in Users, RemoveUser(u) PROVE TypeOK'
  <2>1. \A d \in Deployments : deployments'[d] \in Row \cup {NULL}
    BY <1>7, RemoveUserWrites
  <2>2. deployments' \in [Deployments -> Row \cup {NULL}]
    BY <1>7, <2>1 DEF RemoveUser
  <2>3. QED
    BY <1>7, <2>2 DEF RemoveUser, TypeOK
<1>8. ASSUME NEW e \in Environments, RemoveEnvironment(e) PROVE TypeOK'
  BY <1>8 DEF RemoveEnvironment, TypeOK
<1>9. QED
  BY <1>1, <1>2, <1>3, <1>4, <1>5, <1>6, <1>7, <1>8 DEF Next, Elsewhere

\* A deployment is never deleted, its request is never edited, and the marks
\* of its approval and of its execution are never taken back.
EvidenceKeptBy(d) ==
    /\ Exists(d)'
    /\ deployments'[d].requestedBy = deployments[d].requestedBy
    /\ deployments'[d].environment = deployments[d].environment
    /\ deployments'[d].items = deployments[d].items
    /\ deployments[d].approvedAt => deployments'[d].approvedAt
    /\ deployments[d].deployedAt => deployments'[d].deployedAt

\* No writer of the Deployment table destroys what it records.
LEMMA EvidenceKept ==
    ASSUME TypeOK, SnapshotsHold, [Next]_vars, NEW d \in Deployments, Exists(d)
    PROVE  EvidenceKeptBy(d)
<1>1. CASE UNCHANGED deployments
  BY <1>1 DEF EvidenceKeptBy, Exists
<1>2. ASSUME NEW h \in Handlers, InsertDeployment(h) PROVE EvidenceKeptBy(d)
  BY <1>2, InsertWrites DEF EvidenceKeptBy, Exists, WroteOnly
<1>3. ASSUME NEW h \in Handlers, WriteApproval(h) PROVE EvidenceKeptBy(d)
  BY <1>3, ApprovalWrites, NullIsNoRow DEF EvidenceKeptBy, Exists, WroteOnly, KeptRequest
<1>4. ASSUME NEW h \in Handlers, CommitDeploy(h) PROVE EvidenceKeptBy(d)
  BY <1>4, CommitWrites, NullIsNoRow DEF EvidenceKeptBy, Exists, WroteOnly, KeptRequest
<1>5. ASSUME NEW h \in Handlers, WriteRollback(h) PROVE EvidenceKeptBy(d)
  BY <1>5, RollbackWrites, NullIsNoRow DEF EvidenceKeptBy, Exists, WroteOnly, KeptRequest
<1>6. ASSUME NEW u \in Users, RemoveUser(u) PROVE EvidenceKeptBy(d)
  BY <1>6, RemoveUserWrites, NullIsNoRow DEF EvidenceKeptBy, Exists, KeptRequest
<1>7. QED
  BY <1>1, <1>2, <1>3, <1>4, <1>5, <1>6, OnlyWritesChangeTables
     DEF Writes, tables, RemoveEntity, RemoveEnvironment

-------------------------------------------------------------------------------
(***************************************************************************)
(* What a handler remembers stays true.  First the handlers that a step    *)
(* leaves alone, whoever writes the tables meanwhile, then the handler     *)
(* that takes the step.                                                    *)
(***************************************************************************)
\* A request that is taken on names a stored deployment or a fresh id.
LEMMA NewDep ==
    ASSUME TypeOK, [Next]_vars, NEW k \in Handlers
    PROVE  \/ handlers'[k].dep = handlers[k].dep
           \/ handlers'[k].dep = NULL
           \/ Exists(handlers'[k].dep)
           \/ \A g \in Handlers : handlers[g].dep # handlers'[k].dep
<1> DEFINE Goal == \/ handlers'[k].dep = handlers[k].dep
                   \/ handlers'[k].dep = NULL
                   \/ Exists(handlers'[k].dep)
                   \/ \A g \in Handlers : handlers[g].dep # handlers'[k].dep
<1>1. CASE UNCHANGED handlers
  BY <1>1
<1>2. ASSUME NEW h \in Handlers, NewRequest(h) PROVE Goal
  <2>1. CASE k # h
    BY <1>2, <2>1 DEF NewRequest, StartCreate, ReadToApprove, ReadToDeploy, ReadToRollback,
                      TypeOK
  <2>2. ASSUME NEW u \in Users, NEW e \in Environments, NEW items \in SUBSET Entities,
               NEW d \in Deployments, StartCreate(h, u, e, items, d)
        PROVE  \A g \in Handlers : handlers[g].dep # handlers'[h].dep
    BY <2>2 DEF StartCreate, TypeOK, Idle
  <2>3. ASSUME NEW u \in Users, NEW d \in Deployments, ReadToApprove(h, u, d)
        PROVE  Exists(handlers'[h].dep)
    BY <2>3 DEF ReadToApprove, TypeOK, Idle
  <2>4. ASSUME NEW d \in Deployments, ReadToDeploy(h, d)
        PROVE  Exists(handlers'[h].dep)
    BY <2>4 DEF ReadToDeploy, TypeOK, Idle
  <2>5. ASSUME NEW d \in Deployments, NEW t \in Deployments, ReadToRollback(h, d, t)
        PROVE  Exists(handlers'[h].dep)
    BY <2>5 DEF ReadToRollback, TypeOK, Idle
  <2>6. QED
    BY <1>2, <2>1, <2>2, <2>3, <2>4, <2>5 DEF NewRequest
<1>3. ASSUME NEW h \in Handlers, Return(h) PROVE Goal
  BY <1>3 DEF Return, TypeOK, Idle, Handler
<1>4. ASSUME NEW h \in Handlers, NEW v \in Entities, ValidateItem(h, v) PROVE Goal
  BY <1>4 DEF ValidateItem, TypeOK, Handler
<1>5. ASSUME NEW h \in Handlers, NEW v \in Entities, DeployItem(h, v) PROVE Goal
  BY <1>5 DEF DeployItem, TypeOK, Handler, Linked
<1>6. ASSUME NEW h \in Handlers, BeginDeploy(h) PROVE Goal
  BY <1>6 DEF BeginDeploy, TypeOK, Handler
<1>7. CASE Restart
  BY <1>7 DEF Restart, Idle
<1>8. CASE Elsewhere
  BY <1>1, <1>8 DEF Elsewhere, RemoveEntity, RemoveUser, RemoveEnvironment
<1>9. QED
  <2>1. ASSUME NEW h \in Handlers, Continue(h) PROVE Goal
    BY <1>3, <1>4, <1>5, <1>6, <2>1
       DEF Continue, FailItem, RejectItem, InsertDeployment, RefuseInsert, WriteApproval,
           RefuseApproval, CommitDeploy, WriteRollback
  <2>2. ASSUME NEW h \in Handlers, DatabaseError(h) PROVE Goal
    BY <1>3, <2>2 DEF DatabaseError
  <2>3. QED
    BY <1>1, <1>2, <1>7, <1>8, <2>1, <2>2 DEF Next, vars

\* Nobody else inserts under an id that a createDeployment in flight holds.
LEMMA IdStaysFree ==
    ASSUME TypeOK, SnapshotsHold, [Next]_vars, NEW g \in Handlers,
           handlers'[g] = handlers[g], At(g, "create")
    PROVE  ~Exists(handlers[g].dep)'
<1> DEFINE d == handlers[g].dep
<1>1. d \in Deployments /\ ~Exists(d)
  BY DEF SnapshotsHold, SnapshotOf, At
<1>2. CASE UNCHANGED deployments
  BY <1>1, <1>2 DEF Exists
<1>3. ASSUME NEW h \in Handlers, InsertDeployment(h) PROVE ~Exists(handlers[g].dep)'
  <2>1. h # g
    BY <1>3 DEF InsertDeployment, Return, TypeOK, Idle, At
  <2>2. d # handlers[h].dep
    BY <1>3, <2>1 DEF SnapshotsHold, SnapshotOf, InsertDeployment, At
  <2>3. QED
    BY <1>1, <1>3, <2>2, InsertWrites DEF WroteOnly, Exists
<1>4. ASSUME NEW h \in Handlers, WriteApproval(h) PROVE ~Exists(handlers[g].dep)'
  BY <1>1, <1>4, ApprovalWrites DEF WroteOnly, KeptRequest, Exists
<1>5. ASSUME NEW h \in Handlers, CommitDeploy(h) PROVE ~Exists(handlers[g].dep)'
  BY <1>1, <1>5, CommitWrites DEF WroteOnly, KeptRequest, Exists
<1>6. ASSUME NEW h \in Handlers, WriteRollback(h) PROVE ~Exists(handlers[g].dep)'
  BY <1>1, <1>6, RollbackWrites DEF WroteOnly, KeptRequest, Exists
<1>7. ASSUME NEW u \in Users, RemoveUser(u) PROVE ~Exists(handlers[g].dep)'
  BY <1>1, <1>7, RemoveUserWrites DEF Exists
<1>8. QED
  BY <1>2, <1>3, <1>4, <1>5, <1>6, <1>7, OnlyWritesChangeTables
     DEF Writes, tables, RemoveEntity, RemoveEnvironment

\* The versions that an open transaction has connected are locked.
LEMMA LinkedStay ==
    ASSUME TypeOK, SnapshotsHold, [Next]_vars, NEW g \in Handlers,
           handlers'[g] = handlers[g], At(g, "transaction")
    PROVE  handlers[g].links \cap Versions \subseteq catalog'
<1>1. handlers[g].links \cap Versions \subseteq catalog
  BY DEF SnapshotsHold, SnapshotOf, At
<1>2. CASE UNCHANGED catalog
  BY <1>1, <1>2
<1>3. ASSUME NEW v \in Entities, RemoveEntity(v)
      PROVE  handlers[g].links \cap Versions \subseteq catalog'
  BY <1>1, <1>3 DEF RemoveEntity
<1>4. QED
  BY <1>2, <1>3, OnlyWritesChangeTables
     DEF Writes, tables, InsertDeployment, WriteApproval, CommitDeploy, WriteRollback,
         RemoveUser, RemoveEnvironment

\* The snapshot of a handler that the step leaves alone.
LEMMA OthersKeepSnapshot ==
    ASSUME TypeOK, SnapshotsHold, [Next]_vars, NEW g \in Handlers,
           handlers'[g] = handlers[g]
    PROVE  SnapshotOf(g)'
<1> DEFINE d == handlers[g].dep
<1>1. SnapshotOf(g)
  BY DEF SnapshotsHold
<1>2. CASE At(g, "idle")
  BY <1>1, <1>2 DEF SnapshotOf, At
<1>3. CASE At(g, "create")
  <2>1. ~Exists(d)'
    BY <1>3, IdStaysFree
  <2>2. ASSUME NEW k \in Handlers \ {g} PROVE handlers'[k].dep # d
    <3>1. /\ d \in Deployments
          /\ ~Exists(d)
          /\ handlers[k].dep # d
      BY <1>1, <1>3, <2>2 DEF SnapshotOf, At
    <3>2. d # NULL
      BY <3>1, NullAssumption
    <3>3. QED
      BY <3>1, <3>2, NewDep
  <2>3. QED
    BY <1>1, <1>3, <2>1, <2>2 DEF SnapshotOf, At
<1>4. CASE At(g, "transaction")
  <2>1. EvidenceKeptBy(d)
    BY <1>1, <1>4, EvidenceKept DEF SnapshotOf, At
  <2>2. handlers[g].links \cap Versions \subseteq catalog'
    BY <1>4, LinkedStay
  <2>3. QED
    BY <1>1, <1>4, <2>1, <2>2 DEF SnapshotOf, At, EvidenceKeptBy, Exists
<1>5. CASE handlers[g].pc \in {"approve", "deploy", "rollback"}
  <2>1. EvidenceKeptBy(d)
    BY <1>1, <1>5, EvidenceKept DEF SnapshotOf
  <2>2. handlers[g].pc = "rollback" => EvidenceKeptBy(handlers[g].target)
    BY <1>1, EvidenceKept DEF SnapshotOf
  <2>3. QED
    BY <1>1, <1>5, <2>1, <2>2 DEF SnapshotOf, EvidenceKeptBy, Exists
<1>6. QED
  BY <1>2, <1>3, <1>4, <1>5 DEF TypeOK, Handler, At

\* A handler that has returned remembers nothing.
LEMMA IdleSnapshot ==
    ASSUME NEW g \in Handlers, handlers'[g] = Idle
    PROVE  SnapshotOf(g)'
  BY DEF SnapshotOf, Idle

\* Every step keeps what the handlers remember true.
LEMMA SnapshotsPreserved ==
    ASSUME TypeOK, FourEyes, SnapshotsHold, [Next]_vars
    PROVE  SnapshotsHold'
<1> SUFFICES ASSUME NEW g \in Handlers PROVE SnapshotOf(g)'
  BY DEF SnapshotsHold
<1>1. CASE handlers'[g] = handlers[g]
  BY <1>1, OthersKeepSnapshot
<1>2. CASE handlers'[g] = Idle
  BY <1>2, IdleSnapshot
<1>3. ASSUME NewRequest(g) PROVE SnapshotOf(g)'
  <2>1. UNCHANGED tables
    BY <1>3 DEF NewRequest, StartCreate, ReadToApprove, ReadToDeploy, ReadToRollback
  <2>2. ASSUME NEW u \in Users, NEW e \in Environments, NEW items \in SUBSET Entities,
               NEW d \in Deployments, StartCreate(g, u, e, items, d)
        PROVE  SnapshotOf(g)'
    <3>1. handlers'[g] = [Idle EXCEPT !.pc = "create", !.user = u, !.env = e,
                                      !.dep = d, !.items = items, !.todo = items]
      BY <2>2 DEF StartCreate, TypeOK
    <3>2. \A k \in Handlers \ {g} : handlers'[k].dep # d
      BY <2>2 DEF StartCreate, TypeOK
    <3>3. ~Exists(d)'
      BY <2>2 DEF StartCreate, Exists, tables
    <3>4. QED
      BY <2>1, <3>1, <3>2, <3>3 DEF SnapshotOf, Idle
  <2>3. ASSUME NEW u \in Users, NEW d \in Deployments, ReadToApprove(g, u, d)
        PROVE  SnapshotOf(g)'
    <3>1. handlers'[g] = [Idle EXCEPT !.pc = "approve", !.user = u, !.dep = d]
      BY <2>3 DEF ReadToApprove, TypeOK
    <3>2. Exists(d) /\ deployments[d].requestedBy # u
      BY <2>3 DEF ReadToApprove, MayApprove
    <3>3. QED
      BY <2>1, <3>1, <3>2 DEF SnapshotOf, Idle, Exists, tables
  <2>4. ASSUME NEW d \in Deployments, ReadToDeploy(g, d)
        PROVE  SnapshotOf(g)'
    <3>1. handlers'[g] = [Idle EXCEPT !.pc = "deploy", !.dep = d, !.todo = deployments[d].items]
      BY <2>4 DEF ReadToDeploy, TypeOK
    <3>2. Exists(d) /\ deployments[d].approvedAt
      BY <2>4 DEF ReadToDeploy, FourEyes
    <3>3. QED
      BY <2>1, <3>1, <3>2 DEF SnapshotOf, Idle, Exists, tables
  <2>5. ASSUME NEW d \in Deployments, NEW t \in Deployments, ReadToRollback(g, d, t)
        PROVE  SnapshotOf(g)'
    <3>1. handlers'[g] = [Idle EXCEPT !.pc = "rollback", !.dep = d, !.target = t]
      BY <2>5 DEF ReadToRollback, TypeOK
    <3>2. Exists(d) /\ Exists(t)
      BY <2>5 DEF ReadToRollback
    <3>3. QED
      BY <2>1, <3>1, <3>2 DEF SnapshotOf, Idle, Exists, tables
  <2>6. QED
    BY <1>3, <2>2, <2>3, <2>4, <2>5 DEF NewRequest
<1>4. ASSUME NEW v \in Entities, ValidateItem(g, v) PROVE SnapshotOf(g)'
  <2>1. /\ UNCHANGED tables
        /\ handlers'[g] = [handlers[g] EXCEPT !.todo = handlers[g].todo \ {v}]
        /\ \A k \in Handlers \ {g} : handlers'[k] = handlers[k]
    BY <1>4 DEF ValidateItem, TypeOK
  <2>2. SnapshotOf(g) /\ handlers[g].pc = "create" /\ handlers[g] \in Handler
    BY <1>4 DEF SnapshotsHold, ValidateItem, At, TypeOK
  <2>3. QED
    BY <2>1, <2>2 DEF SnapshotOf, Handler, Exists, tables
<1>5. ASSUME BeginDeploy(g) PROVE SnapshotOf(g)'
  <2>1. /\ UNCHANGED tables
        /\ handlers'[g] = [handlers[g] EXCEPT !.pc = "transaction"]
    BY <1>5 DEF BeginDeploy, TypeOK
  <2>2. SnapshotOf(g) /\ handlers[g].pc = "deploy" /\ handlers[g] \in Handler
    BY <1>5 DEF SnapshotsHold, BeginDeploy, At, TypeOK
  <2>3. QED
    BY <2>1, <2>2 DEF SnapshotOf, Handler, Exists, tables
<1>6. ASSUME NEW v \in Entities, DeployItem(g, v) PROVE SnapshotOf(g)'
  <2> DEFINE handler == Linked(handlers[g], v)
  <2>1. UNCHANGED tables /\ handlers'[g] = handler
    BY <1>6 DEF DeployItem, TypeOK
  <2>2. SnapshotOf(g) /\ handlers[g].pc = "transaction" /\ handlers[g] \in Handler
    BY <1>6 DEF SnapshotsHold, DeployItem, At, TypeOK
  <2>3. /\ v \in handlers[g].todo
        /\ v \in Versions => v \in catalog
    BY <1>6 DEF DeployItem
  <2>4. /\ handler.pc = "transaction"
        /\ handler.dep = handlers[g].dep
        /\ handler.todo = handlers[g].todo \ {v}
        /\ handler.links = handlers[g].links \cup {v}
    BY <2>2 DEF Linked, Handler
  <2>5. /\ handler.dep \in Deployments
        /\ Exists(handler.dep)
        /\ deployments[handler.dep].approvedAt
        /\ handlers[g].todo \cup handlers[g].links = deployments[handler.dep].items
        /\ handlers[g].links \cap Versions \subseteq catalog
    BY <2>2, <2>4 DEF SnapshotOf
  <2>6. /\ handler.todo \cup handler.links = deployments[handler.dep].items
        /\ handler.links \cap Versions \subseteq catalog
    BY <2>3, <2>4, <2>5
  <2> HIDE DEF handler
  <2>7. QED
    BY <2>1, <2>4, <2>5, <2>6 DEF SnapshotOf, Exists, tables
<1>7. ASSUME NEW h \in Handlers, NewRequest(h) PROVE h = g \/ handlers'[g] = handlers[g]
  BY <1>7 DEF NewRequest, StartCreate, ReadToApprove, ReadToDeploy, ReadToRollback, TypeOK
<1>8. ASSUME NEW h \in Handlers, Return(h)
      PROVE  handlers'[g] = Idle \/ handlers'[g] = handlers[g]
  BY <1>8 DEF Return, TypeOK
<1>9. ASSUME NEW h \in Handlers, Continue(h) PROVE SnapshotOf(g)'
  <2>1. ASSUME NEW v \in Entities, ValidateItem(h, v) PROVE h = g \/ handlers'[g] = handlers[g]
    BY <2>1 DEF ValidateItem, TypeOK
  <2>2. ASSUME NEW v \in Entities, DeployItem(h, v) PROVE h = g \/ handlers'[g] = handlers[g]
    BY <2>2 DEF DeployItem, TypeOK
  <2>3. ASSUME BeginDeploy(h) PROVE h = g \/ handlers'[g] = handlers[g]
    BY <2>3 DEF BeginDeploy, TypeOK
  <2>4. \/ Return(h)
        \/ \E v \in Entities : ValidateItem(h, v) \/ DeployItem(h, v)
        \/ BeginDeploy(h)
    BY <1>9 DEF Continue, FailItem, RejectItem, InsertDeployment, RefuseInsert, WriteApproval,
                RefuseApproval, CommitDeploy, WriteRollback
  <2>5. QED
    BY <1>1, <1>2, <1>4, <1>5, <1>6, <1>8, <2>1, <2>2, <2>3, <2>4
<1>10. QED
  <2>1. ASSUME NEW h \in Handlers, NewRequest(h) PROVE SnapshotOf(g)'
    BY <1>1, <1>3, <1>7, <2>1
  <2>2. ASSUME NEW h \in Handlers, DatabaseError(h) PROVE SnapshotOf(g)'
    BY <1>1, <1>2, <1>8, <2>2 DEF DatabaseError
  <2>3. CASE Restart
    BY <1>2, <2>3 DEF Restart
  <2>4. CASE Elsewhere
    BY <1>1, <2>4 DEF Elsewhere, RemoveEntity, RemoveUser, RemoveEnvironment
  <2>5. CASE UNCHANGED vars
    BY <1>1, <2>5 DEF vars
  <2>6. QED
    BY <1>9, <2>1, <2>2, <2>3, <2>4, <2>5 DEF Next

\* A row that says approved or deployed shows a second person's approval, also
\* if the writer decided on an older state of the row.
LEMMA FourEyesPreserved ==
    ASSUME TypeOK, FourEyes, SnapshotsHold, [Next]_vars
    PROVE  FourEyes'
<1> DEFINE RowOK(d) ==
             /\ deployments[d].approvedBy # deployments[d].requestedBy
             /\ deployments[d].status \in {"APPROVED", "DEPLOYED"} => deployments[d].approvedAt
             /\ deployments[d].deployedAt => deployments[d].approvedAt
<1> SUFFICES ASSUME NEW c \in Deployments, Exists(c)'
             PROVE  RowOK(c)'
  BY DEF FourEyes
<1>1. ASSUME deployments'[c] = deployments[c] PROVE RowOK(c)'
  BY <1>1 DEF FourEyes, Exists
<1>2. ASSUME NEW h \in Handlers, InsertDeployment(h) PROVE RowOK(c)'
  <2>1. CASE c = handlers[h].dep
    <3>1. deployments'[c] = NewRow(handlers[h].env, handlers[h].user, handlers[h].items)
      BY <1>2, <2>1, InsertWrites
    <3>2. handlers[h].user \in Users
      BY <1>2, InsertWrites DEF TypeOK
    <3>3. /\ deployments'[c].approvedBy = NULL
          /\ deployments'[c].requestedBy = handlers[h].user
          /\ deployments'[c].status = "PENDING"
          /\ deployments'[c].deployedAt = FALSE
      BY <3>1 DEF NewRow
    <3>4. QED
      BY <3>2, <3>3, NullAssumption
  <2>2. QED
    BY <1>1, <1>2, <2>1, InsertWrites DEF WroteOnly
<1>3. ASSUME NEW h \in Handlers, WriteApproval(h) PROVE RowOK(c)'
  <2>1. CASE c = handlers[h].dep
    BY <1>3, <2>1, ApprovalWrites DEF KeptRequest
  <2>2. QED
    BY <1>1, <1>3, <2>1, ApprovalWrites DEF WroteOnly
<1>4. ASSUME NEW h \in Handlers, CommitDeploy(h) PROVE RowOK(c)'
  <2>1. CASE c = handlers[h].dep
    BY <1>4, <2>1, CommitWrites DEF KeptRequest, FourEyes
  <2>2. QED
    BY <1>1, <1>4, <2>1, CommitWrites DEF WroteOnly
<1>5. ASSUME NEW h \in Handlers, WriteRollback(h) PROVE RowOK(c)'
  <2>1. CASE c = handlers[h].dep
    BY <1>5, <2>1, RollbackWrites DEF KeptRequest, FourEyes
  <2>2. QED
    BY <1>1, <1>5, <2>1, RollbackWrites DEF WroteOnly
<1>6. ASSUME NEW u \in Users, RemoveUser(u) PROVE RowOK(c)'
  <2>1. Exists(c)
    BY <1>6, RemoveUserWrites DEF Exists
  <2>2. deployments[c].requestedBy # NULL
    BY <2>1, NullAssumption DEF TypeOK, Row, Exists
  <2>3. QED
    BY <1>6, <2>1, <2>2, RemoveUserWrites DEF KeptRequest, FourEyes
<1>7. QED
  BY <1>1, <1>2, <1>3, <1>4, <1>5, <1>6, OnlyWritesChangeTables
     DEF Writes, tables, RemoveEntity, RemoveEnvironment

-------------------------------------------------------------------------------
(***************************************************************************)
(* The three facts that need each other: the types, the trace a row keeps  *)
(* of its approval, and what the handlers remember of the rows.            *)
(***************************************************************************)
Inductive == TypeOK /\ FourEyes /\ SnapshotsHold

\* The induction for all three, from the empty tables.
THEOREM Invariance == Spec => []Inductive
<1>1. Init => Inductive
  <2> SUFFICES ASSUME Init PROVE Inductive
    OBVIOUS
  <2>1. TypeOK
    BY DEF Init, TypeOK, Idle, Handler
  <2>2. FourEyes
    BY DEF Init, FourEyes, Exists
  <2>3. SnapshotsHold
    BY DEF Init, SnapshotsHold, SnapshotOf, Idle
  <2>4. QED
    BY <2>1, <2>2, <2>3 DEF Inductive
<1>2. Inductive /\ [Next]_vars => Inductive'
  BY TypePreserved, FourEyesPreserved, SnapshotsPreserved DEF Inductive
<1>3. QED
  BY <1>1, <1>2, PTL DEF Spec

\* Every handler leaves rows of the right type, for any number of requests.
THEOREM TypeCorrect == Spec => []TypeOK
  BY Invariance, PTL DEF Inductive

\* Four eyes holds although approveDeployment writes on a read that may be old.
THEOREM FourEyesTheorem == Spec => []FourEyes
  BY Invariance, PTL DEF Inductive

\* What a handler read before its last await is still true when it writes.
THEOREM Snapshots == Spec => []SnapshotsHold
  BY Invariance, PTL DEF Inductive

-------------------------------------------------------------------------------
(***************************************************************************)
(* The contents of the tables.                                             *)
(***************************************************************************)
\* The commit publishes whole item sets, and no other writer touches them.
LEMMA AllOrNothingPreserved ==
    ASSUME Inductive, AllOrNothing, [Next]_vars
    PROVE  AllOrNothing'
<1> USE DEF Inductive
<1> DEFINE RowOK(d) ==
             deployments[d].done = IF deployments[d].deployedAt THEN deployments[d].items ELSE {}
<1> SUFFICES ASSUME NEW c \in Deployments, Exists(c)'
             PROVE  RowOK(c)'
  BY DEF AllOrNothing
<1>1. ASSUME deployments'[c] = deployments[c] PROVE RowOK(c)'
  BY <1>1 DEF AllOrNothing, Exists
<1>2. ASSUME NEW h \in Handlers, InsertDeployment(h) PROVE RowOK(c)'
  <2>1. CASE c = handlers[h].dep
    <3>1. deployments'[c] = NewRow(handlers[h].env, handlers[h].user, handlers[h].items)
      BY <1>2, <2>1, InsertWrites
    <3>2. deployments'[c].done = {} /\ deployments'[c].deployedAt = FALSE
      BY <3>1 DEF NewRow
    <3>3. QED
      BY <3>2
  <2>2. QED
    BY <1>1, <1>2, <2>1, InsertWrites DEF WroteOnly
<1>3. ASSUME NEW h \in Handlers, WriteApproval(h) PROVE RowOK(c)'
  BY <1>1, <1>3, ApprovalWrites DEF WroteOnly, KeptRequest, AllOrNothing
<1>4. ASSUME NEW h \in Handlers, CommitDeploy(h) PROVE RowOK(c)'
  BY <1>1, <1>4, CommitWrites DEF WroteOnly, KeptRequest
<1>5. ASSUME NEW h \in Handlers, WriteRollback(h) PROVE RowOK(c)'
  BY <1>1, <1>5, RollbackWrites DEF WroteOnly, KeptRequest, AllOrNothing
<1>6. ASSUME NEW u \in Users, RemoveUser(u) PROVE RowOK(c)'
  <2>1. Exists(c)
    BY <1>6, RemoveUserWrites DEF Exists
  <2>2. QED
    BY <1>6, <2>1, RemoveUserWrites DEF KeptRequest, AllOrNothing
<1>7. QED
  BY <1>1, <1>2, <1>3, <1>4, <1>5, <1>6, OnlyWritesChangeTables
     DEF Writes, tables, RemoveEntity, RemoveEnvironment

\* Deployments are executed whole or not at all, for any number of items and
\* whatever fails on the way.
THEOREM AllOrNothingTheorem == Spec => []AllOrNothing
<1>1. Init => AllOrNothing
  BY DEF Init, AllOrNothing, Exists
<1>2. Inductive /\ AllOrNothing /\ [Next]_vars => AllOrNothing'
  BY AllOrNothingPreserved
<1>3. QED
  BY <1>1, <1>2, Invariance, PTL DEF Spec

\* A deployment keeps everything that made a version active.
LEMMA BroughtKept ==
    ASSUME Inductive, [Next]_vars, NEW d \in Deployments, NEW v, NEW e, Brought(d, v, e)
    PROVE  Brought(d, v, e)'
  BY EvidenceKept DEF Inductive, Brought, EvidenceKeptBy

\* Only the commit of an approved deployment makes a version active.
LEMMA ActivePreserved ==
    ASSUME Inductive, ActiveWasApproved, [Next]_vars
    PROVE  ActiveWasApproved'
<1> USE DEF Inductive
<1> SUFFICES ASSUME NEW e \in Environments, NEW v \in active'[e]
             PROVE  \E d \in Deployments : Brought(d, v, e)'
  BY DEF ActiveWasApproved
<1>1. ASSUME v \in active[e] PROVE \E d \in Deployments : Brought(d, v, e)'
  <2>1. PICK d \in Deployments : Brought(d, v, e)
    BY <1>1 DEF ActiveWasApproved
  <2>2. QED
    BY <2>1, BroughtKept
<1>2. ASSUME NEW h \in Handlers, CommitDeploy(h), v \notin active[e]
      PROVE  \E d \in Deployments : Brought(d, v, e)'
  <2>0. handlers[h].dep \in Deployments
    BY <1>2, CommitWrites DEF WroteOnly
  <2>. PICK d \in Deployments : d = handlers[h].dep
    BY <2>0
  <2>1. /\ WroteOnly(d)
        /\ KeptRequest(d)
        /\ handlers[h].links = deployments[d].items
        /\ deployments'[d].approvedAt
        /\ deployments'[d].deployedAt
    BY <1>2, CommitWrites
  <2>2. deployments[d].environment = e /\ v \in deployments[d].items
    BY <1>2, <2>1 DEF CommitDeploy, TypeOK
  <2>3. Brought(d, v, e)'
    BY <2>1, <2>2, NullIsNoRow DEF Brought, WroteOnly, KeptRequest, Exists
  <2>4. QED
    BY <2>1, <2>3 DEF WroteOnly
<1>3. ASSUME NEW w \in Entities, RemoveEntity(w) PROVE v \in active[e]
  BY <1>3 DEF RemoveEntity
<1>4. ASSUME NEW x \in Environments, RemoveEnvironment(x) PROVE v \in active[e]
  BY <1>4 DEF RemoveEnvironment, TypeOK
<1>5. QED
  BY <1>1, <1>2, <1>3, <1>4, OnlyWritesChangeTables
     DEF Writes, tables, InsertDeployment, WriteApproval, WriteRollback, RemoveUser

\* Nothing is ever active in an environment that no approved deployment brought.
THEOREM ActiveWasApprovedTheorem == Spec => []ActiveWasApproved
<1>1. Init => ActiveWasApproved
  BY DEF Init, ActiveWasApproved
<1>2. Inductive /\ ActiveWasApproved /\ [Next]_vars => ActiveWasApproved'
  BY ActivePreserved
<1>3. QED
  BY <1>1, <1>2, Invariance, PTL DEF Spec

\* What is deployed stays linked until its version is deleted.
LEMMA DeployedStaysActive ==
    ASSUME Inductive, NoDanglingReference, DeployedIsActive, [Next]_vars
    PROVE  DeployedIsActive'
<1> USE DEF Inductive
<1> DEFINE RowOK(d) == deployments[d].deployedAt =>
             deployments[d].items \cap Versions \cap catalog
                \subseteq active[deployments[d].environment]
<1> SUFFICES ASSUME NEW c \in Deployments, Exists(c)'
             PROVE  RowOK(c)'
  BY DEF DeployedIsActive
<1>1. ASSUME deployments'[c] = deployments[c],
             catalog' = catalog,
             \A e \in Environments : active[e] \subseteq active'[e]
      PROVE  RowOK(c)'
  <2>1. deployments[c].environment \in Environments
    BY <1>1 DEF TypeOK, Row, Exists
  <2>2. QED
    BY <1>1, <2>1 DEF DeployedIsActive, Exists
<1>2. ASSUME NEW h \in Handlers, InsertDeployment(h) PROVE RowOK(c)'
  <2>1. CASE c = handlers[h].dep
    <3>1. deployments'[c] = NewRow(handlers[h].env, handlers[h].user, handlers[h].items)
      BY <1>2, <2>1, InsertWrites
    <3>2. deployments'[c].deployedAt = FALSE
      BY <3>1 DEF NewRow
    <3>3. QED
      BY <3>2
  <2>2. CASE c # handlers[h].dep
    BY <1>1, <1>2, <2>2, InsertWrites DEF WroteOnly, InsertDeployment
  <2>3. QED
    BY <2>1, <2>2
<1>3. ASSUME NEW h \in Handlers, WriteApproval(h) PROVE RowOK(c)'
  <2>1. CASE c = handlers[h].dep
    <3>1. UNCHANGED <<catalog, active>>
      BY <1>3 DEF WriteApproval
    <3>2. QED
      BY <1>3, <2>1, <3>1, ApprovalWrites DEF KeptRequest, DeployedIsActive
  <2>2. QED
    BY <1>1, <1>3, <2>1, ApprovalWrites DEF WroteOnly, WriteApproval
<1>4. ASSUME NEW h \in Handlers, CommitDeploy(h) PROVE RowOK(c)'
  <2>0. handlers[h].dep \in Deployments
    BY <1>4, CommitWrites DEF WroteOnly
  <2>. PICK d \in Deployments : d = handlers[h].dep
    BY <2>0
  <2>. PICK e \in Environments : e = deployments[d].environment
    BY <1>4, CommitWrites DEF KeptRequest, Row
  <2>1. /\ active' = [active EXCEPT ![e] = active[e] \cup (deployments[d].items \cap Versions)]
        /\ catalog' = catalog
        /\ active \in [Environments -> SUBSET Versions]
    BY <1>4, CommitWrites DEF CommitDeploy, TypeOK
  <2>2. CASE c = d
    <3>1. deployments'[c].environment = e /\ deployments'[c].items = deployments[d].items
      BY <1>4, <2>2, CommitWrites DEF KeptRequest
    <3>2. QED
      BY <2>1, <3>1
  <2>3. CASE c # d
    <3>1. deployments'[c] = deployments[c]
      BY <1>4, <2>3, CommitWrites DEF WroteOnly
    <3>2. \A x \in Environments : active[x] \subseteq active'[x]
      BY <2>1
    <3>3. QED
      BY <1>1, <2>1, <3>1, <3>2
  <2>4. QED
    BY <2>2, <2>3
<1>5. ASSUME NEW h \in Handlers, WriteRollback(h) PROVE RowOK(c)'
  <2>1. CASE c = handlers[h].dep
    <3>1. UNCHANGED <<catalog, active>>
      BY <1>5 DEF WriteRollback
    <3>2. QED
      BY <1>5, <2>1, <3>1, RollbackWrites DEF KeptRequest, DeployedIsActive
  <2>2. QED
    BY <1>1, <1>5, <2>1, RollbackWrites DEF WroteOnly, WriteRollback
<1>6. ASSUME NEW u \in Users, RemoveUser(u) PROVE RowOK(c)'
  <2>1. Exists(c)
    BY <1>6, RemoveUserWrites DEF Exists
  <2>2. UNCHANGED <<catalog, active>>
    BY <1>6 DEF RemoveUser
  <2>3. QED
    BY <1>6, <2>1, <2>2, RemoveUserWrites DEF KeptRequest, DeployedIsActive
<1>7. ASSUME NEW w \in Entities, RemoveEntity(w) PROVE RowOK(c)'
  <2>1. deployments[c].environment \in Environments /\ deployments'[c] = deployments[c]
    BY <1>7 DEF RemoveEntity, TypeOK, Row, Exists
  <2>2. QED
    BY <1>7, <2>1 DEF RemoveEntity, DeployedIsActive, Exists
<1>8. ASSUME NEW x \in Environments, RemoveEnvironment(x) PROVE RowOK(c)'
  <2>1. deployments[c].environment # x /\ deployments'[c] = deployments[c]
    BY <1>8 DEF RemoveEnvironment, Exists
  <2>2. deployments[c].environment \in Environments
    BY <2>1 DEF TypeOK, Row, Exists
  <2>3. active'[deployments[c].environment] = active[deployments[c].environment]
    BY <1>8, <2>1, <2>2 DEF RemoveEnvironment, TypeOK
  <2>4. QED
    BY <1>8, <2>1, <2>3 DEF RemoveEnvironment, DeployedIsActive, Exists
<1>9. QED
  <2>1. UNCHANGED tables => RowOK(c)'
    BY DEF tables, DeployedIsActive, Exists
  <2>2. QED
    BY <1>2, <1>3, <1>4, <1>5, <1>6, <1>7, <1>8, <2>1, OnlyWritesChangeTables DEF Writes

\* The relations between the tables are sound when a check made several
\* database calls ago is all a handler has to go by.
LEMMA ReferencesPreserved ==
    ASSUME Inductive, NoDanglingReference, [Next]_vars
    PROVE  NoDanglingReference'
<1> USE DEF Inductive
<1> DEFINE RowOK(d) ==
             /\ deployments[d].environment \in environments
             /\ deployments[d].requestedBy \in users
             /\ deployments[d].approvedBy \in users \cup {NULL}
             /\ deployments[d].rollbackTo # NULL => Exists(deployments[d].rollbackTo)
<1>1. \A e \in Environments : active'[e] \subseteq catalog'
  <2>1. CASE UNCHANGED <<catalog, active>>
    BY <2>1 DEF NoDanglingReference
  <2>2. ASSUME NEW h \in Handlers, CommitDeploy(h)
        PROVE  \A e \in Environments : active'[e] \subseteq catalog'
    BY <2>2, CommitWrites DEF CommitDeploy, TypeOK, NoDanglingReference
  <2>3. ASSUME NEW w \in Entities, RemoveEntity(w)
        PROVE  \A e \in Environments : active'[e] \subseteq catalog'
    BY <2>3 DEF RemoveEntity, NoDanglingReference
  <2>4. ASSUME NEW x \in Environments, RemoveEnvironment(x)
        PROVE  \A e \in Environments : active'[e] \subseteq catalog'
    BY <2>4 DEF RemoveEnvironment, TypeOK, NoDanglingReference
  <2>5. QED
    BY <2>1, <2>2, <2>3, <2>4, OnlyWritesChangeTables
       DEF Writes, tables, InsertDeployment, WriteApproval, WriteRollback, RemoveUser
<1>2. ASSUME NEW c \in Deployments, Exists(c), deployments[c].rollbackTo # NULL
      PROVE  deployments'[deployments[c].rollbackTo] # NULL
  <2>1. deployments[c].rollbackTo \in Deployments /\ Exists(deployments[c].rollbackTo)
    BY <1>2 DEF TypeOK, Row, Exists, NoDanglingReference
  <2>2. QED
    BY <2>1, EvidenceKept DEF EvidenceKeptBy, Exists
<1>3. ASSUME NEW c \in Deployments, Exists(c)' PROVE RowOK(c)'
  <2>1. ASSUME deployments'[c] = deployments[c], users' = users, environments' = environments
        PROVE  RowOK(c)'
    <3>1. Exists(c)
      BY <1>3, <2>1 DEF Exists
    <3>2. QED
      BY <1>2, <2>1, <3>1 DEF NoDanglingReference, Exists
  <2>2. ASSUME NEW h \in Handlers, InsertDeployment(h) PROVE RowOK(c)'
    <3>1. CASE c = handlers[h].dep
      <4>1. deployments'[c] = NewRow(handlers[h].env, handlers[h].user, handlers[h].items)
        BY <2>2, <3>1, InsertWrites
      <4>2. /\ deployments'[c].environment = handlers[h].env
            /\ deployments'[c].requestedBy = handlers[h].user
            /\ deployments'[c].approvedBy = NULL
            /\ deployments'[c].rollbackTo = NULL
        BY <4>1 DEF NewRow
      <4>3. /\ UNCHANGED <<users, environments>>
            /\ handlers[h].env \in environments
            /\ handlers[h].user \in users
        BY <2>2 DEF InsertDeployment, ReferencesExist
      <4>4. QED
        BY <4>2, <4>3
    <3>2. QED
      BY <2>1, <2>2, <3>1, InsertWrites DEF WroteOnly, InsertDeployment
  <2>3. ASSUME NEW h \in Handlers, WriteApproval(h) PROVE RowOK(c)'
    <3>1. CASE c = handlers[h].dep
      <4>1. /\ UNCHANGED <<users, environments>>
            /\ handlers[h].user \in users
        BY <2>3 DEF WriteApproval
      <4>2. /\ Exists(c)
            /\ deployments'[c].environment = deployments[c].environment
            /\ deployments'[c].requestedBy = deployments[c].requestedBy
            /\ deployments'[c].approvedBy = handlers[h].user
            /\ deployments'[c].rollbackTo = deployments[c].rollbackTo
        BY <2>3, <3>1, ApprovalWrites DEF KeptRequest
      <4>3. deployments[c].rollbackTo # NULL => deployments'[deployments[c].rollbackTo] # NULL
        BY <1>2, <4>2
      <4>4. QED
        BY <4>1, <4>2, <4>3 DEF NoDanglingReference, Exists
    <3>2. QED
      BY <2>1, <2>3, <3>1, ApprovalWrites DEF WroteOnly, WriteApproval
  <2>4. ASSUME NEW h \in Handlers, CommitDeploy(h) PROVE RowOK(c)'
    <3>1. CASE c = handlers[h].dep
      <4>1. UNCHANGED <<users, environments>>
        BY <2>4 DEF CommitDeploy
      <4>2. /\ Exists(c)
            /\ deployments'[c].environment = deployments[c].environment
            /\ deployments'[c].requestedBy = deployments[c].requestedBy
            /\ deployments'[c].approvedBy = deployments[c].approvedBy
            /\ deployments'[c].rollbackTo = deployments[c].rollbackTo
        BY <2>4, <3>1, CommitWrites DEF KeptRequest
      <4>3. QED
        BY <1>2, <4>1, <4>2 DEF NoDanglingReference, Exists
    <3>2. QED
      BY <2>1, <2>4, <3>1, CommitWrites DEF WroteOnly, CommitDeploy
  <2>5. ASSUME NEW h \in Handlers, WriteRollback(h) PROVE RowOK(c)'
    <3>1. CASE c = handlers[h].dep
      <4>1. UNCHANGED <<users, environments>>
        BY <2>5 DEF WriteRollback
      <4>2. /\ Exists(c)
            /\ deployments'[c].environment = deployments[c].environment
            /\ deployments'[c].requestedBy = deployments[c].requestedBy
            /\ deployments'[c].approvedBy = deployments[c].approvedBy
            /\ deployments'[c].rollbackTo = handlers[h].target
            /\ handlers[h].target \in Deployments
            /\ Exists(handlers[h].target)
        BY <2>5, <3>1, RollbackWrites DEF KeptRequest
      <4>3. deployments'[deployments'[c].rollbackTo] # NULL
        BY <4>2, EvidenceKept DEF EvidenceKeptBy, Exists
      <4>4. QED
        BY <4>1, <4>2, <4>3 DEF NoDanglingReference, Exists
    <3>2. QED
      BY <2>1, <2>5, <3>1, RollbackWrites DEF WroteOnly, WriteRollback
  <2>6. ASSUME NEW u \in Users, RemoveUser(u) PROVE RowOK(c)'
    <3>1. /\ environments' = environments
          /\ users' = users \ {u}
      BY <2>6 DEF RemoveUser
    <3>2. /\ Exists(c)
          /\ deployments'[c].environment = deployments[c].environment
          /\ deployments'[c].requestedBy = deployments[c].requestedBy
          /\ deployments[c].requestedBy # u
          /\ deployments'[c].approvedBy \in {deployments[c].approvedBy, NULL} \ {u}
          /\ deployments'[c].rollbackTo = deployments[c].rollbackTo
      BY <1>3, <2>6, RemoveUserWrites DEF Exists, KeptRequest
    <3>3. QED
      BY <1>2, <3>1, <3>2 DEF NoDanglingReference, Exists
  <2>7. ASSUME NEW w \in Entities, RemoveEntity(w) PROVE RowOK(c)'
    BY <2>1, <2>7 DEF RemoveEntity
  <2>8. ASSUME NEW x \in Environments, RemoveEnvironment(x) PROVE RowOK(c)'
    <3>1. /\ UNCHANGED <<users, deployments>>
          /\ environments' = environments \ {x}
          /\ deployments[c] # NULL
          /\ deployments[c].environment # x
      BY <1>3, <2>8 DEF RemoveEnvironment, Exists
    <3>2. QED
      BY <3>1 DEF NoDanglingReference, Exists
  <2>9. QED
    BY <2>1, <2>2, <2>3, <2>4, <2>5, <2>6, <2>7, <2>8, OnlyWritesChangeTables
       DEF Writes, tables
<1>4. QED
  BY <1>1, <1>3 DEF NoDanglingReference

\* No relation ever points at a row that is gone.
THEOREM NoDanglingReferenceTheorem == Spec => []NoDanglingReference
<1>1. Init => NoDanglingReference
  BY DEF Init, NoDanglingReference, Exists
<1>2. Inductive /\ NoDanglingReference /\ [Next]_vars => NoDanglingReference'
  BY ReferencesPreserved
<1>3. QED
  BY <1>1, <1>2, Invariance, PTL DEF Spec

\* A deployment that was executed stays in effect until its versions go.
THEOREM DeployedIsActiveTheorem == Spec => []DeployedIsActive
<1>1. Init => DeployedIsActive
  BY DEF Init, DeployedIsActive, Exists
<1>2. Inductive /\ NoDanglingReference /\ DeployedIsActive /\ [Next]_vars => DeployedIsActive'
  BY DeployedStaysActive
<1>3. QED
  BY <1>1, <1>2, Invariance, NoDanglingReferenceTheorem, PTL DEF Spec

(***************************************************************************)
(* Deployment implements DeploymentGovernance: each write of a handler is  *)
(* one step of the governance, and everything else a handler does is       *)
(* invisible to it.                                                        *)
(***************************************************************************)
\* The mapped variables of DeploymentGovernance.
planMap == [d \in Deployments |-> PlanOf(d)]
approverMap == [d \in Deployments |-> ApproverOf(d)]
approvedSet == {d \in Deployments : Exists(d) /\ deployments[d].approvedAt}
activatedSet == {d \in Deployments : Exists(d) /\ deployments[d].deployedAt}

\* createDeployment is a request.
LEMMA InsertImplements ==
    ASSUME Inductive, NEW h \in Handlers, InsertDeployment(h)
    PROVE  Governance!Next
<1> USE DEF Inductive
<1>1. handlers[h].dep \in Deployments
  BY InsertWrites DEF WroteOnly
<1>. PICK d \in Deployments : d = handlers[h].dep
  BY <1>1
<1> DEFINE plan == [requester   |-> handlers[h].user,
                    environment |-> handlers[h].env,
                    items       |-> handlers[h].items]
<1>2. /\ WroteOnly(d)
      /\ ~Exists(d)
      /\ deployments'[d] = NewRow(handlers[h].env, handlers[h].user, handlers[h].items)
      /\ handlers[h].env \in Environments
      /\ handlers[h].user \in Users
      /\ handlers[h].items \in SUBSET Entities
      /\ handlers[h].items \subseteq catalog
      /\ UNCHANGED <<catalog, active>>
  BY InsertWrites DEF TypeOK, InsertDeployment, ReferencesExist
<1>3. deployments'[d] # NULL
  BY <1>2, NullIsNoRow DEF WroteOnly
<1>4. /\ deployments'[d].environment = handlers[h].env
      /\ deployments'[d].requestedBy = handlers[h].user
      /\ deployments'[d].items = handlers[h].items
      /\ deployments'[d].approvedBy = NULL
      /\ deployments'[d].approvedAt = FALSE
      /\ deployments'[d].deployedAt = FALSE
  BY <1>2 DEF NewRow
<1>5. PlanOf(d)' = plan /\ ApproverOf(d)' = NULL /\ PlanOf(d) = NULL /\ ApproverOf(d) = NULL
  BY <1>2, <1>3, <1>4 DEF PlanOf, ApproverOf, Exists
<1>6. \A c \in Deployments \ {d} : PlanOf(c)' = PlanOf(c) /\ ApproverOf(c)' = ApproverOf(c)
  BY <1>2 DEF PlanOf, ApproverOf, Exists, WroteOnly
<1>7. planMap' = [planMap EXCEPT ![d] = plan]
  BY <1>5, <1>6 DEF planMap
<1>8. UNCHANGED <<approverMap, approvedSet, activatedSet>>
  BY <1>2, <1>4, <1>5, <1>6 DEF approverMap, approvedSet, activatedSet, WroteOnly, Exists
<1>9. Governance!Request(d, plan)
  BY <1>2, <1>5, <1>7, <1>8
     DEF Governance!Request, planMap, approverMap, approvedSet, activatedSet
<1>10. plan \in Governance!Plan
  BY <1>2 DEF Governance!Plan, Governance!Entities, Entities
<1>11. QED
  BY <1>9, <1>10 DEF Governance!Next

\* approveDeployment is an approval by somebody else than the requester.
LEMMA ApprovalImplements ==
    ASSUME Inductive, NEW h \in Handlers, WriteApproval(h)
    PROVE  Governance!Next
<1> USE DEF Inductive
<1>1. handlers[h].dep \in Deployments /\ handlers[h].user \in Users
  BY ApprovalWrites DEF WroteOnly, TypeOK
<1>. PICK d \in Deployments, u \in Users : d = handlers[h].dep /\ u = handlers[h].user
  BY <1>1
<1>2. /\ WroteOnly(d)
      /\ KeptRequest(d)
      /\ u # deployments[d].requestedBy
      /\ deployments'[d].approvedBy = u
      /\ deployments'[d].approvedAt
      /\ deployments'[d].deployedAt = deployments[d].deployedAt
      /\ UNCHANGED <<catalog, active>>
  BY ApprovalWrites DEF WriteApproval
<1>3. Exists(d) /\ deployments'[d] # NULL
  BY <1>2, NullIsNoRow DEF WroteOnly, KeptRequest
<1>4. /\ PlanOf(d)' = PlanOf(d)
      /\ PlanOf(d).requester = deployments[d].requestedBy
      /\ ApproverOf(d)' = u
  BY <1>2, <1>3 DEF PlanOf, ApproverOf, Exists, KeptRequest
<1>5. \A c \in Deployments \ {d} : PlanOf(c)' = PlanOf(c) /\ ApproverOf(c)' = ApproverOf(c)
  BY <1>2 DEF PlanOf, ApproverOf, Exists, WroteOnly
<1>6. approverMap' = [approverMap EXCEPT ![d] = u] /\ planMap' = planMap
  BY <1>4, <1>5 DEF approverMap, planMap
<1>7. approvedSet' = approvedSet \cup {d} /\ activatedSet' = activatedSet
  BY <1>2, <1>3 DEF approvedSet, activatedSet, WroteOnly, Exists
<1>8. PlanOf(d) # NULL
  <2>1. PlanOf(d) = [requester   |-> deployments[d].requestedBy,
                     environment |-> deployments[d].environment,
                     items       |-> deployments[d].items]
    BY <1>3 DEF PlanOf
  <2>2. PlanOf(d) \in Governance!Plan
    BY <1>3, <2>1 DEF TypeOK, Row, Exists, Governance!Plan, Governance!Entities, Entities
  <2>3. QED
    BY <2>2, NullIsNoPlan
<1>9. Governance!Approve(d, u)
  BY <1>2, <1>4, <1>6, <1>7, <1>8
     DEF Governance!Approve, planMap, approverMap, approvedSet, activatedSet
<1>10. QED
  BY <1>9 DEF Governance!Next

\* The commit of deployDeployment is an activation.
LEMMA CommitImplements ==
    ASSUME Inductive, NEW h \in Handlers, CommitDeploy(h)
    PROVE  Governance!Next
<1> USE DEF Inductive
<1>1. handlers[h].dep \in Deployments
  BY CommitWrites DEF WroteOnly
<1>. PICK d \in Deployments : d = handlers[h].dep
  BY <1>1
<1>2. /\ WroteOnly(d)
      /\ KeptRequest(d)
      /\ deployments[d].approvedAt
      /\ handlers[h].links = deployments[d].items
      /\ handlers[h].links \cap Versions \subseteq catalog
      /\ deployments'[d].approvedBy = deployments[d].approvedBy
      /\ deployments'[d].approvedAt
      /\ deployments'[d].deployedAt
  BY CommitWrites
<1>3. Exists(d) /\ deployments'[d] # NULL
  BY <1>2, NullIsNoRow DEF WroteOnly, KeptRequest
<1>4. /\ PlanOf(d)' = PlanOf(d)
      /\ ApproverOf(d)' = ApproverOf(d)
      /\ PlanOf(d).items = deployments[d].items
      /\ PlanOf(d).environment = deployments[d].environment
  BY <1>2, <1>3 DEF PlanOf, ApproverOf, Exists, KeptRequest
<1>5. \A c \in Deployments \ {d} : PlanOf(c)' = PlanOf(c) /\ ApproverOf(c)' = ApproverOf(c)
  BY <1>2 DEF PlanOf, ApproverOf, Exists, WroteOnly
<1>6. planMap' = planMap /\ approverMap' = approverMap
  BY <1>4, <1>5 DEF planMap, approverMap
<1>7. approvedSet' = approvedSet /\ activatedSet' = activatedSet \cup {d} /\ d \in approvedSet
  BY <1>2, <1>3 DEF approvedSet, activatedSet, WroteOnly, Exists
<1>8. active' = [active EXCEPT ![deployments[d].environment] =
                     active[deployments[d].environment] \cup (deployments[d].items \cap Versions)]
  BY <1>2 DEF CommitDeploy
<1>9. catalog' = catalog
  BY DEF CommitDeploy
<1>10. Governance!Activate(d)
  BY <1>2, <1>4, <1>6, <1>7, <1>8, <1>9
     DEF Governance!Activate, planMap, approverMap, approvedSet, activatedSet
<1>11. QED
  BY <1>10 DEF Governance!Next

\* A rollback is not seen by the governance: nothing leaves the environment.
LEMMA RollbackStutters ==
    ASSUME Inductive, NEW h \in Handlers, WriteRollback(h)
    PROVE  UNCHANGED Governance!vars
<1> USE DEF Inductive
<1>1. handlers[h].dep \in Deployments
  BY RollbackWrites DEF WroteOnly
<1>. PICK d \in Deployments : d = handlers[h].dep
  BY <1>1
<1>2. /\ WroteOnly(d)
      /\ KeptRequest(d)
      /\ deployments'[d].approvedBy = deployments[d].approvedBy
      /\ deployments'[d].approvedAt = deployments[d].approvedAt
      /\ deployments'[d].deployedAt = deployments[d].deployedAt
      /\ UNCHANGED <<catalog, active>>
  BY RollbackWrites DEF WriteRollback
<1>3. Exists(d) /\ deployments'[d] # NULL
  BY <1>2, NullIsNoRow DEF WroteOnly, KeptRequest
<1>4. PlanOf(d)' = PlanOf(d) /\ ApproverOf(d)' = ApproverOf(d)
  BY <1>2, <1>3 DEF PlanOf, ApproverOf, Exists, KeptRequest
<1>5. \A c \in Deployments \ {d} : PlanOf(c)' = PlanOf(c) /\ ApproverOf(c)' = ApproverOf(c)
  BY <1>2 DEF PlanOf, ApproverOf, Exists, WroteOnly
<1>6. planMap' = planMap /\ approverMap' = approverMap
  BY <1>4, <1>5 DEF planMap, approverMap
<1>7. approvedSet' = approvedSet /\ activatedSet' = activatedSet
  BY <1>2, <1>3 DEF approvedSet, activatedSet, WroteOnly, Exists
<1>8. QED
  BY <1>2, <1>6, <1>7 DEF Governance!vars, planMap, approverMap, approvedSet, activatedSet

\* Deleting a version, an asset version or a model is a removal.
LEMMA EntityRemovalImplements ==
    ASSUME NEW v \in Entities, RemoveEntity(v)
    PROVE  Governance!Next
<1>1. /\ v \in catalog
      /\ catalog' = catalog \ {v}
      /\ active' = [e \in Environments |-> active[e] \ {v}]
      /\ deployments' = deployments
  BY DEF RemoveEntity
<1>2. UNCHANGED <<planMap, approverMap, approvedSet, activatedSet>>
  BY <1>1 DEF planMap, approverMap, approvedSet, activatedSet, PlanOf, ApproverOf, Exists
<1>3. Governance!RemoveEntity(v)
  BY <1>1, <1>2
     DEF Governance!RemoveEntity, planMap, approverMap, approvedSet, activatedSet
<1>4. QED
  BY <1>3 DEF Governance!Next, Governance!Entities, Entities

\* Deleting an account blanks it as approver.
LEMMA UserRemovalImplements ==
    ASSUME Inductive, NEW u \in Users, RemoveUser(u)
    PROVE  Governance!Next
<1> USE DEF Inductive
<1>1. u # NULL
  BY NullAssumption
<1>2. ASSUME NEW d \in Deployments
      PROVE  /\ PlanOf(d)' = PlanOf(d)
             /\ ApproverOf(d)' = IF ApproverOf(d) = u THEN NULL ELSE ApproverOf(d)
             /\ d \in approvedSet' <=> d \in approvedSet
             /\ d \in activatedSet' <=> d \in activatedSet
  <2>1. CASE ~Exists(d)
    BY <1>1, <2>1, RemoveUserWrites DEF PlanOf, ApproverOf, Exists, approvedSet, activatedSet
  <2>2. CASE Exists(d)
    <3>1. deployments'[d] # NULL
      BY <2>2, RemoveUserWrites, NullIsNoRow
    <3>2. /\ KeptRequest(d)
          /\ deployments'[d].approvedAt = deployments[d].approvedAt
          /\ deployments'[d].deployedAt = deployments[d].deployedAt
      BY <2>2, RemoveUserWrites
    <3>3. deployments'[d].approvedBy =
             IF deployments[d].approvedBy = u THEN NULL ELSE deployments[d].approvedBy
      <4>1. CASE deployments[d].approvedBy = u
        BY <2>2, <4>1, RemoveUserWrites
      <4>2. CASE deployments[d].approvedBy # u
        BY <2>2, <4>2 DEF RemoveUser
      <4>3. QED
        BY <4>1, <4>2
    <3>4. QED
      BY <2>2, <3>1, <3>2, <3>3
         DEF PlanOf, ApproverOf, Exists, approvedSet, activatedSet, KeptRequest
  <2>3. QED
    BY <2>1, <2>2
<1>3. /\ planMap' = planMap
      /\ approverMap' = [d \in Deployments |->
                           IF approverMap[d] = u THEN NULL ELSE approverMap[d]]
  BY <1>2 DEF planMap, approverMap
<1>4. UNCHANGED <<approvedSet, activatedSet>>
  BY <1>2 DEF approvedSet, activatedSet
<1>5. UNCHANGED <<catalog, active>>
  BY DEF RemoveUser
<1>6. Governance!RemoveApprover(u)
  BY <1>3, <1>4, <1>5
     DEF Governance!RemoveApprover, planMap, approverMap, approvedSet, activatedSet
<1>7. QED
  BY <1>6 DEF Governance!Next

\* An environment can only be deleted while it has no deployment, and then
\* nothing is active in it: the governance sees no change.
LEMMA EnvironmentRemovalStutters ==
    ASSUME Inductive, ActiveWasApproved, NEW e \in Environments, RemoveEnvironment(e)
    PROVE  UNCHANGED Governance!vars
<1>1. active[e] = {}
  BY DEF ActiveWasApproved, Brought, RemoveEnvironment
<1>2. active' = active
  BY <1>1 DEF RemoveEnvironment, Inductive, TypeOK
<1>3. UNCHANGED <<catalog, deployments>>
  BY DEF RemoveEnvironment
<1>4. UNCHANGED <<planMap, approverMap, approvedSet, activatedSet>>
  BY <1>3 DEF planMap, approverMap, approvedSet, activatedSet, PlanOf, ApproverOf, Exists
<1>5. QED
  BY <1>2, <1>3, <1>4 DEF Governance!vars, planMap, approverMap, approvedSet, activatedSet

\* Every behaviour of the service is one of the governance: whole approved
\* plans are activated, plans are never edited, no approval is by the requester.
THEOREM Refinement == Spec => Governed
<1>1. Init => Governance!Init
  <2> SUFFICES ASSUME Init PROVE Governance!Init
    OBVIOUS
  <2>1. /\ planMap = [d \in Deployments |-> NULL]
        /\ approverMap = [d \in Deployments |-> NULL]
        /\ approvedSet = {}
        /\ activatedSet = {}
    BY DEF Init, planMap, approverMap, approvedSet, activatedSet, PlanOf, ApproverOf, Exists
  <2>2. QED
    BY <2>1 DEF Init, Governance!Init, Governance!Entities, Entities,
                planMap, approverMap, approvedSet, activatedSet
<1>2. Inductive /\ ActiveWasApproved /\ [Next]_vars => [Governance!Next]_(Governance!vars)
  <2> SUFFICES ASSUME Inductive, ActiveWasApproved, [Next]_vars
               PROVE  Governance!Next \/ UNCHANGED Governance!vars
    OBVIOUS
  <2>1. UNCHANGED tables => UNCHANGED Governance!vars
    <3>1. UNCHANGED tables => UNCHANGED <<planMap, approverMap, approvedSet, activatedSet>>
      BY DEF tables, planMap, approverMap, approvedSet, activatedSet, PlanOf, ApproverOf, Exists
    <3>2. QED
      BY <3>1 DEF tables, Governance!vars, planMap, approverMap, approvedSet, activatedSet
  <2>2. QED
    BY <2>1, OnlyWritesChangeTables, InsertImplements, ApprovalImplements, CommitImplements,
       RollbackStutters, EntityRemovalImplements, UserRemovalImplements,
       EnvironmentRemovalStutters
       DEF Writes
<1>3. QED
  BY <1>1, <1>2, Invariance, ActiveWasApprovedTheorem, PTL DEF Spec, Governed, Governance!Spec
===============================================================================
