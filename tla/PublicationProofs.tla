---------------------------- MODULE PublicationProofs ----------------------------
(***************************************************************************)
(* Proofs about Publication, for every number of versions, users and       *)
(* requests in flight.                                                     *)
(***************************************************************************)
EXTENDS Publication, TLAPS

OfPrompts == {"project", "setting", "publish", "unpublish"}

OfAssets == {"check", "submit", "withdraw", "approve", "reject", "log"}

\* What a request holds: a version of its kind, and once it has written an
\* asset version, the entry that it is about to log.
Carried ==
    \A h \in Handlers :
        /\ handlers[h].pc \in OfPrompts => handlers[h].version \in Prompts
        /\ handlers[h].pc \in OfAssets => handlers[h].version \in Assets
        /\ handlers[h].pc \in {"approve", "reject"} => handlers[h].user \in Users
        /\ At(h, "log") => EntryOf(h) \in written

\* A request notices every moment at which no approval is asked for, and what
\* it has read of the setting was true then.
Waivers ==
    \A h \in Handlers : ~At(h, "idle") =>
        /\ ~requiresApproval => handlers[h].waived
        /\ ~handlers[h].required => handlers[h].waived

\* An asset version that waits for a decision, or for which a decision is on its
\* way, has been requested.
Requested ==
    /\ \A v \in Assets : Exists(v) /\ rows[v].status \in {"PENDING_APPROVAL", "PUBLISHED"} =>
          rows[v].requested
    /\ \A h \in Handlers : handlers[h].pc \in {"approve", "reject"} /\ Exists(handlers[h].version) =>
          Held(h).requested

Inductive == TypeOK /\ Carried /\ Waivers /\ Requested

-------------------------------------------------------------------------------
(***************************************************************************)
(* Steps that write no table: reads, checks, refusals.                     *)
(***************************************************************************)
Quiet == UNCHANGED <<tables, written>> /\ failed' \subseteq Entry

\* A request that has read the setting is of the right type.
LEMMA SettingKeepsType ==
    ASSUME NEW r \in Handler, NEW b \in BOOLEAN
    PROVE  [r EXCEPT !.pc = "publish", !.required = b] \in Handler
  BY DEF Handler

\* A request begins or goes on to read.
LEMMA ReadsKeepInductive ==
    ASSUME Inductive, NEW h \in Handlers,
           NewRequest(h) \/ ReadProject(h) \/ ReadSetting(h) \/ CheckSubmit(h)
    PROVE  Inductive'
<1> USE DEF Inductive, TypeOK, Carried, Waivers, Requested, At, Exists, Held, EntryOf, OfPrompts, OfAssets
<1>1. CASE NewRequest(h)
  <2>1. PICK v \in Versions, u \in Users \cup {NULL}, pc \in OfPrompts \cup OfAssets :
          /\ pc \notin {"log", "submit"}
          /\ Start(h, pc, v, u)
          /\ pc \in OfPrompts => v \in Prompts
          /\ pc \in OfAssets => v \in Assets
          /\ pc \in {"approve", "reject"} => u \in Users /\ rows[v].status = "PENDING_APPROVAL"
    BY <1>1, UsersAssumption DEF NewRequest, ReadToPublish, ReadToUnpublish, ReadToSubmit,
       ReadToWithdraw, ReadToApprove, ReadToReject
  <2>2. /\ UNCHANGED <<requiresApproval, users, rows, log, written, failed>>
        /\ handlers' = [handlers EXCEPT ![h] =
              [Idle EXCEPT !.pc = pc, !.version = v, !.user = u, !.waived = ~requiresApproval]]
    BY <2>1 DEF Start, tables
  <2>3. TypeOK'
    BY <2>1, <2>2 DEF Handler, Versions, Idle
  <2>4. /\ handlers'[h].pc = pc /\ handlers'[h].version = v /\ handlers'[h].user = u
        /\ handlers'[h].required /\ handlers'[h].waived = ~requiresApproval
        /\ \A g \in Handlers : g # h => handlers'[g] = handlers[g]
    BY <2>1, <2>2 DEF Handler, Idle
  <2>5. Carried'
    BY <2>1, <2>2, <2>4
  <2>6. Waivers'
    <3> SUFFICES ASSUME NEW g \in Handlers, ~At(g, "idle")'
                 PROVE  (~requiresApproval => handlers'[g].waived) /\ (~handlers'[g].required => handlers'[g].waived)
      BY <2>2
    <3>1. CASE g = h
      BY <3>1, <2>4
    <3>2. CASE g # h
      BY <3>2, <2>2, <2>4
    <3>3. QED
      BY <3>1, <3>2
  <2>7. Requested'
    BY <2>1, <2>2, <2>4
  <2>8. QED
    BY <2>3, <2>5, <2>6, <2>7
<1>2. CASE ReadProject(h)
  BY <1>2 DEF ReadProject, tables, Handler
<1>3. CASE ReadSetting(h)
  <2>1. /\ UNCHANGED <<requiresApproval, users, rows, log, written, failed>>
        /\ handlers' = [handlers EXCEPT ![h].pc = "publish", ![h].required = requiresApproval]
        /\ handlers[h].pc = "setting"
    BY <1>3 DEF ReadSetting, tables
  <2>2. TypeOK'
    BY <2>1, SettingKeepsType
  <2>3. /\ handlers'[h].pc = "publish" /\ handlers'[h].version = handlers[h].version
        /\ handlers'[h].required = requiresApproval /\ handlers'[h].waived = handlers[h].waived
        /\ \A g \in Handlers : g # h => handlers'[g] = handlers[g]
    BY <2>1 DEF Handler
  <2>4. Carried'
    BY <2>1, <2>3
  <2>5. Waivers'
    <3> SUFFICES ASSUME NEW g \in Handlers, ~At(g, "idle")'
                 PROVE  (~requiresApproval => handlers'[g].waived) /\ (~handlers'[g].required => handlers'[g].waived)
      BY <2>1
    <3>1. CASE g = h
      BY <3>1, <2>1, <2>3
    <3>2. CASE g # h
      BY <3>2, <2>1, <2>3
    <3>3. QED
      BY <3>1, <3>2
  <2>6. Requested'
    BY <2>1, <2>3
  <2>7. QED
    BY <2>2, <2>4, <2>5, <2>6
<1>4. CASE CheckSubmit(h)
  BY <1>4 DEF CheckSubmit, tables, Handler
<1>5. QED
  BY <1>1, <1>2, <1>3, <1>4

\* A request returns, and no table is written.
LEMMA ReturnKeepsInductive ==
    ASSUME Inductive, NEW h \in Handlers, Return(h), Quiet
    PROVE  Inductive'
<1> USE DEF Inductive, TypeOK, Carried, Waivers, Requested, At, Exists, Held, EntryOf, OfPrompts, OfAssets
<1>1. /\ UNCHANGED <<requiresApproval, users, rows, log, written>>
      /\ failed' \subseteq Entry
      /\ handlers' = [handlers EXCEPT ![h] =
            [pc |-> "idle", version |-> NULL, user |-> NULL, action |-> NULL,
             required |-> TRUE, waived |-> FALSE]]
  BY DEF Return, Quiet, Idle, tables
<1>2. TypeOK'
  BY <1>1 DEF Handler
<1>3. QED
  BY <1>1, <1>2

-------------------------------------------------------------------------------
(***************************************************************************)
(* Steps that write a row.                                                 *)
(***************************************************************************)
\* The row that was written, and what is left of the type to show.
LEMMA UpdateKeepsType ==
    ASSUME TypeOK, NEW h \in Handlers, NEW row \in Row, row.approver \in users \cup {NULL},
           handlers[h].version \in Versions, Update(h, row),
           handlers' \in [Handlers -> Handler], written' \subseteq Entry
    PROVE  /\ TypeOK'
           /\ rows'[handlers[h].version] = row
           /\ \A v \in Versions \ {handlers[h].version} : rows'[v] = rows[v]
           /\ \A v \in Versions : Exists(v)' <=> Exists(v)
  BY NullIsNoRow DEF TypeOK, Update, Exists

\* A request that returns holds nothing.
LEMMA ReturnIsIdle ==
    ASSUME TypeOK, NEW h \in Handlers, Return(h)
    PROVE  /\ handlers' \in [Handlers -> Handler]
           /\ handlers'[h].pc = "idle"
           /\ \A g \in Handlers : g # h => handlers'[g] = handlers[g]
  BY DEF TypeOK, Return, Idle, Handler

\* A row as it is upserted for the first time is a row, without an approver.
LEMMA UnlistedRows ==
    ASSUME NEW p \in BOOLEAN, NEW status \in {"PENDING_APPROVAL", "PUBLISHED"}
    PROVE  /\ Unlisted \in Row /\ Unlisted.approver = NULL
           /\ [Unlisted EXCEPT !.status = status, !.requested = TRUE] \in Row
           /\ [Unlisted EXCEPT !.status = status, !.requested = TRUE].approver = NULL
           /\ [Unlisted EXCEPT !.status = status, !.requested = TRUE, !.published = p] \in Row
           /\ [Unlisted EXCEPT !.status = status, !.requested = TRUE, !.published = p].approver = NULL
  BY DEF Unlisted, Row

\* A prompt version is published, left pending or unpublished.
LEMMA PromptWritesKeepInductive ==
    ASSUME Inductive, NEW h \in Handlers, WritePublish(h) \/ WriteUnpublish(h)
    PROVE  Inductive'
<1> DEFINE v == handlers[h].version
<1>1. v \in Prompts /\ v \notin Assets /\ v \in Versions
  BY KindsAssumption DEF Inductive, Carried, WritePublish, WriteUnpublish, At, OfPrompts, Versions
<1>2. PICK row \in Row : row.approver = NULL /\ Update(h, row)
  BY UnlistedRows DEF WritePublish, WriteUnpublish
<1>3. Return(h) /\ written' = written
  BY DEF WritePublish, WriteUnpublish
<1>4. /\ TypeOK'
      /\ \A w \in Versions \ {v} : rows'[w] = rows[w]
      /\ \A w \in Versions : Exists(w)' <=> Exists(w)
  BY <1>1, <1>2, <1>3, UpdateKeepsType, ReturnIsIdle DEF Inductive, TypeOK
<1>5. requiresApproval' = requiresApproval
  BY <1>2 DEF Update
<1>6. Carried'
  BY <1>3, ReturnIsIdle DEF Inductive, Carried, OfPrompts, OfAssets, At, EntryOf
<1>7. Waivers'
  BY <1>3, <1>5, ReturnIsIdle DEF Inductive, Waivers, At
<1>8. Requested'
  BY <1>1, <1>3, <1>4, ReturnIsIdle DEF Inductive, Requested, Carried, OfAssets, Held, Versions
<1>9. QED
  BY <1>4, <1>6, <1>7, <1>8 DEF Inductive

\* What the four writes of asset versions have in common.
AssetWrite(h, row, action, user) ==
    /\ ~At(h, "idle") /\ ~At(h, "log")
    /\ handlers[h].version \in Assets
    /\ Update(h, row)
    /\ GoOnToLog(h, action, user)
    /\ row.approver \in users \cup {NULL}
    /\ Held(h).requested => row.requested
    /\ row.status \in {"PENDING_APPROVAL", "PUBLISHED"} => row.requested

\* The four writes to an asset's row differ in the row, the action and the user only.
LEMMA AssetWritesAlike ==
    ASSUME Inductive, NEW h \in Handlers,
           WriteSubmit(h) \/ WriteWithdraw(h) \/ WriteApprove(h) \/ WriteReject(h)
    PROVE  \E row \in Row, action \in Actions, user \in Users \cup {NULL} :
              AssetWrite(h, row, action, user)
<1> USE DEF AssetWrite, Actions, At
<1>1. /\ handlers[h].version \in Assets /\ handlers[h].version \in Versions
      /\ Held(h) \in Row /\ Held(h).approver \in users \cup {NULL}
      /\ handlers[h].pc \in {"approve", "reject"} => Held(h).requested
  BY DEF Inductive, TypeOK, Carried, Requested, OfAssets, Update, Held, Exists, Versions, At,
     WriteSubmit, WriteWithdraw, WriteApprove, WriteReject
<1>2. CASE WriteSubmit(h)
  <2>1. [Held(h) EXCEPT !.status = "PENDING_APPROVAL", !.requested = TRUE] \in Row
    BY <1>1 DEF Row
  <2>2. QED
    BY <1>1, <1>2, <2>1 DEF WriteSubmit, Row
<1>3. CASE WriteWithdraw(h)
  <2>1. [Held(h) EXCEPT !.status = "NOT_PUBLISHED", !.published = FALSE] \in Row
    BY <1>1 DEF Row
  <2>2. QED
    BY <1>1, <1>3, <2>1, UsersAssumption DEF WriteWithdraw, Row
<1>4. CASE WriteApprove(h)
  <2>1. handlers[h].user \in users /\ users \subseteq Users
    BY <1>4 DEF WriteApprove, Inductive, TypeOK
  <2>2. [Held(h) EXCEPT !.status = "PUBLISHED", !.approved = TRUE, !.approver = handlers[h].user] \in Row
    BY <1>1, <2>1 DEF Row
  <2>3. QED
    BY <1>1, <1>4, <2>1, <2>2 DEF WriteApprove, Row, At
<1>5. CASE WriteReject(h)
  <2>1. handlers[h].user \in users /\ users \subseteq Users
    BY <1>5 DEF WriteReject, Inductive, TypeOK
  <2>2. [Held(h) EXCEPT !.status = "REJECTED", !.approved = FALSE,
                        !.approver = handlers[h].user, !.reason = TRUE] \in Row
    BY <1>1, <2>1 DEF Row
  <2>3. QED
    BY <1>1, <1>5, <2>1, <2>2 DEF WriteReject, Row
<1>6. QED
  BY <1>2, <1>3, <1>4, <1>5

\* An asset version is submitted, withdrawn, approved or rejected.
LEMMA AssetWritesKeepInductive ==
    ASSUME Inductive, NEW h \in Handlers, NEW row \in Row, NEW action \in Actions,
           NEW user \in Users \cup {NULL}, AssetWrite(h, row, action, user)
    PROVE  Inductive'
<1> DEFINE v == handlers[h].version
<1>1. v \in Versions /\ v \in Assets
  BY DEF AssetWrite, Versions
<1>2. /\ handlers' \in [Handlers -> Handler]
      /\ handlers'[h] = [handlers[h] EXCEPT !.pc = "log", !.action = action, !.user = user]
      /\ \A g \in Handlers : g # h => handlers'[g] = handlers[g]
  <2>1. handlers' = [handlers EXCEPT ![h].pc = "log", ![h].action = action, ![h].user = user]
    BY DEF AssetWrite, GoOnToLog
  <2>2. handlers \in [Handlers -> Handler]
    BY DEF Inductive, TypeOK
  <2>3. \A r \in Handler : [r EXCEPT !.pc = "log", !.action = action, !.user = user] \in Handler
    BY DEF Handler
  <2>4. QED
    BY <2>1, <2>2, <2>3
<1>3. /\ handlers'[h].pc = "log" /\ handlers'[h].version = v
      /\ handlers'[h].waived = handlers[h].waived /\ handlers'[h].required = handlers[h].required
      /\ EntryOf(h)' = [action |-> action, version |-> v, user |-> user]
  BY <1>2 DEF EntryOf, Inductive, TypeOK, Handler
<1>4. written' = written \cup {[action |-> action, version |-> v, user |-> user]}
  BY DEF AssetWrite, GoOnToLog
<1>5. written' \subseteq Entry
  BY <1>1, <1>4 DEF Entry, Inductive, TypeOK
<1>6. /\ TypeOK'
      /\ rows'[v] = row
      /\ \A w \in Versions \ {v} : rows'[w] = rows[w]
      /\ \A w \in Versions : Exists(w)' <=> Exists(w)
      /\ Exists(v)
  BY <1>1, <1>2, <1>5, UpdateKeepsType DEF AssetWrite, Inductive, Update
<1>7. Carried'
  <2> SUFFICES ASSUME NEW g \in Handlers
               PROVE  /\ handlers'[g].pc \in OfPrompts => handlers'[g].version \in Prompts
                      /\ handlers'[g].pc \in OfAssets => handlers'[g].version \in Assets
                      /\ handlers'[g].pc \in {"approve", "reject"} => handlers'[g].user \in Users
                      /\ At(g, "log")' => EntryOf(g)' \in written'
    BY DEF Carried
  <2>1. CASE g = h
    BY <2>1, <1>1, <1>3, <1>4 DEF OfPrompts
  <2>2. CASE g # h
    BY <2>2, <1>2, <1>4 DEF Inductive, Carried, At, EntryOf
  <2>3. QED
    BY <2>1, <2>2
<1>8. Waivers'
  <2> SUFFICES ASSUME NEW g \in Handlers, ~At(g, "idle")'
               PROVE  (~requiresApproval' => handlers'[g].waived) /\ (~handlers'[g].required => handlers'[g].waived)
    BY DEF Waivers
  <2>1. requiresApproval' = requiresApproval
    BY DEF AssetWrite, Update
  <2>2. CASE g = h
    <3>1. ~At(h, "idle")
      BY DEF AssetWrite
    <3>2. QED
      BY <2>2, <2>1, <3>1, <1>3 DEF Inductive, Waivers
  <2>3. CASE g # h
    BY <2>3, <2>1, <1>2 DEF Inductive, Waivers, At
  <2>4. QED
    BY <2>2, <2>3
<1>9. Requested'
  <2>1. ASSUME NEW w \in Assets, Exists(w)', rows'[w].status \in {"PENDING_APPROVAL", "PUBLISHED"}
        PROVE  rows'[w].requested
    BY <2>1, <1>6 DEF AssetWrite, Inductive, Requested, Versions
  <2>2. ASSUME NEW g \in Handlers, handlers'[g].pc \in {"approve", "reject"}, Exists(handlers[g].version)'
        PROVE  Held(g)'.requested
    <3>1. g # h /\ handlers'[g] = handlers[g]
      BY <2>2, <1>2, <1>3
    <3>2. handlers[g].version \in Versions /\ Exists(handlers[g].version) /\ Held(g).requested
      BY <2>2, <3>1, <1>6 DEF Inductive, Carried, OfAssets, Requested, Versions
    <3>3. CASE handlers[g].version = v
      BY <3>1, <3>2, <3>3, <1>6 DEF Held, AssetWrite
    <3>4. CASE handlers[g].version # v
      BY <3>1, <3>2, <3>4, <1>6 DEF Held
    <3>5. QED
      BY <3>3, <3>4
  <2>3. QED
    BY <2>1, <2>2 DEF Requested
<1>10. QED
  BY <1>6, <1>7, <1>8, <1>9 DEF Inductive

-------------------------------------------------------------------------------
(***************************************************************************)
(* Answers, the activity log, and what other services do.                  *)
(***************************************************************************)
\* A request ends: refused, in the log, or with an error.
LEMMA EndsKeepInductive ==
    ASSUME Inductive, NEW h \in Handlers,
           \/ RefuseProject(h) \/ RefuseSubmit(h) \/ RefuseWrite(h)
           \/ FailToLog(h) \/ DatabaseError(h)
    PROVE  Inductive'
<1>1. At(h, "log") => EntryOf(h) \in Entry
  BY DEF Inductive, Carried, TypeOK
<1>2. Return(h) /\ Quiet
  BY <1>1 DEF RefuseProject, RefuseSubmit, RefuseWrite, Answer, FailToLog, DatabaseError,
     Quiet, Inductive, TypeOK
<1>3. QED
  BY <1>2, ReturnKeepsInductive

\* The activity entry is written last, by a user who still exists.
LEMMA LogKeepsInductive ==
    ASSUME Inductive, NEW h \in Handlers, LogActivity(h)
    PROVE  Inductive'
<1>1. /\ UNCHANGED <<requiresApproval, users, rows, written, failed>>
      /\ Return(h)
      /\ log' = log \cup {EntryOf(h)}
      /\ EntryOf(h) \in Entry /\ EntryOf(h).user \in users
  BY DEF LogActivity, Inductive, Carried, TypeOK, EntryOf
<1>2. TypeOK'
  BY <1>1, ReturnIsIdle DEF Inductive, TypeOK, Exists
<1>3. Carried'
  BY <1>1, ReturnIsIdle DEF Inductive, Carried, OfPrompts, OfAssets, At, EntryOf
<1>4. Waivers'
  BY <1>1, ReturnIsIdle DEF Inductive, Waivers, At
<1>5. Requested'
  BY <1>1, ReturnIsIdle DEF Inductive, Requested, Exists, Held
<1>6. QED
  BY <1>2, <1>3, <1>4, <1>5 DEF Inductive

\* The tenant asks for approval, or ceases to and so waives the requests in progress.
LEMMA SettingKeepsInductive ==
    ASSUME Inductive, SetRequiresApproval
    PROVE  Inductive'
<1>1. /\ UNCHANGED <<users, rows, log, written, failed>>
      /\ requiresApproval' = ~requiresApproval
      /\ handlers' = [h \in Handlers |->
            IF At(h, "idle") \/ requiresApproval' THEN handlers[h]
            ELSE [handlers[h] EXCEPT !.waived = TRUE]]
  BY DEF SetRequiresApproval
<1>2. ASSUME NEW h \in Handlers
      PROVE  /\ handlers'[h] \in Handler
             /\ handlers'[h].pc = handlers[h].pc /\ handlers'[h].version = handlers[h].version
             /\ handlers'[h].user = handlers[h].user /\ EntryOf(h)' = EntryOf(h)
             /\ handlers'[h].required = handlers[h].required
             /\ handlers'[h].waived \/ handlers'[h] = handlers[h]
             /\ ~At(h, "idle") /\ ~requiresApproval' => handlers'[h].waived
  <2>1. handlers[h] \in Handler
    BY DEF Inductive, TypeOK
  <2>2. CASE At(h, "idle") \/ requiresApproval'
    BY <1>1, <2>1, <2>2 DEF EntryOf
  <2>3. CASE ~(At(h, "idle") \/ requiresApproval')
    BY <1>1, <2>1, <2>3 DEF EntryOf, Handler
  <2>4. QED
    BY <2>2, <2>3
<1>3. handlers' \in [Handlers -> Handler]
  BY <1>1, <1>2
<1>4. TypeOK'
  BY <1>1, <1>3 DEF Inductive, TypeOK, Exists
<1>5. Carried'
  <2> SUFFICES ASSUME NEW h \in Handlers
               PROVE  /\ handlers'[h].pc \in OfPrompts => handlers'[h].version \in Prompts
                      /\ handlers'[h].pc \in OfAssets => handlers'[h].version \in Assets
                      /\ handlers'[h].pc \in {"approve", "reject"} => handlers'[h].user \in Users
                      /\ At(h, "log")' => EntryOf(h)' \in written'
    BY DEF Carried
  <2>1. EntryOf(h)' = EntryOf(h) /\ written' = written
    BY <1>1, <1>2
  <2>2. QED
    BY <1>2, <2>1 DEF Inductive, Carried, At
<1>6. Waivers'
  <2> SUFFICES ASSUME NEW h \in Handlers, ~At(h, "idle")'
               PROVE  (~requiresApproval' => handlers'[h].waived) /\ (~handlers'[h].required => handlers'[h].waived)
    BY DEF Waivers
  <2>1. ~At(h, "idle")
    BY <1>2 DEF At
  <2>2. ~handlers[h].required => handlers[h].waived
    BY <2>1 DEF Inductive, Waivers
  <2>3. CASE handlers'[h].waived
    BY <2>3
  <2>4. CASE handlers'[h] = handlers[h]
    BY <1>2, <2>1, <2>2, <2>4
  <2>5. QED
    BY <1>2, <2>3, <2>4
<1>7. Requested'
  BY <1>1, <1>2 DEF Inductive, Requested, Exists, Held
<1>8. QED
  BY <1>4, <1>5, <1>6, <1>7 DEF Inductive

\* Versions and users are deleted while requests about them are in progress.
LEMMA RemovalsKeepInductive ==
    ASSUME Inductive, (\E v \in Versions : RemoveVersion(v)) \/ (\E u \in Users : RemoveUser(u))
    PROVE  Inductive'
<1> DEFINE Kept ==
              /\ rows' \in [Versions -> Row \cup {NULL}]
              /\ users' \subseteq users
              /\ \A entry \in log : entry.user \in users'
              /\ \A v \in Versions : Exists(v)' =>
                    /\ Exists(v)
                    /\ rows'[v].status = rows[v].status /\ rows'[v].requested = rows[v].requested
                    /\ rows'[v].approver \in users' \cup {NULL}
<1>1. UNCHANGED <<requiresApproval, handlers, log, written, failed>>
  BY DEF RemoveVersion, RemoveUser
<1>2. Kept
  <2>1. CASE \E v \in Versions : RemoveVersion(v)
    BY <2>1 DEF RemoveVersion, Inductive, TypeOK, Exists
  <2>2. ASSUME NEW u \in Users, RemoveUser(u)
        PROVE  Kept
    <3>1. /\ users' = users \ {u} /\ \A entry \in log : entry.user # u
          /\ rows' = [v \in Versions |-> IF Exists(v) /\ rows[v].approver = u
                                        THEN [rows[v] EXCEPT !.approver = NULL] ELSE rows[v]]
      BY <2>2 DEF RemoveUser
    <3>2. ASSUME NEW v \in Versions
          PROVE  /\ rows'[v] \in Row \cup {NULL}
                 /\ Exists(v)' =>
                      /\ Exists(v)
                      /\ rows'[v].status = rows[v].status /\ rows'[v].requested = rows[v].requested
                      /\ rows'[v].approver \in users' \cup {NULL}
      <4>1. rows[v] \in Row \cup {NULL} /\ (Exists(v) => rows[v].approver \in users \cup {NULL})
        BY DEF Inductive, TypeOK
      <4>2. CASE Exists(v) /\ rows[v].approver = u
        <5>1. rows[v] \in Row /\ rows'[v] = [rows[v] EXCEPT !.approver = NULL]
          BY <3>1, <4>1, <4>2 DEF Exists
        <5>2. QED
          BY <4>2, <5>1 DEF Row
      <4>3. CASE ~(Exists(v) /\ rows[v].approver = u)
        BY <3>1, <4>1, <4>3 DEF Exists
      <4>4. QED
        BY <4>2, <4>3
    <3>3. QED
      BY <3>1, <3>2 DEF Inductive, TypeOK
  <2>3. QED
    BY <2>1, <2>2
<1>3. TypeOK'
  BY <1>1, <1>2 DEF Inductive, TypeOK
<1>4. Carried'
  BY <1>1 DEF Inductive, Carried, At, EntryOf
<1>5. Waivers'
  BY <1>1 DEF Inductive, Waivers, At
<1>6. Requested'
  BY <1>1, <1>2 DEF Inductive, Requested, Carried, OfAssets, Held, Versions
<1>7. QED
  BY <1>3, <1>4, <1>5, <1>6 DEF Inductive

-------------------------------------------------------------------------------
(***************************************************************************)
(* The invariant.                                                          *)
(***************************************************************************)
LEMMA InitInductive ==
    ASSUME Init
    PROVE  Inductive
<1>1. TypeOK
  <2>1. Unlisted \in Row /\ Unlisted.approver = NULL
    BY UnlistedRows
  <2>2. Idle \in Handler
    BY DEF Idle, Handler
  <2>3. QED
    BY <2>1, <2>2 DEF Init, TypeOK
<1>2. \A h \in Handlers : handlers[h].pc = "idle"
  BY DEF Init, Idle
<1>3. \A v \in Assets : rows[v].status = "NOT_PUBLISHED"
  BY DEF Init, Unlisted, Versions
<1>4. QED
  BY <1>1, <1>2, <1>3 DEF Inductive, Carried, Waivers, Requested, OfPrompts, OfAssets, At

\* Every step of the specification keeps the invariant, ...
LEMMA InductiveStep ==
    ASSUME Inductive, [Next]_vars
    PROVE  Inductive'
<1>1. CASE UNCHANGED vars
  BY <1>1 DEF vars, tables, Inductive, TypeOK, Carried, Waivers, Requested, Exists, Held, At, EntryOf
<1>2. ASSUME NEW h \in Handlers, NewRequest(h)
      PROVE  Inductive'
  BY <1>2, ReadsKeepInductive
<1>3. ASSUME NEW h \in Handlers, Continue(h)
      PROVE  Inductive'
  BY <1>3, ReadsKeepInductive, PromptWritesKeepInductive, AssetWritesAlike,
     AssetWritesKeepInductive, EndsKeepInductive, LogKeepsInductive DEF Continue
<1>4. CASE Elsewhere
  BY <1>4, SettingKeepsInductive, RemovalsKeepInductive DEF Elsewhere
<1>5. QED
  BY <1>1, <1>2, <1>3, <1>4 DEF Next

\* ... so it always holds.
LEMMA Invariance == Spec => []Inductive
  BY InitInductive, InductiveStep, PTL DEF Spec

\* The columns, the requests and the log are of their types, and the users that
\* rows of the database name exist: a removal leaves no dangling approver.
THEOREM TypeCorrect == Spec => []TypeOK
  BY Invariance, PTL DEF Inductive

\* A prompt version reaches the marketplace only by a request in whose time the
\* tenant did not ask for approval.
THEOREM PublicationIsWaived == Spec => PublishedOnlyWaived
<1>1. ASSUME Inductive, [Next]_vars, NEW v \in PublishedPrompts' \ PublishedPrompts
      PROVE  \E h \in Handlers : /\ At(h, "publish")
                                 /\ handlers[h].version = v
                                 /\ handlers[h].waived
  <2>1. v \in Prompts /\ v \in Versions /\ v \notin Assets /\ Exists(v)' /\ rows'[v].status = "PUBLISHED"
    BY <1>1, KindsAssumption DEF PublishedPrompts, Versions
  <2>2. Exists(v) => rows[v].status # "PUBLISHED"
    BY <1>1 DEF PublishedPrompts
  <2>3. PICK h \in Handlers : WritePublish(h) /\ handlers[h].version = v
    <3>1. rows'[v] # rows[v] \/ ~Exists(v)
      BY <2>1, <2>2 DEF Exists
    <3>2. ASSUME NEW h \in Handlers, NEW row, Update(h, row), handlers[h].version # v
          PROVE  rows'[v] = rows[v]
      BY <1>1, <2>1, <3>2 DEF Update, Inductive, TypeOK
    <3>3. ASSUME UNCHANGED rows
          PROVE  FALSE
      BY <2>1, <2>2, <3>3 DEF Exists
    <3>4. ASSUME NEW h \in Handlers, WriteUnpublish(h)
          PROVE  FALSE
      <4>1. CASE handlers[h].version = v
        BY <1>1, <2>1, <3>4, <4>1 DEF WriteUnpublish, Update, Unlisted, Inductive, TypeOK
      <4>2. CASE handlers[h].version # v
        BY <2>1, <2>2, <3>2, <3>4, <4>2 DEF WriteUnpublish, Exists
      <4>3. QED
        BY <4>1, <4>2
    <3>5. ASSUME NEW h \in Handlers,
                 WriteSubmit(h) \/ WriteWithdraw(h) \/ WriteApprove(h) \/ WriteReject(h)
          PROVE  FALSE
      <4>1. handlers[h].version # v
        BY <1>1, <2>1, <3>5, AssetWritesAlike DEF AssetWrite
      <4>2. rows'[v] = rows[v]
        BY <3>2, <3>5, <4>1 DEF WriteSubmit, WriteWithdraw, WriteApprove, WriteReject
      <4>3. QED
        BY <2>1, <2>2, <4>2 DEF Exists
    <3>6. ASSUME NEW h \in Handlers, WritePublish(h), handlers[h].version # v
          PROVE  FALSE
      BY <2>1, <2>2, <3>2, <3>6 DEF WritePublish, Exists
    <3>7. CASE Elsewhere
      <4>1. CASE SetRequiresApproval
        BY <3>3, <4>1, <2>1, <2>2 DEF SetRequiresApproval
      <4>2. ASSUME NEW w \in Versions, RemoveVersion(w)
            PROVE  FALSE
        BY <1>1, <2>1, <2>2, <4>2 DEF RemoveVersion, Exists, Inductive, TypeOK
      <4>3. ASSUME NEW u \in Users, RemoveUser(u)
            PROVE  FALSE
        BY <1>1, <2>1, <2>2, <4>3 DEF RemoveUser, Exists, Inductive, TypeOK, Row
      <4>4. QED
        BY <3>7, <4>1, <4>2, <4>3, <3>3, <2>1, <2>2 DEF Elsewhere, SetRequiresApproval
    <3>8. CASE \E h \in Handlers : NewRequest(h)
      BY <3>3, <3>8 DEF NewRequest, ReadToPublish, ReadToUnpublish, ReadToSubmit, ReadToWithdraw,
         ReadToApprove, ReadToReject, Start, tables
    <3>9. ASSUME NEW h \in Handlers, Continue(h)
          PROVE  WritePublish(h) /\ handlers[h].version = v
      <4>1. CASE \/ WritePublish(h) \/ WriteUnpublish(h) \/ WriteSubmit(h) \/ WriteWithdraw(h)
                 \/ WriteApprove(h) \/ WriteReject(h)
        BY <3>4, <3>5, <3>6, <4>1
      <4>2. CASE \/ ReadProject(h) \/ RefuseProject(h) \/ ReadSetting(h) \/ CheckSubmit(h)
                 \/ RefuseSubmit(h) \/ RefuseWrite(h) \/ LogActivity(h) \/ FailToLog(h) \/ DatabaseError(h)
        <5>1. UNCHANGED rows
          BY <4>2 DEF ReadProject, RefuseProject, ReadSetting, CheckSubmit, RefuseSubmit, RefuseWrite,
             LogActivity, FailToLog, DatabaseError, Answer, tables
        <5>2. QED
          BY <3>3, <5>1
      <4>3. QED
        BY <3>9, <4>1, <4>2 DEF Continue
    <3>10. CASE UNCHANGED vars
      BY <3>3, <3>10 DEF vars, tables
    <3>11. QED
      BY <1>1, <3>7, <3>8, <3>9, <3>10 DEF Next
  <2>4. ~handlers[h].required
    <3> SUFFICES ASSUME handlers[h].required PROVE FALSE
      OBVIOUS
    <3>1. rows'[v] = [Unlisted EXCEPT !.status = "PENDING_APPROVAL", !.requested = TRUE]
      BY <1>1, <2>1, <2>3 DEF WritePublish, Update, Inductive, TypeOK
    <3>2. QED
      BY <2>1, <3>1 DEF Unlisted
  <2>5. QED
    BY <1>1, <2>3, <2>4 DEF WritePublish, Inductive, Waivers, At
<1>2. ASSUME Inductive, [Next]_vars
      PROVE  [\A v \in PublishedPrompts' \ PublishedPrompts :
                 \E h \in Handlers : /\ At(h, "publish")
                                     /\ handlers[h].version = v
                                     /\ handlers[h].waived]_vars
  BY <1>1, <1>2
<1>3. QED
  BY <1>2, Invariance, PTL DEF Spec, PublishedOnlyWaived

-------------------------------------------------------------------------------
(***************************************************************************)
(* The activity log.                                                       *)
(***************************************************************************)
WriteOfAsset(h) == WriteSubmit(h) \/ WriteWithdraw(h) \/ WriteApprove(h) \/ WriteReject(h)

\* An entry that is to be logged stays so, unless the request fails.
LEMMA PendingStays ==
    ASSUME Inductive, [Next]_vars,
           \A h \in Handlers : ~LogActivity(h) /\ ~WriteOfAsset(h)
    PROVE  /\ UNCHANGED <<log, written>>
           /\ failed \subseteq failed'
           /\ \A g \in Handlers : At(g, "log") =>
                 (At(g, "log")' /\ EntryOf(g)' = EntryOf(g)) \/ EntryOf(g) \in failed'
<1> DEFINE Stays == /\ UNCHANGED <<log, written>>
                    /\ failed \subseteq failed'
                    /\ \A g \in Handlers : At(g, "log") =>
                          (At(g, "log")' /\ EntryOf(g)' = EntryOf(g)) \/ EntryOf(g) \in failed'
<1> SUFFICES Stays
  OBVIOUS
<1>1. CASE UNCHANGED vars
  BY <1>1 DEF vars, tables, At, EntryOf
<1>2. ASSUME NEW h \in Handlers, UNCHANGED <<log, written>>, failed \subseteq failed',
             At(h, "log") => EntryOf(h) \in failed',
             \A g \in Handlers : g # h => handlers'[g] = handlers[g]
      PROVE  Stays
  BY <1>2 DEF At, EntryOf
<1>3. ASSUME NEW h \in Handlers, NewRequest(h)
      PROVE  Stays
  <2>1. /\ UNCHANGED <<log, written, failed>>
        /\ At(h, "idle")
        /\ \A g \in Handlers : g # h => handlers'[g] = handlers[g]
    BY <1>3 DEF NewRequest, ReadToPublish, ReadToUnpublish, ReadToSubmit, ReadToWithdraw,
       ReadToApprove, ReadToReject, Start, tables, Inductive, TypeOK
  <2>2. QED
    BY <2>1, <1>2 DEF At
<1>4. ASSUME NEW h \in Handlers,
             ReadProject(h) \/ ReadSetting(h) \/ CheckSubmit(h) \/ RefuseProject(h) \/ RefuseSubmit(h)
                \/ RefuseWrite(h) \/ WritePublish(h) \/ WriteUnpublish(h)
      PROVE  Stays
  <2>1. /\ UNCHANGED <<log, written, failed>>
        /\ ~At(h, "log")
        /\ \A g \in Handlers : g # h => handlers'[g] = handlers[g]
    BY <1>4 DEF ReadProject, ReadSetting, CheckSubmit, RefuseProject, RefuseSubmit, RefuseWrite,
       WritePublish, WriteUnpublish, Update, Answer, Return, tables, Inductive, TypeOK, At
  <2>2. QED
    BY <2>1, <1>2
<1>5. ASSUME NEW h \in Handlers, FailToLog(h) \/ DatabaseError(h)
      PROVE  Stays
  <2>1. /\ UNCHANGED <<log, written>>
        /\ failed \subseteq failed' /\ (At(h, "log") => EntryOf(h) \in failed')
        /\ \A g \in Handlers : g # h => handlers'[g] = handlers[g]
    BY <1>5 DEF FailToLog, DatabaseError, Return, tables, Inductive, TypeOK
  <2>2. QED
    BY <2>1, <1>2
<1>6. CASE SetRequiresApproval
  <2>1. ASSUME NEW g \in Handlers
        PROVE  handlers'[g].pc = handlers[g].pc /\ EntryOf(g)' = EntryOf(g)
    <3>1. handlers[g] \in Handler
      BY DEF Inductive, TypeOK
    <3>2. handlers'[g] = handlers[g] \/ handlers'[g] = [handlers[g] EXCEPT !.waived = TRUE]
      BY <1>6 DEF SetRequiresApproval
    <3>3. QED
      BY <3>1, <3>2 DEF EntryOf, Handler
  <2>2. QED
    BY <1>6, <2>1 DEF SetRequiresApproval, At
<1>7. CASE (\E v \in Versions : RemoveVersion(v)) \/ (\E u \in Users : RemoveUser(u))
  BY <1>7 DEF RemoveVersion, RemoveUser, At, EntryOf
<1>8. QED
  BY <1>1, <1>3, <1>4, <1>5, <1>6, <1>7 DEF Next, Continue, Elsewhere, WriteOfAsset

\* Nothing is in the activity log that has not been done, and what is missing
\* from it is about to be logged or was answered with an error.
THEOREM LogIsTrue == Spec => []LogIsAccountable
<1>1. ASSUME Init
      PROVE  LogIsAccountable
  BY <1>1 DEF Init, LogIsAccountable
<1>2. ASSUME Inductive, LogIsAccountable, [Next]_vars
      PROVE  LogIsAccountable'
  <2> DEFINE Pending == {EntryOf(h) : h \in {g \in Handlers : At(g, "log")}}
  <2>1. log \subseteq written /\ written \subseteq log \cup failed \cup Pending
    BY <1>2 DEF LogIsAccountable
  <2>2. CASE \A h \in Handlers : ~LogActivity(h) /\ ~WriteOfAsset(h)
    <3>1. /\ UNCHANGED <<log, written>>
          /\ failed \subseteq failed'
          /\ \A g \in Handlers : At(g, "log") =>
                (At(g, "log")' /\ EntryOf(g)' = EntryOf(g)) \/ EntryOf(g) \in failed'
      BY <1>2, <2>2, PendingStays
    <3>2. Pending \subseteq failed' \cup Pending'
      BY <3>1
    <3>3. QED
      BY <2>1, <3>1, <3>2 DEF LogIsAccountable
  <2>3. ASSUME NEW h \in Handlers, LogActivity(h)
        PROVE  LogIsAccountable'
    <3>1. /\ log' = log \cup {EntryOf(h)} /\ UNCHANGED <<written, failed>>
          /\ EntryOf(h) \in written
          /\ \A g \in Handlers : g # h => handlers'[g] = handlers[g]
      BY <1>2, <2>3 DEF LogActivity, Return, Inductive, Carried, TypeOK
    <3>2. Pending \subseteq Pending' \cup {EntryOf(h)}
      BY <3>1 DEF At, EntryOf
    <3>3. QED
      BY <2>1, <3>1, <3>2 DEF LogIsAccountable
  <2>4. ASSUME NEW h \in Handlers, WriteOfAsset(h)
        PROVE  LogIsAccountable'
    <3>1. PICK row \in Row, action \in Actions, user \in Users \cup {NULL} :
             AssetWrite(h, row, action, user)
      BY <1>2, <2>4, AssetWritesAlike DEF WriteOfAsset
    <3>2. /\ UNCHANGED <<log, failed>> /\ ~At(h, "log") /\ At(h, "log")'
          /\ EntryOf(h)' = [action |-> action, version |-> handlers[h].version, user |-> user]
          /\ written' = written \cup {EntryOf(h)'}
          /\ \A g \in Handlers : g # h => handlers'[g] = handlers[g]
      <4>1. handlers' = [handlers EXCEPT ![h].pc = "log", ![h].action = action, ![h].user = user]
        BY <3>1 DEF AssetWrite, GoOnToLog
      <4>2. handlers \in [Handlers -> Handler]
        BY <1>2 DEF Inductive, TypeOK
      <4>3. handlers'[h].pc = "log" /\ handlers'[h].version = handlers[h].version
            /\ handlers'[h].action = action /\ handlers'[h].user = user
        BY <4>1, <4>2 DEF Handler
      <4>4. QED
        BY <3>1, <4>1, <4>2, <4>3 DEF AssetWrite, Update, GoOnToLog, At, EntryOf
    <3>3. Pending \cup {EntryOf(h)'} \subseteq Pending'
      BY <3>2 DEF At, EntryOf
    <3>4. QED
      BY <2>1, <3>2, <3>3 DEF LogIsAccountable
  <2>5. QED
    BY <2>2, <2>3, <2>4
<1>3. QED
  BY <1>1, <1>2, Invariance, PTL DEF Spec

-------------------------------------------------------------------------------
(***************************************************************************)
(* Approvals.                                                              *)
(***************************************************************************)
\* Steps that change neither asset versions nor users.
LEMMA OthersLeaveAssets ==
    ASSUME Inductive, [Next]_vars,
           \A h \in Handlers : ~WriteOfAsset(h),
           \A v \in Versions : ~RemoveVersion(v),
           \A u \in Users : ~RemoveUser(u)
    PROVE  UNCHANGED <<users, written>> /\ \A v \in Assets : rows'[v] = rows[v]
<1> DEFINE Left == UNCHANGED <<users, written>> /\ \A v \in Assets : rows'[v] = rows[v]
<1> SUFFICES Left
  OBVIOUS
<1>1. ASSUME NEW h \in Handlers, WritePublish(h) \/ WriteUnpublish(h)
      PROVE  Left
  <2>1. handlers[h].version \in Prompts
    BY <1>1 DEF Inductive, Carried, WritePublish, WriteUnpublish, At, OfPrompts
  <2>2. QED
    BY <1>1, <2>1, KindsAssumption DEF WritePublish, WriteUnpublish, Update, Inductive, TypeOK, Versions
<1>2. ASSUME NEW h \in Handlers, NewRequest(h)
      PROVE  Left
  BY <1>2 DEF NewRequest, ReadToPublish, ReadToUnpublish, ReadToSubmit, ReadToWithdraw,
     ReadToApprove, ReadToReject, Start, tables
<1>3. ASSUME NEW h \in Handlers,
             ReadProject(h) \/ ReadSetting(h) \/ CheckSubmit(h) \/ RefuseProject(h) \/ RefuseSubmit(h)
                \/ RefuseWrite(h) \/ LogActivity(h) \/ FailToLog(h) \/ DatabaseError(h)
      PROVE  Left
  BY <1>3 DEF ReadProject, ReadSetting, CheckSubmit, RefuseProject, RefuseSubmit, RefuseWrite,
     LogActivity, FailToLog, DatabaseError, Answer, tables
<1>4. CASE SetRequiresApproval \/ UNCHANGED vars
  BY <1>4 DEF SetRequiresApproval, vars, tables
<1>5. QED
  BY <1>1, <1>2, <1>3, <1>4 DEF Next, Continue, Elsewhere, WriteOfAsset

\* Version v has been approved, by the user whom its row names while there.
ApprovedBy(v, u) ==
    /\ rows[v].requested /\ rows[v].approved
    /\ [action |-> "APPROVE", version |-> v, user |-> u] \in written
    /\ rows[v].approver = IF u \in users THEN u ELSE NULL

\* An asset version in the marketplace has been approved, and its row names who
\* did so last for as long as that user exists.
THEOREM ListingIsApproved == Spec => []ListedIsApproved
<1>1. ASSUME Init
      PROVE  ListedIsApproved
  BY <1>1 DEF Init, ListedIsApproved, PublishedAssets, Unlisted, Versions
<1>2. ASSUME Inductive, ListedIsApproved, [Next]_vars
      PROVE  ListedIsApproved'
  <2> SUFFICES ASSUME NEW v \in Assets, Exists(v)', rows'[v].status = "PUBLISHED"
               PROVE  \E u \in Users : ApprovedBy(v, u)'
    BY DEF ListedIsApproved, PublishedAssets, ApprovedBy
  <2>1. v \in Versions
    BY DEF Versions
  <2>2. Exists(v) /\ rows[v].status = "PUBLISHED" => \E u \in Users : ApprovedBy(v, u)
    BY <1>2 DEF ListedIsApproved, PublishedAssets, ApprovedBy
  <2>3. CASE /\ \A h \in Handlers : ~WriteOfAsset(h)
             /\ \A w \in Versions : ~RemoveVersion(w)
             /\ \A u \in Users : ~RemoveUser(u)
    <3>1. UNCHANGED <<users, written>> /\ rows'[v] = rows[v]
      BY <1>2, <2>3, OthersLeaveAssets
    <3>2. QED
      BY <2>2, <3>1 DEF ApprovedBy, Exists
  <2>4. ASSUME NEW h \in Handlers, WriteOfAsset(h), handlers[h].version # v
        PROVE  \E u \in Users : ApprovedBy(v, u)'
    <3>1. rows'[v] = rows[v] /\ users' = users /\ written \subseteq written'
      BY <1>2, <2>1, <2>4 DEF WriteOfAsset, WriteSubmit, WriteWithdraw, WriteApprove, WriteReject,
         Update, GoOnToLog, Inductive, TypeOK
    <3>2. QED
      BY <2>2, <3>1 DEF ApprovedBy, Exists
  <2>5. ASSUME NEW h \in Handlers, WriteOfAsset(h), handlers[h].version = v
        PROVE  \E u \in Users : ApprovedBy(v, u)'
    <3>1. Exists(v) /\ rows[v] \in Row
      BY <1>2, <2>1, <2>5 DEF WriteOfAsset, WriteSubmit, WriteWithdraw, WriteApprove, WriteReject,
         Update, Inductive, TypeOK, Exists
    <3>2. rows \in [Versions -> Row \cup {NULL}] /\ Held(h) = rows[v]
      BY <1>2, <2>5 DEF Inductive, TypeOK, Held
    <3>3. ~WriteSubmit(h) /\ ~WriteWithdraw(h) /\ ~WriteReject(h)
      <4>1. ASSUME NEW row, Update(h, row)
            PROVE  rows'[v] = row
        BY <2>1, <2>5, <3>2, <4>1 DEF Update
      <4>2. CASE WriteSubmit(h)
        BY <3>1, <3>2, <4>1, <4>2 DEF WriteSubmit, Row
      <4>3. CASE WriteWithdraw(h)
        BY <3>1, <3>2, <4>1, <4>3 DEF WriteWithdraw, Row
      <4>4. CASE WriteReject(h)
        BY <3>1, <3>2, <4>1, <4>4 DEF WriteReject, Row
      <4>5. QED
        BY <4>2, <4>3, <4>4
    <3>4. WriteApprove(h)
      BY <2>5, <3>3 DEF WriteOfAsset
    <3>5. /\ rows'[v] = [rows[v] EXCEPT !.status = "PUBLISHED", !.approved = TRUE,
                                        !.approver = handlers[h].user]
          /\ handlers[h].user \in users /\ users' = users /\ users \subseteq Users
          /\ [action |-> "APPROVE", version |-> v, user |-> handlers[h].user] \in written'
      BY <1>2, <2>1, <2>5, <3>2, <3>4 DEF WriteApprove, Update, GoOnToLog, Inductive, TypeOK
    <3>6. rows[v].requested
      BY <1>2, <2>5, <3>1, <3>2, <3>4 DEF WriteApprove, At, Inductive, Requested
    <3>7. PICK u \in Users : u = handlers[h].user
      BY <3>5
    <3>8. rows'[v].requested /\ rows'[v].approved /\ rows'[v].approver = u
      BY <3>1, <3>5, <3>6, <3>7 DEF Row
    <3>9. QED
      BY <3>5, <3>7, <3>8 DEF ApprovedBy
  <2>6. ASSUME NEW w \in Versions, RemoveVersion(w)
        PROVE  \E u \in Users : ApprovedBy(v, u)'
    <3>1. rows'[v] = rows[v] /\ UNCHANGED <<users, written>>
      BY <1>2, <2>1, <2>6 DEF RemoveVersion, Exists, Inductive, TypeOK
    <3>2. QED
      BY <2>2, <3>1 DEF ApprovedBy, Exists
  <2>7. ASSUME NEW u \in Users, RemoveUser(u)
        PROVE  \E w \in Users : ApprovedBy(v, w)'
    <3>1. /\ users' = users \ {u} /\ written' = written
          /\ rows'[v] = IF Exists(v) /\ rows[v].approver = u THEN [rows[v] EXCEPT !.approver = NULL] ELSE rows[v]
      BY <2>1, <2>7 DEF RemoveUser
    <3>2. Exists(v) /\ rows[v] \in Row
      BY <1>2, <2>1, <3>1 DEF Exists, Inductive, TypeOK
    <3>3. rows[v].status = "PUBLISHED"
      BY <3>1, <3>2 DEF Row
    <3>4. PICK w \in Users : ApprovedBy(v, w)
      BY <2>2, <3>2, <3>3
    <3>5. u # NULL /\ u \in users
      BY <2>7, NullAssumption DEF RemoveUser
    <3>6. CASE rows[v].approver = u
      <4>1. w = u
        BY <3>4, <3>5, <3>6 DEF ApprovedBy
      <4>2. rows'[v] = [rows[v] EXCEPT !.approver = NULL]
        BY <3>1, <3>2, <3>6
      <4>3. rows'[v].requested /\ rows'[v].approved /\ rows'[v].approver = NULL
        BY <3>2, <3>4, <4>2 DEF Row, ApprovedBy
      <4>4. QED
        BY <3>1, <3>4, <4>1, <4>3 DEF ApprovedBy
    <3>7. CASE rows[v].approver # u
      <4>1. rows'[v] = rows[v] /\ w # u
        BY <3>1, <3>4, <3>5, <3>7 DEF ApprovedBy
      <4>2. QED
        BY <3>1, <3>4, <4>1 DEF ApprovedBy
    <3>8. QED
      BY <3>6, <3>7
  <2>8. QED
    BY <2>3, <2>4, <2>5, <2>6, <2>7
<1>3. QED
  BY <1>1, <1>2, Invariance, PTL DEF Spec
===============================================================================
