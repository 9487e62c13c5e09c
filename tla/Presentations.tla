---------------------------- MODULE Presentations ---------------------------
(***************************************************************************)
(* The presentation flow of the platform API                               *)
(* (apps/platform-api/src/modules/presentations/presentation.service.ts)   *)
(* over its rows in PostgreSQL (persistence/.../transaction.repository.ts) *)
(* and the sessions of the verification engine it drives.                  *)
(*                                                                         *)
(* A handler is one execution of create, get or cancel (Requests) or of    *)
(* the background pass (Jobs). Every await of the code ends a step, so     *)
(* handlers interleave between any two statements or engine calls: no two  *)
(* statements share a database transaction.                                *)
(***************************************************************************)
EXTENDS Integers, Sequences, FiniteSets, PresentationStates

CONSTANTS Presentations,    \* transactions that may be created
          Requests,         \* API executions of create, get and cancel
          Jobs,             \* background passes, one per platform process
          Lifetime,         \* [Presentations -> Nat], seconds become ticks
          Retention,        \* resultRetentionSeconds of the policy version
          EngineOutcomes,   \* outcomes the engine may settle a session on
          BatchLimit,       \* LIMIT of findExpirable
          EndpointLookups,  \* answers of findWebhookEndpointId
          MaxTime,          \* bound on the clock
          MaxFaults         \* bound on failed awaits and process crashes

ASSUME PresentationsAssumption ==
  /\ Presentations # {}
  /\ Lifetime \in [Presentations -> Nat \ {0}]
  /\ Retention \in Nat
  /\ EngineOutcomes \subseteq {"VERIFIED", "REJECTED", "DECLINED_BY_USER",
                               "TRUST_ERROR", "PROTOCOL_ERROR"}
  /\ BatchLimit \in Nat \ {0}
  /\ EndpointLookups \subseteq BOOLEAN /\ EndpointLookups # {}
  /\ MaxTime \in Nat
  /\ MaxFaults \in Nat
  /\ Requests \cap Jobs = {}

VARIABLES
  now,        \* the platform's clock
  row,        \* presentation_transactions
  history,    \* presentation_transaction_transitions
  result,     \* presentation_results: the purgeAfter of the stored row
  queue,      \* webhook_deliveries enqueued for each transaction
  audit,      \* outcomes recorded by presentation.settled and .cancelled
  replies,    \* the views of settled transactions returned to clients
  issued,     \* the interaction URI has been returned to the client
  engine,     \* the engine session of each transaction
  engineTtl,  \* session-config of the engine tenant the transactions share
  pc, req,    \* what each handler awaits, and its local variables
  batch,      \* rows a background pass has read and not yet settled
  faults

database == <<row, history, result, queue, audit>>
external == <<issued, engine, engineTtl>>
vars == <<now, database, replies, external, pc, req, batch, faults>>

Handlers == Requests \cup Jobs

-----------------------------------------------------------------------------
(* Rows, sessions and locals. *)

NoTime == -1
Purged == -2      \* a result was stored and its row has been deleted

NoRow == [state |-> "ABSENT", session |-> FALSE, callback |-> FALSE,
          expiresAt |-> NoTime, closedAt |-> NoTime]

Rows == [state : PresentationStates \cup {"ABSENT"}, session : BOOLEAN,
         callback : BOOLEAN, expiresAt : Nat \cup {NoTime},
         closedAt : Nat \cup {NoTime}]

(* What a session holds: the policy verdict its disclosed claims lead to,   *)
(* or no claims at all.                                                     *)
Contents == {"none", "satisfying", "unsatisfying"}

SessionStates == {"absent", "active", "deleted", "EXPIRED"} \cup EngineOutcomes

Sessions == [status : SessionStates, content : Contents,
             expiresAt : Nat \cup {NoTime}]

Moves == [seq : Nat, from : PresentationStates, to : PresentationStates]

Events == [status : PresentationStates, claims : BOOLEAN]

Labels == {"idle", "appendLog", "sizeSession", "offer", "attach",
           "transition", "readLog", "audit", "notify", "enqueue", "find",
           "advance", "status", "process", "save", "reply",
           "cancelSession", "nextDue", "purge"}

Locals == [op : {"create", "get", "cancel", "expire"}, p : Presentations,
           from : PresentationStates, to : PresentationStates,
           goal : PresentationStates, seq : Nat, at : Nat, claims : BOOLEAN]

NoLocals == [op |-> "get", p |-> CHOOSE p \in Presentations : TRUE,
             from |-> "CREATED", to |-> "CREATED", goal |-> "CREATED",
             seq |-> 0, at |-> 0, claims |-> FALSE]

Due == [p : Presentations, from : PresentationStates]

Init ==
  /\ now = 0
  /\ row = [p \in Presentations |-> NoRow]
  /\ history = [p \in Presentations |-> {}]
  /\ result = [p \in Presentations |-> NoTime]
  /\ queue = [p \in Presentations |-> <<>>]
  /\ audit = [p \in Presentations |-> {}]
  /\ replies = [p \in Presentations |-> {}]
  /\ issued = [p \in Presentations |-> FALSE]
  /\ engine = [p \in Presentations |->
                 [status |-> "absent", content |-> "none", expiresAt |-> NoTime]]
  /\ engineTtl = 0
  /\ pc = [h \in Handlers |-> "idle"]
  /\ req = [h \in Handlers |-> NoLocals]
  /\ batch = [j \in Jobs |-> {}]
  /\ faults = 0

Goto(h, label) == pc' = [pc EXCEPT ![h] = label]

(* The handler has returned, or thrown: its locals are gone. A request      *)
(* answers with an error; expireDue catches it and takes the next due row.  *)
Unwind(h) ==
  /\ Goto(h, IF h \in Jobs THEN "nextDue" ELSE "idle")
  /\ req' = [req EXCEPT ![h] = NoLocals]

(* settle() has returned to expireDue, or to get(). *)
SettleReturns(h) == IF h \in Jobs THEN Unwind(h) ELSE Goto(h, "reply") /\ UNCHANGED req

-----------------------------------------------------------------------------
(* transition(): the conditional UPDATE, then the log entry whose sequence  *)
(* number is read in one statement and inserted in another.                 *)

Hop(h) == NextHop(req[h].from, req[h].goal)

(* Mutated: the UPDATE is not pinned to the state that was read. *)
MoveAllowedUnpinned(h) == CanTransition(req[h].from, Hop(h))

MoveAllowed(h) ==
  /\ CanTransition(req[h].from, Hop(h))
  /\ row[req[h].p].state = req[h].from

Transition(h) ==
  /\ pc[h] = "transition"
  /\ MoveAllowed(h)
  /\ row' = [row EXCEPT ![req[h].p] =
               [@ EXCEPT !.state = Hop(h),
                         !.closedAt = IF IsTerminal(Hop(h)) THEN req[h].at
                                      ELSE row[req[h].p].closedAt]]
  /\ req' = [req EXCEPT ![h] = [@ EXCEPT !.to = Hop(h)]]
  /\ Goto(h, "readLog")
  /\ UNCHANGED <<now, history, result, queue, audit, replies, external, batch, faults>>

(* Mutated: the conflict is swallowed and settle() goes on announcing. *)
TransitionRefusedSwallowed(h) ==
  /\ pc[h] = "transition"
  /\ ~MoveAllowed(h)
  /\ Goto(h, "audit")
  /\ UNCHANGED <<now, database, replies, external, req, batch, faults>>

(* illegal_transaction_transition, or transaction_state_changed. *)
TransitionRefused(h) ==
  /\ pc[h] = "transition"
  /\ ~MoveAllowed(h)
  /\ Unwind(h)
  /\ UNCHANGED <<now, database, replies, external, batch, faults>>

ReadLog(h) ==
  /\ pc[h] = "readLog"
  /\ LET taken == {m.seq : m \in history[req[h].p]}
     IN \E last \in taken \cup {0} :
          /\ \A seq \in taken : seq <= last
          /\ req' = [req EXCEPT ![h] = [@ EXCEPT !.seq = last + 1]]
  /\ Goto(h, "appendLog")
  /\ UNCHANGED <<now, database, replies, external, batch, faults>>

(* Mutated: the expiry pass moves rows without the rest of settle(). *)
AfterMoveExpirySilent(h) ==
  CASE req[h].op = "expire" -> "nextDue"
    [] req[h].op # "expire" /\ req[h].to = "CREATED" -> "sizeSession"
    [] req[h].op # "expire" /\ req[h].to \notin {"CREATED", req[h].goal} -> "transition"
    [] OTHER -> "audit"

(* Where a handler goes once the move it made is logged. *)
AfterMove(h) ==
  CASE req[h].to = "CREATED" -> "sizeSession"
    [] req[h].to \notin {"CREATED", req[h].goal} -> "transition"
    [] OTHER -> "audit"

AppendLog(h) ==
  /\ pc[h] = "appendLog"
  /\ LET p == req[h].p
         move == [seq |-> req[h].seq, from |-> req[h].from, to |-> req[h].to]
     IN history' = IF \E m \in history[p] : m.seq = move.seq
                   THEN history              \* onConflictDoNothing
                   ELSE [history EXCEPT ![p] = @ \cup {move}]
  /\ IF req[h].op = "create" /\ req[h].to = "PROTOCOL_ERROR"
     THEN Unwind(h)                          \* create() rethrows
     ELSE /\ req' = [req EXCEPT ![h] = [@ EXCEPT !.from = req[h].to, !.seq = 0]]
          /\ Goto(h, AfterMove(h))
  /\ UNCHANGED <<now, row, result, queue, audit, replies, external, batch, faults>>

-----------------------------------------------------------------------------
(* create() *)

StartCreate(h, p) ==
  /\ pc[h] = "idle"
  /\ row[p].state = "ABSENT"
  /\ now + Lifetime[p] <= MaxTime   \* bound: the clock outlasts every lifetime
  /\ \E callback \in BOOLEAN :
       row' = [row EXCEPT ![p] =
                 [state |-> "CREATED", session |-> FALSE, callback |-> callback,
                  expiresAt |-> now + Lifetime[p], closedAt |-> NoTime]]
  /\ req' = [req EXCEPT ![h] =
               [op |-> "create", p |-> p, from |-> "CREATED", to |-> "CREATED",
                goal |-> "AWAITING_WALLET", seq |-> 0, at |-> now, claims |-> FALSE]]
  /\ Goto(h, "appendLog")
  /\ UNCHANGED <<now, history, result, queue, audit, replies, external, batch, faults>>

(* PUT /session-config: a setting of the engine tenant, not of the session. *)
SizeSession(h) ==
  /\ pc[h] = "sizeSession"
  /\ engineTtl' = Lifetime[req[h].p]
  /\ Goto(h, "offer")
  /\ UNCHANGED <<now, database, replies, issued, engine, req, batch, faults>>

OpenSession(p) ==
  engine' = [engine EXCEPT ![p] =
               [@ EXCEPT !.status = "active", !.expiresAt = now + engineTtl]]

Offer(h) ==
  /\ pc[h] = "offer"
  /\ OpenSession(req[h].p)
  /\ Goto(h, "attach")
  /\ UNCHANGED <<now, database, replies, issued, engineTtl, req, batch, faults>>

(* The request is refused, or its answer lost after the engine has opened   *)
(* the session: either way create() records PROTOCOL_ERROR from CREATED.    *)
EngineRefuses(h) ==
  /\ pc[h] \in {"sizeSession", "offer"}
  /\ \/ pc[h] = "offer" /\ OpenSession(req[h].p)
     \/ UNCHANGED engine
  /\ req' = [req EXCEPT ![h] = [@ EXCEPT !.goal = "PROTOCOL_ERROR", !.at = now]]
  /\ Goto(h, "transition")
  /\ UNCHANGED <<now, database, replies, issued, engineTtl, batch, faults>>

(* Mutated: the row read at creation is written back whole. *)
AttachEngineSessionWholeRow(h) ==
  /\ pc[h] = "attach"
  /\ row' = [row EXCEPT ![req[h].p] = [@ EXCEPT !.session = TRUE, !.state = req[h].from]]
  /\ Goto(h, "transition")
  /\ UNCHANGED <<now, history, result, queue, audit, replies, external, req,
                 batch, faults>>

AttachEngineSession(h) ==
  /\ pc[h] = "attach"
  /\ row' = [row EXCEPT ![req[h].p] = [@ EXCEPT !.session = TRUE]]
  /\ Goto(h, "transition")
  /\ UNCHANGED <<now, history, result, queue, audit, replies, external, req,
                 batch, faults>>

(* presentation.created is audited and the interaction URI is returned. *)
FinishCreate(h) ==
  /\ pc[h] = "audit"
  /\ req[h].op = "create"
  /\ issued' = [issued EXCEPT ![req[h].p] = TRUE]
  /\ Unwind(h)
  /\ UNCHANGED <<now, database, replies, engine, engineTtl, batch, faults>>
-----------------------------------------------------------------------------
(* get() and the advance(), settleVerified() it calls *)

StartGet(h, p) ==
  /\ pc[h] = "idle"
  /\ row[p].state # "ABSENT"
  /\ req' = [req EXCEPT ![h] = [@ EXCEPT !.op = "get", !.p = p]]
  /\ Goto(h, "find")
  /\ UNCHANGED <<now, database, replies, external, batch, faults>>

Find(h) ==
  /\ pc[h] = "find"
  /\ LET state == row[req[h].p].state
     IN /\ req' = [req EXCEPT ![h] = [@ EXCEPT !.from = state, !.goal = state]]
        /\ Goto(h, IF IsTerminal(state) THEN "reply" ELSE "advance")
  /\ UNCHANGED <<now, database, replies, external, batch, faults>>

SettleOn(h, goal) ==
  /\ req' = [req EXCEPT ![h] = [@ EXCEPT !.goal = goal, !.at = now]]
  /\ Goto(h, "transition")

(* Expiry is decided locally and first; without a session there is nobody   *)
(* to ask.                                                                  *)
Advance(h) ==
  /\ pc[h] = "advance"
  /\ LET r == row[req[h].p]
     IN \/ r.expiresAt <= now /\ SettleOn(h, "EXPIRED")
        \/ r.expiresAt > now /\ r.session /\ Goto(h, "status") /\ UNCHANGED req
        \/ r.expiresAt > now /\ ~r.session /\ Goto(h, "reply") /\ UNCHANGED req
  /\ UNCHANGED <<now, database, replies, external, batch, faults>>

(* getPresentationStatus; a deleted session answers 404 and get() throws. *)
Status(h) ==
  /\ pc[h] = "status"
  /\ LET status == engine[req[h].p].status
     IN \/ status = "active" /\ Goto(h, "reply") /\ UNCHANGED req
        \/ status = "VERIFIED" /\ Goto(h, "process") /\ UNCHANGED req
        \/ status = "deleted" /\ Unwind(h)
        \/ status \in TerminalStates \ {"VERIFIED"} /\ SettleOn(h, status)
  /\ UNCHANGED <<now, database, replies, external, batch, faults>>

(* Mutated: the result is left for after the settlement. *)
ProcessUnsaved(h) ==
  /\ pc[h] = "process"
  /\ SettleOn(h, IF engine[req[h].p].content = "none" THEN "PROTOCOL_ERROR"
                 ELSE "VERIFIED")
  /\ UNCHANGED <<now, database, replies, external, batch, faults>>

(* processPresentationResult reads the session again, then the result       *)
(* policy runs on what it disclosed.                                        *)
Process(h) ==
  /\ pc[h] = "process"
  /\ LET session == engine[req[h].p]
     IN \/ session.status = "deleted" /\ Unwind(h)
        \/ session.status # "deleted" /\ session.content = "none"
             /\ SettleOn(h, "PROTOCOL_ERROR")
        \/ session.status # "deleted" /\ session.content = "unsatisfying"
             /\ SettleOn(h, "POLICY_NOT_SATISFIED")
        \/ session.status # "deleted" /\ session.content = "satisfying"
             /\ req' = [req EXCEPT ![h] = [@ EXCEPT !.at = now]]
             /\ Goto(h, "save")
  /\ UNCHANGED <<now, database, replies, external, batch, faults>>

(* saveResult comes before the settlement, and keeps a row already there. *)
SaveResult(h) ==
  /\ pc[h] = "save"
  /\ result' = [result EXCEPT ![req[h].p] = IF @ \in Nat THEN @ ELSE req[h].at + Retention]
  /\ SettleOn(h, "VERIFIED")
  /\ UNCHANGED <<now, row, history, queue, audit, replies, external, batch, faults>>

(* The view returned to the client: the state get() holds, which another    *)
(* handler may since have moved on unless it is terminal, and the claims of *)
(* a VERIFIED one. Only the views of settled transactions are kept.         *)
Reply(h) ==
  /\ pc[h] = "reply"
  /\ LET p == req[h].p
         view == [status |-> req[h].from,
                  claims |-> req[h].from = "VERIFIED" /\ result[p] \in Nat]
     IN replies' = IF IsTerminal(view.status)
                   THEN [replies EXCEPT ![p] = @ \cup {view}] ELSE replies
  /\ Unwind(h)
  /\ UNCHANGED <<now, database, external, batch, faults>>

-----------------------------------------------------------------------------
(* The end of settle(): audit, then the queued callback *)

AuditSettlement(h) ==
  /\ pc[h] = "audit"
  /\ req[h].op # "create"
  /\ audit' = [audit EXCEPT ![req[h].p] = @ \cup {req[h].goal}]
  /\ IF req[h].op = "cancel"
     THEN /\ Goto(h, "find")
          /\ req' = [req EXCEPT ![h] = [@ EXCEPT !.op = "get"]]
     ELSE Goto(h, "notify") /\ UNCHANGED req
  /\ UNCHANGED <<now, row, history, result, queue, replies, external, batch, faults>>

(* find and, for VERIFIED, findResult. *)
ReadForCallback(h) ==
  /\ pc[h] = "notify"
  /\ LET p == req[h].p
     IN \/ /\ row[p].callback
           /\ req' = [req EXCEPT ![h] =
                [@ EXCEPT !.claims = req[h].goal = "VERIFIED" /\ result[p] \in Nat]]
           /\ Goto(h, "enqueue")
        \/ ~row[p].callback /\ SettleReturns(h)
  /\ UNCHANGED <<now, database, replies, external, batch, faults>>

(* enqueueResult under a fresh event id; without an endpoint it only warns. *)
EnqueueResult(h) ==
  /\ pc[h] = "enqueue"
  /\ \E found \in EndpointLookups :
       LET event == [status |-> row[req[h].p].state, claims |-> req[h].claims]
       IN queue' = IF found THEN [queue EXCEPT ![req[h].p] = Append(@, event)]
                            ELSE queue
  /\ SettleReturns(h)
  /\ UNCHANGED <<now, row, history, result, audit, replies, external, batch, faults>>

-----------------------------------------------------------------------------
(* cancel() *)

StartCancel(h, p) ==
  /\ pc[h] = "idle"
  /\ row[p].state \in NonTerminalStates
  /\ req' = [req EXCEPT ![h] =
               [@ EXCEPT !.op = "cancel", !.p = p, !.from = row[p].state,
                         !.goal = "CANCELLED"]]
  /\ Goto(h, "cancelSession")
  /\ UNCHANGED <<now, database, replies, external, batch, faults>>

(* The engine session is deleted before the transition is tried, and a      *)
(* failure to delete it is only logged.                                     *)
CancelSession(h) ==
  /\ pc[h] = "cancelSession"
  /\ LET p == req[h].p
     IN \/ /\ row[p].session
           /\ engine' = [engine EXCEPT ![p] = [@ EXCEPT !.status = "deleted",
                                                        !.content = "none"]]
        \/ UNCHANGED engine
  /\ req' = [req EXCEPT ![h] = [@ EXCEPT !.at = now]]
  /\ Goto(h, "transition")
  /\ UNCHANGED <<now, database, replies, issued, engineTtl, batch, faults>>

-----------------------------------------------------------------------------
(* The background pass: expireDue, then purgeExpiredResults *)

(* Mutated: only transactions still waiting for the wallet expire. *)
ExpirableWaiting == {p \in Presentations : /\ row[p].state = "AWAITING_WALLET"
                                           /\ row[p].expiresAt <= now}

Expirable == {p \in Presentations : /\ row[p].state # "ABSENT"
                                    /\ row[p].expiresAt <= now
                                    /\ row[p].closedAt = NoTime}

(* findExpirable has a LIMIT and no ORDER BY. *)
FindExpirable(j) ==
  /\ pc[j] = "idle"
  /\ \E due \in SUBSET Expirable :
       /\ due = Expirable \/ Cardinality(due) = BatchLimit
       /\ Cardinality(due) <= BatchLimit
       /\ batch' = [batch EXCEPT ![j] = {[p |-> p, from |-> row[p].state] : p \in due}]
  /\ Goto(j, "nextDue")
  /\ UNCHANGED <<now, database, replies, external, req, faults>>

ExpireNext(j) ==
  /\ pc[j] = "nextDue"
  /\ \E due \in batch[j] :
       /\ batch' = [batch EXCEPT ![j] = @ \ {due}]
       /\ req' = [req EXCEPT ![j] =
                    [@ EXCEPT !.op = "expire", !.p = due.p, !.from = due.from,
                              !.goal = "EXPIRED", !.at = now]]
  /\ Goto(j, "transition")
  /\ UNCHANGED <<now, database, replies, external, faults>>

ExpiryPassDone(j) ==
  /\ pc[j] = "nextDue"
  /\ batch[j] = {}
  /\ Goto(j, "purge")
  /\ UNCHANGED <<now, database, replies, external, req, batch, faults>>

PurgeExpiredResults(j) ==
  /\ pc[j] = "purge"
  /\ result' = [p \in Presentations |->
                  IF result[p] \in Nat /\ result[p] <= now THEN Purged ELSE result[p]]
  /\ Goto(j, "idle")
  /\ UNCHANGED <<now, row, history, queue, audit, replies, external, req, batch, faults>>

-----------------------------------------------------------------------------
(* Faults: an await rejects, or the platform process stops. A rejected      *)
(* engine call of create() is EngineRefuses.                                *)

Fault(h) ==
  /\ pc[h] \notin {"idle", "nextDue", "sizeSession", "offer"}
  /\ faults < MaxFaults
  /\ faults' = faults + 1
  /\ IF pc[h] = "purge" THEN Goto(h, "idle") /\ UNCHANGED req ELSE Unwind(h)
  /\ UNCHANGED <<now, database, replies, external, batch>>

Crash ==
  /\ faults < MaxFaults
  /\ \E h \in Handlers : pc[h] # "idle"
  /\ faults' = faults + 1
  /\ pc' = [h \in Handlers |-> "idle"]
  /\ req' = [h \in Handlers |-> NoLocals]
  /\ batch' = [j \in Jobs |-> {}]
  /\ UNCHANGED <<now, database, replies, external>>

-----------------------------------------------------------------------------
(* The engine, the wallet and the clock *)

(* The wallet answers the request whose URI the client was given. *)
WalletAnswers(p) ==
  /\ engine[p].status = "active"
  /\ issued[p]
  /\ \E outcome \in EngineOutcomes, content \in Contents :
       /\ outcome # "VERIFIED" => content = "none"
       /\ engine' = [engine EXCEPT ![p] =
                       [@ EXCEPT !.status = outcome, !.content = content]]
  /\ UNCHANGED <<now, database, replies, issued, engineTtl, pc, req, batch, faults>>

EngineFails(p) ==
  /\ engine[p].status = "active"
  /\ "PROTOCOL_ERROR" \in EngineOutcomes
  /\ engine' = [engine EXCEPT ![p] = [@ EXCEPT !.status = "PROTOCOL_ERROR"]]
  /\ UNCHANGED <<now, database, replies, issued, engineTtl, pc, req, batch, faults>>

(* At its TTL a session expires; one already settled is anonymised. *)
EngineReaps(p) ==
  /\ engine[p].expiresAt # NoTime /\ engine[p].expiresAt <= now
  /\ \/ /\ engine[p].status = "active"
        /\ engine' = [engine EXCEPT ![p] = [@ EXCEPT !.status = "EXPIRED"]]
     \/ /\ engine[p].content # "none"
        /\ engine' = [engine EXCEPT ![p] = [@ EXCEPT !.content = "none"]]
  /\ UNCHANGED <<now, database, replies, issued, engineTtl, pc, req, batch, faults>>

Tick ==
  /\ now < MaxTime
  /\ now' = now + 1
  /\ UNCHANGED <<database, replies, external, pc, req, batch, faults>>

-----------------------------------------------------------------------------

Call(h) == \E p \in Presentations : StartCreate(h, p) \/ StartGet(h, p) \/ StartCancel(h, p)

(* What a handler does on its own once it runs. *)
Proceed(h) ==
  \/ Transition(h) \/ TransitionRefused(h) \/ ReadLog(h) \/ AppendLog(h)
  \/ SizeSession(h) \/ Offer(h) \/ EngineRefuses(h) \/ AttachEngineSession(h)
  \/ FinishCreate(h)
  \/ Find(h) \/ Advance(h) \/ Status(h) \/ Process(h) \/ SaveResult(h) \/ Reply(h)
  \/ AuditSettlement(h) \/ ReadForCallback(h) \/ EnqueueResult(h)
  \/ CancelSession(h)

JobStep(j) ==
  FindExpirable(j) \/ ExpireNext(j) \/ ExpiryPassDone(j) \/ PurgeExpiredResults(j)

Environment ==
  \/ Tick
  \/ \E p \in Presentations : WalletAnswers(p) \/ EngineFails(p) \/ EngineReaps(p)

Next ==
  \/ \E h \in Requests : Call(h)
  \/ \E h \in Handlers : Proceed(h) \/ Fault(h)
  \/ \E j \in Jobs : JobStep(j)
  \/ Crash
  \/ Environment

Spec == Init /\ [][Next]_vars

(* The interval timer starts pass after pass, every await is bounded by a   *)
(* timeout, and the clock runs. Nothing obliges a client to call, or a      *)
(* wallet or the engine to answer.                                          *)
Fairness ==
  /\ \A h \in Handlers : WF_vars(Proceed(h))
  /\ \A j \in Jobs : WF_vars(JobStep(j))
  /\ WF_vars(Tick)

FairSpec == Spec /\ Fairness

-----------------------------------------------------------------------------
(* Properties *)

(* Every variable holds a value of its type. *)
TypeOK ==
  /\ now \in 0..MaxTime
  /\ row \in [Presentations -> Rows]
  /\ history \in [Presentations -> SUBSET Moves]
  /\ result \in [Presentations -> Nat \cup {NoTime, Purged}]
  /\ queue \in [Presentations -> Seq(Events)]
  /\ audit \in [Presentations -> SUBSET PresentationStates]
  /\ replies \in [Presentations -> SUBSET Events]
  /\ issued \in [Presentations -> BOOLEAN]
  /\ engine \in [Presentations -> Sessions]
  /\ engineTtl \in Nat
  /\ pc \in [Handlers -> Labels]
  /\ req \in [Handlers -> Locals]
  /\ batch \in [Jobs -> SUBSET Due]
  /\ faults \in 0..MaxFaults

(* Concurrent pollers, a cancellation and the expiry pass settle a          *)
(* transaction once: whatever the audit trail, the queued callback and any  *)
(* client have been told is the outcome its row holds (transition()'s       *)
(* conditional UPDATE, settle()).                                           *)
OneStory ==
  \A p \in Presentations :
    /\ audit[p] \subseteq {row[p].state}
    /\ \A i \in DOMAIN queue[p] : queue[p][i].status = row[p].state
    /\ \A view \in replies[p] : view.status = row[p].state

(* The customer gets at most one callback event per transaction, although   *)
(* every settlement mints a fresh event id and the queue only deduplicates  *)
(* on that id (settle(), enqueueResult).                                    *)
AtMostOneCallback == \A p \in Presentations : Len(queue[p]) <= 1

(* A VERIFIED transaction had its result stored first, so a crash between   *)
(* the two never leaves a verification nobody can read; it may only have    *)
(* been purged since (settleVerified, purgeExpiredResults).                 *)
VerifiedHasResult ==
  \A p \in Presentations : row[p].state = "VERIFIED" => result[p] # NoTime

(* The evidence trail never tells of a move the table forbids, and never    *)
(* shows a state left twice, however handlers interleave between an UPDATE  *)
(* and its log entry (transition(), appendNextTransition).                  *)
HistoryIsLegal ==
  \A p \in Presentations : \A m \in history[p] :
    /\ m.seq > 0 => CanTransition(m.from, m.to)
    /\ \A n \in history[p] : n.seq > 0 /\ m.seq > 0 /\ n.from = m.from => n = m

(* Nothing leaves a terminal state, and the time it was closed at stays.    *)
TerminalIsFinal ==
  [][\A p \in Presentations :
       IsTerminal(row[p].state) => /\ row'[p].state = row[p].state
                                  /\ row'[p].closedAt = row[p].closedAt]_vars

(* When nothing failed and every handler has returned, a settlement has     *)
(* been audited under its own outcome, and announced on the callback the    *)
(* client asked for: a poller that lost the race to settle never takes the  *)
(* announcement with it (settle()). A cancellation and a refused creation   *)
(* announce nothing.                                                        *)
SettlementIsAnnounced ==
  (faults = 0 /\ \A h \in Handlers : pc[h] = "idle") =>
    \A p \in Presentations :
      LET settled == /\ IsTerminal(row[p].state)
                     /\ row[p].session \/ row[p].state \in {"EXPIRED", "CANCELLED"}
      IN settled =>
           /\ audit[p] = {row[p].state}
           /\ row[p].callback /\ row[p].state # "CANCELLED" /\ EndpointLookups = {TRUE}
                => queue[p] # <<>>

(* A transaction nobody polls still settles, through crashes and failed     *)
(* statements, whatever state a handler abandoned it in (expireDue).        *)
EventuallySettles ==
  \A p \in Presentations :
    row[p].state \in NonTerminalStates ~> row[p].state \in TerminalStates

PhaseOf(state) ==
  CASE state = "ABSENT" -> "absent"
    [] state \in NonTerminalStates -> "open"
    [] OTHER -> state

ToldAbout(p) == audit[p] \cup {view.status : view \in replies[p]}

Promise == INSTANCE PresentationOutcome WITH
  Outcomes <- TerminalStates,
  phase <- [p \in Presentations |-> PhaseOf(row[p].state)],
  told <- [p \in Presentations |-> ToldAbout(p)],
  callbacks <- [p \in Presentations |-> Len(queue[p])]

(* The service implements the promise of PresentationOutcome: the row's      *)
(* state is the phase, the audit trail and the views are what is told.      *)
KeepsThePromise == Promise!Spec
=============================================================================
