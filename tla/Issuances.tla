------------------------------ MODULE Issuances -----------------------------
(***************************************************************************)
(* The issuance flow of the platform API                                   *)
(* (apps/platform-api/src/modules/issuances/issuance.service.ts) over its  *)
(* rows (persistence/.../issuance.repository.ts), the claims it holds in   *)
(* memory for wallets that start by themselves (wallet-initiated-claims.ts)*)
(* and the sessions of the issuing engine.                                 *)
(*                                                                         *)
(* A handler is one execution of create, get or claimsForEngineSession.    *)
(* Every await ends a step; no two statements share a transaction. There   *)
(* is no background pass and no cancellation for issuances.                *)
(***************************************************************************)
EXTENDS Naturals, Sequences, IssuanceStates

CONSTANTS Issuances,       \* transactions; also names the session of i's offer
          WalletRequests,  \* authorization requests pushed by wallets, and
                           \* their engine sessions
          Handlers,
          Callbacks,       \* whether a creation may ask for a callback
          EngineAnswers,   \* what the engine may do with a call
          Failures,        \* outcomes other than ISSUED of its sessions
          Lifetime,        \* transactionLifetimeSeconds
          MaxTime,         \* bound on the clock
          MaxFaults        \* bound on failed statements and crashes

None == "none"

ASSUME IssuancesAssumption ==
  /\ Issuances # {} /\ Issuances \cap WalletRequests = {}
  /\ None \notin Issuances \cup WalletRequests
  /\ Callbacks \subseteq BOOLEAN
  /\ EngineAnswers \subseteq {"done", "refused", "unanswered"}
  /\ Failures \subseteq EngineOutcomes \ {"ISSUED"}
  /\ Lifetime \in Nat \ {0}
  /\ MaxTime \in Nat /\ MaxFaults \in Nat

VARIABLES
  now,
  row,        \* issuance_transactions
  moves,      \* issuance_transaction_transitions, without their times
  register,   \* issued_credentials: the transactions that have an entry
  callbacks,  \* webhook_deliveries enqueued for each transaction
  held,       \* WalletInitiatedClaims: whose values wait for a request
  verdict,    \* what the eligibility evaluator said
  session,    \* sessions of the engine
  claims,     \* whose values the engine has for a wallet's request
  offered,    \* the offer's URI has been returned to the business client
  pc, req,    \* what each handler awaits, and its local variables
  faults

database == <<row, moves, register, callbacks>>
engine == <<session, claims>>
local == <<pc, req>>
vars == <<now, database, held, verdict, engine, offered, local, faults>>

Sessions == Issuances \cup WalletRequests

NoRow == [state |-> "ABSENT", session |-> None, callback |-> FALSE, expiresAt |-> 0]

Rows == [state : IssuanceStates \cup {"ABSENT"}, session : Sessions \cup {None},
         callback : BOOLEAN, expiresAt : Nat]

Locals == [op : {"create", "get", "claims"}, i : Issuances,
           s : Sessions \cup {None}, from : IssuanceStates, to : IssuanceStates]

NoLocals == [op |-> "get", i |-> CHOOSE i \in Issuances : TRUE, s |-> None,
             from |-> "CREATED", to |-> "CREATED"]

Init ==
  /\ now = 0
  /\ row = [i \in Issuances |-> NoRow]
  /\ moves = [i \in Issuances |-> {}]
  /\ register = {}
  /\ callbacks = [i \in Issuances |-> <<>>]
  /\ held = [r \in WalletRequests |-> None]
  /\ verdict = [i \in Issuances |-> None]
  /\ session = [s \in Sessions |-> IF s \in WalletRequests THEN "active" ELSE "absent"]
  /\ claims = [r \in WalletRequests |-> None]
  /\ offered = {}
  /\ pc = [h \in Handlers |-> "idle"]
  /\ req = [h \in Handlers |-> NoLocals]
  /\ faults = 0

Goto(h, label) == pc' = [pc EXCEPT ![h] = label]

(* Answered, or an error thrown: the handler's locals are gone. *)
Return(h) == Goto(h, "idle") /\ req' = [req EXCEPT ![h] = NoLocals]

(* The next conditional update the handler awaits. *)
MoveTo(h, from, to) ==
  /\ Goto(h, "move")
  /\ req' = [req EXCEPT ![h] = [@ EXCEPT !.from = from, !.to = to]]

-----------------------------------------------------------------------------
(* transition() *)

(* Mutated: the UPDATE is not pinned to the state that was read. *)
MoveAllowedUnpinned(h) == CanTransition(req[h].from, req[h].to)

MoveAllowed(h) ==
  /\ CanTransition(req[h].from, req[h].to)
  /\ row[req[h].i].state = req[h].from

(* The patch: the session of the offer with OFFER_READY, the session of the *)
(* wallet's request when the engine has asked for the claims.               *)
Patched(h) ==
  CASE req[h].op = "create" /\ req[h].to = "OFFER_READY" /\ req[h].s = None -> req[h].i
    [] req[h].op = "claims" -> req[h].s
    [] OTHER -> row[req[h].i].session

Move(h) ==
  /\ pc[h] = "move"
  /\ MoveAllowed(h)
  /\ row' = [row EXCEPT ![req[h].i] = [@ EXCEPT !.state = req[h].to, !.session = Patched(h)]]
  /\ Goto(h, "log")
  /\ UNCHANGED <<now, moves, register, callbacks, held, verdict, engine, offered, req, faults>>

(* Illegal, or another writer was first: the conflict is thrown. *)
MoveRefused(h) ==
  /\ pc[h] = "move"
  /\ ~MoveAllowed(h)
  /\ Return(h)
  /\ UNCHANGED <<now, database, held, verdict, engine, offered, faults>>

(* Mutated: the walk of settleIssued skips the register. *)
AfterLogUnregistered(h) ==
  LET op == req[h].op  to == req[h].to IN
  \/ op = "create" /\ to = "CREATED" /\ Goto(h, "prepare") /\ UNCHANGED req
  \/ op = "create" /\ to = "ELIGIBILITY_CHECK" /\ Goto(h, "decide") /\ UNCHANGED req
  \/ op = "create" /\ to = "OFFER_READY" /\ req[h].s = None /\ MoveTo(h, to, "AWAITING_WALLET")
  \/ op = "create" /\ to = "OFFER_READY" /\ req[h].s # None /\ Goto(h, "audit") /\ UNCHANGED req
  \/ op = "create" /\ to \in {"NOT_ELIGIBLE", "AWAITING_WALLET"} /\ Goto(h, "audit") /\ UNCHANGED req
  \/ op = "claims" /\ Goto(h, "answer") /\ UNCHANGED req
  \/ op = "get" /\ to = "ELIGIBILITY_CHECK" /\ MoveTo(h, to, "ISSUING")
  \/ op = "get" /\ to = "ISSUING" /\ MoveTo(h, to, "ISSUED")
  \/ op = "get" /\ to \in TerminalStates /\ Goto(h, "audit") /\ UNCHANGED req

(* What follows each logged move in create, settleIssued and get. *)
AfterLog(h) ==
  LET op == req[h].op  to == req[h].to IN
  \/ op = "create" /\ to = "CREATED" /\ Goto(h, "prepare") /\ UNCHANGED req
  \/ op = "create" /\ to = "ELIGIBILITY_CHECK" /\ Goto(h, "decide") /\ UNCHANGED req
  \/ op = "create" /\ to = "OFFER_READY" /\ req[h].s = None /\ MoveTo(h, to, "AWAITING_WALLET")
  \/ op = "create" /\ to = "OFFER_READY" /\ req[h].s # None /\ Goto(h, "audit") /\ UNCHANGED req
  \/ op = "create" /\ to \in {"NOT_ELIGIBLE", "AWAITING_WALLET"} /\ Goto(h, "audit") /\ UNCHANGED req
  \/ op = "claims" /\ Goto(h, "answer") /\ UNCHANGED req
  \/ op = "get" /\ to = "ELIGIBILITY_CHECK" /\ MoveTo(h, to, "ISSUING")
  \/ op = "get" /\ to = "ISSUING" /\ MoveTo(h, to, "ISSUED")
  \/ op = "get" /\ to = "ISSUED" /\ Goto(h, "record") /\ UNCHANGED req
  \/ op = "get" /\ to \in TerminalStates \ {"ISSUED"} /\ Goto(h, "audit") /\ UNCHANGED req

(* Mutated: the log entry takes the row it is about to read again. *)
AppendTransitionReread(h) ==
  /\ pc[h] = "log"
  /\ moves' = [moves EXCEPT ![req[h].i] = @ \cup {<<row[req[h].i].state, req[h].to>>}]
  /\ AfterLog(h)
  /\ UNCHANGED <<now, row, register, callbacks, held, verdict, engine, offered, faults>>

AppendTransition(h) ==
  /\ pc[h] = "log"
  /\ moves' = [moves EXCEPT ![req[h].i] = @ \cup {<<req[h].from, req[h].to>>}]
  /\ AfterLog(h)
  /\ UNCHANGED <<now, row, register, callbacks, held, verdict, engine, offered, faults>>

-----------------------------------------------------------------------------
(* create, for an offer (s = None) or for a wallet's authorization request. *)

CreateTransaction(h) ==
  /\ pc[h] = "idle"
  /\ \E i \in Issuances, r \in WalletRequests \cup {None}, callback \in Callbacks :
       /\ row[i].state = "ABSENT"
       /\ row' = [row EXCEPT ![i] = [state |-> "CREATED", session |-> None,
                                     callback |-> callback, expiresAt |-> now + Lifetime]]
       /\ req' = [req EXCEPT ![h] = [op |-> "create", i |-> i, s |-> r,
                                     from |-> "CREATED", to |-> "CREATED"]]
  /\ Goto(h, "log")
  /\ UNCHANGED <<now, moves, register, callbacks, held, verdict, engine, offered, faults>>

(* provisionCredentialConfiguration and fetchFromSource: either may refuse, *)
(* and the row stays where it is.                                           *)
Prepare(h) ==
  /\ pc[h] = "prepare"
  /\ \/ MoveTo(h, "CREATED", "ELIGIBILITY_CHECK")
     \/ Return(h)
  /\ UNCHANGED <<now, database, held, verdict, engine, offered, faults>>

(* WalletInitiatedClaims.sweep *)
Swept == [r \in WalletRequests |->
            IF held[r] # None /\ row[held[r]].expiresAt > now THEN held[r] ELSE None]

(* Mutated: the decision is taken and then passed over. *)
NotEligibleIgnored(h) ==
  /\ pc[h] = "decide"
  /\ verdict' = [verdict EXCEPT ![req[h].i] = "no"]
  /\ Goto(h, "offer")
  /\ UNCHANGED <<now, database, held, engine, offered, req, faults>>

(* evaluate, narrowForCredential and hold, none of which is awaited. *)
NotEligible(h) ==
  /\ pc[h] = "decide"
  /\ verdict' = [verdict EXCEPT ![req[h].i] = "no"]
  /\ MoveTo(h, "ELIGIBILITY_CHECK", "NOT_ELIGIBLE")
  /\ UNCHANGED <<now, database, held, engine, offered, faults>>

(* The values do not satisfy the credential type: create throws. *)
NarrowRefuses(h) ==
  /\ pc[h] = "decide"
  /\ verdict' = [verdict EXCEPT ![req[h].i] = "yes"]
  /\ Return(h)
  /\ UNCHANGED <<now, database, held, engine, offered, faults>>

Eligible(h) ==
  /\ pc[h] = "decide"
  /\ req[h].s = None
  /\ verdict' = [verdict EXCEPT ![req[h].i] = "yes"]
  /\ Goto(h, "offer")
  /\ UNCHANGED <<now, database, held, engine, offered, req, faults>>

HoldForWallet(h) ==
  /\ pc[h] = "decide"
  /\ req[h].s # None
  /\ verdict' = [verdict EXCEPT ![req[h].i] = "yes"]
  /\ IF Swept[req[h].s] = None
     THEN /\ held' = [Swept EXCEPT ![req[h].s] = req[h].i]
          /\ MoveTo(h, "ELIGIBILITY_CHECK", "OFFER_READY")
     ELSE held' = Swept /\ Return(h)
  /\ UNCHANGED <<now, database, engine, offered, faults>>

(* createCredentialOffer, a POST that is not retried. *)
CreateCredentialOffer(h) ==
  /\ pc[h] = "offer"
  /\ \E answer \in EngineAnswers :
       /\ session' = IF answer = "refused" THEN session
                     ELSE [session EXCEPT ![req[h].i] = "active"]
       /\ IF answer = "done" THEN MoveTo(h, "ELIGIBILITY_CHECK", "OFFER_READY") ELSE Return(h)
  /\ UNCHANGED <<now, database, held, verdict, claims, offered, faults>>

(* The audit record, the last statement of create: the client has the URI.  *)
(* After it get still has to enqueue the callback.                          *)
AuditRecord(h) ==
  /\ pc[h] = "audit"
  /\ offered' = IF req[h].op = "create" /\ req[h].to = "AWAITING_WALLET"
                THEN offered \cup {req[h].i} ELSE offered
  /\ IF req[h].op = "get" THEN Goto(h, "enqueue") /\ UNCHANGED req ELSE Return(h)
  /\ UNCHANGED <<now, database, held, verdict, engine, faults>>

-----------------------------------------------------------------------------
(* claimsForEngineSession: the engine asks for the values of a session. *)

AskForClaims(h) ==
  /\ pc[h] = "idle"
  /\ \E r \in WalletRequests :
       /\ session[r] = "active"
       /\ req' = [req EXCEPT ![h] = [@ EXCEPT !.op = "claims", !.s = r]]
  /\ Goto(h, "take")
  /\ UNCHANGED <<now, database, held, verdict, engine, offered, faults>>

(* resolveAuthorizationRequest has answered: take() forgets what it gives. *)
TakeClaims(h) ==
  /\ pc[h] = "take"
  /\ LET i == Swept[req[h].s] IN
       IF i = None
       THEN held' = Swept /\ Return(h)
       ELSE /\ held' = [Swept EXCEPT ![req[h].s] = None]
            /\ Goto(h, "move")
            /\ req' = [req EXCEPT ![h] = [@ EXCEPT !.i = i, !.from = "OFFER_READY",
                                                   !.to = "AWAITING_WALLET"]]
  /\ UNCHANGED <<now, database, verdict, engine, offered, faults>>

AnswerClaims(h) ==
  /\ pc[h] = "answer"
  /\ claims' = [claims EXCEPT ![req[h].s] = req[h].i]
  /\ Return(h)
  /\ UNCHANGED <<now, database, held, verdict, session, offered, faults>>

-----------------------------------------------------------------------------
(* get *)

(* Mutated: only a transaction at rest is polled. *)
AdvanceableAtRest == {"AWAITING_WALLET"}

Advanceable == {"AWAITING_WALLET", "ELIGIBILITY_CHECK", "ISSUING"}

Get(h, i) ==
  /\ pc[h] = "idle"
  /\ row[i].session # None
  /\ row[i].state \in Advanceable
  /\ req' = [req EXCEPT ![h] = [op |-> "get", i |-> i, s |-> row[i].session,
                                from |-> row[i].state, to |-> row[i].state]]
  /\ Goto(h, "poll")
  /\ UNCHANGED <<now, database, held, verdict, engine, offered, faults>>

(* Mutated: a session still active is taken for a collected one. *)
NextOnOutcomeEager(from, status) ==
  IF status \in {"ISSUED", "active"}
  THEN CASE from = "AWAITING_WALLET" -> "ELIGIBILITY_CHECK"
         [] from = "ELIGIBILITY_CHECK" -> "ISSUING"
         [] OTHER -> "ISSUED"
  ELSE status

(* settleIssued walks the states the poll skipped; any other outcome is     *)
(* recorded in one move, legal or not.                                      *)
NextOnOutcome(from, status) ==
  IF status = "ISSUED"
  THEN CASE from = "AWAITING_WALLET" -> "ELIGIBILITY_CHECK"
         [] from = "ELIGIBILITY_CHECK" -> "ISSUING"
         [] OTHER -> "ISSUED"
  ELSE status

(* getIssuanceStatus: an active session is still awaiting its wallet. *)
Poll(h) ==
  /\ pc[h] = "poll"
  /\ LET next == NextOnOutcome(req[h].from, session[req[h].s]) IN
       IF next \in IssuanceStates THEN MoveTo(h, req[h].from, next) ELSE Return(h)
  /\ UNCHANGED <<now, database, held, verdict, engine, offered, faults>>

(* issued_credentials has one entry for each transaction, by its index. *)
RecordIssued(h) ==
  /\ pc[h] = "record"
  /\ register' = register \cup {req[h].i}
  /\ IF req[h].i \in register THEN Return(h) ELSE Goto(h, "audit") /\ UNCHANGED req
  /\ UNCHANGED <<now, row, moves, callbacks, held, verdict, engine, offered, faults>>

EnqueueCallback(h) ==
  /\ pc[h] = "enqueue"
  /\ callbacks' = IF row[req[h].i].callback
                  THEN [callbacks EXCEPT ![req[h].i] = Append(@, req[h].to)] ELSE callbacks
  /\ Return(h)
  /\ UNCHANGED <<now, row, moves, register, held, verdict, engine, offered, faults>>

-----------------------------------------------------------------------------
(* The engine and its wallets. *)

(* A wallet collects: through the offer, or with the values the engine got. *)
Collect(s) ==
  /\ session[s] = "active"
  /\ s \in offered \/ (s \in WalletRequests /\ claims[s] # None)
  /\ session' = [session EXCEPT ![s] = "ISSUED"]
  /\ UNCHANGED <<now, database, held, verdict, claims, offered, local, faults>>

SessionFails(s) ==
  /\ session[s] = "active"
  /\ \E outcome \in Failures : session' = [session EXCEPT ![s] = outcome]
  /\ UNCHANGED <<now, database, held, verdict, claims, offered, local, faults>>

Tick ==
  /\ now < MaxTime
  /\ now' = now + 1
  /\ UNCHANGED <<database, held, verdict, engine, offered, local, faults>>

(* An await fails and the error leaves the handler; enqueueCallback catches *)
(* its own, which comes to the same.                                        *)
Fault(h) ==
  /\ pc[h] \notin {"idle", "decide"}
  /\ faults < MaxFaults
  /\ faults' = faults + 1
  /\ Return(h)
  /\ UNCHANGED <<now, database, held, verdict, engine, offered>>

(* The process stops: its handlers and the claims it held are gone. *)
Crash ==
  /\ (\E h \in Handlers : pc[h] # "idle") \/ (\E r \in WalletRequests : held[r] # None)
  /\ faults < MaxFaults
  /\ faults' = faults + 1
  /\ held' = [r \in WalletRequests |-> None]
  /\ pc' = [h \in Handlers |-> "idle"]
  /\ req' = [h \in Handlers |-> NoLocals]
  /\ UNCHANGED <<now, database, verdict, engine, offered>>

Continue(h) ==
  \/ Move(h) \/ MoveRefused(h) \/ AppendTransition(h)
  \/ Prepare(h) \/ NotEligible(h) \/ NarrowRefuses(h) \/ Eligible(h)
  \/ HoldForWallet(h) \/ CreateCredentialOffer(h) \/ AuditRecord(h)
  \/ TakeClaims(h) \/ AnswerClaims(h)
  \/ Poll(h) \/ RecordIssued(h) \/ EnqueueCallback(h)

Next ==
  \/ \E h \in Handlers :
       \/ CreateTransaction(h) \/ AskForClaims(h) \/ Continue(h) \/ Fault(h)
       \/ \E i \in Issuances : Get(h, i)
  \/ \E s \in Sessions : Collect(s) \/ SessionFails(s)
  \/ Crash
  \/ Tick

Spec == Init /\ [][Next]_vars

(* Handlers run to their end, and the business client keeps polling. *)
FairSpec ==
  /\ Spec
  /\ \A h \in Handlers : WF_vars(Continue(h))
  /\ \A i \in Issuances : SF_vars(\E h \in Handlers : Get(h, i))
  /\ WF_vars(Tick)

-----------------------------------------------------------------------------
(* Properties *)

TypeOK ==
  /\ now \in 0..MaxTime
  /\ row \in [Issuances -> Rows]
  /\ moves \in [Issuances -> SUBSET (IssuanceStates \X IssuanceStates)]
  /\ register \in SUBSET Issuances
  /\ callbacks \in [Issuances -> Seq(IssuanceStates)]
  /\ held \in [WalletRequests -> Issuances \cup {None}]
  /\ verdict \in [Issuances -> {None, "yes", "no"}]
  /\ session \in [Sessions -> {"absent", "active"} \cup EngineOutcomes]
  /\ claims \in [WalletRequests -> Issuances \cup {None}]
  /\ offered \in SUBSET Issuances
  /\ pc \in [Handlers -> {"idle", "log", "prepare", "move", "decide", "offer", "audit",
                          "take", "answer", "poll", "record", "enqueue"}]
  /\ req \in [Handlers -> Locals]
  /\ faults \in 0..MaxFaults

Busy(i) == \E h \in Handlers : pc[h] # "idle" /\ req[h].i = i

(* Whatever a wallet collects, it collects from a session that a            *)
(* transaction found eligible follows, so that the platform can learn of    *)
(* the attestation and revoke it (create, claimsForEngineSession).          *)
CollectedIsFollowed ==
  \A s \in Sessions : session[s] = "ISSUED" =>
    \E i \in Issuances : row[i].session = s /\ verdict[i] = "yes"

(* A settled transaction tells what the engine told, and a refusal for want *)
(* of eligibility was the evaluator's and left the engine without a session *)
(* to follow (get, create).                                                 *)
OutcomeIsTheEngines ==
  \A i \in Issuances :
    /\ row[i].state = "NOT_ELIGIBLE" => verdict[i] = "no" /\ session[i] = "absent"
    /\ row[i].state \in TerminalStates \ {"NOT_ELIGIBLE"} =>
         row[i].session # None /\ session[row[i].session] = row[i].state

(* Two pollers of one issuance queue one callback between them, and it says *)
(* what the row says (transition as the gate of audit and callback).        *)
ToldOnce ==
  \A i \in Issuances :
    Len(callbacks[i]) <= 1 /\ (callbacks[i] # <<>> => callbacks[i] = <<row[i].state>>)

(* The register lists an attestation only if it was issued; and without a   *)
(* failure in between it lists every one that the platform reports ISSUED   *)
(* (settleIssued).                                                          *)
RegisterFollowsIssuance ==
  \A i \in Issuances :
    /\ i \in register => row[i].state = "ISSUED"
    /\ row[i].state = "ISSUED" /\ faults = 0 /\ ~Busy(i) => i \in register

(* Without a failure the log of an issued attestation is the whole walk,    *)
(* whichever pollers made the moves (transition, settleIssued).             *)
WalkIsLogged ==
  \A i \in Issuances :
    row[i].state = "ISSUED" /\ faults = 0 /\ ~Busy(i) =>
      moves[i] = {<<"CREATED", "CREATED">>, <<"CREATED", "ELIGIBILITY_CHECK">>,
                  <<"ELIGIBILITY_CHECK", "OFFER_READY">>, <<"OFFER_READY", "AWAITING_WALLET">>,
                  <<"AWAITING_WALLET", "ELIGIBILITY_CHECK">>,
                  <<"ELIGIBILITY_CHECK", "ISSUING">>, <<"ISSUING", "ISSUED">>}

(* A polled issuance whose session has ended settles, although a poller may *)
(* have failed or crashed half-way along the walk (get, settleIssued).      *)
PolledSettles ==
  \A i \in Issuances :
    (row[i].state = "AWAITING_WALLET" /\ session[row[i].session] # "active")
      ~> row[i].state \in TerminalStates
=============================================================================
