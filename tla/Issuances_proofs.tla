-------------------------- MODULE Issuances_proofs --------------------------
(***************************************************************************)
(* For every set of transactions, wallet requests and handlers and every   *)
(* value of the bounds: the types of Issuances, and its safety properties, *)
(* from one inductive invariant that says where each handler may stand and *)
(* how far the row it works on has come.                                   *)
(***************************************************************************)
EXTENDS Issuances, TLAPS

Labels == {"idle", "log", "prepare", "move", "decide", "offer", "audit",
           "take", "answer", "poll", "record", "enqueue"}

(* What a step of handler h leaves alone: the other handlers. *)
Alone(h) == \A g \in Handlers \ {h} : pc'[g] = pc[g] /\ req'[g] = req[g]

-----------------------------------------------------------------------------
(* The invariant *)

(* A row and the session it follows: which states go with a session, and    *)
(* that an outcome is the engine's.                                         *)
Unfollowed == {"ABSENT", "CREATED", "ELIGIBILITY_CHECK", "OFFER_READY", "NOT_ELIGIBLE"}

Followed == {"OFFER_READY", "AWAITING_WALLET", "ELIGIBILITY_CHECK", "ISSUING"} \cup EngineOutcomes

RowsHangTogether ==
  \A i \in Issuances :
    /\ row[i].session = None => row[i].state \in Unfollowed
    /\ row[i].session # None => verdict[i] = "yes" /\ row[i].state \in Followed
    /\ row[i].state = "ABSENT" => session[i] = "absent"
    /\ row[i].state = "NOT_ELIGIBLE" => verdict[i] = "no" /\ session[i] = "absent"
    /\ row[i].state \in EngineOutcomes => session[row[i].session] = row[i].state

(* What the engine was given to issue is followed by a row. *)
IssuedIsFollowed ==
  /\ \A i \in offered : row[i].session = i
  /\ \A r \in WalletRequests : claims[r] # None => row[claims[r]].session = r
  /\ \A s \in Sessions : session[s] = "ISSUED" => \E i \in Issuances : row[i].session = s

(* The values of i wait for the engine to ask. *)
Waiting(i) ==
  /\ verdict[i] = "yes" /\ row[i].session = None
  /\ row[i].state \in {"ELIGIBILITY_CHECK", "OFFER_READY"}

Takes(h) == pc[h] = "move" /\ req[h].op = "claims"

(* They are held, or taken by a handler that has not moved the row yet. *)
Pledged(i) ==
  \/ \E r \in WalletRequests : held[r] = i
  \/ \E h \in Handlers : Takes(h) /\ req[h].i = i

(* Values wait for one request, and one handler takes them. *)
HeldOnce ==
  /\ \A r \in WalletRequests : held[r] # None => Waiting(held[r])
  /\ \A r, q \in WalletRequests : held[r] # None /\ held[r] = held[q] => r = q
  /\ \A h \in Handlers : Takes(h) => \A r \in WalletRequests : held[r] # req[h].i
  /\ \A g, h \in Handlers : Takes(g) /\ Takes(h) /\ req[g].i = req[h].i => g = h

(* Nobody but its creation knows of the row yet. *)
Fresh(i, state) ==
  /\ row[i].state = state /\ row[i].session = None
  /\ session[i] = "absent" /\ ~Pledged(i)

Moving(h, from, to) == pc[h] = "move" /\ req[h].from = from /\ req[h].to = to

Logging(h, from, to) == pc[h] = "log" /\ req[h].from = from /\ req[h].to = to

(* Where create may stand, and how far its row has come. *)
CreatorStage(h) ==
  LET i == req[h].i IN
  /\ row[i].state # "ABSENT"
  /\ \/ Logging(h, "CREATED", "CREATED") /\ Fresh(i, "CREATED")
     \/ pc[h] = "prepare" /\ Fresh(i, "CREATED")
     \/ Moving(h, "CREATED", "ELIGIBILITY_CHECK") /\ Fresh(i, "CREATED")
     \/ Logging(h, "CREATED", "ELIGIBILITY_CHECK") /\ Fresh(i, "ELIGIBILITY_CHECK")
     \/ pc[h] = "decide" /\ Fresh(i, "ELIGIBILITY_CHECK")
     \/ pc[h] = "offer" /\ req[h].s = None /\ Fresh(i, "ELIGIBILITY_CHECK") /\ verdict[i] = "yes"
     \/ Moving(h, "ELIGIBILITY_CHECK", "NOT_ELIGIBLE") /\ Fresh(i, "ELIGIBILITY_CHECK") /\ verdict[i] = "no"
     \/ Logging(h, "ELIGIBILITY_CHECK", "NOT_ELIGIBLE")
     \/ /\ Moving(h, "ELIGIBILITY_CHECK", "OFFER_READY")
        /\ row[i].state = "ELIGIBILITY_CHECK" /\ row[i].session = None /\ verdict[i] = "yes"
        /\ req[h].s = None => ~Pledged(i)
     \/ /\ Logging(h, "ELIGIBILITY_CHECK", "OFFER_READY")
        /\ req[h].s = None => row[i].state = "OFFER_READY" /\ row[i].session = i
     \/ /\ Moving(h, "OFFER_READY", "AWAITING_WALLET")
        /\ req[h].s = None /\ row[i].state = "OFFER_READY" /\ row[i].session = i
     \/ Logging(h, "OFFER_READY", "AWAITING_WALLET") /\ row[i].session = i
     \/ pc[h] = "audit" /\ req[h].to \in {"NOT_ELIGIBLE", "OFFER_READY"}
     \/ pc[h] = "audit" /\ req[h].to = "AWAITING_WALLET" /\ row[i].session = i

(* Where claimsForEngineSession may stand. *)
ClaimantStage(h) ==
  /\ req[h].s \in WalletRequests
  /\ \/ pc[h] = "take"
     \/ Moving(h, "OFFER_READY", "AWAITING_WALLET") /\ Waiting(req[h].i)
     \/ Logging(h, "OFFER_READY", "AWAITING_WALLET") /\ row[req[h].i].session = req[h].s
     \/ pc[h] = "answer" /\ row[req[h].i].session = req[h].s

(* The move get is about, as the engine's answer has it. *)
Told(h) ==
  \/ /\ session[req[h].s] = "ISSUED"
     /\ \/ req[h].from = "AWAITING_WALLET" /\ req[h].to = "ELIGIBILITY_CHECK"
        \/ req[h].from = "ELIGIBILITY_CHECK" /\ req[h].to = "ISSUING"
        \/ req[h].from = "ISSUING" /\ req[h].to = "ISSUED"
  \/ /\ req[h].from \in Advanceable
     /\ req[h].to \in EngineOutcomes \ {"ISSUED"} /\ session[req[h].s] = req[h].to

(* Where get may stand; past the move to an outcome it has it to announce. *)
FollowerStage(h) ==
  LET i == req[h].i IN
  /\ req[h].s # None /\ row[i].session = req[h].s
  /\ \/ pc[h] = "poll" /\ req[h].from \in Advanceable
     \/ pc[h] \in {"move", "log"} /\ Told(h)
     \/ pc[h] \in {"record", "audit", "enqueue"} /\ Told(h) /\ req[h].to \in EngineOutcomes
  /\ pc[h] = "record" => req[h].to = "ISSUED"

Creates(h) == pc[h] # "idle" /\ req[h].op = "create"

(* It has made the move to an outcome and not announced all of it. *)
Announces(h) ==
  /\ pc[h] \in {"log", "record", "audit", "enqueue"}
  /\ req[h].op = "get" /\ req[h].to \in EngineOutcomes

Stands(h) ==
  pc[h] # "idle" =>
    /\ req[h].op = "create" => CreatorStage(h)
    /\ req[h].op = "claims" => ClaimantStage(h)
    /\ req[h].op = "get" => FollowerStage(h)

(* Every handler stands where its operation may. *)
HandlersStand == \A h \in Handlers : Stands(h)

(* A row has one creation, and an outcome one announcer. *)
OneEach ==
  /\ \A g, h \in Handlers : Creates(g) /\ Creates(h) /\ req[g].i = req[h].i => g = h
  /\ \A g, h \in Handlers : Announces(g) /\ Announces(h) /\ req[g].i = req[h].i => g = h

(* A callback waits for its announcer, and repeats what the row says. *)
Announcements ==
  /\ \A h \in Handlers : Announces(h) =>
       row[req[h].i].state = req[h].to /\ callbacks[req[h].i] = <<>>
  /\ \A i \in Issuances : callbacks[i] # <<>> =>
       row[i].state \in EngineOutcomes /\ callbacks[i] = <<row[i].state>>

(* An issued attestation is in the register, or its announcer is on the way. *)
Registered ==
  \A i \in Issuances :
    /\ i \in register => row[i].state = "ISSUED"
    /\ row[i].state = "ISSUED" /\ faults = 0 /\ i \notin register =>
         \E h \in Handlers : pc[h] \in {"log", "record"} /\ Announces(h) /\ req[h].i = i

(* The moves that lead a row to where it is, of those on the way to ISSUED. *)
Walk ==
  << <<"CREATED", "CREATED">>, <<"CREATED", "ELIGIBILITY_CHECK">>,
     <<"ELIGIBILITY_CHECK", "OFFER_READY">>, <<"OFFER_READY", "AWAITING_WALLET">>,
     <<"AWAITING_WALLET", "ELIGIBILITY_CHECK">>, <<"ELIGIBILITY_CHECK", "ISSUING">>,
     <<"ISSUING", "ISSUED">> >>

(* How many of them lie behind a row. *)
Distance(i) ==
  CASE row[i].state = "ABSENT" -> 0
    [] row[i].state = "CREATED" -> 1
    [] row[i].state = "ELIGIBILITY_CHECK" /\ row[i].session = None -> 2
    [] row[i].state = "OFFER_READY" -> 3
    [] row[i].state = "AWAITING_WALLET" -> 4
    [] row[i].state = "ELIGIBILITY_CHECK" /\ row[i].session # None -> 5
    [] row[i].state = "ISSUING" -> 6
    [] OTHER -> 7

OnTheWalk(i) == row[i].state \notin TerminalStates \ {"ISSUED"}

Logs(i) == {<<req[h].from, req[h].to>> : h \in {g \in Handlers : pc[g] = "log" /\ req[g].i = i}}

(* The entries of the log, and those that are about to be written. *)
Entries(i) == moves[i] \cup Logs(i)

WalkTo(k) == {Walk[n] : n \in 1..k}

(* The log, with what is about to be appended to it, is the walk so far. *)
LogIsTheWalk ==
  faults = 0 => \A i \in Issuances : OnTheWalk(i) => Entries(i) = WalkTo(Distance(i))

IInv ==
  /\ RowsHangTogether /\ IssuedIsFollowed /\ HeldOnce /\ HandlersStand /\ OneEach
  /\ Announcements /\ Registered /\ LogIsTheWalk

-----------------------------------------------------------------------------
(* Operators *)

(* The names of the states. *)
LEMMA StatesAreNamed ==
  /\ EngineOutcomes \subseteq TerminalStates /\ TerminalStates \subseteq IssuanceStates
  /\ {"CREATED", "ELIGIBILITY_CHECK", "OFFER_READY", "AWAITING_WALLET", "ISSUING",
      "NOT_ELIGIBLE"} \subseteq IssuanceStates
  /\ Advanceable \subseteq IssuanceStates /\ Advanceable \cap TerminalStates = {}
  /\ "ABSENT" \notin IssuanceStates /\ "NOT_ELIGIBLE" \notin EngineOutcomes
  /\ "absent" \notin IssuanceStates /\ "active" \notin IssuanceStates
BY DEF EngineOutcomes, TerminalStates, IssuanceStates, NonTerminalStates, Advanceable

(* A handler that has returned holds well-typed locals. *)
LEMMA NoLocalsTyped == NoLocals \in Locals
<1>1. (CHOOSE i \in Issuances : TRUE) \in Issuances
  BY IssuancesAssumption DEF IssuancesAssumption
<1>2. QED
  BY <1>1, StatesAreNamed DEF NoLocals, Locals

(* What a handler holds. *)
LEMMA LocalsAreTyped ==
  ASSUME TypeOK, NEW h \in Handlers
  PROVE  /\ req[h] \in Locals /\ req[h].i \in Issuances /\ req[h].op \in {"create", "get", "claims"}
         /\ req[h].s \in Sessions \cup {None}
         /\ req[h].from \in IssuanceStates /\ req[h].to \in IssuanceStates
         /\ row[req[h].i] \in Rows
BY DEF TypeOK, Locals

(* Where a handler stands after each way to leave a step. *)
LEMMA Went ==
  ASSUME TypeOK, NEW h \in Handlers, NEW label \in Labels, Goto(h, label)
  PROVE  /\ pc' \in [Handlers -> Labels] /\ pc'[h] = label
         /\ \A g \in Handlers \ {h} : pc'[g] = pc[g]
BY DEF TypeOK, Goto, Labels

LEMMA Stayed ==
  ASSUME TypeOK, NEW h \in Handlers, NEW label \in Labels, Goto(h, label), req' = req
  PROVE  /\ pc' \in [Handlers -> Labels] /\ req' \in [Handlers -> Locals] /\ Alone(h)
         /\ pc'[h] = label /\ req'[h] = req[h]
BY Went DEF TypeOK, Alone

LEMMA Returned ==
  ASSUME TypeOK, NEW h \in Handlers, Return(h)
  PROVE  /\ pc' \in [Handlers -> Labels] /\ req' \in [Handlers -> Locals] /\ Alone(h)
         /\ pc'[h] = "idle"
BY NoLocalsTyped DEF TypeOK, Return, Goto, Labels, Alone

LEMMA Moves ==
  ASSUME TypeOK, NEW h \in Handlers, NEW from \in IssuanceStates, NEW to \in IssuanceStates,
         MoveTo(h, from, to)
  PROVE  /\ pc' \in [Handlers -> Labels] /\ req' \in [Handlers -> Locals] /\ Alone(h)
         /\ pc'[h] = "move" /\ req'[h].op = req[h].op
         /\ req'[h].i = req[h].i /\ req'[h].s = req[h].s
         /\ req'[h].from = from /\ req'[h].to = to
<1>1. [req[h] EXCEPT !.from = from, !.to = to] \in Locals
  BY LocalsAreTyped DEF Locals
<1>2. req' = [req EXCEPT ![h] = [req[h] EXCEPT !.from = from, !.to = to]]
  BY DEF MoveTo
<1>3. req'[h] = [req[h] EXCEPT !.from = from, !.to = to] /\ req' \in [Handlers -> Locals]
      /\ \A g \in Handlers \ {h} : req'[g] = req[g]
  BY <1>1, <1>2 DEF TypeOK
<1>4. pc' \in [Handlers -> Labels] /\ pc'[h] = "move" /\ \A g \in Handlers \ {h} : pc'[g] = pc[g]
  BY Went DEF MoveTo, Labels
<1>5. QED
  BY <1>3, <1>4, LocalsAreTyped DEF Alone, Locals

(* The row a handler moves, and the session it comes to follow. *)
LEMMA Patch ==
  ASSUME TypeOK, NEW h \in Handlers
  PROVE  /\ req[h].op = "create" /\ req[h].to = "OFFER_READY" /\ req[h].s = None
              => Patched(h) = req[h].i
         /\ req[h].op = "claims" => Patched(h) = req[h].s
         /\ ~(req[h].op = "create" /\ req[h].to = "OFFER_READY" /\ req[h].s = None)
              /\ req[h].op # "claims" => Patched(h) = row[req[h].i].session
         /\ Patched(h) \in Sessions \cup {None}
BY LocalsAreTyped DEF Patched, Rows, Sessions

(* Where the row a handler moves comes to. *)
LEMMA RowMoves ==
  ASSUME TypeOK, NEW h \in Handlers, Move(h)
  PROVE  /\ pc[h] = "move" /\ row[req[h].i].state = req[h].from
         /\ CanTransition(req[h].from, req[h].to)
         /\ row' \in [Issuances -> Rows]
         /\ row'[req[h].i].state = req[h].to /\ row'[req[h].i].session = Patched(h)
         /\ row'[req[h].i].callback = row[req[h].i].callback
         /\ row'[req[h].i].expiresAt = row[req[h].i].expiresAt
         /\ \A i \in Issuances \ {req[h].i} : row'[i] = row[i]
<1>. DEFINE i == req[h].i
            moved == [row[i] EXCEPT !.state = req[h].to, !.session = Patched(h)]
<1>1. i \in Issuances /\ row[i] \in Rows /\ req[h].to \in IssuanceStates
      /\ Patched(h) \in Sessions \cup {None}
  BY LocalsAreTyped, Patch
<1>2. moved \in Rows /\ moved.state = req[h].to /\ moved.session = Patched(h)
      /\ moved.callback = row[i].callback /\ moved.expiresAt = row[i].expiresAt
  BY <1>1 DEF Rows
<1>3. row' = [row EXCEPT ![i] = moved]
  BY DEF Move
<1>4. row' \in [Issuances -> Rows] /\ row'[i] = moved
      /\ \A j \in Issuances \ {i} : row'[j] = row[j]
  BY <1>1, <1>2, <1>3 DEF TypeOK
<1>5. QED
  BY <1>2, <1>4 DEF Move, MoveAllowed

(* What follows a logged move. *)
LEMMA LogGoesOn ==
  ASSUME TypeOK, NEW h \in Handlers, AppendTransition(h)
  PROVE  /\ pc' \in [Handlers -> Labels] /\ req' \in [Handlers -> Locals] /\ Alone(h)
         /\ pc[h] = "log" /\ pc'[h] \notin {"idle", "log"}
         /\ req'[h].op = req[h].op /\ req'[h].i = req[h].i /\ req'[h].s = req[h].s
         /\ pc'[h] # "move" => req'[h] = req[h]
         /\ pc'[h] = "move" => req'[h].from = req[h].to
<1>. DEFINE op == req[h].op  to == req[h].to
<1>1. pc[h] = "log" /\ AfterLog(h)
  BY DEF AppendTransition
<1>2. \/ \E label \in {"prepare", "decide", "audit", "answer", "record"} :
              Goto(h, label) /\ UNCHANGED req
      \/ \E next \in {"AWAITING_WALLET", "ISSUING", "ISSUED"} : MoveTo(h, to, next)
  BY <1>1, Zenon DEF AfterLog
<1>3. ASSUME NEW label \in {"prepare", "decide", "audit", "answer", "record"},
             Goto(h, label), UNCHANGED req
      PROVE  /\ pc' \in [Handlers -> Labels] /\ req' \in [Handlers -> Locals] /\ Alone(h)
             /\ pc'[h] = label /\ req'[h] = req[h]
  BY <1>3, Stayed DEF Labels
<1>4. ASSUME NEW next \in {"AWAITING_WALLET", "ISSUING", "ISSUED"}, MoveTo(h, to, next)
      PROVE  /\ pc' \in [Handlers -> Labels] /\ req' \in [Handlers -> Locals] /\ Alone(h)
             /\ pc'[h] = "move" /\ req'[h].op = op
             /\ req'[h].i = req[h].i /\ req'[h].s = req[h].s /\ req'[h].from = to
  <2>1. to \in IssuanceStates /\ next \in IssuanceStates
    BY LocalsAreTyped DEF IssuanceStates, NonTerminalStates, TerminalStates, EngineOutcomes
  <2>2. QED
    BY <1>4, <2>1, Moves
<1>5. QED
  BY <1>1, <1>2, <1>3, <1>4

-----------------------------------------------------------------------------
(* Types *)

(* The initial state is well typed. *)
LEMMA InitTyped == Init => TypeOK
<1>1. "ABSENT" \in IssuanceStates \cup {"ABSENT"} /\ 0 \in Nat
  OBVIOUS
<1>2. NoRow \in Rows
  BY DEF NoRow, Rows
<1>3. QED
  BY <1>2, NoLocalsTyped, IssuancesAssumption
  DEF IssuancesAssumption, Init, TypeOK, Sessions

(* The claims that survive a sweep are claims. *)
LEMMA SweptTyped ==
  ASSUME TypeOK
  PROVE  /\ Swept \in [WalletRequests -> Issuances \cup {None}]
         /\ \A r \in WalletRequests : Swept[r] \in {held[r], None}
BY DEF Swept, TypeOK

(* Every action keeps the types. *)
LEMMA NextTyped == TypeOK /\ HandlersStand /\ [Next]_vars => TypeOK'
<1>1. SUFFICES ASSUME TypeOK, HandlersStand, [Next]_vars PROVE TypeOK'
  OBVIOUS
<1>. USE DEF Labels, database, engine, local
<1>2. ASSUME NEW h \in Handlers, CreateTransaction(h) PROVE TypeOK'
  <2>1. PICK i \in Issuances, r \in WalletRequests \cup {None}, callback \in Callbacks :
         /\ row' = [row EXCEPT ![i] = [state |-> "CREATED", session |-> None,
                                       callback |-> callback, expiresAt |-> now + Lifetime]]
         /\ req' = [req EXCEPT ![h] = [op |-> "create", i |-> i, s |-> r,
                                       from |-> "CREATED", to |-> "CREATED"]]
    BY <1>2 DEF CreateTransaction
  <2>2. now + Lifetime \in Nat /\ callback \in BOOLEAN
    BY <1>1, IssuancesAssumption DEF IssuancesAssumption, TypeOK
  <2>3. [state |-> "CREATED", session |-> None, callback |-> callback,
         expiresAt |-> now + Lifetime] \in Rows
    BY <2>2, StatesAreNamed DEF Rows
  <2>4. [op |-> "create", i |-> i, s |-> r, from |-> "CREATED", to |-> "CREATED"] \in Locals
    BY <2>1, StatesAreNamed DEF Locals, Sessions
  <2>5. row' \in [Issuances -> Rows] /\ req' \in [Handlers -> Locals]
    BY <1>1, <2>1, <2>3, <2>4 DEF TypeOK
  <2>6. QED
    BY <1>1, <1>2, <2>5, Went DEF TypeOK, CreateTransaction
<1>3. ASSUME NEW h \in Handlers, AskForClaims(h) PROVE TypeOK'
  <2>1. PICK r \in WalletRequests : req' = [req EXCEPT ![h] = [req[h] EXCEPT !.op = "claims", !.s = r]]
    BY <1>3 DEF AskForClaims
  <2>2. [req[h] EXCEPT !.op = "claims", !.s = r] \in Locals
    BY <1>1, LocalsAreTyped DEF Locals, Sessions
  <2>3. req' \in [Handlers -> Locals]
    BY <1>1, <2>1, <2>2 DEF TypeOK
  <2>4. QED
    BY <1>1, <1>3, <2>3, Went DEF TypeOK, AskForClaims
<1>4. ASSUME NEW h \in Handlers, Move(h) PROVE TypeOK'
  BY <1>1, <1>4, RowMoves, Stayed DEF TypeOK, Move
<1>5. ASSUME NEW h \in Handlers, MoveRefused(h) PROVE TypeOK'
  BY <1>1, <1>5, Returned DEF TypeOK, MoveRefused
<1>6. ASSUME NEW h \in Handlers, AppendTransition(h) PROVE TypeOK'
  <2>1. <<req[h].from, req[h].to>> \in IssuanceStates \X IssuanceStates /\ req[h].i \in Issuances
    BY <1>1, LocalsAreTyped
  <2>2. moves' = [moves EXCEPT ![req[h].i] = @ \cup {<<req[h].from, req[h].to>>}]
    BY <1>6 DEF AppendTransition
  <2>3. moves[req[h].i] \cup {<<req[h].from, req[h].to>>} \in SUBSET (IssuanceStates \X IssuanceStates)
    BY <1>1, <2>1 DEF TypeOK
  <2>4. moves' \in [Issuances -> SUBSET (IssuanceStates \X IssuanceStates)]
    BY <1>1, <2>1, <2>2, <2>3 DEF TypeOK
  <2>5. QED
    BY <1>1, <1>6, <2>4, LogGoesOn DEF TypeOK, AppendTransition
<1>7. ASSUME NEW h \in Handlers, Prepare(h) PROVE TypeOK'
  <2>1. pc' \in [Handlers -> Labels] /\ req' \in [Handlers -> Locals]
    BY <1>1, <1>7, Moves, Returned, StatesAreNamed DEF Prepare
  <2>2. QED
    BY <1>1, <1>7, <2>1 DEF TypeOK, Prepare
<1>8. ASSUME NEW h \in Handlers, NotEligible(h) PROVE TypeOK'
  <2>1. pc' \in [Handlers -> Labels] /\ req' \in [Handlers -> Locals]
    BY <1>1, <1>8, Moves, StatesAreNamed DEF NotEligible
  <2>2. QED
    BY <1>1, <1>8, <2>1, LocalsAreTyped DEF TypeOK, NotEligible
<1>9. ASSUME NEW h \in Handlers, NarrowRefuses(h) PROVE TypeOK'
  BY <1>1, <1>9, Returned, LocalsAreTyped DEF TypeOK, NarrowRefuses
<1>10. ASSUME NEW h \in Handlers, Eligible(h) PROVE TypeOK'
  BY <1>1, <1>10, Stayed, LocalsAreTyped DEF TypeOK, Eligible
<1>11. ASSUME NEW h \in Handlers, HoldForWallet(h) PROVE TypeOK'
  <2>1. pc' \in [Handlers -> Labels] /\ req' \in [Handlers -> Locals]
    BY <1>1, <1>11, Moves, Returned, StatesAreNamed DEF HoldForWallet
  <2>2. held' \in [WalletRequests -> Issuances \cup {None}]
    BY <1>1, <1>11, SweptTyped, LocalsAreTyped DEF HoldForWallet
  <2>3. QED
    BY <1>1, <1>11, <2>1, <2>2, LocalsAreTyped DEF TypeOK, HoldForWallet
<1>12. ASSUME NEW h \in Handlers, CreateCredentialOffer(h) PROVE TypeOK'
  <2>1. pc' \in [Handlers -> Labels] /\ req' \in [Handlers -> Locals]
    BY <1>1, <1>12, Moves, Returned, StatesAreNamed DEF CreateCredentialOffer
  <2>2. session' \in [Sessions -> {"absent", "active"} \cup EngineOutcomes]
    BY <1>1, <1>12 DEF TypeOK, CreateCredentialOffer
  <2>3. QED
    BY <1>1, <1>12, <2>1, <2>2 DEF TypeOK, CreateCredentialOffer
<1>13. ASSUME NEW h \in Handlers, AuditRecord(h) PROVE TypeOK'
  <2>1. pc' \in [Handlers -> Labels] /\ req' \in [Handlers -> Locals]
    BY <1>1, <1>13, Stayed, Returned DEF AuditRecord
  <2>2. QED
    BY <1>1, <1>13, <2>1, LocalsAreTyped DEF TypeOK, AuditRecord
<1>14. ASSUME NEW h \in Handlers, TakeClaims(h) PROVE TypeOK'
  <2>. DEFINE i == Swept[req[h].s]
  <2>1. CASE i = None
    BY <1>1, <1>14, <2>1, Returned, SweptTyped DEF TypeOK, TakeClaims
  <2>2. CASE i # None
    <3>1. req[h].s \in WalletRequests
      BY <1>1, <1>14, LocalsAreTyped
      DEF TakeClaims, HandlersStand, Stands, CreatorStage, ClaimantStage, FollowerStage, Moving, Logging
    <3>2. /\ held' = [Swept EXCEPT ![req[h].s] = None]
          /\ Goto(h, "move")
          /\ req' = [req EXCEPT ![h] = [req[h] EXCEPT !.i = i, !.from = "OFFER_READY",
                                                      !.to = "AWAITING_WALLET"]]
      BY <1>14, <2>2 DEF TakeClaims
    <3>3. i \in Issuances
      BY <1>1, <2>2, <3>1, SweptTyped
    <3>4. [req[h] EXCEPT !.i = i, !.from = "OFFER_READY", !.to = "AWAITING_WALLET"] \in Locals
      BY <1>1, <3>3, LocalsAreTyped, StatesAreNamed DEF Locals
    <3>5. req' \in [Handlers -> Locals] /\ held' \in [WalletRequests -> Issuances \cup {None}]
      BY <1>1, <3>1, <3>2, <3>4, SweptTyped DEF TypeOK
    <3>6. QED
      BY <1>1, <1>14, <3>2, <3>5, Went DEF TypeOK, TakeClaims
  <2>3. QED
    BY <2>1, <2>2
<1>15. ASSUME NEW h \in Handlers, AnswerClaims(h) PROVE TypeOK'
  BY <1>1, <1>15, Returned, LocalsAreTyped DEF TypeOK, AnswerClaims
<1>16. ASSUME NEW h \in Handlers, NEW i \in Issuances, Get(h, i) PROVE TypeOK'
  <2>1. [op |-> "get", i |-> i, s |-> row[i].session,
         from |-> row[i].state, to |-> row[i].state] \in Locals
    BY <1>1, <1>16, StatesAreNamed DEF TypeOK, Get, Rows, Locals
  <2>2. req' \in [Handlers -> Locals]
    BY <1>1, <1>16, <2>1 DEF TypeOK, Get
  <2>3. QED
    BY <1>1, <1>16, <2>2, Went DEF TypeOK, Get
<1>17. ASSUME NEW h \in Handlers, Poll(h) PROVE TypeOK'
  <2>1. pc' \in [Handlers -> Labels] /\ req' \in [Handlers -> Locals]
    BY <1>1, <1>17, Moves, Returned, LocalsAreTyped DEF Poll
  <2>2. QED
    BY <1>1, <1>17, <2>1 DEF TypeOK, Poll
<1>18. ASSUME NEW h \in Handlers, RecordIssued(h) PROVE TypeOK'
  <2>1. pc' \in [Handlers -> Labels] /\ req' \in [Handlers -> Locals]
    BY <1>1, <1>18, Stayed, Returned DEF RecordIssued
  <2>2. QED
    BY <1>1, <1>18, <2>1, LocalsAreTyped DEF TypeOK, RecordIssued
<1>19. ASSUME NEW h \in Handlers, EnqueueCallback(h) PROVE TypeOK'
  <2>1. callbacks[req[h].i] \in Seq(IssuanceStates) /\ req[h].to \in IssuanceStates
    BY <1>1, LocalsAreTyped DEF TypeOK
  <2>2. Append(callbacks[req[h].i], req[h].to) \in Seq(IssuanceStates)
    BY <2>1
  <2>3. callbacks' \in [Issuances -> Seq(IssuanceStates)]
    BY <1>1, <1>19, <2>2 DEF TypeOK, EnqueueCallback
  <2>4. QED
    BY <1>1, <1>19, <2>3, Returned DEF TypeOK, EnqueueCallback
<1>20. ASSUME NEW s \in Sessions, Collect(s) PROVE TypeOK'
  BY <1>1, <1>20 DEF TypeOK, Collect, EngineOutcomes
<1>21. ASSUME NEW s \in Sessions, SessionFails(s) PROVE TypeOK'
  BY <1>1, <1>21, IssuancesAssumption DEF IssuancesAssumption, TypeOK, SessionFails
<1>22. ASSUME NEW h \in Handlers, Fault(h) PROVE TypeOK'
  BY <1>1, <1>22, Returned, IssuancesAssumption DEF IssuancesAssumption, TypeOK, Fault
<1>23. ASSUME Crash PROVE TypeOK'
  BY <1>1, <1>23, NoLocalsTyped, IssuancesAssumption DEF IssuancesAssumption, TypeOK, Crash
<1>24. ASSUME Tick PROVE TypeOK'
  BY <1>1, <1>24, IssuancesAssumption DEF IssuancesAssumption, TypeOK, Tick
<1>25. ASSUME UNCHANGED vars PROVE TypeOK'
  BY <1>1, <1>25 DEF TypeOK, vars
<1>26. QED
  BY <1>1, <1>2, <1>3, <1>4, <1>5, <1>6, <1>7, <1>8, <1>9, <1>10, <1>11, <1>12, <1>13, <1>14,
     <1>15, <1>16, <1>17, <1>18, <1>19, <1>20, <1>21, <1>22, <1>23, <1>24, <1>25
  DEF Next, Continue

-----------------------------------------------------------------------------
(* The steps of the invariant, one conjunct at a time *)

(* The moves a handler makes, and the session its row follows after them. *)
MoveKind(h) ==
  LET i == req[h].i  from == req[h].from  to == req[h].to IN
  \/ /\ req[h].op = "create" /\ from = "CREATED" /\ to = "ELIGIBILITY_CHECK"
     /\ Fresh(i, from) /\ row'[i].session = None
  \/ /\ req[h].op = "create" /\ from = "ELIGIBILITY_CHECK" /\ to = "NOT_ELIGIBLE"
     /\ Fresh(i, from) /\ verdict[i] = "no" /\ row'[i].session = None
  \/ /\ req[h].op = "create" /\ from = "ELIGIBILITY_CHECK" /\ to = "OFFER_READY"
     /\ req[h].s = None /\ row[i].session = None /\ verdict[i] = "yes" /\ ~Pledged(i)
     /\ row'[i].session = i
  \/ /\ req[h].op = "create" /\ from = "ELIGIBILITY_CHECK" /\ to = "OFFER_READY"
     /\ req[h].s # None /\ row[i].session = None /\ verdict[i] = "yes"
     /\ row'[i].session = None
  \/ /\ req[h].op = "create" /\ from = "OFFER_READY" /\ to = "AWAITING_WALLET"
     /\ req[h].s = None /\ row[i].session = i /\ row'[i].session = i
  \/ /\ req[h].op = "claims" /\ from = "OFFER_READY" /\ to = "AWAITING_WALLET"
     /\ Waiting(i) /\ req[h].s \in WalletRequests /\ row'[i].session = req[h].s
  \/ /\ req[h].op = "get" /\ Told(h)
     /\ req[h].s # None /\ row[i].session = req[h].s /\ row'[i].session = req[h].s

LEMMA MoveKinds ==
  ASSUME TypeOK, HandlersStand, NEW h \in Handlers, Move(h)
  PROVE  MoveKind(h) /\ row[req[h].i].state = req[h].from
<1>. DEFINE i == req[h].i
<1>1. /\ pc[h] = "move" /\ row[i].state = req[h].from /\ row'[i].session = Patched(h)
      /\ Stands(h) /\ req[h].op \in {"create", "get", "claims"} /\ i \in Issuances
  BY RowMoves, LocalsAreTyped DEF HandlersStand
<1>2. i # None
  BY <1>1, IssuancesAssumption DEF IssuancesAssumption
<1>3. CASE req[h].op = "create"
  <2>1. CreatorStage(h)
    BY <1>1, <1>3 DEF Stands
  <2>2. req[h].to # "OFFER_READY" \/ req[h].s # None => Patched(h) = row[i].session
    BY <1>3, Patch
  <2>3. req[h].to = "OFFER_READY" /\ req[h].s = None => Patched(h) = i
    BY <1>3, Patch
  <2>4. QED
    BY <1>1, <1>3, <2>1, <2>2, <2>3 DEF CreatorStage, Moving, Logging, MoveKind, Fresh
<1>4. CASE req[h].op = "claims"
  BY <1>1, <1>4, Patch DEF Stands, ClaimantStage, Moving, Logging, MoveKind
<1>5. CASE req[h].op = "get"
  BY <1>1, <1>5, Patch DEF Stands, FollowerStage, MoveKind
<1>6. QED
  BY <1>1, <1>3, <1>4, <1>5

(* A session, once followed, is followed for good. *)
LEMMA SessionsKept ==
  ASSUME TypeOK, HandlersStand, NEW h \in Handlers, Move(h), NEW i \in Issuances,
         row[i].session # None
  PROVE  row'[i].session = row[i].session
BY MoveKinds, RowMoves DEF MoveKind, Fresh, Waiting

LEMMA RowsStep ==
  TypeOK /\ RowsHangTogether /\ IssuedIsFollowed /\ HandlersStand /\ [Next]_vars => RowsHangTogether'
<1>1. SUFFICES ASSUME TypeOK, RowsHangTogether, IssuedIsFollowed, HandlersStand, [Next]_vars
               PROVE RowsHangTogether'
  OBVIOUS
<1>. USE DEF database, engine, local
<1>2. ASSUME NEW h \in Handlers, CreateTransaction(h) PROVE RowsHangTogether'
  BY <1>1, <1>2 DEF TypeOK, CreateTransaction, RowsHangTogether, Unfollowed, EngineOutcomes
<1>3. ASSUME NEW h \in Handlers, Move(h) PROVE RowsHangTogether'
  <2>. DEFINE i == req[h].i
  <2>1. /\ MoveKind(h) /\ row'[i].state = req[h].to
        /\ \A j \in Issuances \ {i} : row'[j] = row[j]
        /\ UNCHANGED <<verdict, session>>
    <3>1. MoveKind(h)
      BY <1>1, <1>3, MoveKinds
    <3>2. row'[i].state = req[h].to /\ \A j \in Issuances \ {i} : row'[j] = row[j]
      BY <1>1, <1>3, RowMoves
    <3>3. QED
      BY <1>3, <3>1, <3>2 DEF Move
  <2>2. i \in Issuances /\ i # None /\ \A s \in WalletRequests : s # None
    BY <1>1, LocalsAreTyped, IssuancesAssumption DEF IssuancesAssumption
  <2>3. /\ row'[i].session = None => row'[i].state \in Unfollowed
        /\ row'[i].session # None => verdict'[i] = "yes" /\ row'[i].state \in Followed
        /\ row'[i].state # "ABSENT"
        /\ row'[i].state = "NOT_ELIGIBLE" => verdict'[i] = "no" /\ session'[i] = "absent"
        /\ row'[i].state \in EngineOutcomes => session'[row'[i].session] = row'[i].state
    BY <1>1, <2>1, <2>2
    DEF MoveKind, Fresh, Waiting, Told, RowsHangTogether, Unfollowed, Followed, EngineOutcomes
  <2>4. QED
    BY <1>1, <2>1, <2>3 DEF RowsHangTogether
<1>4. ASSUME NEW h \in Handlers, NotEligible(h) \/ NarrowRefuses(h) \/ Eligible(h) \/ HoldForWallet(h)
      PROVE RowsHangTogether'
  <2>. DEFINE i == req[h].i
  <2>1. /\ pc[h] = "decide" /\ UNCHANGED <<row, session>>
        /\ \E v \in {"yes", "no"} : verdict' = [verdict EXCEPT ![i] = v]
    BY <1>4 DEF NotEligible, NarrowRefuses, Eligible, HoldForWallet
  <2>2. Fresh(i, "ELIGIBILITY_CHECK") /\ i \in Issuances
    BY <1>1, <2>1, LocalsAreTyped
    DEF HandlersStand, Stands, CreatorStage, ClaimantStage, FollowerStage, Moving, Logging
  <2>3. \A j \in Issuances : j # i => verdict'[j] = verdict[j]
    BY <1>1, <2>1, <2>2 DEF TypeOK
  <2>4. QED
    BY <1>1, <2>1, <2>2, <2>3 DEF RowsHangTogether, Fresh, EngineOutcomes
<1>5. ASSUME NEW h \in Handlers, CreateCredentialOffer(h) PROVE RowsHangTogether'
  <2>. DEFINE i == req[h].i
  <2>1. pc[h] = "offer" /\ UNCHANGED <<row, verdict>>
        /\ (session' = session \/ session' = [session EXCEPT ![i] = "active"])
    BY <1>5 DEF CreateCredentialOffer
  <2>2. Fresh(i, "ELIGIBILITY_CHECK") /\ i \in Issuances
    BY <1>1, <2>1, LocalsAreTyped
    DEF HandlersStand, Stands, CreatorStage, ClaimantStage, FollowerStage, Moving, Logging
  <2>3. \A s \in Sessions : s # i => session'[s] = session[s]
    BY <1>1, <2>1 DEF TypeOK
  <2>4. \A j \in Issuances : j \in Sessions /\ row[j].session \in Sessions \cup {None}
    BY <1>1 DEF TypeOK, Rows, Sessions
  <2>5. QED
    BY <1>1, <2>1, <2>2, <2>3, <2>4
    DEF RowsHangTogether, Fresh, EngineOutcomes, Unfollowed
<1>6. ASSUME NEW s \in Sessions, Collect(s) \/ SessionFails(s) PROVE RowsHangTogether'
  <2>1. UNCHANGED <<row, verdict>> /\ session[s] = "active"
        /\ \A t \in Sessions : t # s => session'[t] = session[t]
    BY <1>1, <1>6 DEF TypeOK, Collect, SessionFails
  <2>2. \A j \in Issuances : j \in Sessions /\ row[j].session \in Sessions \cup {None}
    BY <1>1 DEF TypeOK, Rows, Sessions
  <2>3. QED
    BY <1>1, <2>1, <2>2 DEF RowsHangTogether, EngineOutcomes, Unfollowed
<1>7. ASSUME UNCHANGED <<row, verdict, session>> PROVE RowsHangTogether'
  BY <1>1, <1>7 DEF RowsHangTogether
<1>8. ASSUME NEW h \in Handlers,
             \/ AskForClaims(h) \/ MoveRefused(h) \/ AppendTransition(h) \/ Prepare(h)
             \/ AuditRecord(h) \/ TakeClaims(h) \/ AnswerClaims(h)
             \/ (\E i \in Issuances : Get(h, i)) \/ Poll(h) \/ RecordIssued(h)
             \/ EnqueueCallback(h) \/ Fault(h)
      PROVE  UNCHANGED <<row, verdict, session>>
  BY <1>8 DEF AskForClaims, MoveRefused, AppendTransition, Prepare, AuditRecord, TakeClaims,
     AnswerClaims, Get, Poll, RecordIssued, EnqueueCallback, Fault
<1>9. Crash \/ Tick \/ UNCHANGED vars => UNCHANGED <<row, verdict, session>>
  BY DEF Crash, Tick, vars
<1>10. QED
  BY <1>1, <1>2, <1>3, <1>4, <1>5, <1>6, <1>7, <1>8, <1>9 DEF Next, Continue

LEMMA IssuedStep ==
  TypeOK /\ RowsHangTogether /\ IssuedIsFollowed /\ HandlersStand /\ [Next]_vars => IssuedIsFollowed'
<1>1. SUFFICES ASSUME TypeOK, RowsHangTogether, IssuedIsFollowed, HandlersStand, [Next]_vars
               PROVE IssuedIsFollowed'
  OBVIOUS
<1>. USE DEF database, engine, local
<1>a. /\ None \notin Issuances /\ \A i \in offered : i \in Issuances
      /\ \A r \in WalletRequests : r # None /\ claims[r] \in Issuances \cup {None}
      /\ \A s \in Sessions : s # None
  BY <1>1, IssuancesAssumption DEF IssuancesAssumption, TypeOK, Sessions
<1>2. ASSUME NEW h \in Handlers, CreateTransaction(h) PROVE IssuedIsFollowed'
  <2>1. PICK i \in Issuances : /\ row[i].state = "ABSENT"
                               /\ \A j \in Issuances \ {i} : row'[j] = row[j]
    BY <1>1, <1>2 DEF TypeOK, CreateTransaction
  <2>2. row[i].session = None /\ UNCHANGED <<session, claims, offered>>
    BY <1>1, <1>2, <2>1 DEF CreateTransaction, RowsHangTogether, Followed, EngineOutcomes
  <2>3. QED
    BY <1>1, <1>a, <2>1, <2>2 DEF IssuedIsFollowed
<1>3. ASSUME NEW h \in Handlers, Move(h) PROVE IssuedIsFollowed'
  <2>1. \A i \in Issuances : row[i].session # None => row'[i].session = row[i].session
    BY <1>1, <1>3, SessionsKept
  <2>2. UNCHANGED <<session, claims, offered>>
    BY <1>3 DEF Move
  <2>3. QED
    BY <1>1, <1>a, <2>1, <2>2 DEF IssuedIsFollowed
<1>4. ASSUME NEW h \in Handlers, AuditRecord(h) PROVE IssuedIsFollowed'
  <2>1. pc[h] = "audit" /\ UNCHANGED <<row, session, claims>>
        /\ offered' \subseteq offered \cup {req[h].i}
        /\ (offered' # offered => req[h].op = "create" /\ req[h].to = "AWAITING_WALLET")
    BY <1>4 DEF AuditRecord
  <2>2. req[h].op = "create" /\ req[h].to = "AWAITING_WALLET" => row[req[h].i].session = req[h].i
    BY <1>1, <2>1 DEF HandlersStand, Stands, CreatorStage, Moving, Logging
  <2>3. QED
    BY <1>1, <2>1, <2>2 DEF IssuedIsFollowed
<1>5. ASSUME NEW h \in Handlers, AnswerClaims(h) PROVE IssuedIsFollowed'
  <2>1. req[h].s \in WalletRequests /\ row[req[h].i].session = req[h].s
    BY <1>1, <1>5, LocalsAreTyped
    DEF AnswerClaims, HandlersStand, Stands, CreatorStage, ClaimantStage, FollowerStage, Moving, Logging
  <2>2. \A r \in WalletRequests : claims'[r] = IF r = req[h].s THEN req[h].i ELSE claims[r]
    BY <1>1, <1>5, <2>1 DEF TypeOK, AnswerClaims
  <2>3. QED
    BY <1>1, <1>5, <2>1, <2>2 DEF AnswerClaims, IssuedIsFollowed
<1>6. ASSUME NEW s \in Sessions, Collect(s) PROVE IssuedIsFollowed'
  <2>1. \A t \in Sessions : t # s => session'[t] = session[t]
    BY <1>1, <1>6 DEF TypeOK, Collect
  <2>2. \E i \in Issuances : row[i].session = s
    BY <1>1, <1>6, <1>a DEF Collect, IssuedIsFollowed
  <2>3. QED
    BY <1>1, <1>6, <2>1, <2>2 DEF Collect, IssuedIsFollowed
<1>7. ASSUME NEW s \in Sessions, SessionFails(s) PROVE IssuedIsFollowed'
  <2>1. \A t \in Sessions : session'[t] = "ISSUED" => session[t] = "ISSUED"
    BY <1>1, <1>7, IssuancesAssumption DEF IssuancesAssumption, TypeOK, SessionFails
  <2>2. QED
    BY <1>1, <1>7, <2>1 DEF SessionFails, IssuedIsFollowed
<1>8. ASSUME NEW h \in Handlers, CreateCredentialOffer(h) PROVE IssuedIsFollowed'
  <2>1. \A t \in Sessions : session'[t] = "ISSUED" => session[t] = "ISSUED"
    BY <1>1, <1>8 DEF TypeOK, CreateCredentialOffer
  <2>2. QED
    BY <1>1, <1>8, <2>1 DEF CreateCredentialOffer, IssuedIsFollowed
<1>9. ASSUME UNCHANGED <<row, session, claims, offered>> PROVE IssuedIsFollowed'
  BY <1>1, <1>9 DEF IssuedIsFollowed
<1>10. ASSUME NEW h \in Handlers,
             \/ AskForClaims(h) \/ MoveRefused(h) \/ AppendTransition(h) \/ Prepare(h)
             \/ NotEligible(h) \/ NarrowRefuses(h) \/ Eligible(h) \/ HoldForWallet(h)
             \/ TakeClaims(h)
             \/ (\E i \in Issuances : Get(h, i)) \/ Poll(h) \/ RecordIssued(h)
             \/ EnqueueCallback(h) \/ Fault(h)
       PROVE  UNCHANGED <<row, session, claims, offered>>
  BY <1>10 DEF AskForClaims, MoveRefused, AppendTransition, Prepare, NotEligible, NarrowRefuses,
     Eligible, HoldForWallet, TakeClaims, Get, Poll, RecordIssued, EnqueueCallback, Fault
<1>11. Crash \/ Tick \/ UNCHANGED vars => UNCHANGED <<row, session, claims, offered>>
  BY DEF Crash, Tick, vars
<1>12. QED
  BY <1>1, <1>2, <1>3, <1>4, <1>5, <1>6, <1>7, <1>8, <1>9, <1>10, <1>11 DEF Next, Continue

(* The label tells the operation, where only one has it. *)
LEMMA OpOf ==
  ASSUME TypeOK, HandlersStand, NEW h \in Handlers
  PROVE  /\ pc[h] \in {"prepare", "decide", "offer"} => req[h].op = "create"
         /\ pc[h] \in {"take", "answer"} => req[h].op = "claims"
         /\ pc[h] \in {"poll", "record", "enqueue"} => req[h].op = "get"
BY LocalsAreTyped
DEF HandlersStand, Stands, CreatorStage, ClaimantStage, FollowerStage, Moving, Logging

(* What a logged move of each operation leads to. *)
LEMMA LogLeads ==
  ASSUME TypeOK, NEW h \in Handlers, AppendTransition(h)
  PROVE  /\ req[h].op = "claims" => pc'[h] = "answer"
         /\ req[h].op = "create" =>
              \/ req[h].to = "CREATED" /\ pc'[h] = "prepare"
              \/ req[h].to = "ELIGIBILITY_CHECK" /\ pc'[h] = "decide"
              \/ /\ req[h].to = "OFFER_READY" /\ req[h].s = None
                 /\ pc'[h] = "move" /\ req'[h].to = "AWAITING_WALLET"
              \/ req[h].to = "OFFER_READY" /\ req[h].s # None /\ pc'[h] = "audit"
              \/ req[h].to \in {"NOT_ELIGIBLE", "AWAITING_WALLET"} /\ pc'[h] = "audit"
         /\ req[h].op = "get" =>
              \/ req[h].to = "ELIGIBILITY_CHECK" /\ pc'[h] = "move" /\ req'[h].to = "ISSUING"
              \/ req[h].to = "ISSUING" /\ pc'[h] = "move" /\ req'[h].to = "ISSUED"
              \/ req[h].to = "ISSUED" /\ pc'[h] = "record"
              \/ req[h].to \in TerminalStates \ {"ISSUED"} /\ pc'[h] = "audit"
<1>. DEFINE to == req[h].to
<1>1. AfterLog(h)
  BY DEF AppendTransition
<1>2. /\ to \in IssuanceStates
      /\ {"AWAITING_WALLET", "ISSUING", "ISSUED"} \subseteq IssuanceStates
  BY LocalsAreTyped DEF IssuanceStates, NonTerminalStates, TerminalStates, EngineOutcomes
<1>3. \A next \in {"AWAITING_WALLET", "ISSUING", "ISSUED"} :
        MoveTo(h, to, next) => pc'[h] = "move" /\ req'[h].to = next
  BY <1>2, Moves
<1>4. \A label \in {"prepare", "decide", "audit", "answer", "record"} :
        Goto(h, label) => pc'[h] = label
  BY Went DEF Labels
<1>5. QED
  BY <1>1, <1>3, <1>4, StatesAreNamed DEF AfterLog

-----------------------------------------------------------------------------
(* What a step may change *)

(* The variables of the handlers change for one of them only. *)
LEMMA ActorAlone ==
  ASSUME TypeOK, NEW h \in Handlers,
         \/ CreateTransaction(h) \/ AskForClaims(h) \/ Continue(h) \/ Fault(h)
         \/ \E i \in Issuances : Get(h, i)
  PROVE  Alone(h)
<1>. DEFINE goes == /\ \E label \in Labels : pc' = [pc EXCEPT ![h] = label]
                    /\ \E l : req' = [req EXCEPT ![h] = l]
<1>1. goes => Alone(h)
  BY DEF TypeOK, Alone
<1>2. UNCHANGED req => \E l : req' = [req EXCEPT ![h] = l]
  <2>1. req = [req EXCEPT ![h] = req[h]]
    BY DEF TypeOK
  <2>2. QED
    BY <2>1
<1>3. (\E label \in Labels : Goto(h, label)) /\ (\E l : req' = [req EXCEPT ![h] = l]) => goes
  BY DEF Goto
<1>4. Return(h) => goes
  BY DEF Return, Goto, Labels
<1>5. \A from, to : MoveTo(h, from, to) => goes
  BY DEF MoveTo, Goto, Labels
<1>6. AppendTransition(h) => Alone(h)
  BY LogGoesOn
<1>7. CreateTransaction(h) \/ AskForClaims(h) \/ (\E i \in Issuances : Get(h, i)) => goes
  BY <1>3 DEF CreateTransaction, AskForClaims, Get, Labels
<1>8. MoveRefused(h) \/ Prepare(h) \/ NotEligible(h) \/ NarrowRefuses(h)
        \/ CreateCredentialOffer(h) \/ AnswerClaims(h) \/ Poll(h)
        \/ EnqueueCallback(h) \/ Fault(h) \/ HoldForWallet(h) => goes
  BY <1>4, <1>5 DEF MoveRefused, Prepare, NotEligible, NarrowRefuses, CreateCredentialOffer,
     AnswerClaims, Poll, EnqueueCallback, Fault, HoldForWallet
<1>9. Move(h) \/ Eligible(h) => goes
  BY <1>2, <1>3 DEF Move, Eligible, Labels
<1>10. AuditRecord(h) \/ RecordIssued(h) => goes
  BY <1>2, <1>3, <1>4 DEF AuditRecord, RecordIssued, Labels
<1>11. TakeClaims(h) => goes
  BY <1>3, <1>4 DEF TakeClaims, Labels
<1>12. QED
  BY <1>1, <1>6, <1>7, <1>8, <1>9, <1>10, <1>11 DEF Continue

(* A row changes by its creation or by a move. *)
LEMMA RowsKept ==
  ASSUME TypeOK, [Next]_vars, NEW i \in Issuances, row'[i] # row[i]
  PROVE  \/ /\ row[i].state = "ABSENT"
            /\ row'[i].state = "CREATED" /\ row'[i].session = None
            /\ \E h \in Handlers : CreateTransaction(h) /\ req'[h].i = i
         \/ \E h \in Handlers : Move(h) /\ req[h].i = i
<1>1. ASSUME NEW h \in Handlers, CreateTransaction(h)
      PROVE  /\ row[i].state = "ABSENT"
             /\ row'[i].state = "CREATED" /\ row'[i].session = None
             /\ req'[h].i = i
  <2>1. PICK j \in Issuances, r \in WalletRequests \cup {None}, callback \in Callbacks :
         /\ row[j].state = "ABSENT"
         /\ row' = [row EXCEPT ![j] = [state |-> "CREATED", session |-> None,
                                       callback |-> callback, expiresAt |-> now + Lifetime]]
         /\ req' = [req EXCEPT ![h] = [op |-> "create", i |-> j, s |-> r,
                                       from |-> "CREATED", to |-> "CREATED"]]
    BY <1>1 DEF CreateTransaction
  <2>2. j = i
    BY <2>1 DEF TypeOK
  <2>3. QED
    BY <2>1, <2>2 DEF TypeOK
<1>2. ASSUME NEW h \in Handlers, Move(h) PROVE req[h].i = i
  BY <1>2, RowMoves
<1>3. ASSUME NEW h \in Handlers,
             \/ AskForClaims(h) \/ MoveRefused(h) \/ AppendTransition(h) \/ Prepare(h)
             \/ NotEligible(h) \/ NarrowRefuses(h) \/ Eligible(h) \/ HoldForWallet(h)
             \/ CreateCredentialOffer(h) \/ AuditRecord(h) \/ TakeClaims(h) \/ AnswerClaims(h)
             \/ (\E j \in Issuances : Get(h, j)) \/ Poll(h) \/ RecordIssued(h)
             \/ EnqueueCallback(h) \/ Fault(h)
      PROVE  row' = row
  BY <1>3 DEF AskForClaims, MoveRefused, AppendTransition, Prepare, NotEligible, NarrowRefuses,
     Eligible, HoldForWallet, CreateCredentialOffer, AuditRecord, TakeClaims, AnswerClaims, Get,
     Poll, RecordIssued, EnqueueCallback, Fault, database
<1>4. ASSUME (\E s \in Sessions : Collect(s) \/ SessionFails(s)) \/ Crash \/ Tick \/ UNCHANGED vars
      PROVE  row' = row
  BY <1>4 DEF Collect, SessionFails, Crash, Tick, vars, database
<1>5. QED
  BY <1>1, <1>2, <1>3, <1>4 DEF Next, Continue

(* A verdict changes by its decision. *)
LEMMA VerdictsKept ==
  ASSUME TypeOK, HandlersStand, [Next]_vars, NEW i \in Issuances, verdict'[i] # verdict[i]
  PROVE  \E h \in Handlers : /\ pc[h] = "decide" /\ pc'[h] # "decide" /\ req[h].i = i
                             /\ Creates(h) /\ Fresh(i, "ELIGIBILITY_CHECK")
<1>1. ASSUME NEW h \in Handlers,
             NotEligible(h) \/ NarrowRefuses(h) \/ Eligible(h) \/ HoldForWallet(h)
      PROVE  /\ pc[h] = "decide" /\ pc'[h] # "decide" /\ req[h].i = i
             /\ Creates(h) /\ Fresh(i, "ELIGIBILITY_CHECK")
  <2>1. /\ pc[h] = "decide"
        /\ \E v \in {"yes", "no"} : verdict' = [verdict EXCEPT ![req[h].i] = v]
    BY <1>1 DEF NotEligible, NarrowRefuses, Eligible, HoldForWallet
  <2>2. req[h].i = i
    BY <2>1 DEF TypeOK
  <2>3. pc'[h] \in {"move", "idle", "offer"}
    BY <1>1 DEF TypeOK, NotEligible, NarrowRefuses, Eligible, HoldForWallet, MoveTo, Return, Goto
  <2>4. Creates(h) /\ Fresh(i, "ELIGIBILITY_CHECK")
    BY <2>1, <2>2, OpOf DEF HandlersStand, Stands, CreatorStage, Moving, Logging, Creates
  <2>5. QED
    BY <2>1, <2>2, <2>3, <2>4
<1>2. ASSUME NEW h \in Handlers,
             \/ CreateTransaction(h) \/ AskForClaims(h) \/ Move(h) \/ MoveRefused(h)
             \/ AppendTransition(h) \/ Prepare(h)
             \/ CreateCredentialOffer(h) \/ AuditRecord(h) \/ TakeClaims(h) \/ AnswerClaims(h)
             \/ (\E j \in Issuances : Get(h, j)) \/ Poll(h) \/ RecordIssued(h)
             \/ EnqueueCallback(h) \/ Fault(h)
      PROVE  verdict' = verdict
  BY <1>2 DEF CreateTransaction, AskForClaims, Move, MoveRefused, AppendTransition, Prepare,
     CreateCredentialOffer, AuditRecord, TakeClaims, AnswerClaims, Get,
     Poll, RecordIssued, EnqueueCallback, Fault
<1>3. ASSUME (\E s \in Sessions : Collect(s) \/ SessionFails(s)) \/ Crash \/ Tick \/ UNCHANGED vars
      PROVE  verdict' = verdict
  BY <1>3 DEF Collect, SessionFails, Crash, Tick, vars
<1>4. QED
  BY <1>1, <1>2, <1>3 DEF Next, Continue

(* A session that has ended stays as it is, and one that is absent waits    *)
(* for its offer.                                                           *)
LEMMA EndedStays ==
  ASSUME TypeOK, HandlersStand, [Next]_vars, NEW s \in Sessions, session'[s] # session[s]
  PROVE  \/ session[s] = "active"
         \/ /\ session[s] = "absent"
            /\ \E h \in Handlers : /\ pc[h] = "offer" /\ pc'[h] # "offer"
                                   /\ Creates(h) /\ req[h].i = s
<1>1. ASSUME NEW h \in Handlers, CreateCredentialOffer(h)
      PROVE  /\ session[s] = "absent"
             /\ pc[h] = "offer" /\ pc'[h] # "offer" /\ Creates(h) /\ req[h].i = s
  <2>1. pc[h] = "offer" /\ session' = [session EXCEPT ![req[h].i] = "active"]
    BY <1>1 DEF CreateCredentialOffer
  <2>2. req[h].i = s
    BY <2>1 DEF TypeOK
  <2>3. pc'[h] \in {"move", "idle"}
    BY <1>1 DEF TypeOK, CreateCredentialOffer, MoveTo, Return, Goto
  <2>4. Creates(h) /\ Fresh(s, "ELIGIBILITY_CHECK")
    BY <2>1, <2>2, OpOf DEF HandlersStand, Stands, CreatorStage, Moving, Logging, Creates
  <2>5. QED
    BY <2>1, <2>2, <2>3, <2>4 DEF Fresh
<1>2. ASSUME NEW t \in Sessions, Collect(t) \/ SessionFails(t)
      PROVE  session[s] = "active"
  BY <1>2 DEF TypeOK, Collect, SessionFails
<1>3. ASSUME NEW h \in Handlers,
             \/ CreateTransaction(h) \/ AskForClaims(h) \/ Move(h) \/ MoveRefused(h)
             \/ AppendTransition(h) \/ Prepare(h)
             \/ NotEligible(h) \/ NarrowRefuses(h) \/ Eligible(h) \/ HoldForWallet(h)
             \/ AuditRecord(h) \/ TakeClaims(h) \/ AnswerClaims(h)
             \/ (\E j \in Issuances : Get(h, j)) \/ Poll(h) \/ RecordIssued(h)
             \/ EnqueueCallback(h) \/ Fault(h)
      PROVE  session' = session
  BY <1>3 DEF CreateTransaction, AskForClaims, Move, MoveRefused, AppendTransition, Prepare,
     NotEligible, NarrowRefuses, Eligible, HoldForWallet, AuditRecord, TakeClaims, AnswerClaims,
     Get, Poll, RecordIssued, EnqueueCallback, Fault, engine
<1>4. ASSUME Crash \/ Tick \/ UNCHANGED vars PROVE session' = session
  BY <1>4 DEF Crash, Tick, vars, engine
<1>5. QED
  BY <1>1, <1>2, <1>3, <1>4 DEF Next, Continue

(* Only take() takes; a claim that was taken stays with its taker. *)
LEMMA TakesKept ==
  ASSUME TypeOK, HandlersStand, [Next]_vars, NEW g \in Handlers, Takes(g)', ~TakeClaims(g)
  PROVE  Takes(g) /\ req'[g] = req[g] /\ pc'[g] = pc[g]
<1>1. ASSUME NEW h \in Handlers, Alone(h), pc'[h] # "move" \/ req'[h].op # "claims"
      PROVE  Takes(g) /\ req'[g] = req[g] /\ pc'[g] = pc[g]
  BY <1>1 DEF Takes, Alone
<1>2. ASSUME NEW h \in Handlers,
             \/ CreateTransaction(h) \/ AskForClaims(h) \/ Continue(h) \/ Fault(h)
             \/ \E i \in Issuances : Get(h, i)
      PROVE  Alone(h)
  BY <1>2, ActorAlone
<1>3. ASSUME NEW h \in Handlers,
             \/ CreateTransaction(h) \/ AskForClaims(h) \/ (\E i \in Issuances : Get(h, i))
             \/ Move(h) \/ Eligible(h)
      PROVE  pc'[h] # "move"
  BY <1>3 DEF TypeOK, CreateTransaction, AskForClaims, Get, Move, Eligible, Goto
<1>4. ASSUME NEW h \in Handlers,
             \/ MoveRefused(h) \/ NarrowRefuses(h) \/ AnswerClaims(h) \/ EnqueueCallback(h)
             \/ AuditRecord(h) \/ RecordIssued(h) \/ Fault(h)
      PROVE  pc'[h] # "move"
  BY <1>4 DEF TypeOK, MoveRefused, NarrowRefuses, AnswerClaims, EnqueueCallback, AuditRecord,
     RecordIssued, Fault, Return, Goto
<1>5. ASSUME NEW h \in Handlers, Prepare(h) \/ NotEligible(h) \/ HoldForWallet(h)
             \/ CreateCredentialOffer(h) \/ Poll(h)
      PROVE  pc'[h] # "move" \/ req'[h].op # "claims"
  <2>1. pc[h] \in {"prepare", "decide", "offer", "poll"}
    BY <1>5 DEF Prepare, NotEligible, HoldForWallet, CreateCredentialOffer, Poll
  <2>2. req[h].op # "claims"
    BY <2>1, OpOf
  <2>3. \/ Return(h)
        \/ \E from \in IssuanceStates, to \in IssuanceStates : MoveTo(h, from, to)
    BY <1>5, StatesAreNamed, LocalsAreTyped
    DEF Prepare, NotEligible, HoldForWallet, CreateCredentialOffer, Poll
  <2>4. QED
    BY <2>2, <2>3, Moves, Returned
<1>6. ASSUME NEW h \in Handlers, AppendTransition(h)
      PROVE  pc'[h] # "move" \/ req'[h].op # "claims"
  BY <1>6, LogLeads, LogGoesOn
<1>7. ASSUME NEW h \in Handlers, TakeClaims(h)
      PROVE  Takes(g) /\ req'[g] = req[g] /\ pc'[g] = pc[g]
  BY <1>2, <1>7 DEF Alone, Takes, Continue
<1>8. ASSUME (\E s \in Sessions : Collect(s) \/ SessionFails(s)) \/ Tick \/ UNCHANGED vars
      PROVE  Takes(g) /\ req'[g] = req[g] /\ pc'[g] = pc[g]
  BY <1>8 DEF Collect, SessionFails, Tick, vars, local, Takes
<1>9. ~Crash
  BY DEF Crash, Takes
<1>10. QED
  BY <1>1, <1>2, <1>3, <1>4, <1>5, <1>6, <1>7, <1>8, <1>9 DEF Next, Continue

(* What is held was held before, unless a creation has just put it there. *)
LEMMA HeldKept ==
  ASSUME TypeOK, [Next]_vars, NEW r \in WalletRequests
  PROVE  \/ held'[r] \in {held[r], None}
         \/ \E h \in Handlers : /\ HoldForWallet(h) /\ req[h].s = r /\ held'[r] = req[h].i
<1>1. ASSUME NEW h \in Handlers, HoldForWallet(h)
      PROVE  held'[r] \in {held[r], None} \/ (req[h].s = r /\ held'[r] = req[h].i)
  BY <1>1, SweptTyped DEF HoldForWallet
<1>2. ASSUME NEW h \in Handlers, TakeClaims(h) PROVE held'[r] \in {held[r], None}
  <2>1. held' = Swept \/ held' = [Swept EXCEPT ![req[h].s] = None]
    BY <1>2 DEF TakeClaims
  <2>2. QED
    BY <2>1, SweptTyped
<1>3. ASSUME NEW h \in Handlers,
             \/ CreateTransaction(h) \/ AskForClaims(h) \/ Move(h) \/ MoveRefused(h)
             \/ AppendTransition(h) \/ Prepare(h) \/ CreateCredentialOffer(h)
             \/ NotEligible(h) \/ NarrowRefuses(h) \/ Eligible(h)
             \/ AuditRecord(h) \/ AnswerClaims(h)
             \/ (\E j \in Issuances : Get(h, j)) \/ Poll(h) \/ RecordIssued(h)
             \/ EnqueueCallback(h) \/ Fault(h)
      PROVE  held' = held
  BY <1>3 DEF CreateTransaction, AskForClaims, Move, MoveRefused, AppendTransition, Prepare,
     CreateCredentialOffer, NotEligible, NarrowRefuses, Eligible, AuditRecord, AnswerClaims,
     Get, Poll, RecordIssued, EnqueueCallback, Fault
<1>4. ASSUME (\E s \in Sessions : Collect(s) \/ SessionFails(s)) \/ Tick \/ UNCHANGED vars
      PROVE  held' = held
  BY <1>4 DEF Collect, SessionFails, Tick, vars
<1>5. ASSUME Crash PROVE held'[r] = None
  BY <1>5 DEF Crash
<1>6. QED
  BY <1>1, <1>2, <1>3, <1>4, <1>5 DEF Next, Continue

(* A taker has what was held for its request. *)
LEMMA Taken ==
  ASSUME TypeOK, HandlersStand, NEW h \in Handlers, TakeClaims(h), Takes(h)'
  PROVE  /\ req'[h].op = "claims" /\ req'[h].s = req[h].s /\ req'[h].from = "OFFER_READY"
         /\ req'[h].to = "AWAITING_WALLET"
         /\ req[h].s \in WalletRequests /\ req'[h].i \in Issuances
         /\ held[req[h].s] = req'[h].i /\ held'[req[h].s] = None
<1>. DEFINE i == Swept[req[h].s]
            taken == [req[h] EXCEPT !.i = i, !.from = "OFFER_READY", !.to = "AWAITING_WALLET"]
<1>1. req[h].s \in WalletRequests /\ req[h].op = "claims"
  BY OpOf, LocalsAreTyped DEF TakeClaims, HandlersStand, Stands, ClaimantStage, Moving, Logging
<1>2. i # None
  BY Returned DEF TakeClaims, Takes
<1>3. /\ held' = [Swept EXCEPT ![req[h].s] = None]
      /\ req' = [req EXCEPT ![h] = taken]
  BY <1>2 DEF TakeClaims
<1>4. req'[h] = taken
  BY <1>3 DEF TypeOK
<1>5. /\ taken.i = i /\ taken.from = "OFFER_READY" /\ taken.to = "AWAITING_WALLET"
      /\ taken.op = req[h].op /\ taken.s = req[h].s
  BY LocalsAreTyped DEF Locals
<1>6. i = held[req[h].s] /\ i \in Issuances /\ held'[req[h].s] = None
  BY <1>1, <1>2, <1>3, SweptTyped
<1>7. QED
  BY <1>1, <1>4, <1>5, <1>6

(* A transaction becomes pledged when its creation holds its values. *)
LEMMA PledgesKept ==
  ASSUME TypeOK, HandlersStand, [Next]_vars, NEW i \in Issuances, Pledged(i)'
  PROVE  \/ Pledged(i)
         \/ \E h \in Handlers : /\ HoldForWallet(h) /\ req[h].i = i
                                /\ Creates(h) /\ pc'[h] # pc[h]
<1>1. ASSUME NEW r \in WalletRequests, held'[r] = i
      PROVE  \/ Pledged(i)
             \/ \E h \in Handlers : /\ HoldForWallet(h) /\ req[h].i = i
                                    /\ Creates(h) /\ pc'[h] # pc[h]
  <2>1. held[r] = i \/ \E h \in Handlers : HoldForWallet(h) /\ req[h].i = i
    BY <1>1, HeldKept, IssuancesAssumption DEF IssuancesAssumption
  <2>2. ASSUME NEW h \in Handlers, HoldForWallet(h) PROVE Creates(h) /\ pc'[h] # pc[h]
    <3>1. pc[h] = "decide" /\ pc'[h] \in {"move", "idle"}
      BY <2>2 DEF TypeOK, HoldForWallet, MoveTo, Return, Goto
    <3>2. QED
      BY <3>1, OpOf DEF Creates
  <2>3. QED
    BY <2>1, <2>2 DEF Pledged
<1>2. ASSUME NEW h \in Handlers, Takes(h)', req'[h].i = i PROVE Pledged(i)
  BY <1>2, TakesKept, Taken DEF Pledged
<1>3. QED
  BY <1>1, <1>2 DEF Pledged

-----------------------------------------------------------------------------

(* Values wait until they are taken. *)
LEMMA StillWaiting ==
  ASSUME TypeOK, HandlersStand, HeldOnce, [Next]_vars, NEW i \in Issuances,
         Waiting(i), Pledged(i), \A h \in Handlers : ~(Move(h) /\ Takes(h) /\ req[h].i = i)
  PROVE  Waiting(i)'
<1>1. verdict'[i] = "yes"
  BY VerdictsKept DEF Waiting, Fresh
<1>2. CASE row'[i] = row[i]
  BY <1>1, <1>2 DEF Waiting
<1>3. CASE row'[i] # row[i]
  <2>1. PICK h \in Handlers : Move(h) /\ req[h].i = i
    BY <1>3, RowsKept DEF Waiting
  <2>2. MoveKind(h) /\ row'[i].state = req[h].to /\ pc[h] = "move" /\ i # None
    BY <2>1, MoveKinds, RowMoves, IssuancesAssumption DEF IssuancesAssumption
  <2>3. row'[i].state = "OFFER_READY" /\ row'[i].session = None
    BY <2>1, <2>2 DEF MoveKind, Fresh, Waiting, Takes
  <2>4. QED
    BY <1>1, <2>3 DEF Waiting
<1>4. QED
  BY <1>2, <1>3

(* Who holds the values of a transaction for its wallet. *)
LEMMA Holds ==
  ASSUME TypeOK, HandlersStand, NEW h \in Handlers, HoldForWallet(h)
  PROVE  /\ pc[h] = "decide" /\ Creates(h) /\ Fresh(req[h].i, "ELIGIBILITY_CHECK")
         /\ row' = row /\ verdict'[req[h].i] = "yes"
<1>1. pc[h] = "decide" /\ row' = row /\ verdict' = [verdict EXCEPT ![req[h].i] = "yes"]
  BY DEF HoldForWallet, database
<1>2. Creates(h) /\ Fresh(req[h].i, "ELIGIBILITY_CHECK")
  BY <1>1, OpOf DEF HandlersStand, Stands, CreatorStage, Moving, Logging, Creates
<1>3. QED
  BY <1>1, <1>2, LocalsAreTyped DEF TypeOK

LEMMA HeldStep ==
  TypeOK /\ HandlersStand /\ HeldOnce /\ OneEach /\ [Next]_vars => HeldOnce'
<1>1. SUFFICES ASSUME TypeOK, HandlersStand, HeldOnce, OneEach, [Next]_vars PROVE HeldOnce'
  OBVIOUS
<1>2. None \notin Issuances /\ \A r \in WalletRequests : held[r] \in Issuances \cup {None}
  BY <1>1, IssuancesAssumption DEF IssuancesAssumption, TypeOK
<1>3. ASSUME NEW r \in WalletRequests, held'[r] # None PROVE Waiting(held[r])'
  <2>1. ASSUME NEW i \in Issuances, i = held[r], i = held'[r] PROVE Waiting(held[r])'
    <3>1. \A h \in Handlers : ~(Move(h) /\ Takes(h) /\ req[h].i = i)
      BY <1>1, <2>1 DEF HeldOnce
    <3>2. Waiting(i) /\ Pledged(i)
      BY <1>1, <1>3, <2>1 DEF HeldOnce, Pledged
    <3>3. Waiting(i)'
      BY <1>1, <3>1, <3>2, StillWaiting
    <3>4. QED
      BY <2>1, <3>3 DEF Waiting
  <2>2. ASSUME NEW h \in Handlers, HoldForWallet(h), held'[r] = req[h].i
        PROVE  Waiting(held[r])'
    BY <1>1, <2>2, Holds DEF Fresh, Waiting
  <2>3. QED
    BY <1>1, <1>2, <1>3, <2>1, <2>2, HeldKept
<1>4. ASSUME NEW r \in WalletRequests, NEW q \in WalletRequests,
             held'[r] # None, held'[r] = held'[q]
      PROVE  r = q
  <2>1. CASE held[r] = held'[r] /\ held[q] = held'[q]
    BY <1>1, <1>4, <2>1 DEF HeldOnce
  <2>2. ASSUME NEW h \in Handlers, HoldForWallet(h), held'[r] = req[h].i, req[h].s = r
        PROVE  r = q
    <3>1. Creates(h) /\ ~Pledged(req[h].i)
      BY <1>1, <2>2, Holds DEF Fresh
    <3>2. held[q] # held'[q]
      BY <1>4, <2>2, <3>1 DEF Pledged
    <3>3. PICK g \in Handlers : HoldForWallet(g) /\ held'[q] = req[g].i /\ req[g].s = q
      BY <1>1, <1>4, <3>2, HeldKept
    <3>4. Creates(g) /\ req[g].i = req[h].i
      BY <1>1, <1>4, <2>2, <3>3, Holds
    <3>5. g = h
      BY <1>1, <3>1, <3>4 DEF OneEach
    <3>6. QED
      BY <2>2, <3>3, <3>5
  <2>3. ASSUME NEW h \in Handlers, HoldForWallet(h), held'[q] = req[h].i, req[h].s = q
        PROVE  r = q
    <3>1. Creates(h) /\ ~Pledged(req[h].i)
      BY <1>1, <2>3, Holds DEF Fresh
    <3>2. held[r] # held'[r]
      BY <1>4, <2>3, <3>1 DEF Pledged
    <3>3. QED
      BY <1>1, <1>4, <2>2, <3>2, HeldKept
  <2>4. QED
    BY <1>1, <1>4, <2>1, <2>2, <2>3, HeldKept
<1>5. ASSUME NEW g \in Handlers, Takes(g)', NEW r \in WalletRequests, held'[r] = req'[g].i
      PROVE  FALSE
  <2>. DEFINE i == req'[g].i
  <2>1. \/ Takes(g) /\ req[g].i = i
        \/ /\ TakeClaims(g) /\ req[g].s \in WalletRequests
           /\ held[req[g].s] = i /\ held'[req[g].s] = None
    BY <1>1, <1>5, TakesKept, Taken
  <2>2. Pledged(i) /\ i \in Issuances
    BY <1>1, <1>5, <2>1, Taken, LocalsAreTyped DEF Pledged
  <2>3. held[r] = i
    BY <1>1, <1>2, <1>5, <2>2, HeldKept, Holds DEF Fresh
  <2>4. QED
    BY <1>1, <1>2, <1>5, <2>1, <2>2, <2>3 DEF HeldOnce
<1>6. ASSUME NEW g \in Handlers, NEW h \in Handlers, Takes(g)', Takes(h)', req'[g].i = req'[h].i
      PROVE  g = h
  <2>1. TakeClaims(g) => pc[g] = "take" /\ \A f \in Handlers \ {g} : pc'[f] = pc[f]
    BY <1>1, ActorAlone DEF TakeClaims, Continue, Alone
  <2>2. TakeClaims(h) => pc[h] = "take" /\ \A f \in Handlers \ {h} : pc'[f] = pc[f]
    BY <1>1, ActorAlone DEF TakeClaims, Continue, Alone
  <2>3. CASE TakeClaims(g) /\ ~TakeClaims(h)
    BY <1>1, <1>6, <2>3, Taken, TakesKept DEF HeldOnce
  <2>4. CASE TakeClaims(h) /\ ~TakeClaims(g)
    BY <1>1, <1>6, <2>4, Taken, TakesKept DEF HeldOnce
  <2>5. CASE TakeClaims(g) /\ TakeClaims(h)
    BY <1>6, <2>1, <2>2, <2>5 DEF Takes
  <2>6. CASE ~TakeClaims(g) /\ ~TakeClaims(h)
    BY <1>1, <1>6, <2>6, TakesKept DEF HeldOnce
  <2>7. QED
    BY <2>3, <2>4, <2>5, <2>6
<1>7. QED
  BY <1>3, <1>4, <1>5, <1>6 DEF HeldOnce

(* A step of another handler leaves a handler where it may stand. *)
LEMMA OthersStand ==
  ASSUME TypeOK, RowsHangTogether, HandlersStand, HeldOnce, OneEach, [Next]_vars,
         NEW g \in Handlers, pc'[g] = pc[g], req'[g] = req[g]
  PROVE  Stands(g)'
<1>. DEFINE i == req[g].i
<1>. SUFFICES ASSUME pc[g] # "idle" PROVE Stands(g)'
  BY DEF Stands
<1>1. Stands(g) /\ i \in Issuances /\ i # None /\ req[g].s \in Sessions \cup {None}
      /\ req[g].op \in {"create", "get", "claims"}
  BY LocalsAreTyped, IssuancesAssumption DEF IssuancesAssumption, HandlersStand
<1>2. row[i].session # None => row'[i].session = row[i].session
  <2>1. row[i].state = "ABSENT" => row[i].session = None
    BY <1>1 DEF RowsHangTogether, Followed, EngineOutcomes
  <2>2. QED
    BY <1>1, <2>1, RowsKept, SessionsKept
<1>3. CASE req[g].op = "get"
  <2>1. req[g].s \in Sessions /\ (session[req[g].s] \in EngineOutcomes => session'[req[g].s] = session[req[g].s])
    BY <1>1, <1>3, EndedStays DEF Stands, FollowerStage, EngineOutcomes
  <2>2. QED
    BY <1>1, <1>2, <1>3, <2>1 DEF Stands, FollowerStage, Told, EngineOutcomes
<1>4. CASE req[g].op = "claims"
  <2>1. Takes(g) => Waiting(i)'
    <3>. SUFFICES ASSUME Takes(g) PROVE Waiting(i)'
      OBVIOUS
    <3>1. Waiting(i) /\ Pledged(i)
      BY <1>1, <1>4 DEF Takes, Stands, ClaimantStage, Moving, Logging, Pledged
    <3>2. ~Move(g)
      BY Went DEF Move, Labels, Takes
    <3>3. \A h \in Handlers : ~(Move(h) /\ Takes(h) /\ req[h].i = i)
      BY <3>2 DEF HeldOnce
    <3>4. /\ verdict'[i] = "yes" /\ row'[i].session = None
          /\ row'[i].state \in {"ELIGIBILITY_CHECK", "OFFER_READY"}
      BY <1>1, <3>1, <3>3, StillWaiting DEF Waiting
    <3>5. QED
      BY <3>4 DEF Waiting
  <2>2. QED
    BY <1>1, <1>2, <1>4, <2>1, IssuancesAssumption
    DEF IssuancesAssumption, Stands, ClaimantStage, Moving, Logging, Takes, Waiting
<1>5. CASE req[g].op = "create"
  <2>1. Creates(g) /\ CreatorStage(g)
    BY <1>1, <1>5 DEF Stands, Creates
  <2>2. verdict'[i] = verdict[i]
    BY <1>1, <2>1, VerdictsKept DEF OneEach
  <2>3. session[i] = "absent" => session'[i] = "absent"
    BY <1>1, <2>1, EndedStays DEF OneEach, Sessions
  <2>4. Pledged(i)' => Pledged(i)
    BY <1>1, <2>1, PledgesKept DEF OneEach
  <2>5. CASE row'[i] = row[i]
    <3>1. row'[i] = row[i] /\ verdict'[i] = verdict[i] /\ req'[g] = req[g] /\ pc'[g] = pc[g]
      BY <2>2, <2>5
    <3>2. CreatorStage(g)'
      BY <1>1, <2>1, <2>3, <2>4, <3>1 DEF CreatorStage, Moving, Logging, Fresh
    <3>3. QED
      BY <1>5, <3>2 DEF Stands
  <2>6. CASE row'[i] # row[i]
    <3>1. PICK h \in Handlers : Move(h) /\ req[h].i = i
      BY <1>1, <2>1, <2>6, RowsKept DEF CreatorStage
    <3>2. MoveKind(h) /\ row[i].state = req[h].from /\ row'[i].state = req[h].to /\ pc[h] = "move"
      BY <3>1, MoveKinds, RowMoves
    <3>3. pc'[h] = "log"
      BY <3>1, Went DEF Move, Labels
    <3>4. g # h /\ req[h].op # "create"
      BY <2>1, <3>1, <3>2, <3>3 DEF OneEach, Creates
    <3>5. req'[g].i = i /\ row'[i].state # "ABSENT"
      BY <3>2, <3>4 DEF MoveKind, Told, EngineOutcomes
    <3>6. CASE req[h].op = "claims"
      <4>1. Pledged(i) /\ row[i].session = None /\ row[i].state = "OFFER_READY"
        BY <3>1, <3>2, <3>6 DEF Pledged, Takes, MoveKind, Waiting
      <4>2. \/ Logging(g, "ELIGIBILITY_CHECK", "NOT_ELIGIBLE")
            \/ Logging(g, "ELIGIBILITY_CHECK", "OFFER_READY") /\ req[g].s # None
            \/ pc[g] = "audit" /\ req[g].to \in {"NOT_ELIGIBLE", "OFFER_READY"}
        BY <1>1, <2>1, <4>1 DEF CreatorStage, Fresh, Moving, Logging
      <4>3. QED
        BY <1>5, <3>5, <4>2 DEF Stands, CreatorStage, Logging
    <3>7. CASE req[h].op = "get"
      <4>1. row[i].session # None /\ row[i].state \in Advanceable
        BY <3>1, <3>2, <3>7 DEF MoveKind, Told, Advanceable
      <4>2. \/ Logging(g, "ELIGIBILITY_CHECK", "NOT_ELIGIBLE")
            \/ Logging(g, "ELIGIBILITY_CHECK", "OFFER_READY") /\ req[g].s # None
            \/ Logging(g, "OFFER_READY", "AWAITING_WALLET") /\ row[i].session = i
            \/ pc[g] = "audit" /\ req[g].to \in {"NOT_ELIGIBLE", "OFFER_READY"}
            \/ pc[g] = "audit" /\ req[g].to = "AWAITING_WALLET" /\ row[i].session = i
        BY <1>1, <2>1, <4>1 DEF CreatorStage, Fresh, Moving, Logging, Advanceable
      <4>3. QED
        BY <1>2, <1>5, <3>5, <4>1, <4>2 DEF Stands, CreatorStage, Logging
    <3>8. QED
      BY <3>1, <3>4, <3>6, <3>7, LocalsAreTyped
  <2>7. QED
    BY <2>5, <2>6
<1>6. QED
  BY <1>1, <1>3, <1>4, <1>5

(* While its creation does not hold values, a transaction stays unpledged. *)
LEMMA StaysUnpledged ==
  ASSUME TypeOK, HandlersStand, OneEach, [Next]_vars, NEW h \in Handlers, Creates(h),
         ~Pledged(req[h].i), ~HoldForWallet(h), NEW i, i = req[h].i
  PROVE  ~Pledged(i)'
<1>1. i \in Issuances
  BY LocalsAreTyped
<1>2. QED
  BY <1>1, PledgesKept DEF OneEach

(* The stage of the handler that makes the step. *)
LEMMA CreateStands ==
  ASSUME TypeOK, RowsHangTogether, HandlersStand, HeldOnce, [Next]_vars,
         NEW h \in Handlers, CreateTransaction(h)
  PROVE  Stands(h)'
<1>1. PICK i \in Issuances, r \in WalletRequests \cup {None}, callback \in Callbacks :
         /\ row[i].state = "ABSENT"
         /\ row' = [row EXCEPT ![i] = [state |-> "CREATED", session |-> None,
                                       callback |-> callback, expiresAt |-> now + Lifetime]]
         /\ req' = [req EXCEPT ![h] = [op |-> "create", i |-> i, s |-> r,
                                       from |-> "CREATED", to |-> "CREATED"]]
  BY DEF CreateTransaction
<1>2. /\ row'[i].state = "CREATED" /\ row'[i].session = None
      /\ req'[h].op = "create" /\ req'[h].i = i /\ req'[h].from = "CREATED"
      /\ req'[h].to = "CREATED" /\ pc'[h] = "log"
  BY <1>1, Went DEF TypeOK, CreateTransaction, Labels
<1>3. session'[i] = "absent"
  BY <1>1 DEF CreateTransaction, engine, RowsHangTogether
<1>4. ~Pledged(i)
  BY <1>1, IssuancesAssumption
  DEF IssuancesAssumption, Pledged, HeldOnce, Takes, HandlersStand, Stands, ClaimantStage,
      Waiting, Moving, Logging
<1>5. ~Pledged(i)'
  BY <1>1, <1>4, PledgesKept, Holds DEF Fresh
<1>6. Pledged(req[h].i)' <=> Pledged(i)'
  BY <1>2 DEF Pledged
<1>7. CreatorStage(h)'
  BY <1>2, <1>3, <1>5, <1>6 DEF CreatorStage, Logging, Fresh
<1>8. QED
  BY <1>2, <1>7 DEF Stands

LEMMA MoveStands ==
  ASSUME TypeOK, RowsHangTogether, HandlersStand, HeldOnce, OneEach, [Next]_vars,
         NEW h \in Handlers, Move(h)
  PROVE  Stands(h)'
<1>0. PICK i \in Issuances : i = req[h].i
  BY LocalsAreTyped
<1>1. /\ MoveKind(h) /\ row'[i].state = req[h].to /\ pc[h] = "move"
      /\ pc'[h] = "log" /\ req'[h] = req[h] /\ UNCHANGED <<session, held, verdict>>
  BY <1>0, MoveKinds, RowMoves, Stayed DEF Move, Labels, engine
<1>2. i # None /\ req[h].to # "ABSENT" /\ i \in Issuances
  BY <1>0, LocalsAreTyped, StatesAreNamed, IssuancesAssumption DEF IssuancesAssumption
<1>3. CASE req[h].op = "create"
  <2>1. Creates(h) /\ ~HoldForWallet(h)
    BY <1>1, <1>3 DEF Creates, HoldForWallet
  <2>2. ~Pledged(i) => ~Pledged(i)'
    BY <1>0, <2>1, StaysUnpledged
  <2>3. (Pledged(req[h].i)' <=> Pledged(i)') /\ (Pledged(req[h].i) <=> Pledged(i))
    BY <1>0, <1>1 DEF Pledged
  <2>4. CreatorStage(h)'
    BY <1>0, <1>1, <1>2, <1>3, <2>2, <2>3 DEF MoveKind, CreatorStage, Logging, Fresh
  <2>5. QED
    BY <1>1, <1>3, <2>4 DEF Stands
<1>4. CASE req[h].op = "claims"
  BY <1>0, <1>1, <1>4 DEF MoveKind, Stands, ClaimantStage, Logging
<1>5. CASE req[h].op = "get"
  BY <1>0, <1>1, <1>5 DEF MoveKind, Stands, FollowerStage, Told
<1>6. QED
  BY <1>3, <1>4, <1>5, LocalsAreTyped

LEMMA LogStands ==
  ASSUME TypeOK, RowsHangTogether, HandlersStand, HeldOnce, OneEach, [Next]_vars,
         NEW h \in Handlers, AppendTransition(h)
  PROVE  Stands(h)'
<1>0. PICK i \in Issuances : i = req[h].i
  BY LocalsAreTyped
<1>1. /\ pc[h] = "log" /\ UNCHANGED <<row, session, held, verdict>>
      /\ req'[h].op = req[h].op /\ req'[h].i = req[h].i /\ req'[h].s = req[h].s
      /\ pc'[h] # "move" => req'[h] = req[h]
      /\ pc'[h] = "move" => req'[h].from = req[h].to
      /\ Stands(h) /\ i \in Issuances /\ i # None
  BY <1>0, LogGoesOn, LocalsAreTyped, IssuancesAssumption
  DEF IssuancesAssumption, AppendTransition, engine, HandlersStand
<1>2. CASE req[h].op = "create"
  <2>1. Creates(h) /\ ~HoldForWallet(h) /\ CreatorStage(h)
    BY <1>1, <1>2 DEF Creates, HoldForWallet, Stands
  <2>2. ~Pledged(i) => ~Pledged(i)'
    BY <1>0, <2>1, StaysUnpledged
  <2>3. (Pledged(req[h].i)' <=> Pledged(i)') /\ (Pledged(req[h].i) <=> Pledged(i))
    BY <1>0, <1>1 DEF Pledged
  <2>4. CreatorStage(h)'
    BY <1>0, <1>1, <1>2, <2>1, <2>2, <2>3, LogLeads DEF CreatorStage, Logging, Moving, Fresh
  <2>5. QED
    BY <1>1, <1>2, <2>4 DEF Stands
<1>3. CASE req[h].op = "claims"
  BY <1>1, <1>3, LogLeads DEF Stands, ClaimantStage, Logging, Moving
<1>4. CASE req[h].op = "get"
  BY <1>1, <1>4, LogLeads DEF Stands, FollowerStage, Told, EngineOutcomes, TerminalStates
<1>5. QED
  BY <1>2, <1>3, <1>4, LocalsAreTyped

LEMMA DecideStands ==
  ASSUME TypeOK, RowsHangTogether, HandlersStand, HeldOnce, OneEach, [Next]_vars,
         NEW h \in Handlers, NotEligible(h) \/ Eligible(h) \/ HoldForWallet(h)
  PROVE  Stands(h)'
<1>0. PICK i \in Issuances : i = req[h].i
  BY LocalsAreTyped
<1>1. /\ pc[h] = "decide" /\ row' = row /\ session' = session
      /\ i \in Issuances /\ i # None
  BY <1>0, LocalsAreTyped, IssuancesAssumption
  DEF IssuancesAssumption, NotEligible, Eligible, HoldForWallet, database, engine
<1>2. req[h].op = "create" /\ Creates(h) /\ Fresh(i, "ELIGIBILITY_CHECK")
  BY <1>0, <1>1, OpOf DEF HandlersStand, Stands, CreatorStage, Moving, Logging, Creates
<1>3. ~HoldForWallet(h) => ~Pledged(i)'
  BY <1>0, <1>2, StaysUnpledged DEF Fresh
<1>4. CASE NotEligible(h)
  <2>1. /\ pc'[h] = "move" /\ req'[h].op = "create" /\ req'[h].i = i
        /\ req'[h].from = "ELIGIBILITY_CHECK" /\ req'[h].to = "NOT_ELIGIBLE"
    BY <1>0, <1>2, <1>4, Moves, StatesAreNamed DEF NotEligible
  <2>2. verdict'[i] = "no"
    BY <1>0, <1>1, <1>4 DEF TypeOK, NotEligible
  <2>3. ~Pledged(i)'
    BY <1>0, <1>3, <2>2, Holds
  <2>4. Pledged(req[h].i)' <=> Pledged(i)'
    BY <2>1 DEF Pledged
  <2>5. CreatorStage(h)'
    BY <1>1, <1>2, <2>1, <2>2, <2>3, <2>4 DEF CreatorStage, Moving, Fresh
  <2>6. QED
    BY <2>1, <2>5 DEF Stands
<1>5. CASE Eligible(h)
  <2>1. pc'[h] = "offer" /\ req'[h] = req[h] /\ req[h].s = None
    BY <1>5, Stayed DEF Eligible, Labels
  <2>2. verdict'[i] = "yes"
    BY <1>0, <1>1, <1>5 DEF TypeOK, Eligible
  <2>3. ~Pledged(i)'
    BY <1>3, <2>1 DEF HoldForWallet
  <2>4. CreatorStage(h)'
    <3>1. (Pledged(req[h].i)' <=> Pledged(i)')
      BY <1>0, <2>1 DEF Pledged
    <3>2. QED
      BY <1>0, <1>1, <1>2, <2>1, <2>2, <2>3, <3>1 DEF CreatorStage, Fresh
  <2>5. QED
    BY <1>2, <2>1, <2>4 DEF Stands
<1>6. CASE HoldForWallet(h)
  <2>1. CASE Return(h)
    BY <2>1, Returned DEF Stands
  <2>2. CASE MoveTo(h, "ELIGIBILITY_CHECK", "OFFER_READY")
    <3>1. /\ pc'[h] = "move" /\ req'[h].op = "create" /\ req'[h].i = i
          /\ req'[h].from = "ELIGIBILITY_CHECK" /\ req'[h].to = "OFFER_READY"
          /\ req'[h].s = req[h].s
      BY <1>0, <1>2, <2>2, Moves, StatesAreNamed
    <3>2. req[h].s # None /\ verdict'[i] = "yes"
      BY <1>0, <1>6, Holds DEF HoldForWallet
    <3>3. CreatorStage(h)'
      BY <1>1, <1>2, <3>1, <3>2 DEF CreatorStage, Moving, Fresh
    <3>4. QED
      BY <3>1, <3>3 DEF Stands
  <2>3. QED
    BY <1>6, <2>1, <2>2 DEF HoldForWallet
<1>7. QED
  BY <1>4, <1>5, <1>6

LEMMA PrepareStands ==
  ASSUME TypeOK, RowsHangTogether, HandlersStand, HeldOnce, OneEach, [Next]_vars,
         NEW h \in Handlers, Prepare(h) \/ CreateCredentialOffer(h)
  PROVE  Stands(h)'
<1>1. PICK i \in Issuances : i = req[h].i
  BY LocalsAreTyped
<1>2. CASE Return(h)
  BY <1>2, Returned DEF Stands
<1>3. /\ pc[h] \in {"prepare", "offer"} /\ UNCHANGED <<row, verdict>>
      /\ Creates(h) /\ req[h].op = "create" /\ CreatorStage(h) /\ ~HoldForWallet(h)
  BY OpOf DEF Prepare, CreateCredentialOffer, database, HoldForWallet, Creates, HandlersStand, Stands
<1>4. ~Pledged(i) /\ row[i].session = None
  BY <1>1, <1>3 DEF CreatorStage, Moving, Logging, Fresh
<1>5. ~Pledged(i)'
  BY <1>1, <1>3, <1>4, StaysUnpledged
<1>6. CASE Prepare(h) /\ MoveTo(h, "CREATED", "ELIGIBILITY_CHECK")
  <2>1. /\ pc'[h] = "move" /\ req'[h].op = "create" /\ req'[h].i = i
        /\ req'[h].from = "CREATED" /\ req'[h].to = "ELIGIBILITY_CHECK"
    BY <1>1, <1>3, <1>6, Moves, StatesAreNamed
  <2>2. Pledged(req[h].i)' <=> Pledged(i)'
    BY <2>1 DEF Pledged
  <2>3. row'[i].state = "CREATED" /\ row'[i].session = None /\ session'[i] = "absent"
    BY <1>1, <1>3, <1>6 DEF Prepare, engine, CreatorStage, Moving, Logging, Fresh
  <2>4. CreatorStage(h)'
    BY <1>5, <2>1, <2>2, <2>3 DEF CreatorStage, Moving, Fresh
  <2>5. QED
    BY <2>1, <2>4 DEF Stands
<1>7. CASE CreateCredentialOffer(h) /\ MoveTo(h, "ELIGIBILITY_CHECK", "OFFER_READY")
  <2>1. /\ pc'[h] = "move" /\ req'[h].op = "create" /\ req'[h].i = i
        /\ req'[h].from = "ELIGIBILITY_CHECK" /\ req'[h].to = "OFFER_READY"
        /\ req'[h].s = req[h].s
    BY <1>1, <1>3, <1>7, Moves, StatesAreNamed
  <2>2. Pledged(req[h].i)' <=> Pledged(i)'
    BY <2>1 DEF Pledged
  <2>3. row'[i].state = "ELIGIBILITY_CHECK" /\ row'[i].session = None /\ verdict'[i] = "yes"
    BY <1>1, <1>3, <1>7 DEF CreateCredentialOffer, CreatorStage, Moving, Logging, Fresh
  <2>4. CreatorStage(h)'
    BY <1>5, <2>1, <2>2, <2>3 DEF CreatorStage, Moving
  <2>5. QED
    BY <2>1, <2>4 DEF Stands
<1>8. QED
  BY <1>2, <1>6, <1>7 DEF Prepare, CreateCredentialOffer

LEMMA TakeStands ==
  ASSUME TypeOK, RowsHangTogether, HandlersStand, HeldOnce, OneEach, [Next]_vars,
         NEW h \in Handlers, AskForClaims(h) \/ TakeClaims(h)
  PROVE  Stands(h)'
<1>1. CASE AskForClaims(h)
  <2>1. PICK r \in WalletRequests : req' = [req EXCEPT ![h] = [req[h] EXCEPT !.op = "claims", !.s = r]]
    BY <1>1 DEF AskForClaims
  <2>2. req'[h] = [req[h] EXCEPT !.op = "claims", !.s = r]
    BY <2>1 DEF TypeOK
  <2>3. req'[h].op = "claims" /\ req'[h].s = r /\ pc'[h] = "take"
    BY <1>1, <2>2, LocalsAreTyped, Went DEF AskForClaims, Locals, Labels
  <2>4. QED
    BY <2>3 DEF Stands, ClaimantStage
<1>2. CASE TakeClaims(h) /\ Return(h)
  BY <1>2, Returned DEF Stands
<1>3. CASE TakeClaims(h) /\ ~Return(h)
  <2>1. /\ pc'[h] = "move" /\ UNCHANGED <<row, verdict>> /\ pc[h] = "take"
        /\ \E i : req' = [req EXCEPT ![h] = [req[h] EXCEPT !.i = i, !.from = "OFFER_READY",
                                                           !.to = "AWAITING_WALLET"]]
    BY <1>3, Went DEF TakeClaims, Labels, database
  <2>2. req'[h].op = "claims"
    <3>1. PICK i : req' = [req EXCEPT ![h] = [req[h] EXCEPT !.i = i, !.from = "OFFER_READY",
                                                            !.to = "AWAITING_WALLET"]]
      BY <2>1
    <3>2. req'[h] = [req[h] EXCEPT !.i = i, !.from = "OFFER_READY", !.to = "AWAITING_WALLET"]
      BY <3>1 DEF TypeOK
    <3>3. req'[h].op = req[h].op
      BY <3>2, LocalsAreTyped DEF Locals
    <3>4. QED
      BY <2>1, <3>3, OpOf
  <2>3. Takes(h)'
    BY <2>1, <2>2 DEF Takes
  <2>4. PICK i \in Issuances :
          /\ i = req'[h].i /\ held[req[h].s] = i /\ req[h].s \in WalletRequests
          /\ req'[h].s = req[h].s /\ req'[h].from = "OFFER_READY" /\ req'[h].to = "AWAITING_WALLET"
    BY <1>3, <2>3, Taken
  <2>5. Waiting(i)
    BY <2>4, IssuancesAssumption DEF IssuancesAssumption, HeldOnce
  <2>6. QED
    BY <2>1, <2>2, <2>4, <2>5 DEF Stands, ClaimantStage, Moving, Waiting
<1>4. QED
  BY <1>1, <1>2, <1>3

LEMMA FollowStands ==
  ASSUME TypeOK, RowsHangTogether, HandlersStand, HeldOnce, OneEach, [Next]_vars,
         NEW h \in Handlers,
         \/ (\E i \in Issuances : Get(h, i)) \/ Poll(h) \/ RecordIssued(h)
         \/ EnqueueCallback(h) \/ AuditRecord(h)
  PROVE  Stands(h)'
<1>1. ASSUME NEW i \in Issuances, Get(h, i) PROVE Stands(h)'
  <2>1. req' = [req EXCEPT ![h] = [op |-> "get", i |-> i, s |-> row[i].session,
                                   from |-> row[i].state, to |-> row[i].state]]
    BY <1>1 DEF Get
  <2>2. /\ req'[h].op = "get" /\ req'[h].i = i /\ req'[h].s = row[i].session
        /\ req'[h].from = row[i].state
    BY <2>1 DEF TypeOK
  <2>3. pc'[h] = "poll" /\ row' = row /\ row[i].session # None /\ row[i].state \in Advanceable
    BY <1>1, Went DEF Get, Labels, database
  <2>4. QED
    BY <2>2, <2>3 DEF Stands, FollowerStage
<1>2. CASE Poll(h)
  <2>. DEFINE next == NextOnOutcome(req[h].from, session[req[h].s])
  <2>1. CASE Return(h)
    BY <2>1, Returned DEF Stands
  <2>2. CASE ~Return(h)
    <3>1. MoveTo(h, req[h].from, next) /\ next \in IssuanceStates
          /\ pc[h] = "poll" /\ row' = row /\ session' = session
      BY <1>2, <2>2 DEF Poll, database, engine
    <3>2. /\ pc'[h] = "move" /\ req'[h].op = req[h].op
          /\ req'[h].i = req[h].i /\ req'[h].s = req[h].s
          /\ req'[h].from = req[h].from /\ req'[h].to = next
      BY <3>1, LocalsAreTyped, Moves
    <3>3. req[h].op = "get" /\ req[h].from \in Advanceable
          /\ req[h].s # None /\ row[req[h].i].session = req[h].s
      BY <3>1, OpOf DEF HandlersStand, Stands, FollowerStage
    <3>4. session[req[h].s] \in EngineOutcomes /\ req[h].s \in Sessions
      <4>1. req[h].s \in Sessions
        BY <3>3, LocalsAreTyped
      <4>2. session[req[h].s] \in {"absent", "active"} \cup EngineOutcomes
        BY <4>1 DEF TypeOK
      <4>3. session[req[h].s] # "ISSUED" => next = session[req[h].s]
        BY DEF NextOnOutcome
      <4>4. QED
        BY <3>1, <4>1, <4>2, <4>3, StatesAreNamed DEF EngineOutcomes
    <3>5. \/ /\ session[req[h].s] = "ISSUED"
             /\ \/ req[h].from = "AWAITING_WALLET" /\ next = "ELIGIBILITY_CHECK"
                \/ req[h].from = "ELIGIBILITY_CHECK" /\ next = "ISSUING"
                \/ req[h].from = "ISSUING" /\ next = "ISSUED"
          \/ next \in EngineOutcomes \ {"ISSUED"} /\ session[req[h].s] = next
      BY <3>3, <3>4 DEF NextOnOutcome, Advanceable
    <3>6. Told(h)'
      BY <3>1, <3>2, <3>3, <3>5 DEF Told
    <3>7. QED
      BY <3>1, <3>2, <3>3, <3>6 DEF Stands, FollowerStage
  <2>3. QED
    BY <2>1, <2>2
<1>3. CASE RecordIssued(h)
  <2>1. CASE Return(h)
    BY <2>1, Returned DEF Stands
  <2>2. CASE ~Return(h)
    <3>1. pc'[h] = "audit" /\ req'[h] = req[h] /\ pc[h] = "record" /\ UNCHANGED <<row, session>>
      BY <1>3, <2>2, Stayed DEF RecordIssued, Labels, engine
    <3>2. QED
      BY <3>1, OpOf DEF HandlersStand, Stands, FollowerStage, Told
  <2>3. QED
    BY <2>1, <2>2
<1>4. CASE EnqueueCallback(h)
  BY <1>4, Returned DEF EnqueueCallback, Stands
<1>5. CASE AuditRecord(h)
  <2>1. CASE Return(h)
    BY <2>1, Returned DEF Stands
  <2>2. CASE ~Return(h)
    <3>1. /\ pc'[h] = "enqueue" /\ req'[h] = req[h] /\ pc[h] = "audit" /\ req[h].op = "get"
          /\ UNCHANGED <<row, session>>
      BY <1>5, <2>2, Stayed DEF AuditRecord, Labels, database, engine
    <3>2. QED
      BY <3>1 DEF HandlersStand, Stands, FollowerStage, Told
  <2>3. QED
    BY <2>1, <2>2
<1>6. QED
  BY <1>1, <1>2, <1>3, <1>4, <1>5

(* After every step every handler stands where its operation may. *)
LEMMA StandStep ==
  TypeOK /\ RowsHangTogether /\ HandlersStand /\ HeldOnce /\ OneEach /\ [Next]_vars => HandlersStand'
<1>1. SUFFICES ASSUME TypeOK, RowsHangTogether, HandlersStand, HeldOnce, OneEach, [Next]_vars,
                      NEW g \in Handlers
               PROVE  Stands(g)'
  BY DEF HandlersStand
<1>2. ASSUME pc'[g] = pc[g], req'[g] = req[g] PROVE Stands(g)'
  BY <1>1, <1>2, OthersStand
<1>3. ASSUME NEW h \in Handlers,
             \/ CreateTransaction(h) \/ AskForClaims(h) \/ Continue(h) \/ Fault(h)
             \/ \E i \in Issuances : Get(h, i),
             g # h
      PROVE  Stands(g)'
  BY <1>1, <1>2, <1>3, ActorAlone DEF Alone
<1>4. ASSUME MoveRefused(g) \/ NarrowRefuses(g) \/ AnswerClaims(g) \/ Fault(g) PROVE Stands(g)'
  BY <1>1, <1>4, Returned DEF MoveRefused, NarrowRefuses, AnswerClaims, Fault, Stands
<1>5. ASSUME CreateTransaction(g) \/ AskForClaims(g) \/ Continue(g) \/ \E i \in Issuances : Get(g, i)
      PROVE  Stands(g)'
  BY <1>1, <1>4, <1>5, CreateStands, MoveStands, LogStands, PrepareStands, DecideStands,
     TakeStands, FollowStands DEF Continue
<1>6. ASSUME Crash PROVE Stands(g)'
  BY <1>6 DEF Crash, Stands
<1>7. ASSUME (\E s \in Sessions : Collect(s) \/ SessionFails(s)) \/ Tick \/ UNCHANGED vars
      PROVE  Stands(g)'
  BY <1>2, <1>7 DEF Collect, SessionFails, Tick, vars, local
<1>8. QED
  BY <1>1, <1>3, <1>4, <1>5, <1>6, <1>7 DEF Next

-----------------------------------------------------------------------------
(* A creation, once begun, is the only one of its row. *)
LEMMA CreatesKept ==
  ASSUME TypeOK, HandlersStand, [Next]_vars, NEW g \in Handlers, Creates(g)'
  PROVE  \/ Creates(g) /\ req'[g].i = req[g].i
         \/ CreateTransaction(g) /\ row[req'[g].i].state = "ABSENT"
<1>1. CASE pc'[g] = pc[g] /\ req'[g] = req[g]
  BY <1>1 DEF Creates
<1>2. ASSUME CreateTransaction(g)
      PROVE  row[req'[g].i].state = "ABSENT"
  BY <1>2 DEF TypeOK, CreateTransaction
<1>3. ASSUME NEW h \in Handlers, h # g,
             \/ CreateTransaction(h) \/ AskForClaims(h) \/ Continue(h) \/ Fault(h)
             \/ \E i \in Issuances : Get(h, i)
      PROVE  pc'[g] = pc[g] /\ req'[g] = req[g]
  BY <1>3, ActorAlone DEF Alone
<1>4. ASSUME \/ MoveRefused(g) \/ NarrowRefuses(g) \/ AnswerClaims(g) \/ EnqueueCallback(g)
             \/ Fault(g)
      PROVE  ~Creates(g)'
  BY <1>4, Returned DEF MoveRefused, NarrowRefuses, AnswerClaims, EnqueueCallback, Fault, Creates
<1>5. ASSUME Move(g) \/ Eligible(g) \/ AuditRecord(g) \/ RecordIssued(g), Creates(g)'
      PROVE  Creates(g) /\ req'[g].i = req[g].i
  <2>1. pc[g] # "idle" /\ (req' = req \/ Return(g))
    BY <1>5 DEF Move, Eligible, AuditRecord, RecordIssued
  <2>2. QED
    BY <1>5, <2>1, Returned DEF Creates
<1>6. ASSUME \/ Prepare(g) \/ NotEligible(g) \/ HoldForWallet(g) \/ CreateCredentialOffer(g) \/ Poll(g),
             Creates(g)'
      PROVE  Creates(g) /\ req'[g].i = req[g].i
  <2>1. pc[g] # "idle" /\
        (\/ Return(g)
         \/ \E from \in IssuanceStates, to \in IssuanceStates : MoveTo(g, from, to))
    BY <1>6, StatesAreNamed, LocalsAreTyped
    DEF Prepare, NotEligible, HoldForWallet, CreateCredentialOffer, Poll
  <2>2. QED
    BY <1>6, <2>1, Moves, Returned DEF Creates
<1>7. ASSUME AppendTransition(g), Creates(g)' PROVE Creates(g) /\ req'[g].i = req[g].i
  BY <1>7, LogGoesOn DEF Creates
<1>8. ASSUME TakeClaims(g), Creates(g)' PROVE FALSE
  <2>1. pc'[g] = "idle" \/ pc'[g] = "move"
    BY <1>8, Returned, Went DEF TakeClaims, Labels
  <2>2. PICK i : req' = [req EXCEPT ![g] = [req[g] EXCEPT !.i = i, !.from = "OFFER_READY",
                                                          !.to = "AWAITING_WALLET"]]
    BY <1>8, Returned DEF TakeClaims, Creates
  <2>3. req'[g] = [req[g] EXCEPT !.i = i, !.from = "OFFER_READY", !.to = "AWAITING_WALLET"]
    BY <2>2 DEF TypeOK
  <2>4. req'[g].op = req[g].op
    BY <2>3, LocalsAreTyped DEF Locals
  <2>5. QED
    BY <1>8, <2>4, OpOf DEF TakeClaims, Creates
<1>9. ASSUME AskForClaims(g) \/ \E i \in Issuances : Get(g, i), Creates(g)' PROVE FALSE
  <2>1. ASSUME NEW i \in Issuances, Get(g, i) PROVE FALSE
    <3>1. req' = [req EXCEPT ![g] = [op |-> "get", i |-> i, s |-> row[i].session,
                                     from |-> row[i].state, to |-> row[i].state]]
      BY <2>1 DEF Get
    <3>2. req'[g].op = "get"
      BY <3>1 DEF TypeOK
    <3>3. QED
      BY <1>9, <3>2 DEF Creates
  <2>2. ASSUME AskForClaims(g) PROVE FALSE
    <3>1. PICK r \in WalletRequests : req' = [req EXCEPT ![g] = [req[g] EXCEPT !.op = "claims", !.s = r]]
      BY <2>2 DEF AskForClaims
    <3>2. req'[g] = [req[g] EXCEPT !.op = "claims", !.s = r]
      BY <3>1 DEF TypeOK
    <3>3. req'[g].op = "claims"
      BY <3>2, LocalsAreTyped DEF Locals
    <3>4. QED
      BY <1>9, <3>3 DEF Creates
  <2>3. QED
    BY <1>9, <2>1, <2>2
<1>10. ASSUME (\E s \in Sessions : Collect(s) \/ SessionFails(s)) \/ Tick \/ UNCHANGED vars
       PROVE  pc'[g] = pc[g] /\ req'[g] = req[g]
  BY <1>10 DEF Collect, SessionFails, Tick, vars, local
<1>11. ~Crash
  BY DEF Crash, Creates
<1>12. QED
  BY <1>1, <1>2, <1>3, <1>4, <1>5, <1>6, <1>7, <1>8, <1>9, <1>10, <1>11 DEF Next, Continue

(* Who has an outcome to announce has just made the move to it, or had it    *)
(* before and has not come to the last statement.                            *)
LEMMA AnnouncesKept ==
  ASSUME TypeOK, HandlersStand, [Next]_vars, NEW g \in Handlers, Announces(g)'
  PROVE  /\ req'[g] = req[g]
         /\ \/ Announces(g) /\ ~EnqueueCallback(g)
            \/ Move(g) /\ row[req[g].i].state \in Advanceable /\ req[g].op = "get"
<1>1. CASE pc'[g] = pc[g] /\ req'[g] = req[g]
  <2>1. Announces(g) /\ pc[g] # "idle"
    BY <1>1 DEF Announces
  <2>2. EnqueueCallback(g) => pc'[g] = "idle"
    BY Returned DEF EnqueueCallback
  <2>3. QED
    BY <1>1, <2>1, <2>2
<1>2. ASSUME NEW h \in Handlers, h # g,
             \/ CreateTransaction(h) \/ AskForClaims(h) \/ Continue(h) \/ Fault(h)
             \/ \E i \in Issuances : Get(h, i)
      PROVE  pc'[g] = pc[g] /\ req'[g] = req[g]
  BY <1>2, ActorAlone DEF Alone
<1>3. \A from, to : MoveTo(g, from, to) => FALSE
  BY DEF TypeOK, MoveTo, Goto, Announces
<1>4. Return(g) => FALSE
  BY Returned DEF Announces
<1>5. ASSUME \/ MoveRefused(g) \/ NarrowRefuses(g) \/ AnswerClaims(g) \/ EnqueueCallback(g)
             \/ Fault(g) \/ Prepare(g) \/ NotEligible(g) \/ HoldForWallet(g)
             \/ CreateCredentialOffer(g) \/ Poll(g)
      PROVE  FALSE
  BY <1>3, <1>4, <1>5 DEF MoveRefused, NarrowRefuses, AnswerClaims, EnqueueCallback, Fault,
     Prepare, NotEligible, HoldForWallet, CreateCredentialOffer, Poll
<1>6. ASSUME \/ TakeClaims(g) \/ AskForClaims(g) \/ Eligible(g) \/ CreateTransaction(g)
             \/ \E i \in Issuances : Get(g, i)
      PROVE  FALSE
  <2>1. pc'[g] \in {"move", "take", "offer", "poll", "idle"} \/ CreateTransaction(g)
    BY <1>6, Went, Returned DEF TakeClaims, AskForClaims, Eligible, Get, Labels
  <2>2. CreateTransaction(g) => req'[g].op = "create"
    BY DEF TypeOK, CreateTransaction
  <2>3. QED
    BY <2>1, <2>2 DEF Announces
<1>7. ASSUME AppendTransition(g) PROVE req'[g] = req[g] /\ Announces(g) /\ ~EnqueueCallback(g)
  BY <1>7, LogGoesOn DEF Announces, EnqueueCallback
<1>8. ASSUME AuditRecord(g) \/ RecordIssued(g)
      PROVE  req'[g] = req[g] /\ Announces(g) /\ ~EnqueueCallback(g)
  <2>1. req' = req /\ pc[g] \in {"audit", "record"}
    BY <1>4, <1>8 DEF AuditRecord, RecordIssued
  <2>2. QED
    BY <2>1 DEF Announces, EnqueueCallback
<1>9. ASSUME Move(g)
      PROVE  req'[g] = req[g] /\ row[req[g].i].state \in Advanceable /\ req[g].op = "get"
  <2>1. req'[g] = req[g] /\ req[g].op = "get" /\ pc[g] = "move"
    BY <1>9 DEF Move, Announces
  <2>2. Told(g)
    BY <2>1 DEF HandlersStand, Stands, FollowerStage
  <2>3. row[req[g].i].state = req[g].from
    BY <1>9, RowMoves
  <2>4. QED
    BY <2>1, <2>2, <2>3 DEF Told, Advanceable
<1>10. ASSUME (\E s \in Sessions : Collect(s) \/ SessionFails(s)) \/ Tick \/ UNCHANGED vars
       PROVE  pc'[g] = pc[g] /\ req'[g] = req[g]
  BY <1>10 DEF Collect, SessionFails, Tick, vars, local
<1>11. ~Crash
  BY DEF Crash, Announces
<1>12. QED
  BY <1>1, <1>2, <1>5, <1>6, <1>7, <1>8, <1>9, <1>10, <1>11 DEF Next, Continue

LEMMA OneEachStep ==
  TypeOK /\ HandlersStand /\ OneEach /\ Announcements /\ [Next]_vars => OneEach'
<1>1. SUFFICES ASSUME TypeOK, HandlersStand, OneEach, Announcements, [Next]_vars PROVE OneEach'
  OBVIOUS
<1>2. ASSUME NEW g \in Handlers, NEW h \in Handlers, Creates(g)', Creates(h)',
             req'[g].i = req'[h].i, g # h
      PROVE  FALSE
  <2>1. CreateTransaction(g) => pc'[h] = pc[h] /\ Creates(h)
    BY <1>1, <1>2, ActorAlone DEF Alone, Creates, CreateTransaction
  <2>2. CreateTransaction(h) => pc'[g] = pc[g] /\ Creates(g)
    BY <1>1, <1>2, ActorAlone DEF Alone, Creates, CreateTransaction
  <2>3. \A f \in Handlers : Creates(f) => row[req[f].i].state # "ABSENT"
    BY <1>1 DEF Creates, HandlersStand, Stands, CreatorStage
  <2>4. QED
    BY <1>1, <1>2, <2>1, <2>2, <2>3, CreatesKept DEF OneEach, CreateTransaction, Creates
<1>3. ASSUME NEW g \in Handlers, NEW h \in Handlers, Announces(g)', Announces(h)',
             req'[g].i = req'[h].i, g # h
      PROVE  FALSE
  <2>1. \A f \in Handlers : Announces(f) => row[req[f].i].state \notin Advanceable
    BY <1>1, StatesAreNamed DEF Announcements, Announces
  <2>2. ~(Move(g) /\ Move(h))
    <3>1. Move(g) /\ Move(h) => pc'[h] = pc[h] /\ pc[h] = "move"
      BY <1>1, <1>3, ActorAlone DEF Alone, Continue, Move
    <3>2. QED
      BY <1>3, <3>1 DEF Announces
  <2>3. QED
    BY <1>1, <1>3, <2>1, <2>2, AnnouncesKept DEF OneEach
<1>4. QED
  BY <1>2, <1>3 DEF OneEach

-----------------------------------------------------------------------------
(* An outcome is for good. *)
LEMMA OutcomesStay ==
  ASSUME TypeOK, [Next]_vars, NEW i \in Issuances, row[i].state \in EngineOutcomes
  PROVE  row'[i] = row[i]
<1>1. ASSUME NEW h \in Handlers, Move(h), req[h].i = i PROVE FALSE
  <2>1. CanTransition(row[i].state, req[h].to)
    BY <1>1, RowMoves
  <2>2. QED
    BY <2>1 DEF CanTransition, AllowedTransitionsFrom, EngineOutcomes
<1>2. QED
  BY <1>1, RowsKept DEF EngineOutcomes

(* A callback is queued by its announcer. *)
LEMMA CallbacksKept ==
  ASSUME TypeOK, HandlersStand, [Next]_vars, NEW i \in Issuances, callbacks'[i] # callbacks[i]
  PROVE  \E h \in Handlers : /\ EnqueueCallback(h) /\ Announces(h) /\ req[h].i = i
                             /\ callbacks'[i] = Append(callbacks[i], req[h].to)
<1>1. ASSUME NEW h \in Handlers, EnqueueCallback(h)
      PROVE  /\ Announces(h) /\ req[h].i = i
             /\ callbacks'[i] = Append(callbacks[i], req[h].to)
  <2>1. pc[h] = "enqueue" /\ callbacks' = [callbacks EXCEPT ![req[h].i] = Append(@, req[h].to)]
    BY <1>1 DEF EnqueueCallback
  <2>2. req[h].i = i /\ callbacks'[i] = Append(callbacks[i], req[h].to)
    BY <2>1 DEF TypeOK
  <2>3. req[h].op = "get" /\ req[h].to \in EngineOutcomes
    BY <2>1, OpOf DEF HandlersStand, Stands, FollowerStage
  <2>4. QED
    BY <2>1, <2>2, <2>3 DEF Announces
<1>2. ASSUME NEW h \in Handlers,
             \/ CreateTransaction(h) \/ AskForClaims(h) \/ Move(h) \/ MoveRefused(h)
             \/ AppendTransition(h) \/ Prepare(h) \/ NotEligible(h) \/ NarrowRefuses(h)
             \/ Eligible(h) \/ HoldForWallet(h) \/ CreateCredentialOffer(h) \/ AuditRecord(h)
             \/ TakeClaims(h) \/ AnswerClaims(h) \/ (\E j \in Issuances : Get(h, j)) \/ Poll(h)
             \/ RecordIssued(h) \/ Fault(h)
      PROVE  callbacks' = callbacks
  BY <1>2 DEF CreateTransaction, AskForClaims, Move, MoveRefused, AppendTransition, Prepare,
     NotEligible, NarrowRefuses, Eligible, HoldForWallet, CreateCredentialOffer, AuditRecord,
     TakeClaims, AnswerClaims, Get, Poll, RecordIssued, Fault, database
<1>3. ASSUME (\E s \in Sessions : Collect(s) \/ SessionFails(s)) \/ Crash \/ Tick \/ UNCHANGED vars
      PROVE  callbacks' = callbacks
  BY <1>3 DEF Collect, SessionFails, Crash, Tick, vars, database
<1>4. QED
  BY <1>1, <1>2, <1>3 DEF Next, Continue

LEMMA AnnounceStep ==
  TypeOK /\ HandlersStand /\ OneEach /\ Announcements /\ [Next]_vars => Announcements'
<1>1. SUFFICES ASSUME TypeOK, HandlersStand, OneEach, Announcements, [Next]_vars PROVE Announcements'
  OBVIOUS
<1>2. ASSUME NEW g \in Handlers, Announces(g)'
      PROVE  row'[req'[g].i].state = req'[g].to /\ callbacks'[req'[g].i] = <<>>
  <2>1. PICK i \in Issuances : i = req[g].i /\ i = req'[g].i
    BY <1>1, <1>2, LocalsAreTyped, AnnouncesKept
  <2>2. req'[g].to = req[g].to /\ req[g].to \in EngineOutcomes
    BY <1>1, <1>2, AnnouncesKept DEF Announces
  <2>3. CASE Announces(g) /\ ~EnqueueCallback(g)
    <3>1. row[i].state = req[g].to /\ callbacks[i] = <<>>
      BY <1>1, <2>1, <2>3 DEF Announcements
    <3>2. row'[i] = row[i]
      BY <1>1, <2>2, <3>1, OutcomesStay
    <3>3. callbacks'[i] = callbacks[i]
      BY <1>1, <2>1, <2>3, CallbacksKept DEF OneEach
    <3>4. QED
      BY <2>1, <2>2, <3>1, <3>2, <3>3
  <2>4. CASE Move(g) /\ row[i].state \in Advanceable
    <3>1. row'[i].state = req[g].to
      BY <1>1, <2>1, <2>4, RowMoves
    <3>2. callbacks[i] = <<>>
      BY <1>1, <2>4, StatesAreNamed DEF Announcements
    <3>3. callbacks' = callbacks
      BY <2>4 DEF Move
    <3>4. QED
      BY <2>1, <2>2, <3>1, <3>2, <3>3
  <2>5. QED
    BY <1>1, <1>2, <2>1, <2>3, <2>4, AnnouncesKept
<1>3. ASSUME NEW i \in Issuances, callbacks'[i] # <<>>
      PROVE  row'[i].state \in EngineOutcomes /\ callbacks'[i] = <<row'[i].state>>
  <2>1. CASE callbacks'[i] = callbacks[i]
    BY <1>1, <1>3, <2>1, OutcomesStay DEF Announcements
  <2>2. CASE callbacks'[i] # callbacks[i]
    <3>1. PICK h \in Handlers : /\ Announces(h) /\ req[h].i = i
                                /\ callbacks'[i] = Append(callbacks[i], req[h].to)
      BY <1>1, <2>2, CallbacksKept
    <3>2. row[i].state = req[h].to /\ callbacks[i] = <<>> /\ req[h].to \in EngineOutcomes
      BY <1>1, <3>1 DEF Announcements, Announces
    <3>3. Append(<<>>, req[h].to) = <<req[h].to>>
      OBVIOUS
    <3>4. QED
      BY <1>1, <3>1, <3>2, <3>3, OutcomesStay
  <2>3. QED
    BY <2>1, <2>2
<1>4. QED
  BY <1>2, <1>3 DEF Announcements

(* An announcer leaves the log and the register by its own statement, or    *)
(* by a failure.                                                            *)
LEMMA LeavesTheRegister ==
  ASSUME TypeOK, HandlersStand, [Next]_vars, NEW h \in Handlers,
         pc[h] \in {"log", "record"}, faults' = 0
  PROVE  \/ pc'[h] = pc[h] /\ req'[h] = req[h]
         \/ AppendTransition(h) \/ RecordIssued(h)
<1>1. ASSUME NEW g \in Handlers, g # h,
             \/ CreateTransaction(g) \/ AskForClaims(g) \/ Continue(g) \/ Fault(g)
             \/ \E i \in Issuances : Get(g, i)
      PROVE  pc'[h] = pc[h] /\ req'[h] = req[h]
  BY <1>1, ActorAlone DEF Alone
<1>2. ~Crash /\ \A g \in Handlers : ~Fault(g)
  BY IssuancesAssumption DEF IssuancesAssumption, TypeOK, Crash, Fault
<1>3. ASSUME (\E s \in Sessions : Collect(s) \/ SessionFails(s)) \/ Tick \/ UNCHANGED vars
      PROVE  pc'[h] = pc[h] /\ req'[h] = req[h]
  BY <1>3 DEF Collect, SessionFails, Tick, vars, local
<1>4. ASSUME \/ CreateTransaction(h) \/ AskForClaims(h) \/ Move(h) \/ MoveRefused(h)
             \/ Prepare(h) \/ NotEligible(h) \/ NarrowRefuses(h)
             \/ Eligible(h) \/ HoldForWallet(h) \/ CreateCredentialOffer(h) \/ AuditRecord(h)
             \/ TakeClaims(h) \/ AnswerClaims(h) \/ (\E j \in Issuances : Get(h, j)) \/ Poll(h)
             \/ EnqueueCallback(h)
      PROVE  FALSE
  BY <1>4 DEF CreateTransaction, AskForClaims, Move, MoveRefused, Prepare, NotEligible,
     NarrowRefuses, Eligible, HoldForWallet, CreateCredentialOffer, AuditRecord, TakeClaims,
     AnswerClaims, Get, Poll, EnqueueCallback
<1>5. QED
  BY <1>1, <1>2, <1>3, <1>4 DEF Next, Continue

(* Only an announcer registers. *)
LEMMA RegisterKept ==
  ASSUME TypeOK, HandlersStand, [Next]_vars, NEW i \in Issuances
  PROVE  /\ i \in register => i \in register'
         /\ i \in register' /\ i \notin register =>
              \E h \in Handlers : /\ RecordIssued(h) /\ Announces(h) /\ req[h].i = i
                                  /\ req[h].to = "ISSUED"
<1>1. ASSUME NEW h \in Handlers, RecordIssued(h)
      PROVE  /\ register' = register \cup {req[h].i}
             /\ Announces(h) /\ req[h].to = "ISSUED"
  <2>1. pc[h] = "record" /\ register' = register \cup {req[h].i}
    BY <1>1 DEF RecordIssued
  <2>2. req[h].op = "get" /\ req[h].to = "ISSUED"
    BY <2>1, OpOf DEF HandlersStand, Stands, FollowerStage
  <2>3. QED
    BY <2>1, <2>2 DEF Announces, EngineOutcomes
<1>2. ASSUME NEW h \in Handlers,
             \/ CreateTransaction(h) \/ AskForClaims(h) \/ Move(h) \/ MoveRefused(h)
             \/ AppendTransition(h) \/ Prepare(h) \/ NotEligible(h) \/ NarrowRefuses(h)
             \/ Eligible(h) \/ HoldForWallet(h) \/ CreateCredentialOffer(h) \/ AuditRecord(h)
             \/ TakeClaims(h) \/ AnswerClaims(h) \/ (\E j \in Issuances : Get(h, j)) \/ Poll(h)
             \/ EnqueueCallback(h) \/ Fault(h)
      PROVE  register' = register
  BY <1>2 DEF CreateTransaction, AskForClaims, Move, MoveRefused, AppendTransition, Prepare,
     NotEligible, NarrowRefuses, Eligible, HoldForWallet, CreateCredentialOffer, AuditRecord,
     TakeClaims, AnswerClaims, Get, Poll, EnqueueCallback, Fault, database
<1>3. ASSUME (\E s \in Sessions : Collect(s) \/ SessionFails(s)) \/ Crash \/ Tick \/ UNCHANGED vars
      PROVE  register' = register
  BY <1>3 DEF Collect, SessionFails, Crash, Tick, vars, database
<1>4. QED
  BY <1>1, <1>2, <1>3 DEF Next, Continue

(* Failures are counted and never forgotten. *)
LEMMA FaultsKept ==
  ASSUME TypeOK, [Next]_vars, faults' = 0
  PROVE  faults = 0
<1>1. (\E h \in Handlers : Fault(h)) \/ Crash => faults = 0
  BY IssuancesAssumption DEF IssuancesAssumption, TypeOK, Fault, Crash
<1>2. ASSUME NEW h \in Handlers,
             \/ CreateTransaction(h) \/ AskForClaims(h) \/ Move(h) \/ MoveRefused(h)
             \/ AppendTransition(h) \/ Prepare(h) \/ NotEligible(h) \/ NarrowRefuses(h)
             \/ Eligible(h) \/ HoldForWallet(h) \/ CreateCredentialOffer(h) \/ AuditRecord(h)
             \/ TakeClaims(h) \/ AnswerClaims(h) \/ (\E j \in Issuances : Get(h, j)) \/ Poll(h)
             \/ RecordIssued(h) \/ EnqueueCallback(h)
      PROVE  faults' = faults
  BY <1>2 DEF CreateTransaction, AskForClaims, Move, MoveRefused, AppendTransition, Prepare,
     NotEligible, NarrowRefuses, Eligible, HoldForWallet, CreateCredentialOffer, AuditRecord,
     TakeClaims, AnswerClaims, Get, Poll, RecordIssued, EnqueueCallback
<1>3. ASSUME (\E s \in Sessions : Collect(s) \/ SessionFails(s)) \/ Tick \/ UNCHANGED vars
      PROVE  faults' = faults
  BY <1>3 DEF Collect, SessionFails, Tick, vars
<1>4. QED
  BY <1>1, <1>2, <1>3 DEF Next, Continue

LEMMA RegisterStep ==
  TypeOK /\ HandlersStand /\ Announcements /\ Registered /\ [Next]_vars => Registered'
<1>1. SUFFICES ASSUME TypeOK, HandlersStand, Announcements, Registered, [Next]_vars,
                      NEW i \in Issuances
               PROVE  /\ i \in register' => row'[i].state = "ISSUED"
                      /\ row'[i].state = "ISSUED" /\ faults' = 0 /\ i \notin register' =>
                           \E h \in Handlers : /\ pc'[h] \in {"log", "record"}
                                               /\ Announces(h)' /\ req'[h].i = i
  BY DEF Registered
<1>2. "ISSUED" \in EngineOutcomes /\ "ISSUED" # "ABSENT"
  BY DEF EngineOutcomes
<1>3. ASSUME i \in register' PROVE row'[i].state = "ISSUED"
  <2>1. row[i].state = "ISSUED"
    BY <1>1, <1>3, RegisterKept DEF Registered, Announcements
  <2>2. QED
    BY <1>1, <1>2, <2>1, OutcomesStay
<1>4. ASSUME row'[i].state = "ISSUED", faults' = 0, i \notin register'
      PROVE  \E h \in Handlers : pc'[h] \in {"log", "record"} /\ Announces(h)' /\ req'[h].i = i
  <2>1. faults = 0 /\ i \notin register
    BY <1>1, <1>4, FaultsKept, RegisterKept
  <2>2. CASE row[i].state = "ISSUED"
    <3>1. PICK h \in Handlers : pc[h] \in {"log", "record"} /\ Announces(h) /\ req[h].i = i
      BY <1>1, <2>1, <2>2 DEF Registered
    <3>2. req[h].to = "ISSUED" /\ req[h].op = "get"
      BY <1>1, <2>2, <3>1 DEF Announcements, Announces
    <3>3. ~RecordIssued(h)
      BY <1>4, <3>1 DEF RecordIssued
    <3>4. AppendTransition(h) => pc'[h] = "record" /\ req'[h] = req[h]
      BY <1>1, <3>2, LogLeads, LogGoesOn DEF EngineOutcomes, TerminalStates
    <3>5. pc'[h] \in {"log", "record"} /\ req'[h] = req[h]
      BY <1>1, <1>4, <3>1, <3>3, <3>4, LeavesTheRegister
    <3>6. QED
      BY <3>1, <3>5 DEF Announces
  <2>3. CASE row[i].state # "ISSUED"
    <3>1. PICK h \in Handlers : Move(h) /\ req[h].i = i
      BY <1>1, <1>4, <2>3, RowsKept
    <3>2. req[h].to = "ISSUED" /\ pc'[h] = "log" /\ req'[h] = req[h]
      BY <1>1, <1>4, <3>1, RowMoves, Stayed DEF Move, Labels
    <3>3. req[h].op = "get"
      BY <1>1, <3>1, <3>2, MoveKinds DEF MoveKind
    <3>4. QED
      BY <1>2, <3>1, <3>2, <3>3 DEF Announces
  <2>4. QED
    BY <2>2, <2>3
<1>5. QED
  BY <1>3, <1>4

-----------------------------------------------------------------------------
(* The log is written by the statement after a move. *)
LEMMA MovesKept ==
  ASSUME [Next]_vars, \A h \in Handlers : ~AppendTransition(h)
  PROVE  moves' = moves
<1>1. ASSUME NEW h \in Handlers,
             \/ CreateTransaction(h) \/ AskForClaims(h) \/ Move(h) \/ MoveRefused(h)
             \/ Prepare(h) \/ NotEligible(h) \/ NarrowRefuses(h)
             \/ Eligible(h) \/ HoldForWallet(h) \/ CreateCredentialOffer(h) \/ AuditRecord(h)
             \/ TakeClaims(h) \/ AnswerClaims(h) \/ (\E j \in Issuances : Get(h, j)) \/ Poll(h)
             \/ RecordIssued(h) \/ EnqueueCallback(h) \/ Fault(h)
      PROVE  moves' = moves
  BY <1>1 DEF CreateTransaction, AskForClaims, Move, MoveRefused, Prepare,
     NotEligible, NarrowRefuses, Eligible, HoldForWallet, CreateCredentialOffer, AuditRecord,
     TakeClaims, AnswerClaims, Get, Poll, RecordIssued, EnqueueCallback, Fault, database
<1>2. ASSUME (\E s \in Sessions : Collect(s) \/ SessionFails(s)) \/ Crash \/ Tick \/ UNCHANGED vars
      PROVE  moves' = moves
  BY <1>2 DEF Collect, SessionFails, Crash, Tick, vars, database
<1>3. QED
  BY <1>1, <1>2 DEF Next, Continue

(* A handler comes to the log by a creation or a move. *)
LEMMA EntersTheLog ==
  ASSUME TypeOK, [Next]_vars, NEW g \in Handlers, pc'[g] = "log"
  PROVE  \/ pc[g] = "log" /\ req'[g] = req[g]
         \/ CreateTransaction(g) \/ Move(g)
<1>1. ASSUME NEW h \in Handlers, h # g,
             \/ CreateTransaction(h) \/ AskForClaims(h) \/ Continue(h) \/ Fault(h)
             \/ \E i \in Issuances : Get(h, i)
      PROVE  pc[g] = "log" /\ req'[g] = req[g]
  BY <1>1, ActorAlone DEF Alone
<1>2. ASSUME (\E s \in Sessions : Collect(s) \/ SessionFails(s)) \/ Tick \/ UNCHANGED vars
      PROVE  pc[g] = "log" /\ req'[g] = req[g]
  BY <1>2 DEF Collect, SessionFails, Tick, vars, local
<1>3. ~Crash
  BY DEF Crash
<1>4. ~Return(g) /\ \A from, to : ~MoveTo(g, from, to)
  BY Returned DEF TypeOK, MoveTo, Goto
<1>5. ASSUME \/ MoveRefused(g) \/ Prepare(g) \/ NotEligible(g) \/ NarrowRefuses(g)
             \/ HoldForWallet(g) \/ CreateCredentialOffer(g) \/ AnswerClaims(g) \/ Poll(g)
             \/ EnqueueCallback(g) \/ Fault(g)
      PROVE  FALSE
  BY <1>4, <1>5 DEF MoveRefused, Prepare, NotEligible, NarrowRefuses, HoldForWallet,
     CreateCredentialOffer, AnswerClaims, Poll, EnqueueCallback, Fault
<1>6. ASSUME \/ AskForClaims(g) \/ Eligible(g) \/ AuditRecord(g) \/ RecordIssued(g)
             \/ TakeClaims(g) \/ (\E i \in Issuances : Get(g, i))
      PROVE  FALSE
  <2>1. \E label \in Labels \ {"log"} : Goto(g, label)
    BY <1>4, <1>6 DEF AskForClaims, Eligible, AuditRecord, RecordIssued, TakeClaims, Get, Labels
  <2>2. QED
    BY <2>1, Went
<1>7. ~AppendTransition(g)
  BY LogGoesOn
<1>8. QED
  BY <1>1, <1>2, <1>3, <1>5, <1>6, <1>7 DEF Next, Continue

(* A row that stays keeps its entries. *)
LEMMA EntriesKept ==
  ASSUME TypeOK, HandlersStand, [Next]_vars, faults' = 0,
         NEW i \in Issuances, row'[i] = row[i]
  PROVE  Entries(i)' = Entries(i)
<1>1. ASSUME NEW g \in Handlers, pc'[g] = "log", req'[g].i = i
      PROVE  pc[g] = "log" /\ req'[g] = req[g]
  <2>1. ~CreateTransaction(g)
    BY <1>1 DEF TypeOK, CreateTransaction
  <2>2. ASSUME Move(g) PROVE FALSE
    <3>1. req[g].i = i
      BY <1>1, <2>2 DEF Move
    <3>2. CanTransition(row[i].state, row'[i].state)
      BY <2>2, <3>1, RowMoves
    <3>3. QED
      BY <3>2 DEF CanTransition, AllowedTransitionsFrom
  <2>3. QED
    BY <1>1, <2>1, <2>2, EntersTheLog
<1>2. ASSUME NEW h \in Handlers, AppendTransition(h) PROVE Entries(i)' = Entries(i)
  <2>1. /\ pc[h] = "log" /\ pc'[h] # "log"
        /\ \A g \in Handlers \ {h} : pc'[g] = pc[g] /\ req'[g] = req[g]
    BY <1>2, LogGoesOn DEF Alone
  <2>2. moves' = [moves EXCEPT ![req[h].i] = @ \cup {<<req[h].from, req[h].to>>}]
    BY <1>2 DEF AppendTransition
  <2>3. moves'[i] = IF req[h].i = i THEN moves[i] \cup {<<req[h].from, req[h].to>>} ELSE moves[i]
    BY <2>2 DEF TypeOK
  <2>4. Logs(i)' \subseteq Logs(i)
    BY <2>1 DEF Logs
  <2>5. Logs(i) \subseteq Logs(i)' \cup (IF req[h].i = i THEN {<<req[h].from, req[h].to>>} ELSE {})
    BY <2>1 DEF Logs
  <2>6. req[h].i = i => <<req[h].from, req[h].to>> \in Logs(i)
    BY <2>1 DEF Logs
  <2>7. QED
    BY <2>3, <2>4, <2>5, <2>6 DEF Entries
<1>3. ASSUME \A h \in Handlers : ~AppendTransition(h) PROVE Entries(i)' = Entries(i)
  <2>1. moves' = moves
    BY <1>3, MovesKept
  <2>2. \A g \in Handlers : pc[g] = "log" => pc'[g] = "log" /\ req'[g] = req[g]
    BY <1>3, LeavesTheRegister DEF RecordIssued
  <2>3. Logs(i)' = Logs(i)
    BY <1>1, <2>2 DEF Logs
  <2>4. QED
    BY <2>1, <2>3 DEF Entries
<1>4. QED
  BY <1>2, <1>3

(* Who creates or moves a row is about to log it. *)
LEMMA EntryAdded ==
  ASSUME TypeOK, NEW h \in Handlers, CreateTransaction(h) \/ Move(h), NEW i \in Issuances,
         req'[h].i = i
  PROVE  Entries(i)' = Entries(i) \cup {<<req'[h].from, req'[h].to>>}
<1>1. moves' = moves /\ pc[h] # "log" /\ pc'[h] = "log"
  BY DEF TypeOK, CreateTransaction, Move, Goto
<1>2. \A g \in Handlers \ {h} : pc'[g] = pc[g] /\ req'[g] = req[g]
  BY ActorAlone DEF Alone, Continue
<1>3. Logs(i)' = Logs(i) \cup {<<req'[h].from, req'[h].to>>}
  BY <1>1, <1>2 DEF Logs
<1>4. QED
  BY <1>1, <1>3 DEF Entries

(* The walk, one move at a time. *)
LEMMA WalkGoesOn ==
  /\ WalkTo(0) = {}
  /\ \A k \in 0..6 : WalkTo(k + 1) = WalkTo(k) \cup {Walk[k + 1]}
<1>1. WalkTo(0) = {}
  BY DEF WalkTo
<1>2. ASSUME NEW k \in 0..6 PROVE WalkTo(k + 1) = WalkTo(k) \cup {Walk[k + 1]}
  <2>1. 1..(k + 1) = 1..k \cup {k + 1}
    OBVIOUS
  <2>2. QED
    BY <2>1, Zenon DEF WalkTo
<1>3. QED
  BY <1>1, <1>2

(* A creation or a move on the walk takes its row one move further. *)
LEMMA WalkedOn ==
  ASSUME TypeOK, RowsHangTogether, HandlersStand, [Next]_vars, NEW i \in Issuances,
         row'[i] # row[i], OnTheWalk(i)',
         NEW h \in Handlers, CreateTransaction(h) \/ Move(h), req'[h].i = i
  PROVE  /\ OnTheWalk(i) /\ Distance(i) \in 0..6 /\ Distance(i)' = Distance(i) + 1
         /\ <<req'[h].from, req'[h].to>> = Walk[Distance(i) + 1]
<1>1. ASSUME CreateTransaction(h)
      PROVE  /\ OnTheWalk(i) /\ Distance(i) \in 0..6 /\ Distance(i)' = Distance(i) + 1
             /\ <<req'[h].from, req'[h].to>> = Walk[Distance(i) + 1]
  <2>1. req'[h].from = "CREATED" /\ req'[h].to = "CREATED" /\ row[i].state = "ABSENT"
    BY <1>1 DEF TypeOK, CreateTransaction
  <2>2. row'[i].state = "CREATED"
    <3>1. PICK callback \in Callbacks :
            row' = [row EXCEPT ![i] = [state |-> "CREATED", session |-> None,
                                       callback |-> callback, expiresAt |-> now + Lifetime]]
      BY <1>1 DEF TypeOK, CreateTransaction
    <3>2. QED
      BY <3>1 DEF TypeOK
  <2>3. Distance(i) = 0 /\ Distance(i)' = 1
    BY <2>1, <2>2 DEF Distance
  <2>4. QED
    BY <2>1, <2>3 DEF Walk, OnTheWalk, TerminalStates, EngineOutcomes
<1>2. ASSUME Move(h)
      PROVE  /\ OnTheWalk(i) /\ Distance(i) \in 0..6 /\ Distance(i)' = Distance(i) + 1
             /\ <<req'[h].from, req'[h].to>> = Walk[Distance(i) + 1]
  <2>1. req' = req /\ req[h].i = i /\ row[i].state = req[h].from /\ row'[i].state = req[h].to
    BY <1>2, RowMoves DEF Move
  <2>2. MoveKind(h) /\ i # None /\ \A r \in WalletRequests : r # None
    BY <1>2, MoveKinds, IssuancesAssumption DEF IssuancesAssumption
  <2>3. req[h].to \notin TerminalStates \ {"ISSUED"}
    BY <2>1 DEF OnTheWalk
  <2>4. \/ req[h].from = "CREATED" /\ req[h].to = "ELIGIBILITY_CHECK" /\ row'[i].session = None
        \/ /\ req[h].from = "ELIGIBILITY_CHECK" /\ req[h].to = "OFFER_READY"
           /\ row[i].session = None
        \/ req[h].from = "OFFER_READY" /\ req[h].to = "AWAITING_WALLET"
        \/ /\ req[h].from = "AWAITING_WALLET" /\ req[h].to = "ELIGIBILITY_CHECK"
           /\ row'[i].session # None
        \/ /\ req[h].from = "ELIGIBILITY_CHECK" /\ req[h].to = "ISSUING"
           /\ row[i].session # None
        \/ req[h].from = "ISSUING" /\ req[h].to = "ISSUED"
    BY <2>1, <2>2, <2>3 DEF MoveKind, Told, TerminalStates, EngineOutcomes
  <2>5. OnTheWalk(i)
    BY <2>1, <2>4 DEF OnTheWalk, TerminalStates, EngineOutcomes
  <2>6. /\ Distance(i) \in 0..6 /\ Distance(i)' = Distance(i) + 1
        /\ <<req[h].from, req[h].to>> = Walk[Distance(i) + 1]
    <3>1. /\ Walk[2] = <<"CREATED", "ELIGIBILITY_CHECK">>
          /\ Walk[3] = <<"ELIGIBILITY_CHECK", "OFFER_READY">>
          /\ Walk[4] = <<"OFFER_READY", "AWAITING_WALLET">>
          /\ Walk[5] = <<"AWAITING_WALLET", "ELIGIBILITY_CHECK">>
          /\ Walk[6] = <<"ELIGIBILITY_CHECK", "ISSUING">> /\ Walk[7] = <<"ISSUING", "ISSUED">>
      BY DEF Walk
    <3>2. \/ Distance(i) = 1 /\ Distance(i)' = 2 /\ <<req[h].from, req[h].to>> = Walk[2]
          \/ Distance(i) = 2 /\ Distance(i)' = 3 /\ <<req[h].from, req[h].to>> = Walk[3]
          \/ Distance(i) = 3 /\ Distance(i)' = 4 /\ <<req[h].from, req[h].to>> = Walk[4]
          \/ Distance(i) = 4 /\ Distance(i)' = 5 /\ <<req[h].from, req[h].to>> = Walk[5]
          \/ Distance(i) = 5 /\ Distance(i)' = 6 /\ <<req[h].from, req[h].to>> = Walk[6]
          \/ Distance(i) = 6 /\ Distance(i)' = 7 /\ <<req[h].from, req[h].to>> = Walk[7]
      BY <2>1, <2>4, <3>1 DEF Distance
    <3>3. QED
      BY <3>2
  <2>7. QED
    BY <2>1, <2>5, <2>6
<1>3. QED
  BY <1>1, <1>2

LEMMA WalkStep ==
  TypeOK /\ RowsHangTogether /\ HandlersStand /\ LogIsTheWalk /\ [Next]_vars => LogIsTheWalk'
<1>1. SUFFICES ASSUME TypeOK, RowsHangTogether, HandlersStand, LogIsTheWalk, [Next]_vars,
                      faults' = 0, NEW i \in Issuances, OnTheWalk(i)'
               PROVE  Entries(i)' = WalkTo(Distance(i)')
  BY DEF LogIsTheWalk, WalkTo
<1>2. faults = 0
  BY <1>1, FaultsKept
<1>3. CASE row'[i] = row[i]
  <2>1. Entries(i)' = Entries(i)
    BY <1>1, <1>3, EntriesKept
  <2>2. Distance(i)' = Distance(i) /\ OnTheWalk(i)
    BY <1>1, <1>3 DEF Distance, OnTheWalk
  <2>3. QED
    BY <1>1, <1>2, <2>1, <2>2 DEF LogIsTheWalk
<1>4. CASE row'[i] # row[i]
  <2>1. PICK h \in Handlers : (CreateTransaction(h) \/ Move(h)) /\ req'[h].i = i
    BY <1>1, <1>4, RowsKept DEF Move
  <2>2. /\ OnTheWalk(i) /\ Distance(i) \in 0..6 /\ Distance(i)' = Distance(i) + 1
        /\ <<req'[h].from, req'[h].to>> = Walk[Distance(i) + 1]
    BY <1>1, <1>4, <2>1, WalkedOn
  <2>3. Entries(i)' = Entries(i) \cup {Walk[Distance(i) + 1]}
    BY <1>1, <2>1, <2>2, EntryAdded
  <2>4. Entries(i) = WalkTo(Distance(i))
    BY <1>1, <1>2, <2>2 DEF LogIsTheWalk
  <2>5. QED
    BY <2>2, <2>3, <2>4, WalkGoesOn
<1>5. QED
  BY <1>3, <1>4

-----------------------------------------------------------------------------
(* The invariant holds of every state *)

LEMMA InitIInv == Init => IInv
<1>1. SUFFICES ASSUME Init PROVE IInv
  OBVIOUS
<1>2. /\ \A i \in Issuances : /\ row[i].state = "ABSENT" /\ row[i].session = None
                              /\ session[i] = "absent" /\ callbacks[i] = <<>> /\ moves[i] = {}
      /\ \A s \in Sessions : session[s] # "ISSUED"
      /\ \A r \in WalletRequests : held[r] = None /\ claims[r] = None
      /\ \A h \in Handlers : pc[h] = "idle"
      /\ offered = {} /\ register = {}
  BY <1>1, IssuancesAssumption DEF IssuancesAssumption, Init, NoRow, Sessions
<1>3. RowsHangTogether /\ IssuedIsFollowed
  BY <1>2 DEF RowsHangTogether, IssuedIsFollowed, Unfollowed, EngineOutcomes
<1>4. HeldOnce /\ HandlersStand /\ OneEach
  BY <1>2 DEF HeldOnce, HandlersStand, Stands, OneEach, Takes, Creates, Announces
<1>5. Announcements /\ Registered
  BY <1>2 DEF Announcements, Registered, Announces
<1>6. LogIsTheWalk
  <2>1. \A i \in Issuances : Distance(i) = 0 /\ Entries(i) = {}
    BY <1>2 DEF Distance, Entries, Logs
  <2>2. QED
    BY <2>1, WalkGoesOn DEF LogIsTheWalk
<1>7. QED
  BY <1>3, <1>4, <1>5, <1>6 DEF IInv

LEMMA NextIInv == TypeOK /\ IInv /\ [Next]_vars => TypeOK' /\ IInv'
<1>1. TypeOK /\ IInv /\ [Next]_vars => TypeOK'
  BY NextTyped DEF IInv
<1>2. TypeOK /\ IInv /\ [Next]_vars => RowsHangTogether' /\ IssuedIsFollowed' /\ HeldOnce'
  BY RowsStep, IssuedStep, HeldStep DEF IInv
<1>3. TypeOK /\ IInv /\ [Next]_vars => HandlersStand' /\ OneEach'
  BY StandStep, OneEachStep DEF IInv
<1>4. TypeOK /\ IInv /\ [Next]_vars => Announcements' /\ Registered' /\ LogIsTheWalk'
  BY AnnounceStep, RegisterStep, WalkStep DEF IInv
<1>5. QED
  BY <1>1, <1>2, <1>3, <1>4 DEF IInv

LEMMA SpecIInv == Spec => [](TypeOK /\ IInv)
<1>1. Init => TypeOK /\ IInv
  BY InitTyped, InitIInv
<1>2. (TypeOK /\ IInv) /\ [Next]_vars => (TypeOK /\ IInv)'
  BY NextIInv
<1>3. QED
  BY <1>1, <1>2, PTL DEF Spec

(* Every variable of the issuance flow keeps its type: rows, queues and the *)
(* locals of a handler at each await (Issuances).                           *)
THEOREM TypeCorrect == Spec => []TypeOK
BY SpecIInv, PTL

(* Whatever a wallet collects, it collects from a session that a            *)
(* transaction found eligible follows (create, claimsForEngineSession):     *)
(* however handlers interleave, fail or crash, nothing is issued that the   *)
(* platform could not learn of and revoke.                                  *)
THEOREM NothingIsIssuedUnfollowed == Spec => []CollectedIsFollowed
<1>1. TypeOK /\ IInv => CollectedIsFollowed
  <2>1. \A s \in Sessions : s # None
    BY IssuancesAssumption DEF IssuancesAssumption, Sessions
  <2>2. QED
    BY <2>1 DEF IInv, RowsHangTogether, IssuedIsFollowed, CollectedIsFollowed
<1>2. QED
  BY <1>1, SpecIInv, PTL

(* A settled transaction tells what the engine told of its session, and a   *)
(* refusal for want of eligibility was the evaluator's (get, create).       *)
THEOREM OutcomesAreTheEngines == Spec => []OutcomeIsTheEngines
<1>1. TypeOK /\ IInv => OutcomeIsTheEngines
  <2>1. ASSUME TypeOK, IInv, NEW i \in Issuances
        PROVE  /\ row[i].state = "NOT_ELIGIBLE" => verdict[i] = "no" /\ session[i] = "absent"
               /\ row[i].state \in TerminalStates \ {"NOT_ELIGIBLE"} =>
                    row[i].session # None /\ session[row[i].session] = row[i].state
    BY <2>1
    DEF IInv, RowsHangTogether, Unfollowed, Followed, TerminalStates, EngineOutcomes
  <2>2. QED
    BY <2>1 DEF OutcomeIsTheEngines
<1>2. QED
  BY <1>1, SpecIInv, PTL

(* However many pollers find an outcome, one callback is queued for it, and *)
(* it says what the row says (transition, before audit and callback).       *)
THEOREM CallbacksAreToldOnce == Spec => []ToldOnce
<1>1. TypeOK /\ IInv => ToldOnce
  <2>1. ASSUME TypeOK, IInv, NEW i \in Issuances
        PROVE  Len(callbacks[i]) <= 1 /\ (callbacks[i] # <<>> => callbacks[i] = <<row[i].state>>)
    <3>1. callbacks[i] = <<>> \/ callbacks[i] = <<row[i].state>>
      BY <2>1 DEF IInv, Announcements
    <3>2. Len(<<>>) <= 1 /\ Len(<<row[i].state>>) <= 1
      OBVIOUS
    <3>3. QED
      BY <3>1, <3>2
  <2>2. QED
    BY <2>1 DEF ToldOnce
<1>2. QED
  BY <1>1, SpecIInv, PTL

(* The register of attestations lists what was issued, and without a        *)
(* failure all of it once the handlers are through (settleIssued).          *)
THEOREM RegisterIsComplete == Spec => []RegisterFollowsIssuance
<1>1. TypeOK /\ IInv => RegisterFollowsIssuance
  BY DEF IInv, Registered, RegisterFollowsIssuance, Busy
<1>2. QED
  BY <1>1, SpecIInv, PTL

(* Without a failure the log of an issued attestation is the whole walk,    *)
(* whichever pollers made its moves (transition, settleIssued).             *)
THEOREM LogIsComplete == Spec => []WalkIsLogged
<1>1. TypeOK /\ IInv => WalkIsLogged
  <2>1. SUFFICES ASSUME TypeOK, IInv, NEW i \in Issuances,
                        row[i].state = "ISSUED", faults = 0, ~Busy(i)
                 PROVE  moves[i] = {Walk[1], Walk[2], Walk[3], Walk[4], Walk[5], Walk[6], Walk[7]}
    BY DEF WalkIsLogged, Walk
  <2>2. OnTheWalk(i) /\ Distance(i) = 7
    BY <2>1 DEF OnTheWalk, Distance
  <2>3. Logs(i) = {}
    BY <2>1 DEF Busy, Logs
  <2>4. moves[i] = WalkTo(7)
    BY <2>1, <2>2, <2>3 DEF IInv, LogIsTheWalk, Entries
  <2>5. 1..7 = {1, 2, 3, 4, 5, 6, 7}
    OBVIOUS
  <2>6. WalkTo(7) = {Walk[1], Walk[2], Walk[3], Walk[4], Walk[5], Walk[6], Walk[7]}
    BY <2>5 DEF WalkTo
  <2>7. QED
    BY <2>4, <2>6
<1>2. QED
  BY <1>1, SpecIInv, PTL
=============================================================================
