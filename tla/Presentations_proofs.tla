------------------------ MODULE Presentations_proofs ------------------------
(***************************************************************************)
(* Safety of Presentations, for every set of transactions, requests and    *)
(* background passes and every value of the bounds. The argument: only one *)
(* handler wins the conditional UPDATE into a terminal state, and from     *)
(* then until the end of settle() it alone announces, the outcome it wrote *)
(* and nothing else; the row cannot move any more under it. At the end,    *)
(* the service implements PresentationOutcome.                             *)
(*                                                                         *)
(* First its types: one lemma per action, it keeps every variable in its   *)
(* type, and every handler on a row that exists, which EnqueueResult needs *)
(* (the state it announces is read from that row).                         *)
(***************************************************************************)
EXTENDS Presentations, TLAPS

Working == Labels \ {"idle", "nextDue", "purge"}

(* A handler works on a row that exists. *)
WorksOnARow ==
  /\ \A h \in Handlers : pc[h] \in Working => row[req[h].p].state # "ABSENT"
  /\ \A j \in Jobs : \A due \in batch[j] : row[due.p].state # "ABSENT"

-----------------------------------------------------------------------------
(* Operators *)

(* The walk of a settlement only goes through states of the table. *)
LEMMA HopIsAState ==
  ASSUME NEW from \in PresentationStates, NEW goal \in PresentationStates
  PROVE  NextHop(from, goal) \in PresentationStates
  BY DEF NextHop, PresentationStates, NonTerminalStates, TerminalStates

(* How the named sets of states relate. *)
LEMMA StatesAreNamed ==
  /\ TerminalStates \subseteq PresentationStates
  /\ NonTerminalStates \subseteq PresentationStates
  /\ TerminalStates \cap NonTerminalStates = {}
  /\ "ABSENT" \notin PresentationStates
  /\ {"CREATED", "AWAITING_WALLET"} \subseteq NonTerminalStates
  /\ {"EXPIRED", "CANCELLED", "VERIFIED", "PROTOCOL_ERROR", "POLICY_NOT_SATISFIED"}
       \subseteq TerminalStates
  BY DEF PresentationStates, NonTerminalStates, TerminalStates

(* A handler that has returned holds well-typed locals. *)
LEMMA NoLocalsTyped == NoLocals \in Locals
  BY PresentationsAssumption, StatesAreNamed DEF NoLocals, Locals

(* Every update of a handler's locals keeps their type. *)
LEMMA LocalsUpdated ==
  ASSUME NEW l \in Locals, NEW p \in Presentations, NEW state \in PresentationStates,
         NEW next \in PresentationStates, NEW n \in Nat, NEW flag \in BOOLEAN
  PROVE  /\ [l EXCEPT !.to = state] \in Locals
         /\ [l EXCEPT !.seq = n] \in Locals
         /\ [l EXCEPT !.at = n] \in Locals
         /\ [l EXCEPT !.claims = flag] \in Locals
         /\ [l EXCEPT !.op = "get"] \in Locals
         /\ [l EXCEPT !.op = "get", !.p = p] \in Locals
         /\ [l EXCEPT !.goal = state, !.at = n] \in Locals
         /\ [l EXCEPT !.from = state, !.seq = n] \in Locals
         /\ [l EXCEPT !.from = state, !.goal = next] \in Locals
         /\ [l EXCEPT !.op = "cancel", !.p = p, !.from = state, !.goal = next] \in Locals
         /\ [l EXCEPT !.op = "expire", !.p = p, !.from = state, !.goal = next,
                      !.at = n] \in Locals
<1> USE DEF Locals
<1>1. [l EXCEPT !.to = state] \in Locals OBVIOUS
<1>2. [l EXCEPT !.seq = n] \in Locals OBVIOUS
<1>3. [l EXCEPT !.at = n] \in Locals OBVIOUS
<1>4. [l EXCEPT !.claims = flag] \in Locals OBVIOUS
<1>5. [l EXCEPT !.op = "get"] \in Locals OBVIOUS
<1>6. [l EXCEPT !.op = "get", !.p = p] \in Locals OBVIOUS
<1>7. [l EXCEPT !.goal = state, !.at = n] \in Locals OBVIOUS
<1>8. [l EXCEPT !.from = state, !.seq = n] \in Locals OBVIOUS
<1>9. [l EXCEPT !.from = state, !.goal = next] \in Locals OBVIOUS
<1>10. [l EXCEPT !.op = "cancel", !.p = p, !.from = state, !.goal = next] \in Locals
  OBVIOUS
<1>11. [l EXCEPT !.op = "expire", !.p = p, !.from = state, !.goal = next,
                !.at = n] \in Locals
  OBVIOUS
<1>12. QED
  BY <1>1, <1>2, <1>3, <1>4, <1>5, <1>6, <1>7, <1>8, <1>9, <1>10, <1>11

(* A function updated with a value of its codomain keeps its type. *)
LEMMA Updated ==
  ASSUME NEW S, NEW T, NEW f \in [S -> T], NEW x \in S, NEW v \in T
  PROVE  [f EXCEPT ![x] = v] \in [S -> T]
  OBVIOUS

(* What a handler holds, and where it may go next. *)
LEMMA LocalsAreTyped ==
  ASSUME TypeOK, NEW h \in Handlers
  PROVE  /\ req[h] \in Locals
         /\ req[h].p \in Presentations /\ req[h].from \in PresentationStates
         /\ req[h].to \in PresentationStates /\ req[h].goal \in PresentationStates
         /\ req[h].seq \in Nat /\ req[h].at \in Nat /\ req[h].claims \in BOOLEAN
         /\ now \in Nat
         /\ row[req[h].p] \in Rows
         /\ Hop(h) \in PresentationStates
  BY HopIsAState, PresentationsAssumption DEF TypeOK, Locals, Hop

(* A handler that returns or throws keeps the types. *)
LEMMA UnwindTyped ==
  ASSUME TypeOK, NEW h \in Handlers, Unwind(h)
  PROVE  pc' \in [Handlers -> Labels] /\ req' \in [Handlers -> Locals]
  BY NoLocalsTyped DEF TypeOK, Unwind, Goto, Labels

(* A handler that heads for a settlement keeps the types. *)
LEMMA SettleOnTyped ==
  ASSUME TypeOK, NEW h \in Handlers, NEW goal \in PresentationStates, SettleOn(h, goal)
  PROVE  pc' \in [Handlers -> Labels] /\ req' \in [Handlers -> Locals]
<1>1. [req[h] EXCEPT !.goal = goal, !.at = now] \in Locals
  BY LocalsUpdated, LocalsAreTyped
<1>2. QED
  BY <1>1, Updated DEF TypeOK, SettleOn, Goto, Labels

(* What a step of handler h leaves alone: the other handlers, and the row h *)
(* works on.                                                                *)
StaysOnItsRow(h) ==
  /\ \A g \in Handlers \ {h} : pc'[g] = pc[g] /\ req'[g] = req[g]
  /\ pc'[h] \in Working => req'[h].p = req[h].p

(* A handler that returns disturbs no other, and works on no row. *)
LEMMA UnwindStays ==
  ASSUME TypeOK, NEW h \in Handlers, Unwind(h)
  PROVE  StaysOnItsRow(h) /\ pc'[h] \notin Working
  BY DEF TypeOK, Unwind, Goto, StaysOnItsRow, Working

(* A handler that heads for a settlement stays on its row. *)
LEMMA SettleOnStays ==
  ASSUME TypeOK, NEW h \in Handlers, NEW goal, SettleOn(h, goal)
  PROVE  StaysOnItsRow(h)
  BY DEF TypeOK, SettleOn, Goto, StaysOnItsRow, Working, Locals

(* A step of one handler that changes no row keeps every handler on one. *)
LEMMA StillOnARow ==
  ASSUME TypeOK, WorksOnARow, NEW h \in Handlers, pc[h] \in Working,
         StaysOnItsRow(h), UNCHANGED <<row, batch>>
  PROVE  WorksOnARow'
  BY DEF WorksOnARow, StaysOnItsRow

-----------------------------------------------------------------------------
(* Actions *)

(* The initial state is well typed. *)
LEMMA InitTyped == Init => TypeOK /\ WorksOnARow
  BY PresentationsAssumption, NoLocalsTyped
  DEF Init, TypeOK, WorksOnARow, NoRow, Rows, Sessions, SessionStates, Contents,
      Labels, Working, NoTime, Purged

(* StartCreate keeps the types. *)
LEMMA StartCreateTyped ==
  ASSUME TypeOK, WorksOnARow, NEW h \in Requests, NEW p \in Presentations, StartCreate(h, p)
  PROVE  TypeOK' /\ WorksOnARow'
<1>1. now + Lifetime[p] \in Nat
  BY PresentationsAssumption DEF TypeOK
<1>2. row' \in [Presentations -> Rows]
  <2>1. PICK callback \in BOOLEAN :
          row' = [row EXCEPT ![p] =
                    [state |-> "CREATED", session |-> FALSE, callback |-> callback,
                     expiresAt |-> now + Lifetime[p], closedAt |-> NoTime]]
    BY DEF StartCreate
  <2>2. [state |-> "CREATED", session |-> FALSE, callback |-> callback,
         expiresAt |-> now + Lifetime[p], closedAt |-> NoTime] \in Rows
    BY <1>1, StatesAreNamed DEF Rows
  <2>3. QED
    BY <2>1, <2>2, Updated DEF TypeOK
<1>3. req' \in [Handlers -> Locals]
  BY StatesAreNamed, PresentationsAssumption DEF TypeOK, StartCreate, Locals, Handlers
<1>4. pc' \in [Handlers -> Labels]
  BY DEF TypeOK, StartCreate, Goto, Labels, Handlers
<1>5. TypeOK'
  BY <1>2, <1>3, <1>4 DEF TypeOK, StartCreate, database, external
<1>6. WorksOnARow'
  BY <1>5, StatesAreNamed
  DEF TypeOK, WorksOnARow, StartCreate, Working, Labels, Goto, database, external, Handlers
<1>7. QED
  BY <1>5, <1>6

(* StartGet keeps the types. *)
LEMMA StartGetTyped ==
  ASSUME TypeOK, WorksOnARow, NEW h \in Requests, NEW p \in Presentations, StartGet(h, p)
  PROVE  TypeOK' /\ WorksOnARow'
<1>1. req' \in [Handlers -> Locals]
  BY LocalsUpdated, LocalsAreTyped DEF TypeOK, StartGet, Handlers
<1>2. pc' \in [Handlers -> Labels]
  BY DEF TypeOK, StartGet, Goto, Labels, Handlers
<1>3. TypeOK'
  BY <1>1, <1>2 DEF TypeOK, StartGet, database, external
<1>4. WorksOnARow'
  BY <1>3, StatesAreNamed
  DEF TypeOK, WorksOnARow, StartGet, Working, Labels, Goto, database, external, Handlers
<1>5. QED
  BY <1>3, <1>4

(* StartCancel keeps the types. *)
LEMMA StartCancelTyped ==
  ASSUME TypeOK, WorksOnARow, NEW h \in Requests, NEW p \in Presentations, StartCancel(h, p)
  PROVE  TypeOK' /\ WorksOnARow'
<1>1. req' \in [Handlers -> Locals]
  BY LocalsUpdated, LocalsAreTyped, StatesAreNamed DEF TypeOK, StartCancel, Handlers
<1>2. pc' \in [Handlers -> Labels]
  BY DEF TypeOK, StartCancel, Goto, Labels, Handlers
<1>3. TypeOK'
  BY <1>1, <1>2 DEF TypeOK, StartCancel, database, external
<1>4. WorksOnARow'
  BY <1>3, StatesAreNamed
  DEF TypeOK, WorksOnARow, StartCancel, Working, Labels, Goto, database, external,
      Handlers
<1>5. QED
  BY <1>3, <1>4

(* Transition keeps the types. *)
LEMMA TransitionTyped ==
  ASSUME TypeOK, WorksOnARow, NEW h \in Handlers, Transition(h)
  PROVE  TypeOK' /\ WorksOnARow'
<1>1. row' \in [Presentations -> Rows]
  BY LocalsAreTyped, ZenonT(40) DEF TypeOK, Transition, Rows
<1>2. req' \in [Handlers -> Locals]
  BY LocalsUpdated, LocalsAreTyped DEF TypeOK, Transition
<1>3. pc' \in [Handlers -> Labels]
  BY DEF TypeOK, Transition, Goto, Labels
<1>4. TypeOK'
  BY <1>1, <1>2, <1>3 DEF TypeOK, Transition, database, external
<1>5. WorksOnARow'
  BY <1>4, LocalsAreTyped, StatesAreNamed
  DEF TypeOK, WorksOnARow, Transition, Working, Labels, Goto, Rows, database, external
<1>6. QED
  BY <1>4, <1>5

(* TransitionRefused keeps the types. *)
LEMMA TransitionRefusedTyped ==
  ASSUME TypeOK, WorksOnARow, NEW h \in Handlers, TransitionRefused(h)
  PROVE  TypeOK' /\ WorksOnARow'
<1>1. pc' \in [Handlers -> Labels] /\ req' \in [Handlers -> Locals]
  BY UnwindTyped DEF TypeOK, TransitionRefused
<1>2. TypeOK'
  BY <1>1 DEF TypeOK, TransitionRefused, database, external
<1>3. WorksOnARow'
  BY <1>2, LocalsAreTyped, StatesAreNamed
  DEF TypeOK, WorksOnARow, TransitionRefused, Working, Labels, Goto, Unwind, database,
      external
<1>4. QED
  BY <1>2, <1>3

(* ReadLog keeps the types. *)
LEMMA ReadLogTyped ==
  ASSUME TypeOK, WorksOnARow, NEW h \in Handlers, ReadLog(h)
  PROVE  TypeOK' /\ WorksOnARow'
<1>1. req' \in [Handlers -> Locals]
  <2>1. PICK last \in {m.seq : m \in history[req[h].p]} \cup {0} :
          req' = [req EXCEPT ![h] = [@ EXCEPT !.seq = last + 1]]
    BY DEF ReadLog
  <2>2. last + 1 \in Nat
    BY LocalsAreTyped DEF TypeOK, Moves
  <2>3. QED
    BY <2>1, <2>2, LocalsUpdated, LocalsAreTyped DEF TypeOK
<1>2. pc' \in [Handlers -> Labels]
  BY DEF TypeOK, ReadLog, Goto, Labels
<1>3. TypeOK'
  BY <1>1, <1>2 DEF TypeOK, ReadLog, database, external
<1>4. StaysOnItsRow(h)
  BY LocalsAreTyped DEF TypeOK, ReadLog, Goto, StaysOnItsRow, Locals
<1>5. WorksOnARow'
  BY <1>4, StillOnARow DEF ReadLog, Working, Labels, database
<1>6. QED
  BY <1>3, <1>5

(* AppendLog keeps the types. *)
LEMMA AppendLogTyped ==
  ASSUME TypeOK, WorksOnARow, NEW h \in Handlers, AppendLog(h)
  PROVE  TypeOK' /\ WorksOnARow'
<1>1. history' \in [Presentations -> SUBSET Moves]
  BY LocalsAreTyped DEF TypeOK, AppendLog, Moves
<1>2. /\ pc' \in [Handlers -> Labels] /\ req' \in [Handlers -> Locals]
      /\ StaysOnItsRow(h)
  <2>1. CASE req[h].op = "create" /\ req[h].to = "PROTOCOL_ERROR"
    BY <2>1, UnwindTyped, UnwindStays DEF AppendLog
  <2>2. CASE ~(req[h].op = "create" /\ req[h].to = "PROTOCOL_ERROR")
    <3>1. req' = [req EXCEPT ![h] = [@ EXCEPT !.from = req[h].to, !.seq = 0]]
      BY <2>2 DEF AppendLog
    <3>2. pc' = [pc EXCEPT ![h] = AfterMove(h)]
      BY <2>2 DEF AppendLog, Goto
    <3>3. AfterMove(h) \in Labels
      BY DEF AfterMove, Labels
    <3>4. [req[h] EXCEPT !.from = req[h].to, !.seq = 0] \in Locals
      BY LocalsUpdated, LocalsAreTyped
    <3>5. QED
      BY <3>1, <3>2, <3>3, <3>4, LocalsAreTyped DEF TypeOK, StaysOnItsRow, Locals
  <2>3. QED
    BY <2>1, <2>2
<1>3. TypeOK'
  BY <1>1, <1>2 DEF TypeOK, AppendLog, database, external
<1>4. WorksOnARow'
  BY <1>2, StillOnARow DEF AppendLog, Working, Labels
<1>5. QED
  BY <1>3, <1>4

(* SizeSession keeps the types. *)
LEMMA SizeSessionTyped ==
  ASSUME TypeOK, WorksOnARow, NEW h \in Handlers, SizeSession(h)
  PROVE  TypeOK' /\ WorksOnARow'
<1>1. engineTtl' \in Nat
  BY LocalsAreTyped, PresentationsAssumption DEF SizeSession
<1>2. pc' \in [Handlers -> Labels]
  BY DEF TypeOK, SizeSession, Goto, Labels
<1>3. TypeOK'
  BY <1>1, <1>2 DEF TypeOK, SizeSession, database, external
<1>4. WorksOnARow'
  BY StillOnARow DEF TypeOK, SizeSession, Working, Labels, Goto, StaysOnItsRow, database
<1>5. QED
  BY <1>3, <1>4

(* Opening an engine session keeps the sessions well typed. *)
LEMMA SessionOpened ==
  ASSUME TypeOK, NEW p \in Presentations, OpenSession(p)
  PROVE  engine' \in [Presentations -> Sessions]
<1>1. now + engineTtl \in Nat
  BY PresentationsAssumption DEF TypeOK
<1>2. [engine[p] EXCEPT !.status = "active", !.expiresAt = now + engineTtl] \in Sessions
  BY <1>1 DEF TypeOK, Sessions, SessionStates
<1>3. QED
  BY <1>2, Updated DEF TypeOK, OpenSession

(* Offer keeps the types. *)
LEMMA OfferTyped ==
  ASSUME TypeOK, WorksOnARow, NEW h \in Handlers, Offer(h)
  PROVE  TypeOK' /\ WorksOnARow'
<1>1. engine' \in [Presentations -> Sessions]
  BY SessionOpened, LocalsAreTyped DEF Offer
<1>2. pc' \in [Handlers -> Labels]
  BY DEF TypeOK, Offer, Goto, Labels
<1>3. TypeOK'
  BY <1>1, <1>2 DEF TypeOK, Offer, database, external
<1>4. WorksOnARow'
  BY StillOnARow DEF TypeOK, Offer, Working, Labels, Goto, StaysOnItsRow, database
<1>5. QED
  BY <1>3, <1>4

(* EngineRefuses keeps the types. *)
LEMMA EngineRefusesTyped ==
  ASSUME TypeOK, WorksOnARow, NEW h \in Handlers, EngineRefuses(h)
  PROVE  TypeOK' /\ WorksOnARow'
<1>1. engine' \in [Presentations -> Sessions]
  BY SessionOpened, LocalsAreTyped DEF EngineRefuses, TypeOK
<1>2. [req[h] EXCEPT !.goal = "PROTOCOL_ERROR", !.at = now] \in Locals
  BY LocalsUpdated, LocalsAreTyped, StatesAreNamed
<1>3. pc' \in [Handlers -> Labels] /\ req' \in [Handlers -> Locals]
  BY <1>2 DEF TypeOK, EngineRefuses, Goto, Labels
<1>4. TypeOK'
  BY <1>1, <1>3 DEF TypeOK, EngineRefuses, database, external
<1>5. StaysOnItsRow(h)
  BY LocalsAreTyped DEF TypeOK, EngineRefuses, Goto, StaysOnItsRow, Locals
<1>6. WorksOnARow'
  BY <1>5, StillOnARow DEF EngineRefuses, Working, Labels, database
<1>7. QED
  BY <1>4, <1>6

(* AttachEngineSession keeps the types. *)
LEMMA AttachEngineSessionTyped ==
  ASSUME TypeOK, WorksOnARow, NEW h \in Handlers, AttachEngineSession(h)
  PROVE  TypeOK' /\ WorksOnARow'
<1>1. row' \in [Presentations -> Rows]
  BY LocalsAreTyped DEF TypeOK, AttachEngineSession, Rows
<1>2. pc' \in [Handlers -> Labels]
  BY DEF TypeOK, AttachEngineSession, Goto, Labels
<1>3. TypeOK'
  BY <1>1, <1>2 DEF TypeOK, AttachEngineSession, database, external
<1>4. WorksOnARow'
  BY <1>3, LocalsAreTyped, StatesAreNamed
  DEF TypeOK, WorksOnARow, AttachEngineSession, Working, Labels, Goto, Rows, database,
      external
<1>5. QED
  BY <1>3, <1>4

(* FinishCreate keeps the types. *)
LEMMA FinishCreateTyped ==
  ASSUME TypeOK, WorksOnARow, NEW h \in Handlers, FinishCreate(h)
  PROVE  TypeOK' /\ WorksOnARow'
<1>1. pc' \in [Handlers -> Labels] /\ req' \in [Handlers -> Locals]
  BY UnwindTyped DEF TypeOK, FinishCreate
<1>2. issued' \in [Presentations -> BOOLEAN]
  BY DEF TypeOK, FinishCreate
<1>3. TypeOK'
  BY <1>1, <1>2 DEF TypeOK, FinishCreate, database, external
<1>4. WorksOnARow'
  BY <1>3, LocalsAreTyped, StatesAreNamed
  DEF TypeOK, WorksOnARow, FinishCreate, Working, Labels, Goto, Unwind, database,
      external
<1>5. QED
  BY <1>3, <1>4

(* Find keeps the types. *)
LEMMA FindTyped ==
  ASSUME TypeOK, WorksOnARow, NEW h \in Handlers, Find(h)
  PROVE  TypeOK' /\ WorksOnARow'
<1>1. req' \in [Handlers -> Locals]
  BY LocalsUpdated, LocalsAreTyped DEF TypeOK, Find, WorksOnARow, Working, Labels, Rows
<1>2. pc' \in [Handlers -> Labels]
  BY DEF TypeOK, Find, Goto, Labels
<1>3. TypeOK'
  BY <1>1, <1>2 DEF TypeOK, Find, database, external
<1>4. WorksOnARow'
  BY <1>3, LocalsAreTyped, StatesAreNamed
  DEF TypeOK, WorksOnARow, Find, Working, Labels, Goto, database, external
<1>5. QED
  BY <1>3, <1>4

(* Advance keeps the types. *)
LEMMA AdvanceTyped ==
  ASSUME TypeOK, WorksOnARow, NEW h \in Handlers, Advance(h)
  PROVE  TypeOK' /\ WorksOnARow'
<1>1. /\ pc' \in [Handlers -> Labels] /\ req' \in [Handlers -> Locals]
      /\ StaysOnItsRow(h)
  <2>1. CASE SettleOn(h, "EXPIRED")
    BY <2>1, SettleOnTyped, SettleOnStays, StatesAreNamed
  <2>2. CASE (Goto(h, "status") \/ Goto(h, "reply")) /\ UNCHANGED req
    BY <2>2 DEF TypeOK, Goto, Labels, StaysOnItsRow
  <2>3. QED
    BY <2>1, <2>2 DEF Advance
<1>2. TypeOK'
  BY <1>1 DEF TypeOK, Advance, database, external
<1>3. WorksOnARow'
  BY <1>1, StillOnARow DEF Advance, Working, Labels, database
<1>4. QED
  BY <1>2, <1>3

(* Status keeps the types. *)
LEMMA StatusTyped ==
  ASSUME TypeOK, WorksOnARow, NEW h \in Handlers, Status(h)
  PROVE  TypeOK' /\ WorksOnARow'
<1>1. /\ pc' \in [Handlers -> Labels] /\ req' \in [Handlers -> Locals]
      /\ StaysOnItsRow(h)
  <2>1. CASE (Goto(h, "reply") \/ Goto(h, "process")) /\ UNCHANGED req
    BY <2>1 DEF TypeOK, Goto, Labels, StaysOnItsRow
  <2>2. CASE Unwind(h)
    BY <2>2, UnwindTyped, UnwindStays
  <2>3. CASE \E status \in TerminalStates : SettleOn(h, status)
    BY <2>3, SettleOnTyped, SettleOnStays, StatesAreNamed
  <2>4. QED
    BY <2>1, <2>2, <2>3 DEF Status
<1>2. TypeOK'
  BY <1>1 DEF TypeOK, Status, database, external
<1>3. WorksOnARow'
  BY <1>1, StillOnARow DEF Status, Working, Labels, database
<1>4. QED
  BY <1>2, <1>3

(* Process keeps the types. *)
LEMMA ProcessTyped ==
  ASSUME TypeOK, WorksOnARow, NEW h \in Handlers, Process(h)
  PROVE  TypeOK' /\ WorksOnARow'
<1>1. /\ pc' \in [Handlers -> Labels] /\ req' \in [Handlers -> Locals]
      /\ StaysOnItsRow(h)
  <2>1. CASE Unwind(h)
    BY <2>1, UnwindTyped, UnwindStays
  <2>2. CASE SettleOn(h, "PROTOCOL_ERROR") \/ SettleOn(h, "POLICY_NOT_SATISFIED")
    BY <2>2, SettleOnTyped, SettleOnStays, StatesAreNamed
  <2>3. CASE req' = [req EXCEPT ![h] = [@ EXCEPT !.at = now]] /\ Goto(h, "save")
    <3>1. [req[h] EXCEPT !.at = now] \in Locals
      BY LocalsUpdated, LocalsAreTyped
    <3>2. QED
      BY <2>3, <3>1, LocalsAreTyped DEF TypeOK, Goto, Labels, StaysOnItsRow, Locals
  <2>4. QED
    BY <2>1, <2>2, <2>3 DEF Process
<1>2. TypeOK'
  BY <1>1 DEF TypeOK, Process, database, external
<1>3. WorksOnARow'
  BY <1>1, StillOnARow DEF Process, Working, Labels, database
<1>4. QED
  BY <1>2, <1>3

(* SaveResult keeps the types. *)
LEMMA SaveResultTyped ==
  ASSUME TypeOK, WorksOnARow, NEW h \in Handlers, SaveResult(h)
  PROVE  TypeOK' /\ WorksOnARow'
<1>1. pc' \in [Handlers -> Labels] /\ req' \in [Handlers -> Locals] /\ StaysOnItsRow(h)
  BY SettleOnTyped, SettleOnStays, StatesAreNamed DEF SaveResult
<1>2. req[h].at + Retention \in Nat
  BY LocalsAreTyped, PresentationsAssumption
<1>3. result' \in [Presentations -> Nat \cup {NoTime, Purged}]
  BY <1>2, LocalsAreTyped DEF TypeOK, SaveResult
<1>4. TypeOK'
  BY <1>1, <1>3 DEF TypeOK, SaveResult, database, external
<1>5. WorksOnARow'
  BY <1>1, StillOnARow DEF SaveResult, Working, Labels
<1>6. QED
  BY <1>4, <1>5

(* Reply keeps the types. *)
LEMMA ReplyTyped ==
  ASSUME TypeOK, WorksOnARow, NEW h \in Handlers, Reply(h)
  PROVE  TypeOK' /\ WorksOnARow'
<1>1. pc' \in [Handlers -> Labels] /\ req' \in [Handlers -> Locals] /\ StaysOnItsRow(h)
  BY UnwindTyped, UnwindStays DEF Reply
<1>2. replies' \in [Presentations -> SUBSET Events]
  <2> DEFINE told == req[h].from = "VERIFIED" /\ result[req[h].p] \in Nat
             view == [status |-> req[h].from, claims |-> told]
  <2>1. view \in Events
    <3>1. told \in BOOLEAN
      OBVIOUS
    <3>2. QED
      BY <3>1, LocalsAreTyped DEF Events
  <2>2. \/ replies' = [replies EXCEPT ![req[h].p] = @ \cup {view}]
        \/ replies' = replies
    BY DEF Reply
  <2> HIDE DEF view
  <2>3. replies[req[h].p] \cup {view} \in SUBSET Events
    BY <2>1, LocalsAreTyped DEF TypeOK
  <2>4. QED
    BY <2>2, <2>3, LocalsAreTyped, Updated DEF TypeOK
<1>3. TypeOK'
  BY <1>1, <1>2 DEF TypeOK, Reply, database, external
<1>4. WorksOnARow'
  BY <1>1, StillOnARow DEF Reply, Working, Labels, database
<1>5. QED
  BY <1>3, <1>4

(* AuditSettlement keeps the types. *)
LEMMA AuditSettlementTyped ==
  ASSUME TypeOK, WorksOnARow, NEW h \in Handlers, AuditSettlement(h)
  PROVE  TypeOK' /\ WorksOnARow'
<1>1. audit' \in [Presentations -> SUBSET PresentationStates]
  BY LocalsAreTyped DEF TypeOK, AuditSettlement
<1>2. /\ pc' \in [Handlers -> Labels] /\ req' \in [Handlers -> Locals]
      /\ StaysOnItsRow(h)
  <2>1. CASE req[h].op = "cancel"
    <3>1. [req[h] EXCEPT !.op = "get"] \in Locals
      BY LocalsUpdated, LocalsAreTyped
    <3>2. /\ pc' = [pc EXCEPT ![h] = "find"]
          /\ req' = [req EXCEPT ![h] = [@ EXCEPT !.op = "get"]]
      BY <2>1 DEF AuditSettlement, Goto
    <3>3. "find" \in Labels /\ [req[h] EXCEPT !.op = "get"].p = req[h].p
      BY LocalsAreTyped DEF Labels, Locals
    <3>4. QED
      BY <3>1, <3>2, <3>3, LocalsAreTyped DEF TypeOK, StaysOnItsRow
  <2>2. CASE req[h].op # "cancel"
    BY <2>2 DEF TypeOK, AuditSettlement, Goto, Labels, StaysOnItsRow
  <2>3. QED
    BY <2>1, <2>2
<1>3. TypeOK'
  BY <1>1, <1>2 DEF TypeOK, AuditSettlement, external
<1>4. WorksOnARow'
  BY <1>2, StillOnARow DEF AuditSettlement, Working, Labels
<1>5. QED
  BY <1>3, <1>4

(* The return of settle() keeps the types. *)
LEMMA SettleReturnsTyped ==
  ASSUME TypeOK, NEW h \in Handlers, SettleReturns(h)
  PROVE  /\ pc' \in [Handlers -> Labels] /\ req' \in [Handlers -> Locals]
         /\ StaysOnItsRow(h)
<1>1. CASE h \in Jobs
  BY <1>1, UnwindTyped, UnwindStays DEF SettleReturns
<1>2. CASE h \notin Jobs
  BY <1>2 DEF TypeOK, SettleReturns, Goto, Labels, StaysOnItsRow
<1>3. QED
  BY <1>1, <1>2

(* ReadForCallback keeps the types. *)
LEMMA ReadForCallbackTyped ==
  ASSUME TypeOK, WorksOnARow, NEW h \in Handlers, ReadForCallback(h)
  PROVE  TypeOK' /\ WorksOnARow'
<1> DEFINE found == req[h].goal = "VERIFIED" /\ result[req[h].p] \in Nat
<1>1. /\ pc' \in [Handlers -> Labels] /\ req' \in [Handlers -> Locals]
      /\ StaysOnItsRow(h)
  <2>1. CASE SettleReturns(h)
    BY <2>1, SettleReturnsTyped
  <2>2. CASE req' = [req EXCEPT ![h] = [@ EXCEPT !.claims = found]] /\ Goto(h, "enqueue")
    <3>1. found \in BOOLEAN
      OBVIOUS
    <3> HIDE DEF found
    <3>2. [req[h] EXCEPT !.claims = found] \in Locals
      BY <3>1, LocalsUpdated, LocalsAreTyped
    <3>3. QED
      BY <2>2, <3>2, LocalsAreTyped DEF TypeOK, Goto, Labels, StaysOnItsRow, Locals
  <2>3. QED
    BY <2>1, <2>2 DEF ReadForCallback
<1>2. TypeOK'
  BY <1>1 DEF TypeOK, ReadForCallback, database, external
<1>3. WorksOnARow'
  BY <1>1, StillOnARow DEF ReadForCallback, Working, Labels, database
<1>4. QED
  BY <1>2, <1>3

(* EnqueueResult keeps the types. *)
LEMMA EnqueueResultTyped ==
  ASSUME TypeOK, WorksOnARow, NEW h \in Handlers, EnqueueResult(h)
  PROVE  TypeOK' /\ WorksOnARow'
<1> DEFINE event == [status |-> row[req[h].p].state, claims |-> req[h].claims]
<1>1. pc' \in [Handlers -> Labels] /\ req' \in [Handlers -> Locals] /\ StaysOnItsRow(h)
  BY SettleReturnsTyped DEF EnqueueResult
<1>2. queue' \in [Presentations -> Seq(Events)]
  <2>1. event \in Events
    BY LocalsAreTyped DEF EnqueueResult, WorksOnARow, Working, Labels, Rows, Events
  <2>2. \/ queue' = [queue EXCEPT ![req[h].p] = Append(@, event)]
        \/ queue' = queue
    BY DEF EnqueueResult
  <2>3. queue[req[h].p] \in Seq(Events)
    BY LocalsAreTyped DEF TypeOK
  <2> HIDE DEF event
  <2>4. Append(queue[req[h].p], event) \in Seq(Events)
    BY <2>1, <2>3
  <2>5. QED
    BY <2>2, <2>4, LocalsAreTyped, Updated DEF TypeOK
<1>3. TypeOK'
  BY <1>1, <1>2 DEF TypeOK, EnqueueResult, external
<1>4. WorksOnARow'
  BY <1>1, StillOnARow DEF EnqueueResult, Working, Labels
<1>5. QED
  BY <1>3, <1>4

(* CancelSession keeps the types. *)
LEMMA CancelSessionTyped ==
  ASSUME TypeOK, WorksOnARow, NEW h \in Handlers, CancelSession(h)
  PROVE  TypeOK' /\ WorksOnARow'
<1>1. engine' \in [Presentations -> Sessions]
  <2>1. [engine[req[h].p] EXCEPT !.status = "deleted", !.content = "none"] \in Sessions
    <3>1. engine[req[h].p] \in Sessions
      BY LocalsAreTyped DEF TypeOK
    <3>2. "deleted" \in SessionStates /\ "none" \in Contents
      BY DEF SessionStates, Contents
    <3>3. QED
      BY <3>1, <3>2 DEF Sessions
  <2>2. QED
    BY <2>1, LocalsAreTyped, Updated DEF TypeOK, CancelSession
<1>2. [req[h] EXCEPT !.at = now] \in Locals
  BY LocalsUpdated, LocalsAreTyped
<1>3. pc' \in [Handlers -> Labels] /\ req' \in [Handlers -> Locals]
  BY <1>2 DEF TypeOK, CancelSession, Goto, Labels
<1>4. TypeOK'
  BY <1>1, <1>3 DEF TypeOK, CancelSession, database, external
<1>5. StaysOnItsRow(h)
  BY LocalsAreTyped DEF TypeOK, CancelSession, Goto, StaysOnItsRow, Locals
<1>6. WorksOnARow'
  BY <1>5, StillOnARow DEF CancelSession, Working, Labels, database
<1>7. QED
  BY <1>4, <1>6

(* Fault keeps the types. *)
LEMMA FaultTyped ==
  ASSUME TypeOK, WorksOnARow, NEW h \in Handlers, Fault(h)
  PROVE  TypeOK' /\ WorksOnARow'
<1>1. /\ pc' \in [Handlers -> Labels] /\ req' \in [Handlers -> Locals]
      /\ StaysOnItsRow(h) /\ pc'[h] \notin Working
  <2>1. CASE pc[h] = "purge"
    BY <2>1 DEF TypeOK, Fault, Goto, Labels, Working, StaysOnItsRow
  <2>2. CASE pc[h] # "purge"
    BY <2>2, UnwindTyped, UnwindStays DEF Fault
  <2>3. QED
    BY <2>1, <2>2
<1>2. faults' \in 0..MaxFaults
  BY PresentationsAssumption DEF TypeOK, Fault
<1>3. TypeOK'
  BY <1>1, <1>2 DEF TypeOK, Fault, database, external
<1>4. WorksOnARow'
  BY <1>1 DEF WorksOnARow, StaysOnItsRow, Fault, database
<1>5. QED
  BY <1>3, <1>4

(* FindExpirable keeps the types. *)
LEMMA FindExpirableTyped ==
  ASSUME TypeOK, WorksOnARow, NEW j \in Jobs, FindExpirable(j)
  PROVE  TypeOK' /\ WorksOnARow'
<1>1. batch' \in [Jobs -> SUBSET Due]
  BY DEF TypeOK, FindExpirable, Expirable, Due, Rows, Handlers
<1>2. pc' \in [Handlers -> Labels]
  BY DEF TypeOK, FindExpirable, Goto, Labels, Handlers
<1>3. TypeOK'
  BY <1>1, <1>2 DEF TypeOK, FindExpirable, database, external
<1>4. WorksOnARow'
  BY <1>3, StatesAreNamed
  DEF TypeOK, WorksOnARow, FindExpirable, Working, Labels, Goto, Expirable, database,
      external, Handlers
<1>5. QED
  BY <1>3, <1>4

(* ExpireNext keeps the types. *)
LEMMA ExpireNextTyped ==
  ASSUME TypeOK, WorksOnARow, NEW j \in Jobs, ExpireNext(j)
  PROVE  TypeOK' /\ WorksOnARow'
<1>1. PICK due \in batch[j] :
        /\ batch' = [batch EXCEPT ![j] = @ \ {due}]
        /\ req' = [req EXCEPT ![j] =
                     [@ EXCEPT !.op = "expire", !.p = due.p, !.from = due.from,
                               !.goal = "EXPIRED", !.at = now]]
  BY DEF ExpireNext
<1>2. j \in Handlers /\ due.p \in Presentations /\ due.from \in PresentationStates
  BY DEF TypeOK, Due, Handlers
<1>3. [req[j] EXCEPT !.op = "expire", !.p = due.p, !.from = due.from,
                     !.goal = "EXPIRED", !.at = now] \in Locals
  BY <1>2, LocalsUpdated, LocalsAreTyped, StatesAreNamed
<1>4. pc' \in [Handlers -> Labels] /\ req' \in [Handlers -> Locals]
  BY <1>1, <1>2, <1>3 DEF TypeOK, ExpireNext, Goto, Labels
<1>5. batch' \in [Jobs -> SUBSET Due]
  BY <1>1 DEF TypeOK
<1>6. TypeOK'
  BY <1>4, <1>5 DEF TypeOK, ExpireNext, database, external
<1>7. row[due.p].state # "ABSENT" /\ req'[j].p = due.p
  BY <1>1, <1>2, <1>3, LocalsAreTyped DEF WorksOnARow, TypeOK, Locals
<1>8. WorksOnARow'
  BY <1>1, <1>2, <1>7 DEF TypeOK, WorksOnARow, ExpireNext, Goto, database
<1>9. QED
  BY <1>6, <1>8

(* ExpiryPassDone keeps the types. *)
LEMMA ExpiryPassDoneTyped ==
  ASSUME TypeOK, WorksOnARow, NEW j \in Jobs, ExpiryPassDone(j)
  PROVE  TypeOK' /\ WorksOnARow'
<1>1. pc' \in [Handlers -> Labels]
  BY DEF TypeOK, ExpiryPassDone, Goto, Labels, Handlers
<1>2. TypeOK'
  BY <1>1 DEF TypeOK, ExpiryPassDone, database, external
<1>3. WorksOnARow'
  BY <1>2, StatesAreNamed
  DEF TypeOK, WorksOnARow, ExpiryPassDone, Working, Labels, Goto, database, external,
      Handlers
<1>4. QED
  BY <1>2, <1>3

(* PurgeExpiredResults keeps the types. *)
LEMMA PurgeExpiredResultsTyped ==
  ASSUME TypeOK, WorksOnARow, NEW j \in Jobs, PurgeExpiredResults(j)
  PROVE  TypeOK' /\ WorksOnARow'
<1>1. result' \in [Presentations -> Nat \cup {NoTime, Purged}]
  BY DEF TypeOK, PurgeExpiredResults, Handlers
<1>2. pc' \in [Handlers -> Labels]
  BY DEF TypeOK, PurgeExpiredResults, Goto, Labels, Handlers
<1>3. TypeOK'
  BY <1>1, <1>2 DEF TypeOK, PurgeExpiredResults, database, external
<1>4. WorksOnARow'
  BY <1>3, StatesAreNamed
  DEF TypeOK, WorksOnARow, PurgeExpiredResults, Working, Labels, Goto, database,
      external, Handlers
<1>5. QED
  BY <1>3, <1>4

(* WalletAnswers keeps the types. *)
LEMMA WalletAnswersTyped ==
  ASSUME TypeOK, WorksOnARow, NEW p \in Presentations, WalletAnswers(p)
  PROVE  TypeOK' /\ WorksOnARow'
<1>1. PICK outcome \in EngineOutcomes, content \in Contents :
        engine' = [engine EXCEPT ![p] =
                     [@ EXCEPT !.status = outcome, !.content = content]]
  BY DEF WalletAnswers
<1>2. engine' \in [Presentations -> Sessions]
  BY <1>1 DEF TypeOK, Sessions, SessionStates
<1>3. TypeOK'
  BY <1>2 DEF TypeOK, WalletAnswers, database
<1>4. WorksOnARow'
  BY DEF WorksOnARow, WalletAnswers, database
<1>5. QED
  BY <1>3, <1>4

(* EngineFails keeps the types. *)
LEMMA EngineFailsTyped ==
  ASSUME TypeOK, WorksOnARow, NEW p \in Presentations, EngineFails(p)
  PROVE  TypeOK' /\ WorksOnARow'
<1>1. engine' \in [Presentations -> Sessions]
  BY ZenonT(40) DEF TypeOK, EngineFails, Sessions, SessionStates
<1>2. TypeOK'
  BY <1>1 DEF TypeOK, EngineFails, database, external
<1>3. WorksOnARow'
  BY <1>2, StatesAreNamed
  DEF TypeOK, WorksOnARow, EngineFails, Working, Labels, Goto, database, external
<1>4. QED
  BY <1>2, <1>3

(* EngineReaps keeps the types. *)
LEMMA EngineReapsTyped ==
  ASSUME TypeOK, WorksOnARow, NEW p \in Presentations, EngineReaps(p)
  PROVE  TypeOK' /\ WorksOnARow'
<1>1. engine' \in [Presentations -> Sessions]
  <2>1. /\ [engine[p] EXCEPT !.status = "EXPIRED"] \in Sessions
        /\ [engine[p] EXCEPT !.content = "none"] \in Sessions
    BY DEF TypeOK, Sessions, SessionStates, Contents
  <2>2. QED
    BY <2>1, Updated DEF TypeOK, EngineReaps
<1>2. TypeOK'
  BY <1>1 DEF TypeOK, EngineReaps, database
<1>3. WorksOnARow'
  BY DEF WorksOnARow, EngineReaps, database
<1>4. QED
  BY <1>2, <1>3

(* Crash keeps the types. *)
LEMMA CrashTyped ==
  ASSUME TypeOK, WorksOnARow, Crash
  PROVE  TypeOK' /\ WorksOnARow'
<1>1. pc' \in [Handlers -> Labels] /\ req' \in [Handlers -> Locals]
  BY NoLocalsTyped DEF TypeOK, Crash, Labels
<1>2. faults' \in 0..MaxFaults /\ batch' \in [Jobs -> SUBSET Due]
  BY PresentationsAssumption DEF TypeOK, Crash
<1>3. TypeOK'
  BY <1>1, <1>2 DEF TypeOK, Crash, database, external
<1>4. WorksOnARow'
  BY <1>3, StatesAreNamed
  DEF TypeOK, WorksOnARow, Crash, Working, Labels, Goto, database, external
<1>5. QED
  BY <1>3, <1>4

(* Tick keeps the types. *)
LEMMA TickTyped ==
  ASSUME TypeOK, WorksOnARow, Tick
  PROVE  TypeOK' /\ WorksOnARow'
<1>1. now' \in 0..MaxTime
  BY PresentationsAssumption DEF TypeOK, Tick
<1>2. TypeOK'
  BY <1>1 DEF TypeOK, Tick, database, external
<1>3. WorksOnARow'
  BY <1>2, StatesAreNamed
  DEF TypeOK, WorksOnARow, Tick, Working, Labels, Goto, database, external
<1>4. QED
  BY <1>2, <1>3

-----------------------------------------------------------------------------
(* Every step keeps the types. *)
LEMMA NextTyped ==
  ASSUME TypeOK, WorksOnARow, [Next]_vars
  PROVE  TypeOK' /\ WorksOnARow'
<1>1. CASE UNCHANGED vars
  BY <1>1 DEF vars, database, external, TypeOK, WorksOnARow
<1>2. ASSUME NEW h \in Requests, Call(h)
      PROVE  TypeOK' /\ WorksOnARow'
  BY <1>2, StartCreateTyped, StartGetTyped, StartCancelTyped DEF Call
<1>3. ASSUME NEW h \in Handlers, Proceed(h)
      PROVE  TypeOK' /\ WorksOnARow'
  <2>1. CASE Transition(h) \/ TransitionRefused(h) \/ ReadLog(h) \/ AppendLog(h)
    BY <2>1, TransitionTyped, TransitionRefusedTyped, ReadLogTyped, AppendLogTyped
  <2>2. CASE \/ SizeSession(h) \/ Offer(h) \/ EngineRefuses(h)
             \/ AttachEngineSession(h) \/ FinishCreate(h)
    BY <2>2, SizeSessionTyped, OfferTyped, EngineRefusesTyped,
       AttachEngineSessionTyped, FinishCreateTyped
  <2>3. CASE \/ Find(h) \/ Advance(h) \/ Status(h) \/ Process(h) \/ SaveResult(h)
             \/ Reply(h)
    BY <2>3, FindTyped, AdvanceTyped, StatusTyped, ProcessTyped, SaveResultTyped,
       ReplyTyped
  <2>4. CASE \/ AuditSettlement(h) \/ ReadForCallback(h) \/ EnqueueResult(h)
             \/ CancelSession(h)
    BY <2>4, AuditSettlementTyped, ReadForCallbackTyped, EnqueueResultTyped,
       CancelSessionTyped
  <2>5. QED
    BY <1>3, <2>1, <2>2, <2>3, <2>4 DEF Proceed
<1>4. ASSUME NEW j \in Jobs, JobStep(j)
      PROVE  TypeOK' /\ WorksOnARow'
  BY <1>4, FindExpirableTyped, ExpireNextTyped, ExpiryPassDoneTyped,
     PurgeExpiredResultsTyped DEF JobStep
<1>5. CASE Environment
  BY <1>5, TickTyped, WalletAnswersTyped, EngineFailsTyped, EngineReapsTyped
  DEF Environment
<1>6. QED
  BY <1>1, <1>2, <1>3, <1>4, <1>5, FaultTyped, CrashTyped DEF Next

(* Every handler works on a row that exists, and every variable holds a     *)
(* value of its type.                                                       *)
THEOREM TypeInvariant == Spec => [](TypeOK /\ WorksOnARow)
<1>1. TypeOK /\ WorksOnARow /\ [Next]_vars => (TypeOK /\ WorksOnARow)'
  BY NextTyped
<1>2. QED
  BY <1>1, InitTyped, PTL DEF Spec

(* Type correctness of the presentation service. *)
THEOREM TypeCorrect == Spec => []TypeOK
  BY TypeInvariant, PTL

-----------------------------------------------------------------------------
(* The inductive invariant *)

(* Only create() walks to a state that settles nothing. *)
KnowsItsGoal(h) ==
  /\ pc[h] \in {"sizeSession", "offer", "attach"} => req[h].op = "create"
  /\ pc[h] = "appendLog" /\ req[h].to = "CREATED" => req[h].op = "create"
  /\ pc[h] = "readLog" => req[h].to # "CREATED"
  /\ pc[h] \in {"transition", "readLog", "appendLog"} /\ req[h].op # "create"
       => IsTerminal(req[h].goal)
  /\ pc[h] = "cancelSession" => req[h].goal = "CANCELLED"
  /\ pc[h] \in {"advance", "status", "process", "save"} => ~IsTerminal(req[h].from)
  /\ pc[h] \in {"notify", "enqueue"} => req[h].op # "create"

(* A handler that has written the outcome and not yet finished settle().    *)
Announcing(h) ==
  \/ pc[h] \in {"readLog", "appendLog"} /\ IsTerminal(req[h].to)
  \/ pc[h] \in {"audit", "notify", "enqueue"} /\ req[h].op # "create"

(* What it announces is the row's outcome, and nothing has been queued yet. *)
AnnouncesTheOutcome(h) ==
  Announcing(h) =>
    /\ IsTerminal(req[h].goal)
    /\ row[req[h].p].state = req[h].goal
    /\ queue[req[h].p] = <<>>
    /\ pc[h] \in {"readLog", "appendLog"} => req[h].to = req[h].goal
    /\ pc[h] \in {"audit", "notify", "enqueue"} => req[h].from = req[h].goal

RepliesWithTheOutcome(h) ==
  pc[h] = "reply" /\ IsTerminal(req[h].from) => row[req[h].p].state = req[h].from

(* The result is stored before anybody walks to VERIFIED. *)
StoredBeforeVerified(h) ==
  /\ pc[h] \in {"sizeSession", "offer", "attach", "transition", "readLog", "appendLog"}
  /\ req[h].goal = "VERIFIED"
  => result[req[h].p] # NoTime

HandlerSafe(h) ==
  /\ KnowsItsGoal(h)
  /\ AnnouncesTheOutcome(h)
  /\ RepliesWithTheOutcome(h)
  /\ StoredBeforeVerified(h)

OneAnnounces ==
  \A g, h \in Handlers :
    Announcing(g) /\ Announcing(h) /\ req[g].p = req[h].p => g = h

(* Nothing is told about a transaction that has not settled. *)
SilentUntilSettled ==
  \A p \in Presentations :
    ~IsTerminal(row[p].state) =>
      queue[p] = <<>> /\ audit[p] = {} /\ replies[p] = {}

ToldSafe ==
  /\ SilentUntilSettled
  /\ VerifiedHasResult
  /\ OneStory
  /\ AtMostOneCallback

IInv ==
  /\ TypeOK
  /\ WorksOnARow
  /\ \A h \in Handlers : HandlerSafe(h)
  /\ OneAnnounces
  /\ ToldSafe

-----------------------------------------------------------------------------
(* Lemmas *)

(* What the table says of a move transition() lets through: it leaves a     *)
(* state that is not terminal, never comes back to CREATED, and ends in a   *)
(* terminal state only when that is the handler's goal.                     *)
LEMMA MovesForward ==
  ASSUME TypeOK, NEW h \in Handlers, MoveAllowed(h)
  PROVE  /\ ~IsTerminal(req[h].from)
         /\ Hop(h) # "CREATED"
         /\ IsTerminal(Hop(h)) => Hop(h) = req[h].goal
<1>1. ~IsTerminal(req[h].from) /\ Hop(h) # "CREATED"
  BY DEF MoveAllowed, CanTransition, AllowedTransitionsFrom, IsTerminal, TerminalStates
<1>2. IsTerminal(Hop(h)) => Hop(h) = req[h].goal
  BY DEF Hop, NextHop, IsTerminal, TerminalStates
<1>3. QED
  BY <1>1, <1>2

(* The state of every row, and whatever has been told, stay as they are. *)
NothingTold ==
  /\ \A p \in Presentations : row'[p].state = row[p].state
  /\ UNCHANGED <<queue, audit, replies>>
  /\ \A p \in Presentations : result[p] # NoTime => result'[p] # NoTime

(* A handler that moves on without starting to announce. *)
MovesOnQuietly(h) ==
  /\ HandlerSafe(h)'
  /\ Announcing(h)' => Announcing(h) /\ req'[h].p = req[h].p

Rests(h) == pc'[h] = pc[h] /\ req'[h] = req[h]

(* A handler left alone by a quiet step stays safe. *)
LEMMA RestsSafely ==
  ASSUME TypeOK, NothingTold, NEW h \in Handlers, HandlerSafe(h), Rests(h)
  PROVE  HandlerSafe(h)'
<1>1. req[h].p \in Presentations
  BY LocalsAreTyped
<1>2. KnowsItsGoal(h)'
  BY DEF HandlerSafe, KnowsItsGoal, Rests
<1>3. AnnouncesTheOutcome(h)'
  BY <1>1 DEF HandlerSafe, AnnouncesTheOutcome, Announcing, Rests, NothingTold
<1>4. RepliesWithTheOutcome(h)'
  BY <1>1 DEF HandlerSafe, RepliesWithTheOutcome, Rests, NothingTold
<1>5. StoredBeforeVerified(h)'
  BY <1>1 DEF HandlerSafe, StoredBeforeVerified, Rests, NothingTold
<1>6. QED
  BY <1>2, <1>3, <1>4, <1>5 DEF HandlerSafe

(* A step that tells nothing keeps the invariant when each handler rests or *)
(* moves on quietly.                                                        *)
LEMMA QuietStep ==
  ASSUME IInv, TypeOK', WorksOnARow', NothingTold,
         \A h \in Handlers : Rests(h) \/ MovesOnQuietly(h)
  PROVE  IInv'
<1>1. \A h \in Handlers : HandlerSafe(h)'
  BY RestsSafely DEF IInv, MovesOnQuietly
<1>2. \A h \in Handlers : Announcing(h)' => Announcing(h) /\ req'[h].p = req[h].p
  BY DEF MovesOnQuietly, Rests, Announcing
<1>3. OneAnnounces'
  BY <1>2 DEF IInv, OneAnnounces
<1>4. SilentUntilSettled'
  BY DEF IInv, ToldSafe, SilentUntilSettled, NothingTold
<1>5. VerifiedHasResult'
  BY DEF IInv, ToldSafe, VerifiedHasResult, NothingTold
<1>6. OneStory'
  BY DEF IInv, ToldSafe, OneStory, NothingTold
<1>7. AtMostOneCallback'
  BY DEF IInv, ToldSafe, AtMostOneCallback, NothingTold
<1>8. QED
  BY <1>1, <1>3, <1>4, <1>5, <1>6, <1>7 DEF IInv, ToldSafe

-----------------------------------------------------------------------------
(* Steps that tell nothing *)

(* A handler that returns or throws is safe. *)
LEMMA UnwindsQuietly ==
  ASSUME TypeOK, NEW h \in Handlers, Unwind(h)
  PROVE  MovesOnQuietly(h)
  BY DEF TypeOK, Unwind, Goto, MovesOnQuietly, HandlerSafe, KnowsItsGoal,
         AnnouncesTheOutcome, Announcing, RepliesWithTheOutcome, StoredBeforeVerified

(* A handler that heads for a settlement is safe, if the result is stored   *)
(* when that settlement is VERIFIED.                                        *)
LEMMA SettlesQuietly ==
  ASSUME TypeOK, NEW h \in Handlers, NEW goal \in TerminalStates, SettleOn(h, goal),
         goal = "VERIFIED" => result'[req[h].p] # NoTime
  PROVE  MovesOnQuietly(h)
<1>1. pc'[h] = "transition" /\ req'[h].goal = goal /\ req'[h].p = req[h].p
  BY LocalsAreTyped DEF TypeOK, SettleOn, Goto, Locals
<1>2. QED
  BY <1>1 DEF IsTerminal, MovesOnQuietly, HandlerSafe, KnowsItsGoal,
         AnnouncesTheOutcome, Announcing, RepliesWithTheOutcome, StoredBeforeVerified

(* A refused move only ends the handler. *)
LEMMA TransitionRefusedSafe ==
  ASSUME IInv, NEW h \in Handlers, TransitionRefused(h)
  PROVE  IInv'
<1>1. TypeOK /\ HandlerSafe(h)
  BY DEF IInv
<1>2. TypeOK' /\ WorksOnARow'
  BY TransitionRefusedTyped DEF IInv
<1>3. \A g \in Handlers : g = h \/ Rests(g)
  BY <1>1, UnwindStays, SettleOnStays, SettleReturnsTyped
  DEF TypeOK, TransitionRefused, Goto, Rests, StaysOnItsRow
<1>4. NothingTold
  BY <1>1, LocalsAreTyped DEF TypeOK, TransitionRefused, NothingTold, database
<1>5. MovesOnQuietly(h)
  BY <1>1, UnwindsQuietly DEF TransitionRefused
<1>6. QED
  BY <1>2, <1>3, <1>4, <1>5, QuietStep

(* Drawing a sequence number changes nothing that is told. *)
LEMMA ReadLogSafe ==
  ASSUME IInv, NEW h \in Handlers, ReadLog(h)
  PROVE  IInv'
<1>1. TypeOK /\ HandlerSafe(h)
  BY DEF IInv
<1>2. TypeOK' /\ WorksOnARow'
  BY ReadLogTyped DEF IInv
<1>3. \A g \in Handlers : g = h \/ Rests(g)
  BY <1>1, UnwindStays, SettleOnStays, SettleReturnsTyped
  DEF TypeOK, ReadLog, Goto, Rests, StaysOnItsRow
<1>4. NothingTold
  BY <1>1, LocalsAreTyped DEF TypeOK, ReadLog, NothingTold, database
<1>5. MovesOnQuietly(h)
  BY <1>1, <1>2, LocalsAreTyped, SMTT(30)
  DEF TypeOK, ReadLog, Goto, Locals, database, HandlerSafe, KnowsItsGoal, AnnouncesTheOutcome, Announcing,
      RepliesWithTheOutcome, StoredBeforeVerified, MovesOnQuietly
<1>6. QED
  BY <1>2, <1>3, <1>4, <1>5, QuietStep

(* Logging a terminal move leaves its writer announcing; create() stops. *)
LEMMA AppendLogSafe ==
  ASSUME IInv, NEW h \in Handlers, AppendLog(h)
  PROVE  IInv'
<1>1. TypeOK /\ HandlerSafe(h)
  BY DEF IInv
<1>2. TypeOK' /\ WorksOnARow'
  BY AppendLogTyped DEF IInv
<1>3. \A g \in Handlers : g = h \/ Rests(g)
  BY <1>1, UnwindStays, SettleOnStays, SettleReturnsTyped
  DEF TypeOK, AppendLog, Goto, Rests, StaysOnItsRow
<1>4. NothingTold
  BY <1>1, LocalsAreTyped DEF TypeOK, AppendLog, NothingTold, database
<1>5. MovesOnQuietly(h)
  <2>1. CASE req[h].op = "create" /\ req[h].to = "PROTOCOL_ERROR"
    BY <1>1, <2>1, UnwindsQuietly DEF AppendLog
  <2>2. CASE ~(req[h].op = "create" /\ req[h].to = "PROTOCOL_ERROR")
    <3>1. /\ req' = [req EXCEPT ![h] = [@ EXCEPT !.from = req[h].to, !.seq = 0]]
          /\ pc' = [pc EXCEPT ![h] = AfterMove(h)]
      BY <2>2 DEF AppendLog, Goto
    <3>2. /\ pc'[h] = AfterMove(h) /\ req'[h].from = req[h].to /\ req'[h].p = req[h].p
          /\ req'[h].op = req[h].op /\ req'[h].goal = req[h].goal
          /\ req'[h].to = req[h].to
      BY <1>1, <3>1, LocalsAreTyped DEF TypeOK, Locals
    <3>3. pc[h] = "appendLog" /\ UNCHANGED <<row, queue, result>>
      BY DEF AppendLog
    <3>4. CASE AfterMove(h) = "sizeSession" /\ req[h].to = "CREATED"
      BY <1>1, <3>2, <3>3, <3>4 DEF HandlerSafe, KnowsItsGoal, AnnouncesTheOutcome,
         Announcing, RepliesWithTheOutcome, StoredBeforeVerified, MovesOnQuietly
    <3>5. CASE AfterMove(h) = "transition"
      BY <1>1, <3>2, <3>3, <3>5 DEF HandlerSafe, KnowsItsGoal, AnnouncesTheOutcome,
         Announcing, RepliesWithTheOutcome, StoredBeforeVerified, MovesOnQuietly
    <3>6. CASE AfterMove(h) = "audit" /\ req[h].to = req[h].goal
      BY <1>1, <3>2, <3>3, <3>6 DEF HandlerSafe, KnowsItsGoal, AnnouncesTheOutcome,
         Announcing, RepliesWithTheOutcome, StoredBeforeVerified, MovesOnQuietly
    <3>7. QED
      BY <3>4, <3>5, <3>6 DEF AfterMove
  <2>3. QED
    BY <2>1, <2>2
<1>6. QED
  BY <1>2, <1>3, <1>4, <1>5, QuietStep

(* create() tells nothing. *)
LEMMA SizeSessionSafe ==
  ASSUME IInv, NEW h \in Handlers, SizeSession(h)
  PROVE  IInv'
<1>1. TypeOK /\ HandlerSafe(h)
  BY DEF IInv
<1>2. TypeOK' /\ WorksOnARow'
  BY SizeSessionTyped DEF IInv
<1>3. \A g \in Handlers : g = h \/ Rests(g)
  BY <1>1, UnwindStays, SettleOnStays, SettleReturnsTyped
  DEF TypeOK, SizeSession, Goto, Rests, StaysOnItsRow
<1>4. NothingTold
  BY <1>1, LocalsAreTyped DEF TypeOK, SizeSession, NothingTold, database
<1>5. MovesOnQuietly(h)
  BY <1>1, <1>2, LocalsAreTyped
  DEF TypeOK, SizeSession, Goto, Locals, database, HandlerSafe, KnowsItsGoal, AnnouncesTheOutcome, Announcing,
      RepliesWithTheOutcome, StoredBeforeVerified, MovesOnQuietly
<1>6. QED
  BY <1>2, <1>3, <1>4, <1>5, QuietStep

(* create() tells nothing. *)
LEMMA OfferSafe ==
  ASSUME IInv, NEW h \in Handlers, Offer(h)
  PROVE  IInv'
<1>1. TypeOK /\ HandlerSafe(h)
  BY DEF IInv
<1>2. TypeOK' /\ WorksOnARow'
  BY OfferTyped DEF IInv
<1>3. \A g \in Handlers : g = h \/ Rests(g)
  BY <1>1, UnwindStays, SettleOnStays, SettleReturnsTyped
  DEF TypeOK, Offer, Goto, Rests, StaysOnItsRow
<1>4. NothingTold
  BY <1>1, LocalsAreTyped DEF TypeOK, Offer, NothingTold, database
<1>5. MovesOnQuietly(h)
  BY <1>1, <1>2, LocalsAreTyped
  DEF TypeOK, Offer, Goto, Locals, database, HandlerSafe, KnowsItsGoal, AnnouncesTheOutcome, Announcing,
      RepliesWithTheOutcome, StoredBeforeVerified, MovesOnQuietly
<1>6. QED
  BY <1>2, <1>3, <1>4, <1>5, QuietStep

(* create() heads for PROTOCOL_ERROR and tells nothing. *)
LEMMA EngineRefusesSafe ==
  ASSUME IInv, NEW h \in Handlers, EngineRefuses(h)
  PROVE  IInv'
<1>1. TypeOK /\ HandlerSafe(h)
  BY DEF IInv
<1>2. TypeOK' /\ WorksOnARow'
  BY EngineRefusesTyped DEF IInv
<1>3. \A g \in Handlers : g = h \/ Rests(g)
  BY <1>1, UnwindStays, SettleOnStays, SettleReturnsTyped
  DEF TypeOK, EngineRefuses, Goto, Rests, StaysOnItsRow
<1>4. NothingTold
  BY <1>1, LocalsAreTyped DEF TypeOK, EngineRefuses, NothingTold, database
<1>5. MovesOnQuietly(h)
  BY <1>1, <1>2, LocalsAreTyped
  DEF TypeOK, EngineRefuses, Goto, Locals, database, HandlerSafe, KnowsItsGoal, AnnouncesTheOutcome, Announcing,
      RepliesWithTheOutcome, StoredBeforeVerified, MovesOnQuietly
<1>6. QED
  BY <1>2, <1>3, <1>4, <1>5, QuietStep

(* Attaching a session changes no state. *)
LEMMA AttachEngineSessionSafe ==
  ASSUME IInv, NEW h \in Handlers, AttachEngineSession(h)
  PROVE  IInv'
<1>1. TypeOK /\ HandlerSafe(h)
  BY DEF IInv
<1>2. TypeOK' /\ WorksOnARow'
  BY AttachEngineSessionTyped DEF IInv
<1>3. \A g \in Handlers : g = h \/ Rests(g)
  BY <1>1, UnwindStays, SettleOnStays, SettleReturnsTyped
  DEF TypeOK, AttachEngineSession, Goto, Rests, StaysOnItsRow
<1>4. NothingTold
  BY <1>1, LocalsAreTyped DEF TypeOK, AttachEngineSession, NothingTold, database
<1>5. MovesOnQuietly(h)
  BY <1>1, <1>2, LocalsAreTyped
  DEF TypeOK, AttachEngineSession, Goto, Locals, HandlerSafe, KnowsItsGoal, AnnouncesTheOutcome, Announcing,
      RepliesWithTheOutcome, StoredBeforeVerified, MovesOnQuietly
<1>6. QED
  BY <1>2, <1>3, <1>4, <1>5, QuietStep

(* create() tells nothing. *)
LEMMA FinishCreateSafe ==
  ASSUME IInv, NEW h \in Handlers, FinishCreate(h)
  PROVE  IInv'
<1>1. TypeOK /\ HandlerSafe(h)
  BY DEF IInv
<1>2. TypeOK' /\ WorksOnARow'
  BY FinishCreateTyped DEF IInv
<1>3. \A g \in Handlers : g = h \/ Rests(g)
  BY <1>1, UnwindStays, SettleOnStays, SettleReturnsTyped
  DEF TypeOK, FinishCreate, Goto, Rests, StaysOnItsRow
<1>4. NothingTold
  BY <1>1, LocalsAreTyped DEF TypeOK, FinishCreate, NothingTold, database
<1>5. MovesOnQuietly(h)
  BY <1>1, UnwindsQuietly DEF FinishCreate
<1>6. QED
  BY <1>2, <1>3, <1>4, <1>5, QuietStep

(* get() that finds a settled row answers with its state. *)
LEMMA FindSafe ==
  ASSUME IInv, NEW h \in Handlers, Find(h)
  PROVE  IInv'
<1>1. TypeOK /\ HandlerSafe(h)
  BY DEF IInv
<1>2. TypeOK' /\ WorksOnARow'
  BY FindTyped DEF IInv
<1>3. \A g \in Handlers : g = h \/ Rests(g)
  BY <1>1, UnwindStays, SettleOnStays, SettleReturnsTyped
  DEF TypeOK, Find, Goto, Rests, StaysOnItsRow
<1>4. NothingTold
  BY <1>1, LocalsAreTyped DEF TypeOK, Find, NothingTold, database
<1>5. MovesOnQuietly(h)
  BY <1>1, <1>2, LocalsAreTyped
  DEF TypeOK, Find, Goto, Locals, database, HandlerSafe, KnowsItsGoal, AnnouncesTheOutcome, Announcing,
      RepliesWithTheOutcome, StoredBeforeVerified, MovesOnQuietly
<1>6. QED
  BY <1>2, <1>3, <1>4, <1>5, QuietStep

(* get() may head for EXPIRED. *)
LEMMA AdvanceSafe ==
  ASSUME IInv, NEW h \in Handlers, Advance(h)
  PROVE  IInv'
<1>1. TypeOK /\ HandlerSafe(h)
  BY DEF IInv
<1>2. TypeOK' /\ WorksOnARow'
  BY AdvanceTyped DEF IInv
<1>3. \A g \in Handlers : g = h \/ Rests(g)
  BY <1>1, UnwindStays, SettleOnStays, SettleReturnsTyped
  DEF TypeOK, Advance, Goto, Rests, StaysOnItsRow
<1>4. NothingTold
  BY <1>1, LocalsAreTyped DEF TypeOK, Advance, NothingTold, database
<1>5. MovesOnQuietly(h)
  <2>1. CASE SettleOn(h, "EXPIRED")
    BY <1>1, <2>1, SettlesQuietly, StatesAreNamed
  <2>2. CASE (Goto(h, "status") \/ Goto(h, "reply")) /\ UNCHANGED req
    BY <1>1, <2>2 DEF TypeOK, Advance, Goto, database, HandlerSafe, KnowsItsGoal,
       AnnouncesTheOutcome, Announcing, RepliesWithTheOutcome, StoredBeforeVerified,
       MovesOnQuietly
  <2>3. QED
    BY <2>1, <2>2 DEF Advance
<1>6. QED
  BY <1>2, <1>3, <1>4, <1>5, QuietStep

(* get() may head for what the engine settled on, never for VERIFIED. *)
LEMMA StatusSafe ==
  ASSUME IInv, NEW h \in Handlers, Status(h)
  PROVE  IInv'
<1>1. TypeOK /\ HandlerSafe(h)
  BY DEF IInv
<1>2. TypeOK' /\ WorksOnARow'
  BY StatusTyped DEF IInv
<1>3. \A g \in Handlers : g = h \/ Rests(g)
  BY <1>1, UnwindStays, SettleOnStays, SettleReturnsTyped
  DEF TypeOK, Status, Goto, Rests, StaysOnItsRow
<1>4. NothingTold
  BY <1>1, LocalsAreTyped DEF TypeOK, Status, NothingTold, database
<1>5. MovesOnQuietly(h)
  <2>1. CASE (Goto(h, "reply") \/ Goto(h, "process")) /\ UNCHANGED req
    BY <1>1, <2>1 DEF TypeOK, Status, Goto, database, HandlerSafe, KnowsItsGoal,
       AnnouncesTheOutcome, Announcing, RepliesWithTheOutcome, StoredBeforeVerified,
       MovesOnQuietly
  <2>2. CASE Unwind(h)
    BY <1>1, <2>2, UnwindsQuietly
  <2>3. CASE \E status \in TerminalStates \ {"VERIFIED"} : SettleOn(h, status)
    BY <1>1, <2>3, SettlesQuietly
  <2>4. QED
    BY <2>1, <2>2, <2>3 DEF Status
<1>6. QED
  BY <1>2, <1>3, <1>4, <1>5, QuietStep

(* get() heads for VERIFIED only through the saving of the result. *)
LEMMA ProcessSafe ==
  ASSUME IInv, NEW h \in Handlers, Process(h)
  PROVE  IInv'
<1>1. TypeOK /\ HandlerSafe(h)
  BY DEF IInv
<1>2. TypeOK' /\ WorksOnARow'
  BY ProcessTyped DEF IInv
<1>3. \A g \in Handlers : g = h \/ Rests(g)
  BY <1>1, UnwindStays, SettleOnStays, SettleReturnsTyped
  DEF TypeOK, Process, Goto, Rests, StaysOnItsRow
<1>4. NothingTold
  BY <1>1, LocalsAreTyped DEF TypeOK, Process, NothingTold, database
<1>5. MovesOnQuietly(h)
  <2>1. CASE Unwind(h)
    BY <1>1, <2>1, UnwindsQuietly
  <2>2. CASE SettleOn(h, "PROTOCOL_ERROR") \/ SettleOn(h, "POLICY_NOT_SATISFIED")
    BY <1>1, <2>2, SettlesQuietly, StatesAreNamed
  <2>3. CASE req' = [req EXCEPT ![h] = [@ EXCEPT !.at = now]] /\ Goto(h, "save")
    BY <1>1, <2>3, LocalsAreTyped
    DEF TypeOK, Process, Goto, Locals, database, HandlerSafe, KnowsItsGoal,
        AnnouncesTheOutcome, Announcing, RepliesWithTheOutcome, StoredBeforeVerified,
        MovesOnQuietly
  <2>4. QED
    BY <2>1, <2>2, <2>3 DEF Process
<1>6. QED
  BY <1>2, <1>3, <1>4, <1>5, QuietStep

(* The result is there when get() heads for VERIFIED. *)
LEMMA SaveResultSafe ==
  ASSUME IInv, NEW h \in Handlers, SaveResult(h)
  PROVE  IInv'
<1>1. TypeOK /\ HandlerSafe(h)
  BY DEF IInv
<1>2. TypeOK' /\ WorksOnARow'
  BY SaveResultTyped DEF IInv
<1>3. \A g \in Handlers : g = h \/ Rests(g)
  BY <1>1, UnwindStays, SettleOnStays, SettleReturnsTyped
  DEF TypeOK, SaveResult, Goto, Rests, StaysOnItsRow
<1>4. NothingTold
  <2>1. req[h].at + Retention \in Nat
    BY <1>1, LocalsAreTyped, PresentationsAssumption
  <2>2. QED
    BY <1>1, <2>1, LocalsAreTyped
    DEF TypeOK, SaveResult, NothingTold, NoTime, Purged
<1>5. MovesOnQuietly(h)
  <2>1. req[h].at + Retention \in Nat
    BY <1>1, LocalsAreTyped, PresentationsAssumption
  <2>2. result'[req[h].p] # NoTime
    BY <1>1, <2>1, LocalsAreTyped DEF TypeOK, SaveResult, NoTime
  <2>3. QED
    BY <1>1, <2>2, SettlesQuietly, StatesAreNamed DEF SaveResult
<1>6. QED
  BY <1>2, <1>3, <1>4, <1>5, QuietStep

(* settle() answers with the outcome it wrote. *)
LEMMA ReadForCallbackSafe ==
  ASSUME IInv, NEW h \in Handlers, ReadForCallback(h)
  PROVE  IInv'
<1>1. TypeOK /\ HandlerSafe(h)
  BY DEF IInv
<1>2. TypeOK' /\ WorksOnARow'
  BY ReadForCallbackTyped DEF IInv
<1>3. \A g \in Handlers : g = h \/ Rests(g)
  BY <1>1, UnwindStays, SettleOnStays, SettleReturnsTyped
  DEF TypeOK, ReadForCallback, Goto, Rests, StaysOnItsRow
<1>4. NothingTold
  BY <1>1, LocalsAreTyped DEF TypeOK, ReadForCallback, NothingTold, database
<1>5. MovesOnQuietly(h)
  <2>1. CASE h \in Jobs /\ SettleReturns(h)
    BY <1>1, <2>1, UnwindsQuietly DEF SettleReturns
  <2>2. CASE h \notin Jobs /\ SettleReturns(h)
    BY <1>1, <2>2
    DEF TypeOK, ReadForCallback, SettleReturns, Goto, database, HandlerSafe,
        KnowsItsGoal, AnnouncesTheOutcome, Announcing, RepliesWithTheOutcome,
        StoredBeforeVerified, MovesOnQuietly
  <2>3. CASE Goto(h, "enqueue") /\ \E found \in BOOLEAN :
               req' = [req EXCEPT ![h] = [@ EXCEPT !.claims = found]]
    BY <1>1, <2>3, LocalsAreTyped
    DEF TypeOK, ReadForCallback, Goto, Locals, database, HandlerSafe, KnowsItsGoal,
        AnnouncesTheOutcome, Announcing, RepliesWithTheOutcome, StoredBeforeVerified,
        MovesOnQuietly
  <2>4. QED
    BY <2>1, <2>2, <2>3 DEF ReadForCallback
<1>6. QED
  BY <1>2, <1>3, <1>4, <1>5, QuietStep

(* cancel() heads for CANCELLED. *)
LEMMA CancelSessionSafe ==
  ASSUME IInv, NEW h \in Handlers, CancelSession(h)
  PROVE  IInv'
<1>1. TypeOK /\ HandlerSafe(h)
  BY DEF IInv
<1>2. TypeOK' /\ WorksOnARow'
  BY CancelSessionTyped DEF IInv
<1>3. \A g \in Handlers : g = h \/ Rests(g)
  BY <1>1, UnwindStays, SettleOnStays, SettleReturnsTyped
  DEF TypeOK, CancelSession, Goto, Rests, StaysOnItsRow
<1>4. NothingTold
  BY <1>1, LocalsAreTyped DEF TypeOK, CancelSession, NothingTold, database
<1>5. MovesOnQuietly(h)
  BY <1>1, <1>2, LocalsAreTyped, SMTT(30)
  DEF TypeOK, CancelSession, Goto, Locals, IsTerminal, TerminalStates, database, HandlerSafe, KnowsItsGoal, AnnouncesTheOutcome, Announcing,
      RepliesWithTheOutcome, StoredBeforeVerified, MovesOnQuietly
<1>6. QED
  BY <1>2, <1>3, <1>4, <1>5, QuietStep

-----------------------------------------------------------------------------
(* Steps that move a row, or tell something *)

(* Whoever is announcing or replying about a settled row keeps what it      *)
(* knows when a row that has not settled moves.                             *)
LEMMA RestsThroughAMove ==
  ASSUME IInv, NEW p \in Presentations, ~IsTerminal(row[p].state),
         \A q \in Presentations : q # p => row'[q].state = row[q].state,
         UNCHANGED <<queue, result>>,
         NEW h \in Handlers, Rests(h)
  PROVE  HandlerSafe(h)' /\ (Announcing(h)' => Announcing(h) /\ req[h].p # p)
<1>1. HandlerSafe(h) /\ req[h].p \in Presentations
  BY LocalsAreTyped DEF IInv
<1>2. KnowsItsGoal(h)' /\ StoredBeforeVerified(h)'
  BY <1>1 DEF HandlerSafe, KnowsItsGoal, StoredBeforeVerified, Rests
<1>3. AnnouncesTheOutcome(h)'
  BY <1>1 DEF HandlerSafe, AnnouncesTheOutcome, Announcing, Rests
<1>4. RepliesWithTheOutcome(h)'
  BY <1>1 DEF HandlerSafe, RepliesWithTheOutcome, Rests
<1>5. Announcing(h)' => Announcing(h) /\ req[h].p # p
  BY <1>1 DEF HandlerSafe, AnnouncesTheOutcome, Announcing, Rests
<1>6. QED
  BY <1>2, <1>3, <1>4, <1>5 DEF HandlerSafe

(* transition(): the row it moves had not settled, so nobody was announcing *)
(* it, and from a terminal move on its writer is.                           *)
LEMMA TransitionSafe ==
  ASSUME IInv, NEW h \in Handlers, Transition(h)
  PROVE  IInv'
<1> DEFINE p == req[h].p
<1>1. TypeOK /\ HandlerSafe(h) /\ p \in Presentations
  BY LocalsAreTyped DEF IInv
<1>2. TypeOK' /\ WorksOnARow'
  BY TransitionTyped DEF IInv
<1>3. /\ ~IsTerminal(row[p].state)
      /\ Hop(h) # "CREATED"
      /\ IsTerminal(Hop(h)) => Hop(h) = req[h].goal
  BY <1>1, MovesForward DEF Transition, MoveAllowed
<1>4. /\ row'[p].state = Hop(h)
      /\ \A q \in Presentations : q # p => row'[q].state = row[q].state
      /\ UNCHANGED <<queue, result, audit, replies>>
  BY <1>1 DEF TypeOK, Rows, Transition
<1>5. \A g \in Handlers : g = h \/ Rests(g)
  BY <1>1 DEF TypeOK, Transition, Goto, Rests
<1>6. /\ pc[h] = "transition" /\ pc'[h] = "readLog" /\ req'[h].p = p
      /\ req'[h].to = Hop(h)
      /\ req'[h].goal = req[h].goal /\ req'[h].op = req[h].op
  BY <1>1, LocalsAreTyped DEF TypeOK, Transition, Goto, Locals
<1>7. queue[p] = <<>> /\ audit[p] = {} /\ replies[p] = {}
  BY <1>1, <1>3 DEF IInv, ToldSafe, SilentUntilSettled
<1>8. HandlerSafe(h)'
  <2>1. KnowsItsGoal(h)' /\ StoredBeforeVerified(h)' /\ RepliesWithTheOutcome(h)'
    BY <1>1, <1>3, <1>4, <1>6
    DEF HandlerSafe, KnowsItsGoal, StoredBeforeVerified, RepliesWithTheOutcome
  <2>2. AnnouncesTheOutcome(h)'
    BY <1>1, <1>3, <1>4, <1>6, <1>7 DEF AnnouncesTheOutcome, Announcing
  <2>3. QED
    BY <2>1, <2>2 DEF HandlerSafe
<1>9. \A g \in Handlers : g # h =>
        HandlerSafe(g)' /\ (Announcing(g)' => Announcing(g) /\ req[g].p # p)
  BY <1>1, <1>3, <1>4, <1>5, RestsThroughAMove
<1>10. OneAnnounces'
  BY <1>5, <1>6, <1>9 DEF IInv, OneAnnounces, Rests
<1>11. SilentUntilSettled'
  BY <1>3, <1>4 DEF IInv, ToldSafe, SilentUntilSettled
<1>12. VerifiedHasResult'
  <2>1. row'[p].state = "VERIFIED" => result'[p] # NoTime
    BY <1>1, <1>3, <1>4, <1>6, StatesAreNamed
    DEF HandlerSafe, StoredBeforeVerified, IsTerminal
  <2>2. QED
    BY <2>1, <1>4 DEF IInv, ToldSafe, VerifiedHasResult
<1>13. OneStory' /\ AtMostOneCallback'
  BY <1>4, <1>7 DEF IInv, ToldSafe, OneStory, AtMostOneCallback
<1>14. QED
  BY <1>2, <1>8, <1>9, <1>10, <1>11, <1>12, <1>13 DEF IInv, ToldSafe

(* create() inserts a row nobody has told anything about. *)
LEMMA StartCreateSafe ==
  ASSUME IInv, NEW h \in Requests, NEW p \in Presentations, StartCreate(h, p)
  PROVE  IInv'
<1>1. TypeOK /\ h \in Handlers
  BY DEF IInv, Handlers
<1>2. TypeOK' /\ WorksOnARow'
  BY StartCreateTyped DEF IInv
<1>3. row[p].state = "ABSENT" /\ ~IsTerminal(row[p].state)
  BY StatesAreNamed DEF StartCreate, IsTerminal
<1>4. /\ row'[p].state = "CREATED"
      /\ \A q \in Presentations : q # p => row'[q].state = row[q].state
      /\ UNCHANGED <<queue, result, audit, replies>>
  BY <1>1 DEF TypeOK, StartCreate
<1>5. \A g \in Handlers : g = h \/ Rests(g)
  BY <1>1 DEF TypeOK, StartCreate, Goto, Rests
<1>6. /\ pc'[h] = "appendLog" /\ req'[h].p = p /\ req'[h].to = "CREATED"
      /\ req'[h].goal = "AWAITING_WALLET" /\ req'[h].op = "create"
  BY <1>1 DEF TypeOK, StartCreate, Goto
<1>7. HandlerSafe(h)' /\ ~Announcing(h)'
  BY <1>6 DEF HandlerSafe, KnowsItsGoal, AnnouncesTheOutcome, Announcing,
     RepliesWithTheOutcome, StoredBeforeVerified, IsTerminal, TerminalStates
<1>8. \A g \in Handlers : g # h =>
        HandlerSafe(g)' /\ (Announcing(g)' => Announcing(g) /\ req[g].p # p)
  BY <1>3, <1>4, <1>5, RestsThroughAMove
<1>9. OneAnnounces'
  BY <1>5, <1>7, <1>8 DEF IInv, OneAnnounces, Rests
<1>10. SilentUntilSettled' /\ OneStory' /\ AtMostOneCallback'
  BY <1>3, <1>4
  DEF IInv, ToldSafe, SilentUntilSettled, OneStory, AtMostOneCallback
<1>11. VerifiedHasResult'
  BY <1>4 DEF IInv, ToldSafe, VerifiedHasResult
<1>12. QED
  BY <1>2, <1>7, <1>8, <1>9, <1>10, <1>11 DEF IInv, ToldSafe

(* Others keep what they know while h audits, replies or enqueues: the rows *)
(* do not move, and whoever announces the row of h is h.                    *)
LEMMA RestsWhileOneTells ==
  ASSUME IInv, NEW g \in Handlers, UNCHANGED <<row, result>>, Rests(g),
         Announcing(g) => queue'[req[g].p] = queue[req[g].p]
  PROVE  HandlerSafe(g)' /\ (Announcing(g)' => Announcing(g))
<1>1. HandlerSafe(g)
  BY DEF IInv
<1>2. KnowsItsGoal(g)' /\ StoredBeforeVerified(g)' /\ RepliesWithTheOutcome(g)'
  BY <1>1
  DEF HandlerSafe, KnowsItsGoal, StoredBeforeVerified, RepliesWithTheOutcome, Rests
<1>3. AnnouncesTheOutcome(g)'
  BY <1>1 DEF HandlerSafe, AnnouncesTheOutcome, Announcing, Rests
<1>4. QED
  BY <1>2, <1>3 DEF HandlerSafe, Announcing, Rests

(* The audit trail records the outcome the row holds. *)
LEMMA AuditSettlementSafe ==
  ASSUME IInv, NEW h \in Handlers, AuditSettlement(h)
  PROVE  IInv'
<1> DEFINE p == req[h].p
<1>1. TypeOK /\ HandlerSafe(h) /\ p \in Presentations
  BY LocalsAreTyped DEF IInv
<1>2. TypeOK' /\ WorksOnARow'
  BY AuditSettlementTyped DEF IInv
<1>3. pc[h] = "audit" /\ req[h].op # "create"
  BY DEF AuditSettlement
<1>4. /\ IsTerminal(req[h].goal) /\ row[p].state = req[h].goal
      /\ queue[p] = <<>> /\ req[h].from = req[h].goal
  BY <1>1, <1>3 DEF HandlerSafe, AnnouncesTheOutcome, Announcing
<1>5. \A g \in Handlers : g = h \/ Rests(g)
  BY <1>1 DEF TypeOK, AuditSettlement, Goto, Rests
<1>6. /\ UNCHANGED <<row, queue, result, replies>>
      /\ audit' = [audit EXCEPT ![p] = @ \cup {req[h].goal}]
  BY DEF AuditSettlement
<1>7. /\ \/ pc'[h] = "find"
         \/ pc'[h] = "notify" /\ req'[h] = req[h]
      /\ req'[h].p = p
  BY <1>1, LocalsAreTyped DEF TypeOK, AuditSettlement, Goto, Locals
<1>8. HandlerSafe(h)' /\ (Announcing(h)' => Announcing(h))
  BY <1>3, <1>4, <1>6, <1>7
  DEF HandlerSafe, KnowsItsGoal, AnnouncesTheOutcome, Announcing,
      RepliesWithTheOutcome, StoredBeforeVerified
<1>9. \A g \in Handlers : g # h => HandlerSafe(g)' /\ (Announcing(g)' => Announcing(g))
  BY <1>5, <1>6, RestsWhileOneTells
<1>10. OneAnnounces'
  BY <1>5, <1>7, <1>8, <1>9 DEF IInv, OneAnnounces, Rests
<1>11. SilentUntilSettled' /\ OneStory'
  BY <1>1, <1>4, <1>6 DEF IInv, TypeOK, ToldSafe, SilentUntilSettled, OneStory
<1>12. VerifiedHasResult' /\ AtMostOneCallback'
  BY <1>6 DEF IInv, ToldSafe, VerifiedHasResult, AtMostOneCallback
<1>13. QED
  BY <1>2, <1>8, <1>9, <1>10, <1>11, <1>12 DEF IInv, ToldSafe

(* A client is only told of a settlement the row holds. *)
LEMMA ReplySafe ==
  ASSUME IInv, NEW h \in Handlers, Reply(h)
  PROVE  IInv'
<1> DEFINE p == req[h].p
           told == req[h].from = "VERIFIED" /\ result[req[h].p] \in Nat
           view == [status |-> req[h].from, claims |-> told]
<1>1. TypeOK /\ HandlerSafe(h) /\ p \in Presentations
  BY LocalsAreTyped DEF IInv
<1>2. TypeOK' /\ WorksOnARow'
  BY ReplyTyped DEF IInv
<1>3. UNCHANGED <<row, queue, result, audit>> /\ Unwind(h)
  BY DEF Reply, database
<1>4. \/ replies' = replies
      \/ IsTerminal(req[h].from) /\ replies' = [replies EXCEPT ![p] = @ \cup {view}]
  BY DEF Reply
<1>5. view.status = req[h].from
  OBVIOUS
<1> HIDE DEF view
<1>6. IsTerminal(req[h].from) => row[p].state = req[h].from
  BY <1>1 DEF HandlerSafe, RepliesWithTheOutcome, Reply
<1>7. \A g \in Handlers : g = h \/ Rests(g)
  BY <1>1, <1>3 DEF TypeOK, Unwind, Goto, Rests
<1>8. HandlerSafe(h)' /\ ~Announcing(h)'
  BY <1>1, <1>3 DEF TypeOK, Unwind, Goto, HandlerSafe, KnowsItsGoal,
     AnnouncesTheOutcome, Announcing, RepliesWithTheOutcome, StoredBeforeVerified
<1>9. \A g \in Handlers : g # h => HandlerSafe(g)' /\ (Announcing(g)' => Announcing(g))
  BY <1>3, <1>7, RestsWhileOneTells
<1>10. OneAnnounces'
  BY <1>7, <1>8, <1>9 DEF IInv, OneAnnounces, Rests
<1>11. SilentUntilSettled' /\ OneStory'
  <2>1. \A q \in Presentations : q # p => replies'[q] = replies[q]
    BY <1>1, <1>4 DEF TypeOK
  <2>2. \/ replies'[p] = replies[p]
        \/ IsTerminal(row[p].state) /\ replies'[p] = replies[p] \cup {view}
    BY <1>1, <1>4, <1>6 DEF TypeOK
  <2>3. IsTerminal(req[h].from) => view.status = row[p].state
    BY <1>5, <1>6
  <2>4. SilentUntilSettled'
    BY <1>3, <2>1, <2>2 DEF IInv, ToldSafe, SilentUntilSettled
  <2>5. \A v \in replies'[p] : v.status = row[p].state
    BY <1>1, <1>4, <2>3 DEF IInv, TypeOK, ToldSafe, OneStory
  <2>6. OneStory'
    BY <1>3, <2>1, <2>5 DEF IInv, ToldSafe, OneStory
  <2>7. QED
    BY <2>4, <2>6
<1>12. VerifiedHasResult' /\ AtMostOneCallback'
  BY <1>3 DEF IInv, ToldSafe, VerifiedHasResult, AtMostOneCallback
<1>13. QED
  BY <1>2, <1>8, <1>9, <1>10, <1>11, <1>12 DEF IInv, ToldSafe

(* The one announcing handler queues the one callback. *)
LEMMA EnqueueResultSafe ==
  ASSUME IInv, NEW h \in Handlers, EnqueueResult(h)
  PROVE  IInv'
<1> DEFINE p == req[h].p
           event == [status |-> row[req[h].p].state, claims |-> req[h].claims]
<1>1. TypeOK /\ HandlerSafe(h) /\ p \in Presentations
  BY LocalsAreTyped DEF IInv
<1>2. TypeOK' /\ WorksOnARow'
  BY EnqueueResultTyped DEF IInv
<1>3. pc[h] = "enqueue" /\ req[h].op # "create"
  BY <1>1 DEF EnqueueResult, HandlerSafe, KnowsItsGoal
<1>4. /\ IsTerminal(req[h].goal) /\ row[p].state = req[h].goal
      /\ queue[p] = <<>> /\ req[h].from = req[h].goal
  BY <1>1, <1>3 DEF HandlerSafe, AnnouncesTheOutcome, Announcing
<1>5. UNCHANGED <<row, result, audit, replies>> /\ SettleReturns(h)
  BY DEF EnqueueResult
<1>6. \/ queue' = queue
      \/ queue' = [queue EXCEPT ![p] = <<event>>]
  BY <1>4 DEF EnqueueResult
<1>7. event.status = row[p].state
  OBVIOUS
<1> HIDE DEF event
<1>8. \A g \in Handlers : g = h \/ Rests(g)
  BY <1>1, <1>5, SettleReturnsTyped DEF StaysOnItsRow, Rests
<1>9. HandlerSafe(h)' /\ ~Announcing(h)'
  <2>1. CASE h \in Jobs
    BY <1>1, <1>5, <2>1, UnwindsQuietly DEF SettleReturns, MovesOnQuietly, Unwind,
       Goto, Announcing, TypeOK
  <2>2. CASE h \notin Jobs
    <3>1. pc'[h] = "reply" /\ req'[h] = req[h]
      BY <1>1, <1>5, <2>2 DEF SettleReturns, Goto, TypeOK
    <3>2. QED
      BY <1>4, <1>5, <3>1 DEF HandlerSafe, KnowsItsGoal, AnnouncesTheOutcome,
         Announcing, RepliesWithTheOutcome, StoredBeforeVerified
  <2>3. QED
    BY <2>1, <2>2
<1>10. \A g \in Handlers : g # h /\ Announcing(g) => req[g].p # p
  BY <1>3 DEF IInv, OneAnnounces, Announcing
<1>11. \A g \in Handlers : g # h => HandlerSafe(g)' /\ (Announcing(g)' => Announcing(g))
  <2>1. \A g \in Handlers : g # h /\ Announcing(g) => queue'[req[g].p] = queue[req[g].p]
    BY <1>1, <1>6, <1>10, LocalsAreTyped DEF TypeOK
  <2>2. QED
    BY <1>5, <1>8, <2>1, RestsWhileOneTells
<1>12. OneAnnounces'
  BY <1>8, <1>9, <1>11 DEF IInv, OneAnnounces, Rests
<1>13. SilentUntilSettled' /\ VerifiedHasResult'
  <2>1. \A q \in Presentations : q # p => queue'[q] = queue[q]
    BY <1>1, <1>6 DEF TypeOK
  <2>2. SilentUntilSettled'
    BY <1>4, <1>5, <2>1 DEF IInv, ToldSafe, SilentUntilSettled
  <2>3. QED
    BY <1>5, <2>2 DEF IInv, ToldSafe, VerifiedHasResult
<1>14. OneStory' /\ AtMostOneCallback'
  <2>1. \A q \in Presentations : q # p => queue'[q] = queue[q]
    BY <1>1, <1>6 DEF TypeOK
  <2>2. queue'[p] = <<>> \/ queue'[p] = <<event>>
    BY <1>1, <1>4, <1>6 DEF TypeOK
  <2>3. \A i \in DOMAIN queue'[p] : queue'[p][i].status = row[p].state
    BY <1>7, <2>2
  <2>4. Len(queue'[p]) <= 1
    <3>1. CASE queue'[p] = <<>>
      BY <3>1
    <3>2. CASE queue'[p] = <<event>>
      BY <3>2
    <3>3. QED
      BY <2>2, <3>1, <3>2
  <2>5. OneStory'
    BY <1>5, <2>1, <2>3 DEF IInv, ToldSafe, OneStory
  <2>6. QED
    BY <2>1, <2>4, <2>5 DEF IInv, ToldSafe, AtMostOneCallback
<1>15. QED
  BY <1>2, <1>9, <1>11, <1>12, <1>13, <1>14 DEF IInv, ToldSafe

-----------------------------------------------------------------------------
(* Calls, background passes, faults and the environment *)

(* A request that starts is not announcing. *)
LEMMA CallSafe ==
  ASSUME IInv, NEW h \in Requests, NEW p \in Presentations,
         StartGet(h, p) \/ StartCancel(h, p)
  PROVE  IInv'
<1>1. TypeOK /\ h \in Handlers
  BY DEF IInv, Handlers
<1>2. TypeOK' /\ WorksOnARow'
  BY StartGetTyped, StartCancelTyped DEF IInv
<1>3. \A g \in Handlers : g = h \/ Rests(g)
  BY <1>1 DEF TypeOK, StartGet, StartCancel, Goto, Rests
<1>4. NothingTold
  BY DEF StartGet, StartCancel, NothingTold, database
<1>5. \/ pc'[h] = "find"
      \/ pc'[h] = "cancelSession" /\ req'[h].goal = "CANCELLED"
  <2>1. CASE StartGet(h, p)
    BY <1>1, <2>1 DEF TypeOK, StartGet, Goto
  <2>2. CASE StartCancel(h, p)
    BY <1>1, <2>2, LocalsAreTyped DEF TypeOK, StartCancel, Goto, Locals
  <2>3. QED
    BY <2>1, <2>2
<1>6. MovesOnQuietly(h)
  BY <1>5 DEF MovesOnQuietly, HandlerSafe, KnowsItsGoal, AnnouncesTheOutcome,
     Announcing, RepliesWithTheOutcome, StoredBeforeVerified
<1>7. QED
  BY <1>2, <1>3, <1>4, <1>6, QuietStep

(* The background pass tells nothing itself: it heads for EXPIRED, and a    *)
(* purged result was stored.                                                *)
LEMMA JobStepSafe ==
  ASSUME IInv, NEW j \in Jobs, JobStep(j)
  PROVE  IInv'
<1>1. TypeOK /\ j \in Handlers
  BY DEF IInv, Handlers
<1>2. TypeOK' /\ WorksOnARow'
  BY FindExpirableTyped, ExpireNextTyped, ExpiryPassDoneTyped, PurgeExpiredResultsTyped
  DEF IInv, JobStep
<1>3. \A g \in Handlers : g = j \/ Rests(g)
  BY <1>1 DEF TypeOK, JobStep, FindExpirable, ExpireNext, ExpiryPassDone,
     PurgeExpiredResults, Goto, Rests
<1>4. NothingTold
  <2>1. CASE PurgeExpiredResults(j)
    BY <2>1 DEF PurgeExpiredResults, NothingTold, NoTime, Purged
  <2>2. CASE FindExpirable(j) \/ ExpireNext(j) \/ ExpiryPassDone(j)
    BY <2>2 DEF FindExpirable, ExpireNext, ExpiryPassDone, NothingTold, database
  <2>3. QED
    BY <2>1, <2>2 DEF JobStep
<1>5. \/ pc'[j] \in {"idle", "nextDue", "purge"}
      \/ pc'[j] = "transition" /\ req'[j].goal = "EXPIRED"
  <2>1. CASE ExpireNext(j)
    BY <1>1, <2>1, LocalsAreTyped DEF TypeOK, ExpireNext, Goto, Locals
  <2>2. CASE FindExpirable(j) \/ ExpiryPassDone(j) \/ PurgeExpiredResults(j)
    BY <1>1, <2>2 DEF TypeOK, FindExpirable, ExpiryPassDone, PurgeExpiredResults, Goto
  <2>3. QED
    BY <2>1, <2>2 DEF JobStep
<1>6. MovesOnQuietly(j)
  BY <1>5 DEF MovesOnQuietly, HandlerSafe, KnowsItsGoal, AnnouncesTheOutcome,
     Announcing, RepliesWithTheOutcome, StoredBeforeVerified, IsTerminal, TerminalStates
<1>7. QED
  BY <1>2, <1>3, <1>4, <1>6, QuietStep

(* A handler that fails stops telling. *)
LEMMA FaultSafe ==
  ASSUME IInv, NEW h \in Handlers, Fault(h)
  PROVE  IInv'
<1>1. TypeOK
  BY DEF IInv
<1>2. TypeOK' /\ WorksOnARow'
  BY FaultTyped DEF IInv
<1>3. \A g \in Handlers : g = h \/ Rests(g)
  BY <1>1 DEF TypeOK, Fault, Unwind, Goto, Rests
<1>4. NothingTold
  BY DEF Fault, NothingTold, database
<1>5. pc'[h] \in {"idle", "nextDue"}
  BY <1>1 DEF TypeOK, Fault, Unwind, Goto
<1>6. MovesOnQuietly(h)
  BY <1>5 DEF MovesOnQuietly, HandlerSafe, KnowsItsGoal, AnnouncesTheOutcome,
     Announcing, RepliesWithTheOutcome, StoredBeforeVerified
<1>7. QED
  BY <1>2, <1>3, <1>4, <1>6, QuietStep

(* So does every handler of a process that stops. *)
LEMMA CrashSafe ==
  ASSUME IInv, Crash
  PROVE  IInv'
<1>1. TypeOK' /\ WorksOnARow'
  BY CrashTyped DEF IInv
<1>2. NothingTold
  BY DEF Crash, NothingTold, database
<1>3. \A h \in Handlers : pc'[h] = "idle"
  BY DEF Crash
<1>4. \A h \in Handlers : MovesOnQuietly(h)
  BY <1>3 DEF MovesOnQuietly, HandlerSafe, KnowsItsGoal, AnnouncesTheOutcome,
     Announcing, RepliesWithTheOutcome, StoredBeforeVerified
<1>5. QED
  BY <1>1, <1>2, <1>4, QuietStep

(* The clock, the wallet and the engine touch nothing the service keeps. *)
LEMMA EnvironmentSafe ==
  ASSUME IInv, Environment
  PROVE  IInv'
<1>1. TypeOK' /\ WorksOnARow'
  BY TickTyped, WalletAnswersTyped, EngineFailsTyped, EngineReapsTyped
  DEF IInv, Environment
<1>2. NothingTold /\ \A h \in Handlers : Rests(h)
  BY DEF Environment, Tick, WalletAnswers, EngineFails, EngineReaps, NothingTold,
     Rests, database
<1>3. QED
  BY <1>1, <1>2, QuietStep

(* Every step keeps the inductive invariant. *)
LEMMA NextSafe ==
  ASSUME IInv, [Next]_vars
  PROVE  IInv'
<1>1. CASE UNCHANGED vars
  <2>1. TypeOK' /\ WorksOnARow'
    BY <1>1, NextTyped DEF IInv
  <2>2. NothingTold /\ \A h \in Handlers : Rests(h)
    BY <1>1 DEF vars, database, NothingTold, Rests
  <2>3. QED
    BY <2>1, <2>2, QuietStep
<1>2. ASSUME NEW h \in Requests, Call(h)
      PROVE  IInv'
  BY <1>2, StartCreateSafe, CallSafe DEF Call
<1>3. ASSUME NEW h \in Handlers, Proceed(h)
      PROVE  IInv'
  <2>1. CASE Transition(h) \/ TransitionRefused(h) \/ ReadLog(h) \/ AppendLog(h)
    BY <2>1, TransitionSafe, TransitionRefusedSafe, ReadLogSafe, AppendLogSafe
  <2>2. CASE \/ SizeSession(h) \/ Offer(h) \/ EngineRefuses(h)
             \/ AttachEngineSession(h) \/ FinishCreate(h)
    BY <2>2, SizeSessionSafe, OfferSafe, EngineRefusesSafe, AttachEngineSessionSafe,
       FinishCreateSafe
  <2>3. CASE \/ Find(h) \/ Advance(h) \/ Status(h) \/ Process(h) \/ SaveResult(h)
             \/ Reply(h)
    BY <2>3, FindSafe, AdvanceSafe, StatusSafe, ProcessSafe, SaveResultSafe, ReplySafe
  <2>4. CASE \/ AuditSettlement(h) \/ ReadForCallback(h) \/ EnqueueResult(h)
             \/ CancelSession(h)
    BY <2>4, AuditSettlementSafe, ReadForCallbackSafe, EnqueueResultSafe,
       CancelSessionSafe
  <2>5. QED
    BY <1>3, <2>1, <2>2, <2>3, <2>4 DEF Proceed
<1>4. QED
  BY <1>1, <1>2, <1>3, FaultSafe, JobStepSafe, CrashSafe, EnvironmentSafe DEF Next

(* Nothing has been created, and no handler runs. *)
LEMMA InitSafe == Init => IInv
<1> SUFFICES ASSUME Init
             PROVE  IInv
  OBVIOUS
<1>1. TypeOK /\ WorksOnARow
  BY InitTyped
<1>2. \A h \in Handlers : pc[h] = "idle"
  BY DEF Init
<1>3. \A h \in Handlers : HandlerSafe(h) /\ ~Announcing(h)
  BY <1>2 DEF HandlerSafe, KnowsItsGoal, AnnouncesTheOutcome, Announcing,
     RepliesWithTheOutcome, StoredBeforeVerified
<1>4. ToldSafe
  BY DEF Init, NoRow, ToldSafe, SilentUntilSettled, VerifiedHasResult, OneStory,
     AtMostOneCallback
<1>5. QED
  BY <1>1, <1>3, <1>4 DEF IInv, OneAnnounces

-----------------------------------------------------------------------------
(* Theorems *)

(* The inductive invariant holds in every reachable state. *)
THEOREM Invariant == Spec => []IInv
  BY InitSafe, NextSafe, PTL DEF Spec

(* A VERIFIED transaction had its result stored first (settleVerified).     *)
THEOREM VerifiedIsStored == Spec => []VerifiedHasResult
<1>1. IInv => VerifiedHasResult
  BY DEF IInv, ToldSafe
<1>2. QED
  BY <1>1, Invariant, PTL

(* The audit trail, the callback and every client are told the outcome the  *)
(* row holds, whoever won the race to settle it (settle(), transition()).   *)
THEOREM EverybodyIsToldTheSame == Spec => []OneStory
<1>1. IInv => OneStory
  BY DEF IInv, ToldSafe
<1>2. QED
  BY <1>1, Invariant, PTL

(* At most one callback is queued for a transaction (settle()).             *)
THEOREM OneCallback == Spec => []AtMostOneCallback
<1>1. IInv => AtMostOneCallback
  BY DEF IInv, ToldSafe
<1>2. QED
  BY <1>1, Invariant, PTL

(* Nothing leaves a terminal state: attaching a session keeps the state, a  *)
(* new row replaces none, and transition() only moves what the table lets   *)
(* move.                                                                    *)
LEMMA TerminalStays ==
  ASSUME TypeOK, [Next]_vars, NEW p \in Presentations, IsTerminal(row[p].state)
  PROVE  row'[p].state = row[p].state /\ row'[p].closedAt = row[p].closedAt
<1>1. CASE row' = row
  BY <1>1
<1>2. ASSUME NEW h \in Handlers, Transition(h)
      PROVE  row'[p].state = row[p].state /\ row'[p].closedAt = row[p].closedAt
  <2>1. req[h].p # p
    BY <1>2, MovesForward DEF Transition, MoveAllowed
  <2>2. QED
    BY <1>2, <2>1 DEF Transition, TypeOK
<1>3. ASSUME NEW h \in Requests, NEW q \in Presentations, StartCreate(h, q)
      PROVE  row'[p].state = row[p].state /\ row'[p].closedAt = row[p].closedAt
  BY <1>3, StatesAreNamed DEF StartCreate, TypeOK, IsTerminal
<1>4. ASSUME NEW h \in Handlers, AttachEngineSession(h)
      PROVE  row'[p].state = row[p].state /\ row'[p].closedAt = row[p].closedAt
  BY <1>4, LocalsAreTyped DEF AttachEngineSession, TypeOK, Rows
<1>5. QED
  BY <1>1, <1>2, <1>3, <1>4, ZenonT(40)
  DEF Next, Call, Proceed, JobStep, Environment, vars, database, StartGet, StartCancel,
      TransitionRefused, ReadLog, AppendLog, SizeSession, Offer, EngineRefuses,
      FinishCreate, Find, Advance, Status, Process, SaveResult, Reply, AuditSettlement,
      ReadForCallback, EnqueueResult, CancelSession, Fault, Crash, FindExpirable,
      ExpireNext, ExpiryPassDone, PurgeExpiredResults, Tick, WalletAnswers,
      EngineFails, EngineReaps

(* A settled transaction keeps its outcome and the time it was closed at.   *)
THEOREM SettledStays == Spec => TerminalIsFinal
<1>1. TypeOK /\ [Next]_vars =>
        [\A p \in Presentations :
           IsTerminal(row[p].state) => /\ row'[p].state = row[p].state
                                      /\ row'[p].closedAt = row[p].closedAt]_vars
  BY TerminalStays
<1>2. QED
  BY <1>1, TypeCorrect, PTL DEF Spec, TerminalIsFinal

-----------------------------------------------------------------------------
(* Who acts *)

Acts(h) ==
  \/ h \in Requests /\ Call(h)
  \/ h \in Jobs /\ JobStep(h)
  \/ Proceed(h) \/ Fault(h)

(* Every step is one handler's, the end of them all, or not theirs. *)
LEMMA WhoActs ==
  ASSUME [Next]_vars
  PROVE  \/ \E h \in Handlers : Acts(h)
         \/ Crash
         \/ (Environment \/ UNCHANGED vars) /\ UNCHANGED <<database, pc, req, faults>>
<1>1. Environment => UNCHANGED <<database, pc, req, faults>>
  BY DEF Environment, Tick, WalletAnswers, EngineFails, EngineReaps
<1>2. UNCHANGED vars => UNCHANGED <<database, pc, req, faults>>
  BY DEF vars
<1>3. QED
  BY <1>1, <1>2 DEF Next, Acts, Handlers

(* The others rest while one acts. *)
LEMMA OthersRest ==
  ASSUME TypeOK, NEW h \in Handlers, Acts(h)
  PROVE  \A g \in Handlers \ {h} : Rests(g)
<1>. DEFINE goes == /\ \E label : pc' = [pc EXCEPT ![h] = label]
                    /\ \E l : req' = [req EXCEPT ![h] = l]
<1>1. goes => \A g \in Handlers \ {h} : Rests(g)
  BY DEF TypeOK, Rests
<1>2. UNCHANGED req => \E l : req' = [req EXCEPT ![h] = l]
  <2>1. req = [req EXCEPT ![h] = req[h]]
    BY DEF TypeOK
  <2>2. QED
    BY <2>1
<1>3. \A label : Goto(h, label) /\ (\E l : req' = [req EXCEPT ![h] = l]) => goes
  BY DEF Goto
<1>4. Unwind(h) => goes
  BY DEF Unwind, Goto
<1>5. \A goal : SettleOn(h, goal) => goes
  BY <1>3 DEF SettleOn
<1>6. SettleReturns(h) => goes
  BY <1>2, <1>3, <1>4 DEF SettleReturns
<1>7. (\E p \in Presentations : StartCreate(h, p) \/ StartGet(h, p) \/ StartCancel(h, p)) => goes
  BY <1>3 DEF StartCreate, StartGet, StartCancel
<1>8. JobStep(h) => goes
  BY <1>2, <1>3 DEF JobStep, FindExpirable, ExpireNext, ExpiryPassDone, PurgeExpiredResults
<1>9. Transition(h) \/ ReadLog(h) \/ AppendLog(h) \/ EngineRefuses(h) \/ Find(h) \/ CancelSession(h)
        => goes
  BY <1>3, <1>4 DEF Transition, ReadLog, AppendLog, EngineRefuses, Find, CancelSession
<1>10. TransitionRefused(h) \/ FinishCreate(h) \/ Reply(h) \/ Fault(h) => goes
  BY <1>2, <1>3, <1>4 DEF TransitionRefused, FinishCreate, Reply, Fault
<1>11. SizeSession(h) \/ Offer(h) \/ AttachEngineSession(h) => goes
  BY <1>2, <1>3 DEF SizeSession, Offer, AttachEngineSession
<1>12. Advance(h) \/ Status(h) => goes
  BY <1>2, <1>3, <1>4, <1>5 DEF Advance, Status
<1>13. Process(h) \/ SaveResult(h) => goes
  BY <1>3, <1>4, <1>5 DEF Process, SaveResult
<1>14. AuditSettlement(h) \/ ReadForCallback(h) \/ EnqueueResult(h) => goes
  BY <1>2, <1>3, <1>6 DEF AuditSettlement, ReadForCallback, EnqueueResult
<1>15. QED
  BY <1>1, <1>7, <1>8, <1>9, <1>10, <1>11, <1>12, <1>13, <1>14 DEF Acts, Call, Proceed

(* Who changes a row. *)
LEMMA WhoChangesARow ==
  ASSUME TypeOK, [Next]_vars, NEW p \in Presentations, row'[p] # row[p]
  PROVE  \E h \in Handlers :
           \/ h \in Requests /\ StartCreate(h, p)
           \/ Transition(h) /\ req[h].p = p
           \/ AttachEngineSession(h) /\ req[h].p = p
<1>1. ASSUME NEW h \in Handlers, Transition(h) \/ AttachEngineSession(h) PROVE req[h].p = p
  BY <1>1 DEF TypeOK, Transition, AttachEngineSession
<1>2. ASSUME NEW h \in Requests, NEW q \in Presentations, StartCreate(h, q) PROVE p = q
  BY <1>2 DEF TypeOK, StartCreate
<1>3. ASSUME NEW h \in Handlers,
             \/ TransitionRefused(h) \/ ReadLog(h) \/ AppendLog(h) \/ SizeSession(h) \/ Offer(h)
             \/ EngineRefuses(h) \/ FinishCreate(h) \/ Find(h) \/ Advance(h) \/ Status(h)
             \/ Process(h) \/ SaveResult(h) \/ Reply(h) \/ AuditSettlement(h)
             \/ ReadForCallback(h) \/ EnqueueResult(h) \/ CancelSession(h) \/ Fault(h)
             \/ JobStep(h) \/ (\E q \in Presentations : StartGet(h, q) \/ StartCancel(h, q))
      PROVE  row' = row
  BY <1>3 DEF TransitionRefused, ReadLog, AppendLog, SizeSession, Offer, EngineRefuses,
     FinishCreate, Find, Advance, Status, Process, SaveResult, Reply, AuditSettlement,
     ReadForCallback, EnqueueResult, CancelSession, Fault, JobStep, FindExpirable, ExpireNext,
     ExpiryPassDone, PurgeExpiredResults, StartGet, StartCancel, database
<1>4. Crash => row' = row
  BY DEF Crash, database
<1>5. UNCHANGED <<database, pc, req, faults>> => row' = row
  BY DEF database
<1>6. PICK h \in Handlers : Acts(h)
  BY <1>4, <1>5, WhoActs
<1>7. QED
  BY <1>1, <1>2, <1>3, <1>6 DEF Acts, Call, Proceed, Handlers

-----------------------------------------------------------------------------
(* The evidence trail *)

(* How far along its life a state lies: no move goes back. *)
Rank(state) ==
  CASE state = "ABSENT" -> 0
    [] state = "CREATED" -> 1
    [] state = "REQUEST_READY" -> 2
    [] state = "AWAITING_WALLET" -> 3
    [] state = "PRESENTATION_RECEIVED" -> 4
    [] state = "VERIFYING" -> 5
    [] OTHER -> 6

Left(from, p) == Rank(from) < Rank(row[p].state)

(* A handler that has moved its row and not yet logged it. *)
Logging(h) ==
  \/ pc[h] = "readLog"
  \/ pc[h] = "appendLog" /\ req[h].to # "CREATED"

(* The entries past the creation of the row. *)
Logged(p) == {m \in history[p] : m.seq > 0}

(* An entry, or what is to be one, is a legal move out of a state that its  *)
(* row has left, and no other is out of the same state.                     *)
TrailIsLegal ==
  /\ \A h \in Handlers : pc[h] = "appendLog" => (req[h].seq = 0 <=> req[h].to = "CREATED")
  /\ \A h \in Handlers : Logging(h) =>
       /\ CanTransition(req[h].from, req[h].to) /\ Left(req[h].from, req[h].p)
       /\ \A m \in Logged(req[h].p) : m.from # req[h].from
  /\ \A g, h \in Handlers :
       Logging(g) /\ Logging(h) /\ req[g].p = req[h].p /\ req[g].from = req[h].from => g = h
  /\ \A p \in Presentations : \A m \in Logged(p) :
       /\ CanTransition(m.from, m.to) /\ Left(m.from, p)
       /\ \A n \in Logged(p) : n.from = m.from => n = m

(* The table leads forward. *)
LEMMA RanksGrow ==
  ASSUME NEW from, NEW to, CanTransition(from, to)
  PROVE  Rank(from) \in 1..5 /\ Rank(to) \in 1..6 /\ Rank(from) < Rank(to)
BY DEF CanTransition, AllowedTransitionsFrom, Rank

LEMMA RankIsANumber ==
  ASSUME NEW state
  PROVE  /\ Rank(state) \in 0..6 /\ (state = "ABSENT" => Rank(state) = 0)
         /\ state \in PresentationStates => Rank(state) > 0
BY DEF Rank, PresentationStates, NonTerminalStates, TerminalStates

(* What transition() does. *)
LEMMA TransitionMoves ==
  ASSUME TypeOK, NEW h \in Handlers, Transition(h)
  PROVE  /\ pc[h] = "transition" /\ pc'[h] = "readLog"
         /\ CanTransition(req[h].from, Hop(h)) /\ row[req[h].p].state = req[h].from
         /\ row'[req[h].p].state = Hop(h) /\ row'[req[h].p].session = row[req[h].p].session
         /\ row'[req[h].p].callback = row[req[h].p].callback
         /\ \A p \in Presentations : p # req[h].p => row'[p] = row[p]
         /\ req'[h].op = req[h].op /\ req'[h].p = req[h].p /\ req'[h].from = req[h].from
         /\ req'[h].to = Hop(h) /\ req'[h].goal = req[h].goal
<1>1. /\ pc[h] = "transition" /\ pc'[h] = "readLog"
      /\ CanTransition(req[h].from, Hop(h)) /\ row[req[h].p].state = req[h].from
  BY DEF TypeOK, Transition, MoveAllowed, Goto
<1>2. /\ row'[req[h].p].state = Hop(h) /\ row'[req[h].p].session = row[req[h].p].session
      /\ row'[req[h].p].callback = row[req[h].p].callback
      /\ \A p \in Presentations : p # req[h].p => row'[p] = row[p]
  BY LocalsAreTyped DEF TypeOK, Transition, Rows
<1>3. /\ req'[h].op = req[h].op /\ req'[h].p = req[h].p /\ req'[h].from = req[h].from
      /\ req'[h].to = Hop(h) /\ req'[h].goal = req[h].goal
  BY LocalsAreTyped DEF TypeOK, Transition, Locals
<1>4. QED
  BY <1>1, <1>2, <1>3

(* A row only goes forward. *)
LEMMA LeftForGood ==
  ASSUME TypeOK, [Next]_vars, NEW p \in Presentations
  PROVE  Rank(row[p].state) <= Rank(row'[p].state)
<1>1. Rank(row[p].state) \in 0..6 /\ Rank(row'[p].state) \in 0..6
  BY RankIsANumber
<1>2. CASE row'[p] = row[p]
  BY <1>1, <1>2
<1>3. ASSUME NEW h \in Handlers, Transition(h), req[h].p = p
      PROVE  Rank(row[p].state) < Rank(row'[p].state)
  BY <1>3, TransitionMoves, RanksGrow
<1>4. ASSUME NEW h \in Handlers, AttachEngineSession(h), req[h].p = p
      PROVE  row'[p].state = row[p].state
  BY <1>4 DEF TypeOK, AttachEngineSession, Rows
<1>5. ASSUME NEW h \in Requests, StartCreate(h, p)
      PROVE  Rank(row[p].state) = 0
  BY <1>5, RankIsANumber DEF StartCreate
<1>6. QED
  BY <1>1, <1>2, <1>3, <1>4, <1>5, WhoChangesARow

(* A handler comes to the log from transition(), or with a row it created. *)
LEMMA ComesToTheLog ==
  ASSUME TypeOK, NEW h \in Handlers, Acts(h), pc'[h] \in {"readLog", "appendLog"}
  PROVE  \/ Transition(h)
         \/ ReadLog(h)
         \/ \E p \in Presentations : h \in Requests /\ StartCreate(h, p)
<1>1. ~Unwind(h) /\ \A goal : ~SettleOn(h, goal)
  BY DEF TypeOK, Unwind, SettleOn, Goto
<1>2. \A label : Goto(h, label) => label \in {"readLog", "appendLog"}
  BY DEF TypeOK, Goto
<1>3. ASSUME \/ JobStep(h) \/ (\E p \in Presentations : StartGet(h, p) \/ StartCancel(h, p))
             \/ SizeSession(h) \/ Offer(h) \/ EngineRefuses(h) \/ AttachEngineSession(h)
             \/ CancelSession(h)
      PROVE  FALSE
  <2>1. \E label \in {"idle", "nextDue", "transition", "purge", "find", "cancelSession",
                      "offer", "attach"} : Goto(h, label)
    BY <1>3 DEF JobStep, FindExpirable, ExpireNext, ExpiryPassDone, PurgeExpiredResults, StartGet,
       StartCancel, SizeSession, Offer, EngineRefuses, AttachEngineSession, CancelSession
  <2>2. QED
    BY <1>2, <2>1
<1>4. ASSUME TransitionRefused(h) \/ FinishCreate(h) \/ Find(h)
      PROVE  FALSE
  BY <1>1, <1>2, <1>4 DEF TransitionRefused, FinishCreate, Find
<1>5. ASSUME AppendLog(h) PROVE FALSE
  <2>1. Goto(h, AfterMove(h))
    BY <1>1, <1>5 DEF AppendLog
  <2>2. AfterMove(h) \notin {"readLog", "appendLog"}
    BY DEF AfterMove
  <2>3. QED
    BY <1>2, <2>1, <2>2
<1>6. ASSUME Advance(h) \/ Status(h) \/ Process(h) \/ SaveResult(h) \/ Reply(h) \/ Fault(h)
      PROVE  FALSE
  BY <1>1, <1>2, <1>6 DEF Advance, Status, Process, SaveResult, Reply, Fault
<1>7. ASSUME AuditSettlement(h) \/ ReadForCallback(h) \/ EnqueueResult(h)
      PROVE  FALSE
  BY <1>1, <1>2, <1>7 DEF AuditSettlement, ReadForCallback, EnqueueResult, SettleReturns
<1>8. QED
  BY <1>3, <1>4, <1>5, <1>6, <1>7 DEF Acts, Call, Proceed

(* Drawing a number changes nothing else of the entry. *)
LEMMA ReadLogDraws ==
  ASSUME TypeOK, NEW h \in Handlers, ReadLog(h)
  PROVE  /\ pc[h] = "readLog" /\ pc'[h] = "appendLog" /\ req'[h].seq > 0
         /\ req'[h].p = req[h].p /\ req'[h].from = req[h].from /\ req'[h].to = req[h].to
         /\ req'[h].op = req[h].op /\ req'[h].goal = req[h].goal
<1>1. PICK last \in {m.seq : m \in history[req[h].p]} \cup {0} :
        req' = [req EXCEPT ![h] = [@ EXCEPT !.seq = last + 1]]
  BY DEF ReadLog
<1>2. last \in Nat
  BY LocalsAreTyped DEF TypeOK, Moves
<1>3. req[h] \in Locals /\ req'[h] = [req[h] EXCEPT !.seq = last + 1]
  BY <1>1, LocalsAreTyped DEF TypeOK
<1>4. pc[h] = "readLog" /\ pc'[h] = "appendLog"
  BY DEF TypeOK, ReadLog, Goto
<1>5. req'[h].seq = last + 1
  BY <1>3 DEF Locals
<1>6. /\ req'[h].p = req[h].p /\ req'[h].from = req[h].from /\ req'[h].to = req[h].to
      /\ req'[h].op = req[h].op /\ req'[h].goal = req[h].goal
  BY <1>3 DEF Locals
<1>7. QED
  BY <1>2, <1>4, <1>5, <1>6

(* Who has a move to log has just made it, or had it before. *)
LEMMA LoggersKept ==
  ASSUME TypeOK, [Next]_vars, NEW h \in Handlers, Logging(h)'
  PROVE  \/ Transition(h)
         \/ /\ Logging(h) /\ ~AppendLog(h) /\ req'[h].p = req[h].p
            /\ req'[h].from = req[h].from /\ req'[h].to = req[h].to
<1>1. CASE Rests(h)
  <2>1. AppendLog(h) => AfterMove(h) = "appendLog" \/ pc'[h] # "appendLog"
    BY DEF TypeOK, AppendLog, Unwind, Goto
  <2>2. AppendLog(h) => pc[h] = "appendLog"
    BY DEF AppendLog
  <2>3. AfterMove(h) # "appendLog"
    BY DEF AfterMove
  <2>4. QED
    BY <1>1, <2>1, <2>2, <2>3 DEF Logging, Rests
<1>2. CASE Acts(h)
  <2>1. \A p \in Presentations : h \in Requests /\ StartCreate(h, p) => ~Logging(h)'
    BY DEF TypeOK, StartCreate, Goto, Logging
  <2>2. ReadLog(h) => Logging(h) /\ ~AppendLog(h)
    BY DEF ReadLog, AppendLog, Logging
  <2>3. QED
    BY <1>2, <2>1, <2>2, ComesToTheLog, ReadLogDraws DEF Logging
<1>3. CASE ~Rests(h) /\ ~Acts(h)
  <2>1. \A g \in Handlers : ~Acts(g)
    BY <1>3, OthersRest
  <2>2. ~Crash
    BY DEF Crash, Logging
  <2>3. QED
    BY <1>3, <2>1, <2>2, WhoActs DEF Rests
<1>4. QED
  BY <1>1, <1>2, <1>3

(* What a handler has to log. *)
Entry(h) == [seq |-> req[h].seq, from |-> req[h].from, to |-> req[h].to]

(* The trail grows by it. *)
LEMMA TrailGrows ==
  ASSUME TypeOK, TrailIsLegal, [Next]_vars, NEW p \in Presentations
  PROVE  \/ Logged(p)' \subseteq Logged(p)
         \/ \E h \in Handlers :
              /\ AppendLog(h) /\ Logging(h) /\ req[h].p = p
              /\ Logged(p)' \subseteq Logged(p) \cup {Entry(h)}
<1>1. ASSUME NEW h \in Handlers, AppendLog(h)
      PROVE  \/ Logged(p)' \subseteq Logged(p)
             \/ /\ Logging(h) /\ req[h].p = p
                /\ Logged(p)' \subseteq Logged(p) \cup {Entry(h)}
  <2>1. /\ pc[h] = "appendLog"
        /\ \/ history' = history
           \/ history' = [history EXCEPT ![req[h].p] = @ \cup {Entry(h)}]
    BY <1>1 DEF AppendLog, Entry
  <2>2. \/ history'[p] \subseteq history[p]
        \/ req[h].p = p /\ history'[p] \subseteq history[p] \cup {Entry(h)}
    BY <2>1 DEF TypeOK
  <2>3. Entry(h).seq > 0 => Logging(h)
    BY <2>1 DEF TrailIsLegal, Logging, Entry
  <2>4. QED
    BY <2>2, <2>3 DEF Logged
<1>2. ASSUME NEW h \in Handlers,
             \/ Transition(h) \/ TransitionRefused(h) \/ ReadLog(h) \/ SizeSession(h) \/ Offer(h)
             \/ EngineRefuses(h) \/ FinishCreate(h) \/ Find(h) \/ Advance(h) \/ Status(h)
             \/ Process(h) \/ SaveResult(h) \/ Reply(h) \/ AuditSettlement(h)
             \/ ReadForCallback(h) \/ EnqueueResult(h) \/ CancelSession(h) \/ Fault(h)
             \/ JobStep(h) \/ AttachEngineSession(h) \/ Call(h)
      PROVE  history' = history
  BY <1>2 DEF Transition, TransitionRefused, ReadLog, SizeSession, Offer, EngineRefuses,
     FinishCreate, Find, Advance, Status, Process, SaveResult, Reply, AuditSettlement,
     ReadForCallback, EnqueueResult, CancelSession, Fault, JobStep, FindExpirable, ExpireNext,
     ExpiryPassDone, PurgeExpiredResults, AttachEngineSession, Call, StartCreate, StartGet,
     StartCancel, database
<1>3. Crash \/ UNCHANGED <<database, pc, req, faults>> => history' = history
  BY DEF Crash, database
<1>4. QED
  BY <1>1, <1>2, <1>3, WhoActs DEF Acts, Proceed, Logged

LEMMA TrailStep ==
  ASSUME IInv, TrailIsLegal, [Next]_vars
  PROVE  TrailIsLegal'
<1>1. TypeOK /\ \A h \in Handlers : pc[h] = "readLog" => req[h].to # "CREATED"
  BY DEF IInv, HandlerSafe, KnowsItsGoal
<1>. USE <1>1
<1>2. ASSUME NEW h \in Handlers, pc'[h] = "appendLog"
      PROVE  req'[h].seq = 0 <=> req'[h].to = "CREATED"
  <2>1. CASE Rests(h)
    BY <1>2, <2>1 DEF Rests, TrailIsLegal
  <2>2. CASE Acts(h)
    <3>1. \A p \in Presentations : h \in Requests /\ StartCreate(h, p) =>
            req'[h].seq = 0 /\ req'[h].to = "CREATED"
      BY DEF TypeOK, StartCreate
    <3>2. QED
      BY <1>2, <2>2, <3>1, ComesToTheLog, ReadLogDraws, TransitionMoves
  <2>3. CASE ~Rests(h) /\ ~Acts(h)
    <3>1. ~Crash /\ \A g \in Handlers : ~Acts(g)
      BY <1>2, <2>3, OthersRest DEF Crash
    <3>2. QED
      BY <2>3, <3>1, WhoActs DEF Rests
  <2>4. QED
    BY <2>1, <2>2, <2>3
<1>3. ASSUME NEW from, NEW p \in Presentations, Left(from, p)
      PROVE  Left(from, p)' /\ from # row[p].state
  BY <1>3, LeftForGood, RankIsANumber DEF Left
<1>4. ASSUME NEW g \in Handlers, Logging(g)'
      PROVE  /\ CanTransition(req'[g].from, req'[g].to)
             /\ Left(req[g].from, req[g].p)'
             /\ \A m \in Logged(req[g].p)' : m.from # req'[g].from
  <2>1. PICK p \in Presentations : p = req[g].p
    BY LocalsAreTyped
  <2>2. CASE Transition(g)
    <3>1. /\ CanTransition(req'[g].from, req'[g].to) /\ req'[g].p = p
          /\ req'[g].from = row[p].state /\ row'[p].state = req'[g].to
      BY <2>1, <2>2, TransitionMoves
    <3>2. Left(req[g].from, req[g].p)'
      BY <3>1, RanksGrow DEF Left
    <3>3. history' = history
      BY <2>2 DEF Transition
    <3>4. \A m \in Logged(p) : m.from # row[p].state
      BY <1>3 DEF TrailIsLegal
    <3>5. QED
      BY <3>1, <3>2, <3>3, <3>4 DEF Logged
  <2>3. CASE /\ Logging(g) /\ ~AppendLog(g) /\ req'[g].p = req[g].p
             /\ req'[g].from = req[g].from /\ req'[g].to = req[g].to
    <3>1. /\ CanTransition(req[g].from, req[g].to) /\ Left(req[g].from, p)
          /\ \A m \in Logged(p) : m.from # req[g].from
      BY <2>1, <2>3 DEF TrailIsLegal
    <3>2. Left(req[g].from, req[g].p)'
      BY <1>3, <2>1, <2>3, <3>1 DEF Left
    <3>3. \A m \in Logged(p)' : m.from # req[g].from
      BY <2>1, <2>3, <3>1, TrailGrows DEF TrailIsLegal, Entry
    <3>4. QED
      BY <2>1, <2>3, <3>1, <3>2, <3>3 DEF Logged
  <2>4. QED
    BY <1>4, <2>2, <2>3, LoggersKept
<1>5. ASSUME NEW g \in Handlers, NEW h \in Handlers, Logging(g)', Logging(h)',
             req'[g].p = req'[h].p, req'[g].from = req'[h].from
      PROVE  g = h
  <2>1. Transition(g) /\ Transition(h) => g = h
    <3>1. \A f \in Handlers : Transition(f) => Acts(f) /\ ~Rests(f)
      BY TransitionMoves DEF Acts, Proceed, Rests
    <3>2. QED
      BY <3>1, OthersRest
  <2>2. ASSUME NEW a \in Handlers, NEW b \in Handlers, Transition(a), Logging(b),
               req'[b].p = req[b].p, req'[b].from = req[b].from,
               req'[a].p = req'[b].p, req'[a].from = req'[b].from
        PROVE  FALSE
    <3>1. Left(req[b].from, req[b].p) /\ req[b].p \in Presentations
      BY <2>2, LocalsAreTyped DEF TrailIsLegal
    <3>2. req[b].from = row[req[b].p].state
      BY <2>2, TransitionMoves
    <3>3. QED
      BY <1>3, <3>1, <3>2
  <2>3. QED
    BY <1>5, <2>1, <2>2, LoggersKept DEF TrailIsLegal
<1>6. ASSUME NEW p \in Presentations, NEW m \in Logged(p)'
      PROVE  /\ CanTransition(m.from, m.to) /\ Left(m.from, p)'
             /\ \A n \in Logged(p)' : n.from = m.from => n = m
  <2>1. CASE Logged(p)' \subseteq Logged(p)
    BY <1>3, <1>6, <2>1 DEF TrailIsLegal
  <2>2. ASSUME NEW h \in Handlers, AppendLog(h), Logging(h), req[h].p = p,
               Logged(p)' \subseteq Logged(p) \cup {Entry(h)}
        PROVE  /\ CanTransition(m.from, m.to) /\ Left(m.from, p)'
               /\ \A n \in Logged(p)' : n.from = m.from => n = m
    <3>1. /\ CanTransition(req[h].from, req[h].to) /\ Left(req[h].from, p)
          /\ \A n \in Logged(p) : n.from # req[h].from
      BY <2>2 DEF TrailIsLegal
    <3>2. Entry(h).from = req[h].from /\ Entry(h).to = req[h].to
      BY DEF Entry
    <3>3. CanTransition(m.from, m.to) /\ Left(m.from, p)
      BY <1>6, <2>2, <3>1, <3>2 DEF TrailIsLegal
    <3>4. \A n \in Logged(p)' : n.from = m.from => n = m
      BY <1>6, <2>2, <3>1, <3>2 DEF TrailIsLegal
    <3>5. QED
      BY <1>3, <3>3, <3>4
  <2>3. QED
    BY <2>1, <2>2, TrailGrows
<1>7. QED
  BY <1>2, <1>4, <1>5, <1>6 DEF TrailIsLegal

(* The evidence trail never tells of a move the table forbids, and never    *)
(* shows a state left twice, however handlers interleave between an UPDATE  *)
(* and its log entry (transition(), appendNextTransition).                  *)
THEOREM TrailStaysLegal == Spec => []HistoryIsLegal
<1>1. Init => TrailIsLegal
  BY DEF Init, TrailIsLegal, Logging, Logged
<1>2. IInv /\ TrailIsLegal /\ [Next]_vars => TrailIsLegal'
  BY TrailStep
<1>3. TypeOK /\ TrailIsLegal => HistoryIsLegal
  BY DEF TrailIsLegal, HistoryIsLegal, Logged
<1>4. IInv => TypeOK
  BY DEF IInv
<1>5. QED
  BY <1>1, <1>2, <1>3, <1>4, Invariant, PTL DEF Spec

-----------------------------------------------------------------------------
(* Announcements *)

(* create() has not attached the session of its row yet. *)
Opening(h) ==
  \/ pc[h] \in {"sizeSession", "offer", "attach"}
  \/ pc[h] = "appendLog" /\ req[h].to = "CREATED"

Walking(h) == pc[h] = "transition" \/ Logging(h)

Creates(h) == pc[h] \in Working /\ req[h].op = "create"

(* A row without a session is left to its creation, except that it may      *)
(* expire or be cancelled: every other settlement is what an engine said of *)
(* a session.                                                               *)
KnowsItsSession(h) ==
  LET r == row[req[h].p] IN
  /\ Creates(h) =>
       \/ /\ Opening(h) /\ req[h].goal = "AWAITING_WALLET"
          /\ ~r.session /\ r.state \in {"CREATED", "EXPIRED", "CANCELLED"}
       \/ Walking(h) /\ req[h].goal = "PROTOCOL_ERROR" /\ ~r.session
       \/ Walking(h) /\ req[h].goal = "AWAITING_WALLET" /\ r.session
       \/ pc[h] = "audit"
  /\ req[h].op # "create" /\ (Walking(h) \/ pc[h] \in {"audit", "notify", "enqueue"}) =>
       req[h].goal \in {"EXPIRED", "CANCELLED"} \/ r.session
  /\ pc[h] \in {"status", "process", "save"} => r.session
  /\ req[h].op = "cancel" /\ pc[h] \in Working => req[h].goal = "CANCELLED"
  /\ pc[h] \in {"find", "advance", "status", "process", "save"} => req[h].op = "get"

Sessioned ==
  /\ \A h \in Handlers : KnowsItsSession(h)
  /\ \A g, h \in Handlers : Creates(g) /\ Creates(h) /\ req[g].p = req[h].p => g = h

(* A handler that has left its row knows nothing it could lose. *)
LEMMA Knowing ==
  ASSUME NEW h \in Handlers, pc[h] \notin Working
  PROVE  KnowsItsSession(h)
BY DEF KnowsItsSession, Working, Creates, Walking, Logging, Labels

(* A handler that heads for a settlement of a row with a session, or for an *)
(* expiry.                                                                  *)
LEMMA SettlesKnowing ==
  ASSUME TypeOK, NEW h \in Handlers, NEW goal \in TerminalStates, SettleOn(h, goal),
         req[h].op = "get", UNCHANGED row,
         goal = "EXPIRED" \/ row[req[h].p].session
  PROVE  KnowsItsSession(h)'
<1>1. /\ pc'[h] = "transition" /\ req'[h].goal = goal /\ req'[h].p = req[h].p
      /\ req'[h].op = req[h].op
  BY LocalsAreTyped DEF TypeOK, SettleOn, Goto, Locals
<1>2. QED
  BY <1>1 DEF KnowsItsSession, Creates, Walking, Logging

(* The steps of create(). *)
LEMMA CreatorKnows ==
  ASSUME IInv, Sessioned, NEW h \in Handlers,
         \/ SizeSession(h) \/ Offer(h) \/ EngineRefuses(h)
         \/ AttachEngineSession(h) \/ FinishCreate(h)
         \/ \E p \in Presentations : StartCreate(h, p)
  PROVE  KnowsItsSession(h)'
<1>1. /\ TypeOK /\ KnowsItsSession(h)
      /\ pc[h] \in {"sizeSession", "offer", "attach"} => req[h].op = "create"
  BY DEF IInv, Sessioned, HandlerSafe, KnowsItsGoal
<1>. USE <1>1
<1>2. CASE SizeSession(h) \/ Offer(h)
  <2>1. pc[h] \in {"sizeSession", "offer"} /\ pc'[h] \in {"offer", "attach"} /\ UNCHANGED <<row, req>>
    BY <1>2 DEF TypeOK, SizeSession, Offer, Goto, database
  <2>2. QED
    BY <2>1 DEF KnowsItsSession, Creates, Opening, Walking, Logging, Working, Labels
<1>3. CASE EngineRefuses(h)
  <2>1. /\ pc[h] \in {"sizeSession", "offer"} /\ pc'[h] = "transition" /\ UNCHANGED row
        /\ req'[h].goal = "PROTOCOL_ERROR" /\ req'[h].p = req[h].p /\ req'[h].op = req[h].op
    BY <1>3, LocalsAreTyped DEF TypeOK, EngineRefuses, Goto, database, Locals
  <2>2. QED
    BY <2>1 DEF KnowsItsSession, Creates, Opening, Walking, Logging, Working, Labels
<1>4. CASE AttachEngineSession(h)
  <2>1. /\ pc[h] = "attach" /\ pc'[h] = "transition" /\ req' = req
        /\ row'[req[h].p].session = TRUE
    BY <1>4, LocalsAreTyped DEF TypeOK, AttachEngineSession, Goto, Rows
  <2>2. QED
    BY <2>1 DEF KnowsItsSession, Creates, Opening, Walking, Logging, Working, Labels
<1>5. CASE FinishCreate(h)
  BY <1>5, UnwindStays, Knowing DEF FinishCreate, KnowsItsSession, Working, Creates, Walking, Logging, Labels
<1>6. ASSUME NEW p \in Presentations, StartCreate(h, p) PROVE KnowsItsSession(h)'
  <2>1. /\ pc'[h] = "appendLog" /\ req'[h].p = p /\ req'[h].to = "CREATED"
        /\ req'[h].op = "create" /\ req'[h].goal = "AWAITING_WALLET"
        /\ row'[p].state = "CREATED" /\ row'[p].session = FALSE
    BY <1>6 DEF TypeOK, StartCreate, Goto
  <2>2. QED
    BY <2>1 DEF KnowsItsSession, Creates, Opening, Walking, Logging
<1>7. QED
  BY <1>2, <1>3, <1>4, <1>5, <1>6

(* transition() and its log. *)
LEMMA WalkerKnows ==
  ASSUME IInv, Sessioned, NEW h \in Handlers,
         Transition(h) \/ TransitionRefused(h) \/ ReadLog(h) \/ AppendLog(h)
  PROVE  KnowsItsSession(h)'
<1>1. TypeOK /\ KnowsItsSession(h) /\ KnowsItsGoal(h)
  BY DEF IInv, Sessioned, HandlerSafe
<1>. USE <1>1
<1>2. Unwind(h) => KnowsItsSession(h)'
  BY UnwindStays DEF KnowsItsSession, Working, Creates, Walking, Logging, Labels
<1>3. CASE Transition(h)
  BY <1>3, TransitionMoves DEF KnowsItsSession, Creates, Opening, Walking, Logging, Working, Labels
<1>4. CASE ReadLog(h)
  <2>1. row' = row /\ req[h].to # "CREATED"
    BY <1>4 DEF ReadLog, database, KnowsItsGoal
  <2>2. QED
    BY <1>4, <2>1, ReadLogDraws
    DEF KnowsItsSession, Creates, Opening, Walking, Logging, Working, Labels
<1>5. CASE AppendLog(h) /\ ~Unwind(h)
  <2>1. /\ req' = [req EXCEPT ![h] = [@ EXCEPT !.from = req[h].to, !.seq = 0]]
        /\ pc' = [pc EXCEPT ![h] = AfterMove(h)]
        /\ pc[h] = "appendLog" /\ row' = row
    BY <1>5 DEF AppendLog, Goto
  <2>2. /\ pc'[h] = AfterMove(h) /\ req'[h].p = req[h].p
        /\ req'[h].op = req[h].op /\ req'[h].goal = req[h].goal
    BY <2>1, LocalsAreTyped DEF TypeOK, Locals
  <2>3. CASE req[h].to = "CREATED"
    <3>1. pc'[h] = "sizeSession" /\ req[h].op = "create"
      BY <2>1, <2>2, <2>3 DEF AfterMove, KnowsItsGoal
    <3>2. QED
      BY <2>1, <2>2, <2>3, <3>1
      DEF KnowsItsSession, Creates, Opening, Walking, Logging, Working, Labels
  <2>4. CASE req[h].to # "CREATED"
    <3>1. pc'[h] \in {"transition", "audit"}
      BY <2>2, <2>4 DEF AfterMove
    <3>2. QED
      BY <2>1, <2>2, <2>4, <3>1
      DEF KnowsItsSession, Creates, Opening, Walking, Logging, Working, Labels
  <2>5. QED
    BY <2>3, <2>4
<1>6. QED
  BY <1>2, <1>3, <1>4, <1>5 DEF TransitionRefused
(* The steps of get(). *)
LEMMA GetterKnows ==
  ASSUME IInv, Sessioned, NEW h \in Handlers,
         Find(h) \/ Advance(h) \/ Status(h) \/ Process(h) \/ SaveResult(h) \/ Reply(h)
  PROVE  KnowsItsSession(h)'
<1>1. TypeOK /\ KnowsItsSession(h)
  BY DEF IInv, Sessioned
<1>. USE <1>1
<1>2. Unwind(h) => KnowsItsSession(h)'
  BY UnwindStays DEF KnowsItsSession, Working, Creates, Walking, Logging, Labels
<1>3. CASE Find(h)
  <2>1. /\ pc[h] = "find" /\ pc'[h] \in {"reply", "advance"} /\ row' = row
        /\ req'[h].op = req[h].op
    BY <1>3, LocalsAreTyped DEF TypeOK, Find, Goto, database, Locals
  <2>2. QED
    BY <2>1 DEF KnowsItsSession, Creates, Walking, Logging
<1>4. CASE Advance(h)
  <2>1. pc[h] = "advance" /\ row' = row /\ req[h].op = "get"
    BY <1>4 DEF Advance, database, KnowsItsSession
  <2>2. CASE SettleOn(h, "EXPIRED")
    BY <2>1, <2>2, SettlesKnowing, StatesAreNamed
  <2>3. CASE row[req[h].p].session /\ Goto(h, "status") /\ UNCHANGED req
    <3>1. pc'[h] = "status" /\ req'[h] = req[h]
      BY <2>3 DEF TypeOK, Goto
    <3>2. QED
      BY <2>1, <2>3, <3>1 DEF KnowsItsSession, Creates, Walking, Logging
  <2>4. CASE Goto(h, "reply") /\ UNCHANGED req
    <3>1. pc'[h] = "reply" /\ req'[h] = req[h]
      BY <2>4 DEF TypeOK, Goto
    <3>2. QED
      BY <2>1, <3>1 DEF KnowsItsSession, Creates, Walking, Logging
  <2>5. QED
    BY <1>4, <2>2, <2>3, <2>4 DEF Advance
<1>5. CASE Status(h)
  <2>1. pc[h] = "status" /\ row' = row /\ req[h].op = "get" /\ row[req[h].p].session
    BY <1>5 DEF Status, database, KnowsItsSession
  <2>2. ASSUME NEW goal \in TerminalStates, SettleOn(h, goal) PROVE KnowsItsSession(h)'
    BY <2>1, <2>2, SettlesKnowing
  <2>3. CASE (Goto(h, "reply") \/ Goto(h, "process")) /\ UNCHANGED req
    <3>1. pc'[h] \in {"reply", "process"} /\ req'[h] = req[h]
      BY <2>3 DEF TypeOK, Goto
    <3>2. QED
      BY <2>1, <3>1 DEF KnowsItsSession, Creates, Walking, Logging
  <2>4. QED
    BY <1>2, <1>5, <2>2, <2>3 DEF Status
<1>6. CASE Process(h)
  <2>1. pc[h] = "process" /\ row' = row /\ req[h].op = "get" /\ row[req[h].p].session
    BY <1>6 DEF Process, database, KnowsItsSession
  <2>2. ASSUME NEW goal \in TerminalStates, SettleOn(h, goal) PROVE KnowsItsSession(h)'
    BY <2>1, <2>2, SettlesKnowing
  <2>3. CASE req' = [req EXCEPT ![h] = [@ EXCEPT !.at = now]] /\ Goto(h, "save")
    <3>1. pc'[h] = "save" /\ req'[h].op = req[h].op /\ req'[h].p = req[h].p
      BY <2>3, LocalsAreTyped DEF TypeOK, Goto, Locals
    <3>2. QED
      BY <2>1, <3>1 DEF KnowsItsSession, Creates, Walking, Logging
  <2>4. QED
    BY <1>2, <1>6, <2>2, <2>3, StatesAreNamed DEF Process
<1>7. CASE SaveResult(h)
  <2>1. pc[h] = "save" /\ row' = row /\ req[h].op = "get" /\ row[req[h].p].session
    BY <1>7 DEF SaveResult, KnowsItsSession
  <2>2. QED
    BY <1>7, <2>1, SettlesKnowing, StatesAreNamed DEF SaveResult
<1>8. QED
  BY <1>2, <1>3, <1>4, <1>5, <1>6, <1>7 DEF Reply

(* The end of settle(), cancel(), and the starts of both and of a pass. *)
LEMMA SettlerKnows ==
  ASSUME IInv, Sessioned, NEW h \in Handlers,
         \/ AuditSettlement(h) \/ ReadForCallback(h) \/ EnqueueResult(h) \/ CancelSession(h)
         \/ \E p \in Presentations : StartGet(h, p) \/ StartCancel(h, p)
         \/ h \in Jobs /\ JobStep(h)
         \/ Fault(h)
  PROVE  KnowsItsSession(h)'
<1>1. TypeOK /\ KnowsItsSession(h) /\ KnowsItsGoal(h)
  BY DEF IInv, Sessioned, HandlerSafe
<1>. USE <1>1
<1>2. Unwind(h) => KnowsItsSession(h)'
  BY UnwindStays DEF KnowsItsSession, Working, Creates, Walking, Logging, Labels
<1>3. ASSUME pc[h] \in {"notify", "enqueue"}, SettleReturns(h), UNCHANGED row
      PROVE  KnowsItsSession(h)'
  <2>1. CASE Goto(h, "reply") /\ UNCHANGED req
    <3>1. pc'[h] = "reply" /\ req'[h] = req[h] /\ req[h].op # "create"
      BY <1>3, <2>1 DEF TypeOK, Goto, KnowsItsGoal
    <3>2. QED
      BY <1>3, <3>1 DEF KnowsItsSession, Creates, Walking, Logging, Working, Labels
  <2>2. QED
    BY <1>2, <1>3, <2>1 DEF SettleReturns
<1>4. CASE AuditSettlement(h)
  <2>1. pc[h] = "audit" /\ row' = row /\ req[h].op # "create"
    BY <1>4 DEF AuditSettlement
  <2>2. CASE req[h].op = "cancel"
    <3>1. pc'[h] = "find" /\ req'[h] = [req[h] EXCEPT !.op = "get"]
      BY <1>4, <2>2 DEF TypeOK, AuditSettlement, Goto
    <3>2. req'[h].op = "get"
      BY <3>1, LocalsAreTyped DEF Locals
    <3>3. QED
      BY <3>1, <3>2 DEF KnowsItsSession, Creates, Walking, Logging
  <2>3. CASE req[h].op # "cancel"
    <3>1. pc'[h] = "notify" /\ req' = req
      BY <1>4, <2>3 DEF TypeOK, AuditSettlement, Goto
    <3>2. QED
      BY <2>1, <3>1 DEF KnowsItsSession, Creates, Walking, Logging, Working, Labels
  <2>4. QED
    BY <2>2, <2>3
<1>5. CASE ReadForCallback(h)
  <2>1. pc[h] = "notify" /\ row' = row /\ req[h].op # "create"
    BY <1>5 DEF ReadForCallback, database, KnowsItsGoal
  <2>2. CASE Goto(h, "enqueue")
    <3>1. /\ pc'[h] = "enqueue"
          /\ req'[h] = [req[h] EXCEPT !.claims = req[h].goal = "VERIFIED" /\ result[req[h].p] \in Nat]
      BY <1>5, <2>2 DEF TypeOK, ReadForCallback, Goto, SettleReturns, Unwind
    <3>2. req'[h].op = req[h].op /\ req'[h].p = req[h].p /\ req'[h].goal = req[h].goal
      BY <3>1, LocalsAreTyped DEF Locals
    <3>3. QED
      BY <2>1, <3>1, <3>2 DEF KnowsItsSession, Creates, Walking, Logging, Working, Labels
  <2>3. QED
    BY <1>3, <1>5, <2>1, <2>2 DEF ReadForCallback
<1>6. CASE EnqueueResult(h)
  BY <1>3, <1>6 DEF EnqueueResult
<1>7. CASE CancelSession(h)
  <2>1. /\ pc[h] = "cancelSession" /\ row' = row /\ req[h].goal = "CANCELLED"
        /\ pc'[h] = "transition" /\ req'[h].op = req[h].op /\ req'[h].goal = req[h].goal
    BY <1>7, LocalsAreTyped DEF TypeOK, CancelSession, Goto, Locals, database, KnowsItsGoal
  <2>2. QED
    BY <2>1 DEF KnowsItsSession, Creates, Opening, Walking, Logging, Working, Labels
<1>8. ASSUME NEW p \in Presentations, StartGet(h, p) PROVE KnowsItsSession(h)'
  <2>1. pc'[h] = "find" /\ req'[h].op = "get"
    BY <1>8, LocalsAreTyped DEF TypeOK, StartGet, Goto, Locals
  <2>2. QED
    BY <2>1 DEF KnowsItsSession, Creates, Walking, Logging
<1>9. ASSUME NEW p \in Presentations, StartCancel(h, p) PROVE KnowsItsSession(h)'
  <2>1. pc'[h] = "cancelSession" /\ req'[h].op = "cancel" /\ req'[h].goal = "CANCELLED"
    BY <1>9, LocalsAreTyped DEF TypeOK, StartCancel, Goto, Locals
  <2>2. QED
    BY <2>1 DEF KnowsItsSession, Creates, Walking, Logging
<1>10. CASE h \in Jobs /\ JobStep(h)
  <2>1. CASE ExpireNext(h)
    <3>1. pc'[h] = "transition" /\ req'[h].op = "expire" /\ req'[h].goal = "EXPIRED"
      BY <2>1, LocalsAreTyped DEF TypeOK, ExpireNext, Goto, Locals
    <3>2. QED
      BY <3>1 DEF KnowsItsSession, Creates, Walking, Logging
  <2>2. CASE FindExpirable(h) \/ ExpiryPassDone(h) \/ PurgeExpiredResults(h)
    <3>1. pc'[h] \notin Working
      BY <2>2 DEF TypeOK, FindExpirable, ExpiryPassDone, PurgeExpiredResults, Goto, Working
    <3>2. QED
      BY <3>1 DEF KnowsItsSession, Working, Creates, Walking, Logging, Labels
  <2>3. QED
    BY <1>10, <2>1, <2>2 DEF JobStep
<1>11. CASE Fault(h)
  <2>1. CASE Goto(h, "idle") /\ UNCHANGED req
    <3>1. pc'[h] = "idle"
      BY <2>1 DEF TypeOK, Goto
    <3>2. QED
      BY <3>1 DEF KnowsItsSession, Creates, Walking, Logging, Working
  <2>2. QED
    BY <1>2, <1>11, <2>1 DEF Fault
<1>12. QED
  BY <1>4, <1>5, <1>6, <1>7, <1>8, <1>9, <1>10, <1>11

(* Who acts knows. *)
LEMMA ActorKnows ==
  ASSUME IInv, Sessioned, NEW h \in Handlers, Acts(h)
  PROVE  KnowsItsSession(h)'
<1>1. h \in Requests /\ Call(h) => KnowsItsSession(h)'
  BY CreatorKnows, SettlerKnows DEF Call
<1>2. (h \in Jobs /\ JobStep(h)) \/ Fault(h) => KnowsItsSession(h)'
  BY SettlerKnows
<1>3. Proceed(h) => KnowsItsSession(h)'
  BY CreatorKnows, WalkerKnows, GetterKnows, SettlerKnows DEF Proceed
<1>4. QED
  BY <1>1, <1>2, <1>3 DEF Acts

(* Who rests still knows: a row keeps the session it has, and only its      *)
(* creation gives it one.                                                   *)
LEMMA ResterKnows ==
  ASSUME IInv, Sessioned, [Next]_vars, NEW h \in Handlers, Rests(h)
  PROVE  KnowsItsSession(h)'
<1>1. TypeOK /\ KnowsItsSession(h) /\ req[h].p \in Presentations
  BY LocalsAreTyped DEF IInv, Sessioned
<1>. USE <1>1
<1>2. CASE row'[req[h].p] = row[req[h].p]
  BY <1>2 DEF Rests, KnowsItsSession, Creates, Opening, Walking, Logging
<1>3. CASE pc[h] \notin Working
  BY <1>3 DEF Rests, KnowsItsSession, Working, Creates, Walking, Logging, Labels
<1>4. ASSUME NEW g \in Requests, StartCreate(g, req[h].p), pc[h] \in Working
      PROVE  FALSE
  BY <1>4 DEF StartCreate, IInv, WorksOnARow
<1>5. ASSUME NEW g \in Handlers, AttachEngineSession(g), req[g].p = req[h].p, pc[h] \in Working
      PROVE  KnowsItsSession(h)'
  <2>1. /\ pc[g] = "attach" /\ pc'[g] # "attach" /\ row'[req[h].p].session = TRUE
        /\ row'[req[h].p].state = row[req[h].p].state /\ req[g].op = "create"
    BY <1>5 DEF TypeOK, AttachEngineSession, Goto, Rows, IInv, HandlerSafe, KnowsItsGoal
  <2>2. ~Creates(h)
    BY <1>5, <2>1 DEF Sessioned, Creates, Working, Labels, Rests
  <2>3. QED
    BY <2>1, <2>2 DEF Rests, KnowsItsSession, Creates, Walking, Logging
<1>6. ASSUME NEW g \in Handlers, Transition(g), req[g].p = req[h].p, pc[h] \in Working
      PROVE  KnowsItsSession(h)'
  <2>1. /\ pc[g] = "transition" /\ pc'[g] = "readLog"
        /\ row'[req[h].p].session = row[req[h].p].session
        /\ row'[req[h].p].state = Hop(g) /\ g # h
    BY <1>6, TransitionMoves DEF Rests
  <2>2. CASE ~(Creates(h) /\ Opening(h))
    BY <2>1, <2>2 DEF Rests, KnowsItsSession, Creates, Opening, Walking, Logging
  <2>3. CASE Creates(h) /\ Opening(h)
    <3>1. ~row[req[h].p].session
      BY <2>3 DEF KnowsItsSession, Opening, Walking, Logging
    <3>2. req[g].op # "create"
      BY <1>6, <2>1, <2>3 DEF Sessioned, Creates, Working, Labels
    <3>3. req[g].goal \in {"EXPIRED", "CANCELLED"}
      BY <1>6, <2>1, <3>1, <3>2 DEF Sessioned, KnowsItsSession, Walking
    <3>4. Hop(g) = req[g].goal
      BY <3>3 DEF Hop, NextHop, DirectOutcomes
    <3>5. QED
      BY <2>1, <2>3, <3>3, <3>4 DEF Rests, KnowsItsSession, Creates, Opening, Walking, Logging
  <2>4. QED
    BY <2>2, <2>3
<1>7. QED
  BY <1>2, <1>3, <1>4, <1>5, <1>6, WhoChangesARow

(* A handler that runs on stays on its row, and does not become a create(). *)
LEMMA RunsOn ==
  ASSUME TypeOK, NEW h \in Handlers, Proceed(h)
  PROVE  /\ pc[h] \in Working
         /\ pc'[h] \in Working =>
              req'[h].p = req[h].p /\ req'[h].op \in {req[h].op, "get"}
<1>. DEFINE keeps == pc'[h] \in Working =>
                       req'[h].p = req[h].p /\ req'[h].op \in {req[h].op, "get"}
<1>1. pc[h] \in Working
  BY DEF Proceed, Transition, TransitionRefused, ReadLog, AppendLog, SizeSession, Offer,
     EngineRefuses, AttachEngineSession, FinishCreate, Find, Advance, Status, Process, SaveResult,
     Reply, AuditSettlement, ReadForCallback, EnqueueResult, CancelSession, Working, Labels
<1>2. Unwind(h) => keeps
  BY UnwindStays
<1>3. req' = req => keeps
  OBVIOUS
<1>4. \A goal : SettleOn(h, goal) => keeps
  BY LocalsAreTyped DEF TypeOK, SettleOn, Locals
<1>5. SettleReturns(h) => keeps
  BY <1>2, <1>3 DEF SettleReturns
<1>6. Transition(h) \/ ReadLog(h) => keeps
  BY TransitionMoves, ReadLogDraws
<1>7. CASE AppendLog(h) /\ ~Unwind(h)
  <2>1. req'[h] = [req[h] EXCEPT !.from = req[h].to, !.seq = 0]
    BY <1>7 DEF TypeOK, AppendLog
  <2>2. req'[h].p = req[h].p /\ req'[h].op = req[h].op
    BY <2>1, LocalsAreTyped DEF Locals
  <2>3. QED
    BY <1>1, <2>2
<1>8. EngineRefuses(h) \/ Find(h) \/ CancelSession(h) => keeps
  <2>1. ASSUME EngineRefuses(h) \/ Find(h) \/ CancelSession(h)
        PROVE  \E l : /\ req' = [req EXCEPT ![h] = l]
                      /\ l.p = req[h].p /\ l.op = req[h].op
    BY <2>1, LocalsAreTyped DEF EngineRefuses, Find, CancelSession, Locals
  <2>2. QED
    BY <2>1 DEF TypeOK
<1>9. TransitionRefused(h) \/ FinishCreate(h) \/ Reply(h) => keeps
  BY <1>2 DEF TransitionRefused, FinishCreate, Reply
<1>10. SizeSession(h) \/ Offer(h) \/ AttachEngineSession(h) => keeps
  BY <1>3 DEF SizeSession, Offer, AttachEngineSession
<1>11. Advance(h) \/ Status(h) \/ SaveResult(h) => keeps
  BY <1>2, <1>3, <1>4 DEF Advance, Status, SaveResult
<1>12. CASE Process(h)
  <2>1. req' = [req EXCEPT ![h] = [@ EXCEPT !.at = now]] => keeps
    BY LocalsAreTyped DEF TypeOK, Locals
  <2>2. QED
    BY <1>1, <1>2, <1>4, <1>12, <2>1 DEF Process
<1>13. CASE AuditSettlement(h)
  <2>1. req' = [req EXCEPT ![h] = [@ EXCEPT !.op = "get"]] => keeps
    BY LocalsAreTyped DEF TypeOK, Locals
  <2>2. QED
    BY <1>1, <1>3, <1>13, <2>1 DEF AuditSettlement
<1>14. CASE ReadForCallback(h)
  <2>1. \A told : req' = [req EXCEPT ![h] = [@ EXCEPT !.claims = told]] => keeps
    BY LocalsAreTyped DEF TypeOK, Locals
  <2>2. QED
    BY <1>1, <1>5, <1>14, <2>1 DEF ReadForCallback
<1>15. EnqueueResult(h) => keeps
  BY <1>5 DEF EnqueueResult
<1>16. QED
  BY <1>1, <1>2, <1>6, <1>7, <1>8, <1>9, <1>10, <1>11, <1>12, <1>13, <1>14, <1>15 DEF Proceed

(* A transaction is created once. *)
LEMMA CreatedOnce ==
  ASSUME IInv, [Next]_vars, NEW h \in Handlers, Creates(h)'
  PROVE  \/ Creates(h) /\ req'[h].p = req[h].p
         \/ \E p \in Presentations : h \in Requests /\ StartCreate(h, p) /\ req'[h].p = p
<1>1. TypeOK
  BY DEF IInv
<1>. USE <1>1
<1>2. CASE Rests(h)
  BY <1>2 DEF Rests, Creates
<1>3. CASE Proceed(h)
  BY <1>3, RunsOn DEF Creates
<1>4. CASE h \in Requests /\ Call(h)
  <2>1. ASSUME NEW p \in Presentations, StartGet(h, p) \/ StartCancel(h, p) PROVE FALSE
    <3>1. \/ req'[h] = [req[h] EXCEPT !.op = "get", !.p = p]
          \/ req'[h] = [req[h] EXCEPT !.op = "cancel", !.p = p, !.from = row[p].state,
                                     !.goal = "CANCELLED"]
      BY <2>1 DEF TypeOK, StartGet, StartCancel
    <3>2. req'[h].op # "create"
      BY <3>1, LocalsAreTyped DEF Locals
    <3>3. QED
      BY <3>2 DEF Creates
  <2>2. ASSUME NEW p \in Presentations, StartCreate(h, p) PROVE req'[h].p = p
    BY <2>2 DEF TypeOK, StartCreate
  <2>3. QED
    BY <1>4, <2>1, <2>2 DEF Call
<1>5. CASE h \in Jobs /\ JobStep(h)
  <2>1. CASE ExpireNext(h)
    BY <2>1, LocalsAreTyped DEF TypeOK, ExpireNext, Creates, Locals
  <2>2. CASE FindExpirable(h) \/ ExpiryPassDone(h) \/ PurgeExpiredResults(h)
    BY <2>2 DEF TypeOK, FindExpirable, ExpiryPassDone, PurgeExpiredResults, Goto, Creates, Working
  <2>3. QED
    BY <1>5, <2>1, <2>2 DEF JobStep
<1>6. CASE Fault(h)
  BY <1>6, UnwindStays DEF TypeOK, Fault, Goto, Creates, Working
<1>7. ~Crash
  BY DEF Crash, Creates, Working
<1>8. CASE \A g \in Handlers : ~Acts(g)
  BY <1>2, <1>7, <1>8, WhoActs DEF Rests
<1>9. QED
  BY <1>2, <1>3, <1>4, <1>5, <1>6, <1>8, OthersRest DEF Acts

LEMMA SessionedStep ==
  ASSUME IInv, Sessioned, [Next]_vars
  PROVE  Sessioned'
<1>1. TypeOK
  BY DEF IInv
<1>. USE <1>1
<1>2. ASSUME NEW h \in Handlers PROVE KnowsItsSession(h)'
  <2>1. Crash => KnowsItsSession(h)'
    BY DEF Crash, KnowsItsSession, Creates, Walking, Logging, Working
  <2>2. CASE \A g \in Handlers : ~Acts(g)
    BY <2>1, <2>2, WhoActs, ResterKnows DEF Rests
  <2>3. QED
    BY <2>2, ActorKnows, ResterKnows, OthersRest
<1>3. ASSUME NEW g \in Handlers, NEW h \in Handlers, Creates(g)', Creates(h)',
             req'[g].p = req'[h].p, g # h
      PROVE  FALSE
  <2>1. ASSUME NEW a \in Handlers, NEW b \in Handlers, NEW p \in Presentations,
               StartCreate(a, p), Creates(b), req[b].p = p
        PROVE  FALSE
    BY <2>1 DEF StartCreate, IInv, WorksOnARow, Creates
  <2>2. ASSUME NEW p \in Presentations, g \in Requests, StartCreate(g, p),
               h \in Requests, StartCreate(h, p)
        PROVE  FALSE
    <3>1. Acts(g) /\ Acts(h)
      BY <2>2 DEF Acts, Call
    <3>2. Rests(h)
      BY <1>3, <3>1, OthersRest
    <3>3. pc[h] = "idle" /\ pc'[h] = "appendLog"
      BY <2>2 DEF TypeOK, StartCreate, Goto
    <3>4. QED
      BY <3>2, <3>3 DEF Rests
  <2>3. QED
    BY <1>3, <2>1, <2>2, CreatedOnce DEF Sessioned
<1>4. QED
  BY <1>2, <1>3 DEF Sessioned

(* A transaction that settled, other than on a session create() could not   *)
(* open.                                                                    *)
Settled(p) ==
  /\ IsTerminal(row[p].state)
  /\ row[p].session \/ row[p].state \in {"EXPIRED", "CANCELLED"}

(* Its customer is owed a callback event. *)
Owed(p) ==
  row[p].callback /\ row[p].state # "CANCELLED" /\ EndpointLookups = {TRUE}

(* Who is about to audit the settlement of p, and to queue its event. *)
WillAudit(h, p) ==
  /\ pc[h] \in {"readLog", "appendLog", "audit"} /\ Announcing(h)
  /\ req[h].op # "create" /\ req[h].p = p

WillCall(h, p) == Announcing(h) /\ req[h].op # "create" /\ req[h].p = p

(* What has settled is announced, or about to be. *)
Announced ==
  faults = 0 => \A p \in Presentations : Settled(p) =>
    /\ audit[p] # {} \/ \E h \in Handlers : WillAudit(h, p)
    /\ Owed(p) => queue[p] # <<>> \/ \E h \in Handlers : WillCall(h, p)

(* A settlement is somebody's transition(), who is to announce it. *)
LEMMA Settles ==
  ASSUME IInv, Sessioned, [Next]_vars, NEW p \in Presentations, Settled(p)'
  PROVE  \/ Settled(p) /\ (Owed(p)' => Owed(p))
         \/ \E h \in Handlers : WillAudit(h, p)' /\ WillCall(h, p)'
<1>1. TypeOK
  BY DEF IInv
<1>. USE <1>1
<1>2. CASE row'[p] = row[p]
  <2>1. Settled(p)
    BY <1>2 DEF Settled
  <2>2. ASSUME Owed(p)' PROVE Owed(p)
    <3>1. row'[p].callback /\ row'[p].state # "CANCELLED" /\ EndpointLookups = {TRUE}
      BY <2>2 DEF Owed
    <3>2. row[p].callback /\ row[p].state # "CANCELLED" /\ EndpointLookups = {TRUE}
      BY <1>2, <3>1
    <3>3. QED
      BY <3>2 DEF Owed
  <2>3. QED
    BY <2>1, <2>2
<1>3. ASSUME NEW h \in Requests, StartCreate(h, p) PROVE FALSE
  BY <1>3 DEF TypeOK, StartCreate, Settled, IsTerminal, TerminalStates
<1>4. ASSUME NEW h \in Handlers, AttachEngineSession(h), req[h].p = p
      PROVE  Settled(p) /\ (Owed(p)' => Owed(p))
  <2>1. /\ pc[h] = "attach" /\ req[h].op = "create" /\ KnowsItsSession(h)
        /\ row'[p].state = row[p].state /\ row'[p].callback = row[p].callback
    BY <1>4 DEF TypeOK, AttachEngineSession, Rows, Sessioned, IInv, HandlerSafe, KnowsItsGoal
  <2>2. row[p].state \in {"CREATED", "EXPIRED", "CANCELLED"}
    BY <1>4, <2>1 DEF KnowsItsSession, Creates, Opening, Walking, Logging, Working, Labels
  <2>3. QED
    BY <2>1, <2>2 DEF Settled, Owed, IsTerminal, TerminalStates
<1>5. ASSUME NEW h \in Handlers, Transition(h), req[h].p = p
      PROVE  WillAudit(h, p)' /\ WillCall(h, p)'
  <2>1. IsTerminal(Hop(h)) /\ KnowsItsSession(h) /\ IsTerminal(Hop(h))
    BY <1>5, TransitionMoves DEF Settled, Sessioned
  <2>2. req[h].op # "create"
    <3>1. ASSUME req[h].op = "create" PROVE FALSE
      <4>1. \/ req[h].goal = "PROTOCOL_ERROR" /\ ~row[p].session
            \/ req[h].goal = "AWAITING_WALLET"
        BY <1>5, <2>1, <3>1, TransitionMoves
        DEF KnowsItsSession, Creates, Opening, Walking, Logging, Working, Labels
      <4>2. Hop(h) = "PROTOCOL_ERROR" /\ ~row[p].session
        BY <2>1, <4>1 DEF Hop, NextHop, IsTerminal, TerminalStates, DirectOutcomes
      <4>3. QED
        BY <1>5, <4>2, TransitionMoves DEF Settled
    <3>2. QED
      BY <3>1
  <2>3. QED
    BY <1>5, <2>1, <2>2, TransitionMoves DEF WillAudit, WillCall, Announcing
<1>6. CASE row'[p] # row[p]
  <2>1. PICK h \in Handlers :
          \/ h \in Requests /\ StartCreate(h, p)
          \/ Transition(h) /\ req[h].p = p
          \/ AttachEngineSession(h) /\ req[h].p = p
    BY <1>6, WhoChangesARow
  <2>2. QED
    BY <1>3, <1>4, <1>5, <2>1
<1>7. QED
  BY <1>2, <1>6

(* What has been told is not taken back. *)
LEMMA TellingGrows ==
  ASSUME TypeOK, [Next]_vars, NEW p \in Presentations
  PROVE  /\ audit[p] # {} => audit'[p] # {}
         /\ queue[p] # <<>> => queue'[p] # <<>>
<1>1. ASSUME NEW h \in Handlers, AuditSettlement(h)
      PROVE  audit[p] # {} => audit'[p] # {}
  BY <1>1 DEF TypeOK, AuditSettlement
<1>2. ASSUME NEW h \in Handlers, EnqueueResult(h)
      PROVE  queue[p] # <<>> => queue'[p] # <<>>
  <2>1. PICK event : queue' = queue \/ queue' = [queue EXCEPT ![req[h].p] = Append(@, event)]
    BY <1>2 DEF EnqueueResult
  <2>2. queue'[p] = queue[p] \/ queue'[p] = Append(queue[p], event)
    BY <2>1 DEF TypeOK
  <2>3. QED
    BY <2>2 DEF TypeOK
<1>3. ASSUME NEW h \in Handlers,
             \/ Transition(h) \/ TransitionRefused(h) \/ ReadLog(h) \/ SizeSession(h) \/ Offer(h)
             \/ EngineRefuses(h) \/ FinishCreate(h) \/ Find(h) \/ Advance(h) \/ Status(h)
             \/ Process(h) \/ SaveResult(h) \/ Reply(h) \/ ReadForCallback(h) \/ CancelSession(h)
             \/ Fault(h) \/ JobStep(h) \/ AttachEngineSession(h) \/ Call(h) \/ AppendLog(h)
      PROVE  audit' = audit /\ queue' = queue
  BY <1>3 DEF Transition, TransitionRefused, ReadLog, SizeSession, Offer, EngineRefuses,
     FinishCreate, Find, Advance, Status, Process, SaveResult, Reply, ReadForCallback,
     CancelSession, Fault, JobStep, FindExpirable, ExpireNext, ExpiryPassDone,
     PurgeExpiredResults, AttachEngineSession, Call, AppendLog, StartCreate, StartGet,
     StartCancel, database
<1>4. ASSUME NEW h \in Handlers
      PROVE  (AuditSettlement(h) => queue' = queue) /\ (EnqueueResult(h) => audit' = audit)
  BY DEF AuditSettlement, EnqueueResult
<1>5. Crash \/ UNCHANGED <<database, pc, req, faults>> => audit' = audit /\ queue' = queue
  BY DEF Crash, database
<1>6. QED
  BY <1>1, <1>2, <1>3, <1>4, <1>5, WhoActs DEF Acts, Proceed

(* Who is about to audit is so until it has. *)
LEMMA AuditComes ==
  ASSUME IInv, [Next]_vars, faults' = 0, NEW h \in Handlers, NEW p \in Presentations,
         WillAudit(h, p)
  PROVE  WillAudit(h, p)' \/ audit'[p] # {}
<1>1. TypeOK /\ AnnouncesTheOutcome(h) /\ KnowsItsGoal(h)
  BY DEF IInv, HandlerSafe
<1>. USE <1>1
<1>2. CASE Rests(h)
  BY <1>2 DEF Rests, WillAudit, Announcing
<1>3. ~Crash /\ ~Fault(h)
  BY DEF TypeOK, Crash, Fault
<1>4. ASSUME Acts(h) PROVE ReadLog(h) \/ AppendLog(h) \/ AuditSettlement(h)
  <2>1. pc[h] \in {"readLog", "appendLog", "audit"} /\ req[h].op # "create"
    BY DEF WillAudit
  <2>2. h \in Requests => ~Call(h)
    BY <2>1 DEF Call, StartCreate, StartGet, StartCancel
  <2>3. h \in Jobs => ~JobStep(h)
    BY <2>1 DEF JobStep, FindExpirable, ExpireNext, ExpiryPassDone, PurgeExpiredResults
  <2>4. QED
    BY <1>3, <1>4, <2>1, <2>2, <2>3 DEF Acts, Proceed, Transition, TransitionRefused, SizeSession,
       Offer, EngineRefuses, AttachEngineSession, FinishCreate, Find, Advance, Status, Process,
       SaveResult, Reply, ReadForCallback, EnqueueResult, CancelSession
<1>5. CASE ReadLog(h)
  BY <1>5, ReadLogDraws DEF WillAudit, Announcing
<1>6. CASE AppendLog(h)
  <2>1. /\ pc[h] = "appendLog" /\ req[h].to = req[h].goal /\ req[h].op # "create"
        /\ req[h].to # "CREATED"
    BY <1>6 DEF AppendLog, AnnouncesTheOutcome, WillAudit, KnowsItsGoal
  <2>2. pc'[h] = "audit" /\ req'[h] = [req[h] EXCEPT !.from = req[h].to, !.seq = 0]
    BY <1>6, <2>1 DEF TypeOK, AppendLog, AfterMove, Goto
  <2>3. req'[h].op = req[h].op /\ req'[h].p = req[h].p
    BY <2>2, LocalsAreTyped DEF Locals
  <2>4. QED
    BY <2>1, <2>2, <2>3 DEF WillAudit, Announcing
<1>7. CASE AuditSettlement(h)
  BY <1>7 DEF TypeOK, AuditSettlement, WillAudit
<1>8. QED
  BY <1>2, <1>3, <1>4, <1>5, <1>6, <1>7, WhoActs, OthersRest DEF Rests

(* Who is about to queue an event that is owed is so until it has. *)
LEMMA CallComes ==
  ASSUME IInv, Sessioned, [Next]_vars, faults' = 0, NEW h \in Handlers, NEW p \in Presentations,
         WillCall(h, p), Owed(p)
  PROVE  WillCall(h, p)' \/ queue'[p] # <<>>
<1>1. TypeOK /\ AnnouncesTheOutcome(h) /\ KnowsItsGoal(h) /\ KnowsItsSession(h)
  BY DEF IInv, HandlerSafe, Sessioned
<1>. USE <1>1
<1>2. CASE Rests(h)
  BY <1>2 DEF Rests, WillCall, Announcing
<1>3. ~Crash /\ ~Fault(h)
  BY DEF TypeOK, Crash, Fault
<1>4. ASSUME Acts(h)
      PROVE  \/ ReadLog(h) \/ AppendLog(h) \/ AuditSettlement(h)
             \/ ReadForCallback(h) \/ EnqueueResult(h)
  <2>1. pc[h] \in {"readLog", "appendLog", "audit", "notify", "enqueue"} /\ req[h].op # "create"
    BY DEF WillCall, Announcing
  <2>2. h \in Requests => ~Call(h)
    BY <2>1 DEF Call, StartCreate, StartGet, StartCancel
  <2>3. h \in Jobs => ~JobStep(h)
    BY <2>1 DEF JobStep, FindExpirable, ExpireNext, ExpiryPassDone, PurgeExpiredResults
  <2>4. QED
    BY <1>3, <1>4, <2>1, <2>2, <2>3 DEF Acts, Proceed, Transition, TransitionRefused, SizeSession,
       Offer, EngineRefuses, AttachEngineSession, FinishCreate, Find, Advance, Status, Process,
       SaveResult, Reply, CancelSession
<1>5. CASE ReadLog(h) \/ AppendLog(h)
  <2>1. WillAudit(h, p)
    BY <1>5 DEF WillAudit, WillCall, ReadLog, AppendLog
  <2>2. CASE WillAudit(h, p)'
    BY <2>2 DEF WillAudit, WillCall
  <2>3. CASE ReadLog(h)
    BY <2>3, ReadLogDraws DEF WillCall, Announcing
  <2>4. CASE AppendLog(h)
    <3>1. /\ pc[h] = "appendLog" /\ req[h].to = req[h].goal /\ req[h].op # "create"
          /\ req[h].to # "CREATED"
      BY <2>4 DEF AppendLog, AnnouncesTheOutcome, WillCall, KnowsItsGoal
    <3>2. pc'[h] = "audit" /\ req'[h] = [req[h] EXCEPT !.from = req[h].to, !.seq = 0]
      BY <2>4, <3>1 DEF TypeOK, AppendLog, AfterMove, Goto
    <3>3. req'[h].op = req[h].op /\ req'[h].p = req[h].p
      BY <3>2, LocalsAreTyped DEF Locals
    <3>4. QED
      BY <3>1, <3>2, <3>3 DEF WillCall, Announcing
  <2>5. QED
    BY <1>5, <2>3, <2>4
<1>6. CASE AuditSettlement(h)
  <2>1. pc[h] = "audit" /\ row[p].state = req[h].goal /\ row[p].state # "CANCELLED"
    BY <1>6 DEF AuditSettlement, WillCall, Owed, AnnouncesTheOutcome
  <2>2. req[h].op # "cancel"
    BY <2>1 DEF KnowsItsSession, Working, Labels
  <2>3. pc'[h] = "notify" /\ req' = req
    BY <1>6, <2>2 DEF TypeOK, AuditSettlement, Goto
  <2>4. QED
    BY <2>3 DEF WillCall, Announcing
<1>7. CASE ReadForCallback(h)
  <2>1. row[req[h].p].callback /\ req[h].op # "create" /\ req[h].p = p
    BY DEF WillCall, Owed
  <2>2. /\ pc'[h] = "enqueue"
        /\ req'[h] = [req[h] EXCEPT !.claims = req[h].goal = "VERIFIED" /\ result[req[h].p] \in Nat]
    BY <1>7, <2>1 DEF TypeOK, ReadForCallback, Goto
  <2>3. req'[h].op = req[h].op /\ req'[h].p = req[h].p
    BY <2>2, LocalsAreTyped DEF Locals
  <2>4. QED
    BY <2>1, <2>2, <2>3 DEF WillCall, Announcing
<1>8. CASE EnqueueResult(h)
  <2>1. req[h].p = p /\ EndpointLookups = {TRUE}
    BY DEF WillCall, Owed
  <2>2. PICK event : queue' = [queue EXCEPT ![p] = Append(@, event)]
    BY <1>8, <2>1 DEF EnqueueResult
  <2>3. queue'[p] = Append(queue[p], event)
    BY <2>2 DEF TypeOK
  <2>4. queue[p] \in Seq(Events)
    BY DEF TypeOK
  <2>5. Len(Append(queue[p], event)) = Len(queue[p]) + 1 /\ Len(queue[p]) \in Nat
    BY <2>4
  <2>6. Len(queue'[p]) # 0
    BY <2>3, <2>5
  <2>7. Len(<<>>) = 0
    OBVIOUS
  <2>8. queue'[p] # <<>>
    BY <2>6, <2>7, Zenon
  <2>9. QED
    BY <2>8
<1>9. QED
  BY <1>2, <1>4, <1>5, <1>6, <1>7, <1>8, <1>3, WhoActs, OthersRest DEF Rests

LEMMA AnnouncedStep ==
  ASSUME IInv, Sessioned, Announced, [Next]_vars
  PROVE  Announced'
<1>1. TypeOK
  BY DEF IInv
<1>. USE <1>1
<1>2. SUFFICES ASSUME faults' = 0, NEW p \in Presentations, Settled(p)'
               PROVE  /\ audit'[p] # {} \/ \E h \in Handlers : WillAudit(h, p)'
                      /\ Owed(p)' => queue'[p] # <<>> \/ \E h \in Handlers : WillCall(h, p)'
  BY DEF Announced
<1>3. faults = 0
  <2>1. ASSUME NEW h \in Handlers, Acts(h) PROVE faults' = faults \/ faults' = faults + 1
    BY <2>1 DEF Acts, Call, Proceed, Transition, TransitionRefused, ReadLog, SizeSession, Offer,
     EngineRefuses, FinishCreate, Find, Advance, Status, Process, SaveResult, Reply,
     ReadForCallback, CancelSession, Fault, JobStep, FindExpirable, ExpireNext, ExpiryPassDone,
     PurgeExpiredResults, AttachEngineSession, AppendLog, StartCreate, StartGet, StartCancel,
     AuditSettlement, EnqueueResult
  <2>2. faults' = faults \/ faults' = faults + 1
    BY <2>1, WhoActs DEF Crash
  <2>3. QED
    BY <1>2, <2>2 DEF TypeOK
<1>4. CASE \E h \in Handlers : WillAudit(h, p)' /\ WillCall(h, p)'
  BY <1>4
<1>5. CASE Settled(p) /\ (Owed(p)' => Owed(p))
  <2>1. /\ audit[p] # {} \/ \E h \in Handlers : WillAudit(h, p)
        /\ Owed(p) => queue[p] # <<>> \/ \E h \in Handlers : WillCall(h, p)
    BY <1>3, <1>5 DEF Announced
  <2>2. audit'[p] # {} \/ \E h \in Handlers : WillAudit(h, p)'
    BY <1>2, <2>1, AuditComes, TellingGrows
  <2>3. Owed(p)' => queue'[p] # <<>> \/ \E h \in Handlers : WillCall(h, p)'
    BY <1>2, <1>5, <2>1, CallComes, TellingGrows
  <2>4. QED
    BY <2>2, <2>3
<1>6. QED
  BY <1>2, <1>4, <1>5, Settles

(* When nothing failed and every handler has returned, a settlement has     *)
(* been audited under its own outcome, and announced on the callback the    *)
(* client asked for: a poller that lost the race to settle never takes the  *)
(* announcement with it (settle()). A cancellation and a refused creation   *)
(* announce nothing.                                                        *)
THEOREM SettlementsAreAnnounced == Spec => []SettlementIsAnnounced
<1>1. Init => Sessioned /\ Announced
  <2>1. ASSUME Init PROVE Sessioned
    BY <2>1 DEF Init, Sessioned, KnowsItsSession, Creates, Walking, Logging, Working
  <2>2. ASSUME Init PROVE Announced
    BY <2>2 DEF Init, Announced, Settled, NoRow, IsTerminal, TerminalStates
  <2>3. QED
    BY <2>1, <2>2
<1>2. IInv /\ Sessioned /\ Announced /\ [Next]_vars => Sessioned' /\ Announced'
  BY SessionedStep, AnnouncedStep
<1>3. IInv /\ Announced => SettlementIsAnnounced
  <2>1. SUFFICES ASSUME IInv, Announced, faults = 0, \A h \in Handlers : pc[h] = "idle",
                        NEW p \in Presentations, Settled(p)
                 PROVE  audit[p] = {row[p].state} /\ (Owed(p) => queue[p] # <<>>)
    BY DEF SettlementIsAnnounced, Settled, Owed
  <2>2. \A h \in Handlers : ~Announcing(h)
    BY <2>1 DEF Announcing
  <2>3. audit[p] # {} /\ (Owed(p) => queue[p] # <<>>)
    BY <2>1, <2>2 DEF Announced, WillAudit, WillCall
  <2>4. audit[p] \subseteq {row[p].state}
    BY <2>1 DEF IInv, ToldSafe, OneStory
  <2>5. QED
    BY <2>3, <2>4
<1>4. QED
  BY <1>1, <1>2, <1>3, Invariant, PTL DEF Spec

-----------------------------------------------------------------------------
(* The refinement of PresentationOutcome: every step opens a transaction,  *)
(* settles it, tells its outcome, queues its callback, or changes nothing  *)
(* the customer sees                                                       *)

(* The phase of a row. *)
LEMMA Phases ==
  /\ PhaseOf("ABSENT") = "absent"
  /\ \A state \in NonTerminalStates : PhaseOf(state) = "open"
  /\ \A state \in TerminalStates : PhaseOf(state) = state
  BY DEF PhaseOf, NonTerminalStates, TerminalStates

(* A step that moves no row and tells nothing changes nothing the customer  *)
(* sees.                                                                    *)
LEMMA QuietIsAStutter ==
  ASSUME \A p \in Presentations : row'[p].state = row[p].state,
         UNCHANGED <<queue, audit, replies>>
  PROVE  UNCHANGED Promise!promise
<1>1. \A p \in Presentations : PhaseOf(row'[p].state) = PhaseOf(row[p].state)
  OBVIOUS
<1>2. [p \in Presentations |-> PhaseOf(row[p].state)]'
        = [p \in Presentations |-> PhaseOf(row[p].state)]
  BY <1>1
<1>3. /\ [p \in Presentations |-> ToldAbout(p)]' = [p \in Presentations |-> ToldAbout(p)]
      /\ [p \in Presentations |-> Len(queue[p])]' = [p \in Presentations |-> Len(queue[p])]
  BY DEF ToldAbout
<1>4. QED
  BY <1>2, <1>3 DEF Promise!promise

(* A move within the walk is invisible; the last one settles. *)
LEMMA TransitionSettles ==
  ASSUME IInv, NEW h \in Handlers, Transition(h)
  PROVE  [Promise!Next]_(Promise!promise)
<1> DEFINE p == req[h].p
<1>1. TypeOK /\ p \in Presentations /\ Hop(h) \in PresentationStates
  BY LocalsAreTyped DEF IInv
<1>2. row[p].state \in NonTerminalStates
  BY <1>1, MovesForward, LocalsAreTyped
  DEF Transition, MoveAllowed, IsTerminal, PresentationStates
<1>3. /\ row'[p].state = Hop(h)
      /\ \A q \in Presentations : q # p => row'[q].state = row[q].state
      /\ UNCHANGED <<queue, result, audit, replies>>
  BY <1>1 DEF TypeOK, Rows, Transition
<1>4. CASE Hop(h) \in NonTerminalStates
  <2>1. \A q \in Presentations : PhaseOf(row'[q].state) = PhaseOf(row[q].state)
    BY <1>2, <1>3, <1>4, Phases
  <2>2. [q \in Presentations |-> PhaseOf(row[q].state)]'
          = [q \in Presentations |-> PhaseOf(row[q].state)]
    BY <2>1
  <2>3. QED
    BY <1>3, <2>2 DEF Promise!promise, ToldAbout
<1>5. CASE Hop(h) \in TerminalStates
  <2>1. PhaseOf(row[p].state) = "open"
    BY <1>2, Phases
  <2>2. [q \in Presentations |-> PhaseOf(row[q].state)]'
          = [[q \in Presentations |-> PhaseOf(row[q].state)] EXCEPT ![p] = Hop(h)]
    BY <1>1, <1>3, <1>5, Phases
  <2>3. Promise!Settle(p)
    BY <1>1, <1>3, <1>5, <2>1, <2>2 DEF Promise!Settle, ToldAbout
  <2>4. QED
    BY <1>1, <2>3 DEF Promise!Next
<1>6. QED
  BY <1>1, <1>4, <1>5 DEF PresentationStates

(* Inserting the row opens the transaction. *)
LEMMA CreateOpens ==
  ASSUME IInv, NEW h \in Requests, NEW p \in Presentations, StartCreate(h, p)
  PROVE  Promise!Next
<1>1. TypeOK
  BY DEF IInv
<1>2. /\ row[p].state = "ABSENT" /\ row'[p].state = "CREATED"
      /\ \A q \in Presentations : q # p => row'[q].state = row[q].state
      /\ UNCHANGED <<queue, audit, replies>>
  BY <1>1 DEF TypeOK, StartCreate
<1>3. [q \in Presentations |-> PhaseOf(row[q].state)]'
        = [[q \in Presentations |-> PhaseOf(row[q].state)] EXCEPT ![p] = "open"]
  BY <1>2, Phases, StatesAreNamed
<1>4. Promise!Open(p)
  BY <1>2, <1>3, Phases DEF Promise!Open, ToldAbout
<1>5. QED
  BY <1>4 DEF Promise!Next

(* The audit entry tells the outcome. *)
LEMMA AuditTells ==
  ASSUME IInv, NEW h \in Handlers, AuditSettlement(h)
  PROVE  Promise!Next
<1> PICK p \in Presentations : p = req[h].p
  BY LocalsAreTyped DEF IInv
<1>1. TypeOK /\ HandlerSafe(h)
  BY DEF IInv
<1>2. row[p].state = req[h].goal /\ row[p].state \in TerminalStates
  BY <1>1 DEF HandlerSafe, AnnouncesTheOutcome, Announcing, AuditSettlement, IsTerminal
<1>3. /\ UNCHANGED <<row, queue, replies>>
      /\ audit' = [audit EXCEPT ![p] = @ \cup {req[h].goal}]
  BY DEF AuditSettlement
<1>4. ToldAbout(p)' = {row[p].state}
  <2>1. audit[p] \subseteq {row[p].state}
        /\ \A view \in replies[p] : view.status = row[p].state
    BY <1>1 DEF IInv, ToldSafe, OneStory
  <2>2. audit'[p] = {row[p].state} /\ replies'[p] = replies[p]
    BY <1>1, <1>2, <1>3, <2>1 DEF TypeOK
  <2>3. ToldAbout(p)' = {row[p].state} \cup {view.status : view \in replies[p]}
    BY <2>2 DEF ToldAbout
  <2>4. QED
    BY <2>1, <2>3
<1>5. \A q \in Presentations : q # p => ToldAbout(q)' = ToldAbout(q)
  BY <1>1, <1>3 DEF TypeOK, ToldAbout
<1>6. Promise!Tell(p)
  <2>1. PhaseOf(row[p].state) = row[p].state
    BY <1>2, Phases
  <2>2. [q \in Presentations |-> ToldAbout(q)]'
          = [[q \in Presentations |-> ToldAbout(q)] EXCEPT ![p] = {row[p].state}]
    BY <1>1, <1>4, <1>5
  <2>3. QED
    BY <1>1, <1>2, <1>3, <2>1, <2>2 DEF Promise!Tell
<1>7. QED
  BY <1>1, <1>6 DEF Promise!Next

(* An answer to a poll tells the outcome, or nothing. *)
LEMMA ReplyTells ==
  ASSUME IInv, NEW h \in Handlers, Reply(h)
  PROVE  [Promise!Next]_(Promise!promise)
<1> PICK p \in Presentations : p = req[h].p
  BY LocalsAreTyped DEF IInv
<1> DEFINE claims == req[h].from = "VERIFIED" /\ result[req[h].p] \in Nat
           view == [status |-> req[h].from, claims |-> claims]
<1>1. TypeOK /\ HandlerSafe(h)
  BY DEF IInv
<1>2. UNCHANGED <<row, queue, audit, result>>
  BY DEF Reply, database
<1>3. CASE replies' = replies
  BY <1>2, <1>3, QuietIsAStutter
<1>4. CASE IsTerminal(req[h].from) /\ replies' = [replies EXCEPT ![p] = @ \cup {view}]
  <2>1. row[p].state = req[h].from /\ row[p].state \in TerminalStates
    BY <1>1, <1>4 DEF HandlerSafe, RepliesWithTheOutcome, Reply, IsTerminal
  <2>2. view.status = row[p].state
    BY <2>1
  <2> HIDE DEF view
  <2>3. audit[p] \subseteq {row[p].state}
        /\ \A v \in replies[p] : v.status = row[p].state
    BY <1>1 DEF IInv, ToldSafe, OneStory
  <2>4. replies'[p] = replies[p] \cup {view}
    BY <1>1, <1>4 DEF TypeOK
  <2>5. ToldAbout(p)' = {row[p].state}
    <3>1. ToldAbout(p)' = audit[p] \cup {v.status : v \in replies[p] \cup {view}}
      BY <1>2, <2>4 DEF ToldAbout
    <3>2. QED
      BY <2>2, <2>3, <3>1
  <2>6. \A q \in Presentations : q # p => ToldAbout(q)' = ToldAbout(q)
    BY <1>1, <1>2, <1>4 DEF TypeOK, ToldAbout
  <2>7. [q \in Presentations |-> ToldAbout(q)]'
          = [[q \in Presentations |-> ToldAbout(q)] EXCEPT ![p] = {row[p].state}]
    BY <1>1, <2>5, <2>6
  <2>8. PhaseOf(row[p].state) = row[p].state
    BY <2>1, Phases
  <2>9. Promise!Tell(p)
    BY <1>1, <1>2, <2>1, <2>7, <2>8 DEF Promise!Tell
  <2>10. QED
    BY <1>1, <2>9 DEF Promise!Next
<1>5. QED
  BY <1>3, <1>4 DEF Reply

(* The callback is queued once, after the settlement; without an endpoint   *)
(* nothing is.                                                              *)
LEMMA EnqueueQueues ==
  ASSUME IInv, NEW h \in Handlers, EnqueueResult(h)
  PROVE  [Promise!Next]_(Promise!promise)
<1> PICK p \in Presentations : p = req[h].p
  BY LocalsAreTyped DEF IInv
<1> DEFINE event == [status |-> row[req[h].p].state, claims |-> req[h].claims]
<1>1. TypeOK /\ HandlerSafe(h)
  BY DEF IInv
<1>2. row[p].state \in TerminalStates /\ queue[p] = <<>>
  BY <1>1 DEF HandlerSafe, KnowsItsGoal, AnnouncesTheOutcome, Announcing,
     EnqueueResult, IsTerminal
<1>3. UNCHANGED <<row, result, audit, replies>>
  BY DEF EnqueueResult
<1>4. CASE queue' = queue
  BY <1>3, <1>4, QuietIsAStutter
<1>5. CASE queue' = [queue EXCEPT ![p] = <<event>>]
  <2> HIDE DEF event
  <2>1. Len(queue[p]) = 0
    BY <1>2
  <2>2. Len(queue'[p]) = 1
    <3>1. queue'[p] = <<event>>
      BY <1>1, <1>5 DEF TypeOK
    <3>2. QED
      BY <3>1
  <2>3. \A q \in Presentations : q # p => Len(queue'[q]) = Len(queue[q])
    BY <1>1, <1>5 DEF TypeOK
  <2>4. [q \in Presentations |-> Len(queue[q])]'
          = [[q \in Presentations |-> Len(queue[q])] EXCEPT ![p] = 1]
    BY <1>1, <2>2, <2>3
  <2>5. PhaseOf(row[p].state) = row[p].state
    BY <1>2, Phases
  <2>6. Promise!QueueCallback(p)
    BY <1>1, <1>2, <1>3, <2>1, <2>4, <2>5 DEF Promise!QueueCallback, ToldAbout
  <2>7. QED
    BY <1>1, <2>6 DEF Promise!Next
<1>6. QED
  BY <1>2, <1>4, <1>5 DEF EnqueueResult

(* Every other step is invisible. *)
LEMMA OthersAreInvisible ==
  ASSUME IInv, [Next]_vars,
         ~\E h \in Requests, p \in Presentations : StartCreate(h, p),
         ~\E h \in Handlers : \/ Transition(h) \/ AuditSettlement(h)
                              \/ Reply(h) \/ EnqueueResult(h)
  PROVE  UNCHANGED Promise!promise
<1>1. UNCHANGED <<queue, audit, replies>>
  BY ZenonT(40) DEF Next, Call, Proceed, JobStep, Environment, vars, database, StartGet,
     StartCancel, TransitionRefused, ReadLog, AppendLog, SizeSession, Offer,
     EngineRefuses, AttachEngineSession, FinishCreate, Find, Advance, Status, Process,
     SaveResult, ReadForCallback, CancelSession, Fault, Crash, FindExpirable,
     ExpireNext, ExpiryPassDone, PurgeExpiredResults, Tick, WalletAnswers, EngineFails,
     EngineReaps
<1>2. row' = row \/ \E h \in Handlers : AttachEngineSession(h)
  BY ZenonT(40) DEF Next, Call, Proceed, JobStep, Environment, vars, database, StartGet,
     StartCancel, TransitionRefused, ReadLog, AppendLog, SizeSession, Offer,
     EngineRefuses, FinishCreate, Find, Advance, Status, Process,
     SaveResult, ReadForCallback, CancelSession, Fault, Crash, FindExpirable,
     ExpireNext, ExpiryPassDone, PurgeExpiredResults, Tick, WalletAnswers, EngineFails,
     EngineReaps
<1>3. \A p \in Presentations : row'[p].state = row[p].state
  <2>1. ASSUME NEW h \in Handlers, AttachEngineSession(h)
        PROVE  \A p \in Presentations : row'[p].state = row[p].state
    <3>1. TypeOK /\ req[h].p \in Presentations
      BY LocalsAreTyped DEF IInv
    <3>2. QED
      BY <2>1, <3>1 DEF AttachEngineSession, TypeOK, Rows
  <2>2. QED
    BY <1>2, <2>1
<1>4. QED
  BY <1>1, <1>3, QuietIsAStutter

(* Every step of the service is a step of the promise, or invisible. *)
LEMMA StepsImplement ==
  ASSUME IInv, [Next]_vars
  PROVE  [Promise!Next]_(Promise!promise)
  BY OthersAreInvisible, CreateOpens, TransitionSettles, AuditTells, ReplyTells,
     EnqueueQueues

(* Nothing is open and nothing has been told. *)
LEMMA InitImplements == Init => Promise!Init
  BY Phases DEF Init, NoRow, Promise!Init, ToldAbout

(* The presentation service keeps its promise: a transaction settles at     *)
(* most once, nothing is told before, everything told is that one outcome,  *)
(* and the callback is queued at most once.                                 *)
THEOREM Refinement == Spec => KeepsThePromise
<1>1. IInv /\ [Next]_vars => [Promise!Next]_(Promise!promise)
  BY StepsImplement
<1>2. QED
  BY InitImplements, <1>1, Invariant, PTL DEF Spec, KeepsThePromise, Promise!Spec
=============================================================================
