------------------------- MODULE PresentationStates -------------------------
(***************************************************************************)
(* The lifecycle of a presentation transaction: the states, the table of   *)
(* legal moves, and the walk a settlement takes through it                 *)
(* (packages/domain/src/verification/transaction.ts).                      *)
(***************************************************************************)

NonTerminalStates == {"CREATED", "REQUEST_READY", "AWAITING_WALLET",
                      "PRESENTATION_RECEIVED", "VERIFYING"}

TerminalStates == {"VERIFIED", "REJECTED", "POLICY_NOT_SATISFIED",
                   "DECLINED_BY_USER", "TRUST_ERROR", "PROTOCOL_ERROR",
                   "EXPIRED", "CANCELLED"}

PresentationStates == NonTerminalStates \cup TerminalStates

IsTerminal(state) == state \in TerminalStates

AllowedTransitionsFrom(state) ==
  CASE state = "CREATED" ->
         {"REQUEST_READY", "PROTOCOL_ERROR", "CANCELLED", "EXPIRED"}
    [] state = "REQUEST_READY" ->
         {"AWAITING_WALLET", "PROTOCOL_ERROR", "CANCELLED", "EXPIRED"}
    [] state = "AWAITING_WALLET" ->
         {"PRESENTATION_RECEIVED", "DECLINED_BY_USER", "PROTOCOL_ERROR",
          "CANCELLED", "EXPIRED"}
    [] state = "PRESENTATION_RECEIVED" ->
         {"VERIFYING", "PROTOCOL_ERROR", "EXPIRED"}
    [] state = "VERIFYING" ->
         {"VERIFIED", "REJECTED", "POLICY_NOT_SATISFIED", "TRUST_ERROR",
          "PROTOCOL_ERROR", "EXPIRED"}
    [] OTHER -> {}

CanTransition(from, to) == to \in AllowedTransitionsFrom(from)

(* Outcomes a settlement records directly; any other one is walked to       *)
(* through PRESENTATION_RECEIVED and VERIFYING.                             *)
DirectOutcomes == {"EXPIRED", "CANCELLED", "DECLINED_BY_USER"}

(* The next state a handler writes, given the state it last read or wrote   *)
(* and the state it is heading for. The first row is the tail of create(),  *)
(* the others are settle().                                                 *)
NextHop(from, goal) ==
  CASE goal = "AWAITING_WALLET" /\ from = "CREATED" -> "REQUEST_READY"
    [] goal \in TerminalStates \ DirectOutcomes /\ from = "AWAITING_WALLET" ->
         "PRESENTATION_RECEIVED"
    [] goal \in TerminalStates \ DirectOutcomes /\ from = "PRESENTATION_RECEIVED" ->
         "VERIFYING"
    [] OTHER -> goal
=============================================================================
