--------------------------- MODULE IssuanceStates ---------------------------
(* The lifecycle of an issuance transaction                                 *)
(* (packages/domain/src/issuance/issuance-transaction.ts).                  *)

NonTerminalStates ==
  {"CREATED", "OFFER_READY", "AWAITING_WALLET", "ELIGIBILITY_CHECK", "ISSUING"}

(* Those the engine's outcome of a session is mapped to. *)
EngineOutcomes ==
  {"ISSUED", "DECLINED_BY_USER", "TRUST_ERROR", "PROTOCOL_ERROR", "EXPIRED"}

TerminalStates == EngineOutcomes \cup {"NOT_ELIGIBLE", "CANCELLED"}

IssuanceStates == NonTerminalStates \cup TerminalStates

(* ISSUANCE_TRANSITIONS *)
AllowedTransitionsFrom(state) ==
  CASE state = "CREATED" ->
         {"ELIGIBILITY_CHECK", "OFFER_READY", "PROTOCOL_ERROR", "CANCELLED", "EXPIRED"}
    [] state = "OFFER_READY" ->
         {"AWAITING_WALLET", "PROTOCOL_ERROR", "CANCELLED", "EXPIRED"}
    [] state = "AWAITING_WALLET" ->
         {"ELIGIBILITY_CHECK", "DECLINED_BY_USER", "TRUST_ERROR", "PROTOCOL_ERROR",
          "CANCELLED", "EXPIRED"}
    [] state = "ELIGIBILITY_CHECK" ->
         {"OFFER_READY", "ISSUING", "NOT_ELIGIBLE", "PROTOCOL_ERROR", "EXPIRED"}
    [] state = "ISSUING" -> {"ISSUED", "TRUST_ERROR", "PROTOCOL_ERROR", "EXPIRED"}
    [] OTHER -> {}

CanTransition(from, to) == to \in AllowedTransitionsFrom(from)
=============================================================================
