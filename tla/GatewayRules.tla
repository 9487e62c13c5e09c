---------------------------- MODULE GatewayRules ----------------------------
(***************************************************************************)
(* How the test gateway (apps/test-gateway/src/main.ts) decides what it    *)
(* does with a request: the allow-list (allow-list.ts), the hosted-form    *)
(* gate (hosted-form-gate.ts) and what it changes of an answer. Pure: a    *)
(* path is the endpoint it names, and an HMAC is the pair it is computed   *)
(* over.                                                                   *)
(***************************************************************************)
EXTENDS Naturals, Sequences, FiniteSets

-----------------------------------------------------------------------------
(* The allow-list: pairs of a method and an endpoint. *)

ENGINE_RULES ==
  ({"GET"} \X {"issuer-metadata", "server-metadata", "jwks", "offer", "authorize",
               "status-list", "vct"})
  \cup ({"GET", "POST"} \X {"oid4vp"})
  \cup ({"POST"} \X {"credential", "nonce", "notification", "deferred",
                     "par", "token", "challenge"})

PLATFORM_RULES == {<<"GET", "return">>}

RulesOf(target) == IF target = "engine" THEN ENGINE_RULES ELSE PLATFORM_RULES

NEGATIVE_PROBES ==
  ({"engine"} \X {"docs-json", "tenant", "key-chain", "verifier-config", "health", "storage",
                  "docs", "root"})
  \cup ({"platform"} \X {"tenants", "presentations", "health", "openapi"})

IsAllowed(target, request) == <<request.method, request.endpoint>> \in RulesOf(target)

-----------------------------------------------------------------------------
(* The hosted-form gate. config has the form's url and the secret (or not) *)
(* and the tenants whose requests must pass through a form.                *)

NoPass == [tenant |-> "none", request |-> 0]

HostedFormAuthorizePass(tenant, request) == [tenant |-> tenant, request |-> request]

IsGated(config, request) ==
  /\ config.formUrl /\ config.secret
  /\ request.method = "GET" /\ request.endpoint = "authorize"
  /\ request.tenant \in config.tenants

(* A request without request_uri has the reference 0. *)
PassFits(request) == request.pass = HostedFormAuthorizePass(request.tenant, request.requestUri)

HostedFormGate(config, request) ==
  CASE ~IsGated(config, request) -> "none"
    [] IsGated(config, request) /\ request.requestUri = 0 -> "refuse"
    [] IsGated(config, request) /\ request.requestUri # 0 ->
         IF PassFits(request) THEN "pass" ELSE "redirect"

-----------------------------------------------------------------------------
(* What is limited per client and minute *)

(* The class a POST to the engine is counted under, next to the general one *)
ClassOf(target, request) ==
  CASE target = "engine" /\ request.method = "POST"
         /\ request.endpoint \in {"par", "token", "credential", "nonce", "deferred"} -> "issuance"
    [] target = "engine" /\ request.method = "POST" /\ request.endpoint = "oid4vp" -> "presentation"
    [] OTHER -> "general"

-----------------------------------------------------------------------------
(* createProxy. within says which classes still have room for the client; *)
(* a request that is forwarded goes without its pass.                     *)

Forwarded(request) == [request EXCEPT !.pass = NoPass]

Decide(config, target, request, within) ==
  CASE "general" \notin within -> [answer |-> 429]
    [] "general" \in within /\ ~IsAllowed(target, request) -> [answer |-> 404]
    [] "general" \in within /\ IsAllowed(target, request) /\ ClassOf(target, request) \notin within ->
         [answer |-> 429]
    [] OTHER ->
         LET gate == IF target = "engine" THEN HostedFormGate(config, request) ELSE "none" IN
         CASE gate = "redirect" -> [answer |-> 302, tenant |-> request.tenant,
                                    requestUri |-> request.requestUri]
           [] gate = "refuse" -> [answer |-> 404]
           [] gate = "none" -> [answer |-> 200, upstream |-> request]
           [] gate = "pass" -> [answer |-> 200, upstream |-> Forwarded(request)]

-----------------------------------------------------------------------------
(* What the gateway changes of an answer: sets of keys of a JSON body.  *)

NON_PROTOCOL_ERROR_KEYS == {"statusCode", "timestamp", "path"}

IsSuccess(status) == status \in 200..299

(* key_attestations_required is added where an attestation proof lacks it. *)
InjectsKeyAttestation(config, request, answer) ==
  /\ config.pinnedWalletCompat
  /\ request.method = "GET" /\ request.endpoint = "issuer-metadata"
  /\ IsSuccess(answer.status) /\ answer.json

StripsTokenDetails(config, request, answer) ==
  /\ config.pinnedWalletCompat
  /\ request.method = "POST" /\ request.endpoint = "token"
  /\ IsSuccess(answer.status) /\ answer.json

StripsErrorKeys(config, answer) ==
  config.stripErrorKeys /\ answer.status >= 300 /\ answer.json

Outgoing(config, request, answer) ==
  CASE InjectsKeyAttestation(config, request, answer) ->
         IF "attestation" \in answer.keys THEN answer.keys \cup {"key_attestations_required"}
         ELSE answer.keys
    [] StripsTokenDetails(config, request, answer) -> answer.keys \ {"authorization_details"}
    [] StripsErrorKeys(config, answer) -> answer.keys \ NON_PROTOCOL_ERROR_KEYS
    [] OTHER -> answer.keys

-----------------------------------------------------------------------------
(* Nothing but the listed endpoints is reached, whatever the method         *)
(* (allow-list.ts:122); of the authorization endpoint of a tenant with a    *)
(* form, only the very request its pass was made for, without the pass      *)
(* (hosted-form-gate.ts:29); and an answer keeps every key of the protocol. *)
GatewayKeepsItsList(config, target, request, within) ==
  LET decision == Decide(config, target, request, within) IN
  /\ <<target, request.endpoint>> \in NEGATIVE_PROBES => decision.answer \in {404, 429}
  /\ decision.answer = 200 =>
       /\ "general" \in within
       /\ IsAllowed(target, request)
       /\ target = "engine" /\ IsGated(config, request) =>
            /\ request.requestUri # 0
            /\ request.pass = [tenant |-> request.tenant, request |-> request.requestUri]
            /\ decision.upstream = [request EXCEPT !.pass = NoPass]

AnswerKeepsTheProtocol(config, request, answer) ==
  LET keys == Outgoing(config, request, answer) IN
  /\ answer.keys \ (NON_PROTOCOL_ERROR_KEYS \cup {"authorization_details"}) \subseteq keys
  /\ IsSuccess(answer.status) => answer.keys \ {"authorization_details"} \subseteq keys
  /\ ~config.pinnedWalletCompat /\ ~config.stripErrorKeys => keys = answer.keys
=============================================================================
