---------------------------- MODULE IssuanceRules ----------------------------
(***************************************************************************)
(* The pure part of issuance (packages/domain/src/issuance and the issuer  *)
(* side of packages/eudiplo-adapter): whether a credential type and a      *)
(* policy version are valid, the plan they compile to, the configuration   *)
(* the engine is given, and the claims that are issued. The attributes of  *)
(* a subject are the set of their leaves: a path and the kind of the value *)
(* there. A segment of a claim path is a name without a dot.               *)
(***************************************************************************)
EXTENDS Integers, Sequences, SequencesExt

CONSTANTS Evaluators, Connectors,   \* those registered at startup
          None                      \* an optional field that is absent

ValueTypes == {"string", "number", "integer", "boolean", "date", "string[]", "object[]"}

Kinds == {"text", "date", "whole", "fraction", "boolean", "texts", "objects", "empty", "null"}

ClaimDefinitions(paths) ==
  [path : paths, displayed : BOOLEAN, mandatory : BOOLEAN, valueType : ValueTypes]

(* vct, doctype, and the parts of the Rulebook reference, as given or not. *)
CredentialTypeRows(claims, validities, schemas) ==
  [format : {"dc+sd-jwt", "mso_mdoc"}, vct : BOOLEAN, doctype : BOOLEAN,
   rulebook : BOOLEAN, edition : BOOLEAN, published : BOOLEAN,
   anchors : {"RULEBOOK_ONLY", "RULEBOOK_AND_PUBLISHED_LIST"},
   claims : claims, displayed : BOOLEAN, validity : validities,
   status : {"TOKEN_STATUS_LIST", "NONE"}, bound : BOOLEAN, schema : schemas]

(* lead: reissueBeforeExpirySeconds of the reuse policy, None without one. *)
VersionBodies(types, validities, gates) ==
  [type : types, purpose : BOOLEAN, evaluator : STRING, connector : STRING,
   binding : {"KEY_BOUND", "BEARER"}, flow : {"PRE_AUTHORIZED_CODE", "AUTHORIZATION_CODE"},
   validity : validities, listed : BOOLEAN, suspends : BOOLEAN,
   lead : validities \cup {None}, gate : gates \cup {None}]

DeclaredPaths(type) == {claim.path : claim \in ToSet(type.claims)}

(* validateCredentialType *)
TypeViolations(type) ==
  LET claims == type.claims
      jwt == type.format = "dc+sd-jwt"
      broken ==
        [vct_required |-> jwt /\ ~type.vct,
         doctype_required |-> ~jwt /\ ~type.doctype,
         doctype_not_applicable |-> jwt /\ type.doctype,
         rulebook_required |-> ~type.rulebook,
         rulebook_version_required |-> ~type.edition,
         claims_required |-> claims = <<>>,
         claim_path_empty |-> \E i \in DOMAIN claims : claims[i].path = <<>>,
         claim_display_required |-> \E i \in DOMAIN claims : ~claims[i].displayed,
         display_required |-> ~type.displayed,
         validity_invalid |-> type.validity <= 0,
         claim_path_duplicated |->
           \E i, j \in DOMAIN claims : i # j /\ claims[i].path = claims[j].path,
         claim_path_prefixes_another |->
           \E i, j \in DOMAIN claims : IsStrictPrefix(claims[i].path, claims[j].path),
         payload_schema_not_object |-> type.schema # None /\ type.schema.type # "object"]
  IN {code \in DOMAIN broken : broken[code]}

(* validateIssuancePolicyVersion *)
VersionViolations(body, type) ==
  LET maintained == type.status = "TOKEN_STATUS_LIST"
      broken ==
        [purpose_required |-> ~body.purpose,
         evaluator_not_registered |-> body.evaluator \notin Evaluators,
         connector_not_registered |-> body.connector \notin Connectors,
         holder_binding_unsupported |-> body.binding = "KEY_BOUND" /\ ~type.bound,
         holder_binding_required |-> body.binding = "BEARER" /\ type.bound,
         status_mechanism_absent |-> body.listed /\ ~maintained,
         status_mechanism_unused |-> ~body.listed /\ maintained,
         gate_requires_authorization_code |->
           body.gate # None /\ body.flow = "PRE_AUTHORIZED_CODE",
         suspension_requires_status_list |-> body.suspends /\ ~body.listed,
         reuse_reissue_lead_invalid |->
           body.lead # None /\ (body.lead <= 0 \/ body.lead >= body.validity),
         validity_invalid |-> body.validity <= 0,
         validity_exceeds_type |-> body.validity > type.validity,
         rulebook_publication_missing |->
           type.anchors = "RULEBOOK_AND_PUBLISHED_LIST" /\ ~type.published]
  IN {code \in DOMAIN broken : broken[code]}

(* What compileIssuancePolicy still looks at once the rows were read by the *)
(* identifiers they hold: one tenant, one trust environment.                *)
CompileRefuses(status, type, provider) == status # "PUBLISHED" \/ type.provider # provider

(* IssuancePlan; provider is the PlanAttestationProviderContext. *)
IssuancePlan(policy, number, body, type, provider) ==
  [policy |-> policy, version |-> number, flow |-> body.flow, binding |-> body.binding,
   validity |-> body.validity, listed |-> body.listed, lead |-> body.lead, gate |-> body.gate,
   format |-> type.format, claims |-> type.claims, schema |-> type.schema,
   provider |-> provider]

-----------------------------------------------------------------------------
(* ENGINE_FIELD_TYPE *)
EngineFieldType(valueType) ==
  CASE valueType \in {"string", "date"} -> "string"
    [] valueType \in {"string[]", "object[]"} -> "array"
    [] OTHER -> valueType

(* The body of POST /issuer/credentials: every declared claim is a leaf     *)
(* that is disclosed on its own.                                            *)
CredentialConfiguration(plan) ==
  [policy |-> plan.policy, version |-> plan.version, key |-> plan.provider.signing,
   fields |-> {[path |-> claim.path, type |-> EngineFieldType(claim.valueType),
                mandatory |-> claim.mandatory, disclosable |-> TRUE] : claim \in ToSet(plan.claims)},
   bound |-> plan.binding = "KEY_BOUND", listed |-> plan.listed, lifetime |-> plan.validity,
   reuse |-> plan.lead]

-----------------------------------------------------------------------------
(* matchesType *)
MatchesType(kind, valueType) ==
  kind \in CASE valueType = "string" -> {"text", "date"}
             [] valueType = "number" -> {"whole", "fraction"}
             [] valueType = "integer" -> {"whole"}
             [] valueType = "boolean" -> {"boolean"}
             [] valueType = "date" -> {"date"}
             [] valueType = "string[]" -> {"texts"}
             [] valueType = "object[]" -> {"objects"}

(* readPath: the kind of the value at a path, "object" where more follows. *)
ReadPath(attributes, path) ==
  IF \E leaf \in attributes : leaf.path = path
  THEN (CHOOSE leaf \in attributes : leaf.path = path).kind
  ELSE IF \E leaf \in attributes : IsStrictPrefix(path, leaf.path) THEN "object" ELSE "null"

(* Mutated: the values are laid flat under their last segment. *)
WriteFlat(attributes, path, kind) ==
  {leaf \in attributes : leaf.path # <<Last(path)>>} \cup {[path |-> <<Last(path)>>, kind |-> kind]}

(* Writing a leaf: a value on the way to it gives way to an object, and     *)
(* whatever was below it is gone.                                           *)
Write(attributes, path, kind) ==
  {leaf \in attributes : ~IsPrefix(leaf.path, path) /\ ~IsPrefix(path, leaf.path)}
    \cup {[path |-> path, kind |-> kind]}

(* narrowToDeclaredClaims, up to its refusal *)
NarrowToDeclaredClaims(attributes, claims) ==
  LET narrowed[n \in 0..Len(claims)] ==
        IF n = 0 THEN {}
        ELSE LET claim == claims[n]  kind == ReadPath(attributes, claim.path) IN
             IF MatchesType(kind, claim.valueType)
             THEN Write(narrowed[n - 1], claim.path, kind) ELSE narrowed[n - 1]
  IN narrowed[Len(claims)]

NarrowingRefused(attributes, claims) ==
  \E claim \in ToSet(claims) :
    LET kind == ReadPath(attributes, claim.path) IN
      IF kind = "null" THEN claim.mandatory ELSE ~MatchesType(kind, claim.valueType)

-----------------------------------------------------------------------------
(* signed_metadata: absent, or a token whose header and payload may be read. *)
SignedDocuments == [readable : BOOLEAN, x5c : BOOLEAN, certified : BOOLEAN] \cup {None}

IssuerMetadata == [certified : BOOLEAN, signed : SignedDocuments]

(* fetchProviderAuthenticationEvidence, inspectSignedMetadata *)
Evidence(metadata) ==
  LET read == metadata.signed # None /\ metadata.signed.readable IN
    [certified |-> metadata.certified, signed |-> read,
     access |-> read /\ metadata.signed.x5c,
     registration |-> read /\ metadata.signed.certified]

(* providerAuthentication; days: what is left of the signing certificate,   *)
(* None when it was never recorded.                                         *)
AuthenticationReport(metadata, days) ==
  LET evidence == Evidence(metadata) IN
    [signs |-> days = None \/ days > 0,
     authenticates |-> evidence.signed /\ evidence.access /\ evidence.registration]

-----------------------------------------------------------------------------
(* The reference for what is issued: exactly the declared claims the source *)
(* has a value for, each where the type says and with the value it had.     *)
IssuesWhatIsDeclared(type, attributes) ==
  LET issued == NarrowToDeclaredClaims(attributes, type.claims) IN
    /\ \A leaf \in issued : leaf.path \in DeclaredPaths(type)
    /\ \A path \in DeclaredPaths(type) : ReadPath(issued, path) = ReadPath(attributes, path)
=============================================================================
