-------------------------- MODULE PresentationRules --------------------------
(***************************************************************************)
(* The pure part of verification (packages/domain/src/verification and the *)
(* verifier side of packages/eudiplo-adapter): whether a policy version is *)
(* valid for the intended use it references, the plan it compiles to, the  *)
(* query the engine is given, and the result that leaves the platform.     *)
(***************************************************************************)
EXTENDS ClaimPaths

CONSTANTS CredentialTypes, Services,
          MinimumLifetime, QrMaxLifetime,   \* seconds
          IssuerDomains,  \* the trust domains of attestation issuers
          Empty,          \* null and the empty string
          DateOf          \* the date that each value that is one stands for

Dates == [year : Nat, month : Nat, day : Nat]

(* What the SD-JWT came in, not what was disclosed. *)
Envelope == {"iss", "iat", "exp", "nbf", "vct", "cnf", "status", "_sd", "_sd_alg"}

UniqueElements == {"_sd", "_sd_alg", "sd_hash", "salt", "cnf", "status", "x5c", "issuanceThumbprint",
                   "revocationThumbprint", "deviceKey", "device_key"}

ASSUME RulesAssumption ==
  /\ Envelope \cup UniqueElements \subseteq Members
  /\ Empty \subseteq Values
  /\ DateOf \in [DOMAIN DateOf -> Dates] /\ DOMAIN DateOf \subseteq Values \ Empty
  /\ MinimumLifetime \in Nat /\ QrMaxLifetime \in Nat

Formats == {"dc+sd-jwt", "mso_mdoc"}

(* A document type counts as the one element of "types". *)
RegisteredCredentials(paths) ==
  {rc \in [format : Formats, types : SUBSET CredentialTypes, claims : SUBSET paths] :
     rc.format = "mso_mdoc" => Cardinality(rc.types) <= 1}

(* What createIntendedUse accepts of one registered credential. *)
Registrable(rc) ==
  /\ rc.claims # {} /\ \A path \in rc.claims : IsValidClaimPath(path)
  /\ rc.types # {}

-----------------------------------------------------------------------------
(* validatePolicyVersion *)
MatchesRequirement(rc, requirement) ==
  /\ rc.format \in requirement.formats
  /\ requirement.type \in rc.types

(* Mutated: the type is not compared, a claim of another one counts. *)
RegisteredClaimsForAny(use, requirement) ==
  UNION {rc.claims : rc \in {r \in use.registered : r.format \in requirement.formats}}

RegisteredClaimsFor(use, requirement) ==
  UNION {rc.claims : rc \in {r \in use.registered : MatchesRequirement(r, requirement)}}

(* claimPathsReadBy *)
PathsReadBy(result) ==
  IF result.kind = "VERIFIED_CLAIMS" THEN result.allowed
  ELSE {d.source : d \in result.derivations}

(* findResultPolicyViolations *)
ResultPolicyViolated(result, requested) ==
  \/ ~(PathsReadBy(result) \subseteq requested)
  \/ /\ result.kind = "DERIVED_CLAIMS"
     /\ \E d, e \in result.derivations : d # e /\ d.output = e.output

SoleCredentialRequirement(body) == CHOOSE requirement \in body.requirements : TRUE

Violations(body, use) ==
  LET single == Cardinality(body.requirements) = 1
      requirement == SoleCredentialRequirement(body)
      registered == RegisteredClaimsFor(use, requirement)
      broken ==
        [intended_use_not_yet_valid |-> ~use.valid,
         purpose_missing_en |-> ~body.english,
         single_credential_requirement |-> ~single,
         accepted_formats_required |-> single /\ requirement.formats = {},
         credential_not_registered |->
           single /\ \A rc \in use.registered : ~MatchesRequirement(rc, requirement),
         requested_claims_required |-> body.claims = {},
         invalid_claim_path |-> \E path \in body.claims : ~IsValidClaimPath(path),
         claim_not_registered |-> single /\ ClaimPathViolations(body.claims, registered) # {},
         result_policy_reads_unrequested_claim |-> ResultPolicyViolated(body.result, body.claims),
         transaction_lifetime_too_short |-> body.lifetime < MinimumLifetime]
  IN {code \in DOMAIN broken : broken[code]}

-----------------------------------------------------------------------------
(* planRequirement: the metadata of each format, from what is registered. *)
PlanRequirement(requirement, use) ==
  LET registers(format) ==
        {requirement.type} \cap UNION {rc.types : rc \in {r \in use.registered : r.format = format}}
  IN [type |-> requirement.type, formats |-> requirement.formats,
      values |-> [format \in requirement.formats |-> registers(format)]]

(* compilePresentationPolicy, given the context that was loaded: why it     *)
(* refuses. One trust environment is supported, so none can be mixed.       *)
CompileRefusals(status, body, context) ==
  LET use == context.use
      broken ==
        [policy_version_not_published |-> status # "PUBLISHED",
         intended_use_service_mismatch |-> use.service # context.service,
         instance_service_mismatch |-> context.instance.service # context.service,
         access_certificate_service_mismatch |-> context.access.service # context.service,
         policy_no_longer_valid |-> Violations(body, use) # {},
         no_registered_claims |-> \A requirement \in body.requirements :
                                    RegisteredClaimsFor(use, requirement) = {}]
  IN {code \in DOMAIN broken : broken[code]}

Plan(number, body, context) ==
  [version |-> number,
   requirement |-> PlanRequirement(SoleCredentialRequirement(body), context.use),
   claims |-> body.claims, anchors |-> body.anchors, result |-> body.result,
   certified |-> context.certified,
   key |-> context.access.key, engine |-> context.instance.engine]

(* issuerTrustedAuthorities: the lists of the sources that anchor issuers, *)
(* never those that anchor who may ask.                                     *)
TrustedAuthorities(anchors) == {source.list : source \in {a \in anchors : a.domain \in IssuerDomains}}

(* buildDcqlQuery: one entry for each accepted format. *)
DcqlQuery(plan) ==
  {[format |-> format, values |-> plan.requirement.values[format],
    claims |-> plan.claims, lists |-> TrustedAuthorities(plan.anchors)] :
     format \in plan.requirement.formats}

(* What buildDcqlQuery throws, and assertIssuerTrustListsLoaded. *)
QueryRefused(plan, loaded) ==
  LET lists == TrustedAuthorities(plan.anchors) IN
    \/ lists = {}
    \/ ~(lists \subseteq loaded)
    \/ \E credential \in DcqlQuery(plan) : credential.values = {}

-----------------------------------------------------------------------------
(* applyCrossDeviceMitigations: a QR presentation lives shorter, and is     *)
(* refused when the access certificate ends before it does.                 *)
RequestLifetime(interaction, configured) ==
  IF interaction = "QR" /\ QrMaxLifetime < configured THEN QrMaxLifetime ELSE configured

CrossDeviceRefused(interaction, configured, certified) ==
  interaction = "QR" /\ certified < RequestLifetime(interaction, configured)

(* extractDisclosedClaims drops the envelope, of either format; an mdoc     *)
(* comes back without its namespaces, which the engine has removed.         *)
ExtractDisclosedClaims(answer) == {leaf \in answer : Head(leaf) \notin Envelope}

(* Mutated: the namespaces are not put back. *)
RestoreNothing(document, claims) == document

(* restoreRequestedShape, for claims of which none extends another. A value *)
(* is found in its place (readAtPath), and put there, by names only: what   *)
(* follows an index or a wildcard is looked for, and put, elsewhere.        *)
RestoreRequestedShape(document, claims) ==
  LET heads == {Head(leaf) : leaf \in document}
      found(path) == Range(path) \subseteq Members /\ Below(document, path) # {}
      moved == {path \in claims : /\ Len(path) > 1
                                  /\ Last(path) \in Members \cap heads
                                  /\ ~found(path)}
      kept == {leaf \in document : Head(leaf) \notin {Last(path) : path \in moved}}
      nested(path) == {Append(Leading(Front(path), Members), Last(path)) \o rest :
                         rest \in Below(document, <<Last(path)>>)}
  IN kept \cup {leaf \in UNION {nested(path) : path \in moved} :
                  Head(leaf) \notin {Head(k) : k \in kept}}

-----------------------------------------------------------------------------
(* The leaves of a value under a key of the result are kept up to this      *)
(* length: the depth is counted from the result itself.                     *)
StripDepth == 8

(* stripUniqueElements, of the value under a key of the result. *)
StripUniqueElements(value) ==
  {leaf \in value : Len(leaf) <= StripDepth /\ \A i \in DOMAIN leaf : leaf[i] \notin UniqueElements}

(* completedYearsBetween *)
CompletedYears(birth, at) ==
  at.year - birth.year
    - (IF at.month < birth.month \/ (at.month = birth.month /\ at.day < birth.day) THEN 1 ELSE 0)

(* applyDerivation: no answer from a source that is missing, null or empty, *)
(* nor of an age from what is no date. "allowed" is what ClaimInSet accepts: *)
(* the readings whose text, as String gives it, is among its values.        *)
Derive(derivation, document, at) ==
  LET read == ReadClaimAtPath(document, derivation.source)
      dates == {v \in DOMAIN DateOf : read = {<<v>>}}
  IN IF read = {} \/ \E v \in Empty : read = {<<v>>} THEN {} ELSE
     CASE derivation.name = "AgeAtLeast" ->
            {CompletedYears(DateOf[v], at) >= derivation.minimum : v \in dates}
       [] derivation.name = "ClaimPresence" -> {TRUE}
       [] derivation.name = "ClaimInSet" -> {(read \in derivation.allowed)}

(* applyResultPolicy: the leaves that leave the platform, the answers of    *)
(* the derivations, and whether there was all that the policy reads. The    *)
(* keys of the result are stripped of unique elements as well.              *)
ApplyResultPolicy(result, document, at) ==
  LET released(path) == {Address(path) \o rest :
                           rest \in StripUniqueElements(ReadClaimAtPath(document, path))}
      shown == {path \in result.allowed : Len(path) > 1 \/ Head(path) \notin UniqueElements}
      told == {d \in result.derivations : d.output \notin UniqueElements}
  IN IF result.kind = "VERIFIED_CLAIMS"
     THEN [leaves |-> UNION {released(path) : path \in shown}, answers |-> {},
           satisfied |-> \A path \in result.allowed : ReadClaimAtPath(document, path) # {}]
     ELSE [leaves |-> {},
           answers |-> UNION {{<<d.output, answer>> : answer \in Derive(d, document, at)} : d \in told},
           satisfied |-> \A d \in result.derivations : Derive(d, document, at) # {}]
=============================================================================
