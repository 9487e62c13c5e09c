------------------------ MODULE PresentationPolicies ------------------------
(***************************************************************************)
(* Presentation policies and the use made of them (policy.service over     *)
(* policy.repository; the compiling half of presentation.service): a       *)
(* version is validated against the registered intended use, numbered,     *)
(* inserted as a draft and published; a presentation resolves the version  *)
(* its caller names, or the latest published one, loads its context,       *)
(* compiles a plan, and turns what the wallet discloses into a result. The *)
(* life of the transaction between request and answer is the subject of    *)
(* module Presentations.                                                   *)
(***************************************************************************)
EXTENDS Registration

CONSTANTS Policies, Bodies,
          Examples,       \* further bodies, for the rules alone
          LoadedLists,    \* trust anchor sources loaded into the engine tenants
          Holders,        \* what wallets hold: a format, a type, a document
          OtherHolders,   \* further ones, for the rules alone
          Today,
          CertificateLifetimes,   \* how long an access certificate may still be valid
          MaxVersions

VARIABLES policies, versions

vars == <<registry, engine, audit, pc, req, faults, policies, versions>>

PolicyStatuses == {"DRAFT", "PUBLISHED", "RETIRED"}

PresentationPolicyRows == [service : Services, use : Uses] \cup {None}

VersionRows == [status : PolicyStatuses, body : Bodies] \cup {None}

ASSUME PoliciesAssumption ==
  /\ None \notin [service : Services, use : Uses] \cup [status : PolicyStatuses, body : Bodies]
  /\ MaxVersions \in Nat

PoliciesInit ==
  /\ Init
  /\ policies = [p \in Policies |-> None]
  /\ versions = [p \in Policies |-> [n \in 1 .. MaxVersions |-> None]]

Numbers(p) == {n \in 1 .. MaxVersions : versions[p][n] # None}

Published(p) == {n \in Numbers(p) : versions[p][n].status = "PUBLISHED"}

LatestPublished(p) ==
  IF Published(p) = {} THEN 0 ELSE CHOOSE n \in Published(p) : \A m \in Published(p) : n >= m

(* resolvePublishedVersion; "named" is 0 when the caller names no version,  *)
(* and the answer is 0 when there is none to use.                           *)
ResolvePublishedVersion(p, named) ==
  CASE named = 0 -> LatestPublished(p)
    [] named \in Published(p) -> named
    [] OTHER -> 0

(* nextVersionNumber *)
NextVersionNumber(p) ==
  IF Numbers(p) = {} THEN 1 ELSE 1 + CHOOSE n \in Numbers(p) : \A m \in Numbers(p) : n >= m

UseOf(p) == registry.uses[policies[p].use]

-----------------------------------------------------------------------------
CreatePolicy(c) ==
  /\ pc[c] = "idle" /\ Authenticated
  /\ \E p \in Policies, s \in Services, u \in Uses :
       /\ policies[p] = None
       /\ registry.services[s] # None /\ registry.uses[u] # None
       /\ registry.uses[u].service = s
       /\ policies' = [policies EXCEPT ![p] = [service |-> s, use |-> u]]
       /\ Record("presentation_policy.created", p)
  /\ UNCHANGED <<registry, engine, pc, req, faults, versions>>

(* createVersion, up to the validation; a violation is a 422. *)
BeginVersion(c) ==
  /\ pc[c] = "idle" /\ Authenticated
  /\ \E p \in Policies, body \in Bodies, publish \in BOOLEAN :
       /\ policies[p] # None
       /\ Violations(body, UseOf(p)) = {}
       /\ Await(c, "list", [action |-> "version", subject |-> p, body |-> body, publish |-> publish])
  /\ UNCHANGED <<registry, engine, audit, faults, policies, versions>>

(* Past MaxVersions the model, not the code, gives up. *)
ListVersions(c) ==
  /\ pc[c] = "list"
  /\ LET n == NextVersionNumber(req[c].subject) IN
       IF n \in 1 .. MaxVersions
       THEN Await(c, "draft", [action |-> "version", subject |-> req[c].subject, n |-> n,
                               body |-> req[c].body, publish |-> req[c].publish])
       ELSE Return(c)
  /\ UNCHANGED <<registry, engine, audit, faults, policies, versions>>

(* Mutated: a number that is taken is written over. *)
InsertDraftAnyway(c) ==
  /\ pc[c] = "draft"
  /\ LET r == req[c] IN
       /\ versions' = [versions EXCEPT ![r.subject][r.n] = [status |-> "DRAFT", body |-> r.body]]
       /\ IF r.publish THEN Goto(c, "publish") /\ UNCHANGED <<req, audit>>
          ELSE Return(c) /\ Record("presentation_policy_version.drafted", <<r.subject, r.n>>)
  /\ UNCHANGED <<registry, engine, faults, policies>>

(* The insert, under the unique index on policy and version. *)
InsertDraft(c) ==
  /\ pc[c] = "draft"
  /\ LET r == req[c] IN
       IF versions[r.subject][r.n] = None
       THEN /\ versions' = [versions EXCEPT ![r.subject][r.n] = [status |-> "DRAFT", body |-> r.body]]
            /\ IF r.publish THEN Goto(c, "publish") /\ UNCHANGED <<req, audit>>
               ELSE Return(c) /\ Record("presentation_policy_version.drafted", <<r.subject, r.n>>)
       ELSE Return(c) /\ UNCHANGED <<versions, audit>>
  /\ UNCHANGED <<registry, engine, faults, policies>>

(* publishVersion of the service: it does not look at the status. *)
BeginPublish(c) ==
  /\ pc[c] = "idle" /\ Authenticated
  /\ \E p \in Policies : \E n \in Numbers(p) :
       /\ Violations(versions[p][n].body, UseOf(p)) = {}
       /\ Await(c, "publish", [action |-> "publish", subject |-> p, n |-> n])
  /\ UNCHANGED <<registry, engine, audit, faults, policies, versions>>

(* publishVersion of the repository. *)
PublishVersion(c) ==
  /\ pc[c] = "publish"
  /\ LET r == req[c] IN
       IF versions[r.subject][r.n].status = "DRAFT"
       THEN /\ versions' = [versions EXCEPT ![r.subject][r.n].status = "PUBLISHED"]
            /\ ThenAudit(c, "presentation_policy_version.published", <<r.subject, r.n>>)
       ELSE Return(c) /\ UNCHANGED versions
  /\ UNCHANGED <<registry, engine, audit, faults, policies>>

-----------------------------------------------------------------------------
(* create: the policy is found; none is ever RETIRED, no operation sets it. *)
(* "floor", for the property only, is the version that may be used at least. *)
BeginPresentation(c) ==
  /\ pc[c] = "idle" /\ Authenticated
  /\ \E p \in Policies, named \in 0 .. MaxVersions :
       /\ policies[p] # None
       /\ Await(c, "resolve", [action |-> "present", subject |-> p, named |-> named,
                               floor |-> IF named = 0 THEN LatestPublished(p) ELSE named])
  /\ UNCHANGED <<registry, engine, audit, faults, policies, versions>>

Resolve(c) ==
  /\ pc[c] = "resolve"
  /\ LET n == ResolvePublishedVersion(req[c].subject, req[c].named) IN
       IF n = 0 THEN Return(c)
       ELSE Await(c, "context", [action |-> "present", subject |-> req[c].subject,
                                 named |-> req[c].named, floor |-> req[c].floor, n |-> n])
  /\ UNCHANGED <<registry, engine, audit, faults, policies, versions>>

(* loadCompilerContext; the access certificate found is any of the service's. *)
Contexts(p) ==
  LET s == policies[p].service IN
    {[use |-> UseOf(p), service |-> s, certified |-> policies[p].use \in registry.certified,
      instance |-> [service |-> s, engine |-> registry.instances[s]],
      access |-> [service |-> s, key |-> key]] :
        key \in IF registry.instances[s] = None THEN {} ELSE registry.access[s]}

(* The plan, the lifetime, and the request to the engine: any of the three  *)
(* may be refused.                                                          *)
Compile(c) ==
  /\ pc[c] = "context"
  /\ LET p == req[c].subject
         row == versions[p][req[c].n]
     IN IF Contexts(p) = {} THEN Return(c)
        ELSE \E context \in Contexts(p), interaction \in {"SAME_DEVICE", "QR"},
                certified \in CertificateLifetimes :
               LET plan == Plan(req[c].n, row.body, context) IN
                 IF \/ CompileRefusals(row.status, row.body, context) # {}
                    \/ CrossDeviceRefused(interaction, row.body.lifetime, certified)
                    \/ QueryRefused(plan, LoadedLists)
                 THEN Return(c)
                 ELSE Await(c, "wallet",
                            [action |-> "present", subject |-> p, named |-> req[c].named,
                             floor |-> req[c].floor, plan |-> plan,
                             lifetime |-> RequestLifetime(interaction, row.body.lifetime)])
  /\ UNCHANGED <<registry, engine, audit, faults, policies, versions>>

Has(holder, claims) == \A path \in claims : Selected(path, holder.document) # {}

(* A wallet that can answer one entry of the query. *)
CanAnswer(holder, plan) ==
  /\ \E credential \in DcqlQuery(plan) :
       credential.format = holder.format /\ holder.type \in credential.values
  /\ Has(holder, plan.claims)

(* What it discloses: the claims asked for, and of an attestation whose     *)
(* claims disclose only as a whole all that belongs to them.                *)
Disclosed(holder, plan) ==
  LET asked == SelectedByAny(plan.claims, holder.document)
  IN IF holder.whole THEN {leaf \in holder.document : \E l \in asked : Head(l) = Head(leaf)}
     ELSE asked

(* The engine hands an mdoc on without its namespaces. *)
EngineAnswer(holder, plan) ==
  LET disclosed == Disclosed(holder, plan)
  IN IF holder.format = "mso_mdoc" THEN {Tail(leaf) : leaf \in disclosed} ELSE disclosed

(* settleVerified, with the body of the version the transaction names.      *)
Result(body, holder, plan) ==
  LET extracted == ExtractDisclosedClaims(EngineAnswer(holder, plan))
      document == RestoreRequestedShape(extracted, body.claims)
      result == ApplyResultPolicy(body.result, document, Today)
  IN [leaves |-> IF result.satisfied THEN result.leaves ELSE {},
      answers |-> IF result.satisfied THEN result.answers ELSE {},
      outcome |-> IF extracted = {} THEN "PROTOCOL_ERROR"
                  ELSE IF result.satisfied THEN "VERIFIED" ELSE "POLICY_NOT_SATISFIED"]

(* Mutated: the version that is the default when the answer arrives. *)
LatestBody(c) ==
  versions[req[c].subject][LatestPublished(req[c].subject)].body

(* The body of the version the transaction was created under. *)
AnsweredBody(c) == versions[req[c].subject][req[c].plan.version].body

WalletAnswers(c) ==
  /\ pc[c] = "wallet"
  /\ LET plan == req[c].plan
         body == AnsweredBody(c)
     IN \E holder \in Holders :
          /\ CanAnswer(holder, plan)
          /\ Await(c, "answered", [action |-> "present", subject |-> req[c].subject,
                                   named |-> req[c].named, floor |-> req[c].floor, plan |-> plan,
                                   lifetime |-> req[c].lifetime, holder |-> holder,
                                   result |-> Result(body, holder, plan)])
  /\ UNCHANGED <<registry, engine, audit, faults, policies, versions>>

Finish(c) ==
  /\ pc[c] \in {"wallet", "answered"}
  /\ Return(c)
  /\ UNCHANGED <<registry, engine, audit, faults, policies, versions>>

-----------------------------------------------------------------------------
Next ==
  \/ \E c \in Clients :
       \/ Register(c) /\ UNCHANGED <<policies, versions>>
       \/ CreatePolicy(c) \/ BeginVersion(c) \/ ListVersions(c) \/ InsertDraft(c)
       \/ BeginPublish(c) \/ PublishVersion(c)
       \/ BeginPresentation(c) \/ Resolve(c) \/ Compile(c) \/ WalletAnswers(c) \/ Finish(c)
  \/ \E u \in Uses : BecomesValid(u) /\ UNCHANGED <<policies, versions>>

Spec == PoliciesInit /\ [][Next]_vars

-----------------------------------------------------------------------------
TypeOK ==
  /\ [keyed |-> registry.keyed, organised |-> registry.organised, parties |-> registry.parties]
       \in Organisations
  /\ registry.services \in [Services -> ServiceRows]
  /\ \A u \in Uses : registry.uses[u] \in IntendedUses \cup {None}
  /\ \A s \in Services : registry.access[s] \subseteq KeyRefs
  /\ \A e \in EngineTenants : engine.keys[e] \in 0 .. MaxKeys
  /\ policies \in [Policies -> PresentationPolicyRows]
  /\ \A p \in Policies : versions[p] \in [1 .. MaxVersions -> VersionRows]
  /\ faults \in 0 .. MaxFaults

(* A published version is immutable (policy-version.ts:7), the number of a  *)
(* version is never used twice (schema.ts:368), the version presentations   *)
(* take by default never goes back, and a publication is on the audit trail *)
(* (policy.service.ts:173, :219) at most once, of a version that is         *)
(* published. Two requests that draw the same number from the lists they    *)
(* read, or that publish one draft, could break it.                         *)
VersionsAreSettled ==
  [][\A p \in Policies :
       /\ LatestPublished(p)' >= LatestPublished(p)
       /\ \A n \in Numbers(p) :
            /\ versions'[p][n] # None /\ versions'[p][n].body = versions[p][n].body
            /\ versions[p][n].status = "PUBLISHED" => versions'[p][n].status = "PUBLISHED"
            /\ LET event == <<"presentation_policy_version.published", <<p, n>>>> IN
                 BagIn(event, audit') =>
                   audit'[event] = 1 /\ versions'[p][n].status = "PUBLISHED"]_vars

(* A presentation runs under the version its caller named, or one that was  *)
(* the default at some moment of its request, published in either case      *)
(* (policy-version.ts:88), and what it asks a wallet for is registered for  *)
(* its own service: policy.service.ts:50, verification-plan.ts:117.         *)
RequestIsCurrentAndCovered ==
  \A c \in Clients : pc[c] \in {"wallet", "answered"} =>
    LET plan == req[c].plan
        use == UseOf(req[c].subject)
    IN /\ plan.version >= req[c].floor /\ (req[c].named # 0 => plan.version = req[c].named)
       /\ versions[req[c].subject][plan.version].status = "PUBLISHED"
       /\ use.service = policies[req[c].subject].service /\ use.valid
       /\ \A path \in plan.claims :
            \E rc \in use.registered : /\ plan.requirement.type \in rc.types
                                       /\ \E r \in rc.claims : ClaimPathCovers(r, path)

(* An attestation is an object with its values at concrete addresses, and an *)
(* mdoc is disclosed element by element.                                    *)
IsAttestation(holder) ==
  /\ \A leaf \in holder.document :
       /\ leaf \in Seq(Members \cup Indexes \cup Values) /\ leaf # <<>> /\ Head(leaf) \in Members
       /\ \A i \in DOMAIN leaf : leaf[i] \in Values <=> i = Len(leaf)
  /\ holder.format = "mso_mdoc" => ~holder.whole

(* An element of an mdoc is asked for in its namespace, and under a name no *)
(* other element and no namespace has.                                      *)
NamesElements(claims) ==
  /\ \A path \in claims : path \in Seq(Members) /\ Len(path) = 2
  /\ \A p, q \in claims : p[1] # q[2] /\ (p[2] = q[2] => p = q)

(* What is asked of the elements of an array, or below the envelope, is not *)
(* named like a claim at the top.                                           *)
NamesApart(claims, document) ==
  \A path \in claims :
    \/ Len(path) = 1
    \/ Range(path) \subseteq Members /\ path[1] \notin Envelope
    \/ \A leaf \in document : Head(leaf) # Last(path)

(* Claims that come back where they are asked: the condition of the         *)
(* properties on results, which no rule of the program asks for.            *)
Suits(claims, holder) ==
  IF holder.format = "mso_mdoc" THEN NamesElements(claims) ELSE NamesApart(claims, holder.document)

(* The birthdays of a year are reached on a day of the year "at". *)
PassedBy(birth, at) == at.month > birth.month \/ (at.month = birth.month /\ at.day >= birth.day)

IsBorn(birth, at) == birth.year < at.year \/ (birth.year = at.year /\ PassedBy(birth, at))

Birthdays(birth, at) == {y \in birth.year + 1 .. at.year : PassedBy(birth, at) \/ y < at.year}

(* What was disclosed where a path leads, and whether it survives: a claim  *)
(* whose name is one of the envelope's is lost.                             *)
Given(path, disclosed) == Below(disclosed, Address(path))

Kept(path, holder) == path[IF holder.format = "mso_mdoc" THEN 2 ELSE 1] \notin Envelope

(* What the customer may see of what was disclosed at an allowed path. *)
Shows(path, leaf) ==
  /\ IsPrefix(Address(path), leaf) /\ Len(leaf) <= Len(Address(path)) + StripDepth
  /\ \A i \in Len(Address(path)) + 1 .. Len(leaf) : leaf[i] \notin UniqueElements
  /\ Len(path) = 1 => path[1] \notin UniqueElements

(* What follows from a value: nothing if it is empty, nor an age if it is   *)
(* no date.                                                                 *)
Dated(value) == {v \in DOMAIN DateOf : value = {<<v>>}}

IsTelling(derivation, value) ==
  /\ \A v \in Empty : value # {<<v>>}
  /\ derivation.name = "AgeAtLeast" => Dated(value) # {}

Holds(derivation, value) ==
  /\ derivation.name = "AgeAtLeast" => \E v \in Dated(value) :
       IsBorn(DateOf[v], Today) /\ Cardinality(Birthdays(DateOf[v], Today)) >= derivation.minimum
  /\ derivation.name = "ClaimInSet" => value \in derivation.allowed

(* The result an answer deserves, by what the wallet disclosed and where it *)
(* disclosed it, with nothing said of how that travels. Nothing left of it  *)
(* is a protocol error; if anything is missing that the policy reads, the   *)
(* policy is not satisfied; the customer gets what the policy allows, less  *)
(* the unique elements it does not spell out, or what it derives.           *)
IsResultOf(result, holder, plan) ==
  LET policy == plan.result
      disclosed == Disclosed(holder, plan)
      verified == policy.kind = "VERIFIED_CLAIMS"
      complete ==
        IF verified THEN \A path \in policy.allowed : Kept(path, holder)
        ELSE \A d \in policy.derivations :
               Kept(d.source, holder) /\ IsTelling(d, Given(d.source, disclosed))
  IN /\ result.outcome = IF \A path \in plan.claims : ~Kept(path, holder) THEN "PROTOCOL_ERROR"
                         ELSE IF complete THEN "VERIFIED" ELSE "POLICY_NOT_SATISFIED"
     /\ result.leaves = {leaf \in disclosed :
                           verified /\ complete /\ \E path \in policy.allowed : Shows(path, leaf)}
     /\ result.answers = IF verified \/ ~complete THEN {}
                         ELSE {<<d.output, Holds(d, Given(d.source, disclosed))>> :
                                 d \in {e \in policy.derivations : e.output \notin UniqueElements}}

(* Whatever was published and registered meanwhile, a wallet that answered  *)
(* the query gets the result its answer deserves under the plan it was      *)
(* asked by, in either format (verifier-adapter.ts:258,                     *)
(* result-policy.ts:92).                                                    *)
ResultIsOfTheAnswer ==
  \A c \in Clients : pc[c] = "answered" =>
    (Suits(req[c].plan.claims, req[c].holder)
       => IsResultOf(req[c].result, req[c].holder, req[c].plan))

(* Where the wildcard is registered, elements of the array are asked for.   *)
AsksForElements(registered, requested) ==
  \A i \in DOMAIN registered :
    registered[i] = Wildcard => requested[i] \in Indexes \cup {Wildcard}

(* What policy bodies are made of. *)
IsBody(body) ==
  /\ body.claims \subseteq Seq(Segments)
  /\ body.result.kind \in {"VERIFIED_CLAIMS", "DERIVED_CLAIMS"}
  /\ body.result.kind = "DERIVED_CLAIMS" => \A d \in body.result.derivations :
       /\ d.name \in {"AgeAtLeast", "ClaimPresence", "ClaimInSet"}
       /\ d.name = "AgeAtLeast" => d.minimum \in Nat

ASSUME ExamplesAssumption ==
  /\ Today \in Dates
  /\ \A holder \in Holders \cup OtherHolders : IsAttestation(holder)
  /\ \A body \in Bodies \cup Examples : IsBody(body)
  /\ \A rc \in UNION Registrations : rc.claims \subseteq Seq(Segments)

(* The rules agree with what they stand for, for every example. A requested *)
(* path that is covered, and names elements where the wildcard is           *)
(* registered, selects nothing the registered one does not, in any document *)
(* (claim-path.ts:63); the age of who is born is the number of birthdays    *)
(* they had (result-policy.ts:163); every valid body gives the result that  *)
(* the answer of whoever can answer its query deserves, settled or not      *)
(* (result-policy.ts:210). No state is read: the rules are evaluated once,  *)
(* before anything is set up.                                               *)
RulesMeetTheirReference == registry.keyed = "absent" =>
  /\ \A body \in Examples, rc \in UNION Registrations, holder \in OtherHolders :
       \A path \in body.claims, r \in rc.claims :
         ClaimPathCovers(r, path) /\ AsksForElements(r, path)
           => Selected(path, holder.document) \subseteq Selected(r, holder.document)
  /\ \A v \in DOMAIN DateOf : IsBorn(DateOf[v], Today)
       => CompletedYears(DateOf[v], Today) = Cardinality(Birthdays(DateOf[v], Today))
  /\ \A body \in Examples, use \in IntendedUses, holder \in OtherHolders :
       LET owned == [service |-> use.service, key |-> None, engine |-> None]
           plan == Plan(1, body, [use |-> use, service |-> use.service, certified |-> FALSE,
                                  instance |-> owned, access |-> owned])
       IN Violations(body, use) = {} /\ CanAnswer(holder, plan) /\ Suits(body.claims, holder)
            => IsResultOf(Result(body, holder, plan), holder, plan)

(* VERIFIED_CLAIMS: "Only these claim paths are returned"                   *)
(* (result-policy.ts:24).                                                   *)
OnlyAllowedIsReturned ==
  \A c \in Clients : pc[c] = "answered" =>
    LET r == req[c] IN
      r.plan.result.kind = "VERIFIED_CLAIMS" =>
        r.result.leaves \subseteq SelectedByAny(r.plan.result.allowed, r.holder.document)
=============================================================================
