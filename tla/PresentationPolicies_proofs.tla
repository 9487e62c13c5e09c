--------------------- MODULE PresentationPolicies_proofs ---------------------
(***************************************************************************)
(* Setting up a Relying Party and its presentation policies, proved for    *)
(* every number of requests, services, intended uses, policies and         *)
(* versions, every policy body and every registration. The argument: rows  *)
(* only grow (Grows), so what a request has read of them still holds when  *)
(* it acts on it (Stands), however many others ran in between; and a       *)
(* version passes from DRAFT to PUBLISHED once, for one request, which     *)
(* alone puts it on the audit trail (PublishedOnce).                       *)
(***************************************************************************)
EXTENDS PresentationPolicies, WellFoundedInduction, FiniteSetTheorems, SequenceTheorems, TLAPS

-----------------------------------------------------------------------------
(* The inductive invariant *)

Labels == {"idle", "audit", "key", "service", "retention", "instance", "access", "list", "draft",
           "publish", "resolve", "context", "wallet", "answered"}

Registries ==
  [keyed : {"absent", "keyless", "keyed"}, organised : BOOLEAN, parties : SUBSET Parties,
   services : [Services -> ServiceRows], uses : [Uses -> IntendedUses \cup {None}],
   certified : SUBSET Uses, instances : [Services -> EngineTenants \cup {None}],
   access : [Services -> SUBSET KeyRefs]]

Engines == [keys : [EngineTenants -> 0 .. MaxKeys], sized : SUBSET EngineTenants]

Typed ==
  /\ registry \in Registries
  /\ engine \in Engines
  /\ IsABag(audit)
  /\ pc \in [Clients -> Labels] /\ DOMAIN req = Clients
  /\ faults \in 0 .. MaxFaults
  /\ policies \in [Policies -> PresentationPolicyRows]
  /\ versions \in [Policies -> [1 .. MaxVersions -> VersionRows]]

(* A policy refers to an intended use there is. *)
UsesAreThere ==
  \A p \in Policies : policies[p] # None => registry.uses[policies[p].use] # None

(* A key its engine tenant holds. *)
IsHeld(key) == key \in KeyRefs /\ key.n <= engine.keys[key.engine]

(* What a presentation asks a wallet for, under the version it names. *)
IsCurrent(p, plan, named, floor) ==
  plan.version \in Published(p) /\ plan.version >= floor /\ (named # 0 => plan.version = named)

IsCovered(p, plan) ==
  /\ UseOf(p).service = policies[p].service /\ UseOf(p).valid
  /\ \A path \in plan.claims :
       \E rc \in UseOf(p).registered : /\ plan.requirement.type \in rc.types
                                       /\ \E r \in rc.claims : ClaimPathCovers(r, path)

(* What a request holds, and what it has read, still stand. *)
StandsRegistering(c) ==
  /\ pc[c] = "service" => req[c].subject \in Services /\ req[c].row \in [party : Parties]
  /\ pc[c] \in {"retention", "instance", "access"} =>
       req[c].subject \in Services /\ IsHeld(req[c].key)
  /\ pc[c] \in {"instance", "access"} => req[c].key.engine \in engine.sized
  /\ pc[c] = "access" => registry.instances[req[c].subject] = req[c].key.engine

StandsDrafting(c) ==
  /\ pc[c] \in {"list", "draft"} => req[c].subject \in Policies /\ req[c].body \in Bodies
  /\ pc[c] = "draft" => req[c].n \in 1 .. MaxVersions
  /\ pc[c] = "publish" => req[c].subject \in Policies /\ req[c].n \in Numbers(req[c].subject)

StandsPresenting(c) ==
  /\ pc[c] \in {"resolve", "context", "wallet", "answered"} =>
       /\ req[c].subject \in Policies /\ policies[req[c].subject] # None
       /\ req[c].floor \in Nat /\ (req[c].named # 0 => req[c].floor = req[c].named)
  /\ pc[c] = "resolve" =>
       (req[c].named = 0 => req[c].floor <= LatestPublished(req[c].subject))
  /\ pc[c] = "context" =>
       /\ req[c].n \in Published(req[c].subject) /\ req[c].floor <= req[c].n
       /\ req[c].named # 0 => req[c].n = req[c].named
  /\ pc[c] \in {"wallet", "answered"} =>
       /\ IsCurrent(req[c].subject, req[c].plan, req[c].named, req[c].floor)
       /\ IsCovered(req[c].subject, req[c].plan)

Stands(c) == StandsRegistering(c) /\ StandsDrafting(c) /\ StandsPresenting(c)

Publication(p, n) == <<"presentation_policy_version.published", <<p, n>>>>

(* A request that has published a version and not yet recorded it. *)
WillRecord(c, p, n) ==
  pc[c] = "audit" /\ <<req[c].action, req[c].subject>> = Publication(p, n)

PublishedOnce ==
  \A p \in Policies, n \in 1 .. MaxVersions :
    /\ BagIn(Publication(p, n), audit) =>
         /\ audit[Publication(p, n)] = 1 /\ n \in Published(p)
         /\ \A c \in Clients : ~WillRecord(c, p, n)
    /\ \A c \in Clients : WillRecord(c, p, n) =>
         /\ n \in Published(p)
         /\ \A d \in Clients : WillRecord(d, p, n) => c = d

IInv ==
  /\ Typed
  /\ UsesAreThere
  /\ \A c \in Clients : Stands(c)
  /\ AccessKeyIsUsable
  /\ PublishedOnce

-----------------------------------------------------------------------------
(* Operators *)

(* A set of numbers up to n that is not empty has a greatest. *)
LEMMA GreatestExists ==
  ASSUME NEW S, NEW n \in Nat, S \subseteq 1 .. n, S # {}
  PROVE  \E m \in S : \A k \in S : m >= k
<1>. DEFINE R == OpToRel(<, Nat)
            T == {n - m : m \in S}
<1>1. \A m \in S : m \in 1 .. n /\ n - m \in Nat
  OBVIOUS
<1>2. T \subseteq Nat /\ T # {}
  BY <1>1
<1>3. PICK x \in T : \A y \in T : ~(<<y, x>> \in R)
  BY <1>2, WFMin, NatLessThanWellFounded
<1>4. PICK m \in S : x = n - m
  OBVIOUS
<1>5. \A k \in S : ~(n - k < n - m)
  BY <1>2, <1>3, <1>4 DEF OpToRel
<1>6. QED
  BY <1>1, <1>5

Latest(S) == IF S = {} THEN 0 ELSE CHOOSE n \in S : \A m \in S : n >= m

LEMMA LatestIsGreatest ==
  ASSUME NEW S, NEW n \in Nat, S \subseteq 1 .. n
  PROVE  /\ S = {} => Latest(S) = 0
         /\ S # {} => Latest(S) \in S
         /\ \A m \in S : m <= Latest(S)
         /\ Latest(S) \in 0 .. n
<1>1. CASE S = {}
  BY <1>1 DEF Latest
<1>2. CASE S # {}
  <2>1. \E m \in S : \A k \in S : m >= k
    BY <1>2, GreatestExists
  <2>2. Latest(S) \in S /\ \A m \in S : Latest(S) >= m
    BY <1>2, <2>1 DEF Latest
  <2>3. Latest(S) \in 1 .. n /\ \A m \in S : m \in 1 .. n
    BY <2>2
  <2>4. \A m \in S : m <= Latest(S)
    BY <2>2, <2>3
  <2>5. Latest(S) \in 0 .. n
    BY <2>3
  <2>6. QED
    BY <1>2, <2>2, <2>4, <2>5
<1>3. QED
  BY <1>1, <1>2

(* The version presentations take by default is the last of those that are  *)
(* published.                                                               *)
LEMMA DefaultIsTheLast ==
  ASSUME NEW p \in Policies
  PROVE  /\ LatestPublished(p) = Latest(Published(p))
         /\ Published(p) \subseteq 1 .. MaxVersions /\ MaxVersions \in Nat
  BY PoliciesAssumption DEF LatestPublished, Latest, Published, Numbers

(* What validatePolicyVersion leaves of a version it accepts. *)
LEMMA AcceptedIsRegistered ==
  ASSUME NEW body, NEW use, Violations(body, use) = {}
  PROVE  /\ use.valid
         /\ \A path \in body.claims :
              \E rc \in use.registered :
                /\ SoleCredentialRequirement(body).type \in rc.types
                /\ \E r \in rc.claims : ClaimPathCovers(r, path)
<1>. DEFINE requirement == SoleCredentialRequirement(body)
            registered == RegisteredClaimsFor(use, requirement)
<1>1. ~use.valid => "intended_use_not_yet_valid" \in Violations(body, use)
  BY Zenon DEF Violations
<1>2. Cardinality(body.requirements) # 1 => "single_credential_requirement" \in Violations(body, use)
  BY Zenon DEF Violations
<1>3. Cardinality(body.requirements) = 1 /\ ClaimPathViolations(body.claims, registered) # {}
        => "claim_not_registered" \in Violations(body, use)
  BY Zenon DEF Violations
<1>4. \A path \in body.claims : \E r \in registered : ClaimPathCovers(r, path)
  BY <1>2, <1>3 DEF ClaimPathViolations, IsClaimPathWithin
<1>5. \A r \in registered : \E rc \in use.registered : requirement.type \in rc.types /\ r \in rc.claims
  BY DEF RegisteredClaimsFor, MatchesRequirement
<1>6. QED
  BY <1>1, <1>4, <1>5

(* What the compiler leaves of a version it does not refuse. *)
LEMMA CompiledIsAccepted ==
  ASSUME NEW status, NEW body, NEW context, CompileRefusals(status, body, context) = {}
  PROVE  /\ status = "PUBLISHED"
         /\ context.use.service = context.service
         /\ Violations(body, context.use) = {}
<1>1. status # "PUBLISHED" => "policy_version_not_published" \in CompileRefusals(status, body, context)
  BY Zenon DEF CompileRefusals
<1>2. context.use.service # context.service
        => "intended_use_service_mismatch" \in CompileRefusals(status, body, context)
  BY Zenon DEF CompileRefusals
<1>3. Violations(body, context.use) # {}
        => "policy_no_longer_valid" \in CompileRefusals(status, body, context)
  BY Zenon DEF CompileRefusals
<1>4. QED
  BY <1>1, <1>2, <1>3

-----------------------------------------------------------------------------
(* Rows only grow *)

RowsGrow ==
  /\ \A s \in Services :
       /\ registry.services[s] # None => registry'.services[s] = registry.services[s]
       /\ registry.instances[s] # None => registry'.instances[s] = registry.instances[s]
  /\ \A u \in Uses : registry.uses[u] # None =>
       /\ registry'.uses[u] # None
       /\ registry'.uses[u].service = registry.uses[u].service
       /\ registry'.uses[u].registered = registry.uses[u].registered
       /\ registry.uses[u].valid => registry'.uses[u].valid

KeysGrow ==
  /\ \A e \in EngineTenants : engine'.keys[e] >= engine.keys[e]
  /\ engine.sized \subseteq engine'.sized

VersionsGrow ==
  \A p \in Policies :
    /\ policies[p] # None => policies'[p] = policies[p]
    /\ \A n \in Numbers(p) :
         /\ versions'[p][n] # None /\ versions'[p][n].body = versions[p][n].body
         /\ versions[p][n].status = "PUBLISHED" => versions'[p][n].status = "PUBLISHED"

Grows == RowsGrow /\ KeysGrow /\ VersionsGrow

(* What is left of the registry when one of its tables is written to.       *)
LEMMA TableWritten ==
  ASSUME NEW r \in Registries
  PROVE  /\ \A keyed \in {"keyless", "keyed"} : [r EXCEPT !.keyed = keyed] \in Registries
         /\ [r EXCEPT !.organised = TRUE] \in Registries
         /\ \A party \in Parties : [r EXCEPT !.parties = @ \cup {party}] \in Registries
         /\ \A u \in Uses : [r EXCEPT !.certified = @ \cup {u}] \in Registries
  BY DEF Registries

LEMMA ServiceInserted ==
  ASSUME NEW r \in Registries, NEW s \in Services, NEW row \in [party : Parties]
  PROVE  LET new == [r EXCEPT !.services[s] = row] IN
         /\ new \in Registries
         /\ new.services[s] = row /\ \A t \in Services \ {s} : new.services[t] = r.services[t]
         /\ new.uses = r.uses /\ new.instances = r.instances /\ new.access = r.access
  BY DEF Registries, ServiceRows

LEMMA UseWritten ==
  ASSUME NEW r \in Registries, NEW u \in Uses, NEW use \in IntendedUses
  PROVE  LET new == [r EXCEPT !.uses[u] = use] IN
         /\ new \in Registries
         /\ new.uses[u] = use /\ \A v \in Uses \ {u} : new.uses[v] = r.uses[v]
         /\ new.services = r.services /\ new.instances = r.instances /\ new.access = r.access
  BY DEF Registries

LEMMA InstanceInserted ==
  ASSUME NEW r \in Registries, NEW s \in Services, NEW e \in EngineTenants
  PROVE  LET new == [r EXCEPT !.instances[s] = e] IN
         /\ new \in Registries
         /\ new.instances[s] = e /\ \A t \in Services \ {s} : new.instances[t] = r.instances[t]
         /\ new.services = r.services /\ new.uses = r.uses /\ new.access = r.access
  BY DEF Registries

LEMMA AccessInserted ==
  ASSUME NEW r \in Registries, NEW s \in Services, NEW key \in KeyRefs
  PROVE  LET new == [r EXCEPT !.access[s] = @ \cup {key}] IN
         /\ new \in Registries
         /\ new.access[s] = r.access[s] \cup {key}
         /\ \A t \in Services \ {s} : new.access[t] = r.access[t]
         /\ new.services = r.services /\ new.uses = r.uses /\ new.instances = r.instances
  BY DEF Registries

LEMMA UseBecomesValid ==
  ASSUME NEW r \in Registries, NEW u \in Uses, r.uses[u] \in IntendedUses
  PROVE  LET new == [r EXCEPT !.uses[u].valid = TRUE] IN
         /\ new \in Registries
         /\ new.uses[u] # None /\ new.uses[u].service = r.uses[u].service
         /\ new.uses[u].registered = r.uses[u].registered /\ new.uses[u].valid
         /\ \A v \in Uses \ {u} : new.uses[v] = r.uses[v]
         /\ new.services = r.services /\ new.instances = r.instances /\ new.access = r.access
<1>. DEFINE use == [r.uses[u] EXCEPT !.valid = TRUE]
            new == [r EXCEPT !.uses[u] = use]
<1>1. /\ use \in IntendedUses /\ use.service = r.uses[u].service
      /\ use.registered = r.uses[u].registered /\ use.valid
  BY DEF IntendedUses
<1>2. use # None
  BY <1>1, SetupAssumption
<1>3. [r EXCEPT !.uses[u].valid = TRUE] = new
  OBVIOUS
<1>. HIDE DEF use
<1>4. /\ new \in Registries
      /\ new.uses[u] = use /\ \A v \in Uses \ {u} : new.uses[v] = r.uses[v]
      /\ new.services = r.services /\ new.instances = r.instances /\ new.access = r.access
  BY <1>1, UseWritten
<1>. HIDE DEF new
<1>5. QED
  BY <1>1, <1>2, <1>3, <1>4

(* Writing to the registry keeps its type and what was in it. *)
LEMMA RegistryGrows ==
  ASSUME Typed, \A c \in Clients : Stands(c),
         \/ \E c \in Clients : Register(c)
         \/ \E u \in Uses : BecomesValid(u)
  PROVE  registry' \in Registries /\ RowsGrow
<1>1. registry \in Registries
  BY DEF Typed
<1>2. CASE registry' = registry
  BY <1>1, <1>2 DEF RowsGrow
<1>3. ASSUME registry' \in Registries, registry'.services = registry.services,
             registry'.uses = registry.uses, registry'.instances = registry.instances
      PROVE  RowsGrow
  BY <1>3 DEF RowsGrow
<1>4. ASSUME NEW c \in Clients,
             \/ CreateTenant(c) \/ CreateApiKey(c) \/ CreateOrganisation(c)
             \/ CreateRelyingParty(c) \/ RecordRegistrationCertificate(c)
      PROVE  registry' \in Registries /\ RowsGrow
  <2>1. registry' \in Registries
    BY <1>1, <1>4, TableWritten DEF CreateTenant, CreateApiKey, CreateOrganisation,
       CreateRelyingParty, RecordRegistrationCertificate
  <2>2. /\ registry'.services = registry.services
        /\ registry'.uses = registry.uses /\ registry'.instances = registry.instances
    BY <1>1, <1>4 DEF CreateTenant, CreateApiKey, CreateOrganisation,
       CreateRelyingParty, RecordRegistrationCertificate, Registries
  <2>3. QED
    BY <1>3, <2>1, <2>2
<1>5. ASSUME NEW c \in Clients, InsertService(c), registry' # registry
      PROVE  registry' \in Registries /\ RowsGrow
  <2>1. /\ req[c].subject \in Services /\ req[c].row \in [party : Parties]
        /\ registry.services[req[c].subject] = None
        /\ registry' = [registry EXCEPT !.services[req[c].subject] = req[c].row]
    BY <1>5 DEF InsertService, Stands, StandsRegistering
  <2>2. QED
    BY <1>1, <2>1, ServiceInserted DEF RowsGrow
<1>6. ASSUME NEW c \in Clients, CreateIntendedUse(c)
      PROVE  registry' \in Registries /\ RowsGrow
  <2>1. PICK u \in Uses, use \in IntendedUses :
          registry.uses[u] = None /\ registry' = [registry EXCEPT !.uses[u] = use]
    BY <1>6 DEF CreateIntendedUse
  <2>2. QED
    BY <1>1, <2>1, UseWritten DEF RowsGrow
<1>7. ASSUME NEW c \in Clients, InsertInstance(c), registry' # registry
      PROVE  registry' \in Registries /\ RowsGrow
  <2>1. /\ req[c].subject \in Services /\ req[c].key.engine \in EngineTenants
        /\ registry.instances[req[c].subject] = None
        /\ registry' = [registry EXCEPT !.instances[req[c].subject] = req[c].key.engine]
    BY <1>7 DEF InsertInstance, Stands, StandsRegistering, IsHeld, KeyRefs
  <2>2. QED
    BY <1>1, <2>1, InstanceInserted DEF RowsGrow
<1>8. ASSUME NEW c \in Clients, CreateAccessCertificate(c)
      PROVE  registry' \in Registries /\ RowsGrow
  <2>1. /\ req[c].subject \in Services /\ req[c].key \in KeyRefs
        /\ registry' = [registry EXCEPT !.access[req[c].subject] = @ \cup {req[c].key}]
    BY <1>8 DEF CreateAccessCertificate, Stands, StandsRegistering, IsHeld
  <2>2. QED
    BY <1>1, <2>1, AccessInserted DEF RowsGrow
<1>9. ASSUME NEW u \in Uses, BecomesValid(u)
      PROVE  registry' \in Registries /\ RowsGrow
  <2>1. /\ registry.uses[u] \in IntendedUses
        /\ registry' = [registry EXCEPT !.uses[u].valid = TRUE]
    BY <1>1, <1>9 DEF BecomesValid, Registries
  <2>2. QED
    BY <1>1, <2>1, UseBecomesValid DEF RowsGrow
<1>10. ASSUME NEW c \in Clients,
              \/ Audit(c) \/ BeginService(c) \/ ImportAccessCertificate(c)
              \/ ApplyRetentionSettings(c) \/ Fault(c)
       PROVE  registry' = registry
  BY <1>10 DEF Audit, BeginService, ImportAccessCertificate, ApplyRetentionSettings, Fault
<1>11. QED
  BY <1>2, <1>4, <1>5, <1>6, <1>7, <1>8, <1>9, <1>10 DEF Register

(* The engine tenants only gain keys, and are only sized.                   *)
LEMMA EngineGrows ==
  ASSUME Typed, \A c \in Clients : Stands(c),
         \/ \E c \in Clients : Register(c)
         \/ \E u \in Uses : BecomesValid(u)
  PROVE  engine' \in Engines /\ KeysGrow
<1>1. engine \in Engines
  BY DEF Typed
<1>2. CASE engine' = engine
  BY <1>1, <1>2 DEF KeysGrow, Engines
<1>3. ASSUME NEW c \in Clients, ImportAccessCertificate(c)
      PROVE  engine' \in Engines /\ KeysGrow
  <2>1. PICK e \in EngineTenants :
          engine.keys[e] < MaxKeys /\ engine' = [engine EXCEPT !.keys[e] = @ + 1]
    BY <1>3 DEF ImportAccessCertificate
  <2>2. engine.keys[e] \in 0 .. MaxKeys /\ engine.keys[e] + 1 \in 0 .. MaxKeys
    BY <1>1, <2>1, SetupAssumption DEF Engines
  <2>3. QED
    BY <1>1, <2>1, <2>2 DEF Engines, KeysGrow
<1>4. ASSUME NEW c \in Clients, ApplyRetentionSettings(c)
      PROVE  engine' \in Engines /\ KeysGrow
  <2>1. /\ req[c].key.engine \in EngineTenants
        /\ engine' = [engine EXCEPT !.sized = @ \cup {req[c].key.engine}]
    BY <1>4 DEF ApplyRetentionSettings, Stands, StandsRegistering, IsHeld, KeyRefs
  <2>2. QED
    BY <1>1, <2>1 DEF Engines, KeysGrow
<1>5. ASSUME NEW c \in Clients,
             \/ Audit(c) \/ CreateTenant(c) \/ CreateApiKey(c) \/ CreateOrganisation(c)
             \/ CreateRelyingParty(c) \/ BeginService(c) \/ InsertService(c) \/ CreateIntendedUse(c)
             \/ RecordRegistrationCertificate(c) \/ InsertInstance(c)
             \/ CreateAccessCertificate(c) \/ Fault(c)
      PROVE  engine' = engine
  BY <1>5 DEF Audit, CreateTenant, CreateApiKey, CreateOrganisation, CreateRelyingParty,
     BeginService, InsertService, CreateIntendedUse, RecordRegistrationCertificate, InsertInstance,
     CreateAccessCertificate, Fault
<1>6. QED
  BY <1>2, <1>3, <1>4, <1>5 DEF Register, BecomesValid

(* What a request does to policies and versions: nothing, or a new policy,  *)
(* a new draft, the publication of one. *)
Policing(c) ==
  \/ CreatePolicy(c) \/ BeginVersion(c) \/ ListVersions(c) \/ InsertDraft(c)
  \/ BeginPublish(c) \/ PublishVersion(c)
  \/ BeginPresentation(c) \/ Resolve(c) \/ Compile(c) \/ WalletAnswers(c) \/ Finish(c)

(* Versions are written once, and published. *)
LEMMA PoliciesGrow ==
  ASSUME Typed, UsesAreThere, NEW c \in Clients, Stands(c), Policing(c)
  PROVE  /\ policies' \in [Policies -> PresentationPolicyRows]
         /\ versions' \in [Policies -> [1 .. MaxVersions -> VersionRows]]
         /\ VersionsGrow
         /\ \A p \in Policies : policies[p] = None /\ policies'[p] # None =>
              registry.uses[policies'[p].use] # None
<1>1. /\ policies \in [Policies -> PresentationPolicyRows]
      /\ versions \in [Policies -> [1 .. MaxVersions -> VersionRows]]
  BY DEF Typed
<1>2. CASE UNCHANGED <<policies, versions>>
  BY <1>1, <1>2 DEF VersionsGrow, Numbers
<1>3. CASE CreatePolicy(c)
  <2>1. PICK p \in Policies, s \in Services, u \in Uses :
          /\ policies[p] = None /\ registry.uses[u] # None /\ versions' = versions
          /\ policies' = [policies EXCEPT ![p] = [service |-> s, use |-> u]]
    BY <1>3 DEF CreatePolicy
  <2>2. [service |-> s, use |-> u] \in PresentationPolicyRows
    BY DEF PresentationPolicyRows
  <2>3. policies' \in [Policies -> PresentationPolicyRows]
    BY <1>1, <2>1, <2>2
  <2>4. VersionsGrow
    BY <1>1, <2>1 DEF VersionsGrow, Numbers
  <2>5. policies'[p].use = u /\ \A q \in Policies \ {p} : policies'[q] = policies[q]
    BY <1>1, <2>1
  <2>6. QED
    BY <1>1, <2>1, <2>3, <2>4, <2>5
<1>4. CASE InsertDraft(c) /\ versions' # versions
  <2>. DEFINE p == req[c].subject
             n == req[c].n
             draft == [status |-> "DRAFT", body |-> req[c].body]
  <2>1. /\ p \in Policies /\ n \in 1 .. MaxVersions /\ versions[p][n] = None
        /\ versions' = [versions EXCEPT ![p][n] = draft] /\ policies' = policies
    BY <1>4 DEF InsertDraft, Stands, StandsDrafting
  <2>2. draft \in VersionRows
    BY <1>4 DEF InsertDraft, Stands, StandsDrafting, VersionRows, PolicyStatuses
  <2>. HIDE DEF draft
  <2>3. versions' \in [Policies -> [1 .. MaxVersions -> VersionRows]]
    BY <1>1, <2>1, <2>2
  <2>4. \A q \in Policies : \A m \in Numbers(q) : versions'[q][m] = versions[q][m]
    BY <1>1, <2>1 DEF Numbers
  <2>5. VersionsGrow
    BY <2>1, <2>4 DEF VersionsGrow, Numbers
  <2>6. QED
    BY <1>1, <2>1, <2>3, <2>5
<1>5. CASE PublishVersion(c) /\ versions' # versions
  <2>. DEFINE p == req[c].subject
             n == req[c].n
             published == [versions[p][n] EXCEPT !.status = "PUBLISHED"]
  <2>1. /\ p \in Policies /\ n \in Numbers(p) /\ policies' = policies
        /\ versions' = [versions EXCEPT ![p][n].status = "PUBLISHED"]
    BY <1>5 DEF PublishVersion, Stands, StandsDrafting
  <2>2. versions[p][n] \in [status : PolicyStatuses, body : Bodies] /\ n \in 1 .. MaxVersions
    BY <1>1, <2>1 DEF Numbers, VersionRows
  <2>3. /\ published \in [status : PolicyStatuses, body : Bodies]
        /\ published.body = versions[p][n].body /\ published.status = "PUBLISHED"
    BY <2>2 DEF PolicyStatuses
  <2>4. versions' = [versions EXCEPT ![p][n] = published]
    BY <2>1
  <2>. HIDE DEF published
  <2>5. versions' \in [Policies -> [1 .. MaxVersions -> VersionRows]]
    <3>1. published \in VersionRows
      BY <2>3 DEF VersionRows
    <3>2. PICK column : column = [versions[p] EXCEPT ![n] = published]
      OBVIOUS
    <3>3. column \in [1 .. MaxVersions -> VersionRows]
      BY <1>1, <2>1, <3>1, <3>2
    <3>4. versions' = [versions EXCEPT ![p] = column]
      BY <2>4, <3>2
    <3>5. QED
      BY <1>1, <3>3, <3>4
  <2>6. /\ versions'[p][n] = published
        /\ \A m \in Numbers(p) : m # n => versions'[p][m] = versions[p][m]
        /\ \A q \in Policies : q # p => versions'[q] = versions[q]
    <3>1. versions[p] \in [1 .. MaxVersions -> VersionRows]
      BY <1>1, <2>1
    <3>2. versions'[p] = [versions[p] EXCEPT ![n] = published]
      BY <1>1, <2>1, <2>4
    <3>3. \A q \in Policies : q # p => versions'[q] = versions[q]
      BY <1>1, <2>4
    <3>4. QED
      BY <2>2, <3>1, <3>2, <3>3 DEF Numbers
  <2>7. published # None
    BY <2>3, PoliciesAssumption
  <2>8. VersionsGrow
    BY <2>1, <2>3, <2>6, <2>7, ZenonT(40) DEF VersionsGrow, Numbers
  <2>9. QED
    BY <1>1, <2>1, <2>5, <2>8
<1>6. QED
  BY <1>2, <1>3, <1>4, <1>5 DEF Policing, BeginVersion, ListVersions, InsertDraft, BeginPublish,
     PublishVersion, BeginPresentation, Resolve, Compile, WalletAnswers, Finish

-----------------------------------------------------------------------------
(* What a request has read still stands *)

Tables ==
  /\ registry \in Registries
  /\ engine \in Engines
  /\ policies \in [Policies -> PresentationPolicyRows]
  /\ versions \in [Policies -> [1 .. MaxVersions -> VersionRows]]

(* A step writes to the tables as it may. *)
WritesWell ==
  /\ Tables'
  /\ Grows
  /\ UsesAreThere'

LEMMA PublishedStays ==
  ASSUME Typed, WritesWell, NEW p \in Policies
  PROVE  /\ Numbers(p) \subseteq Numbers(p)'
         /\ Published(p) \subseteq Published(p)'
<1>1. Numbers(p) \subseteq Numbers(p)'
  BY DEF WritesWell, Grows, VersionsGrow, Numbers
<1>2. ASSUME NEW n \in Published(p) PROVE n \in Published(p)'
  BY <1>1, <1>2 DEF WritesWell, Grows, VersionsGrow, Published
<1>3. QED
  BY <1>1, <1>2

(* The default never goes back. *)
LEMMA DefaultGrows ==
  ASSUME Typed, WritesWell, NEW p \in Policies
  PROVE  /\ LatestPublished(p) \in Nat /\ LatestPublished(p)' \in Nat
         /\ LatestPublished(p) <= LatestPublished(p)'
<1>1. /\ LatestPublished(p) = Latest(Published(p))
      /\ LatestPublished(p)' = Latest(Published(p)')
  BY DEF LatestPublished, Latest
<1>2. /\ Published(p) \subseteq 1 .. MaxVersions /\ Published(p)' \subseteq 1 .. MaxVersions
      /\ MaxVersions \in Nat
  BY PoliciesAssumption DEF Published, Numbers
<1>3. Published(p) \subseteq Published(p)'
  BY PublishedStays
<1>4. QED
  BY <1>1, <1>2, <1>3, LatestIsGreatest

(* What is asked for stays current and covered. *)
LEMMA RequestStays ==
  ASSUME Typed, UsesAreThere, WritesWell, NEW p \in Policies, policies[p] # None
  PROVE  /\ policies'[p] # None
         /\ \A plan, named, floor :
              IsCurrent(p, plan, named, floor) => IsCurrent(p, plan, named, floor)'
         /\ \A plan : IsCovered(p, plan) => IsCovered(p, plan)'
<1>1. policies'[p] = policies[p]
  BY DEF WritesWell, Grows, VersionsGrow
<1>2. policies[p].use \in Uses /\ registry.uses[policies[p].use] # None
  BY DEF Typed, UsesAreThere, PresentationPolicyRows
<1>3. /\ UseOf(p)'.service = UseOf(p).service
      /\ UseOf(p)'.registered = UseOf(p).registered
      /\ UseOf(p).valid => UseOf(p)'.valid
  BY <1>1, <1>2 DEF WritesWell, Grows, RowsGrow, UseOf
<1>4. ASSUME NEW plan, NEW named, NEW floor, IsCurrent(p, plan, named, floor)
      PROVE  IsCurrent(p, plan, named, floor)'
  BY <1>4, PublishedStays DEF IsCurrent
<1>5. ASSUME NEW plan, IsCovered(p, plan) PROVE IsCovered(p, plan)'
  BY <1>1, <1>3, <1>5 DEF IsCovered
<1>6. QED
  BY <1>1, <1>4, <1>5

LEMMA KeyStays ==
  ASSUME Typed, WritesWell, NEW key, IsHeld(key)
  PROVE  IsHeld(key)' /\ (key.engine \in engine.sized => key.engine \in engine'.sized)
<1>1. key.engine \in EngineTenants /\ key.n \in Nat
  BY DEF IsHeld, KeyRefs
<1>2. engine.keys[key.engine] \in Nat /\ engine'.keys[key.engine] \in Nat
  BY <1>1 DEF Typed, WritesWell, Tables, Engines
<1>3. engine'.keys[key.engine] >= engine.keys[key.engine] /\ engine.sized \subseteq engine'.sized
  BY <1>1 DEF WritesWell, Grows, KeysGrow
<1>4. QED
  BY <1>1, <1>2, <1>3 DEF IsHeld

LEMMA RestsStand ==
  ASSUME Typed, UsesAreThere, WritesWell, NEW c \in Clients, Stands(c),
         pc'[c] = pc[c], req'[c] = req[c]
  PROVE  Stands(c)'
<1>1. StandsRegistering(c)'
  <2>1. CASE pc[c] \in {"retention", "instance", "access"}
    <3>1. PICK key : key = req[c].key
      OBVIOUS
    <3>2. IsHeld(key) /\ req[c].subject \in Services
      BY <2>1, <3>1 DEF Stands, StandsRegistering
    <3>3. IsHeld(key)' /\ (key.engine \in engine.sized => key.engine \in engine'.sized)
      BY <3>2, KeyStays
    <3>4. pc[c] = "access" => registry'.instances[req[c].subject] = key.engine
      <4>1. key.engine # None
        BY <3>2, SetupAssumption DEF IsHeld, KeyRefs
      <4>2. QED
        BY <3>1, <3>2, <4>1 DEF Stands, StandsRegistering, WritesWell, Grows, RowsGrow
    <3>5. QED
      BY <2>1, <3>1, <3>2, <3>3, <3>4 DEF Stands, StandsRegistering
  <2>2. CASE pc[c] \notin {"retention", "instance", "access"}
    BY <2>2 DEF Stands, StandsRegistering
  <2>3. QED
    BY <2>1, <2>2
<1>2. StandsDrafting(c)'
  <2>1. PICK p : p = req[c].subject
    OBVIOUS
  <2>2. p \in Policies => Numbers(p) \subseteq Numbers(p)'
    BY PublishedStays
  <2>3. QED
    BY <2>1, <2>2 DEF Stands, StandsDrafting
<1>3. StandsPresenting(c)'
  <2>1. CASE pc[c] \in {"resolve", "context", "wallet", "answered"}
    <3>1. PICK p, plan, named, floor : /\ p = req[c].subject /\ plan = req[c].plan
                                      /\ named = req[c].named /\ floor = req[c].floor
      OBVIOUS
    <3>2. /\ p \in Policies /\ policies[p] # None
          /\ floor \in Nat /\ (named # 0 => floor = named)
      BY <2>1, <3>1 DEF Stands, StandsPresenting
    <3>3. policies'[p] # None
      BY <3>2, RequestStays
    <3>4. pc[c] = "resolve" => (named = 0 => floor <= LatestPublished(p)')
      BY <3>1, <3>2, DefaultGrows DEF Stands, StandsPresenting
    <3>5. pc[c] = "context" =>
            req[c].n \in Published(p)' /\ floor <= req[c].n /\ (named # 0 => req[c].n = named)
      BY <3>1, <3>2, PublishedStays DEF Stands, StandsPresenting
    <3>6. pc[c] \in {"wallet", "answered"} =>
            IsCurrent(p, plan, named, floor)' /\ IsCovered(p, plan)'
      BY <3>1, <3>2, RequestStays DEF Stands, StandsPresenting
    <3>7. QED
      BY <2>1, <3>1, <3>2, <3>3, <3>4, <3>5, <3>6 DEF Stands, StandsPresenting
  <2>2. CASE pc[c] \notin {"resolve", "context", "wallet", "answered"}
    BY <2>2 DEF Stands, StandsPresenting
  <2>3. QED
    BY <2>1, <2>2
<1>4. QED
  BY <1>1, <1>2, <1>3 DEF Stands

(* A request with nothing in hand. *)
LEMMA StandsIdle ==
  ASSUME NEW c \in Clients, pc'[c] \in {"idle", "audit", "key"}
  PROVE  Stands(c)'
BY DEF Stands, StandsRegistering, StandsDrafting, StandsPresenting

LEMMA Awaits ==
  ASSUME Typed, NEW c \in Clients, NEW label, NEW locals, Await(c, label, locals)
  PROVE  pc'[c] = label /\ req'[c] = locals
BY DEF Typed, Await, Goto

LEMMA Returns ==
  ASSUME Typed, NEW c \in Clients, Return(c)
  PROVE  Stands(c)'
BY Awaits, StandsIdle DEF Return

LEMMA RegisteringStands ==
  ASSUME Typed, NEW c \in Clients, Stands(c), WritesWell, Register(c)
  PROVE  Stands(c)'
<1>1. CASE Return(c)
  BY <1>1, Returns
<1>2. CASE Audit(c) \/ CreateTenant(c) \/ CreateApiKey(c) \/ CreateAccessCertificate(c)
  <2>1. CASE CreateTenant(c)
    BY <2>1, StandsIdle DEF Typed, CreateTenant, Goto
  <2>2. ASSUME NEW action, NEW subject, ThenAudit(c, action, subject) PROVE Stands(c)'
    BY <2>2, Awaits, StandsIdle DEF ThenAudit
  <2>3. QED
    BY <1>1, <1>2, <2>1, <2>2 DEF Audit, CreateApiKey, CreateAccessCertificate
<1>3. CASE CreateOrganisation(c) \/ CreateRelyingParty(c) \/ CreateIntendedUse(c)
           \/ RecordRegistrationCertificate(c)
  <2>1. pc[c] = "idle" /\ pc' = pc
    BY <1>3 DEF CreateOrganisation, CreateRelyingParty, CreateIntendedUse,
       RecordRegistrationCertificate
  <2>2. QED
    BY <2>1, StandsIdle
<1>4. CASE BeginService(c)
  <2>1. PICK s \in Services, party \in Parties :
          Await(c, "service", [action |-> "service", subject |-> s, row |-> [party |-> party]])
    BY <1>4 DEF BeginService, Typed, Registries
  <2>2. pc'[c] = "service" /\ req'[c].subject = s /\ req'[c].row = [party |-> party]
    BY <2>1, Awaits
  <2>3. QED
    BY <2>2 DEF Stands, StandsRegistering, StandsDrafting, StandsPresenting
<1>5. CASE ImportAccessCertificate(c)
  <2>1. PICK s \in Services, e \in EngineTenants :
          /\ engine.keys[e] < MaxKeys
          /\ engine' = [engine EXCEPT !.keys[e] = @ + 1]
          /\ Await(c, "retention", [action |-> "instance", subject |-> s,
                                    key |-> [engine |-> e, n |-> engine.keys[e] + 1]])
    BY <1>5 DEF ImportAccessCertificate
  <2>2. /\ pc'[c] = "retention" /\ req'[c].subject = s
        /\ req'[c].key = [engine |-> e, n |-> engine.keys[e] + 1]
    BY <2>1, Awaits
  <2>3. engine.keys[e] \in 0 .. MaxKeys /\ engine'.keys[e] = engine.keys[e] + 1
    BY <2>1 DEF Typed, Engines
  <2>4. IsHeld(req[c].key)'
    BY <2>1, <2>2, <2>3, SetupAssumption DEF IsHeld, KeyRefs
  <2>5. QED
    BY <2>2, <2>4 DEF Stands, StandsRegistering, StandsDrafting, StandsPresenting
<1>6. CASE ApplyRetentionSettings(c)
  <2>1. PICK key : key = req[c].key
    OBVIOUS
  <2>2. /\ pc[c] = "retention" /\ pc'[c] = "instance" /\ req' = req
        /\ engine' = [engine EXCEPT !.sized = @ \cup {key.engine}]
    BY <1>6, <2>1 DEF ApplyRetentionSettings, Goto, Typed
  <2>3. IsHeld(key) /\ req[c].subject \in Services
    BY <2>1, <2>2 DEF Stands, StandsRegistering
  <2>4. IsHeld(key)' /\ key.engine \in engine'.sized
    BY <2>2, <2>3, KeyStays DEF Typed, Engines
  <2>5. QED
    BY <2>1, <2>2, <2>3, <2>4 DEF Stands, StandsRegistering, StandsDrafting, StandsPresenting
<1>7. CASE InsertInstance(c) /\ ~Return(c)
  <2>1. PICK key, s : key = req[c].key /\ s = req[c].subject
    OBVIOUS
  <2>2. /\ pc[c] = "instance" /\ pc'[c] = "access" /\ req' = req
        /\ registry' = [registry EXCEPT !.instances[s] = key.engine]
    BY <1>7, <2>1 DEF InsertInstance, Goto, Typed
  <2>3. IsHeld(key) /\ s \in Services /\ key.engine \in engine.sized
    BY <2>1, <2>2 DEF Stands, StandsRegistering
  <2>4. IsHeld(key)' /\ key.engine \in engine'.sized
    BY <2>3, KeyStays
  <2>5. registry'.instances[s] = key.engine
    BY <2>2, <2>3 DEF Typed, Registries
  <2>6. QED
    BY <2>1, <2>2, <2>3, <2>4, <2>5 DEF Stands, StandsRegistering, StandsDrafting, StandsPresenting
<1>8. CASE InsertService(c) \/ Fault(c)
  BY <1>1, <1>8 DEF InsertService, Fault
<1>9. QED
  BY <1>1, <1>2, <1>3, <1>4, <1>5, <1>6, <1>7, <1>8 DEF Register

LEMMA PolicingStands ==
  ASSUME Typed, UsesAreThere, NEW c \in Clients, Stands(c), WritesWell, Policing(c)
  PROVE  Stands(c)'
<1>1. CASE Return(c)
  BY <1>1, Returns
<1>2. CASE CreatePolicy(c) \/ Finish(c)
  BY <1>1, <1>2, StandsIdle DEF CreatePolicy, Finish
<1>3. CASE BeginVersion(c)
  <2>1. PICK p \in Policies, body \in Bodies, publish \in BOOLEAN :
          Await(c, "list", [action |-> "version", subject |-> p, body |-> body, publish |-> publish])
    BY <1>3 DEF BeginVersion
  <2>2. pc'[c] = "list" /\ req'[c].subject = p /\ req'[c].body = body
    BY <2>1, Awaits
  <2>3. QED
    BY <2>2 DEF Stands, StandsRegistering, StandsDrafting, StandsPresenting
<1>4. CASE ListVersions(c) /\ ~Return(c)
  <2>1. PICK p, n, body : p = req[c].subject /\ n = NextVersionNumber(p) /\ body = req[c].body
    OBVIOUS
  <2>2. /\ pc[c] = "list" /\ n \in 1 .. MaxVersions
        /\ Await(c, "draft", [action |-> "version", subject |-> p, n |-> n,
                              body |-> body, publish |-> req[c].publish])
    BY <1>4, <2>1 DEF ListVersions
  <2>3. pc'[c] = "draft" /\ req'[c].subject = p /\ req'[c].n = n /\ req'[c].body = body
    BY <2>2, Awaits
  <2>4. QED
    BY <2>1, <2>2, <2>3 DEF Stands, StandsRegistering, StandsDrafting, StandsPresenting
<1>5. CASE InsertDraft(c) /\ ~Return(c)
  <2>1. PICK p, n, body : p = req[c].subject /\ n = req[c].n /\ body = req[c].body
    OBVIOUS
  <2>2. /\ pc[c] = "draft" /\ pc'[c] = "publish" /\ req' = req
        /\ versions' = [versions EXCEPT ![p][n] = [status |-> "DRAFT", body |-> body]]
    BY <1>5, <2>1 DEF InsertDraft, Goto, Typed
  <2>3. p \in Policies /\ n \in 1 .. MaxVersions /\ body \in Bodies
    BY <2>1, <2>2 DEF Stands, StandsDrafting
  <2>4. versions'[p][n] = [status |-> "DRAFT", body |-> body]
    BY <2>2, <2>3 DEF Typed
  <2>5. versions'[p][n] # None
    BY <2>3, <2>4, PoliciesAssumption DEF PolicyStatuses
  <2>6. n \in Numbers(p)'
    BY <2>3, <2>5 DEF Numbers
  <2>7. QED
    BY <2>1, <2>2, <2>3, <2>6 DEF Stands, StandsRegistering, StandsDrafting, StandsPresenting
<1>6. CASE BeginPublish(c)
  <2>1. PICK p \in Policies : \E n \in Numbers(p) :
          Await(c, "publish", [action |-> "publish", subject |-> p, n |-> n])
    BY <1>6 DEF BeginPublish
  <2>2. PICK n \in Numbers(p) :
          Await(c, "publish", [action |-> "publish", subject |-> p, n |-> n])
    BY <2>1
  <2>3. pc'[c] = "publish" /\ req'[c].subject = p /\ req'[c].n = n /\ n \in Numbers(p)'
    BY <2>2, Awaits, PublishedStays
  <2>4. QED
    BY <2>3 DEF Stands, StandsRegistering, StandsDrafting, StandsPresenting
<1>7. CASE PublishVersion(c) /\ ~Return(c)
  BY <1>7, Awaits, StandsIdle DEF PublishVersion, ThenAudit
<1>8. CASE BeginPresentation(c)
  <2>1. PICK p \in Policies, named \in 0 .. MaxVersions : \E floor :
          /\ policies[p] # None /\ floor = IF named = 0 THEN LatestPublished(p) ELSE named
          /\ Await(c, "resolve", [action |-> "present", subject |-> p, named |-> named,
                                  floor |-> floor])
    BY <1>8 DEF BeginPresentation
  <2>. PICK floor :
          /\ policies[p] # None /\ floor = IF named = 0 THEN LatestPublished(p) ELSE named
          /\ Await(c, "resolve", [action |-> "present", subject |-> p, named |-> named,
                                  floor |-> floor])
    BY <2>1
  <2>2. pc'[c] = "resolve" /\ req'[c].subject = p /\ req'[c].named = named /\ req'[c].floor = floor
    BY <2>1, Awaits
  <2>3. /\ policies'[p] # None /\ floor \in Nat
        /\ named = 0 => floor <= LatestPublished(p)'
        /\ named # 0 => floor = named
    BY <2>1, RequestStays, DefaultGrows
  <2>4. QED
    BY <2>2, <2>3 DEF Stands, StandsRegistering, StandsDrafting, StandsPresenting
<1>9. CASE Resolve(c) /\ ~Return(c)
  <2>1. PICK p, n, named, floor : /\ p = req[c].subject /\ n = ResolvePublishedVersion(p, named)
                                 /\ named = req[c].named /\ floor = req[c].floor
    OBVIOUS
  <2>2. /\ pc[c] = "resolve" /\ n # 0
        /\ Await(c, "context", [action |-> "present", subject |-> p, named |-> named,
                                floor |-> floor, n |-> n])
    BY <1>9, <2>1 DEF Resolve
  <2>3. /\ p \in Policies /\ policies[p] # None /\ floor \in Nat
        /\ named = 0 => floor <= LatestPublished(p)
        /\ named # 0 => floor = named
    BY <2>1, <2>2 DEF Stands, StandsPresenting
  <2>4. n \in Published(p) /\ floor <= n /\ (named # 0 => n = named)
    <3>1. CASE named = 0
      <4>1. n = LatestPublished(p)
        BY <2>1, <2>3, <3>1, DefaultIsTheLast DEF ResolvePublishedVersion
      <4>2. QED
        BY <2>2, <2>3, <3>1, <4>1, DefaultIsTheLast, LatestIsGreatest
    <3>2. CASE named # 0
      BY <2>1, <2>2, <2>3, <3>2 DEF ResolvePublishedVersion
    <3>3. QED
      BY <3>1, <3>2
  <2>5. policies'[p] # None /\ n \in Published(p)'
    BY <2>3, <2>4, RequestStays, PublishedStays
  <2>6. /\ pc'[c] = "context" /\ req'[c].subject = p /\ req'[c].n = n
        /\ req'[c].named = named /\ req'[c].floor = floor
    BY <2>2, Awaits
  <2>7. QED
    BY <2>3, <2>4, <2>5, <2>6 DEF Stands, StandsRegistering, StandsDrafting, StandsPresenting
<1>10. CASE Compile(c) /\ ~Return(c)
  <2>1. PICK p, n, named, floor, row :
          /\ p = req[c].subject /\ n = req[c].n /\ named = req[c].named /\ floor = req[c].floor
          /\ row = versions[p][n]
    OBVIOUS
  <2>2. /\ pc[c] = "context" /\ p \in Policies /\ policies[p] # None
        /\ floor \in Nat /\ (named # 0 => floor = named)
    BY <1>10, <2>1 DEF Compile, Stands, StandsPresenting
  <2>3. n \in Published(p) /\ floor <= n /\ (named # 0 => n = named)
    BY <2>1, <2>2 DEF Stands, StandsPresenting
  <2>4. PICK context, plan, lifetime :
          /\ context \in Contexts(p) /\ plan = Plan(n, row.body, context)
          /\ CompileRefusals(row.status, row.body, context) = {}
          /\ Await(c, "wallet", [action |-> "present", subject |-> p, named |-> named,
                                 floor |-> floor, plan |-> plan, lifetime |-> lifetime])
    BY <1>10, <2>1 DEF Compile
  <2>5. context.use = UseOf(p) /\ context.service = policies[p].service
    BY <2>4 DEF Contexts
  <2>6. /\ UseOf(p).service = policies[p].service
        /\ Violations(row.body, UseOf(p)) = {}
    BY <2>4, <2>5, CompiledIsAccepted
  <2>7. /\ plan.version = n /\ plan.claims = row.body.claims
        /\ plan.requirement.type = SoleCredentialRequirement(row.body).type
    BY <2>4 DEF Plan, PlanRequirement
  <2>8. IsCovered(p, plan)
    BY <2>6, <2>7, AcceptedIsRegistered DEF IsCovered
  <2>9. IsCurrent(p, plan, named, floor)
    BY <2>3, <2>7 DEF IsCurrent, Published, Numbers
  <2>10. policies'[p] # None /\ IsCovered(p, plan)' /\ IsCurrent(p, plan, named, floor)'
    BY <2>2, <2>8, <2>9, RequestStays
  <2>11. /\ pc'[c] = "wallet" /\ req'[c].subject = p /\ req'[c].plan = plan
         /\ req'[c].named = named /\ req'[c].floor = floor
    BY <2>4, Awaits
  <2>12. QED
    BY <2>2, <2>10, <2>11 DEF Stands, StandsRegistering, StandsDrafting, StandsPresenting
<1>11. CASE WalletAnswers(c)
  <2>1. PICK p, plan, named, floor : /\ p = req[c].subject /\ plan = req[c].plan
                                    /\ named = req[c].named /\ floor = req[c].floor
    OBVIOUS
  <2>2. pc[c] = "wallet" /\ \E locals : /\ Await(c, "answered", locals)
                                        /\ locals.subject = p /\ locals.plan = plan
                                        /\ locals.named = named /\ locals.floor = floor
    BY <1>11, <2>1 DEF WalletAnswers
  <2>3. /\ p \in Policies /\ policies[p] # None
        /\ floor \in Nat /\ (named # 0 => floor = named)
        /\ IsCovered(p, plan) /\ IsCurrent(p, plan, named, floor)
    BY <2>1, <2>2 DEF Stands, StandsPresenting
  <2>4. policies'[p] # None /\ IsCovered(p, plan)' /\ IsCurrent(p, plan, named, floor)'
    BY <2>3, RequestStays
  <2>5. /\ pc'[c] = "answered" /\ req'[c].subject = p /\ req'[c].plan = plan
        /\ req'[c].named = named /\ req'[c].floor = floor
    BY <2>2, Awaits
  <2>6. QED
    BY <2>3, <2>4, <2>5 DEF Stands, StandsRegistering, StandsDrafting, StandsPresenting
<1>12. QED
  BY <1>1, <1>2, <1>3, <1>4, <1>5, <1>6, <1>7, <1>8, <1>9, <1>10, <1>11 DEF Policing

-----------------------------------------------------------------------------
(* One request at a time *)

(* A request moves on, and no other is touched. *)
Moves(c) ==
  \/ UNCHANGED <<pc, req>>
  \/ \E label \in Labels : Goto(c, label) /\ UNCHANGED req
  \/ \E label \in Labels : \E locals : Await(c, label, locals)

LEMMA RegisterMoves ==
  ASSUME NEW c \in Clients, Register(c)
  PROVE  Moves(c)
<1>1. CASE UNCHANGED <<pc, req>>
  BY <1>1 DEF Moves
<1>2. CASE Return(c) \/ \E action, subject : ThenAudit(c, action, subject)
  BY <1>2 DEF Moves, Return, ThenAudit, Labels
<1>3. CASE CreateTenant(c) \/ ApplyRetentionSettings(c) \/ (InsertInstance(c) /\ ~Return(c))
  BY <1>3 DEF CreateTenant, ApplyRetentionSettings, InsertInstance, Moves, Labels
<1>4. CASE BeginService(c) \/ ImportAccessCertificate(c)
  BY <1>4 DEF BeginService, ImportAccessCertificate, Moves, Labels
<1>5. QED
  BY <1>1, <1>2, <1>3, <1>4 DEF Register, Audit, CreateApiKey, CreateOrganisation,
     CreateRelyingParty, InsertService, CreateIntendedUse, RecordRegistrationCertificate,
     InsertInstance, CreateAccessCertificate, Fault

LEMMA PolicingMoves ==
  ASSUME NEW c \in Clients, Policing(c)
  PROVE  Moves(c)
<1>1. CASE UNCHANGED <<pc, req>>
  BY <1>1 DEF Moves
<1>2. CASE Return(c) \/ \E action, subject : ThenAudit(c, action, subject)
  BY <1>2 DEF Moves, Return, ThenAudit, Labels
<1>3. CASE InsertDraft(c) /\ ~Return(c)
  BY <1>3 DEF InsertDraft, Moves, Labels
<1>4. CASE BeginVersion(c) \/ (ListVersions(c) /\ ~Return(c)) \/ BeginPublish(c)
  <2>1. \E label \in {"list", "draft", "publish"} : \E locals : Await(c, label, locals)
    BY <1>4 DEF BeginVersion, ListVersions, BeginPublish
  <2>2. QED
    BY <2>1 DEF Moves, Labels
<1>5. CASE BeginPresentation(c) \/ (Resolve(c) /\ ~Return(c)) \/ (Compile(c) /\ ~Return(c))
           \/ WalletAnswers(c)
  <2>1. \E label \in {"resolve", "context", "wallet", "answered"} : \E locals : Await(c, label, locals)
    BY <1>5 DEF BeginPresentation, Resolve, Compile, WalletAnswers
  <2>2. QED
    BY <2>1 DEF Moves, Labels
<1>6. QED
  BY <1>1, <1>2, <1>3, <1>4, <1>5 DEF Policing, CreatePolicy, PublishVersion, Finish

LEMMA MovingRests ==
  ASSUME Typed, NEW c \in Clients, Moves(c)
  PROVE  /\ pc' \in [Clients -> Labels] /\ DOMAIN req' = Clients
         /\ \A d \in Clients \ {c} : pc'[d] = pc[d] /\ req'[d] = req[d]
BY DEF Typed, Moves, Await, Goto

(* Who takes a step, and what of the state it leaves alone. *)
LEMMA WhoActs ==
  ASSUME [Next]_vars
  PROVE  \/ \E c \in Clients : Register(c) /\ UNCHANGED <<policies, versions>>
         \/ \E c \in Clients : Policing(c) /\ UNCHANGED <<registry, engine, faults>>
         \/ \E u \in Uses : BecomesValid(u) /\ UNCHANGED <<policies, versions>>
         \/ UNCHANGED vars
<1>1. ASSUME NEW c \in Clients, Policing(c) PROVE UNCHANGED <<registry, engine, faults>>
  BY <1>1 DEF Policing, CreatePolicy, BeginVersion, ListVersions, InsertDraft, BeginPublish,
     PublishVersion, BeginPresentation, Resolve, Compile, WalletAnswers, Finish
<1>2. QED
  BY <1>1 DEF Next, Policing

(* Every step writes to the tables as it may. *)
LEMMA StepsWriteWell ==
  ASSUME Typed, UsesAreThere, \A c \in Clients : Stands(c), [Next]_vars
  PROVE  WritesWell
<1>1. ASSUME registry' \in Registries, RowsGrow, UNCHANGED policies PROVE UsesAreThere'
  <2>1. \A p \in Policies : policies[p] # None => policies[p].use \in Uses
    BY DEF Typed, PresentationPolicyRows
  <2>2. QED
    BY <1>1, <2>1 DEF RowsGrow, UsesAreThere
<1>2. ASSUME UNCHANGED <<policies, versions>>
      PROVE  /\ policies' \in [Policies -> PresentationPolicyRows]
             /\ versions' \in [Policies -> [1 .. MaxVersions -> VersionRows]]
             /\ VersionsGrow
  BY <1>2 DEF Typed, VersionsGrow, Numbers
<1>3. ASSUME UNCHANGED <<registry, engine>>
      PROVE  registry' \in Registries /\ engine' \in Engines /\ RowsGrow /\ KeysGrow
  BY <1>3 DEF Typed, RowsGrow, KeysGrow, Engines
<1>4. CASE \/ \E c \in Clients : Register(c) /\ UNCHANGED <<policies, versions>>
           \/ \E u \in Uses : BecomesValid(u) /\ UNCHANGED <<policies, versions>>
  <2>1. registry' \in Registries /\ RowsGrow /\ engine' \in Engines /\ KeysGrow
    BY <1>4, RegistryGrows, EngineGrows
  <2>2. QED
    BY <1>1, <1>2, <1>4, <2>1 DEF WritesWell, Tables, Grows
<1>5. ASSUME NEW c \in Clients, Policing(c), UNCHANGED <<registry, engine, faults>>
      PROVE  WritesWell
  <2>1. /\ policies' \in [Policies -> PresentationPolicyRows]
        /\ versions' \in [Policies -> [1 .. MaxVersions -> VersionRows]]
        /\ VersionsGrow
        /\ \A p \in Policies : policies[p] = None /\ policies'[p] # None =>
             registry.uses[policies'[p].use] # None
    BY <1>5, PoliciesGrow
  <2>2. UsesAreThere'
    BY <1>5, <2>1 DEF UsesAreThere, VersionsGrow
  <2>3. QED
    BY <1>3, <1>5, <2>1, <2>2 DEF WritesWell, Tables, Grows
<1>6. CASE UNCHANGED vars
  BY <1>1, <1>2, <1>3, <1>6 DEF vars, WritesWell, Tables, Grows
<1>7. QED
  BY <1>4, <1>5, <1>6, WhoActs

LEMMA StepsStand ==
  ASSUME Typed, UsesAreThere, \A c \in Clients : Stands(c), WritesWell, [Next]_vars
  PROVE  /\ pc' \in [Clients -> Labels] /\ DOMAIN req' = Clients
         /\ \A c \in Clients : Stands(c)'
<1>1. CASE UNCHANGED <<pc, req>>
  BY <1>1, RestsStand DEF Typed
<1>2. ASSUME NEW c \in Clients, Register(c) \/ Policing(c)
      PROVE  /\ pc' \in [Clients -> Labels] /\ DOMAIN req' = Clients
             /\ \A d \in Clients : Stands(d)'
  <2>1. Stands(c)'
    BY <1>2, RegisteringStands, PolicingStands
  <2>2. /\ pc' \in [Clients -> Labels] /\ DOMAIN req' = Clients
        /\ \A d \in Clients \ {c} : pc'[d] = pc[d] /\ req'[d] = req[d]
    BY <1>2, RegisterMoves, PolicingMoves, MovingRests
  <2>3. QED
    BY <2>1, <2>2, RestsStand
<1>3. QED
  BY <1>1, <1>2, WhoActs DEF BecomesValid, vars

-----------------------------------------------------------------------------
(* Access certificates *)

(* An access certificate that was not there is the one a request held. *)
LEMMA AccessIsTheRequests ==
  ASSUME Typed, \A c \in Clients : Stands(c), [Next]_vars,
         NEW s \in Services, NEW key \in registry'.access[s], key \notin registry.access[s]
  PROVE  \E c \in Clients : pc[c] = "access" /\ s = req[c].subject /\ key = req[c].key
<1>1. registry \in Registries
  BY DEF Typed
<1>2. ASSUME NEW c \in Clients, Register(c), ~CreateAccessCertificate(c)
      PROVE  registry'.access = registry.access
  BY <1>1, <1>2 DEF Registries, Register, Audit, CreateTenant, CreateApiKey, CreateOrganisation,
     CreateRelyingParty, BeginService, InsertService, CreateIntendedUse,
     RecordRegistrationCertificate, ImportAccessCertificate, ApplyRetentionSettings,
     InsertInstance, Fault
<1>3. ASSUME NEW c \in Clients, CreateAccessCertificate(c)
      PROVE  pc[c] = "access" /\ s = req[c].subject /\ key = req[c].key
  <2>1. /\ pc[c] = "access" /\ req[c].subject \in Services /\ req[c].key \in KeyRefs
        /\ registry' = [registry EXCEPT !.access[req[c].subject] = @ \cup {req[c].key}]
    BY <1>3 DEF CreateAccessCertificate, Stands, StandsRegistering, IsHeld
  <2>2. QED
    BY <1>1, <2>1, AccessInserted
<1>4. ASSUME NEW u \in Uses, BecomesValid(u) PROVE registry'.access = registry.access
  BY <1>1, <1>4 DEF BecomesValid, Registries
<1>5. QED
  BY <1>2, <1>3, <1>4, WhoActs DEF vars

LEMMA AccessStaysUsable ==
  ASSUME Typed, \A c \in Clients : Stands(c), AccessKeyIsUsable, WritesWell, [Next]_vars
  PROVE  AccessKeyIsUsable'
<1>. SUFFICES ASSUME NEW s \in Services, NEW key \in registry'.access[s]
              PROVE  /\ registry'.instances[s] = key.engine
                     /\ key.n <= engine'.keys[key.engine]
                     /\ key.engine \in engine'.sized
  BY DEF AccessKeyIsUsable
<1>1. IsHeld(key) /\ registry.instances[s] = key.engine /\ key.engine \in engine.sized
  <2>1. CASE key \in registry.access[s]
    BY <2>1 DEF AccessKeyIsUsable, IsHeld, Typed, Registries
  <2>2. CASE key \notin registry.access[s]
    BY <2>2, AccessIsTheRequests DEF Stands, StandsRegistering
  <2>3. QED
    BY <2>1, <2>2
<1>2. key.engine # None
  BY <1>1, SetupAssumption DEF IsHeld, KeyRefs
<1>3. registry'.instances[s] = key.engine
  BY <1>1, <1>2 DEF WritesWell, Grows, RowsGrow
<1>4. QED
  BY <1>1, <1>3, KeyStays DEF IsHeld

-----------------------------------------------------------------------------
(* The audit trail *)

LEMMA Recorded ==
  ASSUME NEW B, IsABag(B), NEW event
  PROVE  /\ IsABag(B (+) SetToBag({event}))
         /\ (B (+) SetToBag({event}))[event] = IF BagIn(event, B) THEN B[event] + 1 ELSE 1
  BY DEF IsABag, (+), SetToBag, BagIn, BagToSet

LEMMA OthersRecorded ==
  ASSUME NEW B, IsABag(B), NEW event, NEW other, other # event
  PROVE  /\ BagIn(other, B (+) SetToBag({event})) <=> BagIn(other, B)
         /\ BagIn(other, B) => (B (+) SetToBag({event}))[other] = B[other]
  BY DEF IsABag, (+), SetToBag, BagIn, BagToSet

PublicationAction == "presentation_policy_version.published"

(* What a step adds to the audit trail: nothing, what a request had left to *)
(* record, or an event that is no publication.                              *)
LEMMA WhatIsRecorded ==
  ASSUME [Next]_vars
  PROVE  \/ UNCHANGED audit
         \/ \E c \in Clients : Audit(c)
         \/ \E action, subject : Record(action, subject) /\ action # PublicationAction
<1>1. ASSUME NEW c \in Clients, Register(c), ~Audit(c)
      PROVE  \/ UNCHANGED audit
             \/ \E action, subject : Record(action, subject) /\ action # PublicationAction
  BY <1>1 DEF Register, CreateTenant, CreateApiKey, CreateOrganisation,
     CreateRelyingParty, BeginService, InsertService, CreateIntendedUse,
     RecordRegistrationCertificate, ImportAccessCertificate, ApplyRetentionSettings,
     InsertInstance, CreateAccessCertificate, Fault, PublicationAction
<1>2. ASSUME NEW c \in Clients, Policing(c)
      PROVE  \/ UNCHANGED audit
             \/ \E action, subject : Record(action, subject) /\ action # PublicationAction
  <2>1. CASE CreatePolicy(c)
    BY <2>1 DEF CreatePolicy, PublicationAction
  <2>2. CASE InsertDraft(c)
    BY <2>2 DEF InsertDraft, PublicationAction
  <2>3. CASE ~CreatePolicy(c) /\ ~InsertDraft(c)
    BY <1>2, <2>3 DEF Policing, BeginVersion, ListVersions, BeginPublish,
       PublishVersion, BeginPresentation, Resolve, Compile, WalletAnswers, Finish
  <2>4. QED
    BY <2>1, <2>2, <2>3
<1>3. QED
  BY <1>1, <1>2, WhoActs DEF BecomesValid, vars

(* Who will record a publication after a step: who would before it, or the  *)
(* request that made it.                                                    *)
LEMMA WhoWillRecord ==
  ASSUME Typed, [Next]_vars, NEW c \in Clients, NEW p \in Policies, NEW n \in 1 .. MaxVersions,
         WillRecord(c, p, n)'
  PROVE  \/ WillRecord(c, p, n) /\ ~Audit(c)
         \/ PublishVersion(c) /\ ~Return(c) /\ p = req[c].subject /\ n = req[c].n
<1>1. CASE pc'[c] = pc[c] /\ req'[c] = req[c]
  <2>1. WillRecord(c, p, n)
    BY <1>1 DEF WillRecord
  <2>2. ~Audit(c)
    BY <1>1, <2>1, Awaits DEF Audit, Return, WillRecord
  <2>3. QED
    BY <2>1, <2>2
<1>2. ASSUME NEW action, NEW subject, action # PublicationAction, ThenAudit(c, action, subject)
      PROVE  FALSE
  <2>1. req'[c] = [action |-> action, subject |-> subject]
    BY <1>2, Awaits DEF ThenAudit
  <2>2. QED
    BY <1>2, <2>1 DEF WillRecord, Publication, PublicationAction
<1>3. ASSUME NEW label, NEW locals, Await(c, label, locals), label # "audit" PROVE FALSE
  BY <1>3, Awaits DEF WillRecord
<1>4. ~Return(c)
  BY <1>3 DEF Return
<1>5. ASSUME NEW label, Goto(c, label), label # "audit" PROVE FALSE
  BY <1>5 DEF Typed, WillRecord, Goto
<1>6. ASSUME Register(c) PROVE pc' = pc /\ req' = req
  <2>1. CASE CreateApiKey(c) \/ CreateAccessCertificate(c)
    BY <1>2, <2>1 DEF CreateApiKey, CreateAccessCertificate, PublicationAction
  <2>2. CASE CreateTenant(c) \/ BeginService(c) \/ ImportAccessCertificate(c)
             \/ ApplyRetentionSettings(c) \/ InsertInstance(c)
    BY <1>3, <1>4, <1>5, <2>2 DEF CreateTenant, BeginService, ImportAccessCertificate,
       ApplyRetentionSettings, InsertInstance
  <2>3. QED
    BY <1>4, <1>6, <2>1, <2>2 DEF Register, Audit, CreateOrganisation, CreateRelyingParty,
       InsertService, CreateIntendedUse, RecordRegistrationCertificate, Fault
<1>7. ASSUME Policing(c), ~PublishVersion(c) PROVE pc' = pc /\ req' = req
  <2>1. CASE BeginVersion(c) \/ ListVersions(c) \/ BeginPublish(c)
    BY <1>3, <1>4, <2>1 DEF BeginVersion, ListVersions, BeginPublish
  <2>2. CASE BeginPresentation(c) \/ Resolve(c) \/ Compile(c) \/ WalletAnswers(c)
    BY <1>3, <1>4, <2>2 DEF BeginPresentation, Resolve, Compile, WalletAnswers
  <2>3. QED
    BY <1>4, <1>5, <1>7, <2>1, <2>2 DEF Policing, CreatePolicy, InsertDraft, Finish
<1>8. CASE PublishVersion(c)
  <2>1. ThenAudit(c, PublicationAction, <<req[c].subject, req[c].n>>)
    BY <1>4, <1>8 DEF PublishVersion, PublicationAction
  <2>2. req'[c] = [action |-> PublicationAction, subject |-> <<req[c].subject, req[c].n>>]
    BY <2>1, Awaits DEF ThenAudit
  <2>3. <<req[c].subject, req[c].n>> = <<p, n>>
    BY <2>2 DEF WillRecord, Publication
  <2>4. QED
    BY <1>4, <1>8, <2>3
<1>9. ASSUME NEW d \in Clients, d # c, Register(d) \/ Policing(d)
      PROVE  pc'[c] = pc[c] /\ req'[c] = req[c]
  BY <1>9, RegisterMoves, PolicingMoves, MovingRests
<1>10. QED
  BY <1>1, <1>6, <1>7, <1>8, <1>9, WhoActs DEF BecomesValid, vars

LEMMA PublishingPublishes ==
  ASSUME Typed, NEW c \in Clients, Stands(c), WritesWell, PublishVersion(c), ~Return(c),
         NEW p, NEW n, p = req[c].subject, n = req[c].n
  PROVE  p \in Policies /\ n \notin Published(p) /\ n \in Published(p)'
<1>2. /\ p \in Policies /\ n \in Numbers(p) /\ versions[p][n].status = "DRAFT"
      /\ versions' = [versions EXCEPT ![p][n].status = "PUBLISHED"]
  BY DEF PublishVersion, Stands, StandsDrafting
<1>3. versions[p] \in [1 .. MaxVersions -> VersionRows] /\ n \in 1 .. MaxVersions
  BY <1>2 DEF Typed, Numbers
<1>4. versions[p][n] \in [status : PolicyStatuses, body : Bodies]
  BY <1>2, <1>3 DEF VersionRows, Numbers
<1>5. versions'[p][n].status = "PUBLISHED"
  <2>1. versions'[p] = [versions[p] EXCEPT ![n] = [versions[p][n] EXCEPT !.status = "PUBLISHED"]]
    BY <1>2 DEF Typed
  <2>2. versions'[p][n] = [versions[p][n] EXCEPT !.status = "PUBLISHED"]
    BY <1>3, <2>1
  <2>3. QED
    BY <1>4, <2>2
<1>6. n \in Published(p)'
  BY <1>2, <1>5, PublishedStays DEF Published
<1>7. QED
  BY <1>2, <1>6 DEF Published

LEMMA PublishedOnceStays ==
  ASSUME Typed, \A c \in Clients : Stands(c), PublishedOnce, WritesWell, [Next]_vars
  PROVE  PublishedOnce'
<1>. SUFFICES ASSUME NEW p \in Policies, NEW n \in 1 .. MaxVersions
              PROVE  /\ BagIn(Publication(p, n), audit') =>
                          /\ audit'[Publication(p, n)] = 1 /\ n \in Published(p)'
                          /\ \A c \in Clients : ~WillRecord(c, p, n)'
                     /\ \A c \in Clients : WillRecord(c, p, n)' =>
                          /\ n \in Published(p)'
                          /\ \A d \in Clients : WillRecord(d, p, n)' => c = d
  BY DEF PublishedOnce
<1>. DEFINE event == Publication(p, n)
<1>1. /\ BagIn(event, audit) =>
           /\ audit[event] = 1 /\ n \in Published(p) /\ \A c \in Clients : ~WillRecord(c, p, n)
      /\ \A c \in Clients : WillRecord(c, p, n) =>
           /\ n \in Published(p)
           /\ \A d \in Clients : WillRecord(d, p, n) => c = d
  BY DEF PublishedOnce
<1>2. n \in Published(p) => n \in Published(p)'
  BY PublishedStays
<1>3. CASE \E c \in Clients : /\ PublishVersion(c) /\ ~Return(c)
                              /\ p = req[c].subject /\ n = req[c].n
  <2>1. PICK c \in Clients : /\ PublishVersion(c) /\ ~Return(c)
                             /\ p = req[c].subject /\ n = req[c].n
    BY <1>3
  <2>2. n \notin Published(p) /\ n \in Published(p)'
    BY <2>1, PublishingPublishes
  <2>3. ~BagIn(event, audit) /\ \A d \in Clients : ~WillRecord(d, p, n)
    BY <1>1, <2>2
  <2>4. audit' = audit
    BY <2>1 DEF PublishVersion
  <2>5. \A d \in Clients : WillRecord(d, p, n)' => PublishVersion(d) /\ ~Return(d)
    BY <2>3, WhoWillRecord
  <2>6. ASSUME NEW d \in Clients, WillRecord(d, p, n)' PROVE d = c
    <3>1. CASE d # c
      <4>1. pc'[d] = pc[d] /\ req'[d] = req[d]
        BY <2>1, <3>1, PolicingMoves, MovingRests DEF Policing
      <4>2. WillRecord(d, p, n)
        BY <2>6, <4>1 DEF WillRecord
      <4>3. QED
        BY <2>3, <4>2
    <3>2. QED
      BY <3>1
  <2>7. QED
    BY <2>2, <2>3, <2>4, <2>6
<1>4. CASE ~\E c \in Clients : /\ PublishVersion(c) /\ ~Return(c)
                               /\ p = req[c].subject /\ n = req[c].n
  <2>1. \A d \in Clients : WillRecord(d, p, n)' => WillRecord(d, p, n) /\ ~Audit(d)
    BY <1>4, WhoWillRecord
  <2>2. CASE UNCHANGED audit
    BY <1>1, <1>2, <2>1, <2>2
  <2>3. ASSUME NEW action, NEW subject, Record(action, subject), <<action, subject>> # event
        PROVE  (BagIn(event, audit') <=> BagIn(event, audit))
                 /\ (BagIn(event, audit) => audit'[event] = audit[event])
    <3>1. PICK rec : rec = <<action, subject>>
      OBVIOUS
    <3>2. IsABag(audit) /\ audit' = audit (+) SetToBag({rec})
      BY <2>3, <3>1 DEF Record, Typed
    <3>3. event # rec
      BY <2>3, <3>1
    <3>. HIDE DEF event
    <3>4. QED
      BY <3>2, <3>3, OthersRecorded
  <2>4. ASSUME NEW action, NEW subject, Record(action, subject), action # PublicationAction
        PROVE  <<action, subject>> # event
    BY <2>4 DEF Publication, PublicationAction
  <2>5. ASSUME NEW c \in Clients, Audit(c), WillRecord(c, p, n)
        PROVE  audit'[event] = 1 /\ n \in Published(p)' /\ \A d \in Clients : ~WillRecord(d, p, n)'
    <3>1. audit' = audit (+) SetToBag({event})
      BY <2>5 DEF Audit, Record, WillRecord
    <3>2. audit'[event] = 1
      BY <1>1, <2>5, <3>1, Recorded DEF Typed
    <3>3. QED
      BY <1>1, <1>2, <2>1, <2>5, <3>2
  <2>6. ASSUME NEW c \in Clients, Audit(c), ~WillRecord(c, p, n)
        PROVE  Record(req[c].action, req[c].subject) /\ <<req[c].action, req[c].subject>> # event
    BY <2>6 DEF Audit, WillRecord
  <2>7. CASE \E c \in Clients : Audit(c) /\ WillRecord(c, p, n)
    BY <2>5, <2>7
  <2>8. CASE ~\E c \in Clients : Audit(c) /\ WillRecord(c, p, n)
    <3>1. (BagIn(event, audit') <=> BagIn(event, audit))
            /\ (BagIn(event, audit) => audit'[event] = audit[event])
      BY <2>2, <2>3, <2>4, <2>6, <2>8, WhatIsRecorded
    <3>2. QED
      BY <1>1, <1>2, <2>1, <3>1
  <2>9. QED
    BY <2>7, <2>8
<1>5. QED
  BY <1>3, <1>4

-----------------------------------------------------------------------------
(* The theorems *)

LEMMA InitHolds == PoliciesInit => IInv
<1>. SUFFICES ASSUME PoliciesInit PROVE IInv
  OBVIOUS
<1>1. Typed
  <2>1. registry \in Registries
    BY DEF PoliciesInit, Init, Registries, ServiceRows
  <2>2. engine \in Engines
    BY SetupAssumption DEF PoliciesInit, Init, Engines
  <2>3. IsABag(audit)
    BY DEF PoliciesInit, Init, EmptyBag, SetToBag, IsABag
  <2>4. pc \in [Clients -> Labels] /\ DOMAIN req = Clients /\ faults \in 0 .. MaxFaults
    BY SetupAssumption DEF PoliciesInit, Init, Labels
  <2>5. /\ policies \in [Policies -> PresentationPolicyRows]
        /\ versions \in [Policies -> [1 .. MaxVersions -> VersionRows]]
    BY DEF PoliciesInit, PresentationPolicyRows, VersionRows
  <2>6. QED
    BY <2>1, <2>2, <2>3, <2>4, <2>5 DEF Typed
<1>2. UsesAreThere
  BY DEF PoliciesInit, UsesAreThere
<1>3. \A c \in Clients : pc[c] = "idle"
  BY DEF PoliciesInit, Init
<1>4. \A c \in Clients : Stands(c)
  BY <1>3 DEF Stands, StandsRegistering, StandsDrafting, StandsPresenting
<1>5. AccessKeyIsUsable
  BY DEF PoliciesInit, Init, AccessKeyIsUsable
<1>6. PublishedOnce
  <2>1. \A event : ~BagIn(event, audit)
    BY DEF PoliciesInit, Init, EmptyBag, SetToBag, BagIn, BagToSet
  <2>2. \A c \in Clients, p \in Policies, n \in 1 .. MaxVersions : ~WillRecord(c, p, n)
    BY <1>3 DEF WillRecord
  <2>3. QED
    BY <2>1, <2>2 DEF PublishedOnce
<1>7. QED
  BY <1>1, <1>2, <1>4, <1>5, <1>6 DEF IInv

LEMMA StepsKeep == IInv /\ [Next]_vars => IInv' /\ WritesWell
<1>. SUFFICES ASSUME IInv, [Next]_vars PROVE IInv' /\ WritesWell
  OBVIOUS
<1>1. /\ Typed /\ UsesAreThere /\ \A c \in Clients : Stands(c)
      /\ AccessKeyIsUsable /\ PublishedOnce
  BY DEF IInv
<1>2. WritesWell
  BY <1>1, StepsWriteWell
<1>3. /\ pc' \in [Clients -> Labels] /\ DOMAIN req' = Clients
      /\ \A c \in Clients : Stands(c)'
  BY <1>1, <1>2, StepsStand
<1>4. IsABag(audit')
  <2>1. ASSUME NEW action, NEW subject, Record(action, subject) PROVE IsABag(audit')
    <3>1. PICK rec : rec = <<action, subject>>
      OBVIOUS
    <3>2. IsABag(audit) /\ audit' = audit (+) SetToBag({rec})
      BY <1>1, <2>1, <3>1 DEF Record, Typed
    <3>3. QED
      BY <3>2, Recorded
  <2>2. QED
    BY <1>1, <2>1, WhatIsRecorded DEF Audit, Typed
<1>5. faults' \in 0 .. MaxFaults
  <2>1. ASSUME NEW c \in Clients, Fault(c) PROVE faults' \in 0 .. MaxFaults
    BY <1>1, <2>1, SetupAssumption DEF Fault, Typed
  <2>2. ASSUME NEW c \in Clients, Register(c), ~Fault(c) PROVE faults' = faults
    BY <2>2 DEF Register, Audit, CreateTenant, CreateApiKey, CreateOrganisation,
       CreateRelyingParty, BeginService, InsertService, CreateIntendedUse,
       RecordRegistrationCertificate, ImportAccessCertificate, ApplyRetentionSettings,
       InsertInstance, CreateAccessCertificate
  <2>3. QED
    BY <1>1, <2>1, <2>2, WhoActs DEF BecomesValid, vars, Typed
<1>6. Typed'
  BY <1>2, <1>3, <1>4, <1>5 DEF Typed, WritesWell, Tables
<1>7. AccessKeyIsUsable' /\ PublishedOnce'
  BY <1>1, <1>2, AccessStaysUsable, PublishedOnceStays
<1>8. QED
  BY <1>2, <1>3, <1>6, <1>7 DEF IInv, WritesWell

LEMMA Invariance == Spec => []IInv
  BY InitHolds, StepsKeep, PTL DEF Spec

(* Every row, key and counter has its type, whatever requests run in       *)
(* between and wherever they fail (schema.ts, its columns and constraints). *)
THEOREM TypeCorrect == Spec => []TypeOK
<1>1. IInv => TypeOK
  BY DEF IInv, Typed, TypeOK, Registries, Engines, Organisations
<1>2. QED
  BY <1>1, Invariance, PTL

(* Provisionings of one service that race and fail leave no access          *)
(* certificate whose key its engine tenant does not hold, or whose tenant   *)
(* keeps the default session lifetime (registration.service.ts:421, :428).  *)
THEOREM AccessKeysAreUsable == Spec => []AccessKeyIsUsable
<1>1. IInv => AccessKeyIsUsable
  BY DEF IInv
<1>2. QED
  BY <1>1, Invariance, PTL

(* What a wallet is asked for is registered, for the service that asks, and *)
(* under a version that was the default while the request ran               *)
(* (policy.service.ts:50, verification-plan.ts:117), although policy,       *)
(* version and intended use are read at different moments of the request.   *)
THEOREM RequestsAreCurrentAndCovered == Spec => []RequestIsCurrentAndCovered
<1>1. IInv => RequestIsCurrentAndCovered
  <2>1. SUFFICES ASSUME IInv, NEW c \in Clients, pc[c] \in {"wallet", "answered"}
                 PROVE  /\ IsCurrent(req[c].subject, req[c].plan, req[c].named, req[c].floor)
                        /\ IsCovered(req[c].subject, req[c].plan)
    BY DEF RequestIsCurrentAndCovered, IsCurrent, IsCovered, Published
  <2>2. QED
    BY <2>1 DEF IInv, Stands, StandsPresenting
<1>2. QED
  BY <1>1, Invariance, PTL

(* Versions settle: a published body never changes, a number is used once,  *)
(* the default never goes back, and a publication is recorded at most once  *)
(* (policy-version.ts:7, schema.ts:368, policy.service.ts:173, :219), for   *)
(* requests that draw one number or publish one draft together.             *)
THEOREM VersionsSettle == Spec => VersionsAreSettled
<1>. DEFINE Settles ==
       \A p \in Policies :
         /\ LatestPublished(p)' >= LatestPublished(p)
         /\ \A n \in Numbers(p) :
              /\ versions'[p][n] # None /\ versions'[p][n].body = versions[p][n].body
              /\ versions[p][n].status = "PUBLISHED" => versions'[p][n].status = "PUBLISHED"
              /\ LET event == <<"presentation_policy_version.published", <<p, n>>>> IN
                   BagIn(event, audit') =>
                     audit'[event] = 1 /\ versions'[p][n].status = "PUBLISHED"
<1>1. IInv /\ [Next]_vars => Settles
  <2>. SUFFICES ASSUME IInv, [Next]_vars, NEW p \in Policies
                PROVE  /\ LatestPublished(p)' >= LatestPublished(p)
                       /\ \A n \in Numbers(p) :
                            /\ versions'[p][n] # None
                            /\ versions'[p][n].body = versions[p][n].body
                            /\ versions[p][n].status = "PUBLISHED"
                                 => versions'[p][n].status = "PUBLISHED"
                            /\ BagIn(Publication(p, n), audit') =>
                                 /\ audit'[Publication(p, n)] = 1
                                 /\ versions'[p][n].status = "PUBLISHED"
    BY DEF Publication
  <2>1. Typed /\ IInv' /\ WritesWell
    BY StepsKeep DEF IInv
  <2>2. LatestPublished(p)' >= LatestPublished(p)
    BY <2>1, DefaultGrows
  <2>3. \A n \in 1 .. MaxVersions : BagIn(Publication(p, n), audit') =>
          audit'[Publication(p, n)] = 1 /\ n \in Published(p)'
    BY <2>1 DEF IInv, PublishedOnce
  <2>4. QED
    BY <2>1, <2>2, <2>3 DEF WritesWell, Grows, VersionsGrow, Published, Numbers
<1>2. IInv /\ [Next]_vars => [Settles]_vars
  BY <1>1
<1>3. QED
  BY <1>2, Invariance, PTL DEF Spec, VersionsAreSettled

-----------------------------------------------------------------------------
(* The rules that have a reference *)

(* What the leaves of a document are made of, and what leads to them.       *)
Concrete == Members \cup Indexes

Places == Members \cup Indexes \cup Values

(* A requested path that a registered one covers selects no more of any     *)
(* document (claim-path.ts:69), provided that what it names where a         *)
(* wildcard is registered is an element of the array, or all of them:       *)
(* segmentCovers does not ask for that, and lets a registered wildcard      *)
(* cover the name of a member too (claim-path.ts:55).                       *)
THEOREM CoveredClaimsSelectNoMore ==
  ASSUME NEW registered \in Seq(Segments), NEW requested \in Seq(Segments),
         NEW document \in SUBSET Seq(Places),
         ClaimPathCovers(registered, requested),
         AsksForElements(registered, requested)
  PROVE  Selected(requested, document) \subseteq Selected(registered, document)
<1>1. SUFFICES ASSUME NEW leaf \in document, Selects(requested, leaf)
               PROVE  Selects(registered, leaf)
  BY DEF Selected
<1>2. Len(registered) <= Len(leaf) /\ \A i \in DOMAIN registered : i \in DOMAIN requested
  BY <1>1 DEF ClaimPathCovers, Selects
<1>3. ASSUME NEW i \in DOMAIN registered
      PROVE  IF registered[i] = Wildcard THEN leaf[i] \in Indexes ELSE registered[i] = leaf[i]
  <2>1. IF requested[i] = Wildcard THEN leaf[i] \in Indexes ELSE requested[i] = leaf[i]
    BY <1>1, <1>2 DEF Selects
  <2>2. registered[i] = Wildcard \/ registered[i] = requested[i]
    BY DEF ClaimPathCovers, SegmentCovers
  <2>3. CASE registered[i] = Wildcard
    BY <2>1, <2>3, SegmentAssumption DEF AsksForElements
  <2>4. CASE registered[i] # Wildcard
    BY <2>1, <2>2, <2>4
  <2>5. QED
    BY <2>3, <2>4
<1>4. QED
  BY <1>2, <1>3 DEF Selects

(* The years after "b" up to "last" are "last - b".                          *)
LEMMA YearsAfter ==
  ASSUME NEW b \in Nat, NEW a \in Nat, NEW last \in Int, b <= last,
         NEW reached, reached = {y \in b + 1 .. a : y <= last}, last <= a
  PROVE  Cardinality(reached) = last - b
<1>1. PICK first \in Int : first = b + 1
  OBVIOUS
<1>2. reached = first .. last
  <2>1. ASSUME NEW y PROVE y \in reached <=> y \in first .. last
    BY <1>1
  <2>2. QED
    BY <2>1
<1>3. Cardinality(first .. last) = IF first > last THEN 0 ELSE last - first + 1
  BY FS_Interval
<1>4. QED
  BY <1>1, <1>2, <1>3

(* The age the platform derives is the number of birthdays a person had     *)
(* (result-policy.ts:163), for every date of birth that is not in the       *)
(* future.                                                                  *)
THEOREM AgeIsBirthdaysReached ==
  ASSUME NEW birth \in Dates, NEW at \in Dates, IsBorn(birth, at)
  PROVE  CompletedYears(birth, at) = Cardinality(Birthdays(birth, at))
<1>1. PICK b, a : b = birth.year /\ a = at.year /\ b \in Nat /\ a \in Nat
  BY DEF Dates
<1>2. PICK reached : reached = {y \in b + 1 .. a : PassedBy(birth, at) \/ y < a}
  OBVIOUS
<1>3. PICK last \in Int : last = IF PassedBy(birth, at) THEN a ELSE a - 1
  BY <1>1
<1>4. CompletedYears(birth, at) = last - b
  BY <1>1, <1>3 DEF CompletedYears, PassedBy, Dates
<1>5. b <= last /\ last <= a
  BY <1>1, <1>3 DEF IsBorn
<1>6. reached = {y \in b + 1 .. a : y <= last}
  <2>1. ASSUME NEW y \in b + 1 .. a PROVE (PassedBy(birth, at) \/ y < a) <=> y <= last
    BY <1>1, <1>3
  <2>2. QED
    BY <1>2, <2>1
<1>7. Cardinality(reached) = last - b
  BY <1>1, <1>5, <1>6, YearsAfter
<1>8. QED
  BY <1>1, <1>2, <1>4, <1>7 DEF Birthdays

(* Who is not born has no age, whatever the minimum. *)
LEMMA AgeReached ==
  ASSUME NEW birth \in Dates, NEW at \in Dates, NEW minimum \in Nat
  PROVE  CompletedYears(birth, at) >= minimum
           <=> IsBorn(birth, at) /\ Cardinality(Birthdays(birth, at)) >= minimum
<1>1. CASE IsBorn(birth, at)
  BY <1>1, AgeIsBirthdaysReached
<1>2. CASE ~IsBorn(birth, at)
  <2>1. CompletedYears(birth, at) < 0
    BY <1>2 DEF IsBorn, PassedBy, CompletedYears, Dates
  <2>2. CompletedYears(birth, at) \in Int
    BY DEF CompletedYears, Dates
  <2>3. QED
    BY <1>2, <2>1, <2>2
<1>3. QED
  BY <1>1, <1>2

-----------------------------------------------------------------------------
(* What is released of an attestation *)

LEMMA SequenceOver ==
  ASSUME NEW S, NEW T, NEW s \in Seq(S), \A i \in 1 .. Len(s) : s[i] \in T
  PROVE  s \in Seq(T)
<1>1. s = [i \in 1 .. Len(s) |-> s[i]]
  OBVIOUS
<1>2. [i \in 1 .. Len(s) |-> s[i]] \in Seq(T)
  OBVIOUS
<1>3. QED
  BY <1>1, <1>2

(* A set of numbers from 1 to n that is not empty has a least. *)
LEMMA LeastExists ==
  ASSUME NEW S, NEW n \in Nat, S \subseteq 1 .. n, S # {}
  PROVE  \E m \in S : \A k \in S : m <= k
<1>. DEFINE R == OpToRel(<, Nat)
<1>1. S \subseteq Nat
  OBVIOUS
<1>2. PICK x \in S : \A y \in S : ~(<<y, x>> \in R)
  BY <1>1, WFMin, NatLessThanWellFounded
<1>3. \A k \in S : ~(k < x)
  BY <1>1, <1>2 DEF OpToRel
<1>4. QED
  BY <1>1, <1>3

(* The leading segments end at the first that is not one of them. *)
LEMMA LeadingCuts ==
  ASSUME NEW T, NEW path \in Seq(T), NEW segments
  PROVE  \E k \in 0 .. Len(path) :
           /\ Leading(path, segments) = SubSeq(path, 1, k)
           /\ \A i \in 1 .. k : path[i] \in segments
           /\ k < Len(path) => path[k + 1] \notin segments
<1>1. PICK others : others = {i \in DOMAIN path : path[i] \notin segments}
  OBVIOUS
<1>2. Leading(path, segments) =
        IF others = {} THEN path
        ELSE SubSeq(path, 1, (CHOOSE i \in others : \A j \in others : i <= j) - 1)
  BY <1>1 DEF Leading
<1>3. PICK n \in Nat : n = Len(path) /\ DOMAIN path = 1 .. n
  OBVIOUS
<1>4. CASE others = {}
  <2>1. Leading(path, segments) = SubSeq(path, 1, n)
    BY <1>2, <1>3, <1>4
  <2>2. \A i \in 1 .. n : path[i] \in segments
    BY <1>1, <1>3, <1>4
  <2>3. n \in 0 .. n /\ ~(n < n)
    OBVIOUS
  <2>4. QED
    BY <1>3, <2>1, <2>2, <2>3
<1>5. CASE others # {}
  <2>1. others \subseteq 1 .. n
    BY <1>1, <1>3
  <2>2. \E i \in others : \A j \in others : i <= j
    BY <1>5, <2>1, LeastExists
  <2>3. PICK least : least = CHOOSE i \in others : \A j \in others : i <= j
    OBVIOUS
  <2>4. least \in others /\ \A j \in others : least <= j
    BY <2>2, <2>3
  <2>5. PICK k \in 0 .. n : k = least - 1 /\ least = k + 1
    BY <2>1, <2>4
  <2>6. Leading(path, segments) = SubSeq(path, 1, k)
    BY <1>2, <1>5, <2>3, <2>5
  <2>7. \A i \in 1 .. k : path[i] \in segments
    <3>1. ASSUME NEW i \in 1 .. k, path[i] \notin segments PROVE FALSE
      <4>1. i \in others
        BY <1>1, <1>3, <3>1
      <4>2. QED
        BY <2>4, <2>5, <3>1, <4>1
    <3>2. QED
      BY <3>1
  <2>8. path[k + 1] \notin segments
    BY <1>1, <2>4, <2>5
  <2>9. QED
    BY <1>3, <2>6, <2>7, <2>8
<1>6. QED
  BY <1>4, <1>5

(* A leaf below an address is the address and the rest. *)
LEMMA PrefixCuts ==
  ASSUME NEW T, NEW address \in Seq(T), NEW leaf \in Seq(T), IsPrefix(address, leaf)
  PROVE  LET rest == SubSeq(leaf, Len(address) + 1, Len(leaf))
         IN rest \in Seq(T) /\ leaf = address \o rest /\ Len(rest) = Len(leaf) - Len(address)
<1>. DEFINE rest == SubSeq(leaf, Len(address) + 1, Len(leaf))
<1>1. Len(address) <= Len(leaf) /\ SubSeq(address, 1, Len(address)) = SubSeq(leaf, 1, Len(address))
  BY DEF IsPrefix
<1>2. address = SubSeq(leaf, 1, Len(address))
  BY <1>1
<1>3. rest \in Seq(T) /\ Len(rest) = Len(leaf) - Len(address)
  BY <1>1
<1>4. \A i \in 1 .. Len(address) : address[i] = leaf[i]
  BY <1>1, <1>2
<1>5. \A i \in 1 .. Len(rest) : rest[i] = leaf[Len(address) + i]
  BY <1>1
<1>6. leaf = address \o rest
  BY <1>1, <1>3, <1>4, <1>5
<1>7. QED
  BY <1>3, <1>6

(* What begins with the segments of an address is below it. *)
LEMMA PrefixHolds ==
  ASSUME NEW T, NEW address \in Seq(T), NEW leaf \in Seq(T), Len(address) <= Len(leaf),
         \A i \in 1 .. Len(address) : address[i] = leaf[i]
  PROVE  IsPrefix(address, leaf)
<1>1. SubSeq(address, 1, Len(address)) = address
  OBVIOUS
<1>2. SubSeq(leaf, 1, Len(address)) = address
  OBVIOUS
<1>3. QED
  BY <1>1, <1>2 DEF IsPrefix

LEMMA BelowIsThere ==
  ASSUME NEW T, NEW document \in SUBSET Seq(T), NEW address \in Seq(T), NEW rest \in Below(document, address)
  PROVE  rest \in Seq(T) /\ address \o rest \in document
<1>1. PICK leaf \in document : /\ IsPrefix(address, leaf)
                               /\ rest = SubSeq(leaf, Len(address) + 1, Len(leaf))
  BY DEF Below
<1>2. leaf \in Seq(T)
  OBVIOUS
<1>3. QED
  BY <1>1, <1>2, PrefixCuts

LEMMA BelowIsFound ==
  ASSUME NEW T, NEW document \in SUBSET Seq(T), NEW address \in Seq(T), NEW leaf \in document,
         Len(address) <= Len(leaf), \A i \in 1 .. Len(address) : address[i] = leaf[i]
  PROVE  SubSeq(leaf, Len(address) + 1, Len(leaf)) \in Below(document, address)
<1>1. leaf \in Seq(T)
  OBVIOUS
<1>2. IsPrefix(address, leaf)
  BY <1>1, PrefixHolds
<1>3. QED
  BY <1>2 DEF Below

(* A path is followed up to its first wildcard. *)
LEMMA AddressLeads ==
  ASSUME NEW path \in Seq(Segments)
  PROVE  \E k \in 0 .. Len(path) :
           /\ Address(path) = SubSeq(path, 1, k)
           /\ \A i \in 1 .. k : path[i] \in Concrete
           /\ k < Len(path) => path[k + 1] = Wildcard
           /\ Wildcard \in Range(path) => k < Len(path)
<1>1. PICK k \in 0 .. Len(path) :
        /\ Leading(path, Concrete) = SubSeq(path, 1, k)
        /\ \A i \in 1 .. k : path[i] \in Concrete
        /\ k < Len(path) => path[k + 1] \notin Concrete
  BY LeadingCuts, Zenon
<1>2. Address(path) = SubSeq(path, 1, k)
  BY <1>1 DEF Address, Concrete
<1>3. ASSUME Wildcard \in Range(path) PROVE k < Len(path)
  <2>1. PICK i \in 1 .. Len(path) : path[i] = Wildcard
    BY <1>3 DEF Range
  <2>2. Wildcard \notin Concrete
    BY SegmentAssumption DEF Concrete
  <2>3. ~(i <= k)
    BY <1>1, <2>1, <2>2
  <2>4. QED
    BY <2>1, <2>3
<1>4. ASSUME k < Len(path) PROVE path[k + 1] = Wildcard
  <2>1. path[k + 1] \in Segments \ Concrete
    BY <1>1, <1>4
  <2>2. QED
    BY <2>1 DEF Segments, Concrete
<1>5. QED
  BY <1>1, <1>2, <1>3, <1>4

LEMMA AddressFollows ==
  ASSUME NEW path \in Seq(Segments)
  PROVE  /\ Address(path) \in Seq(Places) /\ Len(Address(path)) <= Len(path)
         /\ \A i \in 1 .. Len(Address(path)) : Address(path)[i] = path[i] /\ path[i] \in Concrete
         /\ Len(Address(path)) < Len(path) => path[Len(Address(path)) + 1] = Wildcard
         /\ Wildcard \in Range(path) => Len(Address(path)) < Len(path)
<1>1. PICK k \in 0 .. Len(path) :
        /\ Address(path) = SubSeq(path, 1, k)
        /\ \A i \in 1 .. k : path[i] \in Concrete
        /\ k < Len(path) => path[k + 1] = Wildcard
        /\ Wildcard \in Range(path) => k < Len(path)
  BY AddressLeads
<1>2. SubSeq(path, 1, k) = [i \in 1 .. k |-> path[i]]
  OBVIOUS
<1>3. [i \in 1 .. k |-> path[i]] \in Seq(Places)
  BY <1>1 DEF Concrete, Places
<1>4. QED
  BY <1>1, <1>2, <1>3

(* What is read of a document that has lost what came under a name of the   *)
(* envelope: all that was disclosed there, or nothing.                      *)
LEMMA ReadIsGiven ==
  ASSUME NEW disclosed \in SUBSET Seq(Places), NEW path \in Seq(Segments),
         NEW n \in Nat \ {0}, n <= Len(path), \A i \in 1 .. n : path[i] # Wildcard,
         NEW leaf \in disclosed, Selects(path, leaf),
         NEW shape, shape = {l \in disclosed : l[n] \notin Envelope}
  PROVE  /\ Given(path, disclosed) # {}
         /\ ReadClaimAtPath(shape, path) = IF path[n] \notin Envelope THEN Given(path, disclosed) ELSE {}
<1>1. PICK address, k : /\ address = Address(path) /\ k = Len(address)
                        /\ address \in Seq(Places) /\ k \in Nat /\ k <= Len(path)
                        /\ \A i \in 1 .. k : address[i] = path[i] /\ path[i] \in Concrete
                        /\ k < Len(path) => path[k + 1] = Wildcard
                        /\ Wildcard \in Range(path) => k < Len(path)
  BY AddressFollows
<1>2. n <= k
  BY <1>1
<1>3. leaf \in Seq(Places) /\ Len(path) <= Len(leaf)
  BY DEF Selects
<1>4. \A i \in 1 .. k : address[i] = leaf[i]
  <2>1. Wildcard \notin Concrete
    BY SegmentAssumption DEF Concrete
  <2>2. QED
    BY <1>1, <2>1 DEF Selects
<1>5. PICK rest : rest = SubSeq(leaf, k + 1, Len(leaf))
  OBVIOUS
<1>6. rest \in Below(disclosed, address)
  <2>1. Len(address) <= Len(leaf) /\ \A i \in 1 .. Len(address) : address[i] = leaf[i]
    BY <1>1, <1>3, <1>4
  <2>2. QED
    BY <1>1, <1>5, <2>1, BelowIsFound
<1>7. ASSUME NEW l \in disclosed, IsPrefix(address, l) PROVE l[n] = path[n]
  <2>. DEFINE more == SubSeq(l, Len(address) + 1, Len(l))
  <2>1. l \in Seq(Places)
    OBVIOUS
  <2>2. more \in Seq(Places) /\ l = address \o more
    BY <1>1, <1>7, <2>1, PrefixCuts
  <2>3. l[n] = address[n]
    BY <1>1, <1>2, <2>2
  <2>4. QED
    BY <1>1, <1>2, <2>3
<1>8. CASE path[n] \notin Envelope
  <2>1. Below(shape, address) = Below(disclosed, address)
    BY <1>7, <1>8 DEF Below
  <2>2. ASSUME Wildcard \in Range(path) PROVE IsArray(Below(shape, address))
    <3>1. k < Len(path) /\ path[k + 1] = Wildcard
      BY <1>1, <2>2
    <3>2. leaf[k + 1] \in Indexes
      BY <1>1, <3>1 DEF Selects
    <3>3. rest # <<>> /\ Head(rest) = leaf[k + 1]
      <4>1. k + 1 \in 1 .. Len(leaf)
        BY <1>1, <1>3, <3>1
      <4>2. rest \in Seq(Places) /\ Len(rest) = Len(leaf) - k
        BY <1>1, <1>3, <1>5, <4>1
      <4>3. rest[1] = leaf[k + 1]
        BY <1>1, <1>3, <1>5, <4>1
      <4>4. Len(rest) >= 1
        BY <1>1, <1>3, <4>1, <4>2
      <4>5. QED
        BY <4>2, <4>3, <4>4
    <3>4. QED
      BY <1>6, <2>1, <3>2, <3>3 DEF IsArray
  <2>3. ReadClaimAtPath(shape, path) = Below(shape, address)
    BY <1>1, <2>2 DEF ReadClaimAtPath
  <2>4. QED
    BY <1>1, <1>6, <1>8, <2>1, <2>3 DEF Given
<1>9. CASE path[n] \in Envelope
  <2>1. Below(shape, address) = {}
    BY <1>7, <1>9 DEF Below
  <2>2. ReadClaimAtPath(shape, path) = {}
    BY <1>1, <2>1 DEF ReadClaimAtPath
  <2>3. QED
    BY <1>1, <1>6, <1>9, <2>2 DEF Given
<1>10. QED
  BY <1>8, <1>9

(* What is released at an allowed path, put back where it was. *)
LEMMA ReleasedIsShown ==
  ASSUME NEW disclosed \in SUBSET Seq(Places), NEW path \in Seq(Segments), path # <<>>,
         Len(path) > 1 \/ Head(path) \notin UniqueElements, NEW leaf
  PROVE  (\E rest \in StripUniqueElements(Given(path, disclosed)) : leaf = Address(path) \o rest)
           <=> leaf \in disclosed /\ Shows(path, leaf)
<1>1. PICK address, k : /\ address = Address(path) /\ k = Len(address)
                        /\ address \in Seq(Places) /\ k \in Nat
  BY AddressFollows
<1>2. Len(path) = 1 => path[1] \notin UniqueElements
  OBVIOUS
<1>3. ASSUME NEW rest \in StripUniqueElements(Given(path, disclosed)), leaf = address \o rest
      PROVE  leaf \in disclosed /\ Shows(path, leaf)
  <2>1. /\ rest \in Below(disclosed, address) /\ Len(rest) <= StripDepth
        /\ \A i \in DOMAIN rest : rest[i] \notin UniqueElements
    BY <1>1 DEF StripUniqueElements, Given
  <2>2. rest \in Seq(Places) /\ leaf \in disclosed
    BY <1>1, <1>3, <2>1, BelowIsThere
  <2>3. leaf \in Seq(Places) /\ Len(leaf) = k + Len(rest) /\ \A i \in 1 .. k : address[i] = leaf[i]
    BY <1>1, <1>3, <2>2
  <2>4. IsPrefix(address, leaf)
    BY <1>1, <2>2, <2>3, PrefixHolds
  <2>5. Len(leaf) <= k + StripDepth
    BY <1>1, <2>1, <2>2, <2>3 DEF StripDepth
  <2>6. ASSUME NEW i \in k + 1 .. Len(leaf) PROVE leaf[i] \notin UniqueElements
    <3>1. i - k \in DOMAIN rest /\ leaf[i] = rest[i - k]
      BY <1>1, <1>3, <2>2, <2>3
    <3>2. QED
      BY <2>1, <3>1
  <2>7. QED
    BY <1>1, <1>2, <2>2, <2>4, <2>5, <2>6 DEF Shows
<1>4. ASSUME leaf \in disclosed, Shows(path, leaf)
      PROVE  \E rest \in StripUniqueElements(Given(path, disclosed)) : leaf = address \o rest
  <2>1. leaf \in Seq(Places) /\ IsPrefix(address, leaf)
    BY <1>1, <1>4 DEF Shows
  <2>2. PICK rest : rest = SubSeq(leaf, k + 1, Len(leaf))
    OBVIOUS
  <2>3. rest \in Seq(Places) /\ leaf = address \o rest /\ Len(rest) = Len(leaf) - k
    BY <1>1, <2>1, <2>2, PrefixCuts
  <2>4. rest \in Given(path, disclosed)
    BY <1>1, <1>4, <2>1, <2>2 DEF Given, Below
  <2>5. Len(rest) <= StripDepth
    BY <1>1, <1>4, <2>1, <2>3 DEF Shows, StripDepth
  <2>6. ASSUME NEW i \in DOMAIN rest PROVE rest[i] \notin UniqueElements
    <3>1. k + i \in k + 1 .. Len(leaf) /\ rest[i] = leaf[k + i]
      BY <1>1, <2>1, <2>3
    <3>2. QED
      BY <1>1, <1>4, <3>1 DEF Shows
  <2>7. QED
    BY <2>3, <2>4, <2>5, <2>6 DEF StripUniqueElements
<1>5. QED
  BY <1>1, <1>3, <1>4

LEMMA SameTruth == \A a, b : a \in BOOLEAN /\ b \in BOOLEAN /\ (a <=> b) => a = b
BY Zenon

(* What is derived of what is read: one answer, or none. *)
LEMMA DerivedIsHeld ==
  ASSUME NEW d, d.name \in {"AgeAtLeast", "ClaimPresence", "ClaimInSet"},
         d.name = "AgeAtLeast" => d.minimum \in Nat,
         NEW document, NEW value, value = ReadClaimAtPath(document, d.source), value # {}
  PROVE  Derive(d, document, Today) = IF IsTelling(d, value) THEN {Holds(d, value)} ELSE {}
<1>. DEFINE Reached(v) == CompletedYears(DateOf[v], Today) >= d.minimum
            Had(v) == /\ IsBorn(DateOf[v], Today)
                      /\ Cardinality(Birthdays(DateOf[v], Today)) >= d.minimum
<1>1. Derive(d, document, Today) =
        IF \E v \in Empty : value = {<<v>>} THEN {} ELSE
        CASE d.name = "AgeAtLeast" -> {Reached(v) : v \in Dated(value)}
          [] d.name = "ClaimPresence" -> {TRUE}
          [] d.name = "ClaimInSet" -> {(value \in d.allowed)}
  BY Zenon DEF Derive, Dated
<1>2. CASE \E v \in Empty : value = {<<v>>}
  BY <1>1, <1>2, Zenon DEF IsTelling
<1>3. CASE ~\E v \in Empty : value = {<<v>>}
  <2>1. CASE d.name = "AgeAtLeast"
    <3>1. Derive(d, document, Today) = {Reached(v) : v \in Dated(value)}
      BY <1>1, <1>3, <2>1, Zenon
    <3>2. IsTelling(d, value) <=> Dated(value) # {}
      BY <1>3, <2>1, Zenon DEF IsTelling
    <3>3. Holds(d, value) <=> \E v \in Dated(value) : Had(v)
      BY <2>1, Zenon DEF Holds
    <3>4. CASE Dated(value) = {}
      BY <3>1, <3>2, <3>4, Zenon
    <3>5. CASE Dated(value) # {}
      <4>1. PICK w \in Dated(value) : TRUE
        BY <3>5
      <4>2. \A v \in Dated(value) : v = w
        <5>1. ASSUME NEW v \in Dated(value) PROVE v = w
          <6>1. <<v>> = <<w>>
            BY <4>1 DEF Dated
          <6>2. QED
            BY <6>1
        <5>2. QED
          BY <5>1
      <4>3. Reached(w) <=> Had(w)
        <5>1. DateOf[w] \in Dates /\ Today \in Dates
          BY <4>1, RulesAssumption, ExamplesAssumption DEF Dated
        <5>2. QED
          BY <2>1, <5>1, AgeReached
      <4>4. Holds(d, value) <=> Had(w)
        BY <3>3, <4>1, <4>2, Zenon
      <4>5. {Reached(v) : v \in Dated(value)} = {Reached(w)}
        BY <4>1, <4>2, Zenon
      <4>6. Reached(w) = Holds(d, value)
        <5>1. Holds(d, value) \in BOOLEAN
          BY SMT DEF Holds
        <5>2. Reached(w) \in BOOLEAN
          BY SMT
        <5>3. QED
          BY <4>3, <4>4, <5>1, <5>2, SameTruth, SMT
      <4>7. QED
        BY <3>1, <3>2, <3>5, <4>5, <4>6, Zenon
    <3>6. QED
      BY <3>4, <3>5
  <2>2. CASE d.name = "ClaimPresence"
    <3>1. Derive(d, document, Today) = {TRUE}
      BY <1>1, <1>3, <2>2, Zenon
    <3>2. IsTelling(d, value) /\ Holds(d, value) = TRUE
      BY <1>3, <2>2, Zenon DEF IsTelling, Holds
    <3>3. QED
      BY <3>1, <3>2, Zenon
  <2>3. CASE d.name = "ClaimInSet"
    <3>1. Derive(d, document, Today) = {(value \in d.allowed)}
      BY <1>1, <1>3, <2>3, Zenon
    <3>2. IsTelling(d, value) /\ (Holds(d, value) <=> value \in d.allowed)
      BY <1>3, <2>3, Zenon DEF IsTelling, Holds
    <3>3. Holds(d, value) \in BOOLEAN
      BY SMT DEF Holds
    <3>4. (value \in d.allowed) \in BOOLEAN
      BY SMT
    <3>5. Holds(d, value) = (value \in d.allowed)
      BY <3>2, <3>3, <3>4, SameTruth, SMT
    <3>6. ASSUME NEW answer PROVE answer \in Derive(d, document, Today) <=> answer = Holds(d, value)
      <4>1. answer \in {(value \in d.allowed)} <=> answer = (value \in d.allowed)
        BY SMT
      <4>2. answer \in Derive(d, document, Today) <=> answer = (value \in d.allowed)
        BY <3>1, <4>1, Zenon
      <4>3. answer = (value \in d.allowed) <=> answer = Holds(d, value)
        BY <3>5, SMT
      <4>4. QED
        BY <4>2, <4>3, Zenon
    <3>7. Derive(d, document, Today) = {Holds(d, value)}
      BY <3>6, Zenon
    <3>8. QED
      BY <3>2, <3>7, Zenon
  <2>4. QED
    BY <2>1, <2>2, <2>3
<1>4. QED
  BY <1>2, <1>3

(* Nothing is derived of nothing. *)
LEMMA NothingIsDerived ==
  ASSUME NEW d, NEW document, ReadClaimAtPath(document, d.source) = {}
  PROVE  Derive(d, document, Today) = {}
BY Zenon DEF Derive

(* An SD-JWT comes back in the shape it was disclosed in, and stays in it: *)
(* a claim of several segments is found in its place, or nothing at the top *)
(* is named like it.                                                        *)
LEMMA ShapeIsKept ==
  ASSUME NEW document \in SUBSET Seq(Places), NEW claims \in SUBSET Seq(Segments),
         \A path \in claims : \/ Len(path) = 1
                              \/ Range(path) \subseteq Members /\ Selected(path, document) # {}
                              \/ \A leaf \in document : Head(leaf) # Last(path)
  PROVE  RestoreRequestedShape(document, claims) = document
<1>. DEFINE heads == {Head(leaf) : leaf \in document}
            found(path) == Range(path) \subseteq Members /\ Below(document, path) # {}
            moved == {path \in claims : /\ Len(path) > 1
                                        /\ Last(path) \in Members \cap heads
                                        /\ ~found(path)}
<1>1. ASSUME NEW path \in moved PROVE FALSE
  <2>1. path \in claims /\ path \in Seq(Segments) /\ Last(path) \in heads /\ ~found(path) /\ Len(path) > 1
    OBVIOUS
  <2>2. PICK l \in document : Last(path) = Head(l)
    BY <2>1
  <2>3. Range(path) \subseteq Members /\ Selected(path, document) # {}
    <3>1. PICK n \in Nat : n = Len(path)
      BY <2>1
    <3>2. n # 1
      BY <2>1, <3>1
    <3>3. QED
      BY <2>1, <2>2, <3>1, <3>2, Zenon
  <2>4. PICK leaf \in document : Selects(path, leaf)
    BY <2>3 DEF Selected
  <2>5. \A i \in 1 .. Len(path) : path[i] = leaf[i]
    <3>1. ASSUME NEW i \in 1 .. Len(path) PROVE path[i] = leaf[i]
      <4>1. path[i] \in Members
        BY <2>1, <2>3 DEF Range
      <4>2. path[i] # Wildcard
        BY <4>1, SegmentAssumption
      <4>3. QED
        BY <2>1, <2>4, <4>2 DEF Selects
    <3>2. QED
      BY <3>1
  <2>6. path \in Seq(Places)
    <3>1. \A i \in 1 .. Len(path) : path[i] \in Places
      BY <2>1, <2>3 DEF Range, Places
    <3>2. QED
      BY <2>1, <3>1, SequenceOver
  <2>7. Len(path) <= Len(leaf)
    BY <2>4 DEF Selects
  <2>8. Below(document, path) # {}
    BY <2>5, <2>6, <2>7, BelowIsFound
  <2>9. QED
    BY <2>1, <2>3, <2>8
<1>2. moved = {}
  BY <1>1
<1>3. QED
  BY <1>2 DEF RestoreRequestedShape

LEMMA TwoSegments ==
  ASSUME NEW S, NEW s \in Seq(S), Len(s) = 2
  PROVE  s[1] \in S /\ s[2] \in S /\ s = <<s[1], s[2]>> /\ Last(s) = s[2] /\ Front(s) = <<s[1]>>
<1>1. s[1] \in S /\ s[2] \in S
  BY ElementOfSeq
<1>2. PICK a \in S, b \in S : a = s[1] /\ b = s[2]
  BY <1>1
<1>3. <<a, b>> \in Seq(S) /\ Len(<<a, b>>) = 2 /\ <<a, b>>[1] = a /\ <<a, b>>[2] = b
  OBVIOUS
<1>4. \A i \in 1 .. 2 : s[i] = <<a, b>>[i]
  BY <1>2, <1>3
<1>5. s = <<a, b>>
  BY <1>3, <1>4
<1>6. SubSeq(s, 1, 1) = <<a>>
  <2>1. PICK t : t = SubSeq(s, 1, 1)
    OBVIOUS
  <2>2. t \in Seq(S) /\ Len(t) = 1 /\ t[1] = a
    BY <1>2, <2>1, SubSeqProperties
  <2>3. t = [i \in 1 .. 1 |-> t[i]] /\ <<a>> = [i \in 1 .. 1 |-> a]
    BY <2>2
  <2>4. t = <<a>>
    BY <2>2, <2>3
  <2>5. QED
    BY <2>1, <2>4
<1>7. QED
  BY <1>1, <1>2, <1>5, <1>6 DEF Last, Front

LEMMA WithoutTheFirst ==
  ASSUME NEW S, NEW s \in Seq(S), Len(s) >= 2
  PROVE  /\ Tail(s) \in Seq(S) /\ Len(Tail(s)) = Len(s) - 1
         /\ Tail(s) # <<>> /\ Head(Tail(s)) = s[2] /\ Tail(s)[1] = s[2]
<1>1. s # <<>>
  OBVIOUS
<1>2. /\ Tail(s) \in Seq(S) /\ Len(Tail(s)) = Len(s) - 1
      /\ \A i \in 1 .. Len(Tail(s)) : Tail(s)[i] = s[i + 1]
  BY <1>1, HeadTailProperties
<1>3. PICK t : t = Tail(s)
  OBVIOUS
<1>4. /\ t \in Seq(S) /\ Len(t) = Len(s) - 1
      /\ \A i \in 1 .. Len(t) : t[i] = s[i + 1]
  BY <1>2, <1>3, Zenon
<1>5. Len(t) >= 1 /\ t # <<>>
  BY <1>4, EmptySeq
<1>6. t[1] = s[2] /\ Head(t) = t[1]
  BY <1>4, <1>5
<1>7. QED
  BY <1>3, <1>4, <1>5, <1>6, Zenon

(* The elements of an mdoc are put back into their namespaces. *)
LEMMA ShapeIsRestored ==
  ASSUME NEW disclosed \in SUBSET Seq(Places), NEW claims \in SUBSET Seq(Segments),
         NamesElements(claims),
         \A leaf \in disclosed : \E path \in claims : Selects(path, leaf)
  PROVE  RestoreRequestedShape({Tail(leaf) : leaf \in disclosed}, claims) = disclosed
<1>1. PICK flat : flat = {Tail(leaf) : leaf \in disclosed}
  OBVIOUS
<1>. DEFINE heads == {Head(leaf) : leaf \in flat}
            found(path) == Range(path) \subseteq Members /\ Below(flat, path) # {}
            moved == {path \in claims : /\ Len(path) > 1
                                        /\ Last(path) \in Members \cap heads
                                        /\ ~found(path)}
            kept == {leaf \in flat : Head(leaf) \notin {Last(path) : path \in moved}}
            nested(path) == {Append(Leading(Front(path), Members), Last(path)) \o rest :
                               rest \in Below(flat, <<Last(path)>>)}
<1>2. ASSUME NEW path \in claims
      PROVE  /\ path \in Seq(Members) /\ Len(path) = 2 /\ path[1] \in Members /\ path[2] \in Members
             /\ path = <<path[1], path[2]>> /\ Last(path) = path[2]
             /\ Append(Leading(Front(path), Members), Last(path)) = path
  <2>1. path \in Seq(Members) /\ Len(path) = 2
    BY DEF NamesElements
  <2>2. path[1] \in Members /\ path[2] \in Members /\ path = <<path[1], path[2]>> /\ Last(path) = path[2]
    BY <2>1, TwoSegments
  <2>3. Front(path) \in Seq(Members) /\ Front(path) = <<path[1]>>
    BY <2>1, <2>2, TwoSegments
  <2>4. {i \in DOMAIN Front(path) : Front(path)[i] \notin Members} = {}
    BY <2>3
  <2>5. Leading(Front(path), Members) = Front(path)
    BY <2>4, Zenon DEF Leading
  <2>6. Append(Front(path), Last(path)) = path
    BY <2>2, <2>3
  <2>7. QED
    BY <2>1, <2>2, <2>5, <2>6
<1>3. ASSUME NEW path \in claims, NEW leaf \in disclosed, Selects(path, leaf)
      PROVE  leaf \in Seq(Places) /\ Len(leaf) >= 2 /\ leaf[1] = path[1] /\ leaf[2] = path[2]
  <2>1. leaf \in Seq(Places) /\ Len(leaf) >= 2
    BY <1>2, <1>3 DEF Selects
  <2>2. path[1] # Wildcard /\ path[2] # Wildcard
    BY <1>2, SegmentAssumption
  <2>3. 1 \in DOMAIN path /\ 2 \in DOMAIN path
    BY <1>2
  <2>4. QED
    BY <1>3, <2>1, <2>2, <2>3 DEF Selects
<1>4. ASSUME NEW leaf \in disclosed
      PROVE  /\ leaf \in Seq(Places) /\ Len(leaf) >= 2
             /\ Tail(leaf) \in Seq(Places) /\ Tail(leaf) # <<>> /\ Head(Tail(leaf)) = leaf[2]
             /\ Tail(leaf)[1] = leaf[2]
  <2>1. leaf \in Seq(Places) /\ Len(leaf) >= 2
    BY <1>3
  <2>2. QED
    BY <2>1, WithoutTheFirst
<1>5. ASSUME NEW path \in claims, NEW leaf \in disclosed, Selects(path, leaf)
      PROVE  path[2] \in heads
  <2>1. Tail(leaf) \in flat /\ Head(Tail(leaf)) = path[2]
    BY <1>1, <1>3, <1>4, <1>5
  <2>2. QED
    BY <2>1
<1>6. flat \in SUBSET Seq(Places)
  BY <1>1, <1>4
<1>7. ASSUME NEW path \in claims, Below(flat, path) # {} PROVE FALSE
  <2>1. PICK rest : rest \in Below(flat, path)
    BY <1>7
  <2>2. path \in Seq(Places)
    <3>1. \A i \in 1 .. Len(path) : path[i] \in Places
      BY <1>2 DEF Places
    <3>2. QED
      BY <1>2, <3>1, SequenceOver
  <2>3. rest \in Seq(Places) /\ path \o rest \in flat
    BY <1>6, <2>1, <2>2, BelowIsThere
  <2>4. PICK leaf \in disclosed : path \o rest = Tail(leaf)
    BY <1>1, <2>3
  <2>5. (path \o rest)[1] = path[1]
    BY <1>2, <2>3
  <2>6. leaf[2] = path[1]
    BY <1>4, <2>4, <2>5
  <2>7. PICK q \in claims : Selects(q, leaf)
    OBVIOUS
  <2>8. q[2] = path[1]
    BY <1>3, <2>6, <2>7
  <2>9. QED
    BY <2>8 DEF NamesElements
<1>8. moved \subseteq claims
      /\ \A path \in claims : \A leaf \in disclosed : Selects(path, leaf) => path \in moved
  BY <1>2, <1>5, <1>7
<1>9. kept = {}
  <2>1. ASSUME NEW l \in flat PROVE Head(l) \in {Last(path) : path \in moved}
    <3>1. PICK leaf \in disclosed : l = Tail(leaf)
      BY <1>1
    <3>2. PICK q \in claims : Selects(q, leaf)
      OBVIOUS
    <3>3. Head(l) = Last(q) /\ q \in moved
      BY <1>2, <1>3, <1>4, <1>8, <3>1, <3>2
    <3>4. QED
      BY <3>3
  <2>2. QED
    BY <2>1
<1>10. ASSUME NEW path \in claims, NEW rest \in Below(flat, <<path[2]>>) PROVE path \o rest \in disclosed
  <2>1. <<path[2]>> \in Seq(Places)
    BY <1>2 DEF Places
  <2>2. rest \in Seq(Places) /\ <<path[2]>> \o rest \in flat
    BY <1>6, <2>1, BelowIsThere
  <2>3. PICK leaf \in disclosed : <<path[2]>> \o rest = Tail(leaf)
    BY <1>1, <2>2
  <2>4. PICK q \in claims : Selects(q, leaf)
    OBVIOUS
  <2>5. (<<path[2]>> \o rest)[1] = path[2]
    BY <2>2
  <2>6. q[2] = path[2]
    BY <1>3, <1>4, <2>3, <2>4, <2>5
  <2>7. q = path
    BY <2>6 DEF NamesElements
  <2>8. leaf[1] = path[1] /\ leaf \in Seq(Places) /\ Len(leaf) >= 2
    BY <1>3, <2>4, <2>7
  <2>9. leaf = <<leaf[1]>> \o Tail(leaf)
    BY <2>8
  <2>10. leaf = <<path[1]>> \o (<<path[2]>> \o rest)
    BY <2>3, <2>8, <2>9
  <2>11. <<path[1]>> \o (<<path[2]>> \o rest) = <<path[1], path[2]>> \o rest
    BY <1>2, <2>2
  <2>12. path \o rest = leaf
    BY <1>2, <2>10, <2>11
  <2>13. QED
    BY <2>12
<1>11. ASSUME NEW leaf \in disclosed
       PROVE  \E path \in moved : \E rest \in Below(flat, <<path[2]>>) : leaf = path \o rest
  <2>1. PICK path \in claims : Selects(path, leaf)
    OBVIOUS
  <2>2. leaf \in Seq(Places) /\ Len(leaf) >= 2 /\ leaf[1] = path[1] /\ leaf[2] = path[2]
    BY <1>3, <2>1
  <2>3. PICK tail \in flat : tail = Tail(leaf) /\ tail \in Seq(Places) /\ Len(tail) = Len(leaf) - 1
                            /\ tail[1] = path[2]
    BY <1>1, <2>2, WithoutTheFirst
  <2>4. PICK rest : rest = SubSeq(tail, 2, Len(tail))
    OBVIOUS
  <2>5. PICK name \in Seq(Places) : name = <<path[2]>> /\ Len(name) = 1 /\ name[1] = path[2]
    <3>1. PICK x \in Places : x = path[2]
      BY <1>2 DEF Places
    <3>2. <<x>> \in Seq(Places) /\ Len(<<x>>) = 1 /\ <<x>>[1] = x
      OBVIOUS
    <3>3. QED
      BY <3>1, <3>2
  <2>6. Len(name) <= Len(tail) /\ \A i \in 1 .. Len(name) : name[i] = tail[i]
    BY <2>2, <2>3, <2>5
  <2>7. rest \in Below(flat, name)
    <3>1. Len(name) + 1 = 2
      BY <2>5
    <3>2. QED
      BY <1>6, <2>3, <2>4, <2>5, <2>6, <3>1, BelowIsFound
  <2>8. rest = SubSeq(leaf, 3, Len(leaf))
    BY <2>2, <2>3, <2>4
  <2>9. leaf = <<leaf[1], leaf[2]>> \o SubSeq(leaf, 3, Len(leaf))
    BY <2>2
  <2>10. leaf = path \o rest
    BY <1>2, <2>2, <2>8, <2>9
  <2>11. path \in moved
    BY <1>8, <2>1
  <2>12. QED
    BY <2>5, <2>7, <2>10, <2>11
<1>12. ASSUME NEW leaf
       PROVE  leaf \in UNION {nested(path) : path \in moved} <=> leaf \in disclosed
  <2>1. ASSUME NEW path \in claims PROVE nested(path) = {path \o rest : rest \in Below(flat, <<path[2]>>)}
    BY <1>2
  <2>2. ASSUME leaf \in disclosed PROVE \E path \in moved : leaf \in nested(path)
    <3>1. PICK path \in moved : \E rest \in Below(flat, <<path[2]>>) : leaf = path \o rest
      BY <1>11, <2>2
    <3>2. leaf \in nested(path)
      BY <1>8, <2>1, <3>1
    <3>3. QED
      BY <3>2
  <2>3. ASSUME NEW path \in moved, leaf \in nested(path) PROVE leaf \in disclosed
    <3>1. path \in claims
      OBVIOUS
    <3>2. PICK rest \in Below(flat, <<path[2]>>) : leaf = path \o rest
      BY <2>1, <2>3, <3>1
    <3>3. QED
      BY <1>10, <3>1, <3>2
  <2>4. leaf \in UNION {nested(path) : path \in moved} <=> \E path \in moved : leaf \in nested(path)
    <3>. HIDE DEF nested, moved
    <3>1. QED
      OBVIOUS
  <2>5. QED
    BY <2>2, <2>3, <2>4, Zenon
<1>13. RestoreRequestedShape(flat, claims) =
         kept \cup {leaf \in UNION {nested(path) : path \in moved} : Head(leaf) \notin {Head(k) : k \in kept}}
  BY DEF RestoreRequestedShape
<1>14. QED
  BY <1>1, <1>9, <1>12, <1>13

(* What is asked of a wallet by a valid version, and what it discloses. *)
LEMMA AcceptedIsReadable ==
  ASSUME NEW body, NEW use, Violations(body, use) = {}
  PROVE  /\ body.claims # {} /\ \A path \in body.claims : path # <<>>
         /\ PathsReadBy(body.result) \subseteq body.claims
<1>1. body.claims = {} => "requested_claims_required" \in Violations(body, use)
  BY Zenon DEF Violations
<1>2. (\E path \in body.claims : ~IsValidClaimPath(path)) => "invalid_claim_path" \in Violations(body, use)
  BY Zenon DEF Violations
<1>3. ResultPolicyViolated(body.result, body.claims)
        => "result_policy_reads_unrequested_claim" \in Violations(body, use)
  BY Zenon DEF Violations
<1>4. \A path \in body.claims : path # <<>>
  BY <1>2 DEF IsValidClaimPath
<1>5. QED
  BY <1>1, <1>3, <1>4 DEF ResultPolicyViolated

(* Whatever valid body an attestation suits, and whatever of it is          *)
(* disclosed: the result is the one the answer deserves, settled or not, in *)
(* either format (verifier-adapter.ts:258, result-policy.ts:92). What was   *)
(* disclosed comes back in its shape, less what is named like the envelope; *)
(* so what is read at a claim is all that was given there, or nothing.      *)
THEOREM SuitedAnswersGetTheirResult ==
  ASSUME NEW body, IsBody(body), NEW use, Violations(body, use) = {},
         NEW holder, IsAttestation(holder), Suits(body.claims, holder),
         NEW plan, plan.claims = body.claims, plan.result = body.result, CanAnswer(holder, plan)
  PROVE  IsResultOf(Result(body, holder, plan), holder, plan)
<1>1. PICK claims, policy, document : claims = body.claims /\ policy = body.result /\ document = holder.document
  OBVIOUS
<1>2. /\ claims \in SUBSET Seq(Segments) /\ claims # {} /\ \A path \in claims : path # <<>>
      /\ PathsReadBy(policy) \subseteq claims
  BY <1>1, AcceptedIsReadable DEF IsBody
<1>3. \A leaf \in document : leaf \in Seq(Places) /\ leaf # <<>> /\ Head(leaf) = leaf[1] /\ leaf[1] \in Members
  BY <1>1 DEF IsAttestation, Places
<1>4. \A path \in claims : Selected(path, document) # {}
  BY <1>1 DEF CanAnswer, Has
<1>5. PICK asked : asked = SelectedByAny(claims, document)
  OBVIOUS
<1>6. asked \subseteq document /\ \A leaf \in asked : \E path \in claims : Selects(path, leaf)
  BY <1>5 DEF SelectedByAny, Selected
<1>7. \A path \in claims : \E leaf \in asked : Selects(path, leaf)
  BY <1>4, <1>5 DEF SelectedByAny, Selected
<1>8. PICK disclosed : disclosed = Disclosed(holder, plan)
  OBVIOUS
<1>9. disclosed = IF holder.whole THEN {leaf \in document : \E l \in asked : Head(l) = Head(leaf)} ELSE asked
  BY <1>1, <1>5, <1>8 DEF Disclosed
<1>10. asked \subseteq disclosed /\ disclosed \subseteq document /\ disclosed \in SUBSET Seq(Places)
  BY <1>3, <1>6, <1>9
<1>11. PICK extracted : extracted = ExtractDisclosedClaims(EngineAnswer(holder, plan))
  OBVIOUS
<1>12. PICK n : n = IF holder.format = "mso_mdoc" THEN 2 ELSE 1
  OBVIOUS
<1>13. PICK shape : shape = {leaf \in disclosed : leaf[n] \notin Envelope}
  OBVIOUS
<1>14. \A path \in claims : Kept(path, holder) <=> path[n] \notin Envelope
  BY <1>12 DEF Kept
<1>15. /\ \A path \in claims : n <= Len(path) /\ \A i \in 1 .. n : path[i] # Wildcard
       /\ \A leaf \in disclosed : \E path \in claims : path[n] = leaf[n]
       /\ \A path \in claims : \E leaf \in disclosed : Selects(path, leaf) /\ path[n] = leaf[n]
       /\ RestoreRequestedShape(extracted, claims) = shape
       /\ extracted = {} <=> shape = {}
  <2>1. CASE holder.format = "mso_mdoc"
    <3>1. disclosed = asked /\ NamesElements(claims) /\ n = 2
      BY <1>1, <1>9, <1>12, <2>1 DEF Suits, IsAttestation
    <3>2. ASSUME NEW path \in claims
          PROVE  /\ path \in Seq(Members) /\ Len(path) = 2
                 /\ path[1] # Wildcard /\ path[2] # Wildcard
      <4>1. path \in Seq(Members) /\ Len(path) = 2
        BY <3>1 DEF NamesElements
      <4>2. path[1] \in Members /\ path[2] \in Members
        BY <4>1, TwoSegments
      <4>3. QED
        BY <4>1, <4>2, SegmentAssumption
    <3>3. ASSUME NEW path \in claims, NEW leaf \in disclosed, Selects(path, leaf)
          PROVE  path[2] = leaf[2] /\ Len(leaf) >= 2
      <4>1. 2 \in DOMAIN path
        BY <3>2
      <4>2. leaf \in Seq(Places) /\ Len(leaf) >= Len(path)
        BY <1>10, <3>3 DEF Selects
      <4>3. QED
        BY <3>2, <3>3, <4>1, <4>2 DEF Selects
    <3>4. ASSUME NEW leaf \in disclosed
          PROVE  /\ \E path \in claims : Selects(path, leaf) /\ path[2] = leaf[2]
                 /\ Head(Tail(leaf)) = leaf[2]
      <4>1. PICK path \in claims : Selects(path, leaf)
        BY <1>6, <3>1
      <4>2. leaf \in Seq(Places) /\ Len(leaf) >= 2 /\ path[2] = leaf[2]
        BY <1>10, <3>3, <4>1
      <4>3. Head(Tail(leaf)) = leaf[2]
        BY <4>2, WithoutTheFirst
      <4>4. QED
        BY <4>1, <4>2, <4>3
    <3>5. extracted = {Tail(leaf) : leaf \in shape}
      <4>1. EngineAnswer(holder, plan) = {Tail(leaf) : leaf \in disclosed}
        BY <1>8, <2>1 DEF EngineAnswer
      <4>2. extracted = {t \in {Tail(leaf) : leaf \in disclosed} : Head(t) \notin Envelope}
        BY <1>11, <4>1 DEF ExtractDisclosedClaims
      <4>3. \A leaf \in disclosed : leaf \in shape <=> Head(Tail(leaf)) \notin Envelope
        BY <1>13, <3>1, <3>4
      <4>4. shape \subseteq disclosed
        BY <1>13
      <4>5. QED
        BY <4>2, <4>3, <4>4
    <3>6. /\ shape \in SUBSET Seq(Places)
          /\ \A leaf \in shape : \E path \in claims : Selects(path, leaf)
      BY <1>10, <1>13, <3>4
    <3>7. RestoreRequestedShape(extracted, claims) = shape
      BY <1>2, <3>1, <3>5, <3>6, ShapeIsRestored
    <3>8. extracted = {} <=> shape = {}
      BY <3>5
    <3>9. \A path \in claims : n <= Len(path) /\ \A i \in 1 .. n : path[i] # Wildcard
      BY <3>1, <3>2
    <3>10. /\ \A leaf \in disclosed : \E path \in claims : path[n] = leaf[n]
           /\ \A path \in claims : \E leaf \in disclosed : Selects(path, leaf) /\ path[n] = leaf[n]
      BY <1>7, <1>10, <3>1, <3>3, <3>4
    <3>11. QED
      BY <3>7, <3>8, <3>9, <3>10
  <2>2. CASE holder.format # "mso_mdoc"
    <3>1. n = 1 /\ NamesApart(claims, document)
      BY <1>1, <1>12, <2>2 DEF Suits
    <3>2. ASSUME NEW path \in claims, NEW leaf \in document, Selects(path, leaf)
          PROVE  Len(path) >= 1 /\ path[1] # Wildcard /\ path[1] = leaf[1]
      <4>1. Len(path) >= 1 /\ 1 \in DOMAIN path
        BY <1>2
      <4>2. IF path[1] = Wildcard THEN leaf[1] \in Indexes ELSE path[1] = leaf[1]
        BY <3>2, <4>1 DEF Selects
      <4>3. leaf[1] \notin Indexes
        BY <1>3, SegmentAssumption
      <4>4. QED
        BY <4>1, <4>2, <4>3
    <3>3. \A path \in claims : \E leaf \in disclosed : Selects(path, leaf) /\ path[1] = leaf[1]
      BY <1>6, <1>7, <1>10, <3>2
    <3>4. \A path \in claims : 1 <= Len(path) /\ \A i \in 1 .. 1 : path[i] # Wildcard
      BY <1>10, <3>2, <3>3
    <3>5. ASSUME NEW leaf \in disclosed PROVE \E path \in claims : path[1] = leaf[1]
      <4>1. PICK l \in asked : Head(l) = Head(leaf)
        BY <1>9
      <4>2. PICK path \in claims : Selects(path, l)
        BY <1>6
      <4>3. path[1] = l[1] /\ l[1] = leaf[1]
        BY <1>3, <1>6, <1>10, <3>2, <4>1, <4>2
      <4>4. QED
        BY <4>3
    <3>6. extracted = shape
      <4>1. extracted = {leaf \in disclosed : Head(leaf) \notin Envelope}
        BY <1>8, <1>11, <2>2 DEF EngineAnswer, ExtractDisclosedClaims
      <4>2. \A leaf \in disclosed : Head(leaf) = leaf[1]
        BY <1>3, <1>10
      <4>3. QED
        BY <1>13, <3>1, <4>1, <4>2
    <3>7. ASSUME NEW path \in claims
          PROVE  \/ Len(path) = 1
                 \/ Range(path) \subseteq Members /\ Selected(path, shape) # {}
                 \/ \A leaf \in shape : Head(leaf) # Last(path)
      <4>1. CASE Range(path) \subseteq Members /\ path[1] \notin Envelope
        <5>1. PICK leaf \in disclosed : Selects(path, leaf) /\ path[1] = leaf[1]
          BY <3>3
        <5>2. leaf \in Selected(path, shape)
          BY <1>13, <3>1, <4>1, <5>1 DEF Selected
        <5>3. QED
          BY <4>1, <5>2
      <4>2. CASE \A leaf \in document : Head(leaf) # Last(path)
        BY <1>10, <1>13, <4>2
      <4>3. QED
        BY <3>1, <4>1, <4>2 DEF NamesApart
    <3>8. shape \in SUBSET Seq(Places)
      BY <1>10, <1>13
    <3>9. RestoreRequestedShape(extracted, claims) = shape
      BY <1>2, <3>6, <3>7, <3>8, ShapeIsKept
    <3>10. QED
      BY <3>1, <3>3, <3>4, <3>5, <3>6, <3>9
  <2>3. QED
    BY <2>1, <2>2
<1>16. ASSUME NEW path \in claims
       PROVE  /\ Given(path, disclosed) # {}
              /\ ReadClaimAtPath(shape, path) = IF Kept(path, holder) THEN Given(path, disclosed) ELSE {}
  <2>1. PICK leaf \in disclosed : Selects(path, leaf)
    BY <1>15
  <2>2. n \in Nat \ {0} /\ path \in Seq(Segments)
    BY <1>2, <1>12
  <2>3. /\ Given(path, disclosed) # {}
        /\ ReadClaimAtPath(shape, path) = IF path[n] \notin Envelope THEN Given(path, disclosed) ELSE {}
    BY <1>10, <1>13, <1>15, <2>1, <2>2, ReadIsGiven
  <2>4. QED
    BY <1>14, <2>3
<1>17. extracted = {} <=> \A path \in claims : ~Kept(path, holder)
  <2>1. ASSUME extracted = {}, NEW path \in claims PROVE ~Kept(path, holder)
    BY <1>13, <1>14, <1>15, <2>1
  <2>2. ASSUME \A path \in claims : ~Kept(path, holder), NEW leaf \in shape PROVE FALSE
    BY <1>13, <1>14, <1>15, <2>2
  <2>3. QED
    BY <1>15, <2>1, <2>2
<1>18. PICK applied : applied = ApplyResultPolicy(policy, shape, Today)
  OBVIOUS
<1>. DEFINE Told == {e \in policy.derivations : e.output \notin UniqueElements}
            Complete == IF policy.kind = "VERIFIED_CLAIMS" THEN \A path \in policy.allowed : Kept(path, holder)
                        ELSE \A d \in policy.derivations :
                               Kept(d.source, holder) /\ IsTelling(d, Given(d.source, disclosed))
            Leaves == {leaf \in disclosed : /\ policy.kind = "VERIFIED_CLAIMS" /\ Complete
                                            /\ \E path \in policy.allowed : Shows(path, leaf)}
            Answers == IF policy.kind = "VERIFIED_CLAIMS" \/ ~Complete THEN {}
                       ELSE {<<d.output, Holds(d, Given(d.source, disclosed))>> : d \in Told}
<1>19. /\ applied.satisfied <=> Complete
       /\ Complete => applied.leaves = Leaves /\ applied.answers = Answers
  <2>1. CASE policy.kind = "VERIFIED_CLAIMS"
    <3>1. policy.allowed \subseteq claims
      BY <1>2, <2>1 DEF PathsReadBy
    <3>. DEFINE Released(path) == {Address(path) \o rest :
                                     rest \in StripUniqueElements(ReadClaimAtPath(shape, path))}
                Shown == {path \in policy.allowed : Len(path) > 1 \/ Head(path) \notin UniqueElements}
    <3>2. /\ applied.satisfied <=> \A path \in policy.allowed : ReadClaimAtPath(shape, path) # {}
          /\ applied.leaves = UNION {Released(path) : path \in Shown}
          /\ applied.answers = {}
      BY <1>18, <2>1 DEF ApplyResultPolicy
    <3>3. Complete <=> \A path \in policy.allowed : Kept(path, holder)
      BY <2>1
    <3>4. applied.satisfied <=> Complete
      BY <1>16, <3>1, <3>2, <3>3
    <3>5. ASSUME Complete, NEW leaf PROVE leaf \in applied.leaves <=> leaf \in Leaves
      <4>1. ASSUME NEW path \in Shown PROVE leaf \in Released(path) <=> leaf \in disclosed /\ Shows(path, leaf)
        <5>1. path \in claims /\ path \in Seq(Segments) /\ path # <<>>
              /\ (Len(path) > 1 \/ Head(path) \notin UniqueElements)
          BY <1>2, <3>1
        <5>2. ReadClaimAtPath(shape, path) = Given(path, disclosed)
          BY <1>16, <3>3, <3>5, <5>1
        <5>3. (\E rest \in StripUniqueElements(Given(path, disclosed)) : leaf = Address(path) \o rest)
                <=> leaf \in disclosed /\ Shows(path, leaf)
          BY <1>10, <5>1, ReleasedIsShown
        <5>4. QED
          BY <5>2, <5>3, Zenon
      <4>2. ASSUME NEW path \in policy.allowed, Shows(path, leaf) PROVE path \in Shown
        <5>1. path \in Seq(Segments) /\ path # <<>>
          BY <1>2, <3>1
        <5>2. Len(path) = 1 => path[1] \notin UniqueElements
          BY <4>2 DEF Shows
        <5>3. Len(path) \in Nat \ {0} /\ Head(path) = path[1]
          BY <5>1
        <5>4. Len(path) = 1 \/ Len(path) > 1
          <6>1. PICK many \in Nat \ {0} : many = Len(path)
            BY <5>3
          <6>2. many = 1 \/ many > 1
            OBVIOUS
          <6>3. QED
            BY <6>1, <6>2, Zenon
        <5>5. Len(path) > 1 \/ Head(path) \notin UniqueElements
          BY <5>2, <5>3, <5>4, Zenon
        <5>6. QED
          BY <4>2, <5>5, Zenon
      <4>3. leaf \in applied.leaves <=> \E path \in Shown : leaf \in Released(path)
        BY <3>2, Zenon
      <4>4. leaf \in Leaves <=> leaf \in disclosed /\ \E path \in policy.allowed : Shows(path, leaf)
        BY <2>1, <3>5, Zenon
      <4>5. Shown \subseteq policy.allowed
        BY Zenon
      <4>6. QED
        BY <4>1, <4>2, <4>3, <4>4, <4>5, Zenon
    <3>6. Complete => applied.leaves = Leaves
      BY <3>5
    <3>7. Answers = {}
      BY <2>1
    <3>8. QED
      BY <3>2, <3>4, <3>6, <3>7
  <2>2. CASE policy.kind # "VERIFIED_CLAIMS"
    <3>1. ASSUME NEW d \in policy.derivations PROVE d.source \in claims
      BY <1>2, <2>2, <3>1 DEF PathsReadBy
    <3>2. /\ applied.satisfied <=> \A d \in policy.derivations : Derive(d, shape, Today) # {}
          /\ applied.leaves = {}
          /\ applied.answers = UNION {{<<d.output, answer>> : answer \in Derive(d, shape, Today)} : d \in Told}
      BY <1>18, <2>2 DEF ApplyResultPolicy
    <3>3. ASSUME NEW d \in policy.derivations
          PROVE  Derive(d, shape, Today)
                   = IF Kept(d.source, holder) /\ IsTelling(d, Given(d.source, disclosed))
                     THEN {Holds(d, Given(d.source, disclosed))} ELSE {}
      <4>1. d.source \in claims
        BY <3>1
      <4>2. CASE Kept(d.source, holder)
        <5>1. /\ d.name \in {"AgeAtLeast", "ClaimPresence", "ClaimInSet"}
              /\ d.name = "AgeAtLeast" => d.minimum \in Nat
          BY <1>1, <2>2 DEF IsBody
        <5>2. PICK value : value = Given(d.source, disclosed)
          OBVIOUS
        <5>3. value = ReadClaimAtPath(shape, d.source) /\ value # {}
          BY <1>16, <4>1, <4>2, <5>2
        <5>4. Derive(d, shape, Today) = IF IsTelling(d, value) THEN {Holds(d, value)} ELSE {}
          BY <5>1, <5>3, DerivedIsHeld
        <5>5. QED
          BY <4>2, <5>2, <5>4, Zenon
      <4>3. CASE ~Kept(d.source, holder)
        <5>1. ReadClaimAtPath(shape, d.source) = {}
          BY <1>16, <4>1, <4>3
        <5>2. QED
          BY <4>3, <5>1, NothingIsDerived, Zenon
      <4>4. QED
        BY <4>2, <4>3
    <3>4. Complete <=> \A d \in policy.derivations :
                         Kept(d.source, holder) /\ IsTelling(d, Given(d.source, disclosed))
      BY <2>2, Zenon
    <3>5. applied.satisfied <=> Complete
      BY <3>2, <3>3, <3>4, Zenon
    <3>6. ASSUME Complete PROVE applied.answers = Answers
      <4>1. \A d \in policy.derivations : Derive(d, shape, Today) = {Holds(d, Given(d.source, disclosed))}
        BY <3>3, <3>4, <3>6, Zenon
      <4>2. Answers = {<<d.output, Holds(d, Given(d.source, disclosed))>> : d \in Told}
        BY <2>2, <3>6, Zenon
      <4>3. Told \subseteq policy.derivations
        BY Zenon
      <4>4. ASSUME NEW pair
            PROVE  pair \in applied.answers <=> pair \in Answers
        <5>1. ASSUME NEW d \in Told
              PROVE  pair \in {<<d.output, answer>> : answer \in Derive(d, shape, Today)}
                       <=> pair = <<d.output, Holds(d, Given(d.source, disclosed))>>
          BY <4>1, <4>3, Zenon
        <5>2. pair \in applied.answers
                <=> \E d \in Told : pair \in {<<d.output, answer>> : answer \in Derive(d, shape, Today)}
          BY <3>2, Zenon
        <5>3. pair \in Answers <=> \E d \in Told : pair = <<d.output, Holds(d, Given(d.source, disclosed))>>
          BY <4>2, Zenon
        <5>4. QED
          BY <5>1, <5>2, <5>3, Zenon
      <4>5. QED
        BY <4>4, Zenon
    <3>7. Leaves = {}
      BY <2>2
    <3>8. QED
      BY <3>2, <3>5, <3>6, <3>7, Zenon
  <2>3. QED
    BY <2>1, <2>2
<1>20. PICK result : result = Result(body, holder, plan)
  OBVIOUS
<1>21. /\ result.leaves = IF applied.satisfied THEN applied.leaves ELSE {}
       /\ result.answers = IF applied.satisfied THEN applied.answers ELSE {}
       /\ result.outcome = IF extracted = {} THEN "PROTOCOL_ERROR"
                           ELSE IF applied.satisfied THEN "VERIFIED" ELSE "POLICY_NOT_SATISFIED"
  BY <1>1, <1>11, <1>15, <1>18, <1>20 DEF Result
<1>22. ~Complete => Leaves = {} /\ Answers = {}
  OBVIOUS
<1>23. result.leaves = Leaves /\ result.answers = Answers
  BY <1>19, <1>21, <1>22, Zenon
<1>24. result.outcome = IF \A path \in claims : ~Kept(path, holder) THEN "PROTOCOL_ERROR"
                        ELSE IF Complete THEN "VERIFIED" ELSE "POLICY_NOT_SATISFIED"
  BY <1>17, <1>19, <1>21, Zenon
<1>25. QED
  BY <1>1, <1>8, <1>20, <1>23, <1>24, Zenon DEF IsResultOf

(* The rules agree with what they stand for, for all examples, wallets and  *)
(* registrations: covered claims select no more than what is registered     *)
(* (claim-path.ts:63), an age is the number of birthdays                    *)
(* (result-policy.ts:163), and whoever can answer a valid body that suits   *)
(* them gives the result their answer deserves (result-policy.ts:210).      *)
THEOREM RulesAlwaysMeetTheirReference == Spec => []RulesMeetTheirReference
<1>. DEFINE Covered == \A body \in Examples, rc \in UNION Registrations, holder \in OtherHolders :
              \A path \in body.claims, r \in rc.claims :
                ClaimPathCovers(r, path) /\ AsksForElements(r, path)
                  => Selected(path, holder.document) \subseteq Selected(r, holder.document)
            Aged == \A v \in DOMAIN DateOf : IsBorn(DateOf[v], Today)
                      => CompletedYears(DateOf[v], Today) = Cardinality(Birthdays(DateOf[v], Today))
            Sample(body, use) ==
              LET owned == [service |-> use.service, key |-> None, engine |-> None]
              IN Plan(1, body, [use |-> use, service |-> use.service, certified |-> FALSE,
                                instance |-> owned, access |-> owned])
            Deserved == \A body \in Examples, use \in IntendedUses, holder \in OtherHolders :
              Violations(body, use) = {} /\ CanAnswer(holder, Sample(body, use)) /\ Suits(body.claims, holder)
                => IsResultOf(Result(body, holder, Sample(body, use)), holder, Sample(body, use))
<1>1. Covered
  <2>1. SUFFICES ASSUME NEW body \in Examples, NEW rc \in UNION Registrations, NEW holder \in OtherHolders,
                        NEW path \in body.claims, NEW r \in rc.claims,
                        ClaimPathCovers(r, path), AsksForElements(r, path)
                 PROVE  Selected(path, holder.document) \subseteq Selected(r, holder.document)
    OBVIOUS
  <2>2. r \in Seq(Segments) /\ path \in Seq(Segments)
    BY ExamplesAssumption DEF IsBody
  <2>3. holder.document \in SUBSET Seq(Places)
    BY ExamplesAssumption DEF IsAttestation, Places
  <2>4. QED
    BY <2>1, <2>2, <2>3, CoveredClaimsSelectNoMore
<1>2. Aged
  BY RulesAssumption, ExamplesAssumption, AgeIsBirthdaysReached
<1>3. Deserved
  <2>. HIDE DEF Sample
  <2>1. SUFFICES ASSUME NEW body \in Examples, NEW use \in IntendedUses, NEW holder \in OtherHolders,
                        Violations(body, use) = {}, CanAnswer(holder, Sample(body, use)),
                        Suits(body.claims, holder)
                 PROVE  IsResultOf(Result(body, holder, Sample(body, use)), holder, Sample(body, use))
    OBVIOUS
  <2>2. PICK plan : plan = Sample(body, use)
    BY Zenon
  <2>3. plan.claims = body.claims /\ plan.result = body.result
    BY <2>2 DEF Sample, Plan
  <2>4. IsBody(body) /\ IsAttestation(holder)
    BY ExamplesAssumption
  <2>5. CanAnswer(holder, plan)
    BY <2>1, <2>2, Zenon
  <2>6. IsResultOf(Result(body, holder, plan), holder, plan)
    BY <2>1, <2>3, <2>4, <2>5, SuitedAnswersGetTheirResult, Zenon
  <2>7. QED
    BY <2>2, <2>6, Zenon
<1>4. RulesMeetTheirReference
  BY <1>1, <1>2, <1>3, Zenon DEF RulesMeetTheirReference
<1>5. QED
  BY <1>4, PTL

-----------------------------------------------------------------------------
(* What an answer becomes *)

(* What of a plan the query, the answer and the result depend on. *)
IsCompiled(plan, body, use) ==
  /\ plan.requirement = PlanRequirement(SoleCredentialRequirement(body), use)
  /\ plan.claims = body.claims /\ plan.anchors = body.anchors /\ plan.result = body.result

(* A request asks what one valid body compiled to, and what it was answered *)
(* becomes a result under that body.                                        *)
FollowsTheRules(c) ==
  pc[c] \in {"wallet", "answered"} =>
    /\ AnsweredBody(c) \in Bodies
    /\ \E use \in IntendedUses : /\ Violations(AnsweredBody(c), use) = {}
                                /\ IsCompiled(req[c].plan, AnsweredBody(c), use)
    /\ pc[c] = "answered" =>
         /\ req[c].holder \in Holders /\ CanAnswer(req[c].holder, req[c].plan)
         /\ req[c].result = Result(AnsweredBody(c), req[c].holder, req[c].plan)

(* Who asks a wallet, and who has its answer. *)
LEMMA WhoAsks ==
  ASSUME Typed, [Next]_vars, NEW c \in Clients
  PROVE  \/ pc'[c] = pc[c] /\ req'[c] = req[c]
         \/ pc'[c] \notin {"wallet", "answered"}
         \/ Compile(c) \/ WalletAnswers(c)
<1>. DEFINE Elsewhere(d) == \E label \in Labels \ {"wallet", "answered"} :
                               \/ Goto(d, label) /\ UNCHANGED req
                               \/ \E locals : Await(d, label, locals)
<1>1. ASSUME NEW d \in Clients, Return(d) \/ \E action, subject : ThenAudit(d, action, subject)
      PROVE  Elsewhere(d)
  BY <1>1 DEF Return, ThenAudit, Labels
<1>2. ASSUME NEW d \in Clients, Register(d) PROVE UNCHANGED <<pc, req>> \/ Elsewhere(d)
  <2>1. CASE CreateTenant(d) \/ ApplyRetentionSettings(d) \/ (InsertInstance(d) /\ ~Return(d))
    BY <2>1 DEF CreateTenant, ApplyRetentionSettings, InsertInstance, Labels
  <2>2. CASE BeginService(d) \/ ImportAccessCertificate(d)
    BY <2>2 DEF BeginService, ImportAccessCertificate, Labels
  <2>3. CASE UNCHANGED <<pc, req>> \/ Return(d) \/ \E action, subject : ThenAudit(d, action, subject)
    BY <1>1, <2>3
  <2>4. QED
    BY <1>2, <2>1, <2>2, <2>3 DEF Register, Audit, CreateApiKey, CreateOrganisation,
       CreateRelyingParty, InsertService, CreateIntendedUse, RecordRegistrationCertificate,
       InsertInstance, CreateAccessCertificate, Fault
<1>3. ASSUME NEW d \in Clients, Policing(d)
      PROVE  UNCHANGED <<pc, req>> \/ Elsewhere(d) \/ Compile(d) \/ WalletAnswers(d)
  <2>1. CASE InsertDraft(d) /\ ~Return(d)
    BY <2>1 DEF InsertDraft, Labels
  <2>2. CASE \/ BeginVersion(d) \/ (ListVersions(d) /\ ~Return(d)) \/ BeginPublish(d)
             \/ BeginPresentation(d) \/ (Resolve(d) /\ ~Return(d))
    <3>1. \E label \in {"list", "draft", "publish", "resolve", "context"} :
            \E locals : Await(d, label, locals)
      BY <2>2 DEF BeginVersion, ListVersions, BeginPublish, BeginPresentation, Resolve
    <3>2. QED
      BY <3>1 DEF Labels
  <2>3. CASE UNCHANGED <<pc, req>> \/ Return(d) \/ \E action, subject : ThenAudit(d, action, subject)
    BY <1>1, <2>3
  <2>4. QED
    BY <1>3, <2>1, <2>2, <2>3 DEF Policing, CreatePolicy, PublishVersion, Finish
<1>4. ASSUME NEW d \in Clients, Elsewhere(d)
      PROVE  (pc'[c] = pc[c] /\ req'[c] = req[c]) \/ pc'[c] \notin {"wallet", "answered"}
  <2>1. PICK label \in Labels \ {"wallet", "answered"} :
          Goto(d, label) /\ (UNCHANGED req \/ \E locals : req' = [req EXCEPT ![d] = locals])
    BY <1>4 DEF Await
  <2>2. QED
    BY <2>1 DEF Goto, Typed
<1>5. ASSUME NEW d \in Clients, Compile(d) \/ WalletAnswers(d)
      PROVE  (pc'[c] = pc[c] /\ req'[c] = req[c]) \/ Compile(c) \/ WalletAnswers(c)
  BY <1>5, PolicingMoves, MovingRests DEF Policing
<1>6. QED
  BY <1>2, <1>3, <1>4, <1>5, WhoActs DEF BecomesValid, vars

(* The body of the version a request is under does not change. *)
LEMMA BodyStays ==
  ASSUME IInv, WritesWell, NEW c \in Clients, pc[c] \in {"wallet", "answered"},
         req'[c].subject = req[c].subject, req'[c].plan = req[c].plan
  PROVE  AnsweredBody(c)' = AnsweredBody(c)
<1>1. PICK p, n : p = req[c].subject /\ n = req[c].plan.version
  OBVIOUS
<1>2. p \in Policies /\ n \in Numbers(p)
  BY <1>1 DEF IInv, Stands, StandsPresenting, IsCurrent, Published
<1>3. versions'[p][n].body = versions[p][n].body
  BY <1>2 DEF WritesWell, Grows, VersionsGrow
<1>4. QED
  BY <1>1, <1>3 DEF AnsweredBody

(* The plan is of a body that is valid when it is compiled.                 *)
LEMMA CompiledByTheRules ==
  ASSUME IInv, WritesWell, NEW c \in Clients, Compile(c)
  PROVE  FollowsTheRules(c)'
<1>1. CASE Return(c)
  BY <1>1, Awaits DEF IInv, Return, FollowsTheRules
<1>2. CASE ~Return(c)
  <2>1. PICK p, n, named, floor, row :
          /\ p = req[c].subject /\ n = req[c].n /\ named = req[c].named /\ floor = req[c].floor
          /\ row = versions[p][n]
    BY Zenon
  <2>2. PICK context, plan, lifetime :
          /\ context \in Contexts(p) /\ plan = Plan(n, row.body, context)
          /\ CompileRefusals(row.status, row.body, context) = {}
          /\ Await(c, "wallet", [action |-> "present", subject |-> p, named |-> named,
                                 floor |-> floor, plan |-> plan, lifetime |-> lifetime])
          /\ pc[c] = "context" /\ UNCHANGED versions
    BY <1>2, <2>1, ZenonT(30) DEF Compile
  <2>3. p \in Policies /\ policies[p] # None /\ n \in Numbers(p)
    BY <2>1, <2>2 DEF IInv, Stands, StandsPresenting, Published
  <2>4. row \in [status : PolicyStatuses, body : Bodies]
    <3>1. Typed
      BY DEF IInv
    <3>2. versions[p][n] \in VersionRows /\ versions[p][n] # None
      BY <2>3, <3>1 DEF Typed, Numbers
    <3>3. QED
      BY <2>1, <3>2 DEF VersionRows
  <2>5. PICK use : use = context.use
    OBVIOUS
  <2>6. use \in IntendedUses
    <3>1. policies[p].use \in Uses /\ registry.uses[policies[p].use] # None
      BY <2>3 DEF IInv, Typed, UsesAreThere, PresentationPolicyRows
    <3>2. use = registry.uses[policies[p].use]
      BY <2>2, <2>5 DEF Contexts, UseOf
    <3>3. QED
      BY <3>1, <3>2 DEF IInv, Typed, Registries
  <2>7. Violations(row.body, use) = {}
    BY <2>2, <2>5, CompiledIsAccepted
  <2>8. plan.version = n /\ IsCompiled(plan, row.body, use)
    BY <2>2, <2>5 DEF Plan, IsCompiled
  <2>9. pc'[c] = "wallet" /\ req'[c].subject = p /\ req'[c].plan = plan
    <3>1. Typed
      BY DEF IInv
    <3>2. PICK locals : locals = [action |-> "present", subject |-> p, named |-> named,
                                  floor |-> floor, plan |-> plan, lifetime |-> lifetime]
      BY Zenon
    <3>3. Await(c, "wallet", locals)
      BY <2>2, <3>2, Zenon
    <3>4. pc'[c] = "wallet" /\ req'[c] = locals
      BY <3>1, <3>3 DEF Typed, Await, Goto
    <3>5. QED
      BY <3>2, <3>4
  <2>10. AnsweredBody(c)' = row.body
    BY <2>1, <2>2, <2>8, <2>9 DEF AnsweredBody
  <2>11. QED
    BY <2>4, <2>6, <2>7, <2>8, <2>9, <2>10 DEF FollowsTheRules
<1>3. QED
  BY <1>1, <1>2

(* The answer becomes a result under the body the plan is of.               *)
LEMMA AnsweredByTheRules ==
  ASSUME IInv, WritesWell, NEW c \in Clients, FollowsTheRules(c), WalletAnswers(c)
  PROVE  FollowsTheRules(c)'
<1>1. PICK p, plan, body : p = req[c].subject /\ plan = req[c].plan /\ body = AnsweredBody(c)
  OBVIOUS
<1>2. PICK holder, locals :
        /\ pc[c] = "wallet" /\ holder \in Holders /\ CanAnswer(holder, plan)
        /\ Await(c, "answered", locals) /\ locals.subject = p /\ locals.plan = plan
        /\ locals.holder = holder /\ locals.result = Result(body, holder, plan)
  BY <1>1 DEF WalletAnswers
<1>3. pc'[c] = "answered" /\ req'[c] = locals
  BY <1>2, Awaits DEF IInv
<1>4. AnsweredBody(c)' = body
  BY <1>1, <1>2, <1>3, BodyStays
<1>5. body \in Bodies /\ \E use \in IntendedUses : Violations(body, use) = {} /\ IsCompiled(plan, body, use)
  BY <1>1, <1>2 DEF FollowsTheRules
<1>6. QED
  BY <1>2, <1>3, <1>4, <1>5 DEF FollowsTheRules

LEMMA RulesFollowed ==
  ASSUME IInv, WritesWell, [Next]_vars, NEW c \in Clients, FollowsTheRules(c)
  PROVE  FollowsTheRules(c)'
<1>1. CASE pc'[c] = pc[c] /\ req'[c] = req[c]
  <2>1. PICK r, body : r = req[c] /\ body = AnsweredBody(c)
    OBVIOUS
  <2>2. CASE pc[c] \in {"wallet", "answered"}
    <3>1. AnsweredBody(c)' = body
      BY <1>1, <2>1, <2>2, BodyStays
    <3>2. /\ body \in Bodies
          /\ \E use \in IntendedUses : Violations(body, use) = {} /\ IsCompiled(r.plan, body, use)
          /\ pc[c] = "answered" => /\ r.holder \in Holders /\ CanAnswer(r.holder, r.plan)
                                   /\ r.result = Result(body, r.holder, r.plan)
      BY <2>1, <2>2 DEF FollowsTheRules
    <3>3. QED
      BY <1>1, <2>1, <3>1, <3>2 DEF FollowsTheRules
  <2>3. CASE pc[c] \notin {"wallet", "answered"}
    BY <1>1, <2>3 DEF FollowsTheRules
  <2>4. QED
    BY <2>2, <2>3
<1>2. CASE pc'[c] \notin {"wallet", "answered"}
  BY <1>2 DEF FollowsTheRules
<1>3. QED
  BY <1>1, <1>2, WhoAsks, CompiledByTheRules, AnsweredByTheRules DEF IInv

(* A wallet that answered the query gets the result its answer deserves    *)
(* (verifier-adapter.ts:258, result-policy.ts:92), whatever is published    *)
(* and registered between the compilation of its plan and the answer: what  *)
(* one valid body and one wallet give is right, and a request stays with    *)
(* its body.                                                                *)
THEOREM ResultsAreOfTheAnswers == Spec => []ResultIsOfTheAnswer
<1>. DEFINE Follow == \A c \in Clients : FollowsTheRules(c)
<1>1. PoliciesInit => Follow
  BY DEF PoliciesInit, Init, FollowsTheRules
<1>2. IInv /\ Follow /\ [Next]_vars => Follow'
  BY StepsKeep, RulesFollowed
<1>3. Follow => ResultIsOfTheAnswer
  <2>1. SUFFICES ASSUME Follow, NEW c \in Clients, pc[c] = "answered",
                        Suits(req[c].plan.claims, req[c].holder)
                 PROVE  IsResultOf(req[c].result, req[c].holder, req[c].plan)
    BY DEF ResultIsOfTheAnswer
  <2>2. PICK r, body : r = req[c] /\ body = AnsweredBody(c)
    OBVIOUS
  <2>3. /\ body \in Bodies /\ r.holder \in Holders /\ CanAnswer(r.holder, r.plan)
        /\ r.result = Result(body, r.holder, r.plan)
    BY <2>1, <2>2 DEF FollowsTheRules
  <2>4. PICK use \in IntendedUses : Violations(body, use) = {} /\ IsCompiled(r.plan, body, use)
    BY <2>1, <2>2 DEF FollowsTheRules
  <2>5. r.plan.claims = body.claims /\ r.plan.result = body.result
    BY <2>4 DEF IsCompiled
  <2>6. IsBody(body) /\ IsAttestation(r.holder)
    BY <2>3, ExamplesAssumption
  <2>7. IsResultOf(Result(body, r.holder, r.plan), r.holder, r.plan)
    BY <2>1, <2>2, <2>3, <2>4, <2>5, <2>6, SuitedAnswersGetTheirResult
  <2>8. QED
    BY <2>2, <2>3, <2>7
<1>4. QED
  BY <1>1, <1>2, <1>3, Invariance, PTL DEF Spec

=============================================================================
