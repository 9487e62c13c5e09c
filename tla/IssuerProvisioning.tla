------------------------- MODULE IssuerProvisioning -------------------------
(***************************************************************************)
(* Setting up an issuer and keeping its engine tenant in step: Attestation *)
(* Providers, credential types, issuance policies and their versions       *)
(* (issuance.controllers over issuance.repository), and what               *)
(* issuance.service and the issuer adapter write to the engine tenant of a *)
(* provider before an offer, or ahead of any. The issuer configuration of  *)
(* an engine tenant is one object, composed from all the policies of its   *)
(* provider and written whole by every provisioning and every issuance.    *)
(* The issuance that follows the offer is the subject of module Issuances. *)
(***************************************************************************)
EXTENDS IssuanceRules

CONSTANTS Providers, Types, Policies,
          Gates,            \* presentation policies an issuance may be gated on
          EngineTenants,
          Clients,          \* requests being handled
          TypeRows, Bodies, \* what types and versions may be created with
          Examples, Sources,   \* further types, and the attributes of subjects, for the rules alone
          ProvisionInputs,  \* the optional parts of a provisioning: access, certified
          PidDuringIssuance,   \* the feature flag
          MaxKeys,          \* bound on the keys imported into one engine tenant
          MaxVersions,      \* bound on the versions of a policy
          MaxGateVersions,  \* bound on the versions of a gate
          MaxRequests,      \* bound on the requests that take more than one statement
          MaxFaults         \* bound on failed statements and calls, and crashes

VARIABLES
  providers, types, policies, versions,   \* tables of the platform
  gates,      \* the latest published version of each presentation policy, 0 for none
  engine,     \* what each engine tenant holds
  pc, req,    \* what each request awaits, and its local variables
  requests, faults     \* how many there were

tables == <<providers, types, policies, versions, gates>>
vars == <<providers, types, policies, versions, gates, engine, pc, req, requests, faults>>

KeyRefs == [engine : EngineTenants, usage : {"attestation", "access"}, n : 1 .. MaxKeys]

(* attestation_providers; certified: with a registration certificate.       *)
ProviderRows ==
  [engine : EngineTenants \cup {None}, signing : KeyRefs \cup {None},
   access : KeyRefs \cup {None}, certified : BOOLEAN]

Registered == [engine |-> None, signing |-> None, access |-> None, certified |-> FALSE]

(* issuance_policies *)
PolicyStatuses == {"ACTIVE", "RETIRED"}

(* issuance_policy_versions *)
VersionRows == [status : {"DRAFT", "PUBLISHED"}, body : Bodies] \cup {None}

(* The version of a gate that is the latest, and what an issuer's           *)
(* configuration says.                                                      *)
GateVersions == [gate : Gates, version : 0 .. MaxGateVersions]

IssuerConfigurations ==
  [builtIn : BOOLEAN, gates : SUBSET GateVersions, certified : BOOLEAN]

(* What requests name is there to be named, and a null column, or an object *)
(* an engine tenant does not have, is unlike any that is there. The claims  *)
(* of the examples are claim definitions.                                   *)
ASSUME ProvisioningAssumption ==
  /\ PidDuringIssuance \in BOOLEAN
  /\ \A row \in TypeRows : row.provider \in Providers
  /\ \A body \in Bodies : body.type \in Types /\ body.gate \in Gates \cup {None}
  /\ ProvisionInputs \subseteq [access : BOOLEAN, certified : BOOLEAN]
  /\ None \notin TypeRows \cup ProviderRows \cup PolicyStatuses \cup EngineTenants \cup KeyRefs \cup Gates
  /\ None \notin [status : {"DRAFT", "PUBLISHED"}, body : Bodies] \cup IssuerConfigurations
  /\ {MaxKeys, MaxVersions, MaxGateVersions} \subseteq Nat
  /\ \A type \in Examples :
       type.claims \in Seq(ClaimDefinitions({type.claims[n].path : n \in DOMAIN type.claims}))

(* The issuer-level objects of an engine tenant: presentation               *)
(* configurations, the issuer configuration, the platform as attribute      *)
(* provider, credential configurations, the keys of the shared status lists.*)
EmptyTenant ==
  [keys |-> 0, presentations |-> {}, issuer |-> None, attributes |-> FALSE,
   credentials |-> {}, lists |-> <<>>]

NoLocals == [goal |-> None, alone |-> FALSE]

Init ==
  /\ providers = [a \in Providers |-> None]
  /\ types = [t \in Types |-> None]
  /\ policies = [p \in Policies |-> None]
  /\ versions = [p \in Policies |-> [n \in 1 .. MaxVersions |-> None]]
  /\ gates = [g \in Gates |-> 0]
  /\ engine = [e \in EngineTenants |-> EmptyTenant]
  /\ pc = [c \in Clients |-> "idle"]
  /\ req = [c \in Clients |-> NoLocals]
  /\ requests = 0 /\ faults = 0

-----------------------------------------------------------------------------
(* A request with further local variables, or new values of those it has.  *)
Extended(r, locals) ==
  [x \in DOMAIN r \cup DOMAIN locals |-> IF x \in DOMAIN locals THEN locals[x] ELSE r[x]]

(* "alone" is for a property: nobody else did anything since c began to     *)
(* provision or to issue.                                                   *)
Disturb(c) ==
  /\ req' = [d \in Clients |-> [req[d] EXCEPT !.alone = FALSE]]
  /\ UNCHANGED requests

Begin(c, label, locals) ==
  /\ requests < MaxRequests /\ requests' = requests + 1
  /\ pc' = [pc EXCEPT ![c] = label]
  /\ req' = [d \in Clients |->
               IF d = c THEN Extended(locals, [alone |-> /\ locals.goal \in {"provision", "issue"}
                                                         /\ \A b \in Clients \ {c} : pc[b] = "idle"])
               ELSE [req[d] EXCEPT !.alone = FALSE]]

Goto(c, label) == pc' = [pc EXCEPT ![c] = label] /\ UNCHANGED <<req, requests>>

Await(c, label, locals) ==
  /\ pc' = [pc EXCEPT ![c] = label]
  /\ req' = [req EXCEPT ![c] = Extended(@, locals)]
  /\ UNCHANGED requests

(* The request is over: answered, or an error thrown to the caller. *)
Return(c) ==
  /\ pc' = [pc EXCEPT ![c] = "idle"]
  /\ req' = [req EXCEPT ![c] = NoLocals]
  /\ UNCHANGED requests

Numbers(p) == {n \in 1 .. MaxVersions : versions[p][n] # None}

Published(p) == {n \in Numbers(p) : versions[p][n].status = "PUBLISHED"}

Greatest(numbers) == IF numbers = {} THEN 0 ELSE CHOOSE n \in numbers : \A m \in numbers : n >= m

(* resolvePublishedVersion, with no version named; 0 when there is none. *)
ResolvePublishedVersion(p) == Greatest(Published(p))

(* nextVersionNumber *)
NextVersionNumber(p) == 1 + Greatest(Numbers(p))

ProviderOf(p, n) == types[versions[p][n].body.type].provider

-----------------------------------------------------------------------------
(* The identifier is unique in its environment. *)
CreateAttestationProvider(c) ==
  /\ pc[c] = "idle"
  /\ \E a \in Providers :
       /\ providers[a] = None
       /\ providers' = [providers EXCEPT ![a] = Registered]
  /\ Disturb(c)
  /\ UNCHANGED <<types, policies, versions, gates, engine, pc, faults>>

CreateCredentialType(c) ==
  /\ pc[c] = "idle"
  /\ \E t \in Types, row \in TypeRows :
       /\ types[t] = None /\ providers[row.provider] # None
       /\ TypeViolations(row) = {}
       /\ types' = [types EXCEPT ![t] = row]
  /\ Disturb(c)
  /\ UNCHANGED <<providers, policies, versions, gates, engine, pc, faults>>

CreatePolicy(c) ==
  /\ pc[c] = "idle"
  /\ \E p \in Policies :
       /\ policies[p] = None /\ \E t \in Types : types[t] # None
       /\ policies' = [policies EXCEPT ![p] = "ACTIVE"]
  /\ Disturb(c)
  /\ UNCHANGED <<providers, types, versions, gates, engine, pc, faults>>

(* The verification side publishes a version of a gate. *)
PublishGate(c) ==
  /\ pc[c] = "idle"
  /\ \E g \in Gates :
       /\ gates[g] < MaxGateVersions
       /\ gates' = [gates EXCEPT ![g] = @ + 1]
  /\ Disturb(c)
  /\ UNCHANGED <<providers, types, policies, versions, engine, pc, faults>>

-----------------------------------------------------------------------------
(* provision: the keys go to the engine first. The callback endpoint, a row *)
(* of its own inserted before the update, is left out.                      *)
ImportSigningCertificate(c) ==
  /\ pc[c] = "idle"
  /\ \E a \in Providers, e \in EngineTenants, input \in ProvisionInputs :
       /\ providers[a] # None /\ engine[e].keys < MaxKeys
       /\ engine' = [engine EXCEPT ![e].keys = @ + 1]
       /\ Begin(c, IF input.access THEN "access" ELSE "taken",
                [goal |-> "claim", provider |-> a, certified |-> input.certified,
                 access |-> None, engine |-> e,
                 signing |-> [engine |-> e, usage |-> "attestation", n |-> engine[e].keys + 1]])
  /\ UNCHANGED <<tables, faults>>

ImportAccessCertificate(c) ==
  /\ pc[c] = "access"
  /\ LET e == req[c].engine IN
       IF engine[e].keys < MaxKeys
       THEN /\ engine' = [engine EXCEPT ![e].keys = @ + 1]
            /\ Await(c, "taken",
                     [access |-> [engine |-> e, usage |-> "access", n |-> engine[e].keys + 1]])
       ELSE Return(c) /\ UNCHANGED engine   \* the bound of the model
  /\ UNCHANGED <<tables, faults>>

Holder(e) == {a \in Providers : providers[a] # None /\ providers[a].engine = e}

FindTaken(c) ==
  /\ pc[c] = "taken"
  /\ IF Holder(req[c].engine) \subseteq {req[c].provider} THEN Goto(c, "update") ELSE Return(c)
  /\ UNCHANGED <<tables, engine, faults>>

(* The columns provision replaces. *)
Provisioned(r) ==
  [engine |-> r.engine, signing |-> r.signing, access |-> r.access, certified |-> r.certified]

(* Mutated: no unique index on the engine tenant. *)
UpdateProviderUnchecked(c) ==
  /\ pc[c] = "update"
  /\ LET r == req[c] IN
       providers' = [providers EXCEPT ![r.provider] = Provisioned(r)]
  /\ Return(c)
  /\ UNCHANGED <<types, policies, versions, gates, engine, faults>>

(* The UPDATE, under the unique index on the engine tenant. *)
UpdateProvider(c) ==
  /\ pc[c] = "update"
  /\ LET r == req[c] IN
       providers' = IF Holder(r.engine) \subseteq {r.provider}
                    THEN [providers EXCEPT ![r.provider] = Provisioned(r)] ELSE providers
  /\ Return(c)
  /\ UNCHANGED <<types, policies, versions, gates, engine, faults>>

(* decommission: the engine tenant keeps what it holds. *)
ReleaseEngineTenant(c) ==
  /\ pc[c] = "idle"
  /\ \E a \in Providers :
       /\ providers[a] # None
       /\ providers' = [providers EXCEPT ![a].engine = None, ![a].signing = None, ![a].access = None]
  /\ Disturb(c)
  /\ UNCHANGED <<types, policies, versions, gates, engine, pc, faults>>

-----------------------------------------------------------------------------
(* createVersion, up to the validation against the type. *)
BeginVersion(c) ==
  /\ pc[c] = "idle"
  /\ \E p \in Policies, body \in Bodies, publish \in BOOLEAN :
       /\ policies[p] # None /\ types[body.type] # None
       /\ body.gate # None => PidDuringIssuance
       /\ VersionViolations(body, types[body.type]) = {}
       /\ Begin(c, "number", [goal |-> "version", policy |-> p, body |-> body,
                              status |-> IF publish THEN "PUBLISHED" ELSE "DRAFT"])
  /\ UNCHANGED <<tables, engine, faults>>

(* Past MaxVersions the model, not the code, gives up. *)
ListForNumber(c) ==
  /\ pc[c] = "number"
  /\ LET n == NextVersionNumber(req[c].policy) IN
       IF n <= MaxVersions THEN Await(c, "insert", [n |-> n]) ELSE Return(c)
  /\ UNCHANGED <<tables, engine, faults>>

(* Mutated: a number that is taken is written over. *)
InsertVersionAnyway(c) ==
  /\ pc[c] = "insert"
  /\ LET r == req[c] IN
       versions' = [versions EXCEPT ![r.policy][r.n] = [status |-> r.status, body |-> r.body]]
  /\ Return(c)
  /\ UNCHANGED <<providers, types, policies, gates, engine, faults>>

(* The insert, under the unique index on policy and version. *)
InsertVersion(c) ==
  /\ pc[c] = "insert"
  /\ LET r == req[c] IN
       versions' = IF versions[r.policy][r.n] = None
                   THEN [versions EXCEPT ![r.policy][r.n] = [status |-> r.status, body |-> r.body]]
                   ELSE versions
  /\ Return(c)
  /\ UNCHANGED <<providers, types, policies, gates, engine, faults>>

(* setPolicyStatus: asking for the status it has is refused. *)
BeginStatus(c) ==
  /\ pc[c] = "idle"
  /\ \E p \in Policies :
       /\ policies[p] # None
       /\ Begin(c, "status", [goal |-> "status", policy |-> p, from |-> policies[p]])
  /\ UNCHANGED <<tables, engine, faults>>

SetPolicyStatus(c) ==
  /\ pc[c] = "status"
  /\ LET r == req[c] IN
       policies' = IF policies[r.policy] = r.from
                   THEN [policies EXCEPT ![r.policy] = CHOOSE s \in PolicyStatuses : s # r.from]
                   ELSE policies
  /\ Return(c)
  /\ UNCHANGED <<providers, types, versions, gates, engine, faults>>

-----------------------------------------------------------------------------
(* compileForPolicy, shared by an issuance and by provisioning ahead of any *)
(* offer: six reads, each a statement of its own, before the plan exists.   *)
BeginOnPolicy(c) ==
  /\ pc[c] = "idle"
  /\ \E p \in Policies, goal \in {"provision", "issue"} :
       /\ policies[p] = "ACTIVE"
       /\ Begin(c, "resolve", [goal |-> goal, policy |-> p])
  /\ UNCHANGED <<tables, engine, faults>>

Resolve(c) ==
  /\ pc[c] = "resolve"
  /\ LET n == ResolvePublishedVersion(req[c].policy) IN
       IF n > 0 THEN Await(c, "context", [n |-> n]) ELSE Return(c)
  /\ UNCHANGED <<tables, engine, faults>>

LoadIssuanceContext(c) ==
  /\ pc[c] = "context"
  /\ LET a == ProviderOf(req[c].policy, req[c].n)
         row == providers[a]
     IN IF row.engine # None /\ row.signing # None
        THEN Await(c, "inputs", [provider |-> a, engine |-> row.engine, signing |-> row.signing,
                                 certified |-> row.certified])
        ELSE Return(c)
  /\ UNCHANGED <<tables, engine, faults>>

(* issuerConfigurationInputs: the provider is read again, for its name and  *)
(* its access key.                                                          *)
ReadAccessKey(c) ==
  /\ pc[c] = "inputs"
  /\ Await(c, "published", [access |-> providers[req[c].provider].access])
  /\ UNCHANGED <<tables, engine, faults>>

(* The gates of every published version of an active policy of provider a.  *)
GatesOf(a) ==
  UNION {{versions[p][n].body.gate : n \in {m \in Published(p) : ProviderOf(p, m) = a}} :
           p \in {q \in Policies : policies[q] = "ACTIVE"}}

NeedsBuiltIn(found) == None \in found \/ found = {}

(* Mutated: the issuer's configuration is composed from the policy at hand. *)
ReadOwnGate(c) ==
  /\ pc[c] = "published"
  /\ LET found == {versions[req[c].policy][req[c].n].body.gate} IN
       Await(c, "gates", [gated |-> found \ {None}, builtIn |-> NeedsBuiltIn(found)])
  /\ UNCHANGED <<tables, engine, faults>>

ReadPublishedGates(c) ==
  /\ pc[c] = "published"
  /\ LET found == GatesOf(req[c].provider) IN
       Await(c, "gates", [gated |-> found \ {None}, builtIn |-> NeedsBuiltIn(found)])
  /\ UNCHANGED <<tables, engine, faults>>

(* Mutated: the presentations are named and never written. *)
FirstWriteIssuer(gated) == "issuer"

FirstWrite(gated) == IF gated = {} THEN "issuer" ELSE "presentations"

(* eligibilityPresentationFor, one read per gate, here taken together: what *)
(* is published stays so. Then the plan, and the check with which the       *)
(* adapter starts.                                                          *)
Compile(c) ==
  /\ pc[c] = "gates"
  /\ LET r == req[c]
         version == versions[r.policy][r.n]
         type == types[version.body.type]
         context == [engine |-> r.engine, signing |-> r.signing, access |-> r.access,
                     certified |-> r.certified, builtIn |-> r.builtIn,
                     gates |-> {[gate |-> g, version |-> gates[g]] : g \in r.gated}]
     IN IF \/ \E g \in r.gated : gates[g] = 0
           \/ CompileRefuses(version.status, type, r.provider)
           \/ r.gated # {} /\ r.access = None
        THEN Return(c)
        ELSE Await(c, FirstWrite(r.gated),
                   [plan |-> IssuancePlan(r.policy, r.n, version.body, type, context),
                    unwritten |-> context.gates])
  /\ UNCHANGED <<tables, engine, faults>>

-----------------------------------------------------------------------------
(* provisionCredentialConfiguration. Every POST replaces the object of that *)
(* identifier, or adds it.                                                  *)
WritePresentation(c) ==
  /\ pc[c] = "presentations"
  /\ LET context == req[c].plan.provider IN
       \E gate \in req[c].unwritten :
         /\ engine' = [engine EXCEPT ![context.engine].presentations =
                         {x \in @ : x.gate # gate} \cup {[gate |-> gate, key |-> context.access]}]
         /\ Await(c, IF req[c].unwritten = {gate} THEN "issuer" ELSE "presentations",
                  [unwritten |-> req[c].unwritten \ {gate}])
  /\ UNCHANGED <<tables, faults>>

(* Everything the metadata says of the issuer, from one view of it. *)
IssuerConfiguration(context) ==
  [builtIn |-> context.builtIn, gates |-> context.gates, certified |-> context.certified]

WriteIssuerConfiguration(c) ==
  /\ pc[c] = "issuer"
  /\ LET context == req[c].plan.provider IN
       engine' = [engine EXCEPT ![context.engine].issuer = IssuerConfiguration(context)]
  /\ Goto(c, "attributes")
  /\ UNCHANGED <<tables, faults>>

(* Patched when it is listed, posted when it is not: one object either way. *)
EnsureAttributeProvider(c) ==
  /\ pc[c] = "attributes"
  /\ engine' = [engine EXCEPT ![req[c].plan.provider.engine].attributes = TRUE]
  /\ Goto(c, "credential")
  /\ UNCHANGED <<tables, faults>>

(* What follows the last call of provisionCredentialConfiguration. *)
AfterProvisioning(c) == IF req[c].goal = "issue" THEN "offer" ELSE "superseded"

WriteCredential(c) ==
  /\ pc[c] = "credential"
  /\ LET plan == req[c].plan IN
       engine' = [engine EXCEPT ![plan.provider.engine].credentials =
                    {x \in @ : <<x.policy, x.version>> # <<plan.policy, plan.version>>}
                      \cup {CredentialConfiguration(plan)}]
  /\ Goto(c, IF req[c].plan.listed THEN "lists" ELSE AfterProvisioning(c))
  /\ UNCHANGED <<tables, faults>>

Unpinned(e, key) == {i \in DOMAIN engine[e].lists : engine[e].lists[i] # key}

(* pinStatusListSigningKey *)
ReadStatusLists(c) ==
  /\ pc[c] = "lists"
  /\ LET e == req[c].plan.provider.engine
         unpinned == Unpinned(e, req[c].signing)
     IN IF engine[e].lists = <<>> THEN Goto(c, "create")
        ELSE IF unpinned = {} THEN Goto(c, AfterProvisioning(c))
        ELSE Await(c, "pin", [unwritten |-> unpinned])
  /\ UNCHANGED <<tables, engine, faults>>

CreateStatusList(c) ==
  /\ pc[c] = "create"
  /\ engine' = [engine EXCEPT ![req[c].plan.provider.engine].lists = Append(@, req[c].signing)]
  /\ Goto(c, AfterProvisioning(c))
  /\ UNCHANGED <<tables, faults>>

PinStatusList(c) ==
  /\ pc[c] = "pin"
  /\ \E i \in req[c].unwritten :
       /\ engine' = [engine EXCEPT ![req[c].plan.provider.engine].lists[i] = req[c].signing]
       /\ Await(c, IF req[c].unwritten = {i} THEN AfterProvisioning(c) ELSE "pin",
                [unwritten |-> req[c].unwritten \ {i}])
  /\ UNCHANGED <<tables, faults>>

(* createCredentialOffer. An engine session is no issuer-level object; the  *)
(* engine refuses an offer of a configuration it does not have.             *)
CreateCredentialOffer(c) ==
  /\ pc[c] = "offer"
  /\ Return(c)
  /\ UNCHANGED <<tables, engine, faults>>

-----------------------------------------------------------------------------
(* provisionPolicy goes on to withdraw every other version of the policy,   *)
(* as it lists them now.                                                    *)
ListSuperseded(c) ==
  /\ pc[c] = "superseded"
  /\ LET others == Numbers(req[c].policy) \ {req[c].n} IN
       IF others = {} THEN Goto(c, "done")
       ELSE Await(c, "configured",
                  [obsolete |-> {[engine |-> req[c].engine, version |-> n] : n \in others}])
  /\ UNCHANGED <<tables, engine, faults>>

(* withdrawPolicy: a retired policy too. Each version is looked for on the  *)
(* tenant its provider has now.                                             *)
BeginWithdraw(c) ==
  /\ pc[c] = "idle"
  /\ \E p \in Policies :
       /\ policies[p] # None
       /\ Begin(c, "listed", [goal |-> "withdraw", policy |-> p])
  /\ UNCHANGED <<tables, engine, faults>>

ListProvisioned(c) ==
  /\ pc[c] = "listed"
  /\ LET p == req[c].policy
         on == [n \in Numbers(p) |-> providers[ProviderOf(p, n)].engine]
         placed == {n \in Numbers(p) : on[n] # None}
     IN IF placed = {} THEN Goto(c, "done")
        ELSE Await(c, "configured",
                   [obsolete |-> {[engine |-> on[n], version |-> n] : n \in placed}])
  /\ UNCHANGED <<tables, engine, faults>>

(* withdrawCredentialConfigurations, for one engine tenant. *)
ListConfigured(c) ==
  /\ pc[c] = "configured"
  /\ \E e \in {x.engine : x \in req[c].obsolete} :
       LET listed == {x.version : x \in {y \in engine[e].credentials : y.policy = req[c].policy}}
           here == {x \in req[c].obsolete : x.engine = e}
           rest == req[c].obsolete \ here
           found == {x \in here : x.version \in listed}
       IN Await(c, IF found # {} THEN "withdraw" ELSE IF rest # {} THEN "configured" ELSE "done",
                [obsolete |-> rest, found |-> found])
  /\ UNCHANGED <<tables, engine, faults>>

Withdraw(c) ==
  /\ pc[c] = "withdraw"
  /\ \E x \in req[c].found :
       /\ engine' = [engine EXCEPT ![x.engine].credentials =
                       {y \in @ : <<y.policy, y.version>> # <<req[c].policy, x.version>>}]
       /\ Await(c, IF req[c].found # {x} THEN "withdraw"
                   ELSE IF req[c].obsolete # {} THEN "configured" ELSE "done",
                [found |-> req[c].found \ {x}])
  /\ UNCHANGED <<tables, faults>>

(* The audit event, and the answer. *)
Finish(c) ==
  /\ pc[c] = "done"
  /\ Return(c)
  /\ UNCHANGED <<tables, engine, faults>>

-----------------------------------------------------------------------------
(* A statement or a call fails, or the process stops: whatever the request  *)
(* did so far stays, and nothing takes it further.                          *)
Fault(c) ==
  /\ pc[c] # "idle" /\ faults < MaxFaults
  /\ faults' = faults + 1
  /\ Return(c)
  /\ UNCHANGED <<tables, engine>>

Next ==
  \E c \in Clients :
    \/ CreateAttestationProvider(c) \/ CreateCredentialType(c) \/ CreatePolicy(c) \/ PublishGate(c)
    \/ ImportSigningCertificate(c) \/ ImportAccessCertificate(c) \/ FindTaken(c)
    \/ UpdateProvider(c) \/ ReleaseEngineTenant(c)
    \/ BeginVersion(c) \/ ListForNumber(c) \/ InsertVersion(c) \/ BeginStatus(c) \/ SetPolicyStatus(c)
    \/ BeginOnPolicy(c) \/ Resolve(c) \/ LoadIssuanceContext(c) \/ ReadAccessKey(c)
    \/ ReadPublishedGates(c) \/ Compile(c)
    \/ WritePresentation(c) \/ WriteIssuerConfiguration(c) \/ EnsureAttributeProvider(c)
    \/ WriteCredential(c) \/ ReadStatusLists(c) \/ CreateStatusList(c) \/ PinStatusList(c)
    \/ CreateCredentialOffer(c)
    \/ ListSuperseded(c) \/ BeginWithdraw(c) \/ ListProvisioned(c) \/ ListConfigured(c) \/ Withdraw(c)
    \/ Finish(c) \/ Fault(c)

Spec == Init /\ [][Next]_vars

-----------------------------------------------------------------------------
(* A provider has an engine tenant and a signing key of that tenant, or     *)
(* neither; its access key is of that tenant; and no two providers share    *)
(* one, however many requests claim it (provision: the keys are imported,   *)
(* the tenant looked up and the row updated by separate statements).        *)
ProviderIsWhole ==
  \A a \in {x \in Providers : providers[x] # None} :
    LET row == providers[a] IN
      /\ (row.engine = None) = (row.signing = None)
      /\ \A key \in {row.signing, row.access} \ {None} :
           key.engine = row.engine /\ key.n <= engine[key.engine].keys
      /\ row.engine # None => Holder(row.engine) = {a}

(* What the issuer's metadata lists is there: the presentation behind every *)
(* authorization server, and on the tenant itself the key of every          *)
(* credential and status list, through any fault and any race               *)
(* (provisionCredentialConfiguration writes them one call after another).   *)
ListedResolves ==
  \A e \in EngineTenants :
    /\ engine[e].issuer # None =>
         engine[e].issuer.gates \subseteq {x.gate : x \in engine[e].presentations}
    /\ \A x \in engine[e].credentials : x.key.engine = e /\ engine[e].issuer # None
    /\ \A i \in DOMAIN engine[e].lists : engine[e].lists[i].engine = e

(* Provisioning or issuing with nobody else at work leaves the engine       *)
(* tenant current, whatever failures, withdrawals and changes of keys came  *)
(* before: the greatest published version with the provider's signing key,  *)
(* the issuer's configuration of all its policies, every status list under  *)
(* that key; and a provisioning leaves no other version of the policy       *)
(* (provisionPolicy, provisionCredentialConfiguration).                     *)
ProvisionedAloneIsCurrent ==
  \A c \in Clients :
    pc[c] \in {"offer", "done"} /\ req[c].alone =>
      LET r == req[c]
          row == providers[r.provider]
          tenant == engine[row.engine]
          found == GatesOf(r.provider)
          offered == {x \in tenant.credentials : x.policy = r.policy}
          current == CredentialConfiguration(r.plan)
      IN /\ current.version = ResolvePublishedVersion(r.policy) /\ current.key = row.signing
         /\ current \in offered /\ (r.goal = "provision" => offered = {current})
         /\ tenant.issuer = [builtIn |-> NeedsBuiltIn(found),
                             gates |-> {[gate |-> g, version |-> gates[g]] : g \in found \ {None}},
                             certified |-> row.certified]
         /\ r.plan.listed => tenant.lists # <<>> /\ Unpinned(row.engine, row.signing) = {}

(* Policy versions are numbered 1, 2, 3 and never change once inserted,     *)
(* although createVersion takes its number from an earlier read.            *)
IssuanceVersionsAreSettled ==
  [][\A p \in Policies :
       /\ Numbers(p)' = 1 .. Cardinality(Numbers(p)')
       /\ \A n \in Numbers(p) : versions'[p][n] = versions[p][n]]_vars

(* For every valid type of the examples and every answer of a source, what  *)
(* the platform does not refuse it narrows to exactly the declared claims   *)
(* (narrowToDeclaredClaims), and an issuer is reported as authenticating    *)
(* only on a signed document with both certificates. The first state stands *)
(* for all: the rules depend on no variable.                                *)
IssuanceRulesMeetTheirReference ==
  (\A a \in Providers : providers[a] = None) =>
    /\ \A type \in Examples, attributes \in Sources :
         TypeViolations(type) = {} /\ ~NarrowingRefused(attributes, type.claims)
           => IssuesWhatIsDeclared(type, attributes)
    /\ \A metadata \in IssuerMetadata, days \in {None, 0, 1} :
         AuthenticationReport(metadata, days).authenticates
           => /\ metadata.signed # None /\ metadata.signed.readable
              /\ metadata.signed.x5c /\ metadata.signed.certified
=============================================================================
