---------------------- MODULE IssuerProvisioning_proofs ----------------------
(***************************************************************************)
(* Setting up an issuer and keeping its engine tenant in step, proved for  *)
(* every number of requests, providers, types, policies, versions, gates   *)
(* and engine tenants. The argument: rows and keys are only added to, so a *)
(* key a request holds stays held and a row it has read stays there; an    *)
(* object of an engine tenant is written after whatever it refers to, by   *)
(* the same request and to the same tenant (Stands); and as long as a      *)
(* request is alone, what it has read and written is what is there         *)
(* (IsCurrent).                                                            *)
(***************************************************************************)
EXTENDS IssuerProvisioning, WellFoundedInduction, FiniteSetTheorems, TLAPS

-----------------------------------------------------------------------------
(* The inductive invariant: rows *)

RowsTyped ==
  /\ providers \in [Providers -> ProviderRows \cup {None}]
  /\ types \in [Types -> TypeRows \cup {None}]
  /\ policies \in [Policies -> PolicyStatuses \cup {None}]
  /\ versions \in [Policies -> [1 .. MaxVersions -> VersionRows]]
  /\ gates \in [Gates -> 0 .. MaxGateVersions]

(* A version is of a type there is, and that of a provider there is; the    *)
(* versions of a policy are numbered without a gap.                         *)
RowsRefer ==
  /\ \A p \in Policies : \A n \in Numbers(p) :
       types[versions[p][n].body.type] # None /\ 1 .. n \subseteq Numbers(p)
  /\ \A t \in Types : types[t] # None => providers[types[t].provider] # None

(* A key the engine tenant has imported. *)
IsHeld(key, e) ==
  e \in EngineTenants /\ key \in KeyRefs /\ key.engine = e /\ key.n <= engine[e].keys

(* The columns that are set belong together. *)
IsWhole(row) ==
  /\ row.engine # None => IsHeld(row.signing, row.engine)
  /\ row.engine = None => row.signing = None /\ row.access = None
  /\ row.access # None => IsHeld(row.access, row.engine)

ProvidersAreWhole ==
  \A a \in Providers : providers[a] # None =>
    /\ IsWhole(providers[a])
    /\ \A b \in Providers :
         providers[b] # None /\ providers[b].engine = providers[a].engine /\ providers[a].engine # None
           => a = b

-----------------------------------------------------------------------------
(* The inductive invariant: engine tenants *)

GatesOn(tenant) == {x.gate : x \in tenant.presentations}

IsTenant(tenant) ==
  /\ tenant = [keys |-> tenant.keys, presentations |-> tenant.presentations,
               issuer |-> tenant.issuer, attributes |-> tenant.attributes,
               credentials |-> tenant.credentials, lists |-> tenant.lists]
  /\ tenant.keys \in 0 .. MaxKeys
  /\ tenant.issuer \in IssuerConfigurations \cup {None}
  /\ tenant.lists \in Seq(KeyRefs)

(* Whatever refers to an object is written after it. *)
TenantResolves(tenant, e) ==
  /\ tenant.issuer # None => tenant.issuer.gates \subseteq GatesOn(tenant)
  /\ \A x \in tenant.credentials : x.key.engine = e /\ tenant.issuer # None
  /\ \A i \in DOMAIN tenant.lists : tenant.lists[i].engine = e

(* One credential configuration for a version, and of a version there is.   *)
CredentialsAreVersions(tenant) ==
  /\ \A x \in tenant.credentials : x.policy \in Policies /\ x.version \in Numbers(x.policy)
  /\ \A x, y \in tenant.credentials : x.policy = y.policy /\ x.version = y.version => x = y

IsSound(tenant, e) ==
  IsTenant(tenant) /\ TenantResolves(tenant, e) /\ CredentialsAreVersions(tenant)

EngineSound ==
  DOMAIN engine = EngineTenants /\ \A e \in EngineTenants : IsSound(engine[e], e)

-----------------------------------------------------------------------------
(* The inductive invariant: what a request with local variables r holds,    *)
(* and has read or written, when it awaits label                            *)

Claims(label, r) ==
  label \in {"access", "taken", "update"} =>
    /\ {"provider", "certified", "access", "engine", "signing"} \subseteq DOMAIN r
    /\ r.provider \in Providers /\ providers[r.provider] # None
    /\ r.certified \in BOOLEAN
    /\ IsHeld(r.signing, r.engine)
    /\ r.access = None \/ IsHeld(r.access, r.engine)

Versioning(label, r) ==
  /\ label \in {"number", "insert"} =>
       /\ {"policy", "body", "status"} \subseteq DOMAIN r
       /\ r.policy \in Policies /\ r.body \in Bodies /\ r.status \in {"DRAFT", "PUBLISHED"}
       /\ types[r.body.type] # None
  /\ label = "insert" =>
       /\ "n" \in DOMAIN r
       /\ r.n \in 1 .. MaxVersions /\ 1 .. r.n - 1 \subseteq Numbers(r.policy)

AfterCompile == {"presentations", "issuer", "attributes", "credential", "lists", "create", "pin",
                 "offer", "superseded"}

AfterResolve == AfterCompile \cup {"context", "inputs", "published", "gates"}

(* The plan is of the version and for the engine tenant that were read. *)
IsPlan(plan, r) ==
  /\ plan.policy = r.policy /\ plan.version = r.n
  /\ plan.provider.engine = r.engine /\ plan.provider.signing = r.signing
  /\ plan.provider.gates \subseteq GateVersions
  /\ plan.provider.builtIn \in BOOLEAN /\ plan.provider.certified \in BOOLEAN

Compiling(label, r) ==
  /\ label \in AfterResolve \cup {"resolve"} =>
       {"goal", "policy"} \subseteq DOMAIN r /\ r.policy \in Policies
  /\ label \in AfterResolve => "n" \in DOMAIN r /\ r.n \in Numbers(r.policy)
  /\ label \in AfterResolve \ {"context"} =>
       /\ {"provider", "engine", "signing", "certified"} \subseteq DOMAIN r
       /\ r.provider \in Providers /\ r.certified \in BOOLEAN
       /\ IsHeld(r.signing, r.engine)
  /\ label \in {"published", "gates"} => "access" \in DOMAIN r
  /\ label = "gates" =>
       {"gated", "builtIn"} \subseteq DOMAIN r /\ r.gated \subseteq Gates /\ r.builtIn \in BOOLEAN
  /\ label \in AfterCompile => {"plan", "unwritten"} \subseteq DOMAIN r /\ IsPlan(r.plan, r)

Writing(label, r) ==
  /\ label = "presentations" =>
       /\ r.unwritten \subseteq r.plan.provider.gates
       /\ r.plan.provider.gates \ r.unwritten \subseteq GatesOn(engine[r.engine])
  /\ label \in {"issuer", "attributes", "credential"} => r.plan.provider.gates \subseteq GatesOn(engine[r.engine])
  /\ label \in {"attributes", "credential"} => engine[r.engine].issuer # None

Stands(label, r) ==
  Claims(label, r) /\ Versioning(label, r) /\ Compiling(label, r) /\ Writing(label, r)

RequestsTyped ==
  /\ DOMAIN pc = Clients /\ DOMAIN req = Clients
  /\ \A c \in Clients : "alone" \in DOMAIN req[c] /\ req[c].alone \in BOOLEAN

IInv ==
  /\ RowsTyped /\ RowsRefer /\ ProvidersAreWhole
  /\ EngineSound
  /\ RequestsTyped /\ \A c \in Clients : Stands(pc[c], req[c])

-----------------------------------------------------------------------------
(* As long as a request is alone, what it has read and written is what is   *)
(* there                                                                    *)

Late == {"configured", "withdraw", "done"}

IssuerNow(a) ==
  LET found == GatesOf(a) IN
    [builtIn |-> NeedsBuiltIn(found),
     gates |-> {[gate |-> g, version |-> gates[g]] : g \in found \ {None}},
     certified |-> providers[a].certified]

(* What it has read. *)
IsRead(label, r) ==
  /\ label \in AfterResolve \cup Late \cup {"resolve"}
  /\ "goal" \in DOMAIN r /\ r.goal = IF label \in Late \cup {"superseded"} THEN "provision"
                 ELSE IF label = "offer" THEN "issue" ELSE r.goal
  /\ r.goal \in {"provision", "issue"}
  /\ label \in Late => Compiling("superseded", r)
  /\ label \in AfterResolve \cup Late => r.n = ResolvePublishedVersion(r.policy)
  /\ label \in (AfterResolve \ {"context"}) \cup Late =>
       LET row == providers[r.provider] IN
         row.engine = r.engine /\ row.signing = r.signing /\ row.certified = r.certified
  /\ label = "gates" =>
       LET found == GatesOf(r.provider) IN
         r.gated = found \ {None} /\ r.builtIn = NeedsBuiltIn(found)
  /\ label \in AfterCompile \cup Late => IssuerConfiguration(r.plan.provider) = IssuerNow(r.provider)

Others(tenant, r) == {x \in tenant.credentials : x.policy = r.policy /\ x.version # r.n}

AfterIssuer == {"attributes", "credential"}
AfterCredential == {"lists", "create", "pin"}
AfterAll == {"offer", "superseded"} \cup Late

(* What it has written to its engine tenant. *)
IsWritten(label, r, tenant) ==
  /\ label \in AfterIssuer \cup AfterCredential \cup AfterAll =>
       tenant.issuer = IssuerConfiguration(r.plan.provider)
  /\ label \in AfterCredential \cup AfterAll => CredentialConfiguration(r.plan) \in tenant.credentials
  /\ label = "create" => tenant.lists = <<>>
  /\ label = "pin" =>
       /\ tenant.lists # <<>>
       /\ r.unwritten = {i \in DOMAIN tenant.lists : tenant.lists[i] # r.signing}
  /\ label \in AfterAll /\ r.plan.listed =>
       tenant.lists # <<>> /\ \A i \in DOMAIN tenant.lists : tenant.lists[i] = r.signing
  /\ label = "configured" =>
       /\ \A x \in r.obsolete : x.engine = r.engine /\ x.version # r.n
       /\ \A x \in Others(tenant, r) : \E y \in r.obsolete : y.version = x.version
  /\ label = "withdraw" =>
       /\ "obsolete" \in DOMAIN r /\ r.obsolete = {}
       /\ \A x \in r.found : x.engine = r.engine /\ x.version # r.n
       /\ \A x \in Others(tenant, r) : \E y \in r.found : y.version = x.version
  /\ label = "done" => Others(tenant, r) = {}

IsCurrent(c) ==
  req[c].alone =>
    /\ \A d \in Clients \ {c} : pc[d] = "idle"
    /\ IsRead(pc[c], req[c])
    /\ pc[c] \in AfterCompile \cup Late => IsWritten(pc[c], req[c], engine[req[c].engine])

AloneInv == \A c \in Clients : IsCurrent(c)

-----------------------------------------------------------------------------
(* Operators *)

(* A set of numbers up to n that is not empty has a greatest. *)
LEMMA GreatestExists ==
  ASSUME NEW S, NEW n \in Nat, S \subseteq 1 .. n, S # {}
  PROVE  \E m \in S : \A k \in S : m >= k
<1>. DEFINE R == OpToRel(<, Nat)
            T == {n - m : m \in S}
<1>1. \A m \in S : m \in 1 .. n /\ n - m \in Nat
  OBVIOUS
<1>2. T \subseteq Nat /\ T # {}
  BY <1>1
<1>3. PICK x \in T : \A y \in T : ~(<<y, x>> \in R)
  BY <1>2, WFMin, NatLessThanWellFounded
<1>4. PICK m \in S : x = n - m
  OBVIOUS
<1>5. \A k \in S : ~(n - k < n - m)
  BY <1>2, <1>3, <1>4 DEF OpToRel
<1>6. QED
  BY <1>1, <1>5

LEMMA GreatestIsGreatest ==
  ASSUME NEW S, NEW n \in Nat, S \subseteq 1 .. n
  PROVE  /\ S = {} => Greatest(S) = 0
         /\ S # {} => Greatest(S) \in S
         /\ \A m \in S : m <= Greatest(S)
         /\ Greatest(S) \in 0 .. n
<1>1. CASE S = {}
  BY <1>1 DEF Greatest
<1>2. CASE S # {}
  <2>1. \E m \in S : \A k \in S : m >= k
    BY <1>2, GreatestExists
  <2>2. Greatest(S) \in S /\ \A m \in S : Greatest(S) >= m
    BY <1>2, <2>1 DEF Greatest
  <2>3. Greatest(S) \in 1 .. n /\ \A m \in S : m \in 1 .. n
    BY <2>2
  <2>4. \A m \in S : m <= Greatest(S)
    BY <2>2, <2>3
  <2>5. Greatest(S) \in 0 .. n
    BY <2>3
  <2>6. QED
    BY <1>2, <2>2, <2>4, <2>5
<1>3. QED
  BY <1>1, <1>2

-----------------------------------------------------------------------------
(* Rows *)

RowsGrow ==
  /\ \A a \in Providers : providers[a] # None => providers'[a] # None
  /\ \A t \in Types : types[t] # None => types'[t] = types[t]
  /\ \A p \in Policies : \A n \in Numbers(p) : n \in Numbers(p)' /\ versions'[p][n] = versions[p][n]

RowsRight == RowsTyped /\ RowsRefer

LEMMA ProvidersWritten ==
  ASSUME RowsRight, NEW a \in Providers, NEW row \in ProviderRows,
         providers' = [providers EXCEPT ![a] = row], UNCHANGED <<types, policies, versions, gates>>
  PROVE  RowsRight' /\ RowsGrow
<1>1. row # None
  BY ProvisioningAssumption
<1>2. providers' \in [Providers -> ProviderRows \cup {None}]
  BY DEF RowsRight, RowsTyped
<1>3. \A b \in Providers : providers[b] # None => providers'[b] # None
  BY <1>1 DEF RowsRight, RowsTyped
<1>4. \A t \in Types : types[t] # None => types[t].provider \in Providers
  BY ProvisioningAssumption DEF RowsRight, RowsTyped
<1>5. \A p \in Policies : Numbers(p)' = Numbers(p)
  BY DEF Numbers
<1>6. RowsTyped'
  BY <1>2 DEF RowsRight, RowsTyped
<1>7. RowsRefer'
  BY <1>3, <1>4, <1>5 DEF RowsRight, RowsRefer
<1>8. QED
  BY <1>3, <1>5, <1>6, <1>7 DEF RowsRight, RowsGrow

LEMMA TypeWritten ==
  ASSUME RowsRight, NEW t \in Types, NEW row \in TypeRows, types[t] = None,
         providers[row.provider] # None,
         types' = [types EXCEPT ![t] = row], UNCHANGED <<providers, policies, versions, gates>>
  PROVE  RowsRight' /\ RowsGrow
<1>1. RowsTyped'
  BY DEF RowsRight, RowsTyped
<1>2. \A p \in Policies : Numbers(p)' = Numbers(p)
  BY DEF Numbers
<1>3. types'[t] = row /\ \A u \in Types : u # t => types'[u] = types[u]
  BY DEF RowsRight, RowsTyped
<1>4. \A u \in Types : types[u] # None => types'[u] = types[u]
  BY <1>3
<1>5. ASSUME NEW p \in Policies, NEW n \in Numbers(p) PROVE versions[p][n].body.type \in Types
  <2>1. versions[p] \in [1 .. MaxVersions -> VersionRows] /\ n \in 1 .. MaxVersions
    BY <1>5 DEF RowsRight, RowsTyped, Numbers
  <2>2. versions[p][n] \in [status : {"DRAFT", "PUBLISHED"}, body : Bodies]
    BY <1>5, <2>1 DEF Numbers, VersionRows
  <2>3. QED
    BY <2>2, ProvisioningAssumption
<1>6. RowsRefer'
  <2>1. \A u \in Types : types'[u] # None => providers'[types'[u].provider] # None
    BY <1>3 DEF RowsRight, RowsRefer
  <2>2. \A p \in Policies : \A n \in Numbers(p) :
          types'[versions[p][n].body.type] # None /\ 1 .. n \subseteq Numbers(p)
    BY <1>4, <1>5 DEF RowsRight, RowsRefer
  <2>3. QED
    BY <1>2, <2>1, <2>2 DEF RowsRefer
<1>7. QED
  BY <1>1, <1>2, <1>4, <1>6 DEF RowsRight, RowsGrow

LEMMA PolicyOrGateWritten ==
  ASSUME RowsRight, policies' \in [Policies -> PolicyStatuses \cup {None}],
         gates' \in [Gates -> 0 .. MaxGateVersions], UNCHANGED <<providers, types, versions>>
  PROVE  RowsRight' /\ RowsGrow
BY DEF RowsRight, RowsTyped, RowsRefer, RowsGrow, Numbers

LEMMA VersionInserted ==
  ASSUME RowsRight, NEW p \in Policies, NEW n \in 1 .. MaxVersions, versions[p][n] = None,
         NEW row \in [status : {"DRAFT", "PUBLISHED"}, body : Bodies],
         types[row.body.type] # None, 1 .. n - 1 \subseteq Numbers(p),
         versions' = [versions EXCEPT ![p][n] = row],
         UNCHANGED <<providers, types, policies, gates>>
  PROVE  RowsRight' /\ RowsGrow
<1>1. row # None /\ row \in VersionRows
  BY ProvisioningAssumption DEF VersionRows
<1>2. /\ versions'[p] = [versions[p] EXCEPT ![n] = row]
      /\ \A q \in Policies : q # p => versions'[q] = versions[q]
      /\ versions' \in [Policies -> [1 .. MaxVersions -> VersionRows]]
  BY <1>1 DEF RowsRight, RowsTyped
<1>3. /\ versions'[p][n] = row
      /\ \A m \in 1 .. MaxVersions : m # n => versions'[p][m] = versions[p][m]
  BY <1>2 DEF RowsRight, RowsTyped
<1>4. /\ Numbers(p)' = Numbers(p) \cup {n} /\ n \notin Numbers(p)
      /\ \A q \in Policies : q # p => Numbers(q)' = Numbers(q)
  BY <1>1, <1>2, <1>3 DEF Numbers
<1>5. RowsGrow
  BY <1>2, <1>3, <1>4 DEF RowsGrow, Numbers
<1>6. ASSUME NEW m \in Numbers(p)'
      PROVE  types[versions'[p][m].body.type] # None /\ 1 .. m \subseteq Numbers(p)'
  <2>1. CASE m = n
    <3>1. 1 .. n \subseteq (1 .. n - 1) \cup {n}
      OBVIOUS
    <3>2. QED
      BY <1>3, <1>4, <2>1, <3>1
  <2>2. CASE m # n
    BY <1>3, <1>4, <2>2 DEF RowsRight, RowsRefer, Numbers
  <2>3. QED
    BY <2>1, <2>2
<1>7. RowsRefer'
  BY <1>2, <1>4, <1>6 DEF RowsRight, RowsRefer
<1>8. RowsTyped'
  BY <1>2 DEF RowsRight, RowsTyped
<1>9. QED
  BY <1>5, <1>7, <1>8 DEF RowsRight

(* Every step leaves the rows well typed, and what was there. *)
LEMMA RowsStep ==
  ASSUME IInv, [Next]_vars
  PROVE  RowsRight' /\ RowsGrow
<1>1. RowsRight /\ \A c \in Clients : Stands(pc[c], req[c])
  BY DEF IInv, RowsRight
<1>2. CASE UNCHANGED tables
  BY <1>1, <1>2 DEF tables, RowsRight, RowsTyped, RowsRefer, RowsGrow, Numbers
<1>3. ASSUME NEW c \in Clients, CreateAttestationProvider(c) PROVE RowsRight' /\ RowsGrow
  <2>1. Registered \in ProviderRows
    BY DEF Registered, ProviderRows
  <2>2. QED
    BY <1>1, <1>3, <2>1, ProvidersWritten DEF CreateAttestationProvider
<1>4. ASSUME NEW c \in Clients, CreateCredentialType(c) PROVE RowsRight' /\ RowsGrow
  BY <1>1, <1>4, TypeWritten DEF CreateCredentialType
<1>5. ASSUME NEW c \in Clients, CreatePolicy(c) \/ PublishGate(c) \/ SetPolicyStatus(c)
      PROVE  RowsRight' /\ RowsGrow
  <2>1. /\ policies \in [Policies -> PolicyStatuses \cup {None}]
        /\ gates \in [Gates -> 0 .. MaxGateVersions] /\ MaxGateVersions \in Nat
    BY <1>1, ProvisioningAssumption DEF RowsRight, RowsTyped
  <2>2. UNCHANGED <<providers, types, versions>>
    BY <1>5 DEF CreatePolicy, PublishGate, SetPolicyStatus
  <2>3. policies' \in [Policies -> PolicyStatuses \cup {None}]
    <3>1. \A from : (CHOOSE s \in PolicyStatuses : s # from) \in PolicyStatuses
      <4>1. \A from : \E s \in PolicyStatuses : s # from
        <5>1. "ACTIVE" \in PolicyStatuses /\ "RETIRED" \in PolicyStatuses /\ "ACTIVE" # "RETIRED"
          BY DEF PolicyStatuses
        <5>2. QED
          BY <5>1
      <4>2. QED
        BY <4>1
    <3>2. CASE CreatePolicy(c)
      BY <2>1, <3>2 DEF CreatePolicy, PolicyStatuses
    <3>3. CASE PublishGate(c)
      BY <2>1, <3>3 DEF PublishGate
    <3>4. CASE SetPolicyStatus(c)
      <4>1. PICK p, status : p = req[c].policy /\ status = CHOOSE s \in PolicyStatuses : s # req[c].from
        OBVIOUS
      <4>2. policies' = [policies EXCEPT ![p] = status] \/ policies' = policies
        BY <3>4, <4>1 DEF SetPolicyStatus
      <4>3. status \in PolicyStatuses
        BY <3>1, <4>1
      <4>4. QED
        BY <2>1, <4>2, <4>3
    <3>5. QED
      BY <1>5, <3>2, <3>3, <3>4
  <2>4. gates' \in [Gates -> 0 .. MaxGateVersions]
    BY <1>5, <2>1 DEF CreatePolicy, PublishGate, SetPolicyStatus
  <2>5. QED
    BY <1>1, <2>2, <2>3, <2>4, PolicyOrGateWritten
<1>6. ASSUME NEW c \in Clients, UpdateProvider(c), providers' # providers
      PROVE  RowsRight' /\ RowsGrow
  <2>1. PICK r : r = req[c]
    OBVIOUS
  <2>2. /\ r.provider \in Providers /\ r.certified \in BOOLEAN /\ IsHeld(r.signing, r.engine)
        /\ r.access = None \/ IsHeld(r.access, r.engine)
    BY <1>1, <1>6, <2>1 DEF UpdateProvider, Stands, Claims
  <2>3. Provisioned(r) \in ProviderRows
    BY <2>2 DEF Provisioned, ProviderRows, IsHeld
  <2>4. /\ providers' = [providers EXCEPT ![r.provider] = Provisioned(r)]
        /\ UNCHANGED <<types, policies, versions, gates>>
    BY <1>6, <2>1 DEF UpdateProvider
  <2>5. QED
    BY <1>1, <2>2, <2>3, <2>4, ProvidersWritten
<1>7. ASSUME NEW c \in Clients, ReleaseEngineTenant(c) PROVE RowsRight' /\ RowsGrow
  <2>1. PICK a \in Providers :
          /\ providers[a] # None
          /\ providers' = [providers EXCEPT ![a].engine = None, ![a].signing = None, ![a].access = None]
          /\ UNCHANGED <<types, policies, versions, gates>>
    BY <1>7 DEF ReleaseEngineTenant
  <2>2. PICK row : row = [providers[a] EXCEPT !.engine = None, !.signing = None, !.access = None]
    OBVIOUS
  <2>3. providers[a] \in ProviderRows
    BY <1>1, <2>1 DEF RowsRight, RowsTyped
  <2>4. row \in ProviderRows
    BY <2>2, <2>3 DEF ProviderRows
  <2>5. providers' = [providers EXCEPT ![a] = row]
    BY <1>1, <2>1, <2>2 DEF RowsRight, RowsTyped
  <2>6. QED
    BY <1>1, <2>1, <2>4, <2>5, ProvidersWritten
<1>8. ASSUME NEW c \in Clients, InsertVersion(c), versions' # versions
      PROVE  RowsRight' /\ RowsGrow
  <2>1. PICK r, row : r = req[c] /\ row = [status |-> r.status, body |-> r.body]
    OBVIOUS
  <2>2. /\ r.policy \in Policies /\ r.body \in Bodies /\ r.status \in {"DRAFT", "PUBLISHED"}
        /\ types[r.body.type] # None
        /\ r.n \in 1 .. MaxVersions /\ 1 .. r.n - 1 \subseteq Numbers(r.policy)
    BY <1>1, <1>8, <2>1 DEF InsertVersion, Stands, Versioning
  <2>3. /\ versions[r.policy][r.n] = None /\ versions' = [versions EXCEPT ![r.policy][r.n] = row]
        /\ UNCHANGED <<providers, types, policies, gates>>
    BY <1>8, <2>1 DEF InsertVersion
  <2>4. row \in [status : {"DRAFT", "PUBLISHED"}, body : Bodies] /\ row.body = r.body
    BY <2>1, <2>2
  <2>5. QED
    BY <1>1, <2>2, <2>3, <2>4, VersionInserted
<1>9. ASSUME NEW c \in Clients,
             \/ ImportSigningCertificate(c) \/ ImportAccessCertificate(c) \/ FindTaken(c)
             \/ BeginVersion(c) \/ ListForNumber(c) \/ BeginStatus(c)
             \/ BeginOnPolicy(c) \/ Resolve(c) \/ LoadIssuanceContext(c) \/ ReadAccessKey(c)
             \/ ReadPublishedGates(c) \/ Compile(c)
      PROVE  UNCHANGED tables
  BY <1>9 DEF ImportSigningCertificate, ImportAccessCertificate, FindTaken, BeginVersion,
     ListForNumber, BeginStatus, BeginOnPolicy, Resolve, LoadIssuanceContext, ReadAccessKey,
     ReadPublishedGates, Compile
<1>10. ASSUME NEW c \in Clients,
             \/ WritePresentation(c) \/ WriteIssuerConfiguration(c) \/ EnsureAttributeProvider(c)
             \/ WriteCredential(c) \/ ReadStatusLists(c) \/ CreateStatusList(c) \/ PinStatusList(c)
             \/ CreateCredentialOffer(c) \/ ListSuperseded(c) \/ BeginWithdraw(c)
             \/ ListProvisioned(c) \/ ListConfigured(c) \/ Withdraw(c) \/ Finish(c) \/ Fault(c)
      PROVE  UNCHANGED tables
  BY <1>10 DEF WritePresentation, WriteIssuerConfiguration, EnsureAttributeProvider,
     WriteCredential, ReadStatusLists, CreateStatusList, PinStatusList, CreateCredentialOffer,
     ListSuperseded, BeginWithdraw, ListProvisioned, ListConfigured, Withdraw, Finish, Fault
<1>11. ASSUME NEW c \in Clients, \/ UpdateProvider(c) /\ providers' = providers
                                 \/ InsertVersion(c) /\ versions' = versions
       PROVE  UNCHANGED tables
  BY <1>11 DEF UpdateProvider, InsertVersion, tables
<1>12. CASE UNCHANGED vars
  BY <1>2, <1>12 DEF vars, tables
<1>13. QED
  BY <1>2, <1>3, <1>4, <1>5, <1>6, <1>7, <1>8, <1>9, <1>10, <1>11, <1>12 DEF Next

-----------------------------------------------------------------------------
(* Engine tenants *)

TenantGrows(old, new) ==
  /\ new.keys >= old.keys
  /\ GatesOn(old) \subseteq GatesOn(new)
  /\ old.issuer # None => new.issuer # None

TenantsGrow == \A e \in EngineTenants : TenantGrows(engine[e], engine'[e])

LEMMA TenantUntouched ==
  ASSUME NEW tenant, IsTenant(tenant)
  PROVE  TenantGrows(tenant, tenant)
BY DEF IsTenant, TenantGrows

LEMMA TenantWritten ==
  ASSUME EngineSound, UNCHANGED tables, NEW e \in EngineTenants, NEW tenant,
         IsSound(tenant, e), TenantGrows(engine[e], tenant),
         engine' = [engine EXCEPT ![e] = tenant]
  PROVE  EngineSound' /\ TenantsGrow
<1>1. /\ DOMAIN engine' = EngineTenants /\ engine'[e] = tenant
      /\ \A f \in EngineTenants : f # e => engine'[f] = engine[f]
  BY DEF EngineSound
<1>2. TenantsGrow
  BY <1>1, TenantUntouched DEF EngineSound, IsSound, TenantsGrow
<1>3. \A t, f : IsSound(t, f)' <=> IsSound(t, f)
  <2>1. \A p : Numbers(p)' = Numbers(p)
    BY DEF tables, Numbers
  <2>2. QED
    BY <2>1 DEF IsSound, IsTenant, TenantResolves, CredentialsAreVersions, GatesOn
<1>4. \A f \in EngineTenants : IsSound(engine'[f], f)
  BY <1>1 DEF EngineSound
<1>5. QED
  BY <1>1, <1>2, <1>3, <1>4 DEF EngineSound

LEMMA KeysImported ==
  ASSUME EngineSound, UNCHANGED tables, NEW e \in EngineTenants, engine[e].keys < MaxKeys,
         engine' = [engine EXCEPT ![e].keys = @ + 1]
  PROVE  EngineSound' /\ TenantsGrow /\ engine'[e].keys = engine[e].keys + 1
<1>1. PICK old, new : old = engine[e] /\ new = [old EXCEPT !.keys = old.keys + 1]
  OBVIOUS
<1>2. engine' = [engine EXCEPT ![e] = new] /\ IsSound(old, e)
  BY <1>1 DEF EngineSound
<1>3. old.keys \in 0 .. MaxKeys /\ old.keys < MaxKeys /\ MaxKeys \in Nat
  BY <1>1, <1>2, ProvisioningAssumption DEF IsSound, IsTenant
<1>4. /\ new = [keys |-> old.keys + 1, presentations |-> old.presentations,
                issuer |-> old.issuer, attributes |-> old.attributes,
                credentials |-> old.credentials, lists |-> old.lists]
  BY <1>1, <1>2 DEF IsSound, IsTenant
<1>5. IsSound(new, e) /\ TenantGrows(old, new)
  BY <1>2, <1>3, <1>4 DEF IsSound, IsTenant, TenantResolves, CredentialsAreVersions, TenantGrows, GatesOn
<1>6. engine'[e] = new
  BY <1>2 DEF EngineSound
<1>7. QED
  BY <1>1, <1>2, <1>4, <1>5, <1>6, TenantWritten

LEMMA PresentationWritten ==
  ASSUME EngineSound, UNCHANGED tables, NEW e \in EngineTenants, NEW gate, NEW key,
         engine' = [engine EXCEPT ![e].presentations = {x \in @ : x.gate # gate}
                                                         \cup {[gate |-> gate, key |-> key]}]
  PROVE  EngineSound' /\ TenantsGrow /\ gate \in GatesOn(engine'[e])
<1>1. PICK old, row, new : /\ old = engine[e] /\ row = [gate |-> gate, key |-> key]
                           /\ new = [old EXCEPT !.presentations = {x \in old.presentations : x.gate # gate}
                                                                    \cup {row}]
  OBVIOUS
<1>2. engine' = [engine EXCEPT ![e] = new] /\ IsSound(old, e)
  BY <1>1 DEF EngineSound
<1>3. /\ new = [keys |-> old.keys, presentations |-> new.presentations,
                issuer |-> old.issuer, attributes |-> old.attributes,
                credentials |-> old.credentials, lists |-> old.lists]
      /\ new.presentations = {x \in old.presentations : x.gate # gate} \cup {row}
      /\ row.gate = gate
  BY <1>1, <1>2 DEF IsSound, IsTenant
<1>4. GatesOn(old) \subseteq GatesOn(new) /\ gate \in GatesOn(new)
  BY <1>3 DEF GatesOn
<1>5. IsSound(new, e) /\ TenantGrows(old, new)
  BY <1>2, <1>3, <1>4 DEF IsSound, IsTenant, TenantResolves, CredentialsAreVersions, TenantGrows
<1>6. engine'[e] = new
  BY <1>2 DEF EngineSound
<1>7. QED
  BY <1>1, <1>2, <1>4, <1>5, <1>6, TenantWritten

LEMMA IssuerWritten ==
  ASSUME EngineSound, UNCHANGED tables, NEW e \in EngineTenants, NEW issuer \in IssuerConfigurations,
         issuer.gates \subseteq GatesOn(engine[e]),
         engine' = [engine EXCEPT ![e].issuer = issuer]
  PROVE  EngineSound' /\ TenantsGrow /\ engine'[e].issuer = issuer
<1>1. PICK old, new : old = engine[e] /\ new = [old EXCEPT !.issuer = issuer]
  OBVIOUS
<1>2. engine' = [engine EXCEPT ![e] = new] /\ IsSound(old, e)
  BY <1>1 DEF EngineSound
<1>3. /\ new = [keys |-> old.keys, presentations |-> old.presentations,
                issuer |-> issuer, attributes |-> old.attributes,
                credentials |-> old.credentials, lists |-> old.lists]
      /\ issuer # None
  BY <1>1, <1>2, ProvisioningAssumption DEF IsSound, IsTenant
<1>4. IsSound(new, e) /\ TenantGrows(old, new)
  BY <1>1, <1>2, <1>3 DEF IsSound, IsTenant, TenantResolves, CredentialsAreVersions, TenantGrows, GatesOn
<1>5. engine'[e] = new
  BY <1>2 DEF EngineSound
<1>6. QED
  BY <1>1, <1>2, <1>3, <1>4, <1>5, TenantWritten

LEMMA AttributesWritten ==
  ASSUME EngineSound, UNCHANGED tables, NEW e \in EngineTenants, NEW attributes,
         engine' = [engine EXCEPT ![e].attributes = attributes]
  PROVE  EngineSound' /\ TenantsGrow
<1>1. PICK old, new : old = engine[e] /\ new = [old EXCEPT !.attributes = attributes]
  OBVIOUS
<1>2. engine' = [engine EXCEPT ![e] = new] /\ IsSound(old, e)
  BY <1>1 DEF EngineSound
<1>3. new = [keys |-> old.keys, presentations |-> old.presentations,
             issuer |-> old.issuer, attributes |-> attributes,
             credentials |-> old.credentials, lists |-> old.lists]
  BY <1>1, <1>2 DEF IsSound, IsTenant
<1>4. IsSound(new, e) /\ TenantGrows(old, new)
  BY <1>1, <1>2, <1>3 DEF IsSound, IsTenant, TenantResolves, CredentialsAreVersions, TenantGrows, GatesOn
<1>5. QED
  BY <1>1, <1>2, <1>4, TenantWritten

(* Of credentials, and of lists, anything may be written that refers to the *)
(* tenant itself.                                                           *)
LEMMA CredentialsWritten ==
  ASSUME EngineSound, UNCHANGED tables, NEW e \in EngineTenants, NEW credentials,
         \A x \in credentials : /\ x.key.engine = e /\ engine[e].issuer # None
                                /\ x.policy \in Policies /\ x.version \in Numbers(x.policy),
         \A x, y \in credentials : x.policy = y.policy /\ x.version = y.version => x = y,
         engine' = [engine EXCEPT ![e].credentials = credentials]
  PROVE  EngineSound' /\ TenantsGrow
<1>1. PICK old, new : old = engine[e] /\ new = [old EXCEPT !.credentials = credentials]
  OBVIOUS
<1>2. engine' = [engine EXCEPT ![e] = new] /\ IsSound(old, e)
  BY <1>1 DEF EngineSound
<1>3. new = [keys |-> old.keys, presentations |-> old.presentations,
             issuer |-> old.issuer, attributes |-> old.attributes,
             credentials |-> credentials, lists |-> old.lists]
  BY <1>1, <1>2 DEF IsSound, IsTenant
<1>4. IsSound(new, e) /\ TenantGrows(old, new)
  BY <1>1, <1>2, <1>3 DEF IsSound, IsTenant, TenantResolves, CredentialsAreVersions, TenantGrows, GatesOn
<1>5. QED
  BY <1>1, <1>2, <1>4, TenantWritten

LEMMA ListsWritten ==
  ASSUME EngineSound, UNCHANGED tables, NEW e \in EngineTenants, NEW lists \in Seq(KeyRefs),
         \A i \in DOMAIN lists : lists[i].engine = e,
         engine' = [engine EXCEPT ![e].lists = lists]
  PROVE  EngineSound' /\ TenantsGrow
<1>1. PICK old, new : old = engine[e] /\ new = [old EXCEPT !.lists = lists]
  OBVIOUS
<1>2. engine' = [engine EXCEPT ![e] = new] /\ IsSound(old, e)
  BY <1>1 DEF EngineSound
<1>3. new = [keys |-> old.keys, presentations |-> old.presentations,
             issuer |-> old.issuer, attributes |-> old.attributes,
             credentials |-> old.credentials, lists |-> lists]
  BY <1>1, <1>2 DEF IsSound, IsTenant
<1>4. IsSound(new, e) /\ TenantGrows(old, new)
  BY <1>1, <1>2, <1>3 DEF IsSound, IsTenant, TenantResolves, CredentialsAreVersions, TenantGrows, GatesOn
<1>5. QED
  BY <1>1, <1>2, <1>4, TenantWritten

(* Every step leaves the engine tenants sound, and adds to them. *)
LEMMA EngineStep ==
  ASSUME IInv, [Next]_vars, RowsGrow
  PROVE  EngineSound' /\ TenantsGrow
<1>1. EngineSound /\ \A c \in Clients : Stands(pc[c], req[c])
  BY DEF IInv
<1>2. CASE UNCHANGED engine
  <2>1. \A tenant, e : IsSound(tenant, e) => IsSound(tenant, e)'
    BY DEF IsSound, IsTenant, TenantResolves, CredentialsAreVersions, GatesOn, RowsGrow
  <2>2. EngineSound'
    <3>1. \A e \in EngineTenants : IsSound(engine[e], e)'
      BY <1>1, <1>2, <2>1 DEF EngineSound
    <3>2. QED
      BY <1>1, <1>2, <3>1 DEF EngineSound
  <2>3. TenantsGrow
    BY <1>1, <1>2, TenantUntouched DEF TenantsGrow, EngineSound, IsSound
  <2>4. QED
    BY <2>2, <2>3
<1>3. ASSUME NEW c \in Clients, ImportSigningCertificate(c) \/ ImportAccessCertificate(c), engine' # engine
      PROVE  EngineSound' /\ TenantsGrow
  <2>1. CASE ImportSigningCertificate(c)
    BY <1>1, <2>1, KeysImported DEF ImportSigningCertificate
  <2>2. CASE ImportAccessCertificate(c)
    <3>1. PICK e : e = req[c].engine
      OBVIOUS
    <3>2. e \in EngineTenants
      BY <1>1, <2>2, <3>1 DEF ImportAccessCertificate, Stands, Claims, IsHeld
    <3>3. engine[e].keys < MaxKeys /\ engine' = [engine EXCEPT ![e].keys = @ + 1] /\ UNCHANGED tables
      BY <1>3, <2>2, <3>1 DEF ImportAccessCertificate
    <3>4. QED
      BY <1>1, <3>2, <3>3, KeysImported
  <2>3. QED
    BY <1>3, <2>1, <2>2
<1>4. ASSUME NEW c \in Clients, pc[c] \in AfterCompile
      PROVE  LET plan == req[c].plan IN
             /\ plan.policy \in Policies /\ plan.version \in Numbers(plan.policy)
             /\ plan.provider.engine \in EngineTenants /\ req[c].engine = plan.provider.engine
             /\ plan.provider.signing \in KeyRefs /\ plan.provider.signing = req[c].signing
             /\ plan.provider.signing.engine = plan.provider.engine
             /\ plan.provider.gates \subseteq GateVersions
             /\ plan.provider.builtIn \in BOOLEAN /\ plan.provider.certified \in BOOLEAN
  BY <1>1, <1>4 DEF Stands, Compiling, IsPlan, IsHeld, AfterResolve, AfterCompile
<1>5. ASSUME NEW c \in Clients, WritePresentation(c) PROVE EngineSound' /\ TenantsGrow
  <2>1. PICK e, key : e = req[c].plan.provider.engine /\ key = req[c].plan.provider.access
    OBVIOUS
  <2>2. e \in EngineTenants /\ UNCHANGED tables
    BY <1>4, <1>5, <2>1 DEF WritePresentation, AfterCompile
  <2>3. PICK gate : engine' = [engine EXCEPT ![e].presentations = {x \in @ : x.gate # gate}
                                                         \cup {[gate |-> gate, key |-> key]}]
    BY <1>5, <2>1 DEF WritePresentation
  <2>4. QED
    BY <1>1, <2>2, <2>3, PresentationWritten
<1>6. ASSUME NEW c \in Clients, WriteIssuerConfiguration(c) PROVE EngineSound' /\ TenantsGrow
  <2>1. PICK e, issuer : /\ e = req[c].plan.provider.engine
                         /\ issuer = IssuerConfiguration(req[c].plan.provider)
    OBVIOUS
  <2>2. e \in EngineTenants /\ issuer \in IssuerConfigurations
    BY <1>4, <1>6, <2>1 DEF WriteIssuerConfiguration, AfterCompile, IssuerConfiguration,
       IssuerConfigurations
  <2>3. issuer.gates \subseteq GatesOn(engine[e])
    BY <1>1, <1>4, <1>6, <2>1 DEF WriteIssuerConfiguration, AfterCompile, IssuerConfiguration,
       Stands, Writing
  <2>4. engine' = [engine EXCEPT ![e].issuer = issuer] /\ UNCHANGED tables
    BY <1>6, <2>1 DEF WriteIssuerConfiguration
  <2>5. QED
    BY <1>1, <2>2, <2>3, <2>4, IssuerWritten
<1>7. ASSUME NEW c \in Clients, EnsureAttributeProvider(c) PROVE EngineSound' /\ TenantsGrow
  <2>1. PICK e, yes : e = req[c].plan.provider.engine /\ yes = TRUE
    OBVIOUS
  <2>2. e \in EngineTenants /\ UNCHANGED tables
    BY <1>4, <1>7, <2>1 DEF EnsureAttributeProvider, AfterCompile
  <2>3. engine' = [engine EXCEPT ![e].attributes = yes]
    BY <1>7, <2>1 DEF EnsureAttributeProvider
  <2>4. QED
    BY <1>1, <2>2, <2>3, AttributesWritten
<1>8. ASSUME NEW c \in Clients, WriteCredential(c) PROVE EngineSound' /\ TenantsGrow
  <2>1. PICK plan, e, new, credentials :
          /\ plan = req[c].plan /\ e = plan.provider.engine /\ new = CredentialConfiguration(plan)
          /\ credentials = {x \in engine[e].credentials :
                              <<x.policy, x.version>> # <<plan.policy, plan.version>>} \cup {new}
    OBVIOUS
  <2>2. pc[c] = "credential" /\ UNCHANGED tables
        /\ engine' = [engine EXCEPT ![e].credentials = credentials]
    BY <1>8, <2>1 DEF WriteCredential
  <2>3. /\ plan.policy \in Policies /\ plan.version \in Numbers(plan.policy)
        /\ e \in EngineTenants /\ plan.provider.signing.engine = e
        /\ engine[e].issuer # None
    BY <1>1, <1>4, <2>1, <2>2 DEF AfterCompile, Stands, Writing
  <2>4. new.policy = plan.policy /\ new.version = plan.version /\ new.key = plan.provider.signing
    BY <2>1 DEF CredentialConfiguration
  <2>5. IsSound(engine[e], e)
    BY <1>1, <2>3 DEF EngineSound
  <2>6. \A x \in credentials : /\ x.key.engine = e /\ engine[e].issuer # None
                               /\ x.policy \in Policies /\ x.version \in Numbers(x.policy)
    BY <2>1, <2>3, <2>4, <2>5 DEF IsSound, TenantResolves, CredentialsAreVersions
  <2>7. \A x, y \in credentials : x.policy = y.policy /\ x.version = y.version => x = y
    <3>1. \A x \in engine[e].credentials : x \in credentials =>
            x = new \/ x.policy # plan.policy \/ x.version # plan.version
      BY <2>1
    <3>2. \A x \in credentials : x = new \/ x \in engine[e].credentials
      BY <2>1
    <3>3. QED
      BY <2>4, <2>5, <3>1, <3>2 DEF IsSound, CredentialsAreVersions
  <2>8. QED
    BY <1>1, <2>2, <2>3, <2>6, <2>7, CredentialsWritten
<1>9. ASSUME NEW c \in Clients, Withdraw(c) PROVE EngineSound' /\ TenantsGrow
  <2>1. PICK x : engine' = [engine EXCEPT ![x.engine].credentials =
                             {y \in @ : <<y.policy, y.version>> # <<req[c].policy, x.version>>}]
    BY <1>9 DEF Withdraw
  <2>2. PICK e, credentials : /\ e = x.engine
                              /\ credentials = {y \in engine[e].credentials :
                                     <<y.policy, y.version>> # <<req[c].policy, x.version>>}
    OBVIOUS
  <2>3. engine' = [engine EXCEPT ![e].credentials = credentials] /\ UNCHANGED tables
    BY <1>9, <2>1, <2>2 DEF Withdraw
  <2>4. CASE e \in EngineTenants
    <3>1. IsSound(engine[e], e) /\ credentials \subseteq engine[e].credentials
      BY <1>1, <2>2, <2>4 DEF EngineSound
    <3>2. \A y \in credentials : /\ y.key.engine = e /\ engine[e].issuer # None
                                 /\ y.policy \in Policies /\ y.version \in Numbers(y.policy)
      BY <3>1 DEF IsSound, TenantResolves, CredentialsAreVersions
    <3>3. \A y, z \in credentials : y.policy = z.policy /\ y.version = z.version => y = z
      BY <3>1 DEF IsSound, CredentialsAreVersions
    <3>4. QED
      BY <1>1, <2>3, <2>4, <3>2, <3>3, CredentialsWritten
  <2>5. CASE e \notin EngineTenants
    <3>1. /\ DOMAIN engine' = EngineTenants
          /\ \A f \in EngineTenants : engine'[f] = engine[f]
      BY <1>1, <2>3, <2>5 DEF EngineSound
    <3>2. TenantsGrow
      BY <1>1, <3>1, TenantUntouched DEF TenantsGrow, EngineSound, IsSound
    <3>3. \A tenant, f : IsSound(tenant, f) => IsSound(tenant, f)'
      BY DEF IsSound, IsTenant, TenantResolves, CredentialsAreVersions, GatesOn, RowsGrow
    <3>4. \A f \in EngineTenants : IsSound(engine[f], f)'
      BY <1>1, <3>1, <3>3 DEF EngineSound
    <3>5. QED
      BY <3>1, <3>2, <3>4 DEF EngineSound
  <2>6. QED
    BY <2>4, <2>5
<1>10. ASSUME NEW c \in Clients, CreateStatusList(c) \/ PinStatusList(c)
       PROVE  EngineSound' /\ TenantsGrow
  <2>1. PICK e, key, lists : e = req[c].plan.provider.engine /\ key = req[c].signing
                             /\ lists = engine[e].lists
    OBVIOUS
  <2>2. e \in EngineTenants /\ key \in KeyRefs /\ key.engine = e /\ UNCHANGED tables
    BY <1>4, <1>10, <2>1 DEF CreateStatusList, PinStatusList, AfterCompile
  <2>3. lists \in Seq(KeyRefs) /\ \A i \in DOMAIN lists : lists[i].engine = e
    BY <1>1, <2>1, <2>2 DEF EngineSound, IsSound, IsTenant, TenantResolves
  <2>4. CASE CreateStatusList(c)
    <3>1. PICK new : new = Append(lists, key)
      OBVIOUS
    <3>2. engine' = [engine EXCEPT ![e].lists = new]
      BY <2>1, <2>4, <3>1 DEF CreateStatusList
    <3>3. new \in Seq(KeyRefs) /\ \A i \in DOMAIN new : new[i].engine = e
      BY <2>2, <2>3, <3>1
    <3>4. QED
      BY <1>1, <2>2, <3>2, <3>3, ListsWritten
  <2>5. CASE PinStatusList(c)
    <3>1. PICK i : engine' = [engine EXCEPT ![e].lists[i] = key]
      BY <2>1, <2>5 DEF PinStatusList
    <3>2. PICK new : new = [lists EXCEPT ![i] = key]
      OBVIOUS
    <3>3. engine' = [engine EXCEPT ![e].lists = new]
      BY <2>1, <3>1, <3>2
    <3>4. /\ lists \in [1 .. Len(lists) -> KeyRefs] /\ Len(lists) \in Nat
          /\ DOMAIN lists = 1 .. Len(lists)
      BY <2>3
    <3>5. new \in [1 .. Len(lists) -> KeyRefs]
      BY <2>2, <3>2, <3>4
    <3>6. \A j \in 1 .. Len(lists) : new[j] = key \/ new[j] = lists[j]
      BY <3>2, <3>4
    <3>7. new \in Seq(KeyRefs) /\ DOMAIN new = 1 .. Len(lists)
      BY <3>4, <3>5
    <3>8. \A j \in DOMAIN new : new[j].engine = e
      BY <2>2, <2>3, <3>4, <3>6, <3>7
    <3>9. QED
      BY <1>1, <2>2, <3>3, <3>7, <3>8, ListsWritten
  <2>6. QED
    BY <1>10, <2>4, <2>5
<1>11. ASSUME NEW c \in Clients,
             \/ CreateAttestationProvider(c) \/ CreateCredentialType(c) \/ CreatePolicy(c)
             \/ PublishGate(c) \/ FindTaken(c) \/ UpdateProvider(c) \/ ReleaseEngineTenant(c)
             \/ BeginVersion(c) \/ ListForNumber(c) \/ InsertVersion(c) \/ BeginStatus(c)
             \/ SetPolicyStatus(c) \/ BeginOnPolicy(c) \/ Resolve(c) \/ LoadIssuanceContext(c)
             \/ ReadAccessKey(c) \/ ReadPublishedGates(c) \/ Compile(c)
       PROVE  UNCHANGED engine
  BY <1>11 DEF CreateAttestationProvider, CreateCredentialType, CreatePolicy, PublishGate,
     FindTaken, UpdateProvider, ReleaseEngineTenant, BeginVersion, ListForNumber, InsertVersion,
     BeginStatus, SetPolicyStatus, BeginOnPolicy, Resolve, LoadIssuanceContext, ReadAccessKey,
     ReadPublishedGates, Compile
<1>12. ASSUME NEW c \in Clients,
             \/ ReadStatusLists(c) \/ CreateCredentialOffer(c) \/ ListSuperseded(c)
             \/ BeginWithdraw(c) \/ ListProvisioned(c) \/ ListConfigured(c) \/ Finish(c) \/ Fault(c)
       PROVE  UNCHANGED engine
  BY <1>12 DEF ReadStatusLists, CreateCredentialOffer, ListSuperseded, BeginWithdraw,
     ListProvisioned, ListConfigured, Finish, Fault
<1>13. CASE UNCHANGED vars
  BY <1>2, <1>13 DEF vars
<1>14. QED
  BY <1>2, <1>3, <1>5, <1>6, <1>7, <1>8, <1>9, <1>10, <1>11, <1>12, <1>13 DEF Next

-----------------------------------------------------------------------------
(* Requests *)

LEMMA HeldStays ==
  ASSUME EngineSound, EngineSound', TenantsGrow, NEW key, NEW e, IsHeld(key, e)
  PROVE  IsHeld(key, e)'
<1>1. engine[e].keys \in Nat /\ engine'[e].keys \in Nat /\ engine'[e].keys >= engine[e].keys
  BY DEF IsHeld, EngineSound, IsSound, IsTenant, TenantsGrow, TenantGrows
<1>2. key.n \in Nat
  BY DEF IsHeld, KeyRefs
<1>3. QED
  BY <1>1, <1>2 DEF IsHeld

LEMMA CompilingStays ==
  ASSUME RowsGrow, EngineSound, EngineSound', TenantsGrow, NEW label, NEW r, Compiling(label, r)
  PROVE  Compiling(label, r)'
<1>1. IsPlan(r.plan, r)' <=> IsPlan(r.plan, r)
  BY DEF IsPlan
<1>2. \A p \in Policies : Numbers(p) \subseteq Numbers(p)'
  BY DEF RowsGrow
<1>3. QED
  BY <1>1, <1>2, HeldStays DEF Compiling

(* What a request holds, has read and written stays held, there and written. *)
LEMMA StandsStays ==
  ASSUME RowsGrow, EngineSound, EngineSound', TenantsGrow, NEW label, NEW r, Stands(label, r)
  PROVE  Stands(label, r)'
<1>1. Claims(label, r)'
  BY HeldStays DEF Stands, Claims, RowsGrow
<1>2. Versioning(label, r)'
  BY ProvisioningAssumption DEF Stands, Versioning, RowsGrow
<1>3. Compiling(label, r)'
  BY CompilingStays DEF Stands
<1>4. Writing(label, r)'
  <2>1. CASE label \in {"presentations", "issuer", "attributes", "credential"}
    <3>1. r.engine \in EngineTenants
      BY <2>1 DEF Stands, Compiling, AfterResolve, AfterCompile, IsHeld
    <3>2. TenantGrows(engine[r.engine], engine'[r.engine])
      BY <3>1 DEF TenantsGrow
    <3>3. GatesOn(engine[r.engine]) \subseteq GatesOn(engine'[r.engine])
      BY <3>2 DEF TenantGrows
    <3>4. QED
      BY <3>2, <3>3 DEF Stands, Writing, TenantGrows, GatesOn
  <2>2. QED
    BY <2>1 DEF Writing
<1>5. QED
  BY <1>1, <1>2, <1>3, <1>4 DEF Stands

LEMMA AloneForgotten ==
  ASSUME NEW label, NEW r, NEW s, DOMAIN s = DOMAIN r,
         \A x \in DOMAIN r \ {"alone"} : s[x] = r[x], Stands(label, r)
  PROVE  Stands(label, s)
<1>1. Claims(label, s)
  BY DEF Stands, Claims
<1>2. Versioning(label, s)
  BY DEF Stands, Versioning
<1>3. Compiling(label, s)
  <2>1. CASE label \in AfterCompile
    <3>1. label \in AfterResolve /\ label \in AfterResolve \ {"context"}
      BY <2>1 DEF AfterResolve, AfterCompile
    <3>2. {"goal", "policy", "n", "provider", "engine", "signing", "certified", "plan", "unwritten"}
            \subseteq DOMAIN r \ {"alone"}
      BY <2>1, <3>1 DEF Stands, Compiling
    <3>3. /\ s.policy = r.policy /\ s.n = r.n /\ s.provider = r.provider /\ s.engine = r.engine
          /\ s.signing = r.signing /\ s.certified = r.certified /\ s.plan = r.plan
      BY <3>2
    <3>4. IsPlan(s.plan, s)
      BY <2>1, <3>3 DEF Stands, Compiling, IsPlan
    <3>5. QED
      BY <2>1, <3>2, <3>3, <3>4 DEF Stands, Compiling, AfterResolve, AfterCompile
  <2>2. CASE label \notin AfterCompile
    BY <2>2 DEF Stands, Compiling
  <2>3. QED
    BY <2>1, <2>2
<1>4. Writing(label, s)
  BY DEF Stands, Writing, Compiling, AfterResolve, AfterCompile
<1>5. QED
  BY <1>1, <1>2, <1>3, <1>4 DEF Stands

RequestsStand == RequestsTyped /\ \A c \in Clients : Stands(pc[c], req[c])

Grows == RowsGrow /\ EngineSound /\ EngineSound' /\ TenantsGrow

(* One request moves to label with the local variables r; another is where  *)
(* it was, and at most no longer alone.                                     *)
LEMMA Moved ==
  ASSUME RequestsStand, Grows, NEW c \in Clients, NEW label, NEW r,
         DOMAIN pc' = Clients, pc'[c] = label, \A d \in Clients \ {c} : pc'[d] = pc[d],
         DOMAIN req' = Clients, req'[c] = r,
         "alone" \in DOMAIN r, r.alone \in BOOLEAN, Stands(label, r)',
         \A d \in Clients \ {c} : req'[d] = req[d] \/ req'[d] = [req[d] EXCEPT !.alone = FALSE]
  PROVE  RequestsStand'
<1>1. ASSUME NEW d \in Clients \ {c}
      PROVE  /\ "alone" \in DOMAIN req'[d] /\ req'[d].alone \in BOOLEAN
             /\ Stands(pc[d], req[d])'
  <2>1. PICK old, new, at : old = req[d] /\ new = req'[d] /\ at = pc[d] /\ at = pc'[d]
    OBVIOUS
  <2>2. /\ DOMAIN new = DOMAIN old /\ \A x \in DOMAIN old \ {"alone"} : new[x] = old[x]
        /\ "alone" \in DOMAIN new /\ new.alone \in BOOLEAN
    BY <2>1 DEF RequestsStand, RequestsTyped
  <2>3. Stands(at, old)'
    BY <2>1, StandsStays DEF RequestsStand, Grows
  <2>4. Stands(at, new)'
    <3>1. Stands(at, new)
      BY <2>1, <2>2, AloneForgotten DEF RequestsStand
    <3>2. QED
      BY <3>1, StandsStays DEF Grows
  <2>5. QED
    BY <2>1, <2>2, <2>4
<1>2. "alone" \in DOMAIN req'[c] /\ req'[c].alone \in BOOLEAN /\ Stands(pc[c], req[c])'
  OBVIOUS
<1>3. QED
  BY <1>1, <1>2 DEF RequestsStand, RequestsTyped

LEMMA Went ==
  ASSUME RequestsStand, Grows, NEW c \in Clients, NEW label, NEW r, r = req[c],
         Goto(c, label), Stands(label, r) \/ Stands(label, r)'
  PROVE  RequestsStand'
<1>1. Stands(label, r)'
  BY StandsStays DEF Grows
<1>2. /\ DOMAIN pc' = Clients /\ pc'[c] = label /\ \A d \in Clients \ {c} : pc'[d] = pc[d]
      /\ req' = req /\ DOMAIN req = Clients /\ "alone" \in DOMAIN r /\ r.alone \in BOOLEAN
  BY DEF Goto, RequestsStand, RequestsTyped
<1>3. QED
  BY <1>1, <1>2, Moved

LEMMA Returned ==
  ASSUME RequestsStand, Grows, NEW c \in Clients, Return(c)
  PROVE  RequestsStand'
<1>1. PICK r, label : r = NoLocals /\ label = "idle"
  OBVIOUS
<1>2. Stands(label, r)'
  BY <1>1 DEF Stands, Claims, Versioning, Compiling, Writing, AfterResolve, AfterCompile
<1>3. "alone" \in DOMAIN r /\ r.alone \in BOOLEAN
  BY <1>1 DEF NoLocals
<1>4. /\ DOMAIN pc' = Clients /\ pc'[c] = label /\ \A d \in Clients \ {c} : pc'[d] = pc[d]
      /\ DOMAIN req' = Clients /\ req'[c] = r /\ \A d \in Clients \ {c} : req'[d] = req[d]
  BY <1>1 DEF Return, RequestsStand, RequestsTyped
<1>5. QED
  BY <1>2, <1>3, <1>4, Moved

LEMMA Awaited ==
  ASSUME RequestsStand, Grows, NEW c \in Clients, NEW label, NEW locals, NEW r,
         r = Extended(req[c], locals), "alone" \notin DOMAIN locals,
         Await(c, label, locals), Stands(label, r) \/ Stands(label, r)'
  PROVE  RequestsStand'
<1>1. Stands(label, r)'
  BY StandsStays DEF Grows
<1>2. /\ DOMAIN pc' = Clients /\ pc'[c] = label /\ \A d \in Clients \ {c} : pc'[d] = pc[d]
      /\ DOMAIN req' = Clients /\ req'[c] = r /\ \A d \in Clients \ {c} : req'[d] = req[d]
  BY DEF Await, RequestsStand, RequestsTyped
<1>3. "alone" \in DOMAIN r /\ r.alone \in BOOLEAN
  <2>1. PICK old : old = req[c]
    OBVIOUS
  <2>2. "alone" \in DOMAIN old \ DOMAIN locals /\ old.alone \in BOOLEAN
    BY <2>1 DEF RequestsStand, RequestsTyped
  <2>3. "alone" \in DOMAIN r /\ r["alone"] = old["alone"]
    BY <2>1, <2>2, Zenon DEF Extended
  <2>4. QED
    BY <2>2, <2>3
<1>4. QED
  BY <1>1, <1>2, <1>3, Moved

LEMMA Begun ==
  ASSUME RequestsStand, Grows, NEW c \in Clients, NEW label, NEW locals,
         Begin(c, label, locals),
         \A alone \in BOOLEAN : Stands(label, Extended(locals, [alone |-> alone]))'
  PROVE  RequestsStand'
<1>1. PICK alone, r : /\ alone = (/\ locals.goal \in {"provision", "issue"}
                                  /\ \A b \in Clients \ {c} : pc[b] = "idle")
                      /\ r = Extended(locals, [alone |-> alone])
  OBVIOUS
<1>2. alone \in BOOLEAN
  BY <1>1
<1>3. /\ DOMAIN pc' = Clients /\ pc'[c] = label /\ \A d \in Clients \ {c} : pc'[d] = pc[d]
      /\ DOMAIN req' = Clients /\ req'[c] = r
      /\ \A d \in Clients \ {c} : req'[d] = [req[d] EXCEPT !.alone = FALSE]
  BY <1>1 DEF Begin, RequestsStand, RequestsTyped
<1>4. "alone" \in DOMAIN r /\ r.alone = alone
  <2>1. PICK more : more = [alone |-> alone]
    OBVIOUS
  <2>2. "alone" \in DOMAIN more /\ more.alone = alone
    BY <2>1
  <2>3. "alone" \in DOMAIN r /\ r["alone"] = more["alone"]
    BY <1>1, <2>1, <2>2, Zenon DEF Extended
  <2>4. QED
    BY <2>2, <2>3
<1>5. Stands(label, r)'
  BY <1>1, <1>2
<1>6. QED
  BY <1>2, <1>3, <1>4, <1>5, Moved

LEMMA Disturbed ==
  ASSUME RequestsStand, Grows, NEW c \in Clients, Disturb(c), UNCHANGED pc
  PROVE  RequestsStand'
<1>1. PICK label, r : label = pc[c] /\ r = req'[c]
  OBVIOUS
<1>2. /\ DOMAIN r = DOMAIN req[c] /\ \A x \in DOMAIN r \ {"alone"} : r[x] = req[c][x]
      /\ r.alone = FALSE /\ "alone" \in DOMAIN r
  BY <1>1 DEF Disturb, RequestsStand, RequestsTyped
<1>3. Stands(label, r)
  <2>1. PICK old : old = req[c]
    OBVIOUS
  <2>2. QED
    BY <1>1, <1>2, <2>1, AloneForgotten DEF RequestsStand
<1>4. Stands(label, r)'
  BY <1>3, StandsStays DEF Grows
<1>5. /\ DOMAIN pc' = Clients /\ pc'[c] = label /\ \A d \in Clients \ {c} : pc'[d] = pc[d]
      /\ DOMAIN req' = Clients
      /\ \A d \in Clients \ {c} : req'[d] = [req[d] EXCEPT !.alone = FALSE]
  BY <1>1 DEF Disturb, RequestsStand, RequestsTyped
<1>6. QED
  BY <1>1, <1>2, <1>4, <1>5, Moved

(* The steps of provision. *)
LEMMA ClaimStep ==
  ASSUME IInv, RequestsStand, Grows, NEW c \in Clients,
         \/ ImportSigningCertificate(c) \/ ImportAccessCertificate(c) \/ FindTaken(c)
         \/ UpdateProvider(c)
  PROVE  RequestsStand'
<1>1. CASE ImportSigningCertificate(c)
  <2>1. PICK a \in Providers, e \in EngineTenants, input \in ProvisionInputs :
          /\ providers[a] # None /\ engine[e].keys < MaxKeys
          /\ engine' = [engine EXCEPT ![e].keys = @ + 1]
          /\ Begin(c, IF input.access THEN "access" ELSE "taken",
                   [goal |-> "claim", provider |-> a, certified |-> input.certified,
                    access |-> None, engine |-> e,
                    signing |-> [engine |-> e, usage |-> "attestation", n |-> engine[e].keys + 1]])
    BY <1>1 DEF ImportSigningCertificate
  <2>2. PICK label, key, locals :
          /\ label = IF input.access THEN "access" ELSE "taken"
          /\ key = [engine |-> e, usage |-> "attestation", n |-> engine[e].keys + 1]
          /\ locals = [goal |-> "claim", provider |-> a, certified |-> input.certified,
                       access |-> None, engine |-> e, signing |-> key]
    OBVIOUS
  <2>3. IsHeld(key, e)'
    <3>1. UNCHANGED tables
      BY <1>1 DEF ImportSigningCertificate
    <3>2. engine'[e].keys = engine[e].keys + 1
      BY <2>1, <3>1, KeysImported DEF Grows
    <3>3. engine[e].keys + 1 \in 1 .. MaxKeys
      BY <2>1, ProvisioningAssumption DEF Grows, EngineSound, IsSound, IsTenant
    <3>4. key \in KeyRefs /\ key.engine = e /\ key.n = engine[e].keys + 1
      BY <2>2, <3>3 DEF KeyRefs
    <3>5. QED
      BY <3>2, <3>3, <3>4 DEF IsHeld
  <2>4. providers'[a] # None /\ input.certified \in BOOLEAN
    BY <2>1, ProvisioningAssumption DEF Grows, RowsGrow
  <2>5. ASSUME NEW alone \in BOOLEAN
        PROVE  Stands(label, Extended(locals, [alone |-> alone]))'
    <3>1. PICK more, r : more = [alone |-> alone] /\ r = Extended(locals, more)
      OBVIOUS
    <3>2. /\ {"provider", "certified", "access", "engine", "signing"} \subseteq DOMAIN r
          /\ r.provider = a /\ r.certified = input.certified /\ r.access = None
          /\ r.engine = e /\ r.signing = key
      BY <2>2, <3>1 DEF Extended
    <3>3. label \in {"access", "taken"}
      BY <2>2
    <3>4. Stands(label, r)'
      BY <2>3, <2>4, <3>2, <3>3
         DEF Stands, Claims, Versioning, Compiling, Writing, AfterResolve, AfterCompile
    <3>5. QED
      BY <3>1, <3>4
  <2>6. Begin(c, label, locals)
    BY <2>1, <2>2
  <2>7. QED
    BY <2>5, <2>6, Begun
<1>2. CASE ImportAccessCertificate(c)
  <2>1. PICK old, e, key, locals, r :
          /\ old = req[c] /\ e = old.engine
          /\ key = [engine |-> e, usage |-> "access", n |-> engine[e].keys + 1]
          /\ locals = [access |-> key] /\ r = Extended(old, locals)
    OBVIOUS
  <2>2. /\ {"provider", "certified", "access", "engine", "signing"} \subseteq DOMAIN old
        /\ old.provider \in Providers /\ providers[old.provider] # None
        /\ old.certified \in BOOLEAN /\ IsHeld(old.signing, e) /\ e \in EngineTenants
    BY <1>2, <2>1 DEF ImportAccessCertificate, RequestsStand, Stands, Claims, IsHeld
  <2>3. CASE Return(c)
    BY <2>3, Returned
  <2>4. CASE /\ engine[e].keys < MaxKeys /\ engine' = [engine EXCEPT ![e].keys = @ + 1]
             /\ Await(c, "taken", locals)
    <3>1. IsHeld(key, e)'
      <4>1. UNCHANGED tables
        BY <1>2 DEF ImportAccessCertificate
      <4>2. engine'[e].keys = engine[e].keys + 1
        BY <2>2, <2>4, <4>1, KeysImported DEF Grows
      <4>3. engine[e].keys + 1 \in 1 .. MaxKeys
        BY <2>2, <2>4, ProvisioningAssumption DEF Grows, EngineSound, IsSound, IsTenant
      <4>4. key \in KeyRefs /\ key.engine = e /\ key.n = engine[e].keys + 1
        BY <2>1, <2>2, <4>3 DEF KeyRefs
      <4>5. QED
        BY <2>2, <4>2, <4>3, <4>4 DEF IsHeld
    <3>2. /\ {"provider", "certified", "access", "engine", "signing"} \subseteq DOMAIN r
          /\ r.provider = old.provider /\ r.certified = old.certified /\ r.access = key
          /\ r.engine = e /\ r.signing = old.signing
      BY <2>1, <2>2 DEF Extended
    <3>3. IsHeld(old.signing, e)' /\ providers'[old.provider] # None
      BY <2>2, HeldStays DEF Grows, RowsGrow
    <3>4. Stands("taken", r)'
      BY <2>2, <3>1, <3>2, <3>3
         DEF Stands, Claims, Versioning, Compiling, Writing, AfterResolve, AfterCompile
    <3>5. QED
      BY <2>1, <2>4, <3>4, Awaited
  <2>5. QED
    BY <1>2, <2>1, <2>3, <2>4 DEF ImportAccessCertificate
<1>3. CASE FindTaken(c)
  <2>1. PICK r : r = req[c]
    OBVIOUS
  <2>2. Stands("update", r)
    BY <1>3, <2>1 DEF FindTaken, RequestsStand,
       Stands, Claims, Versioning, Compiling, Writing, AfterResolve, AfterCompile
  <2>3. QED
    BY <1>3, <2>1, <2>2, Went, Returned DEF FindTaken
<1>4. CASE UpdateProvider(c)
  BY <1>4, Returned DEF UpdateProvider
<1>5. QED
  BY <1>1, <1>2, <1>3, <1>4

(* The steps of createVersion. *)
LEMMA VersionStep ==
  ASSUME IInv, RequestsStand, Grows, NEW c \in Clients,
         BeginVersion(c) \/ ListForNumber(c) \/ InsertVersion(c)
  PROVE  RequestsStand'
<1>1. CASE BeginVersion(c)
  <2>1. PICK p \in Policies, body \in Bodies, publish \in BOOLEAN :
          /\ types[body.type] # None
          /\ Begin(c, "number", [goal |-> "version", policy |-> p, body |-> body,
                                 status |-> IF publish THEN "PUBLISHED" ELSE "DRAFT"])
    BY <1>1 DEF BeginVersion
  <2>2. PICK locals : locals = [goal |-> "version", policy |-> p, body |-> body,
                                status |-> IF publish THEN "PUBLISHED" ELSE "DRAFT"]
    OBVIOUS
  <2>3. types'[body.type] # None
    BY <2>1, ProvisioningAssumption DEF Grows, RowsGrow
  <2>4. ASSUME NEW alone \in BOOLEAN
        PROVE  Stands("number", Extended(locals, [alone |-> alone]))'
    <3>1. PICK more, r : more = [alone |-> alone] /\ r = Extended(locals, more)
      OBVIOUS
    <3>2. /\ {"policy", "body", "status"} \subseteq DOMAIN r
          /\ r.policy = p /\ r.body = body /\ r.status \in {"DRAFT", "PUBLISHED"}
      BY <2>2, <3>1 DEF Extended
    <3>3. Stands("number", r)'
      BY <2>3, <3>2
         DEF Stands, Claims, Versioning, Compiling, Writing, AfterResolve, AfterCompile
    <3>4. QED
      BY <3>1, <3>3
  <2>5. Begin(c, "number", locals)
    BY <2>1, <2>2
  <2>6. QED
    BY <2>4, <2>5, Begun
<1>2. CASE ListForNumber(c)
  <2>1. PICK old, n, locals, r : /\ old = req[c] /\ n = NextVersionNumber(old.policy)
                                 /\ locals = [n |-> n] /\ r = Extended(old, locals)
    OBVIOUS
  <2>2. /\ {"policy", "body", "status"} \subseteq DOMAIN old
        /\ old.policy \in Policies /\ old.body \in Bodies /\ old.status \in {"DRAFT", "PUBLISHED"}
        /\ types[old.body.type] # None
    BY <1>2, <2>1 DEF ListForNumber, RequestsStand, Stands, Versioning
  <2>3. n \in Nat /\ n >= 1 /\ 1 .. n - 1 \subseteq Numbers(old.policy)
    <3>1. PICK S, last : S = Numbers(old.policy) /\ last = Greatest(S)
      OBVIOUS
    <3>2. S \subseteq 1 .. MaxVersions /\ MaxVersions \in Nat
      BY <3>1, ProvisioningAssumption DEF Numbers
    <3>3. /\ S = {} => last = 0
          /\ S # {} => last \in S
          /\ last \in 0 .. MaxVersions
      BY <3>1, <3>2, GreatestIsGreatest
    <3>4. n = 1 + last
      BY <2>1, <3>1 DEF NextVersionNumber
    <3>5. last \in S => 1 .. last \subseteq S
      BY <2>2, <3>1 DEF IInv, RowsRefer
    <3>6. QED
      BY <3>1, <3>2, <3>3, <3>4, <3>5
  <2>4. CASE n <= MaxVersions /\ Await(c, "insert", locals)
    <3>1. /\ {"policy", "body", "status", "n"} \subseteq DOMAIN r
          /\ r.policy = old.policy /\ r.body = old.body /\ r.status = old.status /\ r.n = n
      BY <2>1, <2>2 DEF Extended
    <3>2. n \in 1 .. MaxVersions
      BY <2>3, <2>4, ProvisioningAssumption
    <3>3. Stands("insert", r)
      BY <2>2, <2>3, <3>1, <3>2
         DEF Stands, Claims, Versioning, Compiling, Writing, AfterResolve, AfterCompile
    <3>4. QED
      BY <2>1, <2>4, <3>3, Awaited
  <2>5. QED
    BY <1>2, <2>1, <2>4, Returned DEF ListForNumber
<1>3. CASE InsertVersion(c)
  BY <1>3, Returned DEF InsertVersion
<1>4. QED
  BY <1>1, <1>2, <1>3

(* The steps that begin with a policy, and the reads of compileForPolicy.   *)
LEMMA BeginStep ==
  ASSUME RequestsStand, Grows, NEW c \in Clients,
         BeginStatus(c) \/ BeginOnPolicy(c) \/ BeginWithdraw(c)
  PROVE  RequestsStand'
<1>1. CASE BeginStatus(c)
  <2>1. PICK locals : Begin(c, "status", locals)
    BY <1>1 DEF BeginStatus
  <2>2. \A r : Stands("status", r)'
    BY DEF Stands, Claims, Versioning, Compiling, Writing, AfterResolve, AfterCompile
  <2>3. QED
    BY <2>1, <2>2, Begun
<1>2. CASE BeginWithdraw(c)
  <2>1. PICK locals : Begin(c, "listed", locals)
    BY <1>2 DEF BeginWithdraw
  <2>2. \A r : Stands("listed", r)'
    BY DEF Stands, Claims, Versioning, Compiling, Writing, AfterResolve, AfterCompile
  <2>3. QED
    BY <2>1, <2>2, Begun
<1>3. CASE BeginOnPolicy(c)
  <2>1. PICK p \in Policies, goal \in {"provision", "issue"} :
          Begin(c, "resolve", [goal |-> goal, policy |-> p])
    BY <1>3 DEF BeginOnPolicy
  <2>2. PICK locals : locals = [goal |-> goal, policy |-> p]
    OBVIOUS
  <2>3. ASSUME NEW alone \in BOOLEAN
        PROVE  Stands("resolve", Extended(locals, [alone |-> alone]))'
    <3>1. PICK more, r : more = [alone |-> alone] /\ r = Extended(locals, more)
      OBVIOUS
    <3>2. {"goal", "policy"} \subseteq DOMAIN r /\ r.policy = p
      BY <2>2, <3>1 DEF Extended
    <3>3. Stands("resolve", r)'
      BY <3>2 DEF Stands, Claims, Versioning, Compiling, Writing, AfterResolve, AfterCompile
    <3>4. QED
      BY <3>1, <3>3
  <2>4. Begin(c, "resolve", locals)
    BY <2>1, <2>2
  <2>5. QED
    BY <2>3, <2>4, Begun
<1>4. QED
  BY <1>1, <1>2, <1>3

(* The provider a version is issued by is there, with all it names.         *)
LEMMA ProviderOfIsThere ==
  ASSUME IInv, NEW p \in Policies, NEW n \in Numbers(p)
  PROVE  /\ ProviderOf(p, n) \in Providers /\ providers[ProviderOf(p, n)] \in ProviderRows
         /\ versions[p][n].body.gate \in Gates \cup {None}
<1>1. PICK row : row = versions[p][n]
  OBVIOUS
<1>2. versions[p] \in [1 .. MaxVersions -> VersionRows] /\ n \in 1 .. MaxVersions /\ row # None
  BY <1>1 DEF IInv, RowsTyped, Numbers
<1>3. row \in [status : {"DRAFT", "PUBLISHED"}, body : Bodies]
  BY <1>1, <1>2 DEF VersionRows
<1>4. row.body.type \in Types /\ row.body.gate \in Gates \cup {None}
  BY <1>3, ProvisioningAssumption
<1>5. types[row.body.type] \in TypeRows
  BY <1>1, <1>4 DEF IInv, RowsTyped, RowsRefer
<1>6. /\ types[row.body.type].provider \in Providers
      /\ providers[types[row.body.type].provider] # None
  BY <1>4, <1>5, ProvisioningAssumption DEF IInv, RowsRefer
<1>7. QED
  BY <1>1, <1>4, <1>6 DEF ProviderOf, IInv, RowsTyped

LEMMA ReadStep ==
  ASSUME IInv, RequestsStand, Grows, NEW c \in Clients,
         Resolve(c) \/ LoadIssuanceContext(c) \/ ReadAccessKey(c) \/ ReadPublishedGates(c)
  PROVE  RequestsStand'
<1>1. PICK old : old = req[c]
  OBVIOUS
<1>2. {"goal", "policy"} \subseteq DOMAIN old /\ old.policy \in Policies
  BY <1>1 DEF Resolve, LoadIssuanceContext, ReadAccessKey, ReadPublishedGates,
     RequestsStand, Stands, Compiling, AfterResolve
<1>3. CASE Resolve(c)
  <2>1. PICK n, locals, r : /\ n = ResolvePublishedVersion(old.policy)
                            /\ locals = [n |-> n] /\ r = Extended(old, locals)
    OBVIOUS
  <2>2. CASE n > 0 /\ Await(c, "context", locals)
    <3>1. n \in Numbers(old.policy)
      <4>1. PICK S : S = Published(old.policy)
        OBVIOUS
      <4>2. S \subseteq 1 .. MaxVersions /\ MaxVersions \in Nat
        BY <4>1, ProvisioningAssumption DEF Published, Numbers
      <4>3. n = Greatest(S)
        BY <2>1, <4>1 DEF ResolvePublishedVersion
      <4>4. (S = {} => n = 0) /\ (S # {} => n \in S)
        BY <4>2, <4>3, GreatestIsGreatest
      <4>5. QED
        BY <2>2, <4>1, <4>4 DEF Published
    <3>2. {"goal", "policy", "n"} \subseteq DOMAIN r /\ r.policy = old.policy /\ r.n = n
      BY <1>2, <2>1 DEF Extended
    <3>3. Stands("context", r)
      BY <1>2, <3>1, <3>2
         DEF Stands, Claims, Versioning, Compiling, Writing, AfterResolve, AfterCompile
    <3>4. QED
      BY <1>1, <2>1, <2>2, <3>3, Awaited
  <2>3. QED
    BY <1>1, <1>3, <2>1, <2>2, Returned DEF Resolve
<1>4. ASSUME LoadIssuanceContext(c) \/ ReadAccessKey(c) \/ ReadPublishedGates(c)
      PROVE  "n" \in DOMAIN old /\ old.n \in Numbers(old.policy)
  BY <1>1, <1>4 DEF LoadIssuanceContext, ReadAccessKey, ReadPublishedGates,
     RequestsStand, Stands, Compiling, AfterResolve
<1>5. CASE LoadIssuanceContext(c)
  <2>1. PICK a, row, locals, r :
          /\ a = ProviderOf(old.policy, old.n) /\ row = providers[a]
          /\ locals = [provider |-> a, engine |-> row.engine, signing |-> row.signing,
                       certified |-> row.certified]
          /\ r = Extended(old, locals)
    OBVIOUS
  <2>2. CASE row.engine # None /\ Await(c, "inputs", locals)
    <3>1. a \in Providers /\ row \in ProviderRows /\ row # None
      BY <1>2, <1>4, <1>5, <2>1, ProviderOfIsThere, ProvisioningAssumption
    <3>2. row.certified \in BOOLEAN /\ IsHeld(row.signing, row.engine)
      BY <2>1, <2>2, <3>1 DEF IInv, ProvidersAreWhole, IsWhole, ProviderRows
    <3>3. /\ {"goal", "policy", "n", "provider", "engine", "signing", "certified"} \subseteq DOMAIN r
          /\ r.policy = old.policy /\ r.n = old.n /\ r.provider = a /\ r.engine = row.engine
          /\ r.signing = row.signing /\ r.certified = row.certified
      BY <1>2, <1>4, <1>5, <2>1 DEF Extended
    <3>4. Stands("inputs", r)
      BY <1>2, <1>4, <1>5, <3>1, <3>2, <3>3
         DEF Stands, Claims, Versioning, Compiling, Writing, AfterResolve, AfterCompile
    <3>5. QED
      BY <1>1, <2>1, <2>2, <3>4, Awaited
  <2>3. QED
    BY <1>1, <1>5, <2>1, <2>2, Returned DEF LoadIssuanceContext
<1>6. ASSUME ReadAccessKey(c) \/ ReadPublishedGates(c)
      PROVE  /\ {"provider", "engine", "signing", "certified"} \subseteq DOMAIN old
             /\ old.provider \in Providers /\ old.certified \in BOOLEAN
             /\ IsHeld(old.signing, old.engine)
             /\ ReadPublishedGates(c) => "access" \in DOMAIN old
  BY <1>1, <1>6 DEF ReadAccessKey, ReadPublishedGates, RequestsStand, Stands, Compiling, AfterResolve
<1>7. CASE ReadAccessKey(c)
  <2>1. PICK locals, r : /\ locals = [access |-> providers[old.provider].access]
                         /\ r = Extended(old, locals)
    OBVIOUS
  <2>2. /\ {"goal", "policy", "n", "provider", "engine", "signing", "certified", "access"} \subseteq DOMAIN r
        /\ r.policy = old.policy /\ r.n = old.n /\ r.provider = old.provider
        /\ r.engine = old.engine /\ r.signing = old.signing /\ r.certified = old.certified
    BY <1>2, <1>4, <1>6, <1>7, <2>1 DEF Extended
  <2>3. Stands("published", r)
    BY <1>2, <1>4, <1>6, <1>7, <2>2
       DEF Stands, Claims, Versioning, Compiling, Writing, AfterResolve, AfterCompile
  <2>4. Await(c, "published", locals)
    BY <1>1, <1>7, <2>1 DEF ReadAccessKey
  <2>5. QED
    BY <1>1, <2>1, <2>3, <2>4, Awaited
<1>8. CASE ReadPublishedGates(c)
  <2>1. PICK found, gated, builtIn, locals, r :
          /\ found = GatesOf(old.provider) /\ gated = found \ {None} /\ builtIn = NeedsBuiltIn(found)
          /\ locals = [gated |-> gated, builtIn |-> builtIn]
          /\ r = Extended(old, locals)
    OBVIOUS
  <2>2. gated \subseteq Gates /\ builtIn \in BOOLEAN
    <3>1. \A p \in Policies : \A n \in Published(p) : versions[p][n].body.gate \in Gates \cup {None}
      BY ProviderOfIsThere DEF Published
    <3>2. \A g \in found : g \in Gates \cup {None}
      BY <2>1, <3>1 DEF GatesOf
    <3>3. QED
      BY <2>1, <3>2 DEF NeedsBuiltIn
  <2>3. /\ {"goal", "policy", "n", "provider", "engine", "signing", "certified", "access",
            "gated", "builtIn"} \subseteq DOMAIN r
        /\ r.policy = old.policy /\ r.n = old.n /\ r.provider = old.provider
        /\ r.engine = old.engine /\ r.signing = old.signing /\ r.certified = old.certified
        /\ r.gated = gated /\ r.builtIn = builtIn
    BY <1>2, <1>4, <1>6, <1>8, <2>1 DEF Extended
  <2>4. Stands("gates", r)
    BY <1>2, <1>4, <1>6, <1>8, <2>2, <2>3
       DEF Stands, Claims, Versioning, Compiling, Writing, AfterResolve, AfterCompile
  <2>5. Await(c, "gates", locals)
    BY <1>1, <1>8, <2>1 DEF ReadPublishedGates
  <2>6. QED
    BY <1>1, <2>1, <2>4, <2>5, Awaited
<1>9. QED
  BY <1>3, <1>5, <1>7, <1>8

LEMMA CompileStep ==
  ASSUME IInv, RequestsStand, Grows, NEW c \in Clients, Compile(c)
  PROVE  RequestsStand'
<1>1. PICK old, version, type, chosen, context, plan, label, locals, r :
        /\ old = req[c] /\ version = versions[old.policy][old.n] /\ type = types[version.body.type]
        /\ chosen = {[gate |-> g, version |-> gates[g]] : g \in old.gated}
        /\ context = [engine |-> old.engine, signing |-> old.signing, access |-> old.access,
                      certified |-> old.certified, builtIn |-> old.builtIn, gates |-> chosen]
        /\ plan = IssuancePlan(old.policy, old.n, version.body, type, context)
        /\ label = FirstWrite(old.gated)
        /\ locals = [plan |-> plan, unwritten |-> chosen]
        /\ r = Extended(old, locals)
  OBVIOUS
<1>2. /\ {"goal", "policy", "n", "provider", "engine", "signing", "certified", "gated", "builtIn"}
           \subseteq DOMAIN old
      /\ old.policy \in Policies /\ old.n \in Numbers(old.policy)
      /\ old.provider \in Providers /\ old.certified \in BOOLEAN /\ IsHeld(old.signing, old.engine)
      /\ old.gated \subseteq Gates /\ old.builtIn \in BOOLEAN
  BY <1>1 DEF Compile, RequestsStand, Stands, Compiling, AfterResolve
<1>3. CASE Await(c, label, locals)
  <2>1. /\ {"goal", "policy", "n", "provider", "engine", "signing", "certified", "plan", "unwritten"}
             \subseteq DOMAIN r
        /\ r.policy = old.policy /\ r.n = old.n /\ r.provider = old.provider
        /\ r.engine = old.engine /\ r.signing = old.signing /\ r.certified = old.certified
        /\ r.plan = plan /\ r.unwritten = chosen
    BY <1>1, <1>2 DEF Extended
  <2>2. /\ plan.policy = old.policy /\ plan.version = old.n /\ plan.provider = context
        /\ context.engine = old.engine /\ context.signing = old.signing /\ context.gates = chosen
        /\ context.certified = old.certified /\ context.builtIn = old.builtIn
    BY <1>1 DEF IssuancePlan
  <2>3. chosen \subseteq GateVersions
    <3>1. \A g \in Gates : gates[g] \in 0 .. MaxGateVersions
      BY DEF IInv, RowsTyped
    <3>2. \A g \in Gates : [gate |-> g, version |-> gates[g]] \in GateVersions
      BY <3>1 DEF GateVersions
    <3>3. QED
      BY <1>1, <1>2, <3>2
  <2>4. IsPlan(r.plan, r)
    BY <1>2, <2>1, <2>2, <2>3 DEF IsPlan
  <2>5. /\ label = "presentations" \/ label = "issuer"
        /\ label = "issuer" => chosen = {}
    BY <1>1 DEF FirstWrite
  <2>6. Writing(label, r)
    BY <2>1, <2>2, <2>5 DEF Writing
  <2>7. Compiling(label, r)
    BY <1>2, <2>1, <2>4, <2>5 DEF Compiling, AfterResolve, AfterCompile
  <2>8. Stands(label, r)
    BY <2>5, <2>6, <2>7 DEF Stands, Claims, Versioning
  <2>9. "alone" \notin DOMAIN locals
    BY <1>1
  <2>10. QED
    BY <1>1, <1>3, <2>8, <2>9, Awaited
<1>4. CASE Return(c)
  BY <1>4, Returned
<1>5. Return(c) \/ Await(c, label, locals)
  BY <1>1 DEF Compile
<1>6. QED
  BY <1>3, <1>4, <1>5

(* From one label after the compilation to another, with the same plan.     *)
LEMMA StillCompiled ==
  ASSUME NEW at, NEW label, NEW old, NEW r, at \in AfterCompile, label \in AfterCompile,
         Compiling(at, old),
         \/ r = old
         \/ DOMAIN r = DOMAIN old /\ \A x \in DOMAIN old \ {"unwritten"} : r[x] = old[x]
  PROVE  Compiling(label, r)
<1>1. /\ at \in AfterResolve /\ at \in AfterResolve \ {"context"}
      /\ label \notin {"published", "gates", "context"}
  BY DEF AfterResolve, AfterCompile
<1>2. {"goal", "policy", "n", "provider", "engine", "signing", "certified", "plan", "unwritten"}
        \subseteq DOMAIN old
  BY <1>1 DEF Compiling
<1>3. /\ r.policy = old.policy /\ r.n = old.n /\ r.provider = old.provider /\ r.engine = old.engine
      /\ r.signing = old.signing /\ r.certified = old.certified /\ r.plan = old.plan
      /\ DOMAIN r = DOMAIN old
  BY <1>2
<1>4. IsPlan(r.plan, r)
  BY <1>3 DEF Compiling, IsPlan
<1>5. QED
  BY <1>1, <1>2, <1>3, <1>4 DEF Compiling

(* The steps of provisionCredentialConfiguration up to the credential. *)
LEMMA WriteStep ==
  ASSUME IInv, RequestsStand, Grows, NEW c \in Clients,
         \/ WritePresentation(c) \/ WriteIssuerConfiguration(c) \/ EnsureAttributeProvider(c)
         \/ WriteCredential(c)
  PROVE  RequestsStand'
<1>1. PICK old, plan, e : old = req[c] /\ plan = old.plan /\ e = plan.provider.engine
  OBVIOUS
<1>2. PICK at : at = pc[c] /\ at \in {"presentations", "issuer", "attributes", "credential"}
  BY DEF WritePresentation, WriteIssuerConfiguration, EnsureAttributeProvider, WriteCredential
<1>3. /\ at \in AfterCompile /\ Compiling(at, old) /\ Writing(at, old)
      /\ {"policy", "n", "provider", "engine", "signing", "certified", "plan", "unwritten"} \subseteq DOMAIN old
      /\ old.engine = e /\ e \in EngineTenants
  <2>1. at \in AfterCompile /\ at \in AfterResolve \ {"context"} /\ at \in AfterResolve
    BY <1>2 DEF AfterCompile, AfterResolve
  <2>2. Compiling(at, old) /\ Writing(at, old)
    BY <1>1, <1>2 DEF RequestsStand, Stands
  <2>3. QED
    BY <1>1, <2>1, <2>2 DEF Compiling, IsPlan, IsHeld
<1>4. TenantGrows(engine[e], engine'[e])
  BY <1>3 DEF Grows, TenantsGrow
<1>5. CASE WritePresentation(c)
  <2>1. PICK gate \in old.unwritten :
          /\ engine' = [engine EXCEPT ![e].presentations =
                          {x \in @ : x.gate # gate} \cup {[gate |-> gate, key |-> plan.provider.access]}]
          /\ Await(c, IF old.unwritten = {gate} THEN "issuer" ELSE "presentations",
                   [unwritten |-> old.unwritten \ {gate}])
    BY <1>1, <1>5 DEF WritePresentation
  <2>2. PICK label, rest, locals, r, key :
          /\ label = IF old.unwritten = {gate} THEN "issuer" ELSE "presentations"
          /\ rest = old.unwritten \ {gate} /\ locals = [unwritten |-> rest]
          /\ r = Extended(old, locals) /\ key = plan.provider.access
    OBVIOUS
  <2>3. /\ DOMAIN r = DOMAIN old /\ r.unwritten = rest
        /\ \A x \in DOMAIN old \ {"unwritten"} : r[x] = old[x]
    BY <1>3, <2>2 DEF Extended
  <2>4. /\ old.unwritten \subseteq plan.provider.gates
        /\ plan.provider.gates \ old.unwritten \subseteq GatesOn(engine[e])
    BY <1>1, <1>2, <1>3, <1>5 DEF WritePresentation, Writing
  <2>5. gate \in GatesOn(engine'[e])
    <3>1. UNCHANGED tables
      BY <1>5 DEF WritePresentation
    <3>2. engine' = [engine EXCEPT ![e].presentations = {x \in @ : x.gate # gate}
                                                         \cup {[gate |-> gate, key |-> key]}]
      BY <2>1, <2>2
    <3>3. QED
      BY <1>3, <3>1, <3>2, PresentationWritten DEF Grows
  <2>6. plan.provider.gates \ rest \subseteq GatesOn(engine'[e])
    BY <1>4, <2>2, <2>4, <2>5 DEF TenantGrows
  <2>7. label \in {"issuer", "presentations"} /\ (label = "issuer" => rest = {})
    BY <2>2
  <2>8. r.plan = plan /\ r.engine = e
    BY <1>1, <1>3, <2>3
  <2>9. Writing(label, r)'
    <3>1. GatesOn(engine[e])' = GatesOn(engine'[e])
      BY DEF GatesOn
    <3>2. rest \subseteq plan.provider.gates
      BY <2>2, <2>4
    <3>3. QED
      BY <2>3, <2>6, <2>7, <2>8, <3>1, <3>2 DEF Writing
  <2>10. Compiling(label, r)'
    <3>1. Compiling(label, r)
      BY <1>3, <2>3, <2>7, StillCompiled DEF AfterCompile
    <3>2. QED
      BY <3>1, CompilingStays DEF Grows
  <2>11. Stands(label, r)'
    BY <2>7, <2>9, <2>10 DEF Stands, Claims, Versioning
  <2>12. QED
    BY <1>1, <2>1, <2>2, <2>11, Awaited
<1>6. ASSUME NEW label \in {"attributes", "credential"}, Goto(c, label),
             at = "issuer" => engine'[e].issuer # None, at # "presentations"
      PROVE  RequestsStand'
  <2>1. Writing(label, old)'
    <3>1. plan.provider.gates \subseteq GatesOn(engine[e]) /\ (at # "issuer" => engine[e].issuer # None)
      BY <1>1, <1>2, <1>3, <1>6 DEF Writing
    <3>2. plan.provider.gates \subseteq GatesOn(engine'[e]) /\ engine'[e].issuer # None
      BY <1>4, <1>6, <3>1 DEF TenantGrows
    <3>3. QED
      BY <1>1, <1>3, <1>6, <3>2 DEF Writing, GatesOn
  <2>2. Compiling(label, old)'
    <3>1. Compiling(label, old)
      BY <1>3, <1>6, StillCompiled DEF AfterCompile
    <3>2. QED
      BY <3>1, CompilingStays DEF Grows
  <2>3. Stands(label, old)'
    BY <1>6, <2>1, <2>2 DEF Stands, Claims, Versioning
  <2>4. QED
    BY <1>1, <1>6, <2>3, Went
<1>7. CASE WriteIssuerConfiguration(c)
  <2>1. PICK issuer : issuer = IssuerConfiguration(plan.provider)
    OBVIOUS
  <2>2. engine' = [engine EXCEPT ![e].issuer = issuer]
    BY <1>1, <1>7, <2>1 DEF WriteIssuerConfiguration
  <2>3. issuer # None
    <3>1. issuer \in IssuerConfigurations
      BY <1>1, <1>3, <2>1 DEF Compiling, IsPlan, IssuerConfiguration, IssuerConfigurations
    <3>2. QED
      BY <3>1, ProvisioningAssumption
  <2>4. engine'[e].issuer = issuer
    <3>1. IsTenant(engine[e]) /\ DOMAIN engine = EngineTenants
      BY <1>3 DEF Grows, EngineSound, IsSound
    <3>2. engine'[e] = [engine[e] EXCEPT !.issuer = issuer] /\ "issuer" \in DOMAIN engine[e]
      BY <1>3, <2>2, <3>1 DEF IsTenant
    <3>3. QED
      BY <3>2
  <2>5. Goto(c, "attributes") /\ at = "issuer"
    BY <1>2, <1>7 DEF WriteIssuerConfiguration
  <2>6. QED
    BY <1>6, <2>3, <2>4, <2>5
<1>8. CASE EnsureAttributeProvider(c)
  BY <1>2, <1>6, <1>8 DEF EnsureAttributeProvider
<1>9. CASE WriteCredential(c)
  <2>1. PICK label \in {"lists", "offer", "superseded"} : Goto(c, label)
    BY <1>9 DEF WriteCredential, AfterProvisioning
  <2>2. Stands(label, old)
    BY <1>3, <2>1, StillCompiled DEF AfterCompile, Stands, Claims, Versioning, Writing
  <2>3. QED
    BY <1>1, <2>1, <2>2, Went
<1>10. QED
  BY <1>5, <1>7, <1>8, <1>9

(* What follows, of which nothing else depends. *)
LEMMA RestStep ==
  ASSUME IInv, RequestsStand, Grows, NEW c \in Clients,
         \/ ReadStatusLists(c) \/ CreateStatusList(c) \/ PinStatusList(c) \/ CreateCredentialOffer(c)
         \/ ListSuperseded(c) \/ ListProvisioned(c) \/ ListConfigured(c) \/ Withdraw(c)
         \/ SetPolicyStatus(c) \/ Finish(c) \/ Fault(c)
  PROVE  RequestsStand'
<1>1. CASE Return(c)
  BY <1>1, Returned
<1>2. PICK old, at : old = req[c] /\ at = pc[c]
  OBVIOUS
<1>3. ASSUME NEW label \in {"configured", "withdraw", "done"}, NEW locals,
             "alone" \notin DOMAIN locals, Await(c, label, locals) \/ Goto(c, label)
      PROVE  RequestsStand'
  <2>1. \A r : Stands(label, r)
    BY <1>3 DEF Stands, Claims, Versioning, Compiling, Writing, AfterResolve, AfterCompile
  <2>2. PICK r : r = Extended(old, locals)
    OBVIOUS
  <2>3. QED
    BY <1>2, <1>3, <2>1, <2>2, Went, Awaited
<1>4. ASSUME NEW label \in {"create", "offer", "superseded"}, Goto(c, label), at \in AfterCompile
      PROVE  RequestsStand'
  <2>1. Compiling(at, old)
    BY <1>2 DEF RequestsStand, Stands
  <2>2. Stands(label, old)
    BY <1>4, <2>1, StillCompiled DEF AfterCompile, Stands, Claims, Versioning, Writing
  <2>3. QED
    BY <1>2, <1>4, <2>2, Went
<1>5. ASSUME NEW label \in {"pin", "offer", "superseded"}, at \in AfterCompile, NEW rest,
             Await(c, label, [unwritten |-> rest])
      PROVE  RequestsStand'
  <2>1. PICK locals, r : locals = [unwritten |-> rest] /\ r = Extended(old, locals)
    OBVIOUS
  <2>2. Compiling(at, old) /\ "unwritten" \in DOMAIN old
    BY <1>2, <1>5 DEF RequestsStand, Stands, Compiling
  <2>3. DOMAIN r = DOMAIN old /\ \A x \in DOMAIN old \ {"unwritten"} : r[x] = old[x]
    BY <2>1, <2>2 DEF Extended
  <2>4. Stands(label, r)
    BY <1>5, <2>2, <2>3, StillCompiled DEF AfterCompile, Stands, Claims, Versioning, Writing
  <2>5. Await(c, label, locals) /\ "alone" \notin DOMAIN locals
    BY <1>5, <2>1
  <2>6. QED
    BY <1>2, <2>1, <2>4, <2>5, Awaited
<1>6. CASE ReadStatusLists(c) \/ CreateStatusList(c) \/ PinStatusList(c)
  <2>1. PICK next \in {"offer", "superseded"} : next = AfterProvisioning(c)
    BY DEF AfterProvisioning
  <2>2. at \in AfterCompile
    BY <1>2, <1>6 DEF ReadStatusLists, CreateStatusList, PinStatusList, AfterCompile
  <2>3. \/ Goto(c, "create") \/ Goto(c, next)
        \/ \E rest : \E label \in {"pin", next} : Await(c, label, [unwritten |-> rest])
    BY <1>6, <2>1 DEF ReadStatusLists, CreateStatusList, PinStatusList
  <2>4. QED
    BY <1>4, <1>5, <2>1, <2>2, <2>3
<1>7. CASE ListSuperseded(c) \/ ListProvisioned(c)
  <2>1. Goto(c, "done") \/ \E obsolete : Await(c, "configured", [obsolete |-> obsolete])
    BY <1>7 DEF ListSuperseded, ListProvisioned
  <2>2. CASE Goto(c, "done")
    <3>1. PICK none : none = [found |-> {}]
      OBVIOUS
    <3>2. "alone" \notin DOMAIN none
      BY <3>1
    <3>3. QED
      BY <1>3, <2>2, <3>2
  <2>3. ASSUME NEW obsolete, Await(c, "configured", [obsolete |-> obsolete]) PROVE RequestsStand'
    <3>1. PICK locals : locals = [obsolete |-> obsolete]
      OBVIOUS
    <3>2. "alone" \notin DOMAIN locals /\ Await(c, "configured", locals)
      BY <2>3, <3>1
    <3>3. QED
      BY <1>3, <3>2
  <2>4. QED
    BY <2>1, <2>2, <2>3
<1>8. CASE ListConfigured(c) \/ Withdraw(c)
  <2>1. \E label \in {"configured", "withdraw", "done"} : \E rest, found :
          Await(c, label, [obsolete |-> rest, found |-> found]) \/ Await(c, label, [found |-> found])
    BY <1>8 DEF ListConfigured, Withdraw
  <2>2. ASSUME NEW label \in {"configured", "withdraw", "done"}, NEW rest, NEW found,
               Await(c, label, [obsolete |-> rest, found |-> found]) \/ Await(c, label, [found |-> found])
        PROVE  RequestsStand'
    <3>1. PICK locals : /\ locals = [obsolete |-> rest, found |-> found] \/ locals = [found |-> found]
                        /\ Await(c, label, locals)
      BY <2>2
    <3>2. "alone" \notin DOMAIN locals
      BY <3>1
    <3>3. QED
      BY <1>3, <3>1, <3>2
  <2>3. QED
    BY <2>1, <2>2
<1>9. QED
  BY <1>1, <1>6, <1>7, <1>8 DEF SetPolicyStatus, Finish, Fault, CreateCredentialOffer

(* Every step keeps what every request stands by. *)
LEMMA RequestsStep ==
  ASSUME IInv, [Next]_vars, Grows
  PROVE  RequestsStand'
<1>1. RequestsStand
  BY DEF IInv, RequestsStand
<1>2. ASSUME NEW c \in Clients,
             \/ CreateAttestationProvider(c) \/ CreateCredentialType(c) \/ CreatePolicy(c)
             \/ PublishGate(c) \/ ReleaseEngineTenant(c)
      PROVE  RequestsStand'
  BY <1>1, <1>2, Disturbed
     DEF CreateAttestationProvider, CreateCredentialType, CreatePolicy, PublishGate, ReleaseEngineTenant
<1>3. CASE UNCHANGED vars
  <2>1. ASSUME NEW d \in Clients PROVE Stands(pc[d], req[d])'
    <3>1. PICK at, r : at = pc[d] /\ at = pc'[d] /\ r = req[d] /\ r = req'[d]
      BY <1>3 DEF vars
    <3>2. Stands(at, r)'
      BY <1>1, <3>1, StandsStays DEF RequestsStand, Grows
    <3>3. QED
      BY <3>1, <3>2
  <2>2. QED
    BY <1>1, <1>3, <2>1 DEF vars, RequestsStand, RequestsTyped
<1>4. QED
  BY <1>1, <1>2, <1>3, ClaimStep, VersionStep, BeginStep, ReadStep, CompileStep, WriteStep, RestStep
     DEF Next

-----------------------------------------------------------------------------
(* Providers *)

LEMMA ProviderReplaced ==
  ASSUME RowsTyped, ProvidersAreWhole, EngineSound, EngineSound', TenantsGrow,
         NEW a \in Providers, NEW row \in ProviderRows, IsWhole(row),
         row.engine # None =>
           \A b \in Providers \ {a} : providers[b] # None => providers[b].engine # row.engine,
         providers' = [providers EXCEPT ![a] = row]
  PROVE  ProvidersAreWhole'
<1>1. ASSUME NEW other, IsWhole(other) PROVE IsWhole(other)'
  BY <1>1, HeldStays DEF IsWhole
<1>2. providers'[a] = row /\ \A b \in Providers \ {a} : providers'[b] = providers[b]
  BY DEF RowsTyped
<1>3. ASSUME NEW b \in Providers, providers'[b] # None PROVE IsWhole(providers[b])'
  <2>1. PICK other : other = providers'[b]
    OBVIOUS
  <2>2. IsWhole(other)
    BY <1>2, <1>3, <2>1 DEF ProvidersAreWhole
  <2>3. QED
    BY <1>1, <2>1, <2>2
<1>4. QED
  BY <1>2, <1>3 DEF ProvidersAreWhole

LEMMA ProvidersStep ==
  ASSUME IInv, [Next]_vars, EngineSound', TenantsGrow
  PROVE  ProvidersAreWhole'
<1>1. /\ RowsTyped /\ ProvidersAreWhole /\ EngineSound
      /\ \A c \in Clients : Stands(pc[c], req[c])
  BY DEF IInv
<1>2. CASE UNCHANGED providers
  <2>1. ASSUME NEW b \in Providers, providers'[b] # None PROVE IsWhole(providers[b])'
    <3>1. PICK row : row = providers'[b]
      OBVIOUS
    <3>2. IsWhole(row)
      BY <1>1, <1>2, <2>1, <3>1 DEF ProvidersAreWhole
    <3>3. IsWhole(row)'
      BY <1>1, <3>2, HeldStays DEF IsWhole
    <3>4. QED
      BY <3>1, <3>3
  <2>2. QED
    BY <1>1, <1>2, <2>1 DEF ProvidersAreWhole
<1>3. ASSUME NEW c \in Clients, CreateAttestationProvider(c) PROVE ProvidersAreWhole'
  <2>1. PICK row : row = Registered
    OBVIOUS
  <2>2. row \in ProviderRows /\ row.engine = None /\ IsWhole(row)
    BY <2>1 DEF Registered, ProviderRows, IsWhole
  <2>3. PICK a \in Providers : providers' = [providers EXCEPT ![a] = row]
    BY <1>3, <2>1 DEF CreateAttestationProvider
  <2>4. QED
    BY <1>1, <2>2, <2>3, ProviderReplaced
<1>4. ASSUME NEW c \in Clients, UpdateProvider(c), providers' # providers PROVE ProvidersAreWhole'
  <2>1. PICK r, row : r = req[c] /\ row = Provisioned(r)
    OBVIOUS
  <2>2. /\ r.provider \in Providers /\ r.certified \in BOOLEAN /\ IsHeld(r.signing, r.engine)
        /\ r.access = None \/ IsHeld(r.access, r.engine)
    BY <1>1, <1>4, <2>1 DEF UpdateProvider, Stands, Claims
  <2>3. /\ row.engine = r.engine /\ row.signing = r.signing /\ row.access = r.access
        /\ row \in ProviderRows
    BY <2>1, <2>2 DEF Provisioned, ProviderRows, IsHeld
  <2>4. r.engine # None
    BY <2>2, ProvisioningAssumption DEF IsHeld
  <2>5. IsWhole(row)
    BY <2>2, <2>3, <2>4 DEF IsWhole
  <2>6. /\ Holder(r.engine) \subseteq {r.provider}
        /\ providers' = [providers EXCEPT ![r.provider] = row]
    BY <1>4, <2>1 DEF UpdateProvider
  <2>7. \A b \in Providers \ {r.provider} : providers[b] # None => providers[b].engine # row.engine
    BY <2>3, <2>6 DEF Holder
  <2>8. QED
    BY <1>1, <2>2, <2>3, <2>5, <2>6, <2>7, ProviderReplaced
<1>5. ASSUME NEW c \in Clients, ReleaseEngineTenant(c) PROVE ProvidersAreWhole'
  <2>1. PICK a \in Providers :
          /\ providers[a] # None
          /\ providers' = [providers EXCEPT ![a].engine = None, ![a].signing = None, ![a].access = None]
    BY <1>5 DEF ReleaseEngineTenant
  <2>2. PICK row : row = [providers[a] EXCEPT !.engine = None, !.signing = None, !.access = None]
    OBVIOUS
  <2>3. providers[a] \in ProviderRows
    BY <1>1, <2>1 DEF RowsTyped
  <2>4. row \in ProviderRows /\ row.engine = None /\ row.signing = None /\ row.access = None
    BY <2>2, <2>3 DEF ProviderRows
  <2>5. providers' = [providers EXCEPT ![a] = row]
    BY <1>1, <2>1, <2>2 DEF RowsTyped
  <2>6. IsWhole(row)
    BY <2>4 DEF IsWhole
  <2>7. QED
    BY <1>1, <2>4, <2>5, <2>6, ProviderReplaced
<1>6. ASSUME NEW c \in Clients,
             \/ CreateCredentialType(c) \/ CreatePolicy(c) \/ PublishGate(c)
             \/ ImportSigningCertificate(c) \/ ImportAccessCertificate(c) \/ FindTaken(c)
             \/ BeginVersion(c) \/ ListForNumber(c) \/ InsertVersion(c) \/ BeginStatus(c)
             \/ SetPolicyStatus(c) \/ BeginOnPolicy(c) \/ Resolve(c) \/ LoadIssuanceContext(c)
             \/ ReadAccessKey(c) \/ ReadPublishedGates(c) \/ Compile(c)
      PROVE  UNCHANGED providers
  BY <1>6 DEF CreateCredentialType, CreatePolicy, PublishGate, ImportSigningCertificate,
     ImportAccessCertificate, FindTaken, BeginVersion, ListForNumber, InsertVersion, BeginStatus,
     SetPolicyStatus, BeginOnPolicy, Resolve, LoadIssuanceContext, ReadAccessKey,
     ReadPublishedGates, Compile, tables
<1>7. ASSUME NEW c \in Clients,
             \/ WritePresentation(c) \/ WriteIssuerConfiguration(c) \/ EnsureAttributeProvider(c)
             \/ WriteCredential(c) \/ ReadStatusLists(c) \/ CreateStatusList(c) \/ PinStatusList(c)
             \/ CreateCredentialOffer(c) \/ ListSuperseded(c) \/ BeginWithdraw(c)
             \/ ListProvisioned(c) \/ ListConfigured(c) \/ Withdraw(c) \/ Finish(c) \/ Fault(c)
      PROVE  UNCHANGED providers
  BY <1>7 DEF WritePresentation, WriteIssuerConfiguration, EnsureAttributeProvider,
     WriteCredential, ReadStatusLists, CreateStatusList, PinStatusList, CreateCredentialOffer,
     ListSuperseded, BeginWithdraw, ListProvisioned, ListConfigured, Withdraw, Finish, Fault, tables
<1>8. CASE UNCHANGED vars
  BY <1>2, <1>8 DEF vars
<1>9. QED
  BY <1>2, <1>3, <1>4, <1>5, <1>6, <1>7, <1>8 DEF Next

-----------------------------------------------------------------------------
(* The invariant is inductive *)

LEMMA StepIsGood ==
  ASSUME IInv, [Next]_vars
  PROVE  IInv' /\ RowsGrow
<1>1. RowsRight' /\ RowsGrow
  BY RowsStep
<1>2. EngineSound' /\ TenantsGrow
  BY <1>1, EngineStep
<1>3. ProvidersAreWhole'
  BY <1>2, ProvidersStep
<1>4. RequestsStand'
  BY <1>1, <1>2, RequestsStep DEF IInv, Grows
<1>5. QED
  BY <1>1, <1>2, <1>3, <1>4 DEF RowsRight, RequestsStand, IInv

LEMMA StartIsGood ==
  ASSUME Init
  PROVE  IInv
<1>1. RowsTyped
  BY ProvisioningAssumption DEF Init, RowsTyped, VersionRows
<1>2. RowsRefer
  <2>1. \A p \in Policies : Numbers(p) = {}
    BY DEF Init, Numbers
  <2>2. QED
    BY <2>1 DEF Init, RowsRefer
<1>3. ProvidersAreWhole
  BY DEF Init, ProvidersAreWhole
<1>4. EngineSound
  <2>1. PICK tenant : tenant = EmptyTenant
    OBVIOUS
  <2>2. IsTenant(tenant)
    <3>1. /\ tenant.keys = 0 /\ tenant.presentations = {} /\ tenant.issuer = None
          /\ tenant.attributes = FALSE /\ tenant.credentials = {} /\ tenant.lists = <<>>
      BY <2>1 DEF EmptyTenant
    <3>2. 0 \in 0 .. MaxKeys /\ <<>> \in Seq(KeyRefs)
      BY ProvisioningAssumption
    <3>3. QED
      BY <2>1, <3>1, <3>2 DEF IsTenant, EmptyTenant
  <2>3. \A e : TenantResolves(tenant, e) /\ CredentialsAreVersions(tenant)
    BY <2>1 DEF EmptyTenant, TenantResolves, CredentialsAreVersions
  <2>4. DOMAIN engine = EngineTenants /\ \A e \in EngineTenants : engine[e] = tenant
    BY <2>1 DEF Init
  <2>5. QED
    BY <2>2, <2>3, <2>4 DEF EngineSound, IsSound
<1>5. RequestsTyped
  BY DEF Init, RequestsTyped, NoLocals
<1>6. \A c \in Clients : Stands(pc[c], req[c])
  <2>1. \A r : Stands("idle", r)
    BY DEF Stands, Claims, Versioning, Compiling, Writing, AfterResolve, AfterCompile
  <2>2. QED
    BY <2>1 DEF Init
<1>7. QED
  BY <1>1, <1>2, <1>3, <1>4, <1>5, <1>6 DEF IInv

LEMMA AlwaysGood == Spec => []IInv
<1>1. Init => IInv
  BY StartIsGood
<1>2. IInv /\ [Next]_vars => IInv'
  BY StepIsGood
<1>3. QED
  BY <1>1, <1>2, PTL DEF Spec

-----------------------------------------------------------------------------
(* Alone *)

LEMMA ReadsStay ==
  ASSUME Grows, UNCHANGED tables, NEW label, NEW r, IsRead(label, r)
  PROVE  IsRead(label, r)'
<1>1. \A p : ResolvePublishedVersion(p)' = ResolvePublishedVersion(p)
  BY DEF tables, ResolvePublishedVersion, Published, Numbers
<1>2. \A a : GatesOf(a)' = GatesOf(a)
  BY DEF tables, GatesOf, Published, Numbers, ProviderOf
<1>3. \A a : IssuerNow(a)' = IssuerNow(a)
  BY <1>2 DEF tables, IssuerNow
<1>4. label \in Late => Compiling("superseded", r)'
  BY CompilingStays DEF IsRead, Grows
<1>5. QED
  BY <1>1, <1>2, <1>3, <1>4 DEF IsRead, tables

(* Whoever acts at a label of its own, nobody else is alone. *)
LEMMA AloneMoved ==
  ASSUME AloneInv, RequestsTyped, NEW c \in Clients, pc[c] # "idle",
         NEW label, NEW r, pc'[c] = label, req'[c] = r,
         \A d \in Clients \ {c} : pc'[d] = pc[d] /\ req'[d] = req[d],
         r.alone => /\ req[c].alone /\ IsRead(label, r)'
                    /\ label \in AfterCompile \cup Late => IsWritten(label, r, engine[r.engine])'
  PROVE  AloneInv'
<1>1. ASSUME NEW d \in Clients \ {c} PROVE ~req'[d].alone
  BY <1>1 DEF AloneInv, IsCurrent, RequestsTyped
<1>2. IsCurrent(c)'
  BY DEF AloneInv, IsCurrent
<1>3. QED
  BY <1>1, <1>2 DEF AloneInv, IsCurrent

LEMMA AloneReturned ==
  ASSUME AloneInv, RequestsTyped, NEW c \in Clients, pc[c] # "idle", Return(c)
  PROVE  AloneInv'
<1>1. PICK r, label : r = NoLocals /\ label = "idle"
  OBVIOUS
<1>2. r.alone = FALSE
  BY <1>1 DEF NoLocals
<1>3. /\ pc'[c] = label /\ req'[c] = r
      /\ \A d \in Clients \ {c} : pc'[d] = pc[d] /\ req'[d] = req[d]
  BY <1>1 DEF Return, RequestsTyped
<1>4. QED
  BY <1>2, <1>3, AloneMoved

LEMMA AloneWent ==
  ASSUME AloneInv, RequestsTyped, Grows, NEW c \in Clients, pc[c] # "idle", UNCHANGED tables,
         NEW label, NEW old, old = req[c], Goto(c, label), NEW tenant,
         old.alone => /\ IsRead(label, old)
                      /\ label \in AfterCompile \cup Late =>
                           tenant = engine'[old.engine] /\ IsWritten(label, old, tenant)
  PROVE  AloneInv'
<1>1. /\ pc'[c] = label /\ req'[c] = old
      /\ \A d \in Clients \ {c} : pc'[d] = pc[d] /\ req'[d] = req[d]
  BY DEF Goto, RequestsTyped
<1>2. ASSUME old.alone PROVE IsRead(label, old)'
  BY <1>2, ReadsStay
<1>3. ASSUME old.alone, label \in AfterCompile \cup Late
      PROVE  IsWritten(label, old, engine[old.engine])'
  BY <1>3 DEF IsWritten, Others
<1>4. QED
  BY <1>1, <1>2, <1>3, AloneMoved

LEMMA AloneAwaited ==
  ASSUME AloneInv, RequestsTyped, Grows, NEW c \in Clients, pc[c] # "idle", UNCHANGED tables,
         NEW label, NEW locals, NEW old, old = req[c], NEW r, r = Extended(old, locals),
         "alone" \notin DOMAIN locals, Await(c, label, locals), NEW tenant,
         old.alone => /\ IsRead(label, r)
                      /\ label \in AfterCompile \cup Late =>
                           tenant = engine'[r.engine] /\ IsWritten(label, r, tenant)
  PROVE  AloneInv'
<1>1. /\ pc'[c] = label /\ req'[c] = r
      /\ \A d \in Clients \ {c} : pc'[d] = pc[d] /\ req'[d] = req[d]
  BY DEF Await, RequestsTyped
<1>2. r.alone = old.alone
  <2>1. "alone" \in DOMAIN old
    BY DEF RequestsTyped
  <2>2. r["alone"] = old["alone"]
    BY <2>1, Zenon DEF Extended
  <2>3. QED
    BY <2>2
<1>3. ASSUME old.alone PROVE IsRead(label, r)'
  BY <1>3, ReadsStay
<1>4. ASSUME old.alone, label \in AfterCompile \cup Late
      PROVE  IsWritten(label, r, engine[r.engine])'
  BY <1>4 DEF IsWritten, Others
<1>5. QED
  BY <1>1, <1>2, <1>3, <1>4, AloneMoved

(* A request that begins, or is over in one statement, leaves nobody else   *)
(* alone.                                                                   *)
LEMMA AloneInterrupted ==
  ASSUME AloneInv, RequestsTyped, NEW c \in Clients,
         \A d \in Clients \ {c} : req'[d] = [req[d] EXCEPT !.alone = FALSE],
         req'[c].alone => IsCurrent(c)'
  PROVE  AloneInv'
<1>1. ASSUME NEW d \in Clients \ {c} PROVE ~req'[d].alone
  BY <1>1 DEF RequestsTyped
<1>2. QED
  BY <1>1 DEF AloneInv, IsCurrent

LEMMA AloneBegun ==
  ASSUME AloneInv, RequestsTyped, NEW c \in Clients, NEW label, NEW locals, Begin(c, label, locals),
         locals.goal \in {"provision", "issue"} =>
           label = "resolve" /\ "goal" \in DOMAIN locals
  PROVE  AloneInv'
<1>1. PICK alone, more, r : /\ alone = (/\ locals.goal \in {"provision", "issue"}
                                        /\ \A b \in Clients \ {c} : pc[b] = "idle")
                            /\ more = [alone |-> alone] /\ r = Extended(locals, more)
  OBVIOUS
<1>2. /\ pc'[c] = label /\ req'[c] = r
      /\ \A d \in Clients \ {c} : pc'[d] = pc[d] /\ req'[d] = [req[d] EXCEPT !.alone = FALSE]
  BY <1>1 DEF Begin, RequestsTyped
<1>3. r.alone = alone
  <2>1. "alone" \in DOMAIN more /\ more.alone = alone
    BY <1>1
  <2>2. r["alone"] = more["alone"]
    BY <1>1, <2>1, Zenon DEF Extended
  <2>3. QED
    BY <2>1, <2>2
<1>4. ASSUME alone PROVE IsRead(label, r)'
  <2>1. label = "resolve" /\ "goal" \in DOMAIN locals /\ locals.goal \in {"provision", "issue"}
    BY <1>1, <1>4
  <2>2. "goal" \in DOMAIN r /\ r.goal = locals.goal
    BY <1>1, <2>1 DEF Extended
  <2>3. QED
    BY <2>1, <2>2 DEF IsRead, AfterResolve, AfterCompile, Late
<1>5. ASSUME alone PROVE label \notin AfterCompile \cup Late
  BY <1>1, <1>5 DEF AfterCompile, Late
<1>6. ASSUME req'[c].alone PROVE IsCurrent(c)'
  BY <1>1, <1>2, <1>3, <1>4, <1>5, <1>6 DEF IsCurrent
<1>7. QED
  BY <1>2, <1>6, AloneInterrupted

(* The requests that provide or set up something, and are not alone in the  *)
(* sense meant here.                                                        *)
LEMMA AloneElsewhere ==
  ASSUME IInv, AloneInv, Grows, NEW c \in Clients,
         \/ CreateAttestationProvider(c) \/ CreateCredentialType(c) \/ CreatePolicy(c)
         \/ PublishGate(c) \/ ReleaseEngineTenant(c)
         \/ ImportSigningCertificate(c) \/ ImportAccessCertificate(c) \/ FindTaken(c)
         \/ UpdateProvider(c) \/ BeginVersion(c) \/ ListForNumber(c) \/ InsertVersion(c)
         \/ BeginStatus(c) \/ SetPolicyStatus(c) \/ BeginOnPolicy(c) \/ BeginWithdraw(c)
         \/ ListProvisioned(c) \/ CreateCredentialOffer(c) \/ Finish(c) \/ Fault(c)
  PROVE  AloneInv'
<1>1. RequestsTyped
  BY DEF IInv
<1>2. ASSUME Return(c), pc[c] # "idle" PROVE AloneInv'
  BY <1>1, <1>2, AloneReturned
<1>3. CASE \/ CreateAttestationProvider(c) \/ CreateCredentialType(c) \/ CreatePolicy(c)
           \/ PublishGate(c) \/ ReleaseEngineTenant(c)
  <2>1. Disturb(c)
    BY <1>3 DEF CreateAttestationProvider, CreateCredentialType, CreatePolicy, PublishGate,
       ReleaseEngineTenant
  <2>2. /\ \A d \in Clients \ {c} : req'[d] = [req[d] EXCEPT !.alone = FALSE]
        /\ ~req'[c].alone
    BY <1>1, <2>1 DEF Disturb, RequestsTyped
  <2>3. QED
    BY <1>1, <2>2, AloneInterrupted
<1>4. CASE ImportSigningCertificate(c) \/ BeginVersion(c) \/ BeginStatus(c) \/ BeginWithdraw(c)
  <2>1. ASSUME NEW label, NEW locals, Begin(c, label, locals), locals.goal \notin {"provision", "issue"}
        PROVE  AloneInv'
    BY <1>1, <2>1, AloneBegun
  <2>2. CASE ImportSigningCertificate(c)
    <3>1. PICK label, locals, a, certified, e, key :
            /\ Begin(c, label, locals)
            /\ locals = [goal |-> "claim", provider |-> a, certified |-> certified,
                         access |-> None, engine |-> e, signing |-> key]
      BY <2>2 DEF ImportSigningCertificate
    <3>2. locals.goal = "claim"
      BY <3>1
    <3>3. QED
      BY <2>1, <3>1, <3>2
  <2>3. CASE BeginVersion(c)
    <3>1. PICK locals, p, body, status :
            /\ Begin(c, "number", locals)
            /\ locals = [goal |-> "version", policy |-> p, body |-> body, status |-> status]
      BY <2>3 DEF BeginVersion
    <3>2. locals.goal = "version"
      BY <3>1
    <3>3. QED
      BY <2>1, <3>1, <3>2
  <2>4. CASE BeginStatus(c) \/ BeginWithdraw(c)
    <3>1. PICK label, locals, p, from :
            /\ Begin(c, label, locals)
            /\ \/ locals = [goal |-> "status", policy |-> p, from |-> from]
               \/ locals = [goal |-> "withdraw", policy |-> p]
      BY <2>4 DEF BeginStatus, BeginWithdraw
    <3>2. locals.goal \in {"status", "withdraw"}
      BY <3>1
    <3>3. QED
      BY <2>1, <3>1, <3>2
  <2>5. QED
    BY <1>4, <2>2, <2>3, <2>4
<1>5. CASE BeginOnPolicy(c)
  <2>1. PICK label, locals : Begin(c, label, locals) /\ label = "resolve" /\ "goal" \in DOMAIN locals
    BY <1>5 DEF BeginOnPolicy
  <2>2. QED
    BY <1>1, <2>1, AloneBegun
<1>6. CASE ImportAccessCertificate(c) \/ FindTaken(c) \/ ListForNumber(c) \/ ListProvisioned(c)
  <2>1. pc[c] \in {"access", "taken", "number", "listed"} /\ UNCHANGED tables
    BY <1>6 DEF ImportAccessCertificate, FindTaken, ListForNumber, ListProvisioned
  <2>2. ~req[c].alone
    BY <2>1 DEF AloneInv, IsCurrent, IsRead, AfterResolve, AfterCompile, Late
  <2>3. \/ Return(c) \/ \E label : Goto(c, label)
        \/ \E label, value : \/ Await(c, label, [access |-> value])
                             \/ Await(c, label, [n |-> value])
                             \/ Await(c, label, [obsolete |-> value])
    BY <1>6 DEF ImportAccessCertificate, FindTaken, ListForNumber, ListProvisioned
  <2>4. PICK old : old = req[c]
    OBVIOUS
  <2>5. ASSUME NEW label, Goto(c, label) PROVE AloneInv'
    BY <1>1, <2>1, <2>2, <2>4, <2>5, AloneWent
  <2>6. ASSUME NEW label, NEW value,
               \/ Await(c, label, [access |-> value]) \/ Await(c, label, [n |-> value])
               \/ Await(c, label, [obsolete |-> value])
        PROVE  AloneInv'
    <3>1. PICK locals : /\ \/ locals = [access |-> value] \/ locals = [n |-> value]
                           \/ locals = [obsolete |-> value]
                        /\ Await(c, label, locals)
      BY <2>6
    <3>2. PICK r : r = Extended(old, locals) /\ "alone" \notin DOMAIN locals
      BY <3>1
    <3>3. QED
      BY <1>1, <2>1, <2>2, <2>4, <3>1, <3>2, AloneAwaited
  <2>7. QED
    BY <1>2, <2>1, <2>3, <2>5, <2>6
<1>7. CASE \/ UpdateProvider(c) \/ InsertVersion(c) \/ SetPolicyStatus(c)
           \/ CreateCredentialOffer(c) \/ Finish(c) \/ Fault(c)
  BY <1>2, <1>7 DEF UpdateProvider, InsertVersion, SetPolicyStatus, CreateCredentialOffer, Finish, Fault
<1>8. QED
  BY <1>3, <1>4, <1>5, <1>6, <1>7

LEMMA AloneReads ==
  ASSUME IInv, AloneInv, Grows, NEW c \in Clients,
         Resolve(c) \/ LoadIssuanceContext(c) \/ ReadAccessKey(c) \/ ReadPublishedGates(c)
  PROVE  AloneInv'
<1>1. PICK old, at : old = req[c] /\ at = pc[c]
  OBVIOUS
<1>2. /\ RequestsTyped /\ UNCHANGED tables
      /\ at \in {"resolve", "context", "inputs", "published"} /\ at # "idle"
  BY <1>1 DEF IInv, Resolve, LoadIssuanceContext, ReadAccessKey, ReadPublishedGates
<1>3. CASE Return(c)
  BY <1>1, <1>2, <1>3, AloneReturned
<1>4. /\ old.alone => IsRead(at, old)
      /\ {"goal", "policy"} \subseteq DOMAIN old
      /\ at # "resolve" => "n" \in DOMAIN old
      /\ at \in {"inputs", "published"} => {"provider", "engine", "signing", "certified"} \subseteq DOMAIN old
  BY <1>1, <1>2 DEF AloneInv, IsCurrent, IInv, Stands, Compiling, AfterResolve
<1>5. CASE Resolve(c)
  <2>1. PICK n, locals, r : /\ n = ResolvePublishedVersion(old.policy)
                            /\ locals = [n |-> n] /\ r = Extended(old, locals)
    OBVIOUS
  <2>2. CASE Await(c, "context", locals)
    <3>1. r.policy = old.policy /\ r.n = n /\ "goal" \in DOMAIN r /\ r.goal = old.goal
      BY <1>4, <2>1 DEF Extended
    <3>2. old.alone => IsRead("context", r)
      BY <1>2, <1>4, <2>1, <3>1 DEF IsRead, AfterResolve, AfterCompile, Late
    <3>3. "alone" \notin DOMAIN locals /\ "context" \notin AfterCompile \cup Late
      BY <2>1 DEF AfterCompile, Late
    <3>4. QED
      BY <1>1, <1>2, <2>1, <2>2, <3>2, <3>3, AloneAwaited
  <2>3. QED
    BY <1>1, <1>3, <1>5, <2>1, <2>2 DEF Resolve
<1>6. CASE LoadIssuanceContext(c)
  <2>1. PICK a, row, locals, r :
          /\ a = ProviderOf(old.policy, old.n) /\ row = providers[a]
          /\ locals = [provider |-> a, engine |-> row.engine, signing |-> row.signing,
                       certified |-> row.certified]
          /\ r = Extended(old, locals)
    OBVIOUS
  <2>2. CASE Await(c, "inputs", locals)
    <3>1. /\ r.policy = old.policy /\ r.n = old.n /\ "goal" \in DOMAIN r /\ r.goal = old.goal
          /\ r.provider = a /\ r.engine = row.engine /\ r.signing = row.signing
          /\ r.certified = row.certified
      BY <1>1, <1>4, <1>6, <2>1 DEF Extended, LoadIssuanceContext
    <3>2. ASSUME old.alone PROVE IsRead("inputs", r)
      <4>1. IsRead("context", old)
        BY <1>1, <1>4, <1>6, <3>2 DEF LoadIssuanceContext
      <4>2. old.n = ResolvePublishedVersion(old.policy) /\ old.goal \in {"provision", "issue"}
        BY <4>1 DEF IsRead, AfterResolve
      <4>3. QED
        BY <2>1, <3>1, <4>2 DEF IsRead, AfterResolve, AfterCompile, Late
    <3>3. "alone" \notin DOMAIN locals /\ "inputs" \notin AfterCompile \cup Late
      BY <2>1 DEF AfterCompile, Late
    <3>4. QED
      BY <1>1, <1>2, <2>1, <2>2, <3>2, <3>3, AloneAwaited
  <2>3. QED
    BY <1>1, <1>3, <1>6, <2>1, <2>2 DEF LoadIssuanceContext
<1>7. CASE ReadAccessKey(c)
  <2>1. PICK locals, r : /\ locals = [access |-> providers[old.provider].access]
                         /\ r = Extended(old, locals)
    OBVIOUS
  <2>2. /\ r.policy = old.policy /\ r.n = old.n /\ "goal" \in DOMAIN r /\ r.goal = old.goal
        /\ r.provider = old.provider /\ r.engine = old.engine /\ r.signing = old.signing
        /\ r.certified = old.certified
    BY <1>1, <1>4, <1>7, <2>1 DEF Extended, ReadAccessKey
  <2>3. old.alone => IsRead("published", r)
    BY <1>1, <1>4, <1>7, <2>1, <2>2 DEF ReadAccessKey, IsRead, AfterResolve, AfterCompile, Late
  <2>4. "alone" \notin DOMAIN locals /\ "published" \notin AfterCompile \cup Late
    BY <2>1 DEF AfterCompile, Late
  <2>5. Await(c, "published", locals)
    BY <1>1, <1>7, <2>1 DEF ReadAccessKey
  <2>6. QED
    BY <1>1, <1>2, <2>1, <2>3, <2>4, <2>5, AloneAwaited
<1>8. CASE ReadPublishedGates(c)
  <2>1. PICK found, gated, builtIn, locals, r :
          /\ found = GatesOf(old.provider) /\ gated = found \ {None} /\ builtIn = NeedsBuiltIn(found)
          /\ locals = [gated |-> gated, builtIn |-> builtIn]
          /\ r = Extended(old, locals)
    OBVIOUS
  <2>2. /\ r.policy = old.policy /\ r.n = old.n /\ "goal" \in DOMAIN r /\ r.goal = old.goal
        /\ r.provider = old.provider /\ r.engine = old.engine /\ r.signing = old.signing
        /\ r.certified = old.certified /\ r.gated = gated /\ r.builtIn = builtIn
    BY <1>1, <1>4, <1>8, <2>1 DEF Extended, ReadPublishedGates
  <2>3. old.alone => IsRead("gates", r)
    <3>1. at = "published"
      BY <1>1, <1>8 DEF ReadPublishedGates
    <3>2. /\ "published" \in AfterResolve \ {"context"} /\ "published" \notin Late \cup {"superseded"}
          /\ "gates" \in AfterResolve /\ "gates" \notin Late \cup {"superseded"} \cup AfterCompile
      BY DEF AfterResolve, AfterCompile, Late
    <3>3. ASSUME old.alone
          PROVE  /\ old.goal \in {"provision", "issue"} /\ old.n = ResolvePublishedVersion(old.policy)
                 /\ LET row == providers[old.provider] IN
                      row.engine = old.engine /\ row.signing = old.signing /\ row.certified = old.certified
      BY <1>4, <3>1, <3>2, <3>3 DEF IsRead
    <3>4. QED
      BY <2>1, <2>2, <3>2, <3>3 DEF IsRead
  <2>4. "alone" \notin DOMAIN locals /\ "gates" \notin AfterCompile \cup Late
    BY <2>1 DEF AfterCompile, Late
  <2>5. Await(c, "gates", locals)
    BY <1>1, <1>8, <2>1 DEF ReadPublishedGates
  <2>6. QED
    BY <1>1, <1>2, <2>1, <2>3, <2>4, <2>5, AloneAwaited
<1>9. QED
  BY <1>5, <1>6, <1>7, <1>8

(* The plan says what the tables say. *)
LEMMA AloneCompiles ==
  ASSUME IInv, AloneInv, Grows, NEW c \in Clients, Compile(c)
  PROVE  AloneInv'
<1>1. PICK old, version, type, chosen, context, plan, label, locals, r, tenant :
        /\ old = req[c] /\ version = versions[old.policy][old.n] /\ type = types[version.body.type]
        /\ chosen = {[gate |-> g, version |-> gates[g]] : g \in old.gated}
        /\ context = [engine |-> old.engine, signing |-> old.signing, access |-> old.access,
                      certified |-> old.certified, builtIn |-> old.builtIn, gates |-> chosen]
        /\ plan = IssuancePlan(old.policy, old.n, version.body, type, context)
        /\ label = FirstWrite(old.gated)
        /\ locals = [plan |-> plan, unwritten |-> chosen]
        /\ r = Extended(old, locals)
        /\ tenant = engine'[r.engine]
  OBVIOUS
<1>2. /\ {"goal", "policy", "n", "provider", "engine", "signing", "certified", "gated", "builtIn"}
           \subseteq DOMAIN old
      /\ RequestsTyped /\ UNCHANGED tables /\ pc[c] = "gates"
      /\ old.alone => IsRead("gates", old)
  BY <1>1 DEF Compile, IInv, Stands, Compiling, AfterResolve, AloneInv, IsCurrent
<1>3. CASE Await(c, label, locals)
  <2>1. /\ "goal" \in DOMAIN r /\ r.goal = old.goal
        /\ r.policy = old.policy /\ r.n = old.n /\ r.provider = old.provider
        /\ r.engine = old.engine /\ r.signing = old.signing /\ r.certified = old.certified
        /\ r.plan = plan
    BY <1>1, <1>2 DEF Extended
  <2>2. plan.provider = context
    BY <1>1 DEF IssuancePlan
  <2>3. label = "presentations" \/ label = "issuer"
    BY <1>1 DEF FirstWrite
  <2>4. ASSUME old.alone PROVE IssuerConfiguration(context) = IssuerNow(old.provider)
    <3>1. IsRead("gates", old)
      BY <1>2, <2>4
    <3>2. /\ old.certified = providers[old.provider].certified
          /\ old.gated = GatesOf(old.provider) \ {None}
          /\ old.builtIn = NeedsBuiltIn(GatesOf(old.provider))
      BY <3>1 DEF IsRead, AfterResolve
    <3>3. /\ context.builtIn = old.builtIn /\ context.gates = chosen
          /\ context.certified = old.certified
      BY <1>1
    <3>4. QED
      BY <1>1, <3>2, <3>3 DEF IssuerConfiguration, IssuerNow
  <2>5. old.alone => IsRead(label, r)
    BY <1>2, <2>1, <2>2, <2>3, <2>4 DEF IsRead, AfterResolve, AfterCompile, Late
  <2>6. IsWritten(label, r, tenant)
    BY <2>3 DEF IsWritten, AfterIssuer, AfterCredential, AfterAll, Late
  <2>7. "alone" \notin DOMAIN locals /\ pc[c] # "idle"
    BY <1>1, <1>2
  <2>8. old = req[c] /\ r = Extended(old, locals) /\ tenant = engine'[r.engine]
    BY <1>1
  <2>9. QED
    BY <1>2, <1>3, <2>5, <2>6, <2>7, <2>8, AloneAwaited
<1>4. CASE Return(c)
  BY <1>2, <1>4, AloneReturned
<1>5. Return(c) \/ Await(c, label, locals)
  BY <1>1 DEF Compile
<1>6. QED
  BY <1>3, <1>4, <1>5

(* What an actor past the compilation has at hand. *)
LEMMA Compiled ==
  ASSUME IInv, AloneInv, NEW c \in Clients, NEW old, old = req[c], NEW at, at = pc[c],
         at \in AfterCompile
  PROVE  /\ RequestsTyped /\ at # "idle"
         /\ Compiling(at, old)
         /\ {"goal", "policy", "n", "provider", "engine", "signing", "certified", "plan", "unwritten"}
              \subseteq DOMAIN old
         /\ old.engine \in EngineTenants /\ IsTenant(engine[old.engine])
         /\ old.plan.provider.engine = old.engine /\ old.plan.provider.signing = old.signing
         /\ old.plan.policy = old.policy /\ old.plan.version = old.n
         /\ old.alone => IsRead(at, old) /\ IsWritten(at, old, engine[old.engine])
<1>1. at \in AfterResolve /\ at \in AfterResolve \ {"context"} /\ at # "idle"
  BY DEF AfterResolve, AfterCompile
<1>2. Compiling(at, old)
  BY DEF IInv, Stands
<1>3. old.engine \in EngineTenants
  BY <1>1, <1>2 DEF Compiling, IsHeld
<1>4. IsTenant(engine[old.engine])
  BY <1>3 DEF IInv, EngineSound, IsSound
<1>5. RequestsTyped /\ (old.alone => IsRead(at, old) /\ IsWritten(at, old, engine[old.engine]))
  BY DEF IInv, AloneInv, IsCurrent
<1>6. QED
  BY <1>1, <1>2, <1>3, <1>4, <1>5 DEF Compiling, IsPlan

LEMMA StillRead ==
  ASSUME NEW at, NEW label, NEW old, NEW r, at \in AfterCompile, label \in AfterCompile,
         IsRead(at, old),
         {"goal", "policy", "n", "provider", "engine", "signing", "certified", "plan", "unwritten"}
           \subseteq DOMAIN old,
         \/ r = old
         \/ DOMAIN r = DOMAIN old /\ \A x \in DOMAIN old \ {"unwritten"} : r[x] = old[x],
         label = "offer" => old.goal = "issue",
         label = "superseded" => old.goal = "provision"
  PROVE  IsRead(label, r)
<1>1. /\ at \in AfterResolve /\ at \in AfterResolve \ {"context"} /\ at # "gates" /\ at \notin Late
      /\ label \in AfterResolve /\ label # "gates" /\ label \notin Late
  BY DEF AfterResolve, AfterCompile, Late
<1>2. /\ r.policy = old.policy /\ r.n = old.n /\ r.provider = old.provider /\ r.engine = old.engine
      /\ r.signing = old.signing /\ r.certified = old.certified /\ r.plan = old.plan
      /\ r.goal = old.goal /\ DOMAIN r = DOMAIN old
  OBVIOUS
<1>3. /\ old.goal \in {"provision", "issue"} /\ old.n = ResolvePublishedVersion(old.policy)
      /\ providers[old.provider].engine = old.engine /\ providers[old.provider].signing = old.signing
      /\ providers[old.provider].certified = old.certified
      /\ IssuerConfiguration(old.plan.provider) = IssuerNow(old.provider)
  BY <1>1 DEF IsRead
<1>4. QED
  BY <1>1, <1>2, <1>3 DEF IsRead

LEMMA AloneWrites ==
  ASSUME IInv, AloneInv, Grows, NEW c \in Clients,
         \/ WritePresentation(c) \/ WriteIssuerConfiguration(c) \/ EnsureAttributeProvider(c)
         \/ WriteCredential(c)
  PROVE  AloneInv'
<1>1. PICK old, at, e, tenant, new, plan :
        /\ old = req[c] /\ at = pc[c] /\ e = old.engine /\ plan = old.plan
        /\ tenant = engine[e] /\ new = engine'[e]
  OBVIOUS
<1>2. at \in {"presentations", "issuer", "attributes", "credential"} /\ UNCHANGED tables
  BY <1>1 DEF WritePresentation, WriteIssuerConfiguration, EnsureAttributeProvider, WriteCredential
<1>3. /\ RequestsTyped /\ at # "idle" /\ at \in AfterCompile
      /\ {"goal", "policy", "n", "provider", "engine", "signing", "certified", "plan", "unwritten"}
           \subseteq DOMAIN old
      /\ e \in EngineTenants /\ IsTenant(tenant)
      /\ plan.provider.engine = e
      /\ old.alone => IsRead(at, old) /\ IsWritten(at, old, tenant)
  <2>1. at \in AfterCompile
    BY <1>2 DEF AfterCompile
  <2>2. QED
    BY <1>1, <2>1, Compiled
<1>4. DOMAIN engine = EngineTenants
  BY DEF IInv, EngineSound
<1>5. CASE WritePresentation(c)
  <2>1. PICK gate : Await(c, IF old.unwritten = {gate} THEN "issuer" ELSE "presentations",
                          [unwritten |-> old.unwritten \ {gate}])
    BY <1>1, <1>5 DEF WritePresentation
  <2>2. PICK label, rest, locals, r :
          /\ label = IF old.unwritten = {gate} THEN "issuer" ELSE "presentations"
          /\ rest = old.unwritten \ {gate} /\ locals = [unwritten |-> rest]
          /\ r = Extended(old, locals)
    OBVIOUS
  <2>3. /\ DOMAIN r = DOMAIN old /\ \A x \in DOMAIN old \ {"unwritten"} : r[x] = old[x]
        /\ r.engine = e
    BY <1>1, <1>3, <2>2 DEF Extended
  <2>4. label \in {"issuer", "presentations"} /\ label \in AfterCompile
    BY <2>2 DEF AfterCompile
  <2>5. old.alone => IsRead(label, r)
    BY <1>3, <2>3, <2>4, StillRead
  <2>6. IsWritten(label, r, new)
    BY <2>4 DEF IsWritten, AfterIssuer, AfterCredential, AfterAll, Late
  <2>7. "alone" \notin DOMAIN locals /\ Await(c, label, locals)
    BY <2>1, <2>2
  <2>8. QED
    BY <1>1, <1>2, <1>3, <2>2, <2>3, <2>5, <2>6, <2>7, AloneAwaited
<1>6. ASSUME NEW label \in {"attributes", "credential", "lists", "offer", "superseded"}, Goto(c, label),
             label = "offer" => old.goal = "issue", label = "superseded" => old.goal # "issue",
             old.alone => IsWritten(label, old, new)
      PROVE  AloneInv'
  <2>1. label \in AfterCompile
    BY <1>6 DEF AfterCompile
  <2>2. ASSUME old.alone PROVE IsRead(label, old)
    <3>1. old.goal \in {"provision", "issue"} /\ IsRead(at, old)
      BY <1>3, <2>2 DEF IsRead
    <3>2. label = "superseded" => old.goal = "provision"
      BY <1>6, <3>1
    <3>3. QED
      BY <1>3, <1>6, <2>1, <3>1, <3>2, StillRead
  <2>3. QED
    BY <1>1, <1>2, <1>3, <1>6, <2>2, AloneWent
<1>7. CASE WriteIssuerConfiguration(c)
  <2>1. PICK issuer : issuer = IssuerConfiguration(plan.provider)
    OBVIOUS
  <2>2. engine' = [engine EXCEPT ![e].issuer = issuer]
    BY <1>1, <1>3, <1>7, <2>1 DEF WriteIssuerConfiguration
  <2>3. new = [tenant EXCEPT !.issuer = issuer] /\ "issuer" \in DOMAIN tenant
    BY <1>1, <1>3, <1>4, <2>2 DEF IsTenant
  <2>4. new.issuer = issuer
    BY <2>3
  <2>5. IsWritten("attributes", old, new)
    BY <1>1, <2>1, <2>4 DEF IsWritten, AfterIssuer, AfterCredential, AfterAll, Late
  <2>6. QED
    BY <1>6, <1>7, <2>5 DEF WriteIssuerConfiguration
<1>8. CASE EnsureAttributeProvider(c)
  <2>1. PICK yes : yes = TRUE
    OBVIOUS
  <2>2. engine' = [engine EXCEPT ![e].attributes = yes]
    BY <1>1, <1>3, <1>8, <2>1 DEF EnsureAttributeProvider
  <2>3. new = [tenant EXCEPT !.attributes = yes] /\ "issuer" \in DOMAIN tenant
    BY <1>1, <1>3, <1>4, <2>2 DEF IsTenant
  <2>4. new.issuer = tenant.issuer
    BY <2>3
  <2>5. at = "attributes"
    BY <1>1, <1>8 DEF EnsureAttributeProvider
  <2>6. old.alone => IsWritten("credential", old, new)
    BY <1>3, <2>4, <2>5 DEF IsWritten, AfterIssuer, AfterCredential, AfterAll, Late
  <2>7. QED
    BY <1>6, <1>8, <2>6 DEF EnsureAttributeProvider
<1>9. CASE WriteCredential(c)
  <2>1. PICK credentials, label :
          /\ credentials = {x \in tenant.credentials : <<x.policy, x.version>> # <<plan.policy, plan.version>>}
                              \cup {CredentialConfiguration(plan)}
          /\ label = IF plan.listed THEN "lists" ELSE AfterProvisioning(c)
    OBVIOUS
  <2>2. engine' = [engine EXCEPT ![e].credentials = credentials]
    BY <1>1, <1>3, <1>9, <2>1 DEF WriteCredential
  <2>3. new = [tenant EXCEPT !.credentials = credentials]
        /\ "issuer" \in DOMAIN tenant /\ "credentials" \in DOMAIN tenant
    BY <1>1, <1>3, <1>4, <2>2 DEF IsTenant
  <2>4. new.issuer = tenant.issuer /\ CredentialConfiguration(plan) \in new.credentials
    BY <2>1, <2>3
  <2>5. at = "credential" /\ Goto(c, label)
    BY <1>1, <1>9, <2>1 DEF WriteCredential
  <2>6. /\ label \in {"lists", "offer", "superseded"} /\ (label # "lists" => ~plan.listed)
        /\ label = "offer" => old.goal = "issue"
        /\ label = "superseded" => old.goal # "issue"
    BY <1>1, <2>1 DEF AfterProvisioning
  <2>7. old.alone => IsWritten(label, old, new)
    BY <1>1, <1>3, <2>4, <2>5, <2>6 DEF IsWritten, AfterIssuer, AfterCredential, AfterAll, Late
  <2>8. QED
    BY <1>6, <2>5, <2>6, <2>7
<1>10. QED
  BY <1>5, <1>7, <1>8, <1>9

LEMMA AloneLists ==
  ASSUME IInv, AloneInv, Grows, NEW c \in Clients,
         ReadStatusLists(c) \/ CreateStatusList(c) \/ PinStatusList(c)
  PROVE  AloneInv'
<1>1. PICK old, at, e, tenant, new, plan, key, next :
        /\ old = req[c] /\ at = pc[c] /\ e = old.engine /\ plan = old.plan
        /\ tenant = engine[e] /\ new = engine'[e] /\ key = old.signing
        /\ next = AfterProvisioning(c)
  OBVIOUS
<1>2. at \in {"lists", "create", "pin"} /\ UNCHANGED tables
  BY <1>1 DEF ReadStatusLists, CreateStatusList, PinStatusList
<1>3. /\ RequestsTyped /\ at # "idle" /\ at \in AfterCompile
      /\ {"goal", "policy", "n", "provider", "engine", "signing", "certified", "plan", "unwritten"}
           \subseteq DOMAIN old
      /\ e \in EngineTenants /\ IsTenant(tenant)
      /\ plan.provider.engine = e
      /\ old.alone => IsRead(at, old) /\ IsWritten(at, old, tenant)
  <2>1. at \in AfterCompile
    BY <1>2 DEF AfterCompile
  <2>2. QED
    BY <1>1, <2>1, Compiled
<1>4. DOMAIN engine = EngineTenants
  BY DEF IInv, EngineSound
<1>5. /\ next \in {"offer", "superseded"}
      /\ next = "offer" => old.goal = "issue"
      /\ next = "superseded" => old.goal # "issue"
  BY <1>1 DEF AfterProvisioning
<1>6. ASSUME NEW label \in {"create", "pin", next}, NEW r, r = old \/
               (DOMAIN r = DOMAIN old /\ \A x \in DOMAIN old \ {"unwritten"} : r[x] = old[x]),
             old.alone
      PROVE  IsRead(label, r)
  <2>1. label \in AfterCompile
    BY <1>5, <1>6 DEF AfterCompile
  <2>2. old.goal \in {"provision", "issue"} /\ IsRead(at, old)
    BY <1>3, <1>6 DEF IsRead
  <2>3. QED
    BY <1>3, <1>5, <1>6, <2>1, <2>2, StillRead
<1>7. ASSUME NEW label \in {"create", next}, Goto(c, label), old.alone => IsWritten(label, old, new)
      PROVE  AloneInv'
  BY <1>1, <1>2, <1>3, <1>6, <1>7, AloneWent
<1>8. ASSUME NEW label \in {"pin", next}, NEW rest, NEW r, r = Extended(old, [unwritten |-> rest]),
             Await(c, label, [unwritten |-> rest]), old.alone => IsWritten(label, r, new)
      PROVE  AloneInv'
  <2>1. PICK locals : locals = [unwritten |-> rest]
    OBVIOUS
  <2>2. /\ DOMAIN r = DOMAIN old /\ \A x \in DOMAIN old \ {"unwritten"} : r[x] = old[x]
        /\ r.engine = e
    BY <1>1, <1>3, <1>8, <2>1 DEF Extended
  <2>3. "alone" \notin DOMAIN locals /\ Await(c, label, locals) /\ r = Extended(old, locals)
    BY <1>8, <2>1
  <2>4. old.alone => IsRead(label, r)
    BY <1>6, <1>8, <2>2
  <2>5. QED
    BY <1>1, <1>2, <1>3, <1>8, <2>2, <2>3, <2>4, AloneAwaited
<1>9. CASE ReadStatusLists(c)
  <2>1. at = "lists" /\ new = tenant
    BY <1>1, <1>9 DEF ReadStatusLists
  <2>2. PICK unpinned : unpinned = {i \in DOMAIN tenant.lists : tenant.lists[i] # key}
    OBVIOUS
  <2>3. unpinned = Unpinned(plan.provider.engine, old.signing)
    BY <1>1, <1>3, <2>2 DEF Unpinned
  <2>4. CASE tenant.lists = <<>> /\ Goto(c, "create")
    <3>1. old.alone => IsWritten("create", old, new)
      BY <1>3, <2>1, <2>4 DEF IsWritten, AfterIssuer, AfterCredential, AfterAll, Late
    <3>2. QED
      BY <1>7, <2>4, <3>1
  <2>5. CASE tenant.lists # <<>> /\ unpinned = {} /\ Goto(c, next)
    <3>1. old.alone => IsWritten(next, old, new)
      BY <1>1, <1>3, <1>5, <2>1, <2>2, <2>5 DEF IsWritten, AfterIssuer, AfterCredential, AfterAll, Late
    <3>2. QED
      BY <1>7, <2>5, <3>1
  <2>6. CASE tenant.lists # <<>> /\ Await(c, "pin", [unwritten |-> unpinned])
    <3>1. PICK locals, r : locals = [unwritten |-> unpinned] /\ r = Extended(old, locals)
      OBVIOUS
    <3>2. r.unwritten = unpinned /\ r.signing = key /\ r.plan = plan
      BY <1>1, <1>3, <3>1 DEF Extended
    <3>3. old.alone => IsWritten("pin", r, new)
      BY <1>1, <1>3, <2>1, <2>2, <2>6, <3>2 DEF IsWritten, AfterIssuer, AfterCredential, AfterAll, Late
    <3>4. QED
      BY <1>8, <2>6, <3>1, <3>3
  <2>7. QED
    BY <1>1, <1>3, <1>9, <2>3, <2>4, <2>5, <2>6 DEF ReadStatusLists
<1>10. CASE CreateStatusList(c)
  <2>1. PICK lists : lists = Append(tenant.lists, key)
    OBVIOUS
  <2>2. engine' = [engine EXCEPT ![e].lists = lists]
    BY <1>1, <1>3, <1>10, <2>1 DEF CreateStatusList
  <2>3. new = [tenant EXCEPT !.lists = lists] /\ {"issuer", "credentials", "lists"} \subseteq DOMAIN tenant
    BY <1>1, <1>3, <1>4, <2>2 DEF IsTenant
  <2>4. new.issuer = tenant.issuer /\ new.credentials = tenant.credentials /\ new.lists = lists
    BY <2>3
  <2>5. at = "create"
    BY <1>1, <1>10 DEF CreateStatusList
  <2>6. tenant.lists = <<>> => lists # <<>> /\ \A i \in DOMAIN lists : lists[i] = key
    BY <2>1
  <2>7. old.alone => IsWritten(next, old, new)
    BY <1>1, <1>3, <1>5, <2>4, <2>5, <2>6 DEF IsWritten, AfterIssuer, AfterCredential, AfterAll, Late
  <2>8. QED
    BY <1>1, <1>7, <1>10, <2>7 DEF CreateStatusList
<1>11. CASE PinStatusList(c)
  <2>1. PICK i \in old.unwritten :
          /\ engine' = [engine EXCEPT ![e].lists[i] = key]
          /\ Await(c, IF old.unwritten = {i} THEN next ELSE "pin", [unwritten |-> old.unwritten \ {i}])
    BY <1>1, <1>3, <1>11 DEF PinStatusList
  <2>2. PICK lists, rest, label, locals, r :
          /\ lists = [tenant.lists EXCEPT ![i] = key] /\ rest = old.unwritten \ {i}
          /\ label = (IF old.unwritten = {i} THEN next ELSE "pin")
          /\ locals = [unwritten |-> rest] /\ r = Extended(old, locals)
    OBVIOUS
  <2>3. engine' = [engine EXCEPT ![e].lists = lists]
    BY <1>1, <2>1, <2>2
  <2>4. new = [tenant EXCEPT !.lists = lists] /\ {"issuer", "credentials", "lists"} \subseteq DOMAIN tenant
    BY <1>1, <1>3, <1>4, <2>3 DEF IsTenant
  <2>5. new.issuer = tenant.issuer /\ new.credentials = tenant.credentials /\ new.lists = lists
    BY <2>4
  <2>6. at = "pin"
    BY <1>1, <1>11 DEF PinStatusList
  <2>7. r.unwritten = rest /\ r.signing = key /\ r.plan = plan
    BY <1>1, <1>3, <2>2 DEF Extended
  <2>8. ASSUME old.alone PROVE IsWritten(label, r, new)
    <3>1. /\ tenant.lists # <<>>
          /\ old.unwritten = {j \in DOMAIN tenant.lists : tenant.lists[j] # key}
          /\ tenant.issuer = IssuerConfiguration(plan.provider)
          /\ CredentialConfiguration(plan) \in tenant.credentials
      BY <1>1, <1>3, <2>6, <2>8 DEF IsWritten, AfterIssuer, AfterCredential, AfterAll, Late
    <3>2. /\ DOMAIN lists = DOMAIN tenant.lists /\ lists[i] = key
          /\ \A j \in DOMAIN lists \ {i} : lists[j] = tenant.lists[j]
      BY <2>1, <2>2, <3>1
    <3>3. lists # <<>>
      BY <2>1, <3>1, <3>2
    <3>4. rest = {j \in DOMAIN lists : lists[j] # key}
      BY <2>2, <3>1, <3>2
    <3>5. label = "pin" \/ (label = next /\ rest = {})
      BY <2>2
    <3>6. \A j \in DOMAIN lists : rest = {} => lists[j] = key
      BY <3>4
    <3>7. QED
      BY <1>5, <2>5, <2>7, <3>1, <3>3, <3>4, <3>5, <3>6
         DEF IsWritten, AfterIssuer, AfterCredential, AfterAll, Late
  <2>9. label \in {"pin", next} /\ Await(c, label, [unwritten |-> rest])
        /\ r = Extended(old, [unwritten |-> rest])
    BY <2>1, <2>2
  <2>10. QED
    BY <1>8, <2>8, <2>9
<1>12. QED
  BY <1>9, <1>10, <1>11

LEMMA ReadLate ==
  ASSUME NEW at \in Late \cup {"superseded"}, NEW label \in Late, NEW old, IsRead(at, old),
         Compiling("superseded", old),
         NEW r, DOMAIN old \subseteq DOMAIN r,
         \A x \in DOMAIN old \ {"obsolete", "found"} : r[x] = old[x]
  PROVE  IsRead(label, r)
<1>1. {"goal", "policy", "n", "provider", "engine", "signing", "certified", "plan", "unwritten"}
        \subseteq DOMAIN old
  BY DEF Compiling, AfterCompile, AfterResolve
<1>2. /\ r.goal = old.goal /\ r.policy = old.policy /\ r.n = old.n /\ r.provider = old.provider
      /\ r.engine = old.engine /\ r.signing = old.signing /\ r.certified = old.certified
      /\ r.plan = old.plan
  BY <1>1
<1>3. Compiling("superseded", r)
  BY <1>1, <1>2 DEF Compiling, IsPlan, AfterCompile, AfterResolve
<1>4. "goal" \in DOMAIN r
  BY <1>1
<1>5. /\ at \in AfterCompile \cup Late /\ at \in AfterResolve \cup Late
      /\ at \in (AfterResolve \ {"context"}) \cup Late
  BY DEF AfterCompile, AfterResolve, Late
<1>6. label \in AfterCompile \cup Late /\ label # "offer" /\ label # "gates"
  BY DEF Late
<1>7. QED
  BY <1>2, <1>3, <1>4, <1>5, <1>6 DEF IsRead

LEMMA WrittenLate ==
  ASSUME NEW at \in Late \cup {"superseded"}, NEW label \in Late, NEW old, NEW tenant,
         IsWritten(at, old, tenant),
         NEW r, r.plan = old.plan, r.signing = old.signing,
         NEW new, new.issuer = tenant.issuer, new.lists = tenant.lists,
         CredentialConfiguration(old.plan) \in new.credentials,
         label = "configured" =>
           /\ \A x \in r.obsolete : x.engine = r.engine /\ x.version # r.n
           /\ \A x \in Others(new, r) : \E y \in r.obsolete : y.version = x.version,
         label = "withdraw" =>
           /\ "obsolete" \in DOMAIN r /\ r.obsolete = {}
           /\ \A x \in r.found : x.engine = r.engine /\ x.version # r.n
           /\ \A x \in Others(new, r) : \E y \in r.found : y.version = x.version,
         label = "done" => Others(new, r) = {}
  PROVE  IsWritten(label, r, new)
BY DEF IsWritten, AfterIssuer, AfterCredential, AfterAll, Late

(* The withdrawal that ends a provisioning spares the version provisioned. *)
LEMMA AloneWithdraws ==
  ASSUME IInv, AloneInv, Grows, NEW c \in Clients,
         ListSuperseded(c) \/ ListConfigured(c) \/ Withdraw(c)
  PROVE  AloneInv'
<1>1. PICK old, at, e, tenant, new, plan :
        /\ old = req[c] /\ at = pc[c] /\ e = old.engine /\ plan = old.plan
        /\ tenant = engine[e] /\ new = engine'[e]
  OBVIOUS
<1>2. /\ at \in {"superseded", "configured", "withdraw"} /\ UNCHANGED tables /\ pc[c] # "idle"
      /\ at \in Late \cup {"superseded"}
  BY <1>1 DEF ListSuperseded, ListConfigured, Withdraw, Late
<1>3. RequestsTyped /\ DOMAIN engine = EngineTenants
  BY DEF IInv, EngineSound
<1>4. ASSUME old.alone
      PROVE  IsRead(at, old) /\ IsWritten(at, old, tenant) /\ Compiling("superseded", old)
  <2>1. IsRead(at, old) /\ (at \in AfterCompile \cup Late => IsWritten(at, old, tenant))
    BY <1>1, <1>4 DEF AloneInv, IsCurrent
  <2>2. at = "superseded" => Compiling("superseded", old)
    BY <1>1 DEF IInv, Stands
  <2>3. at # "superseded" => at \in Late
    BY <1>2
  <2>4. at \in AfterCompile \cup Late
    BY <1>2 DEF AfterCompile
  <2>5. QED
    BY <2>1, <2>2, <2>3, <2>4 DEF IsRead
<1>5. ASSUME old.alone
      PROVE  /\ {"policy", "n", "engine", "signing", "plan"} \subseteq DOMAIN old
             /\ e \in EngineTenants /\ plan.policy = old.policy /\ plan.version = old.n
             /\ IsTenant(tenant) /\ CredentialsAreVersions(tenant)
             /\ CredentialConfiguration(plan) \in tenant.credentials
  <2>1. Compiling("superseded", old)
    BY <1>4, <1>5
  <2>2. /\ {"policy", "n", "engine", "signing", "plan"} \subseteq DOMAIN old
        /\ e \in EngineTenants /\ plan.policy = old.policy /\ plan.version = old.n
    BY <1>1, <2>1 DEF Compiling, IsPlan, IsHeld, AfterCompile, AfterResolve
  <2>3. IsTenant(tenant) /\ CredentialsAreVersions(tenant)
    BY <1>1, <2>2 DEF IInv, EngineSound, IsSound
  <2>4. CredentialConfiguration(plan) \in tenant.credentials
    BY <1>1, <1>2, <1>4, <1>5 DEF IsWritten, AfterAll, Late
  <2>5. QED
    BY <2>2, <2>3, <2>4
<1>6. ASSUME NEW label \in Late, NEW locals, DOMAIN locals \subseteq {"obsolete", "found"},
             Await(c, label, locals), NEW r, r = Extended(old, locals),
             old.alone => IsWritten(label, r, new)
      PROVE  AloneInv'
  <2>1. "alone" \notin DOMAIN locals
    BY <1>6
  <2>2. ASSUME old.alone PROVE IsRead(label, r) /\ r.engine = e
    <3>1. DOMAIN old \subseteq DOMAIN r /\ \A x \in DOMAIN old \ {"obsolete", "found"} : r[x] = old[x]
      BY <1>6 DEF Extended
    <3>2. "engine" \in DOMAIN old
      BY <1>5, <2>2
    <3>3. r.engine = e
      BY <1>1, <3>1, <3>2
    <3>4. IsRead(at, old) /\ Compiling("superseded", old)
      BY <1>4, <2>2
    <3>5. IsRead(label, r)
      BY <1>2, <3>1, <3>4, ReadLate
    <3>6. QED
      BY <3>3, <3>5
  <2>3. QED
    BY <1>1, <1>2, <1>3, <1>6, <2>1, <2>2, AloneAwaited
<1>7. CASE ListSuperseded(c)
  <2>1. PICK others : others = Numbers(old.policy) \ {old.n}
    OBVIOUS
  <2>2. at = "superseded" /\ new = tenant
    BY <1>1, <1>7 DEF ListSuperseded
  <2>3. ASSUME old.alone PROVE \A x \in Others(tenant, old) : x.version \in others
    BY <1>5, <2>1, <2>3 DEF Others, CredentialsAreVersions
  <2>4. CASE others = {}
    <3>1. Goto(c, "done")
      BY <1>1, <1>7, <2>1, <2>4 DEF ListSuperseded
    <3>2. ASSUME old.alone PROVE IsRead("done", old) /\ IsWritten("done", old, new)
      <4>1. "done" \in Late
        BY DEF Late
      <4>2. IsRead(at, old) /\ Compiling("superseded", old) /\ IsWritten(at, old, tenant)
        BY <1>4, <3>2
      <4>3. IsRead("done", old)
        BY <1>2, <4>1, <4>2, ReadLate
      <4>4. Others(tenant, old) = {}
        BY <2>3, <2>4, <3>2
      <4>5. CredentialConfiguration(old.plan) \in new.credentials
        BY <1>1, <1>5, <2>2, <3>2
      <4>6. IsWritten("done", old, new)
        BY <1>2, <2>2, <4>1, <4>2, <4>4, <4>5, WrittenLate
      <4>7. QED
        BY <4>3, <4>6
    <3>3. QED
      BY <1>1, <1>2, <1>3, <3>1, <3>2, AloneWent
  <2>5. CASE others # {}
    <3>1. PICK locals, obsolete, r :
            /\ obsolete = {[engine |-> e, version |-> n] : n \in others}
            /\ locals = [obsolete |-> obsolete] /\ r = Extended(old, locals)
      OBVIOUS
    <3>2. Await(c, "configured", locals) /\ "configured" \in Late
          /\ DOMAIN locals \subseteq {"obsolete", "found"}
      BY <1>1, <1>7, <2>1, <2>5, <3>1 DEF ListSuperseded, Late
    <3>3. ASSUME old.alone PROVE IsWritten("configured", r, new)
      <4>1. /\ r.obsolete = obsolete /\ r.engine = e /\ r.policy = old.policy /\ r.n = old.n
            /\ r.plan = old.plan /\ r.signing = old.signing
        BY <1>1, <1>5, <3>1, <3>3 DEF Extended
      <4>2. \A x \in obsolete : x.engine = e /\ x.version # old.n
        BY <2>1, <3>1
      <4>3. \A n \in others : \E y \in obsolete : y.version = n
        <5>1. ASSUME NEW n \in others PROVE \E y \in obsolete : y.version = n
          <6>1. PICK y : y = [engine |-> e, version |-> n]
            OBVIOUS
          <6>2. y \in obsolete /\ y.version = n
            BY <3>1, <5>1, <6>1
          <6>3. QED
            BY <6>2
        <5>2. QED
          BY <5>1
      <4>4. Others(new, r) = Others(tenant, old)
        BY <2>2, <4>1 DEF Others
      <4>5. \A x \in Others(new, r) : \E y \in r.obsolete : y.version = x.version
        BY <2>3, <3>3, <4>1, <4>3, <4>4
      <4>6. IsWritten(at, old, tenant) /\ CredentialConfiguration(old.plan) \in new.credentials
        BY <1>1, <1>4, <1>5, <2>2, <3>3
      <4>7. QED
        BY <1>2, <2>2, <3>2, <4>1, <4>2, <4>5, <4>6, WrittenLate
    <3>4. QED
      BY <1>6, <3>1, <3>2, <3>3
  <2>6. QED
    BY <2>4, <2>5
<1>8. CASE ListConfigured(c)
  <2>1. PICK on, listed, here, rest, found, label :
          /\ on \in {x.engine : x \in old.obsolete}
          /\ listed = {x.version : x \in {y \in engine[on].credentials : y.policy = old.policy}}
          /\ here = {x \in old.obsolete : x.engine = on}
          /\ rest = old.obsolete \ here
          /\ found = {x \in here : x.version \in listed}
          /\ label = (IF found # {} THEN "withdraw" ELSE IF rest # {} THEN "configured" ELSE "done")
          /\ Await(c, label, [obsolete |-> rest, found |-> found])
    <3>1. PICK on \in {x.engine : x \in req[c].obsolete} :
            LET listed == {x.version : x \in {y \in engine[on].credentials : y.policy = req[c].policy}}
                here == {x \in req[c].obsolete : x.engine = on}
                rest == req[c].obsolete \ here
                found == {x \in here : x.version \in listed}
            IN Await(c, IF found # {} THEN "withdraw" ELSE IF rest # {} THEN "configured" ELSE "done",
                     [obsolete |-> rest, found |-> found])
      BY <1>8, Zenon DEF ListConfigured
    <3>2. PICK listed, here, rest, found :
            /\ listed = {x.version : x \in {y \in engine[on].credentials : y.policy = req[c].policy}}
            /\ here = {x \in req[c].obsolete : x.engine = on}
            /\ rest = req[c].obsolete \ here
            /\ found = {x \in here : x.version \in listed}
      OBVIOUS
    <3>3. Await(c, IF found # {} THEN "withdraw" ELSE IF rest # {} THEN "configured" ELSE "done",
                [obsolete |-> rest, found |-> found])
      BY <3>1, <3>2, Zenon
    <3>4. PICK label :
            label = IF found # {} THEN "withdraw" ELSE IF rest # {} THEN "configured" ELSE "done"
      OBVIOUS
    <3>5. Await(c, label, [obsolete |-> rest, found |-> found])
      BY <3>3, <3>4
    <3>6. on \in {x.engine : x \in old.obsolete}
      BY <1>1, <3>1
    <3>7. /\ listed = {x.version : x \in {y \in engine[on].credentials : y.policy = old.policy}}
          /\ here = {x \in old.obsolete : x.engine = on}
          /\ rest = old.obsolete \ here
      BY <1>1, <3>2
    <3>8. QED
      BY <3>2, <3>4, <3>5, <3>6, <3>7, Zenon
  <2>2. PICK locals, r : locals = [obsolete |-> rest, found |-> found] /\ r = Extended(old, locals)
    OBVIOUS
  <2>3. Await(c, label, locals) /\ label \in Late /\ DOMAIN locals \subseteq {"obsolete", "found"}
    BY <2>1, <2>2 DEF Late
  <2>4. at = "configured" /\ new = tenant
    BY <1>1, <1>8 DEF ListConfigured
  <2>5. ASSUME old.alone PROVE IsWritten(label, r, new)
    <3>1. /\ \A x \in old.obsolete : x.engine = e /\ x.version # old.n
          /\ \A x \in Others(tenant, old) : \E y \in old.obsolete : y.version = x.version
          /\ IsWritten(at, old, tenant)
      BY <1>1, <1>4, <2>4, <2>5 DEF IsWritten
    <3>2. on = e /\ here = old.obsolete /\ rest = {}
      BY <2>1, <3>1
    <3>3. \A x \in Others(tenant, old) : x.version \in listed
      BY <1>1, <2>1, <3>2 DEF Others
    <3>4. \A x \in Others(tenant, old) : \E y \in found : y.version = x.version
      BY <2>1, <3>1, <3>2, <3>3
    <3>5. /\ "obsolete" \in DOMAIN r /\ r.obsolete = {} /\ r.found = found
          /\ r.engine = e /\ r.policy = old.policy /\ r.n = old.n
          /\ r.plan = old.plan /\ r.signing = old.signing
      BY <1>1, <1>5, <2>2, <2>5, <3>2 DEF Extended
    <3>6. Others(new, r) = Others(tenant, old)
      BY <2>4, <3>5 DEF Others
    <3>7. label = "withdraw" \/ (label = "done" /\ found = {})
      BY <2>1, <3>2
    <3>8. \A x \in found : x.engine = e /\ x.version # old.n
      BY <2>1, <3>1, <3>2
    <3>9. CredentialConfiguration(old.plan) \in new.credentials
      BY <1>1, <1>5, <2>4, <2>5
    <3>10. label = "done" => Others(new, r) = {}
      BY <3>4, <3>6, <3>7
    <3>11. QED
      BY <1>2, <2>3, <2>4, <3>1, <3>4, <3>5, <3>6, <3>7, <3>8, <3>9, <3>10, WrittenLate
  <2>6. QED
    BY <1>6, <2>2, <2>3, <2>5
<1>9. CASE Withdraw(c)
  <2>1. PICK x \in old.found :
          /\ engine' = [engine EXCEPT ![x.engine].credentials =
                          {y \in @ : <<y.policy, y.version>> # <<old.policy, x.version>>}]
          /\ Await(c, IF old.found # {x} THEN "withdraw"
                      ELSE IF old.obsolete # {} THEN "configured" ELSE "done",
                   [found |-> old.found \ {x}])
    BY <1>1, <1>9 DEF Withdraw
  <2>2. PICK rest, label, locals, r :
          /\ rest = old.found \ {x}
          /\ label = (IF old.found # {x} THEN "withdraw"
                      ELSE IF old.obsolete # {} THEN "configured" ELSE "done")
          /\ locals = [found |-> rest] /\ r = Extended(old, locals)
    OBVIOUS
  <2>3. Await(c, label, locals) /\ label \in Late /\ DOMAIN locals \subseteq {"obsolete", "found"}
    BY <2>1, <2>2 DEF Late
  <2>4. at = "withdraw"
    BY <1>1, <1>9 DEF Withdraw
  <2>5. ASSUME old.alone PROVE IsWritten(label, r, new)
    <3>1. /\ "obsolete" \in DOMAIN old /\ old.obsolete = {}
          /\ \A y \in old.found : y.engine = e /\ y.version # old.n
          /\ \A y \in Others(tenant, old) : \E z \in old.found : z.version = y.version
          /\ IsWritten(at, old, tenant)
      BY <1>1, <1>4, <2>4, <2>5 DEF IsWritten
    <3>2. PICK credentials :
            credentials = {y \in tenant.credentials : <<y.policy, y.version>> # <<old.policy, x.version>>}
      OBVIOUS
    <3>3. engine' = [engine EXCEPT ![e].credentials = credentials]
      BY <1>1, <2>1, <3>1, <3>2
    <3>4. IsTenant(tenant) /\ e \in EngineTenants
      BY <1>5, <2>5
    <3>5. new = [tenant EXCEPT !.credentials = credentials]
          /\ {"issuer", "credentials", "lists"} \subseteq DOMAIN tenant
      BY <1>1, <1>3, <3>3, <3>4 DEF IsTenant
    <3>6. new.issuer = tenant.issuer /\ new.lists = tenant.lists /\ new.credentials = credentials
      BY <3>5
    <3>7. /\ "obsolete" \in DOMAIN r /\ r.obsolete = {} /\ r.found = rest
          /\ r.engine = e /\ r.policy = old.policy /\ r.n = old.n
          /\ r.plan = old.plan /\ r.signing = old.signing
      BY <1>1, <1>5, <2>2, <2>5, <3>1 DEF Extended
    <3>8. \A y \in Others(new, r) : y \in Others(tenant, old) /\ y.version # x.version
      BY <3>2, <3>6, <3>7 DEF Others
    <3>9. \A y \in Others(new, r) : \E z \in rest : z.version = y.version
      BY <2>2, <3>1, <3>8
    <3>10. label = "withdraw" \/ (label = "done" /\ rest = {})
      BY <2>1, <2>2, <3>1
    <3>11. \A y \in rest : y.engine = e /\ y.version # old.n
      BY <2>2, <3>1
    <3>12. CredentialConfiguration(old.plan) \in new.credentials
      <4>1. PICK current : current = CredentialConfiguration(plan)
        OBVIOUS
      <4>2. current.policy = plan.policy /\ current.version = plan.version
        BY <4>1 DEF CredentialConfiguration
      <4>3. current \in tenant.credentials /\ current.version = old.n
        BY <1>5, <2>5, <4>1, <4>2
      <4>4. <<current.policy, current.version>> # <<old.policy, x.version>>
        BY <2>1, <3>1, <4>3
      <4>5. QED
        BY <1>1, <3>2, <3>6, <4>1, <4>3, <4>4
    <3>13. label = "done" => Others(new, r) = {}
      BY <3>9, <3>10
    <3>14. QED
      BY <1>2, <2>3, <3>1, <3>6, <3>7, <3>9, <3>10, <3>11, <3>12, <3>13, WrittenLate
  <2>6. QED
    BY <1>6, <2>2, <2>3, <2>5
<1>10. QED
  BY <1>7, <1>8, <1>9

LEMMA AloneStep ==
  ASSUME IInv, AloneInv, [Next]_vars
  PROVE  AloneInv'
<1>1. Grows
  <2>1. RowsGrow
    BY RowsStep
  <2>2. EngineSound' /\ TenantsGrow
    BY <2>1, EngineStep
  <2>3. QED
    BY <2>1, <2>2 DEF Grows, IInv
<1>2. CASE UNCHANGED vars
  <2>1. UNCHANGED tables /\ pc' = pc /\ req' = req /\ engine' = engine
    BY <1>2 DEF vars, tables
  <2>2. ASSUME NEW c \in Clients PROVE IsCurrent(c)'
    <3>1. PICK old, at : old = req[c] /\ at = pc[c]
      OBVIOUS
    <3>2. IsRead(at, old) => IsRead(at, old)'
      BY <1>1, <2>1, ReadsStay
    <3>3. IsWritten(at, old, engine[old.engine]) => IsWritten(at, old, engine[old.engine])'
      BY <2>1 DEF IsWritten, Others
    <3>4. QED
      BY <2>1, <3>1, <3>2, <3>3 DEF AloneInv, IsCurrent
  <2>3. QED
    BY <2>2 DEF AloneInv
<1>3. ASSUME NEW c \in Clients,
             \/ CreateAttestationProvider(c) \/ CreateCredentialType(c) \/ CreatePolicy(c)
             \/ PublishGate(c) \/ ReleaseEngineTenant(c)
             \/ ImportSigningCertificate(c) \/ ImportAccessCertificate(c) \/ FindTaken(c)
             \/ UpdateProvider(c) \/ BeginVersion(c) \/ ListForNumber(c) \/ InsertVersion(c)
             \/ BeginStatus(c) \/ SetPolicyStatus(c) \/ BeginOnPolicy(c) \/ BeginWithdraw(c)
             \/ ListProvisioned(c) \/ CreateCredentialOffer(c) \/ Finish(c) \/ Fault(c)
      PROVE  AloneInv'
  BY <1>1, <1>3, AloneElsewhere
<1>4. ASSUME NEW c \in Clients,
             Resolve(c) \/ LoadIssuanceContext(c) \/ ReadAccessKey(c) \/ ReadPublishedGates(c)
      PROVE  AloneInv'
  BY <1>1, <1>4, AloneReads
<1>5. ASSUME NEW c \in Clients, Compile(c)
      PROVE  AloneInv'
  BY <1>1, <1>5, AloneCompiles
<1>6. ASSUME NEW c \in Clients,
             \/ WritePresentation(c) \/ WriteIssuerConfiguration(c) \/ EnsureAttributeProvider(c)
             \/ WriteCredential(c)
      PROVE  AloneInv'
  BY <1>1, <1>6, AloneWrites
<1>7. ASSUME NEW c \in Clients, ReadStatusLists(c) \/ CreateStatusList(c) \/ PinStatusList(c)
      PROVE  AloneInv'
  BY <1>1, <1>7, AloneLists
<1>8. ASSUME NEW c \in Clients, ListSuperseded(c) \/ ListConfigured(c) \/ Withdraw(c)
      PROVE  AloneInv'
  BY <1>1, <1>8, AloneWithdraws
<1>9. QED
  BY <1>2, <1>3, <1>4, <1>5, <1>6, <1>7, <1>8 DEF Next

LEMMA AlwaysCurrent == Spec => [](IInv /\ AloneInv)
<1>1. Init => AloneInv
  <2>1. \A c \in Clients : Init => ~req[c].alone
    BY DEF Init, NoLocals
  <2>2. QED
    BY <2>1 DEF AloneInv, IsCurrent
<1>2. AloneInv /\ IInv /\ [Next]_vars => AloneInv'
  BY AloneStep
<1>3. QED
  BY <1>1, <1>2, AlwaysGood, PTL DEF Spec

-----------------------------------------------------------------------------
(* What follows *)

(* A provider has an engine tenant and a signing key of it, or neither, its *)
(* access key is of that tenant, and no two providers share one, however    *)
(* many requests claim it (provision of issuance.repository).               *)
THEOREM ProvidersStayWhole == Spec => []ProviderIsWhole
<1>1. IInv => ProviderIsWhole
  <2>1. SUFFICES ASSUME IInv, NEW a \in Providers, providers[a] # None
                 PROVE  LET row == providers[a] IN
                          /\ (row.engine = None) = (row.signing = None)
                          /\ \A key \in {row.signing, row.access} \ {None} :
                               key.engine = row.engine /\ key.n <= engine[key.engine].keys
                          /\ row.engine # None => Holder(row.engine) = {a}
    BY DEF ProviderIsWhole
  <2>2. PICK row : row = providers[a]
    OBVIOUS
  <2>3. IsWhole(row) /\ row \in ProviderRows
    BY <2>1, <2>2 DEF IInv, RowsTyped, ProvidersAreWhole
  <2>4. row.engine # None => row.signing # None
    BY <2>3, ProvisioningAssumption DEF IsWhole, IsHeld
  <2>5. row.engine = None => row.signing = None
    BY <2>3 DEF IsWhole
  <2>6. \A key \in {row.signing, row.access} \ {None} :
          key.engine = row.engine /\ key.n <= engine[key.engine].keys
    BY <2>3 DEF IsWhole, IsHeld
  <2>7. row.engine # None => Holder(row.engine) = {a}
    BY <2>1, <2>2 DEF Holder, IInv, ProvidersAreWhole
  <2>8. QED
    BY <2>2, <2>4, <2>5, <2>6, <2>7
<1>2. QED
  BY <1>1, AlwaysGood, PTL

(* What an issuer's metadata lists is there, and the keys behind its        *)
(* credentials and status lists are of its own tenant, through any fault    *)
(* and any race (provisionCredentialConfiguration).                         *)
THEOREM WhatIsListedResolves == Spec => []ListedResolves
<1>1. IInv => ListedResolves
  BY DEF IInv, EngineSound, IsSound, TenantResolves, GatesOn, ListedResolves
<1>2. QED
  BY <1>1, AlwaysGood, PTL

(* The numbers of a policy's versions are 1 up to how many there are.       *)
LEMMA NumbersAreCounted ==
  ASSUME IInv, NEW p \in Policies
  PROVE  Numbers(p) = 1 .. Cardinality(Numbers(p))
<1>1. PICK S, last : S = Numbers(p) /\ last = Greatest(S)
  OBVIOUS
<1>2. S \subseteq 1 .. MaxVersions /\ MaxVersions \in Nat
  BY <1>1, ProvisioningAssumption DEF Numbers
<1>3. /\ S = {} => last = 0
      /\ S # {} => last \in S
      /\ \A m \in S : m <= last
      /\ last \in 0 .. MaxVersions
  BY <1>1, <1>2, GreatestIsGreatest
<1>4. last \in S => 1 .. last \subseteq S
  BY <1>1 DEF IInv, RowsRefer
<1>5. \A m \in S : m \in 1 .. last
  BY <1>2, <1>3
<1>6. S = 1 .. last
  <2>1. CASE S = {}
    BY <1>3, <2>1
  <2>2. CASE S # {}
    <3>1. \A m \in 1 .. last : m \in S
      BY <1>3, <1>4, <2>2
    <3>2. QED
      BY <1>5, <3>1
  <2>3. QED
    BY <2>1, <2>2
<1>7. Cardinality(1 .. last) = last
  BY <1>3, FS_Interval
<1>8. QED
  BY <1>1, <1>6, <1>7

(* The versions of a policy are numbered 1, 2, 3 and never change once      *)
(* inserted, although createVersion takes its number from an earlier read.  *)
THEOREM IssuanceVersionsSettle == Spec => IssuanceVersionsAreSettled
<1>. DEFINE Counted == \A p \in Policies : Numbers(p) = 1 .. Cardinality(Numbers(p))
            Settled == \A p \in Policies :
                         /\ Numbers(p)' = 1 .. Cardinality(Numbers(p)')
                         /\ \A n \in Numbers(p) : versions'[p][n] = versions[p][n]
<1>1. IInv => Counted
  BY NumbersAreCounted
<1>2. IInv /\ [Next]_vars => RowsGrow
  BY StepIsGood
<1>3. RowsGrow /\ Counted' => Settled
  BY DEF RowsGrow
<1>. HIDE DEF Counted, Settled
<1>4. Spec => [][Settled]_vars
  BY <1>1, <1>2, <1>3, AlwaysGood, PTL DEF Spec
<1>5. QED
  BY <1>4 DEF Settled, IssuanceVersionsAreSettled
(* Provisioning or issuing with nobody else at work leaves the engine       *)
(* tenant current, whatever failures, withdrawals and changes of keys came  *)
(* before (provisionPolicy, provisionCredentialConfiguration).              *)
THEOREM ProvisionedAloneStaysCurrent == Spec => []ProvisionedAloneIsCurrent
<1>1. IInv /\ AloneInv => ProvisionedAloneIsCurrent
  <2>1. SUFFICES ASSUME IInv, AloneInv, NEW c \in Clients, pc[c] \in {"offer", "done"}, req[c].alone
                 PROVE  LET r == req[c]
                            row == providers[r.provider]
                            tenant == engine[row.engine]
                            found == GatesOf(r.provider)
                            offered == {x \in tenant.credentials : x.policy = r.policy}
                            current == CredentialConfiguration(r.plan)
                        IN /\ current.version = ResolvePublishedVersion(r.policy) /\ current.key = row.signing
                           /\ current \in offered /\ (r.goal = "provision" => offered = {current})
                           /\ tenant.issuer = [builtIn |-> NeedsBuiltIn(found),
                                               gates |-> {[gate |-> g, version |-> gates[g]] : g \in found \ {None}},
                                               certified |-> row.certified]
                           /\ r.plan.listed => tenant.lists # <<>> /\ Unpinned(row.engine, row.signing) = {}
    BY Zenon DEF ProvisionedAloneIsCurrent
  <2>2. PICK r, at, row, tenant, found, offered, current :
          /\ r = req[c] /\ at = pc[c] /\ row = providers[r.provider] /\ tenant = engine[row.engine]
          /\ found = GatesOf(r.provider)
          /\ offered = {x \in tenant.credentials : x.policy = r.policy}
          /\ current = CredentialConfiguration(r.plan)
    OBVIOUS
  <2>3. /\ at \in {"offer", "done"} /\ at \in AfterAll /\ at \in AfterCompile \cup Late
        /\ at \in (AfterResolve \ {"context"}) \cup Late /\ at \in AfterResolve \cup Late
    BY <2>1, <2>2 DEF AfterAll, AfterCompile, AfterResolve, Late
  <2>4. IsRead(at, r) /\ IsWritten(at, r, engine[r.engine])
    BY <2>1, <2>2, <2>3 DEF AloneInv, IsCurrent
  <2>5. Compiling("superseded", r)
    <3>1. CASE at = "done"
      BY <2>4, <3>1 DEF IsRead, Late
    <3>2. CASE at = "offer"
      <4>1. Compiling(at, r)
        BY <2>1, <2>2 DEF IInv, Stands
      <4>2. QED
        BY <3>2, <4>1 DEF Compiling, AfterCompile, AfterResolve
    <3>3. QED
      BY <2>3, <3>1, <3>2
  <2>6. /\ r.engine \in EngineTenants
        /\ r.plan.policy = r.policy /\ r.plan.version = r.n /\ r.plan.provider.signing = r.signing
    BY <2>5 DEF Compiling, IsPlan, IsHeld, AfterCompile, AfterResolve
  <2>7. /\ row.engine = r.engine /\ row.signing = r.signing /\ r.n = ResolvePublishedVersion(r.policy)
        /\ IssuerConfiguration(r.plan.provider) = IssuerNow(r.provider)
    BY <2>2, <2>3, <2>4 DEF IsRead
  <2>8. /\ tenant.issuer = IssuerConfiguration(r.plan.provider)
        /\ current \in tenant.credentials
        /\ r.plan.listed => tenant.lists # <<>> /\ \A i \in DOMAIN tenant.lists : tenant.lists[i] = r.signing
        /\ at = "done" => Others(tenant, r) = {}
    BY <2>2, <2>3, <2>4, <2>7 DEF IsWritten
  <2>9. current.policy = r.policy /\ current.version = r.n /\ current.key = row.signing
    BY <2>2, <2>6, <2>7 DEF CredentialConfiguration
  <2>10. current \in offered
    BY <2>2, <2>8, <2>9
  <2>11. ASSUME r.goal = "provision" PROVE offered = {current}
    <3>1. at = "done"
      BY <2>3, <2>4, <2>11 DEF IsRead, Late
    <3>2. \A x \in tenant.credentials : x.policy = r.policy => x.version = r.n
      BY <2>8, <3>1 DEF Others
    <3>3. CredentialsAreVersions(tenant)
      BY <2>1, <2>2, <2>6, <2>7 DEF IInv, EngineSound, IsSound
    <3>4. \A x, y \in tenant.credentials : x.policy = y.policy /\ x.version = y.version => x = y
      BY <3>3 DEF CredentialsAreVersions
    <3>5. ASSUME NEW x \in offered PROVE x = current
      <4>1. x \in tenant.credentials /\ x.policy = r.policy
        BY <2>2
      <4>2. x.version = r.n
        BY <3>2, <4>1
      <4>3. QED
        BY <2>8, <2>9, <3>4, <4>1, <4>2
    <3>6. QED
      BY <2>10, <3>5
  <2>12. tenant.issuer = [builtIn |-> NeedsBuiltIn(found),
                          gates |-> {[gate |-> g, version |-> gates[g]] : g \in found \ {None}},
                          certified |-> row.certified]
    BY <2>2, <2>7, <2>8 DEF IssuerNow
  <2>13. r.plan.listed => tenant.lists # <<>> /\ Unpinned(row.engine, row.signing) = {}
    BY <2>2, <2>7, <2>8 DEF Unpinned
  <2>14. QED
    BY <2>2, <2>7, <2>9, <2>10, <2>11, <2>12, <2>13
<1>2. QED
  BY <1>1, AlwaysCurrent, PTL

-----------------------------------------------------------------------------
(* The rules: what is issued is what is declared *)

(* A set of numbers that is not empty has a least. *)
LEMMA LeastExists ==
  ASSUME NEW S, S \subseteq Nat, S # {}
  PROVE  \E m \in S : \A k \in S : m <= k
<1>1. PICK m \in S : \A k \in S : ~(<<k, m>> \in OpToRel(<, Nat))
  BY WFMin, NatLessThanWellFounded
<1>2. \A k \in S : ~(k < m)
  BY <1>1 DEF OpToRel
<1>3. QED
  BY <1>2

(* What is issued after the n-th declared claim. *)
NarrowedBy(narrowed, n, attributes, claims) ==
  IF n = 0 THEN {}
  ELSE LET claim == claims[n]  kind == ReadPath(attributes, claim.path) IN
       IF MatchesType(kind, claim.valueType)
       THEN Write(narrowed[n - 1], claim.path, kind) ELSE narrowed[n - 1]

(* The recursive function that narrowToDeclaredClaims is. *)
IsNarrowed(narrowed, n, attributes, claims) ==
  narrowed = [k \in 0 .. n |-> NarrowedBy(narrowed, k, attributes, claims)]

(* There is such a function: by the least number without one. *)
LEMMA NarrowedExists ==
  ASSUME NEW attributes, NEW claims, NEW n \in Nat
  PROVE  \E narrowed : IsNarrowed(narrowed, n, attributes, claims)
<1>1. PICK B : B = {k \in 0 .. n : ~\E narrowed : IsNarrowed(narrowed, k, attributes, claims)}
  OBVIOUS
<1>2. SUFFICES ASSUME B # {} PROVE FALSE
  <2>1. n \in 0 .. n
    OBVIOUS
  <2>2. QED
    BY <1>1, <2>1
<1>3. PICK m \in B : \A k \in B : m <= k
  <2>1. B \subseteq Nat
    BY <1>1
  <2>2. QED
    BY <1>2, <2>1, LeastExists
<1>4. m \in 0 .. n /\ ~\E narrowed : IsNarrowed(narrowed, m, attributes, claims)
  BY <1>1, <1>3
<1>5. CASE m = 0
  <2>1. PICK narrowed : narrowed = [k \in 0 .. 0 |-> {}]
    OBVIOUS
  <2>2. IsNarrowed(narrowed, 0, attributes, claims)
    BY <2>1 DEF IsNarrowed, NarrowedBy
  <2>3. QED
    BY <1>4, <1>5, <2>2
<1>6. CASE m # 0
  <2>1. m \in Nat \ {0} /\ m - 1 \in 0 .. n /\ ~(m <= m - 1)
    BY <1>4, <1>6
  <2>2. PICK narrowed : IsNarrowed(narrowed, m - 1, attributes, claims)
    BY <1>1, <1>3, <2>1
  <2>3. PICK longer :
          longer = [k \in 0 .. m |-> IF k = m THEN NarrowedBy(narrowed, m, attributes, claims) ELSE narrowed[k]]
    OBVIOUS
  <2>4. ASSUME NEW k \in 0 .. m PROVE longer[k] = NarrowedBy(longer, k, attributes, claims)
    <3>1. k # 0 => longer[k - 1] = narrowed[k - 1]
      <4>1. k # 0 => k - 1 \in 0 .. m /\ k - 1 # m
        BY <2>1
      <4>2. QED
        BY <2>3, <4>1
    <3>2. NarrowedBy(longer, k, attributes, claims) = NarrowedBy(narrowed, k, attributes, claims)
      BY <3>1 DEF NarrowedBy
    <3>3. CASE k = m
      BY <2>3, <3>2, <3>3
    <3>4. CASE k # m
      <4>1. k \in 0 .. m - 1
        BY <2>1, <3>4
      <4>2. narrowed[k] = NarrowedBy(narrowed, k, attributes, claims)
        BY <2>2, <4>1 DEF IsNarrowed
      <4>3. QED
        BY <2>3, <3>2, <3>4, <4>2
    <3>5. QED
      BY <3>3, <3>4
  <2>5. longer = [k \in 0 .. m |-> longer[k]]
    BY <2>3
  <2>6. IsNarrowed(longer, m, attributes, claims)
    BY <2>4, <2>5 DEF IsNarrowed
  <2>7. QED
    BY <1>4, <2>6
<1>7. QED
  BY <1>5, <1>6

(* What narrowToDeclaredClaims returns is the last value of one. *)
LEMMA NarrowingIsNarrowed ==
  ASSUME NEW attributes, NEW claims, Len(claims) \in Nat
  PROVE  \E narrowed : /\ IsNarrowed(narrowed, Len(claims), attributes, claims)
                       /\ NarrowToDeclaredClaims(attributes, claims) = narrowed[Len(claims)]
<1>1. PICK N : N = Len(claims)
  OBVIOUS
<1>2. PICK narrowed : narrowed = CHOOSE f : IsNarrowed(f, N, attributes, claims)
  OBVIOUS
<1>3. IsNarrowed(narrowed, N, attributes, claims)
  BY <1>1, <1>2, NarrowedExists
<1>4. NarrowToDeclaredClaims(attributes, claims) = narrowed[N]
  BY <1>1, <1>2 DEF NarrowToDeclaredClaims, IsNarrowed, NarrowedBy
<1>5. QED
  BY <1>1, <1>3, <1>4

(* No declared path is, or is above, another. *)
IsApart(claims) ==
  \A i, j \in DOMAIN claims :
    /\ i # j => claims[i].path # claims[j].path
    /\ ~IsStrictPrefix(claims[i].path, claims[j].path)

(* validateCredentialType accepts no type whose declared paths meet. *)
LEMMA ValidTypesAreApart ==
  ASSUME NEW type, TypeViolations(type) = {}
  PROVE  IsApart(type.claims)
<1>1. ASSUME ~IsApart(type.claims) PROVE FALSE
  <2>1. CASE \E i, j \in DOMAIN type.claims : i # j /\ type.claims[i].path = type.claims[j].path
    <3>1. "claim_path_duplicated" \in TypeViolations(type)
      BY <2>1, Zenon DEF TypeViolations
    <3>2. QED
      BY <3>1
  <2>2. CASE \E i, j \in DOMAIN type.claims : IsStrictPrefix(type.claims[i].path, type.claims[j].path)
    <3>1. "claim_path_prefixes_another" \in TypeViolations(type)
      BY <2>2, Zenon DEF TypeViolations
    <3>2. QED
      BY <3>1
  <2>3. QED
    BY <1>1, <2>1, <2>2 DEF IsApart
<1>2. QED
  BY <1>1

(* What the claims up to the n-th give. *)
Issued(n, attributes, claims) ==
  {[path |-> claims[k].path, kind |-> ReadPath(attributes, claims[k].path)] :
     k \in {j \in 1 .. n : MatchesType(ReadPath(attributes, claims[j].path), claims[j].valueType)}}

(* Nothing that was there is taken away. *)
WritesOnly(n, kind, attributes, claims) ==
  Write(Issued(n - 1, attributes, claims), claims[n].path, kind)
    = Issued(n - 1, attributes, claims) \cup {[path |-> claims[n].path, kind |-> kind]}

(* Writing a claim leaves those written before it as they are. *)
LEMMA WritesAreApart ==
  ASSUME NEW attributes, NEW claims, IsApart(claims), NEW N \in Nat, DOMAIN claims = 1 .. N,
         NEW n \in 1 .. N, NEW kind
  PROVE  WritesOnly(n, kind, attributes, claims)
<1>1. ASSUME NEW leaf \in Issued(n - 1, attributes, claims)
      PROVE  ~IsPrefix(leaf.path, claims[n].path) /\ ~IsPrefix(claims[n].path, leaf.path)
  <2>1. PICK k \in 1 .. n - 1 : leaf.path = claims[k].path
    BY <1>1 DEF Issued
  <2>2. k \in DOMAIN claims /\ k # n
    BY <2>1
  <2>3. QED
    BY <2>1, <2>2 DEF IsApart, IsStrictPrefix
<1>2. QED
  BY <1>1 DEF Write, WritesOnly

(* So the whole narrowing is what every claim gives on its own. *)
LEMMA NarrowedIsIssued ==
  ASSUME NEW attributes, NEW claims, IsApart(claims), DOMAIN claims = 1 .. Len(claims), Len(claims) \in Nat
  PROVE  NarrowToDeclaredClaims(attributes, claims) = Issued(Len(claims), attributes, claims)
<1>1. PICK N : N = Len(claims) /\ N \in Nat
  OBVIOUS
<1>2. PICK narrowed : /\ IsNarrowed(narrowed, N, attributes, claims)
                      /\ NarrowToDeclaredClaims(attributes, claims) = narrowed[N]
  BY <1>1, NarrowingIsNarrowed
<1>. DEFINE Good(n) == narrowed[n] = Issued(n, attributes, claims)
<1>3. Good(0)
  <2>1. narrowed[0] = {}
    BY <1>1, <1>2 DEF IsNarrowed, NarrowedBy
  <2>2. Issued(0, attributes, claims) = {}
    BY DEF Issued
  <2>3. QED
    BY <2>1, <2>2
<1>4. ASSUME NEW n \in 1 .. N, Good(n - 1) PROVE Good(n)
  <2>1. PICK kind : kind = ReadPath(attributes, claims[n].path)
    OBVIOUS
  <2>2. narrowed[n] = IF MatchesType(kind, claims[n].valueType)
                      THEN Write(narrowed[n - 1], claims[n].path, kind) ELSE narrowed[n - 1]
    <3>1. n \in 0 .. N /\ n # 0
      BY <1>1
    <3>2. narrowed[n] = NarrowedBy(narrowed, n, attributes, claims)
      BY <1>2, <3>1 DEF IsNarrowed
    <3>3. QED
      BY <2>1, <3>1, <3>2 DEF NarrowedBy
  <2>3. \A j \in 1 .. n : j = n \/ j \in 1 .. n - 1
    BY <1>1
  <2>4. n \in 1 .. n /\ 1 .. n - 1 \subseteq 1 .. n
    BY <1>1
  <2>5. CASE MatchesType(kind, claims[n].valueType)
    <3>1. Issued(n, attributes, claims)
            = Issued(n - 1, attributes, claims) \cup {[path |-> claims[n].path, kind |-> kind]}
      BY <2>1, <2>3, <2>4, <2>5 DEF Issued
    <3>2. narrowed[n] = Write(Issued(n - 1, attributes, claims), claims[n].path, kind)
      BY <1>4, <2>2, <2>5
    <3>3. DOMAIN claims = 1 .. N /\ N \in Nat
      BY <1>1
    <3>4. WritesOnly(n, kind, attributes, claims)
      BY <3>3, WritesAreApart
    <3>5. QED
      BY <3>1, <3>2, <3>4 DEF WritesOnly
  <2>6. CASE ~MatchesType(kind, claims[n].valueType)
    <3>1. Issued(n, attributes, claims) = Issued(n - 1, attributes, claims)
      BY <2>1, <2>3, <2>4, <2>6 DEF Issued
    <3>2. QED
      BY <1>4, <2>2, <2>6, <3>1
  <2>7. QED
    BY <2>5, <2>6
<1>5. \A n \in 0 .. N : Good(n)
  <2>1. PICK B : B = {n \in 0 .. N : ~Good(n)}
    OBVIOUS
  <2>2. SUFFICES ASSUME B # {} PROVE FALSE
    BY <2>1
  <2>3. B \subseteq Nat
    BY <2>1
  <2>4. PICK n \in B : \A k \in B : n <= k
    BY <2>2, <2>3, LeastExists
  <2>5. n \in 0 .. N /\ ~Good(n) /\ n # 0
    BY <1>3, <2>1, <2>4
  <2>6. n \in 1 .. N /\ n - 1 \in 0 .. N /\ ~(n <= n - 1)
    BY <1>1, <2>5
  <2>7. Good(n - 1)
    BY <2>1, <2>4, <2>6
  <2>8. QED
    BY <1>4, <2>5, <2>6, <2>7
<1>6. N \in 0 .. N
  BY <1>1
<1>7. QED
  BY <1>1, <1>2, <1>5, <1>6

(* Of every valid type and every source the platform does not refuse, the   *)
(* narrowing gives exactly the declared claims, each with the value it had  *)
(* (narrowToDeclaredClaims): two declared paths never overwrite one         *)
(* another, because validateCredentialType keeps them apart.                *)
THEOREM WhatIsDeclaredIsIssued ==
  ASSUME NEW Paths, NEW type, type.claims \in Seq(ClaimDefinitions(Paths)), NEW attributes,
         TypeViolations(type) = {}, ~NarrowingRefused(attributes, type.claims)
  PROVE  IssuesWhatIsDeclared(type, attributes)
<1>1. PICK claims, N : claims = type.claims /\ N = Len(claims)
  OBVIOUS
<1>2. N \in Nat /\ DOMAIN claims = 1 .. N /\ \A n \in 1 .. N : claims[n].valueType \in ValueTypes
  <2>1. claims \in Seq(ClaimDefinitions(Paths))
    BY <1>1
  <2>2. N \in Nat /\ DOMAIN claims = 1 .. N /\ \A n \in 1 .. N : claims[n] \in ClaimDefinitions(Paths)
    BY <1>1, <2>1
  <2>3. \A n \in 1 .. N : claims[n].valueType \in ValueTypes
    BY <2>2 DEF ClaimDefinitions
  <2>4. QED
    BY <2>2, <2>3
<1>3. IsApart(claims)
  BY <1>1, ValidTypesAreApart
<1>4. PICK issued : issued = Issued(N, attributes, claims)
  OBVIOUS
<1>5. NarrowToDeclaredClaims(attributes, claims) = issued
  BY <1>1, <1>2, <1>3, <1>4, NarrowedIsIssued
<1>6. DeclaredPaths(type) = {claims[n].path : n \in 1 .. N}
  BY <1>1, <1>2 DEF DeclaredPaths, ToSet
<1>7. \A leaf \in issued : leaf.path \in DeclaredPaths(type)
  BY <1>4, <1>6 DEF Issued
<1>8. ASSUME NEW n \in 1 .. N PROVE ReadPath(issued, claims[n].path) = ReadPath(attributes, claims[n].path)
  <2>1. PICK path, kind : path = claims[n].path /\ kind = ReadPath(attributes, path)
    OBVIOUS
  <2>2. \A leaf \in issued : leaf.path = path => leaf = [path |-> path, kind |-> kind]
    <3>1. SUFFICES ASSUME NEW leaf \in issued, leaf.path = path PROVE leaf = [path |-> path, kind |-> kind]
      OBVIOUS
    <3>2. PICK k \in 1 .. N : leaf = [path |-> claims[k].path, kind |-> ReadPath(attributes, claims[k].path)]
      BY <1>4, <3>1 DEF Issued
    <3>3. k = n
      BY <1>2, <1>3, <2>1, <3>1, <3>2 DEF IsApart
    <3>4. QED
      BY <2>1, <3>2, <3>3
  <2>3. CASE MatchesType(kind, claims[n].valueType)
    <3>1. [path |-> path, kind |-> kind] \in issued
      BY <1>4, <2>1, <2>3 DEF Issued
    <3>2. (CHOOSE leaf \in issued : leaf.path = path) = [path |-> path, kind |-> kind]
      BY <2>2, <3>1
    <3>3. (CHOOSE leaf \in issued : leaf.path = path).kind = kind
      <4>1. PICK leaf : leaf = CHOOSE l \in issued : l.path = path
        OBVIOUS
      <4>2. leaf = [path |-> path, kind |-> kind]
        BY <3>2, <4>1
      <4>3. leaf.kind = kind
        BY <4>2
      <4>4. QED
        BY <4>1, <4>3
    <3>4. \E leaf \in issued : leaf.path = path
      BY <3>1
    <3>5. ReadPath(issued, path) = kind
      BY <3>3, <3>4, Zenon DEF ReadPath
    <3>6. QED
      BY <2>1, <3>5
  <2>4. CASE ~MatchesType(kind, claims[n].valueType)
    <3>1. kind = "null"
      <4>1. claims[n] \in ToSet(claims)
        BY <1>2 DEF ToSet
      <4>2. QED
        BY <1>1, <2>1, <2>4, <4>1 DEF NarrowingRefused
    <3>2. ~\E leaf \in issued : leaf.path = path
      <4>1. SUFFICES ASSUME NEW leaf \in issued, leaf.path = path PROVE FALSE
        OBVIOUS
      <4>2. PICK k \in 1 .. N : /\ leaf.path = claims[k].path
                                /\ MatchesType(ReadPath(attributes, claims[k].path), claims[k].valueType)
        BY <1>4, <4>1 DEF Issued
      <4>3. k = n
        BY <1>2, <1>3, <2>1, <4>1, <4>2 DEF IsApart
      <4>4. QED
        BY <2>1, <2>4, <4>2, <4>3
    <3>3. ~\E leaf \in issued : IsStrictPrefix(path, leaf.path)
      <4>1. SUFFICES ASSUME NEW leaf \in issued, IsStrictPrefix(path, leaf.path) PROVE FALSE
        OBVIOUS
      <4>2. PICK k \in 1 .. N : leaf.path = claims[k].path
        BY <1>4, <4>1 DEF Issued
      <4>3. QED
        BY <1>2, <1>3, <2>1, <4>1, <4>2 DEF IsApart
    <3>4. QED
      BY <2>1, <3>1, <3>2, <3>3 DEF ReadPath
  <2>5. QED
    BY <2>3, <2>4
<1>9. \A path \in DeclaredPaths(type) : ReadPath(issued, path) = ReadPath(attributes, path)
  BY <1>6, <1>8
<1>10. QED
  BY <1>1, <1>5, <1>7, <1>9 DEF IssuesWhatIsDeclared

(* An issuer is reported as authenticating only on a signed document that   *)
(* could be read and carries both certificates (inspectSignedMetadata).     *)
THEOREM ReportsNeedBothCertificates ==
  ASSUME NEW metadata \in IssuerMetadata, NEW days, AuthenticationReport(metadata, days).authenticates
  PROVE  /\ metadata.signed # None /\ metadata.signed.readable
         /\ metadata.signed.x5c /\ metadata.signed.certified
BY DEF AuthenticationReport, Evidence

(* The rules of issuance meet their reference in every state, whatever the  *)
(* credential types and the attributes they are tried on                    *)
(* (narrowToDeclaredClaims, inspectSignedMetadata).                         *)
THEOREM IssuanceRulesAlwaysMeetTheirReference == Spec => []IssuanceRulesMeetTheirReference
<1>1. ASSUME NEW type \in Examples, NEW attributes \in Sources,
             TypeViolations(type) = {}, ~NarrowingRefused(attributes, type.claims)
      PROVE  IssuesWhatIsDeclared(type, attributes)
  <2>1. PICK Paths : Paths = {type.claims[n].path : n \in DOMAIN type.claims}
    OBVIOUS
  <2>2. type.claims \in Seq(ClaimDefinitions(Paths))
    BY <2>1, ProvisioningAssumption
  <2>3. QED
    BY <1>1, <2>2, WhatIsDeclaredIsIssued
<1>2. ASSUME NEW metadata \in IssuerMetadata, NEW days, AuthenticationReport(metadata, days).authenticates
      PROVE  /\ metadata.signed # None /\ metadata.signed.readable
             /\ metadata.signed.x5c /\ metadata.signed.certified
  BY <1>2, ReportsNeedBothCertificates
<1>3. IssuanceRulesMeetTheirReference
  BY <1>1, <1>2 DEF IssuanceRulesMeetTheirReference
<1>4. QED
  BY <1>3, PTL
=============================================================================
