---------------------------- MODULE Registration ----------------------------
(***************************************************************************)
(* Setting up a Relying Party (apps/platform-api/.../registration.service  *)
(* over registration.repository and the engine's provisioning port): a     *)
(* tenant and its key, an organisation, a Relying Party, its services, the *)
(* intended uses with their registration certificates, and the instance of *)
(* a service with its access certificate. One tenant, the one trust        *)
(* environment that is supported.                                          *)
(* Rows are only ever inserted, so reading a row a handler depends on is   *)
(* part of the action that relies on it.                                   *)
(***************************************************************************)
EXTENDS PresentationRules, Bags

CONSTANTS Parties, Uses,
          EngineTenants,
          None,           \* a column that is null, a row that is not there
          Clients,        \* requests being handled
          Registrations,  \* registeredCredentials an intended use may be created with
          MaxKeys,        \* bound on the keys imported into one engine tenant
          MaxFaults       \* bound on failed statements and crashes

VARIABLES
  registry,   \* the tables of the platform
  engine,     \* key chains and session settings of the engine tenants
  audit,      \* audit_events: how many of each action on each subject
  pc, req,    \* what each request awaits, and its local variables
  faults

setup == <<registry, engine, audit, pc, req, faults>>

(* tenants, organisations, relying_parties, relying_party_services (one     *)
(* party each; the callback endpoint of a service is WebhookDelivery's).    *)
Organisations ==
  [keyed : {"absent", "keyless", "keyed"}, organised : BOOLEAN, parties : SUBSET Parties]

ServiceRows == [party : Parties] \cup {None}

(* "valid": its validFrom has passed; nothing ever sets revokedAt. *)
IntendedUses == [service : Services, registered : Registrations, valid : BOOLEAN]

KeyRefs == [engine : EngineTenants, n : 1 .. MaxKeys]

(* A null column and a row that is not there are unlike any that is. *)
ASSUME SetupAssumption ==
  /\ None \notin [party : Parties] \cup IntendedUses \cup EngineTenants
  /\ MaxKeys \in Nat /\ MaxFaults \in Nat

NoLocals == [action |-> None, subject |-> None]

Init ==
  /\ registry = [keyed |-> "absent", organised |-> FALSE, parties |-> {},
                 services |-> [s \in Services |-> None],
                 uses |-> [u \in Uses |-> None],
                 certified |-> {},
                 instances |-> [s \in Services |-> None],
                 access |-> [s \in Services |-> {}]]
  /\ engine = [keys |-> [e \in EngineTenants |-> 0], sized |-> {}]
  /\ audit = EmptyBag
  /\ pc = [c \in Clients |-> "idle"]
  /\ req = [c \in Clients |-> NoLocals]
  /\ faults = 0

-----------------------------------------------------------------------------
Goto(c, label) == pc' = [pc EXCEPT ![c] = label]

Await(c, label, locals) == Goto(c, label) /\ req' = [req EXCEPT ![c] = locals]

(* The request is over: answered, or an error thrown to the caller. *)
Return(c) == Await(c, "idle", NoLocals)

(* AuditService.record, when nothing else depends on when it happens. *)
Record(action, subject) == audit' = audit (+) SetToBag({<<action, subject>>})

(* What is left to do is to record the event. *)
ThenAudit(c, action, subject) == Await(c, "audit", [action |-> action, subject |-> subject])

(* ApiKeyGuard: the tenant of a request is the one its key resolves to. *)
Authenticated == registry.keyed = "keyed"

(* AuditService.record *)
Audit(c) ==
  /\ pc[c] = "audit"
  /\ Record(req[c].action, req[c].subject)
  /\ Return(c)
  /\ UNCHANGED <<registry, engine, faults>>

-----------------------------------------------------------------------------
(* createTenant: the row, then its first key; one tenant is modelled. *)
CreateTenant(c) ==
  /\ pc[c] = "idle" /\ registry.keyed = "absent"
  /\ registry' = [registry EXCEPT !.keyed = "keyless"]
  /\ Goto(c, "key")
  /\ UNCHANGED <<engine, audit, req, faults>>

CreateApiKey(c) ==
  /\ pc[c] = "key"
  /\ registry' = [registry EXCEPT !.keyed = "keyed"]
  /\ ThenAudit(c, "tenant.created", "tenant")
  /\ UNCHANGED <<engine, audit, faults>>

CreateOrganisation(c) ==
  /\ pc[c] = "idle" /\ Authenticated /\ ~registry.organised
  /\ registry' = [registry EXCEPT !.organised = TRUE]
  /\ Record("organisation.created", "organisation")
  /\ UNCHANGED <<engine, pc, req, faults>>

(* The identifier is unique in its environment. *)
CreateRelyingParty(c) ==
  /\ pc[c] = "idle" /\ Authenticated /\ registry.organised
  /\ \E party \in Parties \ registry.parties :
       /\ registry' = [registry EXCEPT !.parties = @ \cup {party}]
       /\ Record("relying_party.registered", party)
  /\ UNCHANGED <<engine, pc, req, faults>>

(* createRelyingPartyService: the callback endpoint is inserted first, for  *)
(* the service row to refer to. It is not kept here: one whose service is   *)
(* then refused serves nobody.                                              *)
BeginService(c) ==
  /\ pc[c] = "idle" /\ Authenticated
  /\ \E s \in Services, party \in registry.parties :
       Await(c, "service", [action |-> "service", subject |-> s, row |-> [party |-> party]])
  /\ UNCHANGED <<registry, engine, audit, faults>>

(* Refused by the unique index when the identifier is taken. *)
InsertService(c) ==
  /\ pc[c] = "service"
  /\ LET s == req[c].subject IN
       IF registry.services[s] = None
       THEN /\ registry' = [registry EXCEPT !.services[s] = req[c].row]
            /\ Record("relying_party_service.registered", s)
       ELSE UNCHANGED <<registry, audit>>
  /\ Return(c)
  /\ UNCHANGED <<engine, faults>>

CreateIntendedUse(c) ==
  /\ pc[c] = "idle" /\ Authenticated
  /\ \E u \in Uses, use \in IntendedUses :
       /\ registry.uses[u] = None /\ registry.services[use.service] # None
       /\ use.registered # {} /\ \A rc \in use.registered : Registrable(rc)
       /\ registry' = [registry EXCEPT !.uses[u] = use]
       /\ Record("intended_use.registered", u)
  /\ UNCHANGED <<engine, pc, req, faults>>

(* One for each intended use of a service. *)
RecordRegistrationCertificate(c) ==
  /\ pc[c] = "idle" /\ Authenticated
  /\ \E u \in Uses \ registry.certified :
       /\ registry.uses[u] # None
       /\ registry' = [registry EXCEPT !.certified = @ \cup {u}]
       /\ Record("registration_certificate.recorded", u)
  /\ UNCHANGED <<engine, pc, req, faults>>

-----------------------------------------------------------------------------
(* provisionInstance: the key and its certificate go to the engine first. *)
ImportAccessCertificate(c) ==
  /\ pc[c] = "idle" /\ Authenticated
  /\ \E s \in Services, e \in EngineTenants :
       /\ registry.services[s] # None /\ engine.keys[e] < MaxKeys
       /\ engine' = [engine EXCEPT !.keys[e] = @ + 1]
       /\ Await(c, "retention", [action |-> "instance", subject |-> s,
                                 key |-> [engine |-> e, n |-> engine.keys[e] + 1]])
  /\ UNCHANGED <<registry, audit, faults>>

ApplyRetentionSettings(c) ==
  /\ pc[c] = "retention"
  /\ engine' = [engine EXCEPT !.sized = @ \cup {req[c].key.engine}]
  /\ Goto(c, "instance")
  /\ UNCHANGED <<registry, audit, req, faults>>

(* Mutated: a service that has an instance keeps it and goes on. *)
InsertInstanceIfMissing(c) ==
  /\ pc[c] = "instance"
  /\ registry' = [registry EXCEPT !.instances[req[c].subject] =
                    IF @ = None THEN req[c].key.engine ELSE @]
  /\ Goto(c, "access") /\ UNCHANGED req
  /\ UNCHANGED <<engine, audit, faults>>

(* One for each service: the index refuses a second. *)
InsertInstance(c) ==
  /\ pc[c] = "instance"
  /\ LET s == req[c].subject IN
       IF registry.instances[s] = None
       THEN /\ registry' = [registry EXCEPT !.instances[s] = req[c].key.engine]
            /\ Goto(c, "access") /\ UNCHANGED req
       ELSE Return(c) /\ UNCHANGED registry
  /\ UNCHANGED <<engine, audit, faults>>

CreateAccessCertificate(c) ==
  /\ pc[c] = "access"
  /\ registry' = [registry EXCEPT !.access[req[c].subject] = @ \cup {req[c].key}]
  /\ ThenAudit(c, "relying_party_instance.provisioned", req[c].subject)
  /\ UNCHANGED <<engine, audit, faults>>

-----------------------------------------------------------------------------
(* A statement or a call throws, or the process stops before it. *)
Fault(c) ==
  /\ faults < MaxFaults /\ pc[c] # "idle"
  /\ faults' = faults + 1
  /\ Return(c)
  /\ UNCHANGED <<registry, engine, audit>>

BecomesValid(u) ==
  /\ registry.uses[u] # None /\ ~registry.uses[u].valid
  /\ registry' = [registry EXCEPT !.uses[u].valid = TRUE]
  /\ UNCHANGED <<engine, audit, pc, req, faults>>

Register(c) ==
  \/ Audit(c) \/ CreateTenant(c) \/ CreateApiKey(c) \/ CreateOrganisation(c)
  \/ CreateRelyingParty(c) \/ BeginService(c) \/ InsertService(c) \/ CreateIntendedUse(c)
  \/ RecordRegistrationCertificate(c)
  \/ ImportAccessCertificate(c) \/ ApplyRetentionSettings(c) \/ InsertInstance(c)
  \/ CreateAccessCertificate(c) \/ Fault(c)

-----------------------------------------------------------------------------
(* An access certificate is bound to a key the engine tenant of its         *)
(* service's instance holds, and that tenant was taken off the default      *)
(* session lifetime: registration.service.ts:421, :428. Two provisionings   *)
(* of one service into different engine tenants could break it.             *)
AccessKeyIsUsable ==
  \A s \in Services : \A key \in registry.access[s] :
    /\ registry.instances[s] = key.engine
    /\ key.n <= engine.keys[key.engine]
    /\ key.engine \in engine.sized
=============================================================================
