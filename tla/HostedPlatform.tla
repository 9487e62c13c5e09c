--------------------------- MODULE HostedPlatform ---------------------------
(***************************************************************************)
(* What the hosted pages share: the wallets' pushed authorization requests *)
(* at the engine, the presentations the pages start and the platform's     *)
(* routes for them (apps/platform-api/src/http/wallet-initiated.           *)
(* controllers.ts), the destinations of the wallet's return                *)
(* (modules/issuances/hosted-form-returns.ts) and the values held for the  *)
(* engine. Presentations and Issuances model what is behind a route await  *)
(* by await; here a call of the platform is one step.                      *)
(*                                                                         *)
(* Time is what the code compares with it: a presentation's lifetime has   *)
(* passed or not, its result is fresh, older than maxAgeSeconds, or purged.*)
(***************************************************************************)
EXTENDS Naturals, Sequences, FiniteSets, GatewayRules, BoundedStores

CONSTANTS Visitors,          \* people, each with a wallet and a browser
          SessionsRead,      \* sessions findWalletAuthorizationRequest reads; 25
          MaxRequests,       \* bound on pushed authorization requests
          MaxPresentations   \* bound on presentations

ASSUME HostedPlatformAssumption ==
  /\ SessionsRead \in Nat \ {0}
  /\ MaxRequests \in Nat /\ MaxPresentations \in Nat

VARIABLES
  requests,       \* authorization requests the wallets pushed, in that order
  held,           \* WalletInitiatedClaims: values held for each request
  accepted,       \* history: the requests a submission was accepted for
  presentations,  \* what the pages' presentations have come to, by id
  returns         \* HostedFormReturns: where the return of each leads

platform == <<requests, held, accepted, presentations, returns>>

Requests == 1..MaxRequests
Ids == 1..MaxPresentations

-----------------------------------------------------------------------------
(* Configuration: the form's policies, "rep" after an identification, and   *)
(* the verifier's. The engine tenant rep-1 also issues a credential whose   *)
(* policy has no form.                                                      *)

HostedFormPolicies == {[policy |-> "pid", identify |-> "none"],
                       [policy |-> "rep", identify |-> "who"]}

HostedVerifierPolicies == {"shop", "onboarding", "income"}

HostedVerifierQrPolicies == {"onboarding", "income"}

IssuedBy(policy) == IF policy = "pid" THEN "pid-1" ELSE "rep-1"

GatewayConfig == [formUrl |-> TRUE, secret |-> TRUE, tenants |-> {"pid-1", "rep-1"},
                  pinnedWalletCompat |-> FALSE, stripErrorKeys |-> FALSE]

(* authorise: the policies the presented secret opens. *)
Binding(policy) == {b \in HostedFormPolicies : b.policy = policy}

AuthoriseVerifier(policy) == policy \in HostedVerifierPolicies

AssertEngineTenant(policy, tenant) == IssuedBy(policy) = tenant

-----------------------------------------------------------------------------
(* The engine's sessions *)

NoValues == [person |-> "none", presentation |-> 0]

(* Only the newest sessions of the tenant are read. *)
FindWalletAuthorizationRequest(tenant, r) ==
  /\ requests[r].tenant = tenant
  /\ Cardinality({n \in DOMAIN requests : n > r /\ requests[n].tenant = tenant}) < SessionsRead

Push(v, policy) ==
  requests' = Append(requests, [owner |-> v, policy |-> policy, tenant |-> IssuedBy(policy),
                                status |-> "pushed", values |-> NoValues])

(* The engine mints a code the moment a browser arrives. *)
AuthorizeAtEngine(r) ==
  requests' = [requests EXCEPT ![r].status = IF @ = "pushed" THEN "coded" ELSE @]

(* The wallet requests its credential and the engine asks for the claims.  *)
Attributes(r) ==
  /\ requests[r].status = "coded"
  /\ requests' = [requests EXCEPT ![r].status = IF held[r] = NoValues THEN "refused" ELSE "collected",
                                  ![r].values = held[r]]
  /\ held' = [held EXCEPT ![r] = NoValues]
  /\ UNCHANGED <<accepted, presentations, returns>>

(* The lifetime of the transaction ends before the engine asked. *)
HeldExpires(r) ==
  /\ held[r] # NoValues
  /\ held' = [held EXCEPT ![r] = NoValues]
  /\ UNCHANGED <<requests, accepted, presentations, returns>>

-----------------------------------------------------------------------------
(* Presentations, as PresentationOutcome promises them *)

(* REJECTED stands for every refusal, the holder's own included. *)
NonTerminal == {"AWAITING_WALLET", "VERIFYING"}

NewPresentation(v, policy, mode, r) ==
  [owner |-> v, policy |-> policy, mode |-> mode, request |-> r, presenter |-> "none",
   status |-> "AWAITING_WALLET", late |-> FALSE, result |-> "none"]

(* The wallet of v answers. *)
Present(v, p) ==
  /\ presentations[p].status = "AWAITING_WALLET"
  /\ presentations' = [presentations EXCEPT ![p].status = "VERIFYING", ![p].presenter = v]

VerifyPresentation(p) ==
  /\ presentations[p].status = "VERIFYING"
  /\ \E outcome \in {"VERIFIED", "REJECTED"} :
       presentations' = [presentations EXCEPT ![p].status = outcome,
                                              ![p].result = IF outcome = "VERIFIED" THEN "fresh" ELSE "none"]
  /\ UNCHANGED <<requests, held, accepted, returns>>

(* Its lifetime passes; the background pass then expires what is open.     *)
LifetimePasses(p) ==
  /\ ~presentations[p].late
  /\ presentations' = [presentations EXCEPT ![p].late = TRUE]
  /\ UNCHANGED <<requests, held, accepted, returns>>

ExpirePresentation(p) ==
  /\ presentations[p].late /\ presentations[p].status \in NonTerminal
  /\ presentations' = [presentations EXCEPT ![p].status = "EXPIRED"]
  /\ UNCHANGED <<requests, held, accepted, returns>>

(* The result outlives maxAgeSeconds, then its retention. *)
ResultAges(p) ==
  /\ presentations[p].result \in {"fresh", "old"}
  /\ presentations' = [presentations EXCEPT ![p].result = IF @ = "fresh" THEN "old" ELSE "gone"]
  /\ UNCHANGED <<requests, held, accepted, returns>>

-----------------------------------------------------------------------------
(* HostedFormReturns *)

Nowhere == [front |-> "nowhere", policy |-> "none", tenant |-> "none", request |-> 0, presentation |-> 0]

(* Mutated: remembered under the policy, so the last one started wins.     *)
RememberByPolicy(p, policy, destination) ==
  returns' = [q \in DOMAIN returns \cup {p} |->
    IF q = p \/ presentations[q].policy = policy THEN destination ELSE returns[q]]

Remember(p, policy, destination) ==
  returns' = [q \in DOMAIN returns \cup {p} |-> IF q = p THEN destination ELSE returns[q]]

(* Entries are swept once the presentation's lifetime has passed. *)
Destination(p) ==
  IF p \in DOMAIN returns /\ ~presentations[p].late THEN returns[p] ELSE Nowhere

-----------------------------------------------------------------------------
(* The routes of the form. An answer is what the page reads of it.         *)

Refused == "refused"

Resolve(tenant, r) ==
  LET policy == requests[r].policy IN
  IF /\ FindWalletAuthorizationRequest(tenant, r)
     /\ Binding(policy) # {}
     /\ AssertEngineTenant(policy, tenant)
  THEN policy ELSE Refused

(* The claims to type, or what the identification asks for. *)
Form(policy) ==
  IF Binding(policy) = {} THEN Refused
  ELSE IF [policy |-> policy, identify |-> "none"] \in HostedFormPolicies THEN "form" ELSE "identify"

MayIdentify(policy, tenant) ==
  /\ \E b \in Binding(policy) : b.identify # "none"
  /\ AssertEngineTenant(policy, tenant)

(* create() of Presentations, and the destination back into the form.      *)
Identify(v, policy, r) ==
  LET p == Len(presentations) + 1
      asked == (CHOOSE b \in Binding(policy) : TRUE).identify
  IN /\ presentations' = Append(presentations, NewPresentation(v, asked, "SAME_DEVICE", r))
     /\ Remember(p, asked, [front |-> "form", policy |-> policy, tenant |-> requests[r].tenant,
                            request |-> r, presentation |-> p])

(* Somebody else's presentation, or one of another policy, is not found.   *)
Identification(policy, p) ==
  IF \E b \in Binding(policy) : presentations[p].policy = b.identify
  THEN presentations[p].status ELSE Refused

(* VerifiedPresentationConnector: may p be issued from? *)
PresentationServes(p) ==
  /\ presentations[p].status = "VERIFIED"
  /\ presentations[p].result = "fresh"

(* submit, and create() of Issuances up to its source: a typed form takes   *)
(* no presentation, one after an identification takes nothing else.         *)
SubmissionRefused(policy, r, values) ==
  LET typed == [policy |-> policy, identify |-> "none"] \in HostedFormPolicies IN
  \/ Binding(policy) = {}
  \/ typed /\ (values.presentation # 0 \/ values.person = "none")
  \/ ~typed /\ (values.presentation = 0 \/ ~PresentationServes(values.presentation))
  \/ ~FindWalletAuthorizationRequest(IssuedBy(policy), r)

(* holdForWallet: refused while values wait for the request. *)
MayHold(r) == held[r] = NoValues

(* Mutated: held for the issuer, not for the request. *)
HoldForTenant(r, values) ==
  /\ MayHold(r)
  /\ held' = [q \in Requests |->
       IF q \in DOMAIN requests /\ requests[q].tenant = requests[r].tenant THEN values ELSE held[q]]
  /\ accepted' = accepted \cup {r}

Hold(r, values) ==
  /\ MayHold(r)
  /\ held' = [held EXCEPT ![r] = values]
  /\ accepted' = accepted \cup {r}

(* The values of a submission: typed ones, or those of the presentation.   *)
ValuesOf(person, p) ==
  [person |-> IF p = 0 THEN person ELSE presentations[p].presenter, presentation |-> p]

-----------------------------------------------------------------------------
(* The routes of the verifier *)

MayStart(policy, mode) ==
  /\ AuthoriseVerifier(policy)
  /\ mode = "QR" => policy \in HostedVerifierQrPolicies

(* What is presented cross-device has no return. *)
StartVerification(v, policy, mode) ==
  LET p == Len(presentations) + 1 IN
  /\ presentations' = Append(presentations, NewPresentation(v, policy, mode, 0))
  /\ IF mode = "SAME_DEVICE"
     THEN Remember(p, policy, [Nowhere EXCEPT !.front = "verifier", !.policy = policy, !.presentation = p])
     ELSE UNCHANGED returns

Outcome(policy, p) ==
  IF AuthoriseVerifier(policy) /\ presentations[p].policy = policy
  THEN presentations[p].status ELSE Refused

(* Claims come with the outcome while the result is retained. *)
HasClaims(p) == presentations[p].result \in {"fresh", "old"}

-----------------------------------------------------------------------------
PlatformInit ==
  /\ requests = <<>>
  /\ held = [r \in Requests |-> NoValues]
  /\ accepted = {}
  /\ presentations = <<>>
  /\ returns = <<>>

(* The process stops: its two maps are gone, its rows are not. *)
PlatformRestarts ==
  /\ held' = [r \in Requests |-> NoValues]
  /\ returns' = <<>>
  /\ UNCHANGED <<requests, accepted, presentations>>

PlatformByItself ==
  \/ \E r \in DOMAIN requests : Attributes(r)
  \/ \E p \in DOMAIN presentations : VerifyPresentation(p) \/ ExpirePresentation(p)

TimePasses ==
  \/ \E r \in DOMAIN requests : HeldExpires(r)
  \/ \E p \in DOMAIN presentations : LifetimePasses(p) \/ ResultAges(p)
=============================================================================
