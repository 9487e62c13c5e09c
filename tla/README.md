# Verification of the European digital trust platform

TLA+ modules, TLC configurations and TLAPS proofs for the platform under
`implementation/`: a verifier and issuer service (`apps/platform-api`) that sits between business
clients and a protocol engine talking to wallets. Paths below are relative to `implementation/`.

The program is TypeScript on one event loop per process, several processes on one PostgreSQL
database. Three facts shape every module:

- no two SQL statements of a request share a transaction, so **every `await` is a step** and any
  other request, process or background pass may run between two of them;
- what keeps writers apart is a conditional `UPDATE ... WHERE state = $from` and the unique indexes
  of `packages/persistence/src/schema.ts`, nothing else;
- calls to the engine and to webhook receivers are bounded by timeouts, may fail, and may have been
  carried out although they failed.

## 1. Inventory

| component | state it keeps | operations | talks to |
|---|---|---|---|
| presentation service (`modules/presentations`, `transaction.repository`, `domain/verification/transaction`) | `presentation_transactions`, their transition log, `verification_results` | create, get (polls the engine and settles), cancel, expireDue, purgeExpiredResults | engine, audit trail, webhook queue |
| webhook delivery (`webhook/`, `support.repository`) | `webhook_deliveries`, `webhook_endpoints`, delivery status of a transaction | enqueue, claimDue, POST, markDelivered, recordFailure | receivers |
| background jobs (`jobs/`) | a re-entrancy flag per process | a pass: expire, deliver, purge | the two above |
| issuance service (`modules/issuances`, `issuance.repository`, `domain/issuance/issuance-transaction`) | `issuance_transactions`, log, `issued_credentials` | create (offer), holdForWallet (hosted form), get, claimsForEngineSession, changeCredentialStatus, provisionPolicy, withdrawPolicy | engine, connectors, webhook queue |
| wallet-initiated claims | values held in memory per authorization request | hold, take, sweep | issuance service, hosted form |
| registration (`modules/registration`) | organisations, Relying Parties, services, intended uses, instances, certificates | one insert or update each; provisionInstance | engine, presentation policies |
| presentation policies (`modules/policies`) | policies, numbered versions DRAFT / PUBLISHED | createPolicy, createVersion, publishVersion, resolve | registration |
| issuer set-up (`http/issuance.controllers`, `issuance.repository`) | Attestation Providers, credential types, issuance policies and versions | create, provision, createVersion, setPolicyStatus | engine |
| issuing engine (`issuer-adapter`) | per engine tenant: presentations, issuer configuration, attribute provider, credential configurations, status lists | provisionCredentialConfiguration, withdraw, offers | engine |
| national registration client (`packages/registration-client`, registration pages of the console) | a session directory: minted identifiers, secret, certificates | login, runChain, issueAccessCertificate, issueRegistrationCertificate | remote registrar |
| hosted forms (`apps/pid-form`, `wallet-initiated.controllers`, `hosted-form-returns`) | destinations of returning visitors, in memory | open, confirm, identify, continue, request | gateway, platform, wallets |
| demonstration relying parties (`demo-bank`, `demo-onboarding`, `demo-portal`) | case book and poll tokens in memory; the page's script | start, poll, result, decide, sign | platform, wallets |
| test gateway (`apps/test-gateway`) | none | allow, redirect, rewrite | engine, platform |
| listings (`listing.repository`, `pagination`, `listing.controllers`) | none | keyset pages | - |
| in-memory stores (rate limiter, used nonces, poll tokens, case book, interaction cache) | bounded maps | set, get, evict | the processes above |
| domain functions (`domain/verification`, `domain/issuance`) | none | claim paths, result policy, plans, validation, narrowing, outcome mappings | - |

What is hard here, and what correctness means:

- *Races to settle.* Any number of pollers, a cancellation and an expiry pass reach the same row.
  Correct: one outcome, told once, to everybody, and final.
- *Partial failure and crashes.* A settlement is six statements, a provisioning up to ten calls.
  Correct: a verification never lacks its result, no row is stuck for ever, nothing is announced that
  did not happen, and the next provisioning repairs what an earlier one left.
- *Delivery at least once.* Correct: nothing is reported delivered that was not taken in, retries are
  bounded, every row ends, and a receiver that is up is told.
- *The engine is a second source of truth.* Correct: nothing is collected that the platform does not
  follow; register, callback and row agree with the engine; where they cannot, it is on record.
- *Revocation.* Correct: a revoked attestation stays revoked, in the register and on the status list.
- *Configuration that changes under way.* Versions, registrations and keys are read in one statement and
  used in a later one. Correct: numbers are unique, what is published is settled, a wallet is asked only for
  what is registered, and the engine's metadata lists only what is there.
- *Many visitors, one process.* Forms and demonstration sites keep what they know in the page or in a map.
  Correct: what is issued is what its visitor submitted, results reach the visitor they are of, and nobody
  waits for ever.
- *Minting that cannot be undone.* Correct: an interrupted registration resumes; what is recorded hangs
  together.

Every hazard, at its line and with the properties that cover it, is in `PROJECT.json`.

## 2. Modules

| module | models | composed with |
|---|---|---|
| `PresentationStates` | states, transition table, the walk `nextHop` of a presentation | |
| `PresentationOutcome` | the abstract promise: open, settle once, tell only the outcome, queue at most one callback | |
| `Presentations` | the presentation service, statement by statement, with engine sessions, the expiry and purge passes, failures and crashes | implements `PresentationOutcome` |
| `WebhookDelivery` | the queue, the workers and the receivers | |
| `IssuanceStates` | states, table and outcomes of an issuance | |
| `Issuances` | create, holdForWallet, get, claimsForEngineSession with the held values and the engine's sessions | |
| `CredentialStatus` | changeCredentialStatus: register, status list, late calls, audit | |
| `ClaimPaths` | claims path pointers: validity, coverage, selection, reading | |
| `PresentationRules` | validation of a policy version, the compiled plan and query, the released result | extends `ClaimPaths` |
| `Registration` | organisations, Relying Parties, services, intended uses, instances with their access certificate | extends `PresentationRules` |
| `PresentationPolicies` | policies and versions, and a presentation's use of them from resolution to result | extends `Registration` |
| `IssuanceRules` | validation of types and versions, the plan, narrowing of attributes | |
| `IssuerProvisioning` | Attestation Providers, types, policies, versions, and the provisioning of the issuing engine | extends `IssuanceRules` |
| `RegistrationChain` | the national registration client, by command line and by console | |
| `BoundedStores` | rate limiter, start tokens and used nonces, poll tokens, case book, each with a reference | |
| `GatewayRules` | the test gateway's decision on a request, with a reference | |
| `Listings` | keyset pages, cursors and filters of the list routes, with a reference | |
| `HostedPlatform` | what the hosted pages share: pushed requests, presentations, return destinations, held values | extends `GatewayRules`, `BoundedStores` |
| `HostedForms` | the hosted form between gateway, wallet and platform | extends `HostedPlatform` |
| `HostedVerifiers` | the demonstration Relying Party's three sites | extends `HostedForms` |
| `Onboarding` | the onboarding page's script and the server's case book | extends `HostedVerifiers` |
| `HostedFronts` | all of these together, and what they promise a visitor | extends `Onboarding`, `Listings` |
| `MC...` | instances for TLC | |
| `Presentations_proofs`, `WebhookDelivery_proofs`, `Issuances_proofs`, `CredentialStatus_proofs`, `PresentationPolicies_proofs`, `IssuerProvisioning_proofs`, `RegistrationChain_proofs`, `HostedFronts_proofs` | theorems and their proofs (section 4) | |

### Presentations

A *handler* is one execution of `create`, `get`, `cancel` (a request) or of the expiry pass over its
batch (a job). `pc[h]` names the await it is at, `req[h]` its local variables, so a value read before
an await is used after it exactly as in the code. `Transition` / `TransitionRefused` are the
conditional UPDATE of `transition()` and its conflict; `ReadLog` and `AppendLog` the two statements
that number and write the log entry; `SizeSession`, `Offer`, `EngineRefuses`, `AttachEngineSession`
the creation of an engine session; `Status`, `Process`, `SaveResult`, `AuditSettlement`,
`ReadForCallback`, `EnqueueResult` and `Reply` the settlement; `CancelSession` the DELETE on the engine
that precedes a cancellation; `FindExpirable`, `ExpireNext` and `PurgeExpiredResults` the background
pass. `Fault(h)` is a statement that throws, with the catch of the code; `Crash` a process that stops
and leaves the database as it is. The wallet and the engine are the environment. The policy resolution
before the first insert and the content of results are in `PresentationPolicies`; here, whether a result
satisfies the policy is all the properties tell apart.

### WebhookDelivery

`ClaimDue` is the statement that selects due rows `FOR UPDATE SKIP LOCKED`: it changes nothing, and its
locks end with it, so a row is due until its outcome is recorded; `Post` is the HTTP call, to a receiver that accepts, refuses, or accepts while the answer is lost; `MarkDelivered`,
`RecordFailure` and `SetDeliveryStatus` the separate statements after it, counted from the worker's own copy
of the row. Back-off is the code's doubling up to `MaxDelay`, on an integer clock that stops at
`MaxTime`: a row scheduled beyond it counts as due, so the bound never holds a row back.

### Issuances

One handler per execution of `create` (with an offer, or with the wallet's pushed authorization
request), `get` and `claimsForEngineSession`. The row walks CREATED, ELIGIBILITY_CHECK, OFFER_READY,
AWAITING_WALLET and on; every hop is `Move` (the conditional UPDATE) then `AppendTransition` (the log).
`held` is `WalletInitiatedClaims` and is emptied by `Crash`. Policy lookup, provisioning and the
connector are `Prepare`: they write nothing of the transaction and may refuse; what provisioning writes
to the engine is in `IssuerProvisioning`. Audit records are steps, since something can happen at them,
but no variable keeps them.

### CredentialStatus

`Begin` reads, `Change` is the domain's check with the UPDATE pinned to the status that was read, `Tell`
the engine call, `Confirm` the acknowledgement pinned to the status, `Audit` both audit records. A call
that timed out is kept in `overdue` until the engine carries it out, if it ever does.

### Registration and PresentationPolicies

`registry` holds the tables, `engine` the key chains and session settings of the engine tenants, `audit`
a bag of audit events. Rows are only inserted, so reading a row that an insert depends on is part of the
inserting action; a request that takes several awaits has a `pc` and its locals in `req`.
`provisionInstance` is the import of the access key, the session lifetime, the insert of the instance
and that of the certificate, each of which may fail. `createVersion` reads the list of versions in one
statement and inserts the number it drew in a later one, where the unique index may refuse it;
publication validates in one statement and compares and sets in another. `BeginPresentation`, `Resolve`
and `Compile` read the version, the one the caller named or the default, and its context;
`WalletAnswers` is a holder's disclosure, from which the claims are extracted and to which the result policy
is applied. A document is the set of its leaves: the path that leads to a value, with the value
at its end. A value is a name: what the rules tell apart is which values are `Empty` (null and the empty
string), which are a date (`DateOf`), and which readings a derivation allows. The keys that
extraction drops (`Envelope`) and those no result may have (`UniqueElements`) are the code's two lists.

### IssuerProvisioning

An engine tenant is one object, written call by call: keys, issuer configuration, attribute provider,
presentation configurations, credential configurations, status lists. `provision` of a provider
(import keys, look the tenant up, update the row), a provisioning of a policy ahead of any offer, the
provisioning an offer does, and `withdrawPolicy` are requests whose every engine call is an action and
may fail or be lost; versions, their status and the gates' published versions change meanwhile. The
composition of the issuer's configuration from all the provider's policies is an operator
(`IssuanceRules` has the rest of the pure part), so an omitted or stale policy is a wrong value.

### RegistrationChain

One action per call of the registrar and per write of a file: `disk` is the session directory (recorded
identifiers, secret, certificates and the temporary file that all writers share), `minted` the registrar's
entities with what they name. The command line and the console are two front ends of one client: the
console's page was rendered earlier and may be stale, the command line reads the directory when it
starts. An answer may be lost after the entity was minted, a front end may stop between any two steps,
the entity file may fail its schema or still hold placeholders. `overlapped` remembers that two worked at
the same time, which the code does not prevent.

### Hosted fronts

`Presentations` and `Issuances` model what is behind a route await by await; here a call of the platform
is one step, and what is interleaved is the visitors' requests, the pages' timers, the wallet and the
background pass. A visitor has one window with at most one request under way and can go back to
an older page; the form keeps no session, so `browser` carries in each page what the page carries in the
code, and `returns` is the in-memory map of destinations a restart empties. The gateway is the operator
`GatewayRules` decides with. In `Onboarding` the script's fetches are a bag under way next to its
timers, and each answer settles on whatever screen it finds; the server's case book is the operator of
`BoundedStores`. The stores are operators from a sequence of calls to answers: with their capacity at
2 or 3, every eviction and every expiry is reached on the sampled sequences.

## 3. Runs

| run | question | shows |
|---|---|---|
| `presentation_races` | two requests (any mix of create, poll, cancel) and a pass race, nothing fails | `OneStory`, `AtMostOneCallback`, `HistoryIsLegal`, `SettlementIsAnnounced`, `TerminalIsFinal` |
| `presentation_faults` | a failure or crash at any await, lost and refused engine calls, retention running out | `VerifiedHasResult`, refinement `KeepsThePromise`, liveness `EventuallySettles` |
| `delivery_one_worker` | a failing next to a healthy receiver, unsigned endpoints, a failure or crash at any statement | `DeliveredWasAccepted`, `AttemptsAreBounded`, `StatusFollowsQueue`, liveness `QueueDrains`, `HealthyReceiverIsTold` |
| `issuances` | two issuances, offers and a wallet request, two handlers, a fault | `CollectedIsFollowed`, `OutcomeIsTheEngines`, `ToldOnce`, `RegisterFollowsIssuance`, `WalkIsLogged` |
| `issuance_settles` | one issuance through two faults | liveness `PolledSettles` |
| `credential_status` | two operators, two attestations, one with and one without suspension, an engine that refuses, loses answers and is late | `RevocationIsFinal`, `RegisterGoesFirst`, `SuspensionNeedsPolicy`, `DivergenceIsReported` |
| `verification_setup` | registering, publishing and presenting at the same time, a fault | `AccessKeyIsUsable`, `RequestIsCurrentAndCovered`, `ResultIsOfTheAnswer`, `RulesMeetTheirReference`, `VersionsAreSettled` |
| `issuer_provisioning` | two providers after one engine tenant; provisioning, issuing and withdrawing under change, a fault | `ProviderIsWhole`, `ListedResolves`, `ProvisionedAloneIsCurrent`, `IssuanceRulesMeetTheirReference`, `IssuanceVersionsAreSettled` |
| `registration_chain` | command line and console on one session directory, lost answers and stops | `InterruptedRunResumes`, `RecordedHangsTogether`, `AccessCertificateIsKept` |
| `hosted_fronts` | two visitors at the forms, the shop, the bank and the onboarding; restarts, failed calls, going back; the fronts' pure rules | `FormIssuesWhatWasSubmitted`, `ResultsReachTheirVisitor`, `FrontRulesMeetTheirReference`, liveness `WaitingEnds` |
| `bad_ListKeepsRevocations` | a concurrent revoke and reinstate cannot interleave into an un-revocation | a counterexample (section 6) |
| `bad_OnlyAllowedIsReturned` | only the allowed claim paths are returned | a counterexample (section 6) |

Bounds. In `presentation_races` two requests and one pass are every pairwise race, and a third handler
finds a row that one of the two has left in a state the pair reaches as well; one transaction suffices
because rows share only the engine tenant's session window. `MaxFaults = 1` lets a single failure fall on
each await, on top of the engine's own refusals and lost answers; `issuance_settles` and
`registration_chain` allow two, so that what was resumed is interrupted again. `MaxTime` reaches past
every deadline of the instance. `MaxAttempts = 2` has a first and a last attempt, the one
that exhausts the limit; `BatchLimit` and `ClaimLimit = 1` make batches smaller than the backlog.

`verification_setup` has one of each row, so that two requests always meet on it, two versions, which
is what a number drawn twice and a default that changes need, and two engine tenants for one service.
The bodies versions are made of (`Bodies`) are one per result kind and format and one that is refused, the
wallets that answer them (`Holders`) one per format, one with no date where a birth date is asked for and one
that cannot answer: every outcome but the protocol error is reached. Further bodies (`Examples`) and richer wallets
(`OtherHolders`) are evaluated by the rules alone, in every combination: claims of the envelope, alone and
among others, unique elements at the top and below, empty values and texts that are no date, a birth in
the future, a leaf below the depth at which stripping gives up, wildcards. `issuer_provisioning` has two
providers that claim one tenant, three keys so that a key is replaced, two versions, one of them gated,
and five requests, enough for a withdrawal and a faulty provisioning before the one that must repair
them. `registration_chain` lets fourteen entities be minted: the twelve steps of the chain and two
repeats. `hosted_fronts` starts on one of eight `Days`: two representatives at one form; a natural person
and one at a form-less policy; one visitor alone at a form, the shop, a loan or an account, with trouble
(failed calls, restarts, going back) up to two; and a day of nobody, on which only the rules are
evaluated. `SessionsRead = 2` stands for the code's 25.

Requests, handlers, operators, clients and engine tenants are interchangeable, hence the symmetry
sets of safety runs; no run with a liveness property uses symmetry. `CHECK_DEADLOCK FALSE` is
set wherever the system really stops: every transaction settled and the clock at its bound
(Presentations, WebhookDelivery, Issuances), everything set up and the bound on rows or requests reached
(`verification_setup`, `issuer_provisioning`), a finished registration, visitors who have gone home.

Fairness. `Presentations`: a handler proceeds (every await is bounded by a timeout), the passes go on (an
interval timer), the clock runs; no client has to call and no wallet or engine has to answer.
`WebhookDelivery`: the workers and the clock. `Issuances`: handlers proceed, the clock runs, and the
client keeps polling (strong fairness of `get`, because a handler is not always free); without a poller
nothing settles an issuance, by design. `HostedFronts`: a visitor's request under way goes on, a waiting
page reloads itself (its refresh header), and on days on which time passes a presentation's lifetime
ends and the pass expires it; no person and no wallet has to do anything. `Fault`, `Crash` and restarts
are never fair, and bounded.

Every property of a passing run has a mutant in `PROJECT.json`, a plausible bug of the mapped code
written next to the definition it replaces and marked "Mutated"; TLC then finds the property violated.
The `TypeOK` of `Presentations`, `WebhookDelivery`, `Issuances`, `CredentialStatus` and
`PresentationPolicies` are in no run: they are theorems.

## 4. Proofs

Checked by TLAPS for every number of transactions, deliveries, requests, workers, passes, attestations,
providers, policies, versions, engine tenants and visitors, every policy body and every value of the bounds, from
the modules' assumptions on their constants only: sets that must not be empty are not, bounds
are naturals, rows refer to rows of the instance, `Consoles` are front ends. `None \notin ...` says
that null differs from every value, `AbsentAssumption` that a file which is not there differs from
every recorded state. A theorem below names the property it proves in brackets.

`Presentations`. `Presentations_proofs` starts with `TypeCorrect`, together with `WorksOnARow`: a handler past
its first step works on a row that exists. `OneStory` is not inductive: between winning the UPDATE and
queueing the callback a handler has told nobody yet, and the invariant must know that it will tell
the truth. `IInv` therefore adds that a handler which wrote the outcome (`Announcing`) carries
the outcome of the row and that nothing is queued yet (`AnnouncesTheOutcome`), that no two handlers
announce one transaction (`OneAnnounces`), that nothing is told before (`SilentUntilSettled`), and
that a result is stored before anybody walks to VERIFIED (`StoredBeforeVerified`). Steps that tell
nothing share the lemma `QuietStep`. From it: `EverybodyIsToldTheSame`, `OneCallback`,
`VerifiedIsStored`, `SettledStays`. `TrailStaysLegal` [`HistoryIsLegal`] ranks the states: an entry, or
what is to be one, leaves a state its row is past, and no other entry leaves it too (`TrailIsLegal`).
`SettlementsAreAnnounced` [`SettlementIsAnnounced`] needs that a handler knows whether its row has a
session (`Sessioned`) and that, while nothing has failed, what is missing of a settlement is still
in front of its announcer (`Announced`). `Refinement` shows that the service implements
`PresentationOutcome`: every step is one of its steps, or changes nothing it promises.

`WebhookDelivery`. `NothingIsCalledDelivered` [`DeliveredWasAccepted`] holds for any number of workers,
although their claims are not disjoint: whoever marks a row delivered had its own POST taken in.
The other two are about one worker and say so in a hypothesis (`OneWorker`), which is what one process
guarantees: `runOnce` returns while its `running` flag is set (`apps/platform-api/src/jobs/background.jobs.ts:67`); two
processes would claim one row twice. `AttemptsStayBounded` [`AttemptsAreBounded`] needs that a
claim still is a copy of its row (`ClaimsAreCurrent`) and that every POST is counted in
the row, about to be, or lost to a fault (`PostsAreCounted`); `StatusIsTheRows` [`StatusFollowsQueue`]
that a transaction which does not know of its row's end will be told by the worker that ended it.

`Issuances`. One invariant carries all five properties. For each operation it says where a
handler may stand and how far its row has come (`CreatorStage`, `ClaimantStage`,
`FollowerStage`); a row awaits values from one request only (`HeldOnce`); whatever the engine was given to
issue is followed by a row (`IssuedIsFollowed`); an outcome has one announcer (`OneEach`, `Announcements`);
and the log, with the entries in the handlers' hands, is the walk up to the row's state
(`LogIsTheWalk`). From it: `NothingIsIssuedUnfollowed` [`CollectedIsFollowed`],
`OutcomesAreTheEngines` [`OutcomeIsTheEngines`], `CallbacksAreToldOnce` [`ToldOnce`],
`RegisterIsComplete` [`RegisterFollowsIssuance`], `LogIsComplete` [`WalkIsLogged`].

`CredentialStatus`. `RegisterGoesFirst` is not inductive: a request between its UPDATE and its engine call
could carry a revocation the register does not have. `ListFollows` adds that it never does,
`PolicyHolds` that it never carries a forbidden suspension, and `SomebodyReports` that an unconfirmed
status is either in the audit trail or in the hands of a request that will confirm or report it
(`Reporting`). From them `RegisterFirst`, `SuspensionByPolicy`, `DivergenceWasReported`;
`RevocationStays` needs only the types and the transition table.

`PresentationPolicies` (and `Registration`). Rows are read in one statement and relied on in a later one,
so the invariant is that what a request has read still stands (`Stands`), which follows from
rows and keys only growing (`Grows`). `AccessKeysAreUsable`, `RequestsAreCurrentAndCovered`. For
`VersionsSettle` [`VersionsAreSettled`] it adds that a publication is either on the audit trail, once, or in
the hands of the one request that made it (`PublishedOnce`). `ResultsAreOfTheAnswers`
[`ResultIsOfTheAnswer`]: a request asks what one valid body of its version compiled to, and its answer
is judged by that same body, whatever is published or registered in between (`FollowsTheRules`;
it rests on the versions being settled).

What a wallet's answer deserves is `IsResultOf`, which looks only at what was disclosed and where: a protocol
error if all that was asked for is of the envelope; otherwise POLICY_NOT_SATISFIED if anything the policy reads is
lost with the envelope, empty, or no date where an age is derived; otherwise VERIFIED with what the
policy allows, less the unique elements it does not spell out and what lies too deep, or with the derived answers, an
age being a number of birthdays. The code gets there by extraction, restoring the requested
shape, reading by path and stripping twice, none of which `IsResultOf` mentions. That both agree is a rule
without a state, and `RulesAlwaysMeetTheirReference` [`RulesMeetTheirReference`] proves the three parts:
`CoveredClaimsSelectNoMore` for all paths and documents, `AgeIsBirthdaysReached` for all dates, and
`SuitedAnswersGetTheirResult` for every body and every attestation that suits it. The argument of
the last follows the answer from the wallet to the customer. An mdoc comes back to its namespaces and an
SD-JWT stays as it is (`ShapeIsRestored`, `ShapeIsKept`); what is read by a path is what was disclosed there,
up to the first wildcard, and all of it (`AddressLeads`, `ReadIsGiven`); what is released of it is what may be shown
(`ReleasedIsShown`); a derivation tells what holds of the value, or nothing (`DerivedIsHeld`,
`NothingIsDerived`). No body, wallet or registration is excluded by an assumption: `ExamplesAssumption`
only says what they are made of. The proofs showed what the rules rely on and no rule asks for, and the properties
say it as hypotheses: where a wildcard is registered, an element of the array is asked for
(`AsksForElements`); elements of an mdoc are asked for in their namespace and have different names
(`NamesElements`); and what is asked of an array's elements, or below a key of the envelope, is not named
like a claim at the top (`NamesApart`). Each excludes a case in which the code does otherwise (section 6).

`IssuerProvisioning`. `ProvidersStayWhole` and `IssuanceVersionsSettle` follow from keys that stay and
versions numbered without a gap (`ProvidersAreWhole`, `RowsRefer`). `WhatIsListedResolves`
[`ListedResolves`] needs the order of the engine calls: a request that is about to write an object has
written to the same engine tenant whatever the object refers to (`Writing`), whoever else writes in
between. `ProvisionedAloneStaysCurrent` [`ProvisionedAloneIsCurrent`] is the deepest: as long as a
request is alone, each thing it has read is what is there and each thing it has written is what it read
(`IsRead`, `IsWritten`), statement by statement from the resolution of the version to the
withdrawal of the others.
The rules of issuance, `IssuanceRulesAlwaysMeetTheirReference` [`IssuanceRulesMeetTheirReference`]: a declaration is a
sequence of definitions and the narrowing a recursion over it, so `WhatIsDeclaredIsIssued` is by the least
prefix of which the narrowing would not be the declared claims with the values they had;
`ReportsNeedBothCertificates` is of every metadata document. The examples need nothing but that their
claims are claim definitions.

`RegistrationChain`. However many front ends work on one directory, whatever is recorded, or about to
be, is an entity of its key, since minted entities stay (`AnyNumber`). As long as one works at a time
(`OneAtATime`), a run is at the first step that is not recorded and holds what is recorded (`InStep`),
recorded entities name recorded ones (`HangsTogether`), and every identifier that got lost cost a fault
(`Counted`). `InterruptedRunsResume`, `RecordsHangTogether`, `AccessCertificatesAreKept`.

`HostedFronts`. Whose a request or a presentation is never changes, and a verified one stays verified
(`Grows`). So the invariant says of everything that names one that its own visitor started it:
pages, returns, requests under way, timers, cases and links (`PlatformIsSound`, `FrontsAreSound`,
`OnboardingIsSound`); what holds of one visitor's is untouched by the steps of another. Three things are
needed besides. An identification for a form is presented by its owner and stays with the request it is
for, in the page, in the return and in the held values (`Identifications`, `ReturnsLead`,
`HeldAreGiven`). A code comes only from an accepted submission (`CodesAreAccepted`). And a page that came back
for a loan does nothing before its first result is known (`Resumes`), so that no answer of its former life
lands in it. `NamesAreOwn` is the invariant; from it `FormIssuesWhatWasSubmittedAlways`
[`FormIssuesWhatWasSubmitted`] and `ResultsReachTheirVisitorAlways` [`ResultsReachTheirVisitor`], for any
number of visitors, requests and presentations on any `Days`.

The stores, the gateway's decision and the lists are functions of a sequence of calls, compared with
references that look at the whole sequence. `FrontRulesAlwaysMeetTheirReference`
[`FrontRulesMeetTheirReference`] proves that they agree for all sequences, bounds and rules, of which
`SamplesAssumption` says only that calls come in the order of time and that rows have identifiers of their own.
Its parts are theorems of one sequence each, by the least prefix after which an invariant of the store would
fail: the windows of the limiter are of keys that were counted and its oldest are dropped first
(`LimiterIsSound`, for `LimiterAlwaysMeetsItsReference`); a used nonce is still there, or as many others as the
set holds came after it (`IsRemembered`, for `StartLinksAlwaysOpenOnce`); the poll tokens are of the last
presentations, as many as there is room for (`HasLast`, for `PollsAlwaysMeetTheirReference`); cases stay in the order they were opened in, each from a verified
presentation (`BookIsInOrder`, for `BookAlwaysMeetsItsReference`); each page of a walk begins behind the row
the one before it ended at, in tables that only grow (`IsWalk`, for `WalksSeeEachOnce`). `GatewayKeepsItsListAlways` and `AnswersKeepTheProtocol` are of one
request or answer.

Attempting the proofs corrected the modules, in respects no run had shown. Guards of a CASE that overlapped
(`AfterMove`, `Listings`, `Derive`, `ApplyResultPolicy`) are disjoint; `RegistrationChain` says that
a missing file is unlike any state; `returns` of `HostedPlatform` is a partial function, like the
Map it stands for. `RestoreRequestedShape` looked for a claim through arrays, where `readAtPath`
follows names only: the model was kinder than the code, and hid what section 6 says of `verifier-adapter.ts:340`. Others changed form
and not meaning, to be reasoned about: the order of a page is a rank (`NewestFirst`), sweeping a store
and narrowing a declaration are recursive functions (`Among`, `NarrowToDeclaredClaims`), where a path is cut is an
operator of its own (`Leading`).

Only model-checked: all liveness (`EventuallySettles`, `QueueDrains`, `HealthyReceiverIsTold`,
`PolledSettles`, `WaitingEnds`), which needs fairness and ENABLED and is out of the prover's reach. Every
safety property of a passing run is a theorem.

## 5. Plan

The components that carry the program's logic are modelled, and the safety of their state machines is
proved. What is left is an abstract at-least-once queue that `WebhookDelivery` implements, and its
composition with `Presentations`, so that the callback of a settlement is followed to its receiver.

## 6. Where the code and its documents differ

With a run:

- `bad_ListKeepsRevocations`: the engine calls of two status changes are not ordered as the register's
  UPDATEs are, so a reinstatement can undo a revocation on the status list.
- `bad_OnlyAllowedIsReturned`: a path with a wildcard is answered with the whole array it reached, so
  a result policy that allows one member of an array's objects releases every member that was disclosed.

Without one, met while modelling. Verification:

- The transition log numbers its entries in one statement and inserts them in another with
  `onConflictDoNothing`; an entry can be dropped (`transaction.repository.ts:302`).
- A cancellation deletes the engine session before it is refused (`presentation.service.ts:350`), where
  `docs/api/verification-api.md:372` lets a received presentation keep its session.
- The session window is a setting of the whole engine tenant, overwritten by every creation
  (`verifier-adapter.ts:79`), so a transaction may be expired by the engine before its own lifetime
  (`transaction.ts:46`).
- `docs/api/verification-api.md:356` has EXPIRED mean that no wallet answered; a received presentation
  whose settlement was abandoned expires too (`presentation.service.ts:641`).
- `presentation.service.ts:389` has no outcome recorded after the lifetime; the check precedes several
  awaits.
- A version can be published that accepts both formats with one of them registered, or that has no
  usable anchor source; every presentation under it is then refused.
- A registered wildcard is to cover "any index at that position" (`docs/api/verification-api.md:239`);
  `segmentCovers` lets it cover the name of a member as well (`claim-path.ts:55`). `AsksForElements` keeps
  this case out of `RulesMeetTheirReference`.
- `verifier-adapter.ts:291` has SD-JWT VC pass through untouched. `readAtPath` follows names only (`:340`),
  so what is asked for inside an array is never found in its place, and a disclosed top-level claim of the
  same name is moved away: asked for `title` and `degrees/0/title`, a wallet that disclosed both is
  answered POLICY_NOT_SATISFIED.
- A policy may register and ask for `iat`, `exp`, `nbf`, `iss` or `vct`: publication looks at neither list of
  keys, extraction drops them in both formats (`verifier-adapter.ts:264`), and if the result reads one, every
  answer is POLICY_NOT_SATISFIED, or PROTOCOL_ERROR when nothing else was asked for.
- A unique element that is allowed by name at the top satisfies the policy and is stripped
  (`result-policy.ts:97`), unless extraction drops it as well; one that a nested path names is released, since the
  path's text is the key it is returned under.
- Two requested mdoc paths with the same leaf name are given the same value, and an mdoc path of more than a
  namespace and an element is not found again: conditions of `Suits`, which no rule of the program asks for.
- No operation retires a presentation policy (`presentation.service.ts:98` would refuse it), and
  `retireVersion` (`policy.repository.ts:149`) has no caller, so RETIRED is never reached.
- `provisionInstance` that fails between the insert of the instance and that of its certificate cannot be
  repeated (`registration.service.ts:463`, `registration.repository.ts:347`); a tenant whose key insert
  failed and an endpoint whose service failed stay behind.

Delivery:

- `docs/security-limitations.md:81` has the workers' claims disjoint; a claim changes nothing and its lock
  ends with its statement, so another worker can claim a row that is being sent
  (`support.repository.ts:221`).
- `docs/api/verification-api.md:424` has a given-up delivery recorded as FAILED; an endpoint without a
  secret is given up on the queue only (`webhook.service.ts:195`).
- `docs/privacy.md:61` gives webhook rows a retention; no statement deletes one.

Issuance:

- No job expires issuances: `findExpired` (`issuance.repository.ts:773`) has no caller, although
  `docs/security-limitations.md:57` counts on the lifetime, and `issuance-outcome-mapping.ts:107` leaves
  an unknown engine status to it.
- `wallet-initiated-claims.ts:34` has one attestation per authorization request; after `take()` a second
  submission is held for the same request.
- A crash between the move to ISSUED and `recordIssued` leaves an attestation without register entry:
  polls return at once on a terminal row, and without an entry it cannot be revoked.
- `confirmStatus` is pinned to the status, not to the change: after suspended, reinstated, suspended an
  old acknowledgement confirms the new change. `DivergenceIsReported` holds regardless, since the
  new change still reports its own failure.
- A reinstatement the engine refused stays persisted as VALID and unconfirmed, and cannot be repeated
  (`status_unchanged`): the platform is then less strict than the list.
- `cancelIssuance` has no caller, and `advanceToIssuing` is never reached: the adapter reports an
  issuance as waiting or settled, never as issuing.
- Provisioning an older and a newer version at once can withdraw the newer (`issuance.service.ts:532`,
  `:552`), and a stale configuration written last can leave an offer naming an authorization
  server the metadata no longer lists (`issuer-adapter.ts:296`). The next provisioning repairs both,
  which is why `ProvisionedAloneIsCurrent` and `ListedResolves` say what they say.
- The policy's credential type is not compared with the version's when a version is created.

Registration client, hosted pages:

- Command line and console on one directory at once can lose recorded identifiers or replace each
  other's certificate; logging in again archives the old session before the new login has begun. The
  properties of `registration_chain` that need one writer at a time say so.
- A lost answer mints an entity twice: the registrar has no idempotency key, as the code says.
- The fixed claims a form shows are of the version read for the page; the issuance uses the version
  that is current at submission.
- A case is opened again when its presentation is polled after the case book's retention
  (`backoffice.ts:9`, `:81`), with its product lost; after an eviction, as after the restart that
  `docs/security-limitations.md` describes, a cross-device outcome is told without its poll token.
- `GatewayRules` takes the path of a request as the endpoint it names; absolute and `//host` request
  targets are outside it.
- In the hosted models a same-device link is answered by its page's own visitor; a link that is passed
  on to somebody else is outside them.
- A pushed request older than the newest 25 sessions of its tenant is not found any more.
- In the onboarding page an answer of an earlier connection settles on a later screen, so that a stale
  failure stops the polling of the new one.

## 7. Not modelled

- Trust anchor publication: rendering of a signed list; no state.
- Process wiring, configuration, logging, and the migration runner, which is run once, in order.
- The engine client's retry loop and token cache: a retried idempotent call has the outcomes of one
  call that may be lost, which the modules have. The registration of the callback endpoint in the
  engine during provisioning.
- HTTP controllers that parse, authenticate, call one service method and render its answer; the console's
  pages other than those of the registration, which are such requests too, and its interaction cache.
- The portal, the recorded fallback, the simulated flow and the presenter's shortcuts of the
  onboarding demonstration: they reach neither wallet nor platform.
- Presence of an empty object or array as a claim: a document is the set of its leaves, and an empty
  container has none.
- The check of issued claims against a type's payload schema, and of what a caller supplies to a connector.
- Cryptography, signatures, and the formats of credentials and of the engine's protocol.

`PROJECT.json` lists every component with its status.
