---------------------------- MODULE HostedFronts -----------------------------
(***************************************************************************)
(* The hosted pages as their visitors meet them: forms and demonstration   *)
(* sites, the gateway, the wallets and the platform together, and what     *)
(* they promise each visitor. On a day without visitors the pure rules of  *)
(* the fronts and of the lists are checked against their references.       *)
(***************************************************************************)
EXTENDS Onboarding, Listings

CONSTANTS
  Takes,       \* sequences of calls <<headers, at>> of a limiter
  Asked,       \* sequences of distinct presentations asked for with a QR
  Tokens,      \* tokens a browser may have
  StartVisits, \* sequences of visits <<token, now>> of start links
  CaseCalls,   \* sequences of calls of a case book
  Sent,        \* requests to the gateway
  Answers,     \* answers of the engine
  Rows         \* rows of a table, of two tenants

(* What the samples have in common with what the code meets: times do not    *)
(* go back, a presentation is asked for once, an id is of one row.          *)
ASSUME SamplesAssumption ==
  /\ \A calls \in Takes :
       /\ Len(calls) \in Nat
       /\ \A n \in 1..Len(calls) : calls[n][2] \in Nat /\ \A m \in 1..n : calls[m][2] <= calls[n][2]
  /\ \A visits \in StartVisits :
       /\ Len(visits) \in Nat
       /\ \A n \in 1..Len(visits) : /\ visits[n][1].signed \in BOOLEAN
                                    /\ visits[n][1].expiresAt \in Nat /\ visits[n][2] \in Nat
  /\ \A ids \in Asked : ids \in Seq(Range(ids)) /\ \A i, j \in DOMAIN ids : i # j => ids[i] # ids[j]
  /\ \A calls \in CaseCalls :
       /\ Len(calls) \in Nat
       /\ \A n \in 1..Len(calls) : /\ calls[n].call \in {"expect", "link", "identity", "income", "declare"}
                                   /\ calls[n].at \in Nat
                                   /\ \A m \in 1..n : calls[m].at <= calls[n].at
  /\ \A answer \in Answers : answer.status \in Nat
  /\ IsFiniteSet(Rows) /\ \A r, s \in Rows : r.at \in Nat /\ r.id \in Nat /\ (r.id = s.id => r = s)

vars == <<platform, fronts, onboarding>>

Init ==
  /\ PlatformInit /\ OnboardingInit
  /\ day \in Days /\ trouble = day.trouble
  /\ browser = [v \in Visitors |-> WalletApp]
  /\ back = [v \in Visitors |-> WalletApp]
  /\ pc = [v \in Visitors |-> "idle"]
  /\ loc = [v \in Visitors |-> NoLocals]

(* A request under way goes on by itself. *)
Handle(v) ==
  \/ Authorize(v) \/ ReadDefinition(v) \/ Submit(v)
  \/ IdentifyAtPlatform(v) \/ ReadIdentification(v)
  \/ StartAtPlatform(v) \/ ReadResult(v)

VisitorDoes(v) ==
  \/ PushRequest(v) \/ Confirm(v) \/ Identificarse(v) \/ Solicitar(v) \/ Verificar(v)
  \/ WalletAnswers(v) \/ WalletReturns(v) \/ GoBack(v)

Next ==
  \/ /\ \E v \in Visitors : Handle(v) \/ VisitorDoes(v) \/ Reload(v) \/ CallFails(v)
     /\ UNCHANGED onboarding
  \/ \E v \in Visitors : Onboard(v)
  \/ RestartOnboarding
  \/ PlatformByItself /\ UNCHANGED <<fronts, onboarding>>
  \/ day.time /\ TimePasses /\ UNCHANGED <<fronts, onboarding>>
  \/ RestartPlatform /\ UNCHANGED onboarding

(* Handlers run, waiting pages reload, time passes and the background pass  *)
(* expires what is late; what people and wallets do is up to them.          *)
Spec ==
  /\ Init /\ [][Next]_vars
  /\ \A v \in Visitors :
       WF_vars(Handle(v) /\ UNCHANGED onboarding) /\ WF_vars(Reload(v) /\ UNCHANGED onboarding)
  /\ \A p \in Ids :
       WF_vars(/\ p \in DOMAIN presentations /\ day.time
               /\ LifetimePasses(p) \/ ExpirePresentation(p)
               /\ UNCHANGED <<fronts, onboarding>>)

-----------------------------------------------------------------------------
(* A credential is issued through a form only with what its owner submitted *)
(* for that very request: what they typed, or the presentation they started *)
(* from it; and a code is minted for no request without a submission, so    *)
(* the engine finds no values only after they expired or the platform       *)
(* restarted (wallet-initiated-claims.ts:18, hosted-form-gate.ts).          *)
FormIssuesWhatWasSubmitted ==
  \A r \in DOMAIN requests :
    /\ requests[r].status \in {"coded", "collected", "refused"} => r \in accepted
    /\ requests[r].status = "collected" =>
         LET given == requests[r].values IN
         /\ given.person = requests[r].owner
         /\ requests[r].policy = "rep" <=> given.presentation # 0
         /\ given.presentation # 0 =>
              /\ presentations[given.presentation].owner = requests[r].owner
              /\ presentations[given.presentation].request = r

(* A window shows claims only of a presentation its visitor started, of the *)
(* policy the page is for, and a verified one; so does the onboarding page, *)
(* and what the case book puts together one visitor started                 *)
(* (hosted-form-returns.ts:10, wallet-initiated.controllers.ts:427,         *)
(* backoffice.ts:8).                                                        *)
ResultsReachTheirVisitor ==
  LET shown(v, p) == presentations[p].owner = v /\ presentations[p].status = "VERIFIED" IN
  /\ \A v \in Visitors : browser[v].shows # 0 =>
       LET p == browser[v].shows IN
       /\ shown(v, p)
       /\ browser[v].at = "request" => presentations[p].request = browser[v].request
       /\ browser[v].at = "result" => presentations[p].policy = browser[v].policy
  /\ \A v \in Visitors :
       /\ desk[v].data # 0 => shown(v, desk[v].data) /\ presentations[desk[v].data].policy = "onboarding"
       /\ desk[v].income # 0 => shown(v, desk[v].income) /\ presentations[desk[v].income].policy = "income"
  /\ \A c \in Range(book.cases) :
       LET owner == presentations[c.key].owner IN
       /\ shown(owner, c.key)
       /\ c.income # 0 => shown(owner, c.income) /\ presentations[c.income].policy = "income"

(* Nobody waits forever in front of a page that reloads itself.            *)
WaitingEnds ==
  \A v \in Visitors : browser[v].at = "waiting" ~> browser[v].at # "waiting"

(* The rows of a table: before at the first k pages of a walk, then after,  *)
(* which has more.                                                          *)
Growing(before, after, k, pages) == [n \in 1..pages |-> IF n <= k THEN before ELSE after]

(* The limiter, the start links, the polls, the case book, the gateway and  *)
(* the walk of a list do what their references say on every sample, however *)
(* small their capacity.                                                    *)
FrontRulesMeetTheirReference ==
  (\A v \in Visitors : day.errand[v] = "none") =>
    /\ \A calls \in Takes, max \in 0..2, maxKeys \in 1..2 :
         LimiterMeetsItsReference(calls, [max |-> max, window |-> 2, maxKeys |-> maxKeys])
    /\ \A visits \in StartVisits, max \in 1..2 : StartLinksOpenOnce(visits, max)
    /\ \A ids \in Asked, max \in 1..2 : PollsMeetTheirReference(ids, "now", Tokens, max)
    /\ \A calls \in CaseCalls : BookMeetsItsReference(calls, [max |-> 2, ttl |-> 1])
    /\ \A formUrl, secret, compat, strip \in BOOLEAN :
         LET config == [GatewayConfig EXCEPT !.formUrl = formUrl, !.secret = secret,
                                             !.pinnedWalletCompat = compat, !.stripErrorKeys = strip]
         IN \A request \in Sent :
              /\ \A target \in {"engine", "platform"}, within \in SUBSET {"general", "issuance", "presentation"} :
                   GatewayKeepsItsList(config, target, request, within)
              /\ \A answer \in Answers : AnswerKeepsTheProtocol(config, request, answer)
    /\ \A list \in TenantLists \cup TransactionLists, of \in 0..1, limit \in 1..2, after \in SUBSET Rows :
         \A before \in SUBSET after, k \in 1..3 :
           WalkSeesEachOnce(list, Growing(before, after, k, Cardinality(Rows) + 1), "t1", of, limit)
=============================================================================
