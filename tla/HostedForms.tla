----------------------------- MODULE HostedForms -----------------------------
(***************************************************************************)
(* The hosted forms (apps/pid-form/src/main.ts and page.ts) between the    *)
(* wallet that pushed a request, the gateway in front of the engine and    *)
(* the platform. The process keeps no session: what a page needs travels   *)
(* in the page. A handler is a pc with one action per call of the platform *)
(* or of the gateway; what a person does with a page is an action as well. *)
(* A visitor has one browser window, with at most one request under way,   *)
(* and can go back to the last page that had something to press.           *)
(***************************************************************************)
EXTENDS HostedPlatform

CONSTANT Days   \* what happens at most: what each visitor comes for, and bounds on
                \* presentations, on the passing of their time and on trouble
                \* (calls that fail, restarts, going back)

ASSUME HostedFormsAssumption ==
  \A d \in Days : d.presentations \in Nat /\ d.trouble \in Nat /\ d.time \in BOOLEAN

VARIABLES
  day,       \* the day the visitors meet
  browser,   \* the page each visitor looks at
  back,      \* the last page with something to press before it
  pc,        \* the call the visitor's request waits for, or "idle"
  loc,       \* what the handler of that request knows
  trouble    \* the trouble that is left

fronts == <<day, browser, back, pc, loc, trouble>>

-----------------------------------------------------------------------------
(* Pages. shows is the presentation whose claims the page shows, 0 for none *)

Page(at) == [at |-> at, site |-> "form", policy |-> "none", request |-> 0,
             presentation |-> 0, shows |-> 0]

WalletApp == Page("app")

(* Pages with a form or a link to press. *)
Pressable == {"form", "identify", "wallet", "request"}

RenderForm(r, policy) == [Page("form") EXCEPT !.request = r, !.policy = policy]

RenderIdentify(r, policy) == [Page("identify") EXCEPT !.request = r, !.policy = policy]

RenderOpenWallet(site, policy, r, p) ==
  [Page("wallet") EXCEPT !.site = site, !.policy = policy, !.request = r, !.presentation = p]

(* It reloads itself. *)
RenderWaiting(site, policy, r, p) ==
  [Page("waiting") EXCEPT !.site = site, !.policy = policy, !.request = r, !.presentation = p]

RenderRequest(r, policy, p) ==
  [Page("request") EXCEPT !.request = r, !.policy = policy, !.presentation = p,
                          !.shows = IF HasClaims(p) THEN p ELSE 0]

RenderMessage == Page("message")

RenderFailure == [Page("failure") EXCEPT !.site = "verifier"]

-----------------------------------------------------------------------------
(* Requests to a front *)

NoLocals == [for |-> "none", policy |-> "none", request |-> 0,
             presentation |-> 0, person |-> "none", pass |-> NoPass]

Await(v, call, locals) ==
  /\ pc' = [pc EXCEPT ![v] = call]
  /\ loc' = [loc EXCEPT ![v] = locals]
  /\ UNCHANGED <<browser, back>>

Respond(v, page) ==
  /\ pc' = [pc EXCEPT ![v] = "idle"]
  /\ loc' = [loc EXCEPT ![v] = NoLocals]
  /\ browser' = [browser EXCEPT ![v] = page]
  /\ back' = [back EXCEPT ![v] = IF browser[v].at \in Pressable THEN browser[v] ELSE @]

(* A call that changes something may be carried out and its answer lost,    *)
(* when the process that made it has given up after 15 s.                   *)
Answered == {TRUE} \cup {a \in {FALSE} : trouble > 0}

CountTrouble(answered) == trouble' = IF answered THEN trouble ELSE trouble - 1

(* Presses page: the visitor's next request to a front. *)
Press(v, at, call, locals) ==
  /\ pc[v] = "idle" /\ browser[v].at = at
  /\ Await(v, call, locals)
  /\ UNCHANGED <<platform, day, trouble>>

(* What the handler answers when the call it waits for fails. *)
Unavailable(v) ==
  CASE pc[v] = "submit" /\ loc[v].for = "confirm" -> RenderForm(loc[v].request, loc[v].policy)
    [] pc[v] = "identification" -> RenderIdentify(loc[v].request, loc[v].policy)
    [] pc[v] \in {"start", "result"} -> RenderFailure
    [] OTHER -> RenderMessage

(* A bound: presentations there are, and those that are being started. *)
RoomToStart ==
  Len(presentations) + Cardinality({u \in Visitors : pc[u] \in {"identify", "start"}}) < day.presentations

-----------------------------------------------------------------------------
(* The wallet, the gateway and the engine *)

(* The wallet pushes its request and opens the browser. *)
PushRequest(v) ==
  /\ pc[v] = "idle" /\ day.errand[v] \in {"pid", "rep", "other"}
  /\ Len(requests) < MaxRequests
  /\ Push(v, day.errand[v])
  /\ Await(v, "gate", [NoLocals EXCEPT !.request = Len(requests) + 1])
  /\ UNCHANGED <<held, accepted, presentations, returns, day, trouble>>

AuthorizationRequest(v) ==
  [method |-> "GET", endpoint |-> "authorize", tenant |-> requests[loc[v].request].tenant,
   requestUri |-> loc[v].request, pass |-> loc[v].pass]

(* To the form, or with the pass of this very request to the engine, which  *)
(* sends the browser back to the wallet with a code.                        *)
Authorize(v) ==
  /\ pc[v] = "gate"
  /\ LET decision == Decide(GatewayConfig, "engine", AuthorizationRequest(v), {"general", "issuance"})
     IN \/ /\ decision.answer = 302
           /\ Await(v, "definition", [loc[v] EXCEPT !.for = "open"])
           /\ UNCHANGED requests
        \/ /\ decision.answer = 200
           /\ AuthorizeAtEngine(loc[v].request)
           /\ Respond(v, WalletApp)
  /\ UNCHANGED <<held, accepted, presentations, returns, day, trouble>>

-----------------------------------------------------------------------------
(* definitionFor: the policy of the pending request and what to show for it *)
(* (neither changes between the two calls). GET / shows it, /confirm goes on *)
(* if the page was of the same policy, and /continuar if the policy          *)
(* identifies.                                                               *)

ReadDefinition(v) ==
  /\ pc[v] = "definition"
  /\ LET l == loc[v]
         policy == Resolve(requests[l.request].tenant, l.request)
         flow == Form(policy)
     IN \/ policy = Refused /\ Respond(v, RenderMessage)
        \/ /\ policy # Refused /\ l.for = "open"
           /\ Respond(v, IF flow = "form" THEN RenderForm(l.request, policy) ELSE RenderIdentify(l.request, policy))
        \/ /\ policy # Refused /\ l.for = "confirm"
           /\ IF policy = l.policy THEN Await(v, "submit", l) ELSE Respond(v, RenderMessage)
        \/ /\ policy # Refused /\ l.for = "continue"
           /\ IF flow = "identify" THEN Await(v, "identification", [l EXCEPT !.policy = policy])
              ELSE Respond(v, RenderMessage)
  /\ UNCHANGED <<platform, day, trouble>>

-----------------------------------------------------------------------------
(* The typed form *)

(* POST /confirm, with what a person typed; "none" leaves a box empty. *)
Confirm(v) ==
  \E person \in {v, "none"} :
    Press(v, "form", "definition",
          [NoLocals EXCEPT !.for = "confirm", !.request = browser[v].request,
                           !.policy = browser[v].policy, !.person = person])

(* The submission of /confirm or of /solicitar, answered with the pass for  *)
(* the request: handBack.                                                   *)
Submit(v) ==
  /\ pc[v] = "submit"
  /\ LET l == loc[v]
         values == ValuesOf(l.person, l.presentation)
         page == IF l.for = "confirm" THEN RenderForm(l.request, l.policy) ELSE RenderMessage
         pass == HostedFormAuthorizePass(requests[l.request].tenant, l.request)
     IN \/ /\ SubmissionRefused(l.policy, l.request, values) \/ ~MayHold(l.request)
           /\ Respond(v, page)
           /\ UNCHANGED <<held, accepted, trouble>>
        \/ /\ ~SubmissionRefused(l.policy, l.request, values)
           /\ Hold(l.request, values)
           /\ \E answered \in Answered :
                /\ IF answered THEN Await(v, "gate", [NoLocals EXCEPT !.request = l.request, !.pass = pass])
                   ELSE Respond(v, page)
                /\ CountTrouble(answered)
  /\ UNCHANGED <<requests, presentations, returns, day>>

-----------------------------------------------------------------------------
(* Identify, then request *)

(* POST /identificarse *)
Identificarse(v) ==
  /\ RoomToStart
  /\ Press(v, "identify", "identify",
           [NoLocals EXCEPT !.for = "identify", !.request = browser[v].request,
                            !.policy = browser[v].policy])

IdentifyAtPlatform(v) ==
  /\ pc[v] = "identify"
  /\ LET l == loc[v]
         p == Len(presentations) + 1
     IN IF MayIdentify(l.policy, requests[l.request].tenant)
        THEN /\ Identify(v, l.policy, l.request)
             /\ \E answered \in Answered :
                  /\ Respond(v, IF answered THEN RenderOpenWallet("form", l.policy, l.request, p)
                                ELSE RenderMessage)
                  /\ CountTrouble(answered)
        ELSE Respond(v, RenderMessage) /\ UNCHANGED <<presentations, returns, trouble>>
  /\ UNCHANGED <<requests, held, accepted, day>>

(* The wallet answers the presentation of the page. *)
WalletAnswers(v) ==
  /\ pc[v] = "idle" /\ browser[v].at = "wallet"
  /\ Present(v, browser[v].presentation)
  /\ UNCHANGED <<requests, held, accepted, returns, fronts>>

(* It then returns to the platform (walletReturn), which knows where the    *)
(* presentation leads: into the form, to a verifier, or nowhere.            *)
WalletReturns(v) ==
  LET p == browser[v].presentation IN
  /\ pc[v] = "idle" /\ browser[v].at = "wallet"
  /\ presentations[p].presenter # "none"
  /\ LET d == Destination(p) IN
     \/ /\ d.front = "form"
        /\ Await(v, "definition", [NoLocals EXCEPT !.for = "continue", !.request = d.request,
                                                !.presentation = d.presentation])
     \/ /\ d.front = "verifier"
        /\ Await(v, "result", [NoLocals EXCEPT !.for = "result", !.policy = d.policy,
                                               !.presentation = d.presentation])
     \/ d.front = "nowhere" /\ Respond(v, RenderMessage)
  /\ UNCHANGED <<platform, day, trouble>>

(* Mutated: whatever is not a failure the page knows is waited for.        *)
WaitsForExpired == {"AWAITING_WALLET", "VERIFYING", "EXPIRED"}

(* The states that are still under way, of those presentations are in here. *)
NON_TERMINAL == {"AWAITING_WALLET", "VERIFYING"}

(* GET /continuar once its definition is read. *)
ReadIdentification(v) ==
  /\ pc[v] = "identification"
  /\ LET l == loc[v]
         status == Identification(l.policy, l.presentation)
     IN \/ status = "VERIFIED" /\ Respond(v, RenderRequest(l.request, l.policy, l.presentation))
        \/ status \in NON_TERMINAL
             /\ Respond(v, RenderWaiting("form", l.policy, l.request, l.presentation))
        \/ status \notin NON_TERMINAL \cup {"VERIFIED"} /\ Respond(v, RenderIdentify(l.request, l.policy))
  /\ UNCHANGED <<platform, day, trouble>>

(* POST /solicitar *)
Solicitar(v) ==
  Press(v, "request", "submit",
        [NoLocals EXCEPT !.for = "request", !.request = browser[v].request,
                         !.policy = browser[v].policy, !.presentation = browser[v].presentation])

-----------------------------------------------------------------------------
(* Whatever the page *)

(* The waiting page loads itself again every three seconds. *)
Reload(v) ==
  \/ /\ browser[v].site = "form"
     /\ Press(v, "waiting", "definition",
              [NoLocals EXCEPT !.for = "continue", !.request = browser[v].request,
                               !.presentation = browser[v].presentation])
  \/ /\ browser[v].site = "verifier"
     /\ Press(v, "waiting", "result",
              [NoLocals EXCEPT !.for = "result", !.policy = browser[v].policy,
                               !.presentation = browser[v].presentation])

GoBack(v) ==
  /\ pc[v] = "idle" /\ trouble > 0 /\ back[v].at # "app" /\ browser[v] # back[v]
  /\ trouble' = trouble - 1
  /\ browser' = [browser EXCEPT ![v] = back[v]]
  /\ UNCHANGED <<platform, day, back, pc, loc>>

(* The platform does not answer, or the front refuses the request for its   *)
(* client's limit.                                                          *)
CallFails(v) ==
  /\ pc[v] \notin {"idle", "gate"} /\ trouble > 0
  /\ trouble' = trouble - 1
  /\ Respond(v, Unavailable(v))
  /\ UNCHANGED <<platform, day>>

RestartPlatform ==
  /\ trouble > 0
  /\ trouble' = trouble - 1
  /\ PlatformRestarts
  /\ UNCHANGED <<day, browser, back, pc, loc>>
=============================================================================
